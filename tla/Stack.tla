-------------------------------- MODULE Stack --------------------------------
(***************************************************************************)
(* A running application: requests dispatched to a handler, carried        *)
(* through its middleware into an action, the action's statements against  *)
(* the database one at a time and interleaved with those of other          *)
(* requests, and the outcome carried back out to the client.               *)
(*                                                                         *)
(* Two actors send requests.  As two tabs of one browser they share a      *)
(* session and do not overlap; as two clients they overlap freely.  The    *)
(* process may be replaced at any moment by a new deployment.              *)
(***************************************************************************)
EXTENDS Matching, Models, Validation

CONSTANTS Lists,      \* what the router was made into: what is served, and printed
          Settings,   \* what the two actors are and what they ask for
          PerPage,    \* the page size of the listing
          MaxUsers,   \* bound: rows ever inserted
          Teams,      \* the ids of the teams there are at first
          Malformed   \* an id, a page number or a body that cannot be decoded

VARIABLES setting,   \* the chosen element of Settings
          version,   \* the asset version of the deployed application
          cells,     \* cells[c]: the session the next request of c finds
          users, teams, nextId,   \* the tables
          tab,       \* tab[a]: the page actor a shows, and the request it owes
          serving,   \* serving[a]: the request of a the server works on
          due,       \* due[c]: history, the failed submission not yet shown
          last       \* last[c]: history, the page c was last given

vars == <<setting, version, cells, users, teams, nextId, tab, serving, due, last>>

Actors == {1, 2}
ClientOf(a) == IF setting.browser THEN 1 ELSE a

Home == <<>>
Posts == <<"posts">>
Post == <<"posts", "#">>   \* "#" stands for an id, the request's `id`
AllUsers == <<"api", "users">>
OneUser == <<"api", "users", "#">>
AllTeams == <<"api", "teams">>
OneTeam == <<"api", "teams", "#">>
Submissions == {"first form", "second form", "third form"}

Components == {"Home", "Posts", "Posts/Show"}
PropsOf(component) == CASE component = "Home" -> {"message", "extra"}
                        [] component = "Posts" -> {"posts", "filter"}
                        [] component = "Posts/Show" -> {"title"}
Props == {"errors"} \cup UNION {PropsOf(c) : c \in Components}

I == INSTANCE Inertia WITH Urls <- {Home, Posts, Post}

ASSUME StackAssumption ==
    /\ Settings \subseteq [browser : BOOLEAN, reads : BOOLEAN]
    /\ PerPage \in Nat \ {0} /\ MaxUsers \in Nat
    /\ Teams \subseteq Nat \ {0} /\ IsFiniteSet(Teams)

\* Nothing that is there is taken for what is not: a version, a submission, a
\* url, a token, a session, the state of a page request, a page sent or shown.
ASSUME NoneAssumption ==
    /\ None \notin {1, 2} /\ None \notin Submissions /\ None \notin {Home, Posts, Post}
    /\ None \notin [subject : Nat, valid : BOOLEAN]
    /\ None \notin [id : {<<None, 0>>}, data : I!S!Data,
                    dirty : BOOLEAN, destroyed : BOOLEAN]
    /\ None \notin [hasSession : BOOLEAN, errors : SUBSET Submissions,
                    back : {Home, Posts, Post}, version : {1, 2}]
    /\ None \notin [component : Components, props : SUBSET Props, errors : SUBSET Submissions,
                    url : {Home, Posts, Post}, version : {1, 2}, json : BOOLEAN]
    /\ None \notin [component : Components, props : SUBSET Props, version : {1, 2}]

---------------------------------------------------------------------------
(* The application: where the requests of its clients go, and its forms.   *)

\* The handlers of the server, and the rows of `luxid routes`.
Served == Lists.served
Printed == Lists.printed

Reaches(method, path, action, middleware) ==
    LET n == Dispatch(Served, method, path)
    IN /\ n # 0 /\ Served[n].kind = "route"
       /\ Served[n].action = action /\ Served[n].middleware = middleware

Api == <<"database", "jwt">>
Pages == <<"database", "session", "inertia">>

ASSUME ServedAssumption ==
    /\ Reaches("GET", Home, "pages.home", Pages)
    /\ Reaches("GET", Posts, "pages.index", Pages)
    /\ Reaches("POST", Posts, "pages.store", Pages)
    /\ Reaches("PUT", Post, "pages.update", Pages)
    /\ Reaches("GET", AllUsers, "users.index", Api)
    /\ Reaches("POST", AllUsers, "users.store", Api)
    /\ Reaches("PUT", OneUser, "users.update", Api)
    /\ Reaches("DELETE", OneUser, "users.destroy", Api)
    /\ Reaches("GET", AllTeams, "teams.index", <<"database", "optional_jwt">>)
    /\ Reaches("DELETE", OneTeam, "teams.destroy",
               <<"database", "optional_jwt", "jwt">>)
    /\ Reaches("GET", <<"detached">>, "pages.home", <<"database">>)
    /\ LET n == Dispatch(Served, "GET", <<"build", "app.js">>)
       IN n # 0 /\ Served[n].kind = "static" /\ Served[n].action = "static files"
                /\ Served[n].middleware = <<>>
    /\ Dispatch(Served, "GET", <<"nowhere">>) = 0

StorePost == <<Field("title", FALSE, <<LengthRule(3, None)>>)>>

StoreUser ==
    <<Field("name", FALSE, <<LengthRule(2, 64), CustomRule({"A"})>>),
      Field("email", FALSE, <<Rule("email"), UniqueRule(FALSE)>>),
      Field("team_id", FALSE, <<Rule("exists")>>),
      Field("age", TRUE, <<RangeRule(18, 120)>>)>>

\* `except` reads the row's id from the body, where an honest client repeats
\* the one in its path.
UpdateUser == <<Field("email", FALSE, <<Rule("email"), UniqueRule(TRUE)>>)>>

FormOf(action) == CASE action = "pages.store" -> StorePost
                    [] action = "pages.update" -> StorePost
                    [] action = "users.store" -> StoreUser
                    [] action = "users.update" -> UpdateUser

---------------------------------------------------------------------------
(* The work of one request. *)

Idle == [pc |-> "idle"]

\* checks: queries left to validate with; seen: whether the email was found
\* free; raced: history, whether it was taken since; came, gone: history,
\* whether a row came or went since the count.
NewWork == [checks |-> <<>>, errors |-> NoErrors, seen |-> FALSE, raced |-> FALSE,
            total |-> 0, came |-> FALSE, gone |-> FALSE,
            data |-> <<>>, rows |-> <<>>, related |-> <<>>,
            wrote |-> FALSE, refused |-> None]

Finish(s, outcome) == [s EXCEPT !.pc = "answer", !.ctx.outcome = outcome]
Goto(s, pc) == [s EXCEPT !.pc = pc]

Writes(action) == IF action = "users.store" THEN "insert"
                  ELSE IF action = "users.update" THEN "update" ELSE "render"

\* Every rule has run: fail with all of them, or go on.
Verdict(s) == IF s.work.errors # NoErrors
              THEN Finish(s, I!Err("validation", FirstMessages(s.work.errors)))
              ELSE Goto(s, Writes(s.action))

\* The rules that need no database have run.
Checked(s) ==
    LET form == FormOf(s.action)
    IN [s EXCEPT !.work.errors = ValidateSync(form, s.req.body),
                 !.work.checks = AsyncChecks(form, s.req.body)]

\* The body is decoded, and all it can be told without a query.
Validate(s) ==
    LET checked == Checked(s)
    IN IF s.req.body = Malformed THEN Finish(s, I!Err("bad-request", <<>>))
       ELSE IF checked.work.checks = <<>> THEN Verdict(checked)
       ELSE Goto(checked, "check")

RenderPage(s, component) ==
    Finish(s, I!Render(s.ctx, s.req, component, PropsOf(component)))

\* What follows the validation of a page's form.
Submitted(s) ==
    IF s.pc # "render" THEN s
    ELSE IF s.action = "pages.store" THEN RenderPage(s, "Posts/Show")
    ELSE Finish(s, I!Ok(I!Redirect(Posts)))

\* An action up to its first statement.
Begin(s) ==
    CASE s.action = "pages.home" -> RenderPage(s, "Home")
      [] s.action = "pages.index" -> RenderPage(s, "Posts")
      [] s.action \in {"pages.store", "pages.update"} -> Submitted(Validate(s))
      [] s.action = "users.index" ->
           IF s.req.id = Malformed THEN Finish(s, I!Err("bad-request", <<>>))
                                   ELSE Goto(s, "count")
      [] s.action = "users.store" -> Validate(s)
      [] s.action \in {"users.update", "users.destroy", "teams.destroy"} ->
           IF s.req.id = Malformed THEN Finish(s, I!Err("bad-request", <<>>))
           ELSE Goto(s, IF s.action = "teams.destroy" THEN "delete" ELSE "find")
      [] s.action = "teams.index" -> Goto(s, "all")

Taken(req, action, stack, ctx) ==
    [pc |-> "begin", req |-> req, action |-> action, stack |-> stack,
     ctx |-> ctx, work |-> NewWork]

\* A request as the server takes it up.  What no handler matches is a bare
\* 404, and a file is sent as it is; neither passes through any middleware.
TakenUp(a, req) ==
    LET n == Dispatch(Served, req.method, req.path)
        ctx == I!Inbound(Served[n].middleware, req, cells[ClientOf(a)], version)
        s == Taken(req, Served[n].action, Served[n].middleware, ctx)
    IN IF n = 0 THEN Finish(Taken(req, "none", <<>>, I!NewContext),
                            I!Err("not-found", <<>>))
       ELSE IF Served[n].kind = "static" THEN Finish(s, I!Ok(I!Response(200)))
       ELSE IF ctx.outcome # I!Running THEN Goto(s, "answer")
       ELSE Begin(s)

---------------------------------------------------------------------------
(* What the actors send. *)

Request(method, path) ==
    [method |-> method, path |-> path, id |-> None, body |-> None, token |-> None,
     inertia |-> FALSE, version |-> None, partial |-> None, only |-> {},
     submission |-> None]

\* The client adds these to every navigation of the page it shows.
Navigating(req, page) == [req EXCEPT !.inertia = TRUE, !.version = page.version]

Blank == [page |-> None, assets |-> None, todo |-> None]

\* A name for a submission that no trace is left of in the session.
NewName(c) ==
    LET used == {due[c]} \cup cells[c].next \cup cells[c].now
    IN CHOOSE n \in Submissions : used \cap Submissions # Submissions => n \notin used

\* A form of a page, and a page asked for one of its props again.
Submitting(a, m, title) ==
    [Request(m, IF m = "POST" THEN Posts ELSE Post) EXCEPT
        !.body = [title |-> title], !.submission = NewName(ClientOf(a))]
Forms(a) == {Submitting(a, m, title) : m \in {"POST", "PUT"}, title \in {"ab", "abc"}}
Reloading(req, page) ==
    [Navigating(req, page) EXCEPT !.partial = page.component, !.only = {"posts"}]

\* A browser loads a page, follows a link in it, asks for one prop of it
\* again, or submits its form, with or without the client's script.  The
\* second tab only loads pages and follows links.
BrowserRequests(a) ==
    LET page == tab[a].page
        gets == {Request("GET", url) : url \in {Home, Posts}}
    IN gets \cup IF page = None THEN {}
                 ELSE IF a = 2 THEN {Navigating(r, page) : r \in gets}
                 ELSE {Navigating(r, page) : r \in gets \cup Forms(a)}
                        \cup Forms(a) \cup {Reloading(r, page) : r \in gets}

Token(subject, valid) == [subject |-> subject, valid |-> valid]

ApiRequest(method, path, token) ==
    [Request(method, path) EXCEPT !.token = token]

User(name, email, team, age) ==
    [name |-> name, email |-> email, team_id |-> team, age |-> age]

Registering(a, body) ==
    [ApiRequest("POST", AllUsers, Token(a, TRUE)) EXCEPT !.body = body]
Renaming(a, i, email) ==
    [ApiRequest("PUT", OneUser, Token(a, TRUE)) EXCEPT !.id = i, !.body = [email |-> email]]
Removing(token, i) == [ApiRequest("DELETE", OneUser, token) EXCEPT !.id = i]

\* New rows stay within the bound, those under way included.
RoomFor(a) ==
    nextId + Cardinality({b \in Actors \ {a} : serving[b].pc # "idle" /\
                            serving[b].action = "users.store"}) <= MaxUsers

\* Two clients who register and rename people under the same two addresses (0
\* is not the shape of one), and who both may remove the first.
WriterRequests(a) ==
    LET Bodies == {User("Ada", e, 1, None) : e \in Actors}
                    \cup {User("A", 0, 9, 17), Malformed}
        Tokens == {Token(1, TRUE), Token(1, FALSE), None}
    IN {Registering(a, b) : b \in IF RoomFor(a) THEN Bodies ELSE {}}
       \cup {Renaming(a, i, e) : i \in Actors, e \in Actors}
       \cup {Removing(t, 1) : t \in Tokens}

\* One client lists people and teams while another registers and removes.
ReaderRequests(a) ==
    LET mine == Token(a, TRUE)
    IN IF a = 1
       THEN {[ApiRequest("GET", AllUsers, mine) EXCEPT !.id = p] :
               p \in 0..(MaxUsers \div PerPage + 1) \cup {Malformed}}
            \cup {ApiRequest("GET", AllTeams, t) : t \in {None, mine, Token(a, FALSE)}}
            \cup {Request("GET", p) : p \in {<<"detached">>, <<"build", "app.js">>,
                                            <<"nowhere">>}}
       ELSE {Registering(a, User("Ada", nextId, t, None)) :
               t \in IF RoomFor(a) THEN Teams ELSE {}}
            \cup {Removing(Token(i, TRUE), i) : i \in DOMAIN users}
            \cup {[ApiRequest("DELETE", OneTeam, mine) EXCEPT !.id = i] : i \in Teams}

Wanted(a) == IF setting.browser THEN BrowserRequests(a)
             ELSE IF setting.reads THEN ReaderRequests(a) ELSE WriterRequests(a)

---------------------------------------------------------------------------
Init ==
    /\ setting \in Settings
    /\ version = 1
    /\ cells = [c \in Actors |-> I!S!EmptyData]
    /\ users = <<>> /\ nextId = 1
    /\ teams = [t \in Teams |-> [name |-> "team"]]
    /\ tab = [a \in Actors |-> Blank]
    /\ serving = [a \in Actors |-> Idle]
    /\ due = [c \in Actors |-> None]
    /\ last = [c \in Actors |-> Home]

tables == <<users, teams, nextId>>
web == <<setting, version, cells, tab, due, last>>

\* Requests of one browser wait for each other.
Free(a) == \A b \in Actors : ClientOf(b) = ClientOf(a) => serving[b] = Idle

Take(a, req) == serving' = [serving EXCEPT ![a] = TakenUp(a, req)]

Send(a) ==
    /\ Free(a) /\ tab[a].todo = None
    /\ \E req \in Wanted(a) :
          Take(a, req)
    /\ UNCHANGED <<setting, version, cells, tables, tab, due, last>>

\* A redirect is followed, a page loaded afresh, before anything else.
FollowUp(a) ==
    /\ Free(a) /\ tab[a].todo # None
    /\ Take(a, tab[a].todo)
    /\ tab' = [tab EXCEPT ![a].todo = None]
    /\ UNCHANGED <<setting, version, cells, tables, due, last>>

At(a, pc) == serving[a].pc = pc
Step(a, s) == serving' = [serving EXCEPT ![a] = s]

\* Mutant: a form that names a row to except is not checked at all.
IsRefusedOnCreate(check, req) ==
    /\ check.rule.name = "unique" => ~check.rule.except
    /\ CASE check.rule.name = "unique" ->
              \E i \in DOMAIN users : users[i].email = req.body[check.field]
         [] check.rule.name = "exists" -> req.body[check.field] \notin DOMAIN teams

\* Whether the table refuses a value of a form.
IsRefused(check, req) ==
    LET value == req.body[check.field]
    IN CASE check.rule.name = "unique" ->
              \E i \in DOMAIN users : /\ users[i].email = value
                                      /\ ~(check.rule.except /\ i = req.id)
         [] check.rule.name = "exists" -> value \notin DOMAIN teams

\* One query of the validation.
Check(a) ==
    LET s == serving[a]
        check == Head(s.work.checks)
        broken == IsRefused(check, s.req)
        next == [s EXCEPT
                   !.work.checks = Tail(@),
                   !.work.seen = @ \/ (check.rule.name = "unique" /\ ~broken),
                   !.work.errors = IF broken THEN Add(@, check.field, check.rule.name)
                                             ELSE @]
    IN /\ At(a, "check")
       /\ Step(a, IF next.work.checks = <<>> THEN Verdict(next) ELSE next)
       /\ UNCHANGED <<web, tables>>

Refuse(s, when) ==
    Finish([s EXCEPT !.work.refused = when], I!Err("conflict", <<>>))

\* What the others know of a row written under an email: one that found the
\* email free and will write it to another row has been overtaken.
Overtaken(a, email, row) ==
    [b \in Actors |->
       IF b # a /\ serving[b].pc \in {"check", "insert", "update"}
            /\ serving[b].work.seen
            /\ serving[b].req.body.email = email
            /\ (serving[b].action = "users.store" \/ serving[b].req.id # row)
       THEN [serving[b] EXCEPT !.work.raced = TRUE]
       ELSE IF b # a /\ serving[b].pc = "fetch"
       THEN [serving[b] EXCEPT !.work.came = TRUE]
       ELSE serving[b]]

\* What is about to be stored: the values asked for, not yet through a hook.
Active(s, team) == [email |-> s.req.body.email, team |-> team, stamped |-> FALSE,
                    raced |-> s.work.raced]

\* Mutant: the write that runs no hooks.
WithoutHooks(active) == active

\* `before_save`, which may change what is about to be stored.
BeforeSave(active) == [active EXCEPT !.stamped = TRUE]

WithoutKey(table, i) == [k \in DOMAIN table \ {i} |-> table[k]]

\* One of the hooks before a write refuses it.
RefuseWrite(a) ==
    /\ serving[a].pc \in {"insert", "update"}
    /\ Step(a, Refuse(serving[a], "before"))
    /\ UNCHANGED <<web, tables>>

Insert(a) ==
    LET s == serving[a]
        written == [s EXCEPT !.work.wrote = TRUE, !.pc = "after"]
    IN /\ At(a, "insert")
       /\ users' = WithKey(users, nextId, BeforeSave(Active(s, s.req.body.team_id)))
       /\ nextId' = nextId + 1
       /\ serving' = [Overtaken(a, s.req.body.email, nextId) EXCEPT ![a] = written]
       /\ UNCHANGED <<web, teams>>

\* A row deleted since it was found is a database error.
Update(a) ==
    LET s == serving[a]
        i == s.req.id
        written == [s EXCEPT !.work.wrote = TRUE, !.pc = "after"]
    IN /\ At(a, "update")
       /\ IF i \in DOMAIN users
          THEN /\ users' = [users EXCEPT ![i] = BeforeSave(Active(s, @.team))]
               /\ serving' = [Overtaken(a, s.req.body.email, i) EXCEPT ![a] = written]
          ELSE /\ Step(a, Finish(s, I!Err("internal", <<>>)))
               /\ UNCHANGED users
       /\ UNCHANGED <<web, teams, nextId>>

\* The hooks after a write; the row stays whatever they answer.
AfterHooks(a) ==
    LET s == serving[a]
        status == IF s.action = "users.store" THEN 201 ELSE 200
    IN /\ At(a, "after")
       /\ \/ Step(a, Refuse(s, "after"))
          \/ Step(a, Finish(s, I!Ok(I!Response(status))))
       /\ UNCHANGED <<web, tables>>

\* The policy: a user may change their own row.
Authorized(s) == s.ctx.auth = s.req.id

\* `find_or_fail`, and the policy on what it found.
Find(a) ==
    LET s == serving[a]
    IN /\ At(a, "find")
       /\ Step(a, IF s.req.id \notin DOMAIN users
                  THEN Finish(s, I!Err("not-found", <<>>))
                  ELSE IF ~Authorized(s)
                  THEN Finish(s, I!Err("forbidden", <<>>))
                  ELSE IF s.action = "users.update" THEN Validate(s)
                  ELSE Goto(s, "delete"))
       /\ UNCHANGED <<web, tables>>

\* Deleting what is already gone is no error.
Delete(a) ==
    LET s == serving[a]
        done == [Finish(s, I!Ok(I!Response(204))) EXCEPT !.work.wrote = TRUE]
        seenGone(b) == [serving[b] EXCEPT !.work.gone = TRUE]
    IN /\ At(a, "delete")
       /\ IF s.action = "teams.destroy"
          THEN teams' = WithoutKey(teams, s.req.id) /\ UNCHANGED users
          ELSE users' = WithoutKey(users, s.req.id) /\ UNCHANGED teams
       /\ serving' = [b \in Actors |->
                        IF b = a THEN done
                        ELSE IF At(b, "fetch") /\ users' # users THEN seenGone(b)
                        ELSE serving[b]]
       /\ UNCHANGED <<web, nextId>>

---------------------------------------------------------------------------
(* Listings: a count, a page, its relations, each a statement of its own. *)

Count(a) ==
    /\ At(a, "count")
    /\ Step(a, [serving[a] EXCEPT !.work.total = Cardinality(DOMAIN users),
                                  !.pc = "fetch"])
    /\ UNCHANGED <<web, tables>>

\* A listing done: nothing to load relations for, or all of them loaded.
Listed(s) == Finish(s, I!Ok(I!Response(200)))

Fetch(a) ==
    LET s == serving[a]
        data == FetchPage(InOrder(DOMAIN users), PageIndex(s.req.id), PerPage)
        next == [s EXCEPT !.work.data = data,
                          !.work.rows = [i \in ToSet(data) |-> users[i]]]
    IN /\ At(a, "fetch")
       /\ Step(a, IF data = <<>> THEN Listed(next) ELSE Goto(next, "load"))
       /\ UNCHANGED <<web, tables>>

LoadTeam(a) ==
    LET w == serving[a].work
    IN /\ At(a, "load")
       /\ Step(a, Listed([serving[a] EXCEPT
               !.work.related = LoadBelongsTo(w.rows, w.data, "team", teams)]))
       /\ UNCHANGED <<web, tables>>

All(a) ==
    LET data == InOrder(DOMAIN teams)
        next == [serving[a] EXCEPT !.work.data = data]
    IN /\ At(a, "all")
       /\ Step(a, IF data = <<>> THEN Listed(next) ELSE Goto(next, "members"))
       /\ UNCHANGED <<web, tables>>

LoadMembers(a) ==
    LET w == serving[a].work
    IN /\ At(a, "members")
       /\ Step(a, Listed([serving[a] EXCEPT !.work.related =
               [members |-> LoadHasMany(w.data, users, "team"),
                first |-> LoadHasOne(w.data, users, "team")]]))
       /\ UNCHANGED <<web, tables>>

---------------------------------------------------------------------------
(* The answer, and what the browser makes of it. *)

\* The context once the chain has been left.
Left(s) == I!Outbound(s.stack, s.ctx, s.req)

\* What is written on the wire.
Written(outcome) == IF I!IsErr(outcome) THEN I!Response(I!StatusOf(outcome.kind))
                                        ELSE outcome.response

\* A bounced form or a reload: the client keeps its headers across a
\* redirect, and drops them to load a page afresh.
Follow(req, location) ==
    [req EXCEPT !.method = "GET", !.path = location, !.body = None,
                !.submission = None]

\* A page that answers a partial reload of the same component is merged into
\* the one shown.  A page for other assets than those loaded is loaded afresh.
Shown(t, req, page) ==
    LET shown(props) == [component |-> page.component, props |-> props,
                         version |-> page.version]
    IN IF ~page.json
       THEN [t EXCEPT !.page = shown(page.props), !.assets = page.version]
       ELSE IF page.version # t.assets
       THEN [t EXCEPT !.todo = Request("GET", page.url)]
       ELSE IF I!IsPartial(req) /\ page.component = t.page.component
       THEN [t EXCEPT !.page = shown(page.props \cup @.props)]
       ELSE [t EXCEPT !.page = shown(page.props)]

Received(t, req, response) ==
    IF ~setting.browser THEN t
    ELSE IF response.page # None THEN Shown(t, req, response.page)
    ELSE IF response.status = 303
    THEN [t EXCEPT !.todo = Follow(req, response.location)]
    ELSE IF response.status = 409
    THEN [t EXCEPT !.todo = Request("GET", response.location)]
    ELSE IF req.inertia THEN t
    ELSE [t EXCEPT !.page = None, !.assets = None]

\* History: the submission whose errors the session now owes the client.
DueAfter(s, r, owed) ==
    IF r.session = None \/ I!IsErr(r.outcome) THEN owed
    ELSE IF s.ctx.outcome.kind = "validation" THEN s.req.submission
    ELSE None

IsPage(s, r) == /\ r.session # None /\ ~I!IsErr(r.outcome)
                /\ I!IsGet(s.req) /\ ~I!IsPartial(s.req)
                /\ r.outcome.response.status = 200

Answer(a) ==
    LET s == serving[a]
        c == ClientOf(a)
        r == Left(s)
    IN /\ At(a, "answer")
       /\ Step(a, Idle)
       /\ cells' = [cells EXCEPT ![c] = I!CellAfter(r, @)]
       /\ tab' = [tab EXCEPT ![a] = Received(@, s.req, Written(r.outcome))]
       /\ due' = [due EXCEPT ![c] = DueAfter(s, r, @)]
       /\ last' = [last EXCEPT ![c] = IF IsPage(s, r) THEN s.req.path ELSE @]
       /\ UNCHANGED <<setting, version, tables>>

\* The process is replaced.  What it was serving is cut off, and the
\* sessions go with it when it kept them itself.
Deploy ==
    \E durable \in BOOLEAN :
       LET kept(f, empty) == IF durable THEN f ELSE [c \in Actors |-> empty]
       IN /\ version' = IF setting.browser THEN 3 - version ELSE version
          /\ serving' = [a \in Actors |-> Idle]
          /\ cells' = kept(cells, I!S!EmptyData)
          /\ due' = kept(due, None)
          /\ last' = kept(last, Home)
          /\ UNCHANGED <<setting, tables, tab>>

Next ==
    \/ Deploy
    \/ \E a \in Actors :
          \/ Send(a) \/ FollowUp(a) \/ Answer(a)
          \/ Check(a) \/ RefuseWrite(a) \/ Insert(a) \/ Update(a)
          \/ AfterHooks(a) \/ Find(a) \/ Delete(a)
          \/ Count(a) \/ Fetch(a) \/ LoadTeam(a) \/ All(a) \/ LoadMembers(a)

Spec == Init /\ [][Next]_vars
==============================================================================
