--------------------------- MODULE StackProperties ---------------------------
(***************************************************************************)
(* What the web and data layers promise an application built on them.      *)
(***************************************************************************)
EXTENDS Stack

Working(a) == serving[a].pc # "idle"
Answering(a) == serving[a].pc = "answer"
StatusFor(a) == Written(Left(serving[a]).outcome).status
ResponseFor(a) == Left(serving[a]).outcome.response
PageFor(a) == ResponseFor(a).page
HasPage(a) == StatusFor(a) = 200 /\ PageFor(a) # None

\* The shapes of the tables, the sessions and the tabs, and the bounds.
TypeOK ==
    /\ setting \in Settings /\ version \in {1, 2}
    /\ \A c \in Actors : cells[c] \in I!S!Data
    /\ nextId \in 1..(MaxUsers + 1) /\ DOMAIN users \subseteq 1..(nextId - 1)
    /\ DOMAIN teams \subseteq Teams
    /\ \A i \in DOMAIN users : users[i].raced \in BOOLEAN
    /\ \A a \in Actors : /\ tab[a].assets \in {None, 1, 2}
                         /\ (tab[a].page = None) = (tab[a].assets = None)
    /\ due \in [Actors -> Submissions \cup {None}]
    /\ last \in [Actors -> {Home, Posts}]

\* No action reached through a group that requires a token starts without
\* one that verified, as its subject; a token that does not verify reaches no
\* action even where none is required; and none starts outside the database's
\* scope.  (Auth::jwt on groups, resources and routes: router.rs, auth.rs.)
GuardsBeforeActions ==
    \A a \in Actors : Working(a) =>
        LET s == serving[a]
            required == s.action \in {"users.index", "users.store", "users.update",
                                      "users.destroy", "teams.destroy"}
        IN s.action \in {"none", "static files"} \/ s.ctx.outcome.kind = "unauthorized"
           \/ /\ s.ctx.database
              /\ required => s.req.token # None
              /\ IF s.req.token = None THEN s.ctx.auth = None
                 ELSE s.req.token.valid /\ s.ctx.auth = s.req.token.subject

\* The table `luxid routes` prints is the one requests are served by: what
\* answers a request is the row it says, through as many middleware as it
\* says, and a request that no handler takes fits no row.  (describe_into and
\* flatten_into walk the same tree twice: router.rs.)
RouteTableIsTrue ==
    \A a \in Actors : Working(a) =>
        LET s == serving[a]
            Fits(row) == row.method = s.req.method /\ Matches(row.path, s.req.path)
            rows == ToSet(Printed)
        IN IF s.action = "none" THEN \A row \in rows : ~Fits(row)
           ELSE \E row \in rows : /\ Fits(row) /\ row.action = s.action
                                  /\ row.middleware = Len(s.stack)

\* Two rows hold the same unique value only when the later writer was
\* overtaken between its query and its write: the rule is not a constraint,
\* and this is all it can promise.  (Rule::Unique: validate.rs; insert and
\* update: model.rs.)
UniqueUnlessOvertaken ==
    \A i, j \in DOMAIN users :
        i # j /\ users[i].email = users[j].email =>
            users[i].raced \/ users[j].raced

\* Every stored row went through the hooks before its write.  An answer that
\* blames the client wrote nothing and one that reports success did write,
\* except that a hook after the write may refuse what is already stored.
\* (insert, update: model.rs; the order of hooks.rs.)
HooksSurroundWrites ==
    /\ \A i \in DOMAIN users : users[i].stamped
    /\ \A a \in Actors : Answering(a) =>
        LET s == serving[a]
        IN /\ StatusFor(a) \in 400..499 /\ s.work.wrote => s.work.refused = "after"
           /\ StatusFor(a) \in {200, 201, 204}
              /\ s.action \in {"users.store", "users.update", "users.destroy"} =>
                 s.work.wrote

\* A listing and its counters fit together although they are two queries: a
\* page with more to come is full unless a row went in between, the last page
\* ends at the total unless one came or went, and a page past the last is
\* empty unless one came.  (paginate: model.rs.)
PagesAddUp ==
    \A a \in Actors : Answering(a) /\ serving[a].action = "users.index"
                      /\ StatusFor(a) = 200 =>
        LET w == serving[a].work
            p == Paginated(w.data, serving[a].req.id, PerPage, w.total)
            before == (p.page - 1) * PerPage
        IN /\ Len(p.data) <= PerPage /\ p.last_page >= 1
           /\ HasMore(p) /\ ~w.gone => Len(p.data) = PerPage
           /\ p.page = p.last_page /\ ~w.came /\ ~w.gone =>
                 before + Len(p.data) = p.total
           /\ p.page > p.last_page /\ ~w.came => p.data = <<>>

\* Loading relations in batches gives every parent exactly the rows a join
\* would: its owner if it is still there, all its children in order, the
\* first of them.  (load_belongs_to, load_has_many, load_has_one: loading.rs.)
EagerLoadIsTheJoin ==
    [][\A a \in Actors : LET w == serving'[a].work IN
         /\ serving[a].pc = "load" /\ serving'[a].pc = "answer" =>
              \A i \in ToSet(w.data) :
                 w.related[i] = InOrder({t \in DOMAIN teams : t = w.rows[i].team})
         /\ serving[a].pc = "members" /\ serving'[a].pc = "answer" =>
              \A t \in ToSet(w.data) :
                 LET mine == InOrder({u \in DOMAIN users : users[u].team = t})
                 IN /\ w.related.members[t] = mine
                    /\ w.related.first[t] = SubSeq(mine, 1, Len(w.related.first[t]))
                    /\ (w.related.first[t] = <<>>) = (mine = <<>>)]_vars

\* A failed form of a page is never an error: it bounces to the page the
\* browser was last given, or to the root, and that is always a page there is;
\* never to where it was submitted, to part of a page, or to one that was
\* refused.  (PREVIOUS_URL: inertia.rs.)
BouncesLand ==
    \A a \in Actors :
        /\ Answering(a) /\ serving[a].ctx.outcome.kind = "validation"
           /\ serving[a].req.inertia =>
              /\ StatusFor(a) = 303
              /\ ResponseFor(a).location = last[ClientOf(a)]
        /\ tab[a].todo # None =>
              Dispatch(Served, "GET", tab[a].todo.path) # 0

\* A page carries the errors of the last failed form exactly when it answers
\* the first request to succeed since; so they are shown once, or lost to a
\* reload, a partial page or another tab, and never shown again.  (flash and
\* age_flash around the chain: auth.rs, inertia.rs.)
ErrorsFollowTheSubmission ==
    \A a \in Actors : Answering(a) /\ HasPage(a) /\ setting.browser =>
        PageFor(a).errors =
            IF "errors" \notin PageFor(a).props \/ due[ClientOf(a)] = None THEN {}
            ELSE {due[ClientOf(a)]}

\* However deployments fall between its requests, a tab follows a link only
\* to a page of the assets it loaded, and no submission is turned away.
\* (The version check: inertia.rs.)
DeploysCostNoInput ==
    \A a \in Actors : Answering(a) /\ setting.browser =>
        /\ HasPage(a) /\ PageFor(a).json /\ serving[a].req.method = "GET" =>
              PageFor(a).version = tab[a].assets
        /\ serving[a].req.method # "GET" => StatusFor(a) # 409

\* A tab always has every prop of the page it shows, partial reloads and
\* deployments included.  (component_matches: inertia.rs.)
PagesComplete ==
    \A a \in Actors : tab[a].page # None =>
        tab[a].page.props = {"errors"} \cup PropsOf(tab[a].page.component)
==============================================================================
