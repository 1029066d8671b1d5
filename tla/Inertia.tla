------------------------------- MODULE Inertia -------------------------------
(***************************************************************************)
(* The middleware of the stack: what each does to a request on its way in  *)
(* and to its outcome on the way out (adapter.rs, middleware.rs, auth.rs,  *)
(* inertia.rs of crates/luxid-core, and WithDatabase of the data layer).   *)
(*                                                                         *)
(* The session is the cell SessionCell promises to a client whose requests *)
(* do not overlap; the operations on it are those of the session handle.   *)
(* What is kept against a key is the url last shown, what is flashed is    *)
(* the name of the submission that failed.                                 *)
(***************************************************************************)
EXTENDS Naturals, Sequences

CONSTANTS Urls,         \* the urls a page can be at
          Submissions,  \* the names of form submissions
          None

PREVIOUS_URL == "__luxid_previous_url"

S == INSTANCE Session WITH Requests <- Urls \cup Submissions,
                           Keys <- {PREVIOUS_URL}

Ok(response) == [kind |-> "ok", response |-> response]
Err(error, fields) == [kind |-> error, fields |-> fields]
Running == [kind |-> "running"]
IsErr(outcome) == outcome.kind \notin {"ok", "running"}

StatusOf(error) ==
    CASE error = "validation" -> 422 [] error = "not-found" -> 404
      [] error = "unauthorized" -> 401 [] error = "forbidden" -> 403
      [] error = "conflict" -> 409 [] error = "bad-request" -> 400
      [] error = "internal" -> 500

Response(status) == [status |-> status, location |-> None, page |-> None]
Redirect(location) == [Response(303) EXCEPT !.location = location]

\* The header on a 409 that tells the client to load the page afresh.
Reload(location) == [Response(409) EXCEPT !.location = location]

\* A fresh context: anonymous, every per-request handle detached.
NewContext == [auth |-> None, database |-> FALSE, session |-> None,
               inertia |-> None, outcome |-> Running, entered |-> 0]

Halt(ctx, outcome) == [ctx EXCEPT !.outcome = outcome]

\* Mutant: without a guard that requires one, a token that does not verify is
\* none.
JwtGuardLenient(ctx, req, required) ==
    IF req.token # None /\ req.token.valid THEN [ctx EXCEPT !.auth = req.token.subject]
    ELSE IF required THEN Halt(ctx, Err("unauthorized", <<>>)) ELSE ctx

\* A token that verifies names its subject; any other is refused, whether the
\* route requires one or not.
JwtGuard(ctx, req, required) ==
    IF req.token # None
    THEN IF req.token.valid THEN [ctx EXCEPT !.auth = req.token.subject]
                            ELSE Halt(ctx, Err("unauthorized", <<>>))
    ELSE IF required THEN Halt(ctx, Err("unauthorized", <<>>)) ELSE ctx

OpenSession(cell) == S!AgeFlash(S!Attached(<<None, 0>>, cell))

SessionGuard(ctx, cell) ==
    LET opened == OpenSession(cell)
    IN [ctx EXCEPT !.session = opened,
                   !.auth = IF opened.data.subject # None THEN opened.data.subject
                                                          ELSE @]

IsGet(req) == req.method = "GET"
IsPartial(req) == req.partial # None

\* Mutant: the url of any request is remembered.
RemembersAny(ctx, req) == ctx.session # None

\* The requests whose url a failed form bounces back to.
Remembers(ctx, req) == IsGet(req) /\ ~IsPartial(req) /\ ctx.session # None

\* Mutant: a submission is turned away when its assets are stale.
StaleAlways(req, version) == req.inertia /\ req.version # version

\* Only a page may be refused: refusing a submission would lose its input.
Stale(req, version) == req.inertia /\ IsGet(req) /\ req.version # version

InertiaGuard(ctx, req, version) ==
    IF Stale(req, version) THEN Halt(ctx, Ok(Reload(req.path)))
    ELSE LET flashed == IF ctx.session = None THEN {} ELSE ctx.session.data.now
             session == IF Remembers(ctx, req)
                        THEN S!Put(ctx.session, PREVIOUS_URL, req.path)
                        ELSE ctx.session
             previous == IF session = None THEN None
                         ELSE session.data.vals[PREVIOUS_URL]
         IN [ctx EXCEPT
               !.session = session,
               !.inertia = [hasSession |-> ctx.session # None, errors |-> flashed,
                            back |-> IF previous = None THEN <<>> ELSE previous,
                            version |-> version]]

\* One middleware on the way in.
Enter(name, ctx, req, cell, version) ==
    CASE name = "database" -> [ctx EXCEPT !.database = TRUE]
      [] name = "jwt" -> JwtGuard(ctx, req, TRUE)
      [] name = "optional_jwt" -> JwtGuard(ctx, req, FALSE)
      [] name = "session" -> SessionGuard(ctx, cell)
      [] name = "inertia" -> InertiaGuard(ctx, req, version)

\* The chain goes on behind a middleware unless one has answered.  `entered`
\* counts those that called the rest of it.
Through(name, ctx, req, cell, version) ==
    LET next == Enter(name, ctx, req, cell, version)
    IN IF ctx.outcome # Running THEN ctx
       ELSE IF next.outcome # Running THEN next
       ELSE [next EXCEPT !.entered = @ + 1]

\* The whole chain up to the action, or to the middleware that answers.
Inbound(stack, req, cell, version) ==
    LET after[i \in 0 .. Len(stack)] ==
            IF i = 0 THEN NewContext
            ELSE Through(stack[i], after[i - 1], req, cell, version)
    IN  after[Len(stack)]

\* Mutant: a partial reload is honoured whatever component it lands on.
PartialOf(req, component) == IsPartial(req)

\* A subset of the props is sent only to a client that shows this component.
ComponentMatches(req, component) == IsPartial(req) /\ req.partial = component

\* A page: the shared errors first, then what the action passes; all of it
\* or the subset asked for.
Render(ctx, req, component, props) ==
    LET merged == {"errors"} \cup props
        sent == IF ComponentMatches(req, component) THEN merged \cap req.only
                                                    ELSE merged
    IN IF ctx.inertia = None THEN Err("internal", <<>>)
       ELSE Ok([Response(200) EXCEPT !.page =
              [component |-> component, props |-> sent,
               errors |-> IF "errors" \in sent THEN ctx.inertia.errors ELSE {},
               url |-> req.path, version |-> ctx.inertia.version,
               json |-> req.inertia]])

\* Mutant: whatever an Inertia request came to, it bounces.
LeaveInertiaAny(ctx, req) ==
    IF ~req.inertia THEN ctx
    ELSE [ctx EXCEPT !.session = S!Flash(@, req.submission),
                     !.outcome = Ok(Redirect(ctx.inertia.back))]

\* A failed validation on an Inertia request becomes a bounce to the form.
LeaveInertia(ctx, req) ==
    IF ctx.outcome.kind # "validation" \/ ~req.inertia THEN ctx
    ELSE IF ~ctx.inertia.hasSession THEN Halt(ctx, Err("internal", <<>>))
    ELSE [ctx EXCEPT !.session = S!Flash(@, req.submission),
                     !.outcome = Ok(Redirect(ctx.inertia.back))]

\* Only the Inertia middleware changes an outcome; the session guard passes an
\* error on before it reaches its write.
Leave(name, ctx, req) == IF name = "inertia" THEN LeaveInertia(ctx, req) ELSE ctx

\* The chain on the way out, innermost first.
Outbound(stack, ctx, req) ==
    LET left[i \in 0 .. ctx.entered] ==
            IF i = 0 THEN ctx ELSE Leave(stack[ctx.entered + 1 - i], left[i - 1], req)
    IN  left[ctx.entered]

\* Mutant: the session is written back whatever became of the request.
CellAfterAny(ctx, cell) ==
    IF ctx.session = None THEN cell ELSE ctx.session.data

\* The cell the client's next request finds.
CellAfter(ctx, cell) ==
    IF ctx.session = None \/ IsErr(ctx.outcome) \/ ~ctx.session.dirty THEN cell
    ELSE ctx.session.data
==============================================================================
