----------------------------- MODULE SessionGuard -----------------------------
(***************************************************************************)
(* `SessionGuard::handle` (crates/luxid-core/src/auth.rs), the middleware  *)
(* that loads a request's session, runs the rest of the pipeline and       *)
(* writes the session back, with several requests of several clients in    *)
(* flight.  The handler awaits at the load, at `next.run`, at each store   *)
(* call of the write-back and while the response leaves; requests          *)
(* interleave at exactly those points.                                     *)
(*                                                                         *)
(* pc of a request, and where its handler is:                              *)
(*   idle     not sent yet                                                 *)
(*   load     sent with its cookie, store.load pending                     *)
(*   action   inside next.run, operating on the session handle             *)
(*   destroy  snapshot taken of a destroyed session, store.destroy pending *)
(*   save     snapshot taken of a dirty session, store.save pending        *)
(*   drop     saved, store.destroy of the presented id pending             *)
(*   reply    the response is on its way to the client                     *)
(*   done     the client has the response and applied its Set-Cookie       *)
(*   failed   ended with an error, or cut off, and without a Set-Cookie    *)
(***************************************************************************)
EXTENDS Session, SessionStore, FiniteSets

CONSTANTS Clients,      \* the browsers
          ClientOf,     \* the browser that sends each request
          Ops,          \* the session operations the action of each request calls
          TTL,          \* SessionGuard.ttl
          MaxDraws,     \* bound: ids one request may draw
          MaxInFlight,  \* bound: requests one client has in flight
          MaxClock      \* bound: how far time advances

Operations == {"put", "forget", "flash", "flush", "destroy",
               "set_subject", "regenerate", "login"}

Cookies == [id : Ids, expires : Nat]

ASSUME GuardAssumption ==
    /\ ClientOf \in [Requests -> Clients]
    /\ None \notin Ids \cup Cookies
    /\ Ops \in [Requests -> SUBSET Operations]
    /\ TTL \in Nat
    /\ MaxDraws \in Nat
    /\ MaxClock \in Nat

VARIABLES pc,         \* pc[r]: where the handler of request r is
          presented,  \* presented[r]: the id its cookie carried, or None
          session,    \* session[r]: its session handle
          draws,      \* draws[r]: how many ids it has drawn
          auth,       \* auth[r]: ctx.auth, the subject it acts as, or None
          readable,   \* readable[r]: what its handle had as flash once loaded
          entries,    \* the store
          jar,        \* jar[c]: the session cookie client c holds, or None
          clock

requestVars == <<pc, presented, session, draws, auth, readable>>
vars == <<requestVars, entries, jar, clock>>

Running == {"load", "action", "destroy", "save", "drop", "reply"}
Steps == Running \cup {"idle", "done", "failed"}

TypeOK ==
    /\ pc \in [Requests -> Steps]
    /\ presented \in [Requests -> Ids \cup {None}]
    /\ session \in [Requests -> Handles]
    /\ draws \in [Requests -> Nat]
    /\ auth \in [Requests -> Requests \cup {None}]
    /\ readable \in [Requests -> SUBSET Requests]
    /\ DOMAIN entries \in SUBSET Ids
    /\ \A id \in DOMAIN entries : entries[id] \in [data : Data, expires : Nat]
    /\ jar \in [Clients -> Cookies \cup {None}]
    /\ clock \in Nat

\* A handle nobody holds yet: Load replaces it.
Unloaded(r) == Attached(<<r, 0>>, EmptyData)

Init ==
    /\ pc = [r \in Requests |-> "idle"]
    /\ presented = [r \in Requests |-> None]
    /\ session = [r \in Requests |-> Unloaded(r)]
    /\ draws = [r \in Requests |-> 0]
    /\ auth = [r \in Requests |-> None]
    /\ readable = [r \in Requests |-> {}]
    /\ entries = [id \in {} |-> None]
    /\ jar = [c \in Clients |-> None]
    /\ clock = 0
-----------------------------------------------------------------------------
InFlight(c) == {r \in Requests : ClientOf[r] = c /\ pc[r] \in Running}

\* What a browser sends: the cookie, unless its Max-Age has run out.
CookieOf(c) ==
    IF jar[c] # None /\ jar[c].expires > clock THEN jar[c].id ELSE None

Goto(r, step) == pc' = [pc EXCEPT ![r] = step]

Send(r) ==
    /\ pc[r] = "idle"
    /\ Cardinality(InFlight(ClientOf[r])) < MaxInFlight
    /\ presented' = [presented EXCEPT ![r] = CookieOf(ClientOf[r])]
    /\ Goto(r, "load")
    /\ UNCHANGED <<session, draws, auth, readable, entries, jar, clock>>

\* Mutants: the id presented is kept; every request draws the same ids.
PresentedId(r) == presented[r]
CollidingId(r) == <<CHOOSE q \in Requests : TRUE, draws[r]>>

NewId(r) == <<r, draws[r]>>

\* The handle is attached and its flash aged; the subject, if any, becomes
\* the identity the request acts as.
Attach(r, id, data) ==
    LET s == AgeFlash(Attached(id, data))
    IN  /\ session' = [session EXCEPT ![r] = s]
        /\ auth' = [auth EXCEPT ![r] = s.data.subject]
        /\ readable' = [readable EXCEPT ![r] = s.data.now]

\* store.load finds the presented id.
LoadKnown(r) ==
    /\ pc[r] = "load"
    /\ presented[r] # None
    /\ Found(entries, presented[r], clock)
    /\ Attach(r, presented[r], entries[presented[r]].data)
    /\ Goto(r, "action")
    /\ UNCHANGED <<presented, draws, entries, jar, clock>>

\* Mutant: an unknown id is taken over instead of replaced.
AdoptUnknown(r) ==
    /\ pc[r] = "load"
    /\ presented[r] # None => ~Found(entries, presented[r], clock)
    /\ Attach(r, IF presented[r] # None THEN presented[r] ELSE NewId(r), EmptyData)
    /\ draws' = [draws EXCEPT ![r] = @ + 1]
    /\ entries' = AfterLoad(entries, presented[r], clock)
    /\ Goto(r, "action")
    /\ UNCHANGED <<presented, jar, clock>>

\* No cookie, or one the store does not know or finds expired.
LoadFresh(r) ==
    /\ pc[r] = "load"
    /\ presented[r] # None => ~Found(entries, presented[r], clock)
    /\ Attach(r, NewId(r), EmptyData)
    /\ draws' = [draws EXCEPT ![r] = @ + 1]
    /\ entries' = AfterLoad(entries, presented[r], clock)
    /\ Goto(r, "action")
    /\ UNCHANGED <<presented, jar, clock>>
-----------------------------------------------------------------------------
\* The operations actions and inner middleware call on ctx.session.
Operate(r, op, s) ==
    /\ op \in Ops[r]
    /\ pc[r] = "action"
    /\ session' = [session EXCEPT ![r] = s]
    /\ UNCHANGED <<pc, presented, auth, readable, entries, jar, clock>>

DrawId(r) ==
    /\ draws[r] < MaxDraws
    /\ draws' = [draws EXCEPT ![r] = @ + 1]

PutValue(r) ==
    /\ \E k \in Keys : Operate(r, "put", Put(session[r], k, r))
    /\ UNCHANGED draws

ForgetValue(r) ==
    /\ \E k \in Keys : Operate(r, "forget", Forget(session[r], k))
    /\ UNCHANGED draws

FlashValue(r) ==
    /\ Operate(r, "flash", Flash(session[r], r))
    /\ UNCHANGED draws

FlushSession(r) ==
    /\ Operate(r, "flush", Flush(session[r]))
    /\ UNCHANGED draws

\* Both destroy() and logout().
DestroySession(r) ==
    /\ Operate(r, "destroy", Destroy(session[r]))
    /\ UNCHANGED draws

\* set_subject(), which by its own comment does not rotate the id.
NameSubject(r) ==
    /\ Operate(r, "set_subject", SetSubject(session[r], r))
    /\ UNCHANGED draws

RegenerateId(r) ==
    /\ Operate(r, "regenerate", Regenerate(session[r], NewId(r)))
    /\ DrawId(r)

LogIn(r) ==
    /\ Operate(r, "login", Login(session[r], NewId(r), r))
    /\ DrawId(r)

Act(r) ==
    \/ PutValue(r) \/ ForgetValue(r) \/ FlashValue(r) \/ FlushSession(r)
    \/ DestroySession(r) \/ NameSubject(r) \/ RegenerateId(r) \/ LogIn(r)
-----------------------------------------------------------------------------
Rotated(r) == presented[r] # session[r].id

\* next.run returned Ok: the guard takes its snapshot.  The snapshot is a
\* copy: what a task that kept the handle writes later is never stored.
Finish(r) ==
    /\ pc[r] = "action"
    /\ Goto(r, IF session[r].destroyed THEN "destroy"
               ELSE IF session[r].dirty THEN "save" ELSE "reply")
    /\ UNCHANGED <<presented, session, draws, auth, readable, entries, jar, clock>>

\* The id destroyed is the handle's current one.
DestroyEntry(r) ==
    /\ pc[r] = "destroy"
    /\ entries' = Without(entries, session[r].id)
    /\ Goto(r, "reply")
    /\ UNCHANGED <<presented, session, draws, auth, readable, jar, clock>>

\* Mutant: the presented entry is not dropped once the id rotated.
SaveOnly(r) ==
    /\ pc[r] = "save"
    /\ entries' = Saved(entries, session[r].id, session[r].data, clock + TTL)
    /\ Goto(r, "reply")
    /\ UNCHANGED <<presented, session, draws, auth, readable, jar, clock>>

SaveEntry(r) ==
    /\ pc[r] = "save"
    /\ entries' = Saved(entries, session[r].id, session[r].data, clock + TTL)
    /\ Goto(r, IF presented[r] # None /\ Rotated(r) THEN "drop" ELSE "reply")
    /\ UNCHANGED <<presented, session, draws, auth, readable, jar, clock>>

DropPrevious(r) ==
    /\ pc[r] = "drop"
    /\ entries' = Without(entries, presented[r])
    /\ Goto(r, "reply")
    /\ UNCHANGED <<presented, session, draws, auth, readable, jar, clock>>

\* Mutant: a rotated id is not sent to a client that already has a cookie.
CookieKept(r, cookie) ==
    IF session[r].destroyed THEN None
    ELSE IF cookie = None THEN [id |-> session[r].id, expires |-> clock + TTL]
    ELSE cookie

\* The Set-Cookie of the response r gets: a removal, the new id, or none.
CookieAfter(r, cookie) ==
    IF session[r].destroyed THEN None
    ELSE IF Rotated(r) THEN [id |-> session[r].id, expires |-> clock + TTL]
    ELSE cookie

Reply(r) ==
    /\ pc[r] = "reply"
    /\ jar' = [jar EXCEPT ![ClientOf[r]] = CookieAfter(r, @)]
    /\ Goto(r, "done")
    /\ UNCHANGED <<presented, session, draws, auth, readable, entries, clock>>

\* A `?` of the handler leaves with an error (of the store or of next.run),
\* or the client goes away and the handler is dropped at an await, or the
\* response is lost.  What was done to the store stays done.
Fail(r) ==
    /\ pc[r] \in Running
    /\ Goto(r, "failed")
    /\ UNCHANGED <<presented, session, draws, auth, readable, entries, jar, clock>>

\* The process restarts: the store is in its memory.
Restart ==
    /\ entries' = [id \in {} |-> None]
    /\ pc' = [r \in Requests |-> IF pc[r] \in Running THEN "failed" ELSE pc[r]]
    /\ UNCHANGED <<presented, session, draws, auth, readable, jar, clock>>

Tick ==
    /\ clock < MaxClock
    /\ clock' = clock + 1
    /\ UNCHANGED <<requestVars, entries, jar>>

Handle(r) ==
    \/ Send(r) \/ LoadKnown(r) \/ LoadFresh(r) \/ Act(r) \/ Finish(r)
    \/ DestroyEntry(r) \/ SaveEntry(r) \/ DropPrevious(r) \/ Reply(r) \/ Fail(r)

Next == (\E r \in Requests : Handle(r)) \/ Restart \/ Tick

Spec == Init /\ [][Next]_vars
==============================================================================
