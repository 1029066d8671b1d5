------------------------------ MODULE MCSession ------------------------------
(***************************************************************************)
(* The session guard on small instances: three requests of one client and  *)
(* one of another, or fewer.                                               *)
(***************************************************************************)
EXTENDS SessionProperties, TLC

CONSTANTS a, b, a1, a2, a3, b1,
          RouteOps    \* the operations of the routes client a requests

Browsers == [r \in Requests |-> IF r = b1 THEN b ELSE a]
Routes == [r \in Requests |-> IF r = b1 THEN {"login"} ELSE RouteOps]

\* Requests of one client can be swapped.
Swaps == Permutations(RequestsOf(a))

\* What still matters of a request that has ended: its handle is gone and
\* with it the data, which no step and no property but SessionsIsolated
\* reads again (and that one saw it while the request ran).
Remembered(r) ==
    IF pc[r] = "failed" THEN <<readable[r], presented[r]>>
    ELSE IF pc[r] = "done"
    THEN <<readable[r], presented[r], session[r].id, session[r].dirty,
           session[r].destroyed>>
    ELSE <<readable[r], presented[r], session[r], auth[r]>>

Relevant == <<pc, [r \in Requests |-> Remembered(r)], draws, entries, jar, clock>>

\* The bound of the overlapping run: either three requests of client a, or two
\* of them with client b and time that passes.
Crowded == \A r \in RequestsOf(a) : pc[r] # "idle"
Either == Crowded => clock = 0 /\ pc[b1] = "idle"
==============================================================================
