----------------------------- MODULE MCContainer -----------------------------
(***************************************************************************)
(* The container with three service types and the registrations that make  *)
(* chains, diamonds, cycles and gaps (a type left unregistered) of them.    *)
(***************************************************************************)
EXTENDS ContainerProperties

CONSTANTS config, pool, user, main, worker

Provider(type, lifetime, fallible, deps) ==
    [type |-> type, lifetime |-> lifetime, fallible |-> fallible, deps |-> deps]

\* config and pool can be bound so that they depend on each other.
Catalogue ==
    {Provider(config, "singleton", FALSE, <<>>),
     Provider(config, "singleton", TRUE,  <<pool>>),
     Provider(pool,   "singleton", TRUE,  <<config>>),
     Provider(user,   "scoped",    FALSE, <<config, pool>>),
     Provider(user,   "transient", FALSE, <<pool>>)}

\* Those that depend on nothing.
Independent == {g \in Catalogue : g.deps = <<>>}

OneCallEach == [t \in Threads |-> 1]

\* The worker comes back after what happened to it the first time.
TwoCallsOfWorker == [t \in Threads |-> IF t = worker THEN 2 ELSE 0]
==============================================================================
