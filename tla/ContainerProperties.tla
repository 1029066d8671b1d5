-------------------------- MODULE ContainerProperties --------------------------
(***************************************************************************)
(* What makes the container correct.                                       *)
(***************************************************************************)
EXTENDS Container

(***************************************************************************)
(* Callers agree on identity (container.rs, the comment on `or_insert`; the *)
(* tests a_singleton_is_built_once, singletons_are_shared_across_scopes and *)
(* a_scoped_value_is_shared_within_a_scope_and_fresh_across_scopes): however *)
(* many threads build a service at once, every resolution of a singleton   *)
(* returns the same instance, and every resolution of a scoped service the *)
(* same within one container and another in another.                       *)
(***************************************************************************)
SameFor(h, i) ==
    \/ Lifetime(h[2]) = "singleton"
    \/ Lifetime(h[2]) = "scoped" /\ h[1] = i[1]

CallersAgree ==
    \A h, i \in handed : h[2] = i[2] /\ Lifetime(h[2]) # "transient" =>
        (SameFor(h, i) <=> h[3] = i[3])

(***************************************************************************)
(* A reported cycle is one (container.rs, RESOLVING: "The chain currently  *)
(* being resolved on this thread"): when a resolution finds its type in the *)
(* chain, each type of the path it reports depends on the next.            *)
(***************************************************************************)
Path(t) == Append(chain[t], goal[t])

ReportsRealCycle(t) ==
    Resolving(t) /\ Uncached(t) /\ Contains(chain[t], goal[t]) =>
        \A i \in 1 .. Len(chain[t]) :
            Path(t)[i + 1] \in ToSet(registrations[Path(t)[i]].deps)

CyclesAreReal == \A t \in Threads : ReportsRealCycle(t)

\* As long as no factory has panicked on that thread.
CyclesRealUntilPanic == \A t \in Threads \ panicked : ReportsRealCycle(t)

(***************************************************************************)
(* An application that booted has every singleton (container.rs,           *)
(* `eager_init`: "so a missing or cyclic binding is a startup failure"): no *)
(* request can be the first to run a singleton's factory, whichever of them *)
(* failed, panicked or were resolved on the way to another.                *)
(***************************************************************************)
BootedMeansReady ==
    phase = "booted" =>
        \A k \in DOMAIN registrations :
            Lifetime(k) = "singleton" => k \in DOMAIN singletons

(***************************************************************************)
(* Every resolution ends (container.rs: cycles are "reported as a chain    *)
(* rather than overflowing the stack"; the test                            *)
(* a_diamond_dependency_resolves_without_deadlocking).                     *)
(***************************************************************************)
EveryCallReturns == \A t \in Threads : ~Idle(t) ~> Idle(t)
==============================================================================
