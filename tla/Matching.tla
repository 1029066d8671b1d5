------------------------------ MODULE Matching ------------------------------
(***************************************************************************)
(* Which handler of a server's flat list answers a request (salvo's        *)
(* router, as crates/luxid-core/src/app.rs fills it).                      *)
(***************************************************************************)
EXTENDS Naturals, Sequences

Id == "{id}"
Rest == "{**path}"   \* the wildcard a static mount ends with

\* How salvo reads a registered path.
Matches(pattern, path) ==
    LET n == Len(pattern)
        Fits(i) == pattern[i] \in {Id, path[i]}
    IN IF n > 0 /\ pattern[n] = Rest
       THEN Len(path) >= n - 1 /\ \A i \in 1..(n - 1) : Fits(i)
       ELSE Len(path) = n /\ \A i \in 1..n : Fits(i)

\* The handlers that could answer a request; the first registered one does.
Candidates(handlers, method, path) ==
    {i \in DOMAIN handlers : /\ handlers[i].method = method
                             /\ Matches(handlers[i].path, path)}

Dispatch(handlers, method, path) ==
    LET found == Candidates(handlers, method, path)
    IN IF found = {} THEN 0 ELSE CHOOSE i \in found : \A j \in found : i <= j
=============================================================================
