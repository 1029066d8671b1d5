----------------------------- MODULE SessionStore -----------------------------
(***************************************************************************)
(* `MemoryStore` (crates/luxid-core/src/session.rs): a map from id to data *)
(* and deadline behind one mutex.  `entries` is that map, a function whose *)
(* domain is the set of ids present.  Expiry is checked on read only: an   *)
(* entry past its deadline stays in the map until it is loaded.            *)
(***************************************************************************)
EXTENDS Naturals

\* The entry `load` returns, when there is one to return.
Found(entries, id, clock) ==
    id \in DOMAIN entries /\ entries[id].expires > clock

Without(entries, id) == [i \in DOMAIN entries \ {id} |-> entries[i]]

\* What `load` leaves in the map: it drops the entry it finds expired.
AfterLoad(entries, id, clock) ==
    IF Found(entries, id, clock) THEN entries ELSE Without(entries, id)

Saved(entries, id, data, expires) ==
    [i \in DOMAIN entries \cup {id} |->
        IF i = id THEN [data |-> data, expires |-> expires] ELSE entries[i]]
==============================================================================
