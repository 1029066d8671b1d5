------------------------------- MODULE Session -------------------------------
(***************************************************************************)
(* The request's session handle (crates/luxid-core/src/session.rs): the    *)
(* values kept against one id, and what each public operation of `Session` *)
(* does to them.  The handle is one mutex, so every operation is atomic    *)
(* and is written here as a function from handle to handle.                *)
(*                                                                         *)
(* What is kept of a value is who wrote it: `r`, the request that wrote.   *)
(* A subject is named by the request that logged it in, a flashed value by *)
(* the request that flashed it.                                            *)
(***************************************************************************)
EXTENDS Naturals

CONSTANTS Requests,  \* the requests the server handles
          Keys,      \* the application's session keys
          None       \* the absence of a value

ASSUME NoneAssumption == None \notin Requests

\* The id a request draws from the OS generator: the n-th that request drew.
\* The ids are 256 random bits, so two draws never give the same one.
Ids == Requests \X Nat

Data == [subject : Requests \cup {None},
         next    : SUBSET Requests,       \* FLASH_NEXT, absent when {}
         now     : SUBSET Requests,       \* FLASH_NOW, absent when {}
         vals    : [Keys -> Requests \cup {None}]]

Handles == [id : Ids, data : Data, dirty : BOOLEAN, destroyed : BOOLEAN]

EmptyData == [subject |-> None, next |-> {}, now |-> {},
              vals |-> [k \in Keys |-> None]]

Attached(id, data) ==
    [id |-> id, data |-> data, dirty |-> FALSE, destroyed |-> FALSE]

\* Every write marks the handle dirty, whether or not the value changes.
Write(s, data) == [s EXCEPT !.data = data, !.dirty = TRUE]

Put(s, k, r) == Write(s, [s.data EXCEPT !.vals[k] = r])

Forget(s, k) == Write(s, [s.data EXCEPT !.vals[k] = None])

Flash(s, r) == Write(s, [s.data EXCEPT !.next = @ \cup {r}])

\* Mutant: moving the flash on does not mark the handle dirty.
AgeFlashClean(s) ==
    [s EXCEPT !.data = [s.data EXCEPT !.now = s.data.next, !.next = {}]]

\* Last request's bag becomes readable, the one before it is dropped.  The
\* handle is dirty when either bag was there.
AgeFlash(s) ==
    [s EXCEPT !.data = [s.data EXCEPT !.now = s.data.next, !.next = {}],
              !.dirty = s.dirty \/ s.data.next # {} \/ s.data.now # {}]

Flush(s) == Write(s, EmptyData)

\* The id stays: it is what the guard asks the store to destroy.  Nothing
\* ever clears `destroyed`.
Destroy(s) == [Write(s, EmptyData) EXCEPT !.destroyed = TRUE]

SetSubject(s, r) == Write(s, [s.data EXCEPT !.subject = r])

Regenerate(s, id) == [s EXCEPT !.id = id, !.dirty = TRUE]

\* Mutant: logging in records the subject and keeps the id.
LoginInPlace(s, id, r) == SetSubject(s, r)

Login(s, id, r) == SetSubject(Regenerate(s, id), r)

\* Every request whose doing is recorded in the data.
Writers(d) == {w \in Requests : \/ w = d.subject
                                \/ w \in d.next \cup d.now
                                \/ \E k \in Keys : d.vals[k] = w}
==============================================================================
