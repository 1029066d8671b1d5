---------------------------- MODULE SerialProofs ----------------------------
(***************************************************************************)
(* Proofs about clients that send one request at a time, for any sets of   *)
(* clients, requests and keys, any routes and any ttl: what logging out    *)
(* and rotating leave in the store, and that the guard implements the one  *)
(* cell of values of SessionCell.                                          *)
(***************************************************************************)
EXTENDS SessionProofs, FiniteSetTheorems

OneAtATime == MaxInFlight = 1

InFlightTogether(r, q) ==
    ClientOf[r] = ClientOf[q] /\ pc[r] \in Running /\ pc[q] \in Running

Serial == \A r, q \in Requests : InFlightTogether(r, q) => r = q

\* What the flags of a handle say of where its request is.
StageInv ==
    \A r \in Requests :
        /\ pc[r] \in {"idle", "load"} => session[r] = Unloaded(r)
        /\ pc[r] = "destroy" => session[r].destroyed
        /\ pc[r] \in {"save", "drop"} => session[r].dirty /\ ~session[r].destroyed
        /\ pc[r] = "drop" => presented[r] # None /\ Rotated(r)
        /\ session[r].destroyed => session[r].dirty

\* r retired the id it presented: it logged out, or it rotated the id.
Retired(r) ==
    /\ pc[r] \in {"reply", "done"} /\ session[r].dirty
    /\ session[r].destroyed # Rotated(r)
    /\ presented[r] # None

Holding(q) == pc[q] \in Running \ {"load"}

RetiredInv ==
    \A r \in Requests : Retired(r) =>
        /\ presented[r] \notin DOMAIN entries
        /\ pc[r] = "done" =>
              /\ jar[ClientOf[r]] # None => jar[ClientOf[r]].id # presented[r]
              /\ \A q \in Requests :
                    /\ pc[q] = "load" => presented[q] # presented[r]
                    /\ Holding(q) => session[q].id # presented[r]

-----------------------------------------------------------------------------
(***************************************************************************)
(* Requests of one client do not overlap: a request is sent only when no   *)
(* other of its client is in flight.                                       *)
(***************************************************************************)
LEMMA AloneWhenSent ==
    ASSUME OneAtATime, Serial, NEW r \in Requests, Send(r)
    PROVE  \A q \in Requests : ClientOf[q] = ClientOf[r] => pc[q] \notin Running
<1>1. Cardinality(InFlight(ClientOf[r])) < 1
  BY DEF Send, OneAtATime
<1>2. ASSUME NEW q \in InFlight(ClientOf[r]) PROVE FALSE
  <2>1. InFlight(ClientOf[r]) = {q}
    BY <1>2 DEF InFlight, Serial, InFlightTogether
  <2> QED
    BY <1>1, <2>1, FS_Singleton
<1> QED
  BY <1>2 DEF InFlight

\* Only the sending of a request puts it in flight.
LEMMA OnlySendStarts ==
    ASSUME TypeOK, [Next]_vars, NEW q \in Requests, pc'[q] \in Running
    PROVE  pc[q] \in Running \/ Send(q)
<1>1. ASSUME NEW r \in Requests, Act(r) PROVE pc' = pc
  BY <1>1, ActStep
<1> QED
  BY <1>1 DEF Next, Handle, Send, LoadKnown, LoadFresh, Finish, DestroyEntry, SaveEntry,
              DropPrevious, Reply, Fail, Restart, Tick, vars, requestVars, Goto, Running, TypeOK

\* A client has one request in flight at most.
LEMMA SerialInductive == ASSUME OneAtATime PROVE Spec => []Serial
<1>1. Init => Serial
  BY DEF Init, Serial, InFlightTogether, Running
<1>2. TypeOK /\ Serial /\ [Next]_vars => Serial'
  <2> SUFFICES ASSUME TypeOK, Serial, [Next]_vars,
                      NEW r \in Requests, NEW q \in Requests, InFlightTogether(r, q)'
               PROVE  r = q
    BY DEF Serial
  <2>1. CASE Send(r)
    BY <2>1, AloneWhenSent, OnlySendStarts DEF InFlightTogether, Send, Goto, TypeOK
  <2>2. CASE Send(q)
    BY <2>2, AloneWhenSent, OnlySendStarts DEF InFlightTogether, Send, Goto, TypeOK
  <2> QED
    BY <2>1, <2>2, OnlySendStarts DEF InFlightTogether, Serial
<1> QED
  BY <1>1, <1>2, TypeCorrect, PTL DEF Spec

-----------------------------------------------------------------------------
\* The flags of a handle agree with the branch of the write-back its request is in.
LEMMA StageInductive == Spec => []StageInv
<1> USE GuardAssumption
<1>1. Init => StageInv
  <2>1. \A r \in Requests : ~Unloaded(r).destroyed
    BY DEF Unloaded, Attached
  <2>2. Init => \A r \in Requests : pc[r] = "idle" /\ session[r] = Unloaded(r)
    BY DEF Init
  <2> QED
    BY <2>1, <2>2 DEF StageInv
<1>2. TypeOK /\ StageInv /\ [Next]_vars => StageInv'
  <2> SUFFICES ASSUME TypeOK, StageInv, [Next]_vars PROVE StageInv'
    OBVIOUS
  <2>1. ASSUME NEW r \in Requests, LoadKnown(r) \/ LoadFresh(r) PROVE StageInv'
    <3>1. PICK id, d : session' = [session EXCEPT ![r] = AgeFlash(Attached(id, d))]
      BY <2>1 DEF LoadKnown, LoadFresh, Attach
    <3>2. ~AgeFlash(Attached(id, d)).destroyed
      BY DEF AgeFlash, Attached
    <3>3. pc[r] = "load" /\ pc' = [pc EXCEPT ![r] = "action"] /\ presented' = presented
      BY <2>1, LoadStep
    <3> HIDE DEF AgeFlash, Attached
    <3>4. \A q \in Requests : q # r => session'[q] = session[q] /\ pc'[q] = pc[q]
      BY <3>1, <3>3 DEF TypeOK
    <3>5. pc'[r] = "action" /\ ~session'[r].destroyed
      BY <3>1, <3>2, <3>3 DEF TypeOK
    <3> QED
      BY <3>3, <3>4, <3>5 DEF StageInv, Rotated, Unloaded
  <2>2. ASSUME NEW r \in Requests, Act(r) PROVE StageInv'
    <3>1. PICK s \in Handles : s.dirty /\ session' = [session EXCEPT ![r] = s]
      BY <2>2, ActStep DEF Operated
    <3>2. pc[r] = "action" /\ UNCHANGED <<pc, presented>>
      BY <2>2, ActStep
    <3> QED
      BY <3>1, <3>2 DEF StageInv, Rotated, TypeOK, Unloaded
  <2>3. ASSUME NEW r \in Requests, Send(r) PROVE StageInv'
    BY <2>3 DEF Send, Goto, StageInv, Rotated, TypeOK, Unloaded
  <2>4. ASSUME NEW r \in Requests, Finish(r) PROVE StageInv'
    BY <2>4 DEF Finish, Goto, StageInv, Rotated, TypeOK, Unloaded
  <2>5. ASSUME NEW r \in Requests, DestroyEntry(r) \/ DropPrevious(r) \/ Reply(r) \/ Fail(r)
        PROVE  StageInv'
    BY <2>5 DEF DestroyEntry, DropPrevious, Reply, Fail, Goto, StageInv, Rotated, TypeOK,
                Unloaded
  <2>6. ASSUME NEW r \in Requests, SaveEntry(r) PROVE StageInv'
    BY <2>6 DEF SaveEntry, Goto, StageInv, Rotated, TypeOK, Unloaded
  <2>7. CASE Restart
    BY <2>7 DEF Restart, StageInv, Rotated, Running, TypeOK, Unloaded
  <2>8. CASE Tick \/ UNCHANGED vars
    BY <2>8 DEF Tick, vars, requestVars, StageInv, Rotated, Unloaded
  <2> QED
    BY <2>1, <2>2, <2>3, <2>4, <2>5, <2>6, <2>7, <2>8 DEF Next, Handle
<1> QED
  BY <1>1, <1>2, TypeCorrect, PTL DEF Spec

-----------------------------------------------------------------------------
(***************************************************************************)
(* An id that was retired.  Nobody can bring it back: the client's cookie  *)
(* names another, the requests it sends from then on hold others, and      *)
(* those of other clients never held it.                                   *)
(***************************************************************************)

\* The ids of different clients differ.
LEMMA OwnersDiffer ==
    ASSUME SessionsIsolated, NEW r \in Requests, NEW q \in Requests,
           ClientOf[q] # ClientOf[r], presented[r] # None
    PROVE  presented[q] # presented[r] /\ session[q].id # presented[r]
BY DEF SessionsIsolated

\* Either of the two, not both.
LEMMA RetiredEither ==
    ASSUME TypeOK, NEW r \in Requests, Retired(r)
    PROVE  \/ session[r].destroyed /\ ~Rotated(r)
           \/ ~session[r].destroyed /\ Rotated(r)
<1>1. session[r].destroyed \in BOOLEAN
  BY DEF TypeOK, Handles
<1>2. (presented[r] # session[r].id) \in BOOLEAN
  OBVIOUS
<1> QED
  BY <1>1, <1>2, Zenon DEF Retired, Rotated

\* A retired id is in no entry and, once the response is out, with nobody.
LEMMA RetiredInductive == ASSUME OneAtATime PROVE Spec => []RetiredInv
<1> USE GuardAssumption
<1>1. Init => RetiredInv
  BY DEF Init, RetiredInv, Retired
<1>2. ASSUME TypeOK, Serial, StageInv, SessionsIsolated, AllDrawn, RetiredInv, [Next]_vars
      PROVE  RetiredInv'
  <2> USE <1>2
  <2>0. \A q \in Requests : Retired(q) => presented[q] \in Ids /\ WasDrawn(presented[q])
    BY DEF Retired, TypeOK, AllDrawn
  <2>1. ASSUME NEW r \in Requests, Send(r) PROVE RetiredInv'
    <3>1. CookieOf(ClientOf[r]) # None => /\ jar[ClientOf[r]] # None
                                          /\ CookieOf(ClientOf[r]) = jar[ClientOf[r]].id
                                          /\ OwnerOf(CookieOf(ClientOf[r])) = ClientOf[r]
      BY DEF CookieOf, SessionsIsolated
    <3>2. ASSUME NEW q \in Requests, Retired(q) PROVE CookieOf(ClientOf[r]) # presented[q]
                                                      \/ pc[q] = "reply"
      BY <3>1, <3>2 DEF RetiredInv, Retired, SessionsIsolated
    <3>3. ASSUME NEW q \in Requests, Retired(q)' PROVE Retired(q) /\ q # r
      BY <2>1, <3>3 DEF Send, Goto, Retired, Rotated, TypeOK
    <3> QED
      BY <2>1, <3>2, <3>3 DEF Send, Goto, RetiredInv, Retired, Holding, TypeOK
  <2>2. ASSUME NEW r \in Requests, NEW s \in Handles,
               pc' = [pc EXCEPT ![r] = "action"], session' = [session EXCEPT ![r] = s],
               \/ pc[r] = "load" /\ s.id \in {presented[r], NewId(r)}
               \/ pc[r] = "action" /\ s.id \in {session[r].id, NewId(r)},
               UNCHANGED <<presented, jar>>, Shrinks
        PROVE  RetiredInv'
    <3>1. \A q \in Requests : Retired(q)' => Retired(q) /\ q # r
      BY <2>2 DEF Retired, Rotated, TypeOK
    <3>2. \A q \in Requests : Retired(q) /\ pc[q] = "done" => s.id # presented[q]
      BY <2>0, <2>2, NewIdFresh DEF RetiredInv, Holding, Running
    <3> QED
      BY <2>2, <3>1, <3>2 DEF RetiredInv, Holding, Running, Shrinks, TypeOK
  <2>3. ASSUME NEW r \in Requests, LoadKnown(r) \/ LoadFresh(r) PROVE RetiredInv'
    <3>1. PICK s \in Handles : AttachedFrom(r, s) /\ session' = [session EXCEPT ![r] = s]
      BY <2>3, LoadStep
    <3>2. Shrinks
      BY <3>1, RemovedFacts DEF AttachedFrom
    <3> QED
      BY <2>2, <2>3, <3>1, <3>2, LoadStep DEF AttachedFrom
  <2>4. ASSUME NEW r \in Requests, Act(r) PROVE RetiredInv'
    <3>1. PICK s \in Handles : Operated(r, s) /\ session' = [session EXCEPT ![r] = s]
      BY <2>4, ActStep
    <3>2. pc[r] = "action" /\ UNCHANGED <<pc, presented, entries, jar>>
      BY <2>4, ActStep
    <3>3. pc' = [pc EXCEPT ![r] = "action"]
      BY <3>2 DEF TypeOK
    <3> QED
      BY <2>2, <3>1, <3>2, <3>3, RemovedFacts DEF Operated
  <2>5. ASSUME NEW r \in Requests, Finish(r) \/ DestroyEntry(r) \/ DropPrevious(r)
        PROVE  RetiredInv'
    <3>1. Shrinks /\ UNCHANGED <<presented, session, jar>>
      BY <2>5, RemovedFacts DEF Finish, DestroyEntry, DropPrevious
    <3>2. /\ Holding(r) /\ pc[r] # "reply"
          /\ pc'[r] \in {"destroy", "save", "reply"}
          /\ \A q \in Requests : q # r => pc'[q] = pc[q]
      BY <2>5 DEF Finish, DestroyEntry, DropPrevious, Goto, Holding, Running, TypeOK
    <3>3. Retired(r)' => presented[r] \notin DOMAIN entries'
      BY <2>5, RemovedFacts
      DEF Finish, DestroyEntry, DropPrevious, Goto, Retired, Rotated, StageInv, TypeOK
    <3>4. \A q \in Requests : q # r /\ Retired(q)' => Retired(q)
      BY <3>1, <3>2 DEF Retired, Rotated
    <3>5. \A q \in Requests : /\ Holding(q)' => Holding(q)
                              /\ pc'[q] = "load" => pc[q] = "load"
      BY <3>2 DEF Holding
    <3> QED
      BY <3>1, <3>2, <3>3, <3>4, <3>5 DEF RetiredInv, Shrinks
  <2>6. ASSUME NEW r \in Requests, SaveEntry(r) PROVE RetiredInv'
    <3>1. /\ UNCHANGED <<presented, session, jar>>
          /\ Holding(r) /\ pc[r] = "save" /\ pc'[r] \in {"drop", "reply"}
          /\ \A q \in Requests : q # r => pc'[q] = pc[q]
      BY <2>6 DEF SaveEntry, Goto, Holding, Running, TypeOK
    <3>2. ~Retired(r)'
      <4>1. session[r].destroyed = FALSE
        BY <3>1 DEF StageInv, TypeOK, Handles
      <4>2. pc'[r] = "reply" => presented[r] = None \/ Rotated(r) = FALSE
        BY <2>6 DEF SaveEntry, Goto, Rotated, TypeOK
      <4> QED
        BY <3>1, <4>1, <4>2 DEF Retired, Rotated
    <3>3. \A q \in Requests : q # r /\ Retired(q)' => Retired(q)
      BY <3>1 DEF Retired, Rotated
    <3>4. \A q \in Requests : /\ Holding(q)' => Holding(q)
                              /\ pc'[q] = "load" => pc[q] = "load"
      BY <3>1 DEF Holding
    <3>5. \A i \in DOMAIN entries' : i = session[r].id \/ i \in DOMAIN entries
      BY <2>6, SavedFacts DEF SaveEntry
    <3>6. ASSUME NEW q \in Requests, q # r, Retired(q) PROVE session[r].id # presented[q]
      <4>1. CASE pc[q] = "done"
        BY <3>1, <3>6, <4>1 DEF RetiredInv
      <4>2. CASE pc[q] = "reply"
        <5>1. ClientOf[r] # ClientOf[q]
          BY <3>1, <3>6, <4>2 DEF Serial, InFlightTogether, Running
        <5> QED
          BY <3>6, <5>1, OwnersDiffer DEF Retired
      <4> QED
        BY <3>6, <4>1, <4>2 DEF Retired
    <3> QED
      BY <3>1, <3>2, <3>3, <3>4, <3>5, <3>6 DEF RetiredInv
  <2>7. ASSUME NEW r \in Requests, Reply(r) PROVE RetiredInv'
    <3>1. /\ UNCHANGED <<presented, session, entries>>
          /\ pc[r] = "reply" /\ pc'[r] = "done"
          /\ \A q \in Requests : q # r => pc'[q] = pc[q]
          /\ jar'[ClientOf[r]] = CookieAfter(r, jar[ClientOf[r]])
          /\ \A c \in Clients : c # ClientOf[r] => jar'[c] = jar[c]
      BY <2>7 DEF Reply, Goto, TypeOK
    <3>2. \A q \in Requests : Retired(q)' => Retired(q)
      BY <3>1 DEF Retired, Rotated
    <3>3. \A q \in Requests : /\ Holding(q)' => Holding(q) /\ q # r
                              /\ pc'[q] = "load" => pc[q] = "load" /\ q # r
      BY <3>1 DEF Holding, Running
    <3>4. ASSUME Retired(r), NEW q \in Requests, q # r, Holding(q) \/ pc[q] = "load"
          PROVE  presented[q] # presented[r] /\ session[q].id # presented[r]
      <4>1. ClientOf[q] # ClientOf[r]
        BY <3>1, <3>4 DEF Serial, InFlightTogether, Holding, Running
      <4> QED
        BY <3>4, <4>1, OwnersDiffer DEF Retired
    <3>5. Retired(r) /\ jar'[ClientOf[r]] # None => jar'[ClientOf[r]].id # presented[r]
      BY <3>1, RetiredEither DEF Rotated, CookieAfter
    <3>6. ASSUME NEW q \in Requests, Retired(q), pc[q] = "done", jar'[ClientOf[q]] # None
          PROVE  jar'[ClientOf[q]].id # presented[q]
      BY <3>1, <3>6 DEF RetiredInv, CookieAfter, Holding, Running
    <3> QED
      BY <3>1, <3>2, <3>3, <3>4, <3>5, <3>6 DEF RetiredInv
  <2>8. ASSUME NEW r \in Requests, Fail(r) PROVE RetiredInv'
    <3>1. \A q \in Requests : /\ Retired(q)' => Retired(q) /\ pc'[q] = pc[q]
                              /\ Holding(q)' => Holding(q)
                              /\ pc'[q] = "load" => pc[q] = "load"
      BY <2>8 DEF Fail, Goto, Retired, Rotated, Holding, Running, TypeOK
    <3> QED
      BY <2>8, <3>1 DEF Fail, RetiredInv
  <2>9. CASE Restart
    <3>1. \A q \in Requests : /\ Retired(q)' => Retired(q) /\ pc'[q] = pc[q]
                              /\ pc'[q] \notin Running
      BY <2>9 DEF Restart, Retired, Rotated, Running, TypeOK
    <3> QED
      BY <2>9, <3>1, RemovedFacts DEF Restart, RetiredInv, Holding, Running
  <2>10. CASE Tick \/ UNCHANGED vars
    BY <2>10 DEF Tick, vars, requestVars, RetiredInv, Retired, Rotated, Holding
  <2> QED
    BY <2>1, <2>3, <2>4, <2>5, <2>6, <2>7, <2>8, <2>9, <2>10 DEF Next, Handle
<1> QED
  BY <1>1, <1>2, TypeCorrect, SerialInductive, StageInductive, Isolation,
     AllDrawnInductive, PTL DEF Spec

\* Without overlapping requests of one client, an id that a logout or a rotation
\* retired names no entry once the response is out, and none later: whatever the
\* client, other clients, lost answers and restarts do.  (auth.rs, session.rs.)
THEOREM RetiredForGood == ASSUME OneAtATime PROVE Spec => []RetiredIdsGone
<1>1. TypeOK /\ RetiredInv => RetiredIdsGone
  BY GuardAssumption DEF RetiredInv, Retired, RetiredIdsGone, Replied, Rotated, TypeOK
<1> QED
  BY <1>1, TypeCorrect, RetiredInductive, PTL

-----------------------------------------------------------------------------
(***************************************************************************)
(* What a client leaves in the store, over a time in which nothing runs    *)
(* out: no cookie expires before its entry, which every save prolongs.     *)
(***************************************************************************)
NothingExpires == MaxClock < TTL

JarId(c) == IF jar[c] = None THEN None ELSE jar[c].id

\* Nothing runs out, and a client keeps the cookie its request presented.
KeptInv ==
    /\ clock <= MaxClock
    /\ \A c \in Clients : jar[c] # None => jar[c].expires > MaxClock
    /\ \A id \in DOMAIN entries : entries[id].expires > MaxClock
    /\ \A r \in Requests : pc[r] \in Running => presented[r] = JarId(ClientOf[r])

\* What a client sends, and what the store finds, when nothing expires.
LEMMA NothingExpired ==
    ASSUME TypeOK, KeptInv
    PROVE  /\ \A c \in Clients : CookieOf(c) = JarId(c)
           /\ \A id : Found(entries, id, clock) <=> id \in DOMAIN entries
<1> USE GuardAssumption
<1>1. ASSUME NEW c \in Clients, jar[c] # None PROVE jar[c].expires > clock
  BY <1>1 DEF KeptInv, TypeOK, Cookies
<1>2. ASSUME NEW id \in DOMAIN entries PROVE entries[id].expires > clock
  BY DEF KeptInv, TypeOK
<1> QED
  BY <1>1, <1>2 DEF CookieOf, JarId, Found

\* Entries and cookies outlive the run, and a cookie changes only with a response.
LEMMA KeptInductive == ASSUME OneAtATime, NothingExpires PROVE Spec => []KeptInv
<1> USE GuardAssumption
<1>1. Init => KeptInv
  BY DEF Init, KeptInv, Running
<1>2. ASSUME TypeOK, Serial, KeptInv, [Next]_vars PROVE KeptInv'
  <2> USE <1>2
  <2>0. clock \in Nat /\ clock + TTL > MaxClock
    BY DEF TypeOK, NothingExpires
  <2>1. ASSUME NEW r \in Requests, Send(r) PROVE KeptInv'
    BY <2>1, NothingExpired DEF Send, Goto, KeptInv, JarId, TypeOK
  <2>2. ASSUME UNCHANGED <<presented, jar, clock>>, Shrinks,
               \A q \in Requests : pc'[q] \in Running => pc[q] \in Running
        PROVE  KeptInv'
    BY <2>2 DEF KeptInv, JarId, Shrinks
  <2>3. ASSUME NEW r \in Requests, LoadKnown(r) \/ LoadFresh(r) PROVE KeptInv'
    <3>1. Shrinks
      BY <2>3, LoadStep, RemovedFacts DEF AttachedFrom
    <3> QED
      BY <2>2, <2>3, <3>1, LoadStep DEF Running, TypeOK
  <2>4. ASSUME NEW r \in Requests, Act(r) PROVE KeptInv'
    BY <2>2, <2>4, ActStep, RemovedFacts
  <2>5. ASSUME NEW r \in Requests,
               Finish(r) \/ DestroyEntry(r) \/ DropPrevious(r) \/ Fail(r)
        PROVE  KeptInv'
    BY <2>2, <2>5, RemovedFacts
    DEF Finish, DestroyEntry, DropPrevious, Fail, Goto, Running, TypeOK
  <2>6. ASSUME NEW r \in Requests, SaveEntry(r) PROVE KeptInv'
    <3>1. \A i \in DOMAIN entries' :
             \/ entries'[i].expires = clock + TTL
             \/ i \in DOMAIN entries /\ entries'[i] = entries[i]
      BY <2>6 DEF SaveEntry, Saved
    <3>2. \A q \in Requests : pc'[q] \in Running => pc[q] \in Running
      BY <2>6 DEF SaveEntry, Goto, Running, TypeOK
    <3> QED
      BY <2>0, <2>6, <3>1, <3>2 DEF SaveEntry, KeptInv, JarId
  <2>7. ASSUME NEW r \in Requests, Reply(r) PROVE KeptInv'
    <3>1. /\ UNCHANGED <<presented, entries, clock>>
          /\ jar' = [jar EXCEPT ![ClientOf[r]] = CookieAfter(r, jar[ClientOf[r]])]
          /\ pc[r] = "reply" /\ pc' = [pc EXCEPT ![r] = "done"]
      BY <2>7 DEF Reply, Goto
    <3>2. CookieAfter(r, jar[ClientOf[r]]) # None =>
             CookieAfter(r, jar[ClientOf[r]]).expires > MaxClock
      BY <2>0 DEF CookieAfter, KeptInv
    <3>3. \A q \in Requests : pc'[q] \in Running =>
             pc[q] \in Running /\ ClientOf[q] # ClientOf[r]
      BY <3>1 DEF Serial, InFlightTogether, Running, TypeOK
    <3> QED
      BY <3>1, <3>2, <3>3 DEF KeptInv, JarId, TypeOK
  <2>8. CASE Restart
    BY <2>2, <2>8, RemovedFacts DEF Restart, Running, TypeOK
  <2>9. CASE Tick \/ UNCHANGED vars
    BY <2>0, <2>9 DEF Tick, vars, requestVars, KeptInv, JarId
  <2> QED
    BY <2>1, <2>3, <2>4, <2>5, <2>6, <2>7, <2>8, <2>9 DEF Next, Handle
<1> QED
  BY <1>1, <1>2, TypeCorrect, SerialInductive, PTL DEF Spec

Owned(c) == {id \in DOMAIN entries : OwnerOf(id) = c}

\* No request of c failed, and none rotated its id and then logged out.
Untroubled(c) ==
    \A r \in RequestsOf(c) : /\ pc[r] # "failed"
                             /\ pc[r] = "done" => ~(session[r].destroyed /\ Rotated(r))

\* What the client of r has in the store, by where r is.
Tidy(r) ==
    LET owned == Owned(ClientOf[r])
    IN  /\ pc[r] \in {"load", "action", "destroy", "save"} => owned \subseteq {presented[r]}
        /\ pc[r] = "action" /\ Rotated(r) /\ ~session[r].dirty => owned = {}
        /\ pc[r] = "drop" => owned \subseteq {presented[r], session[r].id}
        /\ pc[r] = "reply" /\ ~(session[r].destroyed /\ Rotated(r)) =>
              owned \subseteq IF session[r].destroyed THEN {} ELSE {session[r].id}

TidyClient(c) ==
    /\ InFlight(c) = {} => Owned(c) \subseteq {JarId(c)}
    /\ \A r \in InFlight(c) : Tidy(r)

TidyInv == \A c \in Clients : Untroubled(c) => TidyClient(c)

\* A step of one client's request leaves the others' as they are.
LEMMA TidyElsewhere ==
    ASSUME NEW r \in Requests, NEW d \in Clients, d # ClientOf[r],
           \A q \in Requests : q # r =>
              /\ pc'[q] = pc[q] /\ presented'[q] = presented[q] /\ session'[q] = session[q],
           \A c \in Clients : c # ClientOf[r] => jar'[c] = jar[c],
           \A i \in DOMAIN entries' : i \in DOMAIN entries \/ OwnerOf(i) = ClientOf[r],
           Untroubled(d) => TidyClient(d), Untroubled(d)'
    PROVE  TidyClient(d)'
<1>1. \A q \in RequestsOf(d) : q \in Requests /\ q # r
  BY DEF RequestsOf
<1>2. \A q \in RequestsOf(d) : Rotated(q)' <=> Rotated(q)
  BY <1>1 DEF Rotated
<1>3. Untroubled(d)
  BY <1>1, <1>2 DEF Untroubled, RequestsOf
<1>4. Owned(d)' \subseteq Owned(d)
  BY DEF Owned, OwnerOf
<1>5. InFlight(d)' = InFlight(d) /\ InFlight(d) \subseteq RequestsOf(d)
  BY <1>1 DEF InFlight, RequestsOf
<1>6. JarId(d)' = JarId(d)
  BY DEF JarId
<1>7. ASSUME NEW q \in InFlight(d) PROVE Tidy(q)'
  <2>1. Tidy(q) /\ ClientOf[q] = d
    BY <1>3, <1>7 DEF TidyClient, InFlight
  <2> QED
    BY <1>1, <1>2, <1>4, <1>5, <2>1 DEF Tidy
<1> QED
  BY <1>3, <1>4, <1>5, <1>6, <1>7 DEF TidyClient

\* A client's entries are the ones its request in flight, or its cookie, accounts for.
LEMMA TidyInductive == ASSUME OneAtATime, NothingExpires PROVE Spec => []TidyInv
<1> USE GuardAssumption
<1>1. Init => TidyInv
  BY DEF Init, TidyInv, TidyClient, Owned, InFlight, Running
<1>2. ASSUME TypeOK, Serial, Serial', StageInv, SessionsIsolated, RetiredInv, KeptInv, KeptInv',
             TidyInv, [Next]_vars
      PROVE  TidyInv'
  <2> USE <1>2
  <2>0. \A id \in DOMAIN entries : id # None
    BY DEF TypeOK
  <2>1. ASSUME NEW r \in Requests,
               \A q \in Requests : q # r =>
                  /\ pc'[q] = pc[q] /\ presented'[q] = presented[q]
                  /\ session'[q] = session[q],
               \A c \in Clients : c # ClientOf[r] => jar'[c] = jar[c],
               \A i \in DOMAIN entries' : i \in DOMAIN entries \/ OwnerOf(i) = ClientOf[r],
               pc[r] \in Running \cup {"idle"}, pc'[r] \in Running,
               TidyClient(ClientOf[r]) => Tidy(r)'
        PROVE  TidyInv'
    <3>1. ClientOf[r] \in Clients
      OBVIOUS
    <3>2. InFlight(ClientOf[r])' = {r}
      BY <2>1 DEF InFlight, Serial, InFlightTogether
    <3>3. ASSUME Untroubled(ClientOf[r])' PROVE TidyClient(ClientOf[r])'
      <4>1. Untroubled(ClientOf[r])
        <5>1. \A q \in Requests : q # r => (Rotated(q)' <=> Rotated(q))
          BY <2>1 DEF Rotated
        <5> QED
          BY <2>1, <3>3, <5>1 DEF Untroubled, RequestsOf, Running
      <4>2. Tidy(r)'
        BY <2>1, <3>1, <4>1 DEF TidyInv
      <4> QED
        BY <3>2, <4>2 DEF TidyClient
    <3> QED
      BY <2>1, <3>3, TidyElsewhere DEF TidyInv
  <2>2. ASSUME NEW r \in Requests, Send(r) PROVE TidyInv'
    <3>1. \A q \in Requests : q # r =>
             /\ pc'[q] = pc[q] /\ presented'[q] = presented[q] /\ session'[q] = session[q]
      BY <2>2 DEF Send, Goto, TypeOK
    <3>2. pc[r] = "idle" /\ pc'[r] = "load" /\ UNCHANGED <<jar, entries, session>>
          /\ presented'[r] = CookieOf(ClientOf[r])
      BY <2>2 DEF Send, Goto, TypeOK
    <3>3. InFlight(ClientOf[r]) = {}
      BY <2>2, AloneWhenSent DEF InFlight
    <3>4. TidyClient(ClientOf[r]) => Owned(ClientOf[r])' \subseteq {presented'[r]}
      BY <3>2, <3>3, NothingExpired DEF TidyClient, Owned, OwnerOf
    <3>5. TidyClient(ClientOf[r]) => Tidy(r)'
      BY <3>2, <3>4 DEF Tidy
    <3> QED
      BY <2>1, <3>1, <3>2, <3>5 DEF Running
  <2>3. ASSUME NEW r \in Requests, pc[r] \in Running, TidyClient(ClientOf[r])
        PROVE  Tidy(r)
    BY <2>3 DEF TidyClient, InFlight
  <2>4. ASSUME NEW r \in Requests, LoadKnown(r) \/ LoadFresh(r) PROVE TidyInv'
    <3>1. /\ \A q \in Requests : q # r =>
                /\ pc'[q] = pc[q] /\ presented'[q] = presented[q] /\ session'[q] = session[q]
          /\ pc[r] = "load" /\ pc'[r] = "action" /\ UNCHANGED <<jar, presented>>
      <4>1. PICK s \in Handles : session' = [session EXCEPT ![r] = s]
        BY <2>4, LoadStep
      <4> QED
        BY <2>4, <4>1, LoadStep DEF TypeOK
    <3>2. DOMAIN entries' \subseteq DOMAIN entries
      BY <2>4 DEF LoadKnown, LoadFresh, AfterLoad, Without
    <3>3. Owned(ClientOf[r])' \subseteq Owned(ClientOf[r])
      BY <3>2 DEF Owned, OwnerOf
    <3>4. CASE presented[r] \in DOMAIN entries
      <4>1. LoadKnown(r)
        BY <2>4, <3>4, NothingExpired DEF LoadFresh, TypeOK
      <4>2. session'[r].id = presented[r]
        BY <4>1 DEF LoadKnown, Attach, AgeFlash, Attached, TypeOK
      <4>3. Tidy(r) => Tidy(r)'
        BY <3>1, <3>3, <4>2 DEF Tidy, Rotated
      <4> QED
        BY <2>1, <2>3, <3>1, <3>2, <4>3 DEF Running
    <3>5. CASE presented[r] \notin DOMAIN entries
      <4>1. Tidy(r) => Owned(ClientOf[r]) = {}
        BY <3>1, <3>5 DEF Tidy, Owned
      <4>2. Tidy(r) => Tidy(r)'
        BY <3>1, <3>3, <4>1 DEF Tidy
      <4> QED
        BY <2>1, <2>3, <3>1, <3>2, <4>2 DEF Running
    <3> QED
      BY <3>4, <3>5
  <2>5. ASSUME NEW r \in Requests, Act(r) PROVE TidyInv'
    <3>1. PICK s \in Handles : s.dirty /\ session' = [session EXCEPT ![r] = s]
      BY <2>5, ActStep DEF Operated
    <3>2. pc[r] = "action" /\ UNCHANGED <<pc, presented, entries, jar>>
      BY <2>5, ActStep
    <3>3. \A q \in Requests : q # r => session'[q] = session[q]
      BY <3>1
    <3>4. session'[r].dirty
      BY <3>1 DEF TypeOK
    <3>5. Tidy(r) => Tidy(r)'
      BY <3>2, <3>4 DEF Tidy, Owned, OwnerOf
    <3> QED
      BY <2>1, <2>3, <3>2, <3>3, <3>5 DEF Running
  <2>6. ASSUME NEW r \in Requests, Finish(r) PROVE TidyInv'
    <3>1. /\ UNCHANGED <<presented, session, entries, jar>>
          /\ pc[r] = "action"
          /\ \/ pc'[r] \in {"destroy", "save"}
             \/ pc'[r] = "reply" /\ ~session[r].dirty /\ ~session[r].destroyed
          /\ \A q \in Requests : q # r => pc'[q] = pc[q]
      BY <2>6 DEF Finish, Goto, TypeOK
    <3>2. Owned(ClientOf[r])' = Owned(ClientOf[r]) /\ (Rotated(r)' <=> Rotated(r))
      BY <3>1 DEF Owned, OwnerOf, Rotated
    <3>3. Tidy(r) => Tidy(r)'
      <4>1. CASE Rotated(r)
        BY <3>1, <3>2, <4>1 DEF Tidy
      <4>2. CASE ~Rotated(r)
        BY <3>1, <3>2, <4>2 DEF Tidy, Rotated
      <4> QED
        BY <4>1, <4>2
    <3> QED
      BY <2>1, <2>3, <3>1, <3>3 DEF Running
  <2>7. ASSUME NEW r \in Requests, DestroyEntry(r) PROVE TidyInv'
    <3>1. /\ UNCHANGED <<presented, session, jar>>
          /\ pc[r] = "destroy" /\ pc'[r] = "reply"
          /\ \A q \in Requests : q # r => pc'[q] = pc[q]
          /\ DOMAIN entries' = DOMAIN entries \ {session[r].id}
      BY <2>7 DEF DestroyEntry, Goto, Without, TypeOK
    <3>2. session[r].destroyed
      BY <3>1 DEF StageInv
    <3>3. Tidy(r) /\ ~Rotated(r) => Owned(ClientOf[r])' = {}
      BY <3>1 DEF Tidy, Owned, OwnerOf, Rotated
    <3>4. Tidy(r) => Tidy(r)'
      BY <3>1, <3>2, <3>3 DEF Tidy, Rotated
    <3> QED
      BY <2>1, <2>3, <3>1, <3>4 DEF Running
  <2>8. ASSUME NEW r \in Requests, SaveEntry(r) PROVE TidyInv'
    <3>1. /\ UNCHANGED <<presented, session, jar>>
          /\ pc[r] = "save"
          /\ \/ pc'[r] = "drop"
             \/ pc'[r] = "reply" /\ (presented[r] = None \/ ~Rotated(r))
          /\ \A q \in Requests : q # r => pc'[q] = pc[q]
          /\ DOMAIN entries' = DOMAIN entries \cup {session[r].id}
      BY <2>8 DEF SaveEntry, Goto, Saved, TypeOK, Rotated
    <3>2. ~session[r].destroyed /\ OwnerOf(session[r].id) = ClientOf[r]
      BY <3>1 DEF StageInv, SessionsIsolated
    <3>3. Tidy(r) => /\ Owned(ClientOf[r])' \subseteq {presented[r], session[r].id}
                     /\ None \notin Owned(ClientOf[r])
      BY <2>0, <3>1 DEF Tidy, Owned, OwnerOf
    <3>4. session[r].id # None
      BY DEF TypeOK, Handles
    <3>5. Tidy(r) => None \notin Owned(ClientOf[r])'
      BY <2>0, <3>1, <3>4 DEF Owned
    <3>6. Tidy(r) => Tidy(r)'
      <4>1. CASE pc'[r] = "drop"
        BY <3>1, <3>3, <4>1 DEF Tidy
      <4>2. CASE pc'[r] = "reply"
        <5>1. Tidy(r) => Owned(ClientOf[r])' \subseteq {session[r].id}
          BY <3>1, <3>3, <3>5, <4>2 DEF Rotated
        <5> QED
          BY <3>1, <3>2, <4>2, <5>1 DEF Tidy
      <4> QED
        BY <3>1, <4>1, <4>2
    <3> QED
      BY <2>1, <2>3, <3>1, <3>2, <3>6 DEF Running
  <2>9. ASSUME NEW r \in Requests, DropPrevious(r) PROVE TidyInv'
    <3>1. /\ UNCHANGED <<presented, session, jar>>
          /\ pc[r] = "drop" /\ pc'[r] = "reply"
          /\ \A q \in Requests : q # r => pc'[q] = pc[q]
          /\ DOMAIN entries' = DOMAIN entries \ {presented[r]}
      BY <2>9 DEF DropPrevious, Goto, Without, TypeOK
    <3>2. ~session[r].destroyed
      BY <3>1 DEF StageInv
    <3>3. Tidy(r) => Owned(ClientOf[r])' \subseteq {session[r].id}
      BY <3>1 DEF Tidy, Owned, OwnerOf
    <3>4. Tidy(r) => Tidy(r)'
      BY <3>1, <3>2, <3>3 DEF Tidy
    <3> QED
      BY <2>1, <2>3, <3>1, <3>4 DEF Running
  <2>10. ASSUME NEW r \in Requests, Reply(r) PROVE TidyInv'
    <3>1. /\ UNCHANGED <<presented, session, entries>>
          /\ pc[r] = "reply" /\ pc'[r] = "done"
          /\ \A q \in Requests : q # r => pc'[q] = pc[q]
          /\ jar'[ClientOf[r]] = CookieAfter(r, jar[ClientOf[r]])
          /\ \A c \in Clients : c # ClientOf[r] => jar'[c] = jar[c]
      BY <2>10 DEF Reply, Goto, TypeOK
    <3>2. InFlight(ClientOf[r])' = {}
      BY <3>1 DEF InFlight, Serial, InFlightTogether, Running
    <3>3. presented[r] = JarId(ClientOf[r])
      BY <3>1 DEF KeptInv, Running
    <3>4. ASSUME Untroubled(ClientOf[r])' PROVE TidyClient(ClientOf[r])'
      <4>1. ~(session[r].destroyed /\ Rotated(r))
        BY <3>1, <3>4 DEF Untroubled, RequestsOf, Rotated
      <4>2. Untroubled(ClientOf[r])
        BY <3>1, <3>4 DEF Untroubled, RequestsOf, Rotated
      <4>3. Owned(ClientOf[r]) \subseteq
               IF session[r].destroyed THEN {} ELSE {session[r].id}
        BY <2>3, <3>1, <4>1, <4>2 DEF TidyInv, Tidy, Running
      <4>4. session[r].destroyed \/ JarId(ClientOf[r])' = session[r].id
        <5>1. CASE Rotated(r)
          <6> DEFINE new == [id |-> session[r].id, expires |-> clock + TTL]
          <6>1. new \in Cookies /\ new.id = session[r].id
            BY DEF Cookies, TypeOK, Handles
          <6>2. ~session[r].destroyed => jar'[ClientOf[r]] = new
            BY <3>1, <5>1 DEF CookieAfter
          <6> QED
            BY <6>1, <6>2 DEF JarId
        <5>2. CASE ~Rotated(r)
          BY <3>1, <3>3, <5>2 DEF CookieAfter, JarId, Rotated
        <5> QED
          BY <5>1, <5>2
      <4>5. Owned(ClientOf[r])' \subseteq {JarId(ClientOf[r])'}
        BY <3>1, <4>3, <4>4 DEF Owned, OwnerOf
      <4> QED
        BY <3>2, <4>5 DEF TidyClient
    <3> QED
      BY <3>1, <3>4, TidyElsewhere DEF TidyInv
  <2>11. ASSUME NEW r \in Requests, Fail(r) PROVE TidyInv'
    <3>1. /\ UNCHANGED <<presented, session, entries, jar>>
          /\ pc'[r] = "failed"
          /\ \A q \in Requests : q # r => pc'[q] = pc[q]
      BY <2>11 DEF Fail, Goto, TypeOK
    <3>2. ~Untroubled(ClientOf[r])'
      BY <3>1 DEF Untroubled, RequestsOf
    <3> QED
      BY <3>1, <3>2, TidyElsewhere DEF TidyInv
  <2>12. CASE Restart
    <3>1. \A c \in Clients : InFlight(c)' = {} /\ Owned(c)' = {}
      BY <2>12 DEF Restart, InFlight, Owned, Running, TypeOK
    <3> QED
      BY <3>1 DEF TidyInv, TidyClient
  <2>13. CASE Tick \/ UNCHANGED vars
    <3>1. UNCHANGED <<pc, presented, session, entries, jar>>
      BY <2>13 DEF Tick, vars, requestVars
    <3>2. \A r \in Requests : (Rotated(r)' <=> Rotated(r)) /\ (Tidy(r)' <=> Tidy(r))
      BY <3>1 DEF Rotated, Tidy, Owned, OwnerOf
    <3>3. \A c \in Clients : /\ InFlight(c)' = InFlight(c) /\ JarId(c)' = JarId(c)
                             /\ Owned(c)' = Owned(c)
      BY <3>1 DEF InFlight, JarId, Owned, OwnerOf
    <3>4. \A c \in Clients : Untroubled(c)' <=> Untroubled(c)
      BY <3>1, <3>2 DEF Untroubled, RequestsOf
    <3> QED
      BY <3>2, <3>3, <3>4 DEF TidyInv, TidyClient, InFlight
  <2> QED
    BY <2>2, <2>4, <2>5, <2>6, <2>7, <2>8, <2>9, <2>10, <2>11, <2>12, <2>13
    DEF Next, Handle
<1> QED
  BY <1>1, <1>2, TypeCorrect, SerialInductive, StageInductive, Isolation, RetiredInductive,
     KeptInductive, PTL
  DEF Spec

\* Without overlapping requests, and while no cookie runs out, a client all of
\* whose requests were answered has no entry but the one its cookie names: no
\* rotation, logout, restart or other client leaves one behind.  (auth.rs.)
THEOREM NothingLeftBehind ==
    ASSUME OneAtATime, NothingExpires PROVE Spec => []NoEntryLeftBehind
<1>1. TypeOK /\ TidyInv => NoEntryLeftBehind
  <2> SUFFICES ASSUME TypeOK, TidyInv, NEW c \in Clients,
                      \A r \in RequestsOf(c) :
                         \/ pc[r] = "idle"
                         \/ Replied(r) /\ ~(session[r].destroyed /\ Rotated(r)),
                      NEW id \in DOMAIN entries, OwnerOf(id) = c
               PROVE  jar[c] # None /\ jar[c].id = id
    BY DEF NoEntryLeftBehind
  <2>1. Untroubled(c)
    BY DEF Untroubled, Replied
  <2>2. InFlight(c) = {}
    BY DEF InFlight, RequestsOf, Replied, Running
  <2>3. id = JarId(c)
    BY <2>1, <2>2 DEF TidyInv, TidyClient, Owned
  <2> QED
    BY <2>3, GuardAssumption DEF JarId, TypeOK
<1> QED
  BY <1>1, TypeCorrect, TidyInductive, PTL

-----------------------------------------------------------------------------
(***************************************************************************)
(* A step of one request leaves other requests, the cookies of other       *)
(* clients and their entries alone; of its own client's data the store has *)
(* what its handle says.                                                   *)
(***************************************************************************)
DataAt(id) == IF id \in DOMAIN entries THEN entries[id].data ELSE EmptyData

StepOf(r) ==
    /\ \A q \in Requests : q # r =>
          pc'[q] = pc[q] /\ presented'[q] = presented[q] /\ session'[q] = session[q]
    /\ \A c \in Clients : c # ClientOf[r] => jar'[c] = jar[c]
    /\ \A id : OwnerOf(id) # ClientOf[r] =>
          /\ id \in DOMAIN entries' <=> id \in DOMAIN entries
          /\ id \in DOMAIN entries => entries'[id] = entries[id]

\* Every step of a request is such a step: what it saves or removes is its client's.
LEMMA HandleIsStep ==
    ASSUME TypeOK, SessionsIsolated, NEW r \in Requests, Handle(r)
    PROVE  StepOf(r)
<1> USE GuardAssumption
<1>1. OwnerOf(session[r].id) = ClientOf[r]
  BY DEF SessionsIsolated
<1>2. presented[r] # None => OwnerOf(presented[r]) = ClientOf[r]
  BY DEF SessionsIsolated
<1>3. None \notin DOMAIN entries
  BY DEF TypeOK
<1>4. CASE Send(r) \/ Reply(r) \/ Fail(r) \/ Finish(r)
  BY <1>4 DEF Send, Reply, Fail, Finish, Goto, StepOf, TypeOK
<1>5. CASE LoadKnown(r) \/ LoadFresh(r)
  <2>1. PICK s \in Handles : AttachedFrom(r, s) /\ session' = [session EXCEPT ![r] = s]
    BY <1>5, LoadStep
  <2>2. pc' = [pc EXCEPT ![r] = "action"] /\ UNCHANGED <<presented, jar>>
    BY <1>5, LoadStep
  <2>3. entries' \in {entries, Without(entries, presented[r])}
    BY <2>1 DEF AttachedFrom
  <2> QED
    BY <1>2, <1>3, <2>1, <2>2, <2>3 DEF StepOf, Without, TypeOK
<1>6. CASE Act(r)
  <2>1. PICK s \in Handles : session' = [session EXCEPT ![r] = s]
    BY <1>6, ActStep
  <2> QED
    BY <1>6, <2>1, ActStep DEF StepOf, TypeOK
<1>7. CASE DestroyEntry(r)
  BY <1>1, <1>7 DEF DestroyEntry, Goto, Without, StepOf, TypeOK
<1>8. CASE SaveEntry(r)
  BY <1>1, <1>8 DEF SaveEntry, Goto, Saved, StepOf, TypeOK
<1>9. CASE DropPrevious(r)
  BY <1>2, <1>3, <1>9 DEF DropPrevious, Goto, Without, StepOf, TypeOK
<1> QED
  BY <1>4, <1>5, <1>6, <1>7, <1>8, <1>9 DEF Handle

\* A handle that is not dirty has the data of the entry presented, or nothing of
\* its id or of the one presented is stored; one that was saved is stored as it is.
StoredInv ==
    \A r \in Requests :
        /\ pc[r] = "action" /\ ~session[r].dirty => session[r].data = DataAt(presented[r])
        /\ pc[r] \in {"action", "reply"} /\ ~session[r].dirty /\ Rotated(r) =>
              presented[r] \notin DOMAIN entries /\ session[r].id \notin DOMAIN entries
        /\ pc[r] = "drop" =>
              /\ session[r].id \in DOMAIN entries
              /\ entries[session[r].id].data = session[r].data

\* No other request of the client can change that entry meanwhile.
LEMMA StoredInductive == ASSUME OneAtATime PROVE Spec => []StoredInv
<1> USE GuardAssumption
<1>1. Init => StoredInv
  BY DEF Init, StoredInv
<1>2. ASSUME TypeOK, TypeOK', Serial, Serial', StageInv, SessionsIsolated, AllDrawn,
             StoredInv, [Next]_vars
      PROVE  StoredInv'
  <2> USE <1>2
  <2> DEFINE Stored(r) == /\ pc[r] = "action" /\ ~session[r].dirty =>
                                session[r].data = DataAt(presented[r])
                          /\ pc[r] \in {"action", "reply"} /\ ~session[r].dirty /\ Rotated(r) =>
                                /\ presented[r] \notin DOMAIN entries
                                /\ session[r].id \notin DOMAIN entries
                          /\ pc[r] = "drop" =>
                                /\ session[r].id \in DOMAIN entries
                                /\ entries[session[r].id].data = session[r].data
  <2>1. ASSUME NEW r \in Requests, Handle(r), Stored(r)' PROVE StoredInv'
    <3>1. StepOf(r)
      BY <2>1, HandleIsStep
    <3>2. pc[r] \in Running \/ pc'[r] \in Running
      BY <2>1, LoadStep, ActStep
      DEF Handle, Send, Finish, DestroyEntry, SaveEntry, DropPrevious, Reply, Fail, Goto,
          Running, TypeOK
    <3>3. ASSUME NEW q \in Requests, q # r, pc[q] \in {"action", "reply", "drop"}
          PROVE  Stored(q)'
      <4>1. ClientOf[q] # ClientOf[r]
        BY <3>1, <3>2, <3>3 DEF StepOf, Serial, InFlightTogether, Running
      <4>2. /\ OwnerOf(session[q].id) # ClientOf[r]
            /\ presented[q] # None => OwnerOf(presented[q]) # ClientOf[r]
        BY <4>1 DEF SessionsIsolated
      <4>3. None \notin DOMAIN entries /\ None \notin DOMAIN entries'
        BY DEF TypeOK
      <4>4. /\ presented[q] \in DOMAIN entries' <=> presented[q] \in DOMAIN entries
            /\ DataAt(presented[q])' = DataAt(presented[q])
        BY <3>1, <3>3, <4>2, <4>3 DEF StepOf, DataAt
      <4>5. /\ session[q].id \in DOMAIN entries' <=> session[q].id \in DOMAIN entries
            /\ session[q].id \in DOMAIN entries =>
                  entries'[session[q].id] = entries[session[q].id]
        BY <3>1, <4>2 DEF StepOf
      <4>6. pc'[q] = pc[q] /\ presented'[q] = presented[q] /\ session'[q] = session[q]
        BY <3>1, <3>3 DEF StepOf
      <4> QED
        BY <4>4, <4>5, <4>6 DEF StoredInv, Rotated
    <3>4. \A q \in Requests : q # r => pc'[q] = pc[q]
      BY <3>1 DEF StepOf
    <3> QED
      BY <2>1, <3>3, <3>4 DEF StoredInv
  <2>2. ASSUME NEW r \in Requests, LoadKnown(r) PROVE Stored(r)'
    <3>1. presented[r] \in DOMAIN entries /\ UNCHANGED <<presented, entries>>
      BY <2>2 DEF LoadKnown, Found
    <3> DEFINE d == entries[presented[r]].data
    <3>2. d \in Data
      BY <3>1 DEF TypeOK
    <3>3. session'[r] = AgeFlash(Attached(presented[r], d)) /\ pc'[r] = "action"
      BY <2>2 DEF LoadKnown, Attach, Goto, TypeOK
    <3>4. ~AgeFlash(Attached(presented[r], d)).dirty =>
             AgeFlash(Attached(presented[r], d)).data = d
      BY <3>2 DEF AgeFlash, Attached, Data
    <3>5. AgeFlash(Attached(presented[r], d)).id = presented[r]
      BY DEF AgeFlash, Attached
    <3>6. ~Rotated(r)'
      BY <3>1, <3>3, <3>5 DEF Rotated
    <3>7. DataAt(presented[r])' = d
      BY <3>1 DEF DataAt
    <3> QED
      BY <3>3, <3>4, <3>6, <3>7
  <2>3. ASSUME NEW r \in Requests, LoadFresh(r) PROVE Stored(r)'
    <3>1. session'[r] = AgeFlash(Attached(NewId(r), EmptyData)) /\ pc'[r] = "action"
          /\ presented' = presented /\ entries' = AfterLoad(entries, presented[r], clock)
      BY <2>3 DEF LoadFresh, Attach, Goto, TypeOK
    <3>2. presented[r] \notin DOMAIN entries'
      BY <2>3, <3>1 DEF LoadFresh, AfterLoad, Without, Found, TypeOK
    <3>3. AgeFlash(Attached(NewId(r), EmptyData)).data = EmptyData
          /\ AgeFlash(Attached(NewId(r), EmptyData)).id = NewId(r)
      BY DEF AgeFlash, Attached, EmptyData
    <3>4. NewId(r) \notin DOMAIN entries'
      BY <3>1, NewIdFresh DEF AllDrawn, AfterLoad, Without
    <3>5. DataAt(presented[r])' = EmptyData
      BY <3>1, <3>2 DEF DataAt
    <3> QED
      BY <3>1, <3>2, <3>3, <3>4, <3>5
  <2>4. ASSUME NEW r \in Requests, Act(r) PROVE Stored(r)'
    <3>1. PICK s \in Handles : s.dirty /\ session' = [session EXCEPT ![r] = s]
      BY <2>4, ActStep DEF Operated
    <3>2. pc'[r] = "action" /\ session'[r].dirty
      BY <2>4, <3>1, ActStep DEF TypeOK
    <3> QED
      BY <3>2
  <2>5. ASSUME NEW r \in Requests, Finish(r) PROVE Stored(r)'
    <3>1. pc[r] = "action" /\ pc'[r] \in {"destroy", "save", "reply"}
          /\ UNCHANGED <<presented, session, entries>>
      BY <2>5 DEF Finish, Goto, TypeOK
    <3> QED
      BY <3>1 DEF StoredInv, Rotated
  <2>6. ASSUME NEW r \in Requests, DestroyEntry(r) \/ DropPrevious(r) PROVE Stored(r)'
    <3>1. pc[r] \in {"destroy", "drop"} /\ pc'[r] = "reply" /\ session' = session
      BY <2>6 DEF DestroyEntry, DropPrevious, Goto, TypeOK
    <3>2. session[r].dirty
      BY <3>1 DEF StageInv
    <3> QED
      BY <3>1, <3>2
  <2>7. ASSUME NEW r \in Requests, SaveEntry(r) PROVE Stored(r)'
    <3>1. pc[r] = "save" /\ pc'[r] \in {"reply", "drop"} /\ session' = session
          /\ entries' = Saved(entries, session[r].id, session[r].data, clock + TTL)
      BY <2>7 DEF SaveEntry, Goto, TypeOK
    <3>2. session[r].dirty
      BY <3>1 DEF StageInv
    <3>3. session[r].id \in DOMAIN entries' /\ entries'[session[r].id].data = session[r].data
      BY <3>1 DEF Saved
    <3> QED
      BY <3>1, <3>2, <3>3
  <2>8. ASSUME NEW r \in Requests, Send(r) \/ Reply(r) \/ Fail(r) PROVE Stored(r)'
    BY <2>8 DEF Send, Reply, Fail, Goto, TypeOK
  <2>9. CASE Restart
    BY <2>9 DEF Restart, StoredInv, Running, TypeOK
  <2>10. CASE Tick \/ UNCHANGED vars
    BY <2>10 DEF Tick, vars, requestVars, StoredInv, DataAt, Rotated
  <2> HIDE DEF Stored
  <2> QED
    BY <2>1, <2>2, <2>3, <2>4, <2>5, <2>6, <2>7, <2>8, <2>9, <2>10 DEF Next, Handle
<1> QED
  BY <1>1, <1>2, TypeCorrect, SerialInductive, StageInductive, Isolation, AllDrawnInductive,
     PTL
  DEF Spec

\* The response of r names an id no cookie names yet.
Naming(r) ==
    pc[r] = "reply" /\ Rotated(r) /\ session[r].dirty /\ ~session[r].destroyed

\* What the cell of a client is, by the request it has in flight.
CellValue ==
    /\ \A c \in Clients : InFlight(c) = {} => CellOf(c) = DataAt(JarId(c))
    /\ \A r \in Requests : pc[r] \in Running =>
          CellOf(ClientOf[r]) = DataAt(IF Naming(r) THEN session[r].id ELSE presented[r])

\* The cell by what is on its way to the client.
LEMMA CurrentCell ==
    ASSUME TypeOK, KeptInv, NEW c \in Clients
    PROVE  /\ Unanswered(c) = {} => CellOf(c) = DataAt(JarId(c))
           /\ \A r \in Requests : Unanswered(c) = {r} => CellOf(c) = DataAt(session[r].id)
BY NothingExpired DEF CellOf, CurrentId, DataAt

\* The request in flight, if there is one, is the only one that can be on its way.
LEMMA CellKnown ==
    ASSUME TypeOK, Serial, KeptInv PROVE CellValue
<1> USE GuardAssumption
<1>1. \A c \in Clients : Unanswered(c) \subseteq InFlight(c)
  BY DEF Unanswered, InFlight, RequestsOf, Running
<1>2. ASSUME NEW r \in Requests, pc[r] \in Running
      PROVE  CellOf(ClientOf[r]) = DataAt(IF Naming(r) THEN session[r].id ELSE presented[r])
  <2>1. InFlight(ClientOf[r]) = {r}
    BY <1>2 DEF InFlight, Serial, InFlightTogether
  <2>2. r \in Unanswered(ClientOf[r]) <=> Naming(r)
    BY DEF Unanswered, RequestsOf, Naming
  <2>3. CASE Naming(r)
    BY <1>1, <2>1, <2>2, <2>3, CurrentCell
  <2>4. CASE ~Naming(r)
    <3>1. Unanswered(ClientOf[r]) = {}
      BY <1>1, <2>1, <2>2, <2>4
    <3>2. presented[r] = JarId(ClientOf[r])
      BY <1>2 DEF KeptInv
    <3> QED
      BY <2>4, <3>1, <3>2, CurrentCell
  <2> QED
    BY <2>3, <2>4
<1> QED
  BY <1>1, <1>2, CurrentCell DEF CellValue

cellOf == [c \in Clients |-> CellOf(c)]
copyOf == [r \in Requests |-> session[r].data]
endedOf == [r \in Requests |-> session[r].destroyed]
stageOf == [r \in Requests |-> StageOf(r)]

\* A step of one request changes the cell of its client only.
LEMMA StepMaps ==
    ASSUME TypeOK, TypeOK', SessionsIsolated, KeptInv, KeptInv', Serial, Serial',
           NEW r \in Requests, StepOf(r)
    PROVE  /\ cellOf' = [cellOf EXCEPT ![ClientOf[r]] = CellOf(ClientOf[r])']
           /\ copyOf' = [copyOf EXCEPT ![r] = session'[r].data]
           /\ endedOf' = [endedOf EXCEPT ![r] = session'[r].destroyed]
           /\ stageOf' = [stageOf EXCEPT ![r] = StageOf(r)']
<1> USE GuardAssumption
<1>1. \A q \in Requests : q # r => /\ Rotated(q)' <=> Rotated(q)
                                   /\ StageOf(q)' = StageOf(q)
  BY DEF StepOf, Rotated, StageOf
<1>2. ASSUME NEW c \in Clients, c # ClientOf[r] PROVE CellOf(c)' = CellOf(c)
  <2>1. \A q \in RequestsOf(c) : q \in Requests /\ q # r
    BY <1>2 DEF RequestsOf
  <2>2. Unanswered(c)' = Unanswered(c)
    BY <1>1, <2>1 DEF Unanswered, RequestsOf, StepOf
  <2>3. \A q \in Unanswered(c) : session'[q].id = session[q].id
    BY <2>1 DEF Unanswered, StepOf
  <2>4. CurrentId(c)' = CurrentId(c)
    <3>1. CookieOf(c)' = CookieOf(c)
      <4>1. jar'[c] = jar[c]
        BY <1>2 DEF StepOf
      <4>2. /\ jar[c] # None => jar[c].expires > clock
            /\ jar'[c] # None => jar'[c].expires > clock'
        BY DEF KeptInv, TypeOK, Cookies
      <4> QED
        BY <4>1, <4>2 DEF CookieOf
    <3> DEFINE q == CHOOSE q \in Unanswered(c) : TRUE
    <3>2. CASE Unanswered(c) # {}
      <4>1. q \in Unanswered(c)
        BY <3>2
      <4> QED
        BY <2>2, <2>3, <3>2, <4>1 DEF CurrentId
    <3>3. CASE Unanswered(c) = {}
      BY <2>2, <3>1, <3>3 DEF CurrentId
    <3> QED
      BY <3>2, <3>3
  <2>5. CurrentId(c) = None \/ OwnerOf(CurrentId(c)) = c
    <3>1. \A q \in Unanswered(c) : OwnerOf(session[q].id) = c
      BY DEF Unanswered, RequestsOf, SessionsIsolated
    <3>2. CookieOf(c) = None \/ OwnerOf(CookieOf(c)) = c
      BY DEF CookieOf, SessionsIsolated
    <3> QED
      BY <3>1, <3>2 DEF CurrentId
  <2>6. None \notin DOMAIN entries /\ None \notin DOMAIN entries'
    BY DEF TypeOK
  <2>7. /\ CurrentId(c) \in DOMAIN entries' <=> CurrentId(c) \in DOMAIN entries
        /\ CurrentId(c) \in DOMAIN entries =>
              entries'[CurrentId(c)] = entries[CurrentId(c)]
    BY <1>2, <2>5, <2>6 DEF StepOf
  <2>8. /\ CurrentId(c) \in DOMAIN entries => entries[CurrentId(c)].expires > clock
        /\ CurrentId(c) \in DOMAIN entries' => entries'[CurrentId(c)].expires > clock'
    BY DEF KeptInv, TypeOK
  <2> QED
    BY <2>4, <2>7, <2>8 DEF CellOf, Found
<1> QED
  BY <1>1, <1>2 DEF cellOf, copyOf, endedOf, stageOf, StepOf

\* What the operators of SessionCell are in terms of those of Session.
LEMMA CellData ==
    /\ Cell!EmptyData = EmptyData
    /\ \A d : Cell!Moved(d) = [d EXCEPT !.now = d.next, !.next = {}]
    /\ \A d, r : \A k \in Keys, w \in {r, None} :
          [d EXCEPT !.vals[k] = w] \in Cell!Edits(d, r)
    /\ \A d, r : [d EXCEPT !.next = d.next \cup {r}] \in Cell!Edits(d, r)
    /\ \A d, r : [d EXCEPT !.subject = r] \in Cell!Edits(d, r)
    /\ \A d, r : EmptyData \in Cell!Edits(d, r)
<1>1. Cell!EmptyData = EmptyData
  BY DEF EmptyData, Cell!EmptyData
<1>2. \A d : Cell!Moved(d) = [d EXCEPT !.now = d.next, !.next = {}]
  BY DEF Cell!Moved
<1>3. ASSUME NEW d, NEW r, NEW k \in Keys, NEW w \in {r, None}
      PROVE  [d EXCEPT !.vals[k] = w] \in Cell!Edits(d, r)
  <2>1. Cell!WithValue(d, k, w) \in Cell!Edits(d, r)
    BY DEF Cell!Edits
  <2> QED
    BY <2>1 DEF Cell!WithValue
<1>4. ASSUME NEW d, NEW r
      PROVE  /\ [d EXCEPT !.next = d.next \cup {r}] \in Cell!Edits(d, r)
             /\ [d EXCEPT !.subject = r] \in Cell!Edits(d, r)
             /\ EmptyData \in Cell!Edits(d, r)
  BY <1>1 DEF Cell!Edits
<1> QED
  BY <1>1, <1>2, <1>3, <1>4

\* The steps of the cell, by what they do at the request and its client.
LEMMA CellSteps ==
    ASSUME NEW r \in Requests,
           cellOf' = [cellOf EXCEPT ![ClientOf[r]] = CellOf(ClientOf[r])'],
           copyOf' = [copyOf EXCEPT ![r] = session'[r].data],
           endedOf' = [endedOf EXCEPT ![r] = session'[r].destroyed],
           stageOf' = [stageOf EXCEPT ![r] = StageOf(r)']
    PROVE  LET c == ClientOf[r]
               kept == /\ session'[r].data = session[r].data
                       /\ session'[r].destroyed = session[r].destroyed
           IN  /\ StageOf(r)' = StageOf(r) /\ CellOf(c)' = CellOf(c) /\ kept =>
                     UNCHANGED Cell!cellVars
               /\ /\ StageOf(r) = "idle" /\ StageOf(r)' = "open" /\ Cell!Alone(r)
                  /\ session'[r].data = Cell!Moved(CellOf(c))
                  /\ session'[r].destroyed = session[r].destroyed
                  /\ CellOf(c)' = CellOf(c)
                  => Cell!Open(r)
               /\ /\ StageOf(r) = "open" /\ StageOf(r)' = "open" /\ CellOf(c)' = CellOf(c)
                  /\ session'[r].data \in Cell!Edits(session[r].data, r)
                  /\ session'[r].destroyed = session[r].destroyed
                  => Cell!Edit(r)
               /\ /\ StageOf(r) = "open" /\ StageOf(r)' = "open" /\ CellOf(c)' = CellOf(c)
                  /\ session'[r].data = EmptyData /\ session'[r].destroyed = TRUE
                  => Cell!End(r)
               /\ /\ StageOf(r) = "open" /\ StageOf(r)' \in {"written", "done"} /\ kept
                  /\ CellOf(c)' = IF session[r].destroyed THEN EmptyData ELSE session[r].data
                  => Cell!WriteBack(r)
               /\ /\ StageOf(r) = "written" /\ StageOf(r)' = "done" /\ kept
                  /\ CellOf(c)' = CellOf(c)
                  => Cell!Answer(r)
               /\ /\ StageOf(r) \in {"idle", "open"} /\ StageOf(r)' = "failed" /\ kept
                  /\ CellOf(c)' = CellOf(c)
                  => Cell!GiveUp(r)
               /\ /\ StageOf(r) = "written" /\ StageOf(r)' = "failed" /\ kept
                  /\ CellOf(c)' \in {CellOf(c), EmptyData}
                  => Cell!LoseAnswer(r)
<1> USE GuardAssumption
<1> DEFINE c == ClientOf[r]
<1>1. /\ c \in Clients
      /\ cellOf[c] = CellOf(c) /\ copyOf[r] = session[r].data
      /\ endedOf[r] = session[r].destroyed /\ stageOf[r] = StageOf(r)
  BY DEF cellOf, copyOf, endedOf, stageOf
<1>2. CellOf(c)' = CellOf(c) => cellOf' = cellOf
  BY <1>1 DEF cellOf
<1>3. session'[r].data = session[r].data => copyOf' = copyOf
  BY <1>1 DEF copyOf
<1>4. session'[r].destroyed = session[r].destroyed => endedOf' = endedOf
  BY <1>1 DEF endedOf
<1>5. StageOf(r)' = StageOf(r) => stageOf' = stageOf
  BY <1>1 DEF stageOf
<1>6. /\ Cell!cellVars = <<cellOf, copyOf, endedOf, stageOf>>
      /\ Cell!cellVars' = <<cellOf', copyOf', endedOf', stageOf'>>
  BY DEF Cell!cellVars, cellOf, copyOf, endedOf, stageOf
<1>7. Cell!Open(r) <=>
         /\ stageOf[r] = "idle" /\ Cell!Alone(r)
         /\ stageOf' = [stageOf EXCEPT ![r] = "open"]
         /\ copyOf' = [copyOf EXCEPT ![r] = Cell!Moved(cellOf[c])]
         /\ UNCHANGED <<cellOf, endedOf>>
  BY DEF Cell!Open, cellOf, copyOf, endedOf, stageOf
<1>8. Cell!Edit(r) <=>
         /\ stageOf[r] = "open"
         /\ \E d \in Cell!Edits(copyOf[r], r) : copyOf' = [copyOf EXCEPT ![r] = d]
         /\ UNCHANGED <<cellOf, endedOf, stageOf>>
  BY DEF Cell!Edit, cellOf, copyOf, endedOf, stageOf
<1>9. Cell!End(r) <=>
         /\ stageOf[r] = "open"
         /\ copyOf' = [copyOf EXCEPT ![r] = EmptyData]
         /\ endedOf' = [endedOf EXCEPT ![r] = TRUE]
         /\ UNCHANGED <<cellOf, stageOf>>
  BY CellData DEF Cell!End, cellOf, copyOf, endedOf, stageOf
<1>10. Cell!WriteBack(r) <=>
         /\ stageOf[r] = "open"
         /\ cellOf' = [cellOf EXCEPT ![c] = IF endedOf[r] THEN EmptyData ELSE copyOf[r]]
         /\ \E s \in {"written", "done"} : stageOf' = [stageOf EXCEPT ![r] = s]
         /\ UNCHANGED <<copyOf, endedOf>>
  BY CellData DEF Cell!WriteBack, Cell!Result, cellOf, copyOf, endedOf, stageOf
<1>11. Cell!Answer(r) <=>
         /\ stageOf[r] = "written"
         /\ stageOf' = [stageOf EXCEPT ![r] = "done"]
         /\ UNCHANGED <<cellOf, copyOf, endedOf>>
  BY DEF Cell!Answer, cellOf, copyOf, endedOf, stageOf
<1>12. Cell!GiveUp(r) <=>
         /\ stageOf[r] \in {"idle", "open"}
         /\ stageOf' = [stageOf EXCEPT ![r] = "failed"]
         /\ UNCHANGED <<cellOf, copyOf, endedOf>>
  BY DEF Cell!GiveUp, cellOf, copyOf, endedOf, stageOf
<1>13. Cell!LoseAnswer(r) <=>
         /\ stageOf[r] = "written"
         /\ stageOf' = [stageOf EXCEPT ![r] = "failed"]
         /\ cellOf' \in {cellOf, [cellOf EXCEPT ![c] = EmptyData]}
         /\ UNCHANGED <<copyOf, endedOf>>
  BY CellData DEF Cell!LoseAnswer, cellOf, copyOf, endedOf, stageOf
<1> HIDE DEF c
<1> QED
  BY <1>1, <1>2, <1>3, <1>4, <1>5, <1>6, <1>7, <1>8, <1>9, <1>10, <1>11, <1>12, <1>13 DEF c

\* The same of the next state.
LEMMA CellKnownNext == TypeOK' /\ Serial' /\ KeptInv' => CellValue'
<1>1. TypeOK /\ Serial /\ KeptInv => CellValue
  BY CellKnown
<1> QED
  BY <1>1, PTL

Edited(s, t, r) == t.data \in Cell!Edits(s.data, r) /\ t.destroyed = s.destroyed

\* Every operation but destroy and regenerate is an edit of the data.
LEMMA OperationEdits ==
    ASSUME NEW s \in Handles, NEW r \in Requests, NEW id
    PROVE  /\ \A k \in Keys : Edited(s, Put(s, k, r), r) /\ Edited(s, Forget(s, k), r)
           /\ Edited(s, Flash(s, r), r) /\ Edited(s, Flush(s), r)
           /\ Edited(s, SetSubject(s, r), r) /\ Edited(s, Login(s, id, r), r)
<1>1. \A d : /\ Write(s, d).data = d /\ Write(s, d).destroyed = s.destroyed
             /\ Write(Regenerate(s, id), d).data = d
             /\ Write(Regenerate(s, id), d).destroyed = s.destroyed
  BY DEF Write, Regenerate, Handles
<1>2. Regenerate(s, id).data = s.data
  BY DEF Regenerate, Handles
<1>3. \A k \in Keys, w \in {r, None} : [s.data EXCEPT !.vals[k] = w] \in Cell!Edits(s.data, r)
  BY CellData
<1>4. /\ [s.data EXCEPT !.next = @ \cup {r}] \in Cell!Edits(s.data, r)
      /\ [s.data EXCEPT !.subject = r] \in Cell!Edits(s.data, r)
      /\ EmptyData \in Cell!Edits(s.data, r)
  BY CellData
<1> QED
  BY <1>1, <1>2, <1>3, <1>4 DEF Edited, Put, Forget, Flash, Flush, SetSubject, Login

\* What the state says of a request and its client's cell.
GuardInv ==
    /\ TypeOK /\ Serial /\ StageInv /\ SessionsIsolated /\ AllDrawn
    /\ RetiredInv /\ KeptInv /\ StoredInv

\* All of it holds in every reachable state.
LEMMA GuardInductive == ASSUME OneAtATime, NothingExpires PROVE Spec => []GuardInv
<1> QED
  BY TypeCorrect, SerialInductive, StageInductive, Isolation, AllDrawnInductive,
     RetiredInductive, KeptInductive, StoredInductive, PTL
  DEF GuardInv

\* A step of a request is a step of the cell.
LEMMA HandleMaps ==
    ASSUME OneAtATime, GuardInv, GuardInv', [Next]_vars, NEW r \in Requests, Handle(r)
    PROVE  Cell!CellNext \/ UNCHANGED Cell!cellVars
<1> USE GuardAssumption
<1> USE DEF GuardInv
<1> DEFINE c == ClientOf[r]
           value == DataAt(IF Naming(r) THEN session[r].id ELSE presented[r])
<1>1. StepOf(r)
  BY HandleIsStep
<1>2. /\ cellOf' = [cellOf EXCEPT ![c] = CellOf(c)']
      /\ copyOf' = [copyOf EXCEPT ![r] = session'[r].data]
      /\ endedOf' = [endedOf EXCEPT ![r] = session'[r].destroyed]
      /\ stageOf' = [stageOf EXCEPT ![r] = StageOf(r)']
  BY <1>1, StepMaps
<1>3. \A q \in Requests : q # r /\ ClientOf[q] = c =>
         pc'[q] = pc[q] /\ pc[q] \notin Running
  <2>1. pc[r] \in Running \/ pc'[r] \in Running
    BY LoadStep, ActStep
    DEF Handle, Send, Finish, DestroyEntry, SaveEntry, DropPrevious, Reply, Fail, Goto,
        Running, TypeOK
  <2> QED
    BY <1>1, <2>1 DEF StepOf, Serial, InFlightTogether
<1>4. c \in Clients /\ None \notin DOMAIN entries /\ None \notin DOMAIN entries'
  BY DEF TypeOK
<1>5. pc[r] \in Running => CellOf(c) = value /\ presented[r] = JarId(c)
  BY CellKnown DEF CellValue, KeptInv
<1>6. pc'[r] \in Running => CellOf(c)' = value'
  <2>1. CellValue'
    BY CellKnownNext
  <2> QED
    BY <2>1 DEF CellValue
<1>7. ASSUME pc'[r] \notin Running PROVE CellOf(c)' = DataAt(JarId(c))'
  <2>1. CellValue'
    BY CellKnownNext
  <2>2. InFlight(c)' = {}
    BY <1>3, <1>7 DEF InFlight
  <2> QED
    BY <1>4, <2>1, <2>2 DEF CellValue
<1>8. /\ session[r] \in Handles /\ session[r].data \in Data
      /\ session[r].id # None
      /\ session[r].destroyed \in BOOLEAN /\ session[r].dirty \in BOOLEAN
  BY DEF TypeOK, Handles
<1>9. CASE Send(r)
  <2>1. /\ pc[r] = "idle" /\ pc'[r] = "load" /\ UNCHANGED <<session, entries, jar>>
        /\ presented'[r] = CookieOf(c)
    BY <1>9 DEF Send, Goto, TypeOK
  <2>2. InFlight(c) = {}
    BY <1>9, AloneWhenSent DEF InFlight
  <2>3. CellOf(c) = DataAt(JarId(c))
    BY <1>4, <2>2, CellKnown DEF CellValue
  <2>4. CellOf(c)' = CellOf(c)
    BY <1>4, <1>6, <2>1, <2>3, NothingExpired DEF Naming, DataAt, Running
  <2>5. StageOf(r)' = StageOf(r)
    BY <2>1 DEF StageOf
  <2> QED
    BY <1>2, <2>1, <2>4, <2>5, CellSteps
<1>10. CASE LoadKnown(r) \/ LoadFresh(r)
  <2>1. pc[r] = "load" /\ pc'[r] = "action" /\ UNCHANGED <<presented, jar>>
    BY <1>10, LoadStep DEF TypeOK
  <2>2. CellOf(c) = DataAt(presented[r]) /\ CellOf(c)' = DataAt(presented[r])'
    <3>1. ~Naming(r) /\ ~Naming(r)'
      BY <2>1 DEF Naming
    <3> QED
      BY <1>5, <1>6, <2>1, <3>1 DEF Running
  <2>3. session[r].destroyed = FALSE
    <3>1. session[r] = Unloaded(r) /\ Unloaded(r).destroyed = FALSE
      <4>1. Unloaded(r).destroyed = FALSE
        BY DEF Unloaded, Attached
      <4> QED
        BY <2>1, <4>1 DEF StageInv
    <3> QED
      BY <3>1
  <2>4. /\ session'[r].data = Cell!Moved(CellOf(c)) /\ session'[r].destroyed = FALSE
        /\ CellOf(c)' = CellOf(c)
    <3>1. CASE LoadKnown(r)
      <4>1. /\ session'[r] = AgeFlash(Attached(presented[r], entries[presented[r]].data))
            /\ presented[r] \in DOMAIN entries /\ entries' = entries
        BY <3>1 DEF LoadKnown, Attach, Found, TypeOK
      <4> QED
        BY <2>1, <2>2, <4>1, CellData DEF DataAt, AgeFlash, Attached
    <3>2. CASE LoadFresh(r)
      <4>1. /\ session'[r] = AgeFlash(Attached(NewId(r), EmptyData))
            /\ presented[r] \notin DOMAIN entries /\ DOMAIN entries' \subseteq DOMAIN entries
        BY <3>2, <1>4, NothingExpired DEF LoadFresh, Attach, AfterLoad, Without, TypeOK
      <4> QED
        BY <2>1, <2>2, <4>1, CellData DEF DataAt, AgeFlash, Attached
    <3> QED
      BY <1>10, <3>1, <3>2
  <2>5. StageOf(r) = "idle" /\ StageOf(r)' = "open"
    BY <2>1 DEF StageOf
  <2>6. Cell!Alone(r)
    <3>1. \A q \in Requests : ClientOf[q] = c => StageOf(q) \notin {"open", "written"}
      BY <1>3, <2>5 DEF StageOf, Running, TypeOK, Steps
    <3> QED
      BY <3>1 DEF Cell!Alone
  <2>7. Cell!Open(r)
    BY <1>2, <2>3, <2>4, <2>5, <2>6, CellSteps
  <2> QED
    BY <2>7 DEF Cell!CellNext
<1>11. CASE Act(r)
  <2>1. pc[r] = "action" /\ UNCHANGED <<pc, presented, entries>>
    BY <1>11, ActStep
  <2>2. CellOf(c)' = CellOf(c)
    BY <1>5, <1>6, <2>1 DEF Naming, DataAt, Running
  <2>3. StageOf(r) = "open" /\ StageOf(r)' = "open"
    BY <2>1 DEF StageOf
  <2> DEFINE d == session[r].data
  <2>4. CASE \/ PutValue(r) \/ ForgetValue(r) \/ FlashValue(r) \/ FlushSession(r)
             \/ NameSubject(r) \/ LogIn(r)
    <3>1. PICK s : session' = [session EXCEPT ![r] = s] /\ Edited(session[r], s, r)
      <4>1. CASE PutValue(r)
        BY <1>8, <4>1, OperationEdits DEF PutValue, Operate
      <4>2. CASE ForgetValue(r)
        BY <1>8, <4>2, OperationEdits DEF ForgetValue, Operate
      <4>3. CASE FlashValue(r)
        BY <1>8, <4>3, OperationEdits DEF FlashValue, Operate
      <4>4. CASE FlushSession(r)
        BY <1>8, <4>4, OperationEdits DEF FlushSession, Operate
      <4>5. CASE NameSubject(r)
        BY <1>8, <4>5, OperationEdits DEF NameSubject, Operate
      <4>6. CASE LogIn(r)
        BY <1>8, <4>6, OperationEdits DEF LogIn, Operate
      <4> QED
        BY <2>4, <4>1, <4>2, <4>3, <4>4, <4>5, <4>6
    <3>2. session'[r].data \in Cell!Edits(d, r) /\ session'[r].destroyed = session[r].destroyed
      BY <3>1 DEF TypeOK, Edited
    <3>3. Cell!Edit(r)
      BY <1>2, <2>2, <2>3, <3>2, CellSteps
    <3> QED
      BY <3>3 DEF Cell!CellNext
  <2>5. CASE DestroySession(r)
    <3>1. session'[r].data = EmptyData /\ session'[r].destroyed = TRUE
      BY <1>8, <2>5 DEF DestroySession, Operate, Destroy, Write, TypeOK, Handles
    <3>2. Cell!End(r)
      BY <1>2, <2>2, <2>3, <3>1, CellSteps
    <3> QED
      BY <3>2 DEF Cell!CellNext
  <2>6. CASE RegenerateId(r)
    <3>1. session'[r].data = d /\ session'[r].destroyed = session[r].destroyed
      BY <1>8, <2>6 DEF RegenerateId, Operate, Regenerate, TypeOK, Handles
    <3> QED
      BY <1>2, <2>2, <2>3, <3>1, CellSteps
  <2> QED
    BY <1>11, <2>4, <2>5, <2>6 DEF Act
<1>12. CASE Finish(r)
  <2>1. /\ pc[r] = "action" /\ UNCHANGED <<presented, session, entries>>
        /\ \/ pc'[r] \in {"destroy", "save"}
           \/ pc'[r] = "reply" /\ ~session[r].dirty /\ ~session[r].destroyed
    BY <1>12 DEF Finish, Goto, TypeOK
  <2>2. ~Naming(r) /\ ~Naming(r)'
    BY <2>1 DEF Naming
  <2>3. CellOf(c) = DataAt(presented[r]) /\ CellOf(c)' = CellOf(c)
    BY <1>5, <1>6, <2>1, <2>2 DEF DataAt, Running
  <2>4. StageOf(r) = "open"
    BY <2>1 DEF StageOf
  <2>5. CASE pc'[r] \in {"destroy", "save"}
    <3>1. StageOf(r)' = "open"
      BY <2>5 DEF StageOf
    <3> QED
      BY <1>2, <2>1, <2>3, <2>4, <3>1, CellSteps
  <2>6. CASE pc'[r] = "reply" /\ ~session[r].dirty /\ ~session[r].destroyed
    <3>1. StageOf(r)' = "written"
      BY <2>1, <2>6 DEF StageOf
    <3>2. CellOf(c)' = session[r].data
      BY <2>1, <2>3, <2>6 DEF StoredInv
    <3>3. Cell!WriteBack(r)
      BY <1>2, <2>1, <2>4, <2>6, <3>1, <3>2, CellSteps
    <3> QED
      BY <3>3 DEF Cell!CellNext
  <2> QED
    BY <2>1, <2>5, <2>6
<1>13. CASE DestroyEntry(r)
  <2>1. /\ pc[r] = "destroy" /\ pc'[r] = "reply" /\ UNCHANGED <<presented, session>>
        /\ entries' = Without(entries, session[r].id)
    BY <1>13 DEF DestroyEntry, Goto, TypeOK
  <2>2. session[r].destroyed
    BY <2>1 DEF StageInv
  <2>3. CellOf(c) = DataAt(presented[r]) /\ CellOf(c)' = DataAt(presented[r])'
    <3>1. ~Naming(r) /\ ~Naming(r)'
      BY <2>1, <2>2 DEF Naming
    <3> QED
      BY <1>5, <1>6, <2>1, <3>1 DEF Running
  <2>4. StageOf(r) = "open"
    BY <2>1 DEF StageOf
  <2>5. CASE Rotated(r)
    <3>1. CellOf(c)' = CellOf(c)
      BY <2>1, <2>3, <2>5 DEF DataAt, Without, Rotated
    <3>2. StageOf(r)' = "open"
      BY <2>1, <2>2, <2>5 DEF StageOf, Rotated
    <3> QED
      BY <1>2, <2>1, <2>4, <3>1, <3>2, CellSteps
  <2>6. CASE ~Rotated(r)
    <3>1. CellOf(c)' = EmptyData
      BY <2>1, <2>3, <2>6 DEF DataAt, Without, Rotated
    <3>2. StageOf(r)' = "written"
      BY <2>1, <2>6 DEF StageOf, Rotated
    <3>3. Cell!WriteBack(r)
      BY <1>2, <2>1, <2>2, <2>4, <3>1, <3>2, CellSteps
    <3> QED
      BY <3>3 DEF Cell!CellNext
  <2> QED
    BY <2>5, <2>6
<1>14. CASE SaveEntry(r)
  <2>1. /\ pc[r] = "save" /\ UNCHANGED <<presented, session>>
        /\ entries' = Saved(entries, session[r].id, session[r].data, clock + TTL)
        /\ pc' = [pc EXCEPT ![r] =
                     IF presented[r] # None /\ Rotated(r) THEN "drop" ELSE "reply"]
    BY <1>14 DEF SaveEntry, Goto
  <2>2. session[r].dirty /\ ~session[r].destroyed
    BY <2>1 DEF StageInv
  <2>3. StageOf(r) = "open" /\ ~Naming(r)
    BY <2>1 DEF StageOf, Naming
  <2>4. CellOf(c) = DataAt(presented[r])
    BY <1>5, <2>1, <2>3 DEF Running
  <2>5. CASE presented[r] # None /\ Rotated(r)
    <3>1. pc'[r] = "drop"
      BY <2>1, <2>5 DEF TypeOK
    <3>2. StageOf(r)' = "open" /\ ~Naming(r)'
      BY <3>1 DEF StageOf, Naming
    <3>3. CellOf(c)' = DataAt(presented[r])'
      BY <1>6, <3>1, <3>2 DEF Running
    <3>4. CellOf(c)' = CellOf(c)
      BY <2>1, <2>4, <2>5, <3>3 DEF DataAt, Saved, Rotated
    <3> QED
      BY <1>2, <2>1, <2>3, <3>2, <3>4, CellSteps
  <2>6. CASE ~(presented[r] # None /\ Rotated(r))
    <3>1. pc'[r] = "reply"
      BY <2>1, <2>6 DEF TypeOK
    <3>2. StageOf(r)' = "written"
      BY <2>1, <2>2, <3>1 DEF StageOf
    <3>3. DataAt(session[r].id)' = session[r].data
      BY <2>1 DEF DataAt, Saved
    <3>4. CellOf(c)' = session[r].data
      <4>1. CASE Rotated(r)
        <5>1. Naming(r)'
          BY <2>1, <2>2, <3>1, <4>1 DEF Naming, Rotated
        <5> QED
          BY <1>6, <3>1, <3>3, <5>1 DEF Running
      <4>2. CASE ~Rotated(r)
        <5>1. ~Naming(r)' /\ presented'[r] = session'[r].id
          BY <2>1, <4>2 DEF Naming, Rotated
        <5> QED
          BY <1>6, <3>1, <3>3, <5>1 DEF Running
      <4> QED
        BY <4>1, <4>2
    <3>5. Cell!WriteBack(r)
      BY <1>2, <2>1, <2>2, <2>3, <3>2, <3>4, CellSteps
    <3> QED
      BY <3>5 DEF Cell!CellNext
  <2> QED
    BY <2>5, <2>6
<1>15. CASE DropPrevious(r)
  <2>1. /\ pc[r] = "drop" /\ pc'[r] = "reply" /\ UNCHANGED <<presented, session>>
        /\ entries' = Without(entries, presented[r])
    BY <1>15 DEF DropPrevious, Goto, TypeOK
  <2>2. session[r].dirty /\ ~session[r].destroyed /\ Rotated(r)
    BY <2>1 DEF StageInv
  <2>3. Naming(r)'
    BY <2>1, <2>2 DEF Naming, Rotated
  <2>4. CellOf(c)' = DataAt(session[r].id)'
    BY <1>6, <2>1, <2>3 DEF Running
  <2>5. CellOf(c)' = session[r].data
    BY <2>1, <2>2, <2>4 DEF StoredInv, DataAt, Without, Rotated
  <2>6. StageOf(r) = "open" /\ StageOf(r)' = "written"
    BY <2>1, <2>2 DEF StageOf
  <2>7. Cell!WriteBack(r)
    BY <1>2, <2>1, <2>2, <2>5, <2>6, CellSteps
  <2> QED
    BY <2>7 DEF Cell!CellNext
<1>16. CASE Reply(r)
  <2>1. /\ pc[r] = "reply" /\ pc'[r] = "done" /\ UNCHANGED <<presented, session, entries>>
        /\ jar'[c] = CookieAfter(r, jar[c])
    BY <1>16 DEF Reply, Goto, TypeOK
  <2>2. StageOf(r)' = "done"
    BY <2>1 DEF StageOf
  <2>3. CellOf(c) = value /\ presented[r] = JarId(c) /\ CellOf(c)' = DataAt(JarId(c))'
    BY <1>5, <1>7, <2>1 DEF Running
  <2>4. DataAt(JarId(c))' = DataAt(JarId(c)')
    BY <2>1 DEF DataAt
  <2>5. ASSUME session[r].destroyed PROVE CellOf(c)' = EmptyData
    <3>1. JarId(c)' = None
      BY <2>1, <2>5 DEF CookieAfter, JarId
    <3> QED
      BY <1>4, <2>3, <2>4, <3>1 DEF DataAt
  <2>6. ASSUME ~session[r].destroyed, Rotated(r) PROVE CellOf(c)' = DataAt(session[r].id)
    <3> DEFINE new == [id |-> session[r].id, expires |-> clock + TTL]
    <3>1. new \in Cookies /\ new.id = session[r].id
      BY DEF Cookies, TypeOK, Handles
    <3>2. jar'[c] = new
      BY <2>1, <2>6 DEF CookieAfter
    <3>3. JarId(c)' = session[r].id
      BY <3>1, <3>2 DEF JarId
    <3> QED
      BY <2>3, <2>4, <3>3
  <2>7. CASE session[r].destroyed /\ Rotated(r)
    <3>1. StageOf(r) = "open"
      BY <2>1, <2>7 DEF StageOf
    <3>2. Cell!WriteBack(r)
      BY <1>2, <2>1, <2>2, <2>5, <2>7, <3>1, CellSteps
    <3> QED
      BY <3>2 DEF Cell!CellNext
  <2>8. CASE ~(session[r].destroyed /\ Rotated(r))
    <3>1. StageOf(r) = "written"
      BY <2>1, <2>8 DEF StageOf
    <3>2. CellOf(c)' = CellOf(c)
      <4>1. CASE session[r].destroyed
        <5>1. Retired(r)
          BY <1>8, <2>1, <2>8, <4>1, Zenon DEF Retired, Rotated, StageInv
        <5>2. ~Naming(r)
          BY <4>1 DEF Naming
        <5> QED
          BY <2>3, <2>5, <4>1, <5>1, <5>2 DEF RetiredInv, DataAt
      <4>2. CASE ~session[r].destroyed /\ Rotated(r) /\ session[r].dirty
        <5>1. Naming(r)
          BY <2>1, <4>2 DEF Naming
        <5> QED
          BY <2>3, <2>6, <4>2, <5>1
      <4>3. CASE ~session[r].destroyed /\ Rotated(r) /\ ~session[r].dirty
        <5>1. ~Naming(r)
          BY <4>3 DEF Naming
        <5>2. presented[r] \notin DOMAIN entries /\ session[r].id \notin DOMAIN entries
          BY <2>1, <4>3 DEF StoredInv
        <5> QED
          BY <2>3, <2>6, <4>3, <5>1, <5>2 DEF DataAt
      <4>4. CASE ~session[r].destroyed /\ ~Rotated(r)
        <5>1. ~Naming(r) /\ JarId(c)' = JarId(c)
          BY <2>1, <4>4 DEF Naming, CookieAfter, JarId
        <5> QED
          BY <2>3, <2>4, <5>1
      <4> QED
        BY <4>1, <4>2, <4>3, <4>4
    <3>3. Cell!Answer(r)
      BY <1>2, <2>1, <2>2, <3>1, <3>2, CellSteps
    <3> QED
      BY <3>3 DEF Cell!CellNext
  <2> QED
    BY <2>7, <2>8
<1>17. CASE Fail(r)
  <2>1. /\ pc[r] \in Running /\ pc'[r] = "failed"
        /\ UNCHANGED <<presented, session, entries, jar>>
    BY <1>17 DEF Fail, Goto, TypeOK
  <2>2. StageOf(r)' = "failed"
    BY <2>1 DEF StageOf
  <2>3. CellOf(c) = value /\ CellOf(c)' = DataAt(presented[r])
    BY <1>5, <1>7, <2>1 DEF Running, DataAt, JarId
  <2>4. CASE Naming(r)
    <3>1. StageOf(r) = "written"
      BY <2>4 DEF Naming, StageOf
    <3>2. presented[r] = None \/ Retired(r)
      BY <1>8, <2>4, Zenon DEF Naming, Retired
    <3>3. CellOf(c)' = EmptyData
      BY <1>4, <2>3, <3>2 DEF RetiredInv, DataAt
    <3>4. Cell!LoseAnswer(r)
      BY <1>2, <2>1, <2>2, <3>1, <3>3, CellSteps
    <3> QED
      BY <3>4 DEF Cell!CellNext
  <2>5. CASE ~Naming(r)
    <3>1. CellOf(c)' = CellOf(c)
      BY <2>3, <2>5
    <3>2. StageOf(r) \in {"idle", "open", "written"}
      BY <2>1 DEF StageOf, Running
    <3>3. Cell!GiveUp(r) \/ Cell!LoseAnswer(r)
      BY <1>2, <2>1, <2>2, <3>1, <3>2, CellSteps
    <3> QED
      BY <3>3 DEF Cell!CellNext
  <2> QED
    BY <2>4, <2>5
<1> QED
  BY <1>9, <1>10, <1>11, <1>12, <1>13, <1>14, <1>15, <1>16, <1>17 DEF Handle

\* For clients that send one request at a time, and while no cookie runs out,
\* the guard implements one cell of values for each client: every step is a step
\* of SessionCell, or changes nothing of it.  (auth.rs, session.rs.)
THEOREM Refinement == ASSUME OneAtATime, NothingExpires PROVE Spec => ImplementsCell
<1> USE GuardAssumption
<1>1. Init => Cell!CellInit
  <2> SUFFICES ASSUME Init PROVE Cell!CellInit
    OBVIOUS
  <2>1. \A c \in Clients : CellOf(c) = EmptyData
    BY DEF Init, CellOf, Found
  <2>2. \A r \in Requests : /\ session[r].data = EmptyData
                            /\ session[r].destroyed = FALSE
                            /\ StageOf(r) = "idle"
    BY DEF Init, Unloaded, Attached, StageOf
  <2> QED
    BY <2>1, <2>2, CellData DEF Cell!CellInit
<1>2. ASSUME OneAtATime, GuardInv, GuardInv', [Next]_vars
      PROVE  Cell!CellNext \/ UNCHANGED Cell!cellVars
  <2> USE <1>2 DEF GuardInv
  <2>1. ASSUME NEW r \in Requests, Handle(r) PROVE Cell!CellNext \/ UNCHANGED Cell!cellVars
    BY <2>1, HandleMaps
  <2>2. CASE Restart
    <3>1. \A c \in Clients : CellOf(c)' = EmptyData
      BY <2>2 DEF Restart, CellOf, Found
    <3>2. session' = session
      BY <2>2 DEF Restart
    <3>3. ASSUME NEW r \in Requests
          PROVE  /\ \/ StageOf(r)' = StageOf(r) /\ StageOf(r) \in {"idle", "done", "failed"}
                    \/ StageOf(r)' = "failed" /\ StageOf(r) \in {"idle", "open", "written"}
                 /\ StageOf(r)' \in {"idle", "done", "failed"}
      <4>1. CASE pc[r] \in Running
        <5>1. pc'[r] = "failed"
          BY <2>2, <4>1 DEF Restart
        <5> QED
          BY <4>1, <5>1 DEF StageOf, Running
      <4>2. CASE pc[r] \notin Running
        <5>1. pc'[r] = pc[r] /\ pc[r] \in {"idle", "done", "failed"}
          BY <2>2, <4>2 DEF Restart, TypeOK, Steps
        <5> QED
          BY <5>1 DEF StageOf
      <4> QED
        BY <4>1, <4>2
    <3>4. Cell!Reset
      BY <3>1, <3>2, <3>3, CellData DEF Cell!Reset
    <3> QED
      BY <3>4 DEF Cell!CellNext
  <2>3. CASE Tick \/ UNCHANGED vars
    <3>1. UNCHANGED <<pc, presented, session, entries, jar>>
      BY <2>3 DEF Tick, vars, requestVars
    <3>2. \A r \in Requests : StageOf(r)' = StageOf(r)
      BY <3>1 DEF StageOf, Rotated
    <3>3. ASSUME NEW c \in Clients PROVE CellOf(c)' = CellOf(c)
      <4>1. CookieOf(c) = JarId(c) /\ CookieOf(c)' = JarId(c)'
        <5>1. /\ jar[c] # None => jar[c].expires > clock
              /\ jar'[c] # None => jar'[c].expires > clock'
          BY DEF KeptInv, TypeOK, Cookies
        <5> QED
          BY <5>1 DEF CookieOf, JarId
      <4>2. CurrentId(c)' = CurrentId(c)
        BY <3>1, <4>1 DEF CurrentId, Unanswered, RequestsOf, Rotated, JarId
      <4>3. \A id \in DOMAIN entries : /\ entries[id].expires > clock
                                       /\ entries[id].expires > clock'
        BY <3>1 DEF KeptInv, TypeOK
      <4> QED
        BY <3>1, <4>2, <4>3 DEF CellOf, Found
    <3> QED
      BY <3>1, <3>2, <3>3 DEF Cell!cellVars
  <2> QED
    BY <2>1, <2>2, <2>3 DEF Next
<1> QED
  BY <1>1, <1>2, GuardInductive, PTL DEF Spec, ImplementsCell, Cell!CellSpec
=============================================================================
