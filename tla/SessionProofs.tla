---------------------------- MODULE SessionProofs ----------------------------
(***************************************************************************)
(* Proofs about the session guard, for any set of clients, requests and    *)
(* keys, any ttl and any bounds.                                           *)
(***************************************************************************)
EXTENDS SessionProperties, TLAPS

-----------------------------------------------------------------------------
(***************************************************************************)
(* The operations on a handle and on the store keep their types.           *)
(***************************************************************************)
LEMMA EmptyDataType == EmptyData \in Data
BY DEF EmptyData, Data

LEMMA AttachedType ==
    ASSUME NEW id \in Ids, NEW d \in Data
    PROVE  AgeFlash(Attached(id, d)) \in Handles
BY DEF AgeFlash, Attached, Handles, Data

LEMMA WriteType ==
    ASSUME NEW s \in Handles, NEW d \in Data
    PROVE  Write(s, d) \in Handles
BY DEF Write, Handles

\* Every operation of the session handle maps a handle to a handle.
LEMMA OperationTypes ==
    ASSUME NEW s \in Handles, NEW r \in Requests, NEW id \in Ids
    PROVE  /\ \A k \in Keys : Put(s, k, r) \in Handles /\ Forget(s, k) \in Handles
           /\ Flash(s, r) \in Handles
           /\ Flush(s) \in Handles
           /\ Destroy(s) \in Handles
           /\ SetSubject(s, r) \in Handles
           /\ Regenerate(s, id) \in Handles
           /\ Login(s, id, r) \in Handles
<1> s.data \in Data
  BY DEF Handles
<1>1. \A k \in Keys : /\ [s.data EXCEPT !.vals[k] = r] \in Data
                      /\ [s.data EXCEPT !.vals[k] = None] \in Data
  BY DEF Data
<1>2. [s.data EXCEPT !.next = @ \cup {r}] \in Data
  BY DEF Data
<1>3. \A t \in Handles : SetSubject(t, r) \in Handles
  BY DEF SetSubject, Write, Handles, Data
<1>4. Regenerate(s, id) \in Handles
  BY DEF Regenerate, Handles
<1>5. Destroy(s) \in Handles
  BY EmptyDataType, WriteType DEF Destroy, Handles
<1> QED
  BY <1>1, <1>2, <1>3, <1>4, <1>5, EmptyDataType, WriteType
  DEF Put, Forget, Flash, Flush, Login

-----------------------------------------------------------------------------
EntriesType == /\ DOMAIN entries \in SUBSET Ids
               /\ \A i \in DOMAIN entries : entries[i] \in [data : Data, expires : Nat]

\* Removing an entry keeps the others, saving one adds only that one.
LEMMA StoreTypes ==
    ASSUME EntriesType
    PROVE  /\ \A id : entries' = Without(entries, id) => EntriesType'
           /\ \A id \in Ids, d \in Data, t \in Nat :
                 entries' = Saved(entries, id, d, t) => EntriesType'
           /\ entries' = [id \in {} |-> None] => EntriesType'
BY DEF EntriesType, Without, Saved

(***************************************************************************)
(* Type correctness.                                                       *)
(***************************************************************************)
THEOREM TypeCorrect == Spec => []TypeOK
<1>1. Init => TypeOK
  <2> SUFFICES ASSUME Init PROVE TypeOK
    OBVIOUS
  <2>1. \A r \in Requests : <<r, 0>> \in Ids /\ Unloaded(r) \in Handles
    BY EmptyDataType DEF Ids, Unloaded, Attached, Handles
  <2>2. session \in [Requests -> Handles]
    BY <2>1 DEF Init
  <2> QED
    BY <2>2 DEF Init, TypeOK, Steps
<1>2. TypeOK /\ [Next]_vars => TypeOK'
  <2> SUFFICES ASSUME TypeOK, [Next]_vars PROVE TypeOK'
    OBVIOUS
  <2> USE GuardAssumption
  <2>0. EntriesType
    BY DEF TypeOK, EntriesType
  <2>1. \A r \in Requests : NewId(r) \in Ids
    BY DEF TypeOK, NewId, Ids
  <2>2. ASSUME NEW r \in Requests, Send(r) PROVE TypeOK'
    <3>1. CookieOf(ClientOf[r]) \in Ids \cup {None}
      BY DEF TypeOK, CookieOf, Cookies
    <3> QED
      BY <2>2, <3>1 DEF TypeOK, Send, Goto, Steps, Running
  <2>3. ASSUME NEW r \in Requests, NEW id \in Ids, NEW d \in Data, Attach(r, id, d)
        PROVE  /\ session' \in [Requests -> Handles]
               /\ auth' \in [Requests -> Requests \cup {None}]
               /\ readable' \in [Requests -> SUBSET Requests]
    <3> DEFINE s == AgeFlash(Attached(id, d))
    <3>1. s \in Handles
      BY AttachedType
    <3>2. s.data.subject \in Requests \cup {None} /\ s.data.now \in SUBSET Requests
      BY <3>1 DEF Handles, Data
    <3> HIDE DEF s
    <3>3. /\ session' = [session EXCEPT ![r] = s]
          /\ auth' = [auth EXCEPT ![r] = s.data.subject]
          /\ readable' = [readable EXCEPT ![r] = s.data.now]
      BY <2>3 DEF Attach, s
    <3> QED
      BY <3>1, <3>2, <3>3 DEF TypeOK
  <2>4. ASSUME NEW r \in Requests, LoadKnown(r) PROVE TypeOK'
    <3>1. presented[r] \in Ids /\ entries[presented[r]].data \in Data
      BY <2>4 DEF LoadKnown, Found, TypeOK
    <3> QED
      BY <2>3, <2>4, <3>1 DEF LoadKnown, TypeOK, Goto, Steps, Running
  <2>5. ASSUME NEW r \in Requests, LoadFresh(r) PROVE TypeOK'
    <3>1. EntriesType'
      BY <2>0, <2>5, StoreTypes DEF LoadFresh, AfterLoad, EntriesType
    <3> QED
      BY <2>1, <2>3, <2>5, <3>1, EmptyDataType
      DEF LoadFresh, TypeOK, EntriesType, Goto, Steps, Running
  <2>6. ASSUME NEW r \in Requests, Act(r) PROVE TypeOK'
    <3>1. ASSUME NEW op, NEW s \in Handles, Operate(r, op, s),
                 UNCHANGED draws \/ DrawId(r)
          PROVE  TypeOK'
      BY <3>1 DEF Operate, DrawId, TypeOK
    <3>2. session[r] \in Handles
      BY DEF TypeOK
    <3> QED
      BY <2>1, <2>6, <3>1, <3>2, OperationTypes
      DEF Act, PutValue, ForgetValue, FlashValue, FlushSession, DestroySession,
          NameSubject, RegenerateId, LogIn
  <2>7. ASSUME NEW r \in Requests, Finish(r) PROVE TypeOK'
    BY <2>7 DEF TypeOK, Finish, Goto, Steps, Running
  <2>8. ASSUME NEW r \in Requests, DestroyEntry(r) PROVE TypeOK'
    <3>1. EntriesType'
      BY <2>0, <2>8, StoreTypes DEF DestroyEntry
    <3> QED
      BY <2>8, <3>1 DEF TypeOK, EntriesType, DestroyEntry, Goto, Steps, Running
  <2>9. ASSUME NEW r \in Requests, SaveEntry(r) PROVE TypeOK'
    <3>1. session[r].id \in Ids /\ session[r].data \in Data /\ clock + TTL \in Nat
      BY DEF TypeOK, Handles
    <3>2. EntriesType'
      BY <2>0, <2>9, <3>1, StoreTypes DEF SaveEntry
    <3> QED
      BY <2>9, <3>2 DEF TypeOK, EntriesType, SaveEntry, Goto, Steps, Running
  <2>10. ASSUME NEW r \in Requests, DropPrevious(r) PROVE TypeOK'
    <3>1. EntriesType'
      BY <2>0, <2>10, StoreTypes DEF DropPrevious
    <3> QED
      BY <2>10, <3>1 DEF TypeOK, EntriesType, DropPrevious, Goto, Steps, Running
  <2>11. ASSUME NEW r \in Requests, Reply(r) PROVE TypeOK'
    <3>1. CookieAfter(r, jar[ClientOf[r]]) \in Cookies \cup {None}
      BY DEF TypeOK, CookieAfter, Cookies, Handles
    <3> QED
      BY <2>11, <3>1 DEF TypeOK, Reply, Goto, Steps
  <2>12. ASSUME NEW r \in Requests, Fail(r) PROVE TypeOK'
    BY <2>12 DEF TypeOK, Fail, Goto, Steps
  <2>13. CASE Restart
    <3>1. EntriesType'
      BY <2>0, <2>13, StoreTypes DEF Restart
    <3> QED
      BY <2>13, <3>1 DEF TypeOK, EntriesType, Restart, Steps
  <2>14. CASE Tick
    BY <2>14 DEF TypeOK, Tick, requestVars
  <2>15. CASE UNCHANGED vars
    BY <2>15 DEF TypeOK, vars, requestVars
  <2> QED
    BY <2>2, <2>4, <2>5, <2>6, <2>7, <2>8, <2>9, <2>10, <2>11, <2>12, <2>13,
       <2>14, <2>15 DEF Next, Handle
<1> QED
  BY <1>1, <1>2, PTL DEF Spec
-----------------------------------------------------------------------------
(***************************************************************************)
(* What one operation of an action can do to its request's handle.         *)
(***************************************************************************)
Operated(r, s) ==
    /\ s \in Handles
    /\ s.dirty
    /\ s.data.next \subseteq session[r].data.next \cup {r}
    /\ Writers(s.data) \subseteq Writers(session[r].data) \cup {r}
    /\ \/ s.id = session[r].id /\ draws' = draws
       \/ s.id = NewId(r) /\ draws' = [draws EXCEPT ![r] = @ + 1]
    /\ \/ s.data.subject \in {None, session[r].data.subject}
       \/ s.data.subject = r /\ s.id = NewId(r)
       \/ "set_subject" \in Ops[r]

LEMMA ActStep ==
    ASSUME TypeOK, NEW r \in Requests, Act(r)
    PROVE  /\ pc[r] = "action"
           /\ UNCHANGED <<pc, presented, auth, readable, entries, jar, clock>>
           /\ \E s \in Handles : Operated(r, s) /\ session' = [session EXCEPT ![r] = s]
<1> DEFINE h == session[r]
<1>h. h \in Handles /\ h.data \in Data /\ NewId(r) \in Ids
  BY DEF TypeOK, Handles, NewId, Ids
<1> SUFFICES \E s \in Handles : Operated(r, s) /\ session' = [session EXCEPT ![r] = s]
  BY DEF Act, PutValue, ForgetValue, FlashValue, FlushSession, DestroySession,
         NameSubject, RegenerateId, LogIn, Operate
<1>1. ASSUME NEW k \in Keys, NEW w \in {r, None}, draws' = draws
      PROVE  Operated(r, Write(h, [h.data EXCEPT !.vals[k] = w]))
  <2> DEFINE d == [h.data EXCEPT !.vals[k] = w]
  <2>1. d \in Data
    BY <1>h DEF Data
  <2>2. d.subject = h.data.subject /\ d.next = h.data.next /\ d.now = h.data.now
    BY <1>h DEF Data
  <2>3. \A j \in Keys : d.vals[j] \in {h.data.vals[j], r, None}
    BY <1>h DEF Data
  <2> HIDE DEF d
  <2>4. Writers(d) \subseteq Writers(h.data) \cup {r}
    BY <2>2, <2>3, NoneAssumption DEF Writers
  <2>5. /\ Write(h, d) \in Handles
        /\ Write(h, d).data = d /\ Write(h, d).dirty /\ Write(h, d).id = h.id
    BY <1>h, <2>1, WriteType DEF Write, Handles
  <2>6. Operated(r, Write(h, d))
    BY <1>1, <2>2, <2>4, <2>5 DEF Operated
  <2> QED
    BY <2>6 DEF d
<1>2. CASE PutValue(r) \/ ForgetValue(r)
  <2>1. PICK k \in Keys, w \in {r, None} :
           session' = [session EXCEPT ![r] = Write(h, [h.data EXCEPT !.vals[k] = w])]
    BY <1>2 DEF PutValue, ForgetValue, Put, Forget, Operate
  <2> QED
    BY <1>1, <1>2, <2>1 DEF PutValue, ForgetValue, Operated
<1>3. CASE FlashValue(r)
  <2>1. Operated(r, Flash(h, r))
    BY <1>3, <1>h, OperationTypes
    DEF FlashValue, Operated, Flash, Write, Writers, Handles, Data
  <2> QED
    BY <1>3, <2>1 DEF FlashValue, Operate, Operated
<1>e. EmptyData.next = {} /\ Writers(EmptyData) = {} /\ EmptyData.subject = None
  BY NoneAssumption DEF EmptyData, Writers
<1>4. CASE FlushSession(r)
  <2>1. Operated(r, Flush(h))
    BY <1>4, <1>h, <1>e, OperationTypes DEF FlushSession, Operated, Flush, Write, Handles
  <2> QED
    BY <1>4, <2>1 DEF FlushSession, Operate, Operated
<1>5. CASE DestroySession(r)
  <2>1. Operated(r, Destroy(h))
    BY <1>5, <1>h, <1>e, OperationTypes DEF DestroySession, Operated, Destroy, Write, Handles
  <2> QED
    BY <1>5, <2>1 DEF DestroySession, Operate, Operated
<1>6. CASE NameSubject(r)
  <2>1. Operated(r, SetSubject(h, r))
    BY <1>6, <1>h, OperationTypes
    DEF NameSubject, Operate, Operated, SetSubject, Write, Writers, Handles, Data
  <2> QED
    BY <1>6, <2>1 DEF NameSubject, Operate, Operated
<1>7. CASE RegenerateId(r)
  <2>1. Operated(r, Regenerate(h, NewId(r)))
    BY <1>7, <1>h, OperationTypes DEF RegenerateId, DrawId, Operated, Regenerate, Handles
  <2> QED
    BY <1>7, <2>1 DEF RegenerateId, Operate, Operated
<1>8. CASE LogIn(r)
  <2>1. Operated(r, Login(h, NewId(r), r))
    BY <1>8, <1>h, OperationTypes
    DEF LogIn, DrawId, Operated, Login, SetSubject, Regenerate, Write, Writers, Handles, Data
  <2> QED
    BY <1>8, <2>1 DEF LogIn, Operate, Operated
<1> QED
  BY <1>1, <1>2, <1>3, <1>4, <1>5, <1>6, <1>7, <1>8 DEF Act

\* What attaching a session does to it, by where its data came from.
AttachedFrom(r, s) ==
    /\ s \in Handles
    /\ s.data.next = {}
    /\ s.data.now # {} => s.dirty
    /\ \/ /\ s.id = presented[r] /\ presented[r] \in DOMAIN entries
          /\ s.data.subject = entries[s.id].data.subject
          /\ s.data.now = entries[s.id].data.next
          /\ Writers(s.data) \subseteq Writers(entries[s.id].data)
          /\ UNCHANGED <<draws, entries>>
       \/ /\ s.id = NewId(r)
          /\ s.data.subject = None /\ s.data.now = {} /\ Writers(s.data) = {}
          /\ draws' = [draws EXCEPT ![r] = @ + 1]
          /\ entries' \in {entries, Without(entries, presented[r])}

LEMMA LoadStep ==
    ASSUME TypeOK, NEW r \in Requests, LoadKnown(r) \/ LoadFresh(r)
    PROVE  /\ pc[r] = "load"
           /\ pc' = [pc EXCEPT ![r] = "action"]
           /\ UNCHANGED <<presented, jar, clock>>
           /\ \E s \in Handles :
                 /\ AttachedFrom(r, s)
                 /\ session' = [session EXCEPT ![r] = s]
                 /\ auth' = [auth EXCEPT ![r] = s.data.subject]
                 /\ readable' = [readable EXCEPT ![r] = s.data.now]
<1>1. ASSUME NEW id \in Ids, NEW d \in Data
      PROVE  LET s == AgeFlash(Attached(id, d))
             IN  /\ s \in Handles /\ s.id = id
                 /\ s.data.next = {} /\ s.data.now = d.next
                 /\ s.data.subject = d.subject
                 /\ s.data.now # {} => s.dirty
                 /\ Writers(s.data) \subseteq Writers(d)
  BY AttachedType DEF AgeFlash, Attached, Handles, Data, Writers
<1>2. CASE LoadKnown(r)
  <2>1. presented[r] \in Ids /\ presented[r] \in DOMAIN entries
        /\ entries[presented[r]].data \in Data
    BY <1>2 DEF LoadKnown, Found, TypeOK
  <2>2. AttachedFrom(r, AgeFlash(Attached(presented[r], entries[presented[r]].data)))
    BY <1>1, <1>2, <2>1 DEF AttachedFrom, LoadKnown
  <2> QED
    BY <1>2, <2>2 DEF LoadKnown, Attach, Goto, AttachedFrom
<1>3. CASE LoadFresh(r)
  <2>1. NewId(r) \in Ids
    BY DEF TypeOK, NewId, Ids
  <2>2. EmptyData.next = {} /\ EmptyData.subject = None /\ Writers(EmptyData) = {}
    BY NoneAssumption DEF EmptyData, Writers
  <2>3. AttachedFrom(r, AgeFlash(Attached(NewId(r), EmptyData)))
    BY <1>1, <1>3, <2>1, <2>2, EmptyDataType DEF AttachedFrom, LoadFresh, AfterLoad
  <2> QED
    BY <1>3, <2>3 DEF LoadFresh, Attach, Goto, AttachedFrom
<1> QED
  BY <1>2, <1>3

\* The entries after a step are entries from before it, but for one saved.
Shrinks == \A i \in DOMAIN entries' : i \in DOMAIN entries /\ entries'[i] = entries[i]

LEMMA RemovedFacts ==
    /\ \A id : entries' = Without(entries, id) => Shrinks /\ id \notin DOMAIN entries'
    /\ entries' = [id \in {} |-> None] => Shrinks /\ DOMAIN entries' = {}
    /\ entries' = entries => Shrinks
BY DEF Shrinks, Without

LEMMA SavedFacts ==
    ASSUME NEW id, NEW d, NEW t, entries' = Saved(entries, id, d, t)
    PROVE  \A i \in DOMAIN entries' :
              \/ i = id /\ entries'[i].data = d
              \/ i # id /\ i \in DOMAIN entries /\ entries'[i] = entries[i]
BY DEF Saved

-----------------------------------------------------------------------------
(***************************************************************************)
(* No session bleeds between clients.  SessionsIsolated is inductive once  *)
(* the types are known.                                                    *)
(***************************************************************************)
THEOREM Isolation == Spec => []SessionsIsolated
<1> USE GuardAssumption, NoneAssumption
<1>1. Init => SessionsIsolated
  BY DEF Init, SessionsIsolated, Unloaded, Attached, EmptyData, Writers, OwnerOf
<1>2. TypeOK /\ SessionsIsolated /\ [Next]_vars => SessionsIsolated'
  <2> SUFFICES ASSUME TypeOK, SessionsIsolated, [Next]_vars PROVE SessionsIsolated'
    OBVIOUS
  <2>0. \A r \in Requests : OwnerOf(NewId(r)) = ClientOf[r]
    BY DEF OwnerOf, NewId
  <2>1. ASSUME NEW r \in Requests, Send(r) PROVE SessionsIsolated'
    BY <2>1 DEF Send, CookieOf, SessionsIsolated, TypeOK
  <2>2. ASSUME NEW r \in Requests, LoadKnown(r) \/ LoadFresh(r) PROVE SessionsIsolated'
    <3>1. PICK s \in Handles :
             /\ AttachedFrom(r, s)
             /\ session' = [session EXCEPT ![r] = s]
             /\ auth' = [auth EXCEPT ![r] = s.data.subject]
      BY <2>2, LoadStep
    <3>2. UNCHANGED <<presented, jar>> /\ Shrinks
      BY <2>2, <3>1, LoadStep, RemovedFacts DEF AttachedFrom
    <3>3. /\ OwnerOf(s.id) = ClientOf[r]
          /\ Writers(s.data) \subseteq RequestsOf(ClientOf[r])
      BY <2>0, <3>1 DEF AttachedFrom, SessionsIsolated, TypeOK
    <3>4. s.data.subject # None => s.data.subject \in Writers(s.data)
      BY <3>1 DEF AttachedFrom, Handles, Data, Writers
    <3> QED
      BY <3>1, <3>2, <3>3, <3>4 DEF SessionsIsolated, Shrinks, TypeOK, RequestsOf
  <2>3. ASSUME NEW r \in Requests, Act(r) PROVE SessionsIsolated'
    <3>1. PICK s \in Handles : Operated(r, s) /\ session' = [session EXCEPT ![r] = s]
      BY <2>3, ActStep
    <3>2. UNCHANGED <<presented, auth, entries, jar>>
      BY <2>3, ActStep
    <3>3. /\ OwnerOf(s.id) = ClientOf[r]
          /\ Writers(s.data) \subseteq RequestsOf(ClientOf[r])
      BY <2>0, <3>1 DEF Operated, SessionsIsolated, RequestsOf
    <3> QED
      BY <3>1, <3>2, <3>3 DEF SessionsIsolated, TypeOK
  <2>4. ASSUME NEW r \in Requests, SaveEntry(r) PROVE SessionsIsolated'
    <3>1. \A i \in DOMAIN entries' :
             \/ i = session[r].id /\ entries'[i].data = session[r].data
             \/ i \in DOMAIN entries /\ entries'[i] = entries[i]
      BY <2>4, SavedFacts DEF SaveEntry
    <3> QED
      BY <2>4, <3>1 DEF SaveEntry, SessionsIsolated
  <2>5. ASSUME NEW r \in Requests, DestroyEntry(r) \/ DropPrevious(r)
        PROVE  SessionsIsolated'
    <3>1. Shrinks
      BY <2>5, RemovedFacts DEF DestroyEntry, DropPrevious
    <3> QED
      BY <2>5, <3>1 DEF DestroyEntry, DropPrevious, SessionsIsolated, Shrinks
  <2>6. ASSUME NEW r \in Requests, Reply(r) PROVE SessionsIsolated'
    BY <2>6 DEF Reply, CookieAfter, SessionsIsolated, TypeOK, Handles, Cookies
  <2>7. ASSUME NEW r \in Requests, Finish(r) \/ Fail(r) PROVE SessionsIsolated'
    BY <2>7 DEF Finish, Fail, SessionsIsolated
  <2>8. CASE Restart
    BY <2>8, RemovedFacts DEF Restart, SessionsIsolated
  <2>9. CASE Tick \/ UNCHANGED vars
    BY <2>9 DEF Tick, vars, requestVars, SessionsIsolated
  <2> QED
    BY <2>1, <2>2, <2>3, <2>4, <2>5, <2>6, <2>7, <2>8, <2>9 DEF Next, Handle
<1> QED
  BY <1>1, <1>2, TypeCorrect, PTL DEF Spec
-----------------------------------------------------------------------------
(***************************************************************************)
(* Every id in the system was drawn by some request, so the next one drawn *)
(* is none of them.                                                        *)
(***************************************************************************)
WasDrawn(id) == id \in Ids /\ id[2] < draws[id[1]]

AllDrawn ==
    /\ \A c \in Clients : jar[c] # None => WasDrawn(jar[c].id)
    /\ \A r \in Requests :
          /\ presented[r] # None => WasDrawn(presented[r])
          /\ Loaded(r) /\ pc[r] # "failed" => WasDrawn(session[r].id)
    /\ \A id \in DOMAIN entries : WasDrawn(id)

LEMMA NewIdFresh ==
    ASSUME TypeOK, NEW r \in Requests
    PROVE  /\ ~WasDrawn(NewId(r)) /\ NewId(r) \in Ids
           /\ draws' = [draws EXCEPT ![r] = @ + 1] =>
                 \A id : WasDrawn(id) \/ id = NewId(r) => WasDrawn(id)'
           /\ draws' = draws => \A id : WasDrawn(id) => WasDrawn(id)'
<1>1. draws[r] \in Nat /\ draws \in [Requests -> Nat]
  BY DEF TypeOK
<1>2. NewId(r) \in Ids /\ NewId(r)[1] = r /\ NewId(r)[2] = draws[r]
  BY <1>1 DEF NewId, Ids
<1>3. ~WasDrawn(NewId(r))
  BY <1>1, <1>2 DEF WasDrawn
<1>4. ASSUME draws' = [draws EXCEPT ![r] = @ + 1], NEW id, WasDrawn(id) \/ id = NewId(r)
      PROVE  WasDrawn(id)'
  BY <1>1, <1>2, <1>4 DEF WasDrawn, Ids
<1>5. ASSUME draws' = draws, NEW id, WasDrawn(id) PROVE WasDrawn(id)'
  BY <1>5 DEF WasDrawn
<1> QED
  BY <1>2, <1>3, <1>4, <1>5

LEMMA AllDrawnInductive == Spec => []AllDrawn
<1> USE GuardAssumption
<1>1. Init => AllDrawn
  BY DEF Init, AllDrawn, Loaded
<1>2. TypeOK /\ AllDrawn /\ [Next]_vars => AllDrawn'
  <2> SUFFICES ASSUME TypeOK, AllDrawn, [Next]_vars PROVE AllDrawn'
    OBVIOUS
  <2>1. ASSUME NEW r \in Requests, Send(r) PROVE AllDrawn'
    BY <2>1 DEF Send, CookieOf, Goto, AllDrawn, Loaded, TypeOK, WasDrawn
  <2>2. ASSUME NEW r \in Requests, LoadKnown(r) \/ LoadFresh(r) PROVE AllDrawn'
    <3>1. PICK s \in Handles : AttachedFrom(r, s) /\ session' = [session EXCEPT ![r] = s]
      BY <2>2, LoadStep
    <3>2. /\ pc[r] = "load" /\ pc' = [pc EXCEPT ![r] = "action"]
          /\ UNCHANGED <<presented, jar>> /\ Shrinks
      BY <2>2, <3>1, LoadStep, RemovedFacts DEF AttachedFrom
    <3>3. WasDrawn(s.id)' /\ \A id : WasDrawn(id) => WasDrawn(id)'
      BY <3>1, NewIdFresh DEF AttachedFrom, AllDrawn
    <3> QED
      BY <3>1, <3>2, <3>3 DEF AllDrawn, Loaded, Shrinks, TypeOK
  <2>3. ASSUME NEW r \in Requests, Act(r) PROVE AllDrawn'
    <3>1. PICK s \in Handles : Operated(r, s) /\ session' = [session EXCEPT ![r] = s]
      BY <2>3, ActStep
    <3>2. pc[r] = "action" /\ UNCHANGED <<pc, presented, entries, jar>>
      BY <2>3, ActStep
    <3>3. WasDrawn(s.id)' /\ \A id : WasDrawn(id) => WasDrawn(id)'
      BY <3>1, <3>2, NewIdFresh DEF Operated, AllDrawn, Loaded
    <3> QED
      BY <3>1, <3>2, <3>3 DEF AllDrawn, Loaded, TypeOK
  <2>4. ASSUME NEW r \in Requests, SaveEntry(r) PROVE AllDrawn'
    <3>1. \A i \in DOMAIN entries' : i = session[r].id \/ i \in DOMAIN entries
      BY <2>4, SavedFacts DEF SaveEntry
    <3> QED
      BY <2>4, <3>1 DEF SaveEntry, Goto, AllDrawn, Loaded, TypeOK, WasDrawn
  <2>5. ASSUME NEW r \in Requests, DestroyEntry(r) \/ DropPrevious(r) PROVE AllDrawn'
    <3>1. Shrinks
      BY <2>5, RemovedFacts DEF DestroyEntry, DropPrevious
    <3> QED
      BY <2>5, <3>1
      DEF DestroyEntry, DropPrevious, Goto, AllDrawn, Loaded, TypeOK, WasDrawn, Shrinks
  <2>6. ASSUME NEW r \in Requests, Reply(r) PROVE AllDrawn'
    BY <2>6 DEF Reply, CookieAfter, Goto, AllDrawn, Loaded, TypeOK, WasDrawn, Cookies
  <2>7. ASSUME NEW r \in Requests, Finish(r) \/ Fail(r) PROVE AllDrawn'
    BY <2>7 DEF Finish, Fail, Goto, AllDrawn, Loaded, TypeOK, WasDrawn
  <2>8. CASE Restart
    BY <2>8, RemovedFacts DEF Restart, AllDrawn, Loaded, Running, TypeOK, WasDrawn
  <2>9. CASE Tick \/ UNCHANGED vars
    BY <2>9 DEF Tick, vars, requestVars, AllDrawn, Loaded, WasDrawn
  <2> QED
    BY <2>1, <2>2, <2>3, <2>4, <2>5, <2>6, <2>7, <2>8, <2>9 DEF Next, Handle
<1> QED
  BY <1>1, <1>2, TypeCorrect, PTL DEF Spec
-----------------------------------------------------------------------------
(***************************************************************************)
(* An id that nobody stores or holds is never used again.                  *)
(***************************************************************************)
THEOREM DeadIds == Spec => DeadIdsStayDead
<1> USE GuardAssumption
<1>1. TypeOK /\ [Next]_vars => [\A id \in Drawn : ~Live(id) => ~Live(id)']_vars
  <2> SUFFICES ASSUME TypeOK, [Next]_vars, NEW id \in Drawn, ~Live(id)
               PROVE  ~Live(id)'
    OBVIOUS
  <2>0. \A r \in Requests : id # NewId(r)
    BY DEF Drawn, NewId, TypeOK
  <2>1. id \notin DOMAIN entries /\ \A r \in Requests : ~Holds(r, id)
    BY DEF Live
  <2>2. ASSUME NEW r \in Requests, LoadKnown(r) \/ LoadFresh(r) PROVE ~Live(id)'
    <3>1. PICK s \in Handles : AttachedFrom(r, s) /\ session' = [session EXCEPT ![r] = s]
      BY <2>2, LoadStep
    <3>2. pc' = [pc EXCEPT ![r] = "action"] /\ Shrinks
      BY <2>2, <3>1, LoadStep, RemovedFacts DEF AttachedFrom
    <3>3. s.id # id
      BY <2>0, <2>1, <3>1 DEF AttachedFrom
    <3> QED
      BY <2>1, <3>1, <3>2, <3>3 DEF Live, Holds, Loaded, Running, Shrinks, TypeOK
  <2>3. ASSUME NEW r \in Requests, Act(r) PROVE ~Live(id)'
    <3>1. PICK s \in Handles : Operated(r, s) /\ session' = [session EXCEPT ![r] = s]
      BY <2>3, ActStep
    <3>2. pc[r] = "action" /\ UNCHANGED <<pc, entries>>
      BY <2>3, ActStep
    <3>3. s.id # id
      BY <2>0, <2>1, <3>1, <3>2 DEF Operated, Holds, Loaded, Running
    <3> QED
      BY <2>1, <3>1, <3>2, <3>3 DEF Live, Holds, Loaded, TypeOK
  <2>4. ASSUME NEW r \in Requests, SaveEntry(r) PROVE ~Live(id)'
    <3>1. session[r].id # id
      BY <2>1, <2>4 DEF SaveEntry, Holds, Loaded, Running
    <3>2. id \notin DOMAIN entries'
      BY <2>1, <2>4, <3>1, SavedFacts DEF SaveEntry
    <3> QED
      BY <2>1, <2>4, <3>2 DEF SaveEntry, Goto, Live, Holds, Loaded, Running, TypeOK
  <2>5. ASSUME NEW r \in Requests,
               \/ Send(r) \/ Finish(r) \/ DestroyEntry(r) \/ DropPrevious(r)
               \/ Reply(r) \/ Fail(r)
        PROVE  ~Live(id)'
    <3>1. Shrinks
      BY <2>5, RemovedFacts DEF Send, Finish, DestroyEntry, DropPrevious, Reply, Fail
    <3> QED
      BY <2>1, <2>5, <3>1
      DEF Send, Finish, DestroyEntry, DropPrevious, Reply, Fail, Goto, Live, Holds,
          Loaded, Running, Shrinks, TypeOK
  <2>6. CASE Restart
    BY <2>1, <2>6, RemovedFacts DEF Restart, Live, Holds, Loaded, Running, TypeOK
  <2>7. CASE Tick \/ UNCHANGED vars
    BY <2>1, <2>7 DEF Tick, vars, requestVars, Live, Holds, Loaded
  <2> QED
    BY <2>2, <2>3, <2>4, <2>5, <2>6, <2>7 DEF Next, Handle
<1> QED
  BY <1>1, TypeCorrect, PTL DEF Spec, DeadIdsStayDead
-----------------------------------------------------------------------------
(***************************************************************************)
(* Fixation.  Wherever a subject is recorded, the request that logged it   *)
(* in presented another id: `login` records it under an id just drawn, and *)
(* from then on the data keeps its id or moves to one drawn later still.   *)
(***************************************************************************)
Apart(id, d) ==
    d.subject # None => Loaded(d.subject) /\ presented[d.subject] # id

SubjectsApart ==
    /\ \A r \in Requests : Apart(session[r].id, session[r].data)
    /\ \A id \in DOMAIN entries : Apart(id, entries[id].data)

\* The routes log in with `login`, never with `set_subject` alone.
RoutesRotate == \A r \in Requests : "set_subject" \notin Ops[r]

LEMMA SubjectsApartInductive ==
    ASSUME RoutesRotate PROVE Spec => []SubjectsApart
<1> USE GuardAssumption
<1>1. Init => SubjectsApart
  BY DEF Init, SubjectsApart, Apart, Unloaded, Attached, EmptyData
<1>2. TypeOK /\ AllDrawn /\ SubjectsApart /\ [Next]_vars => SubjectsApart'
  <2> SUFFICES ASSUME TypeOK, AllDrawn, SubjectsApart, [Next]_vars PROVE SubjectsApart'
    OBVIOUS
  <2>1. \A q \in Requests : Loaded(q) => Loaded(q)' /\ presented'[q] = presented[q]
    <3>1. \A r \in Requests : Act(r) => UNCHANGED <<pc, presented>>
      BY ActStep
    <3> QED
      BY <3>1
      DEF Next, Handle, Send, LoadKnown, LoadFresh, Finish, DestroyEntry, SaveEntry,
          DropPrevious, Reply, Fail, Restart, Tick, vars, requestVars, Goto, Loaded, TypeOK
  <2>2. \A r \in Requests : session[r].data.subject \in Requests \cup {None}
    BY DEF TypeOK, Handles, Data
  <2>3. \A id \in DOMAIN entries : entries[id].data.subject \in Requests \cup {None}
    BY DEF TypeOK, Data
  <2>4. /\ \A r \in Requests : Apart(session[r].id, session[r].data)'
              \/ session'[r] # session[r]
        /\ \A id \in DOMAIN entries : Apart(id, entries[id].data)'
              \/ id \notin DOMAIN entries' \/ entries'[id] # entries[id]
    BY <2>1, <2>2, <2>3 DEF SubjectsApart, Apart
  <2>5. ASSUME NEW r \in Requests, LoadKnown(r) \/ LoadFresh(r) PROVE SubjectsApart'
    <3>1. PICK s \in Handles : AttachedFrom(r, s) /\ session' = [session EXCEPT ![r] = s]
      BY <2>5, LoadStep
    <3>2. Shrinks
      BY <3>1, RemovedFacts DEF AttachedFrom
    <3>3. Apart(s.id, s.data)'
      BY <2>1, <2>3, <3>1 DEF AttachedFrom, SubjectsApart, Apart
    <3> QED
      BY <2>4, <3>1, <3>2, <3>3 DEF SubjectsApart, Shrinks, TypeOK
  <2>6. ASSUME NEW r \in Requests, Act(r) PROVE SubjectsApart'
    <3>1. PICK s \in Handles : Operated(r, s) /\ session' = [session EXCEPT ![r] = s]
      BY <2>6, ActStep
    <3>2. pc[r] = "action" /\ UNCHANGED <<pc, presented, entries>>
      BY <2>6, ActStep
    <3>3. \A q \in Requests : presented[q] # NewId(r)
      BY NewIdFresh DEF AllDrawn, TypeOK
    <3>4. Apart(s.id, s.data)'
      <4>1. CASE s.data.subject \in {None, session[r].data.subject}
        BY <2>2, <3>1, <3>2, <3>3, <4>1 DEF Operated, SubjectsApart, Apart, Loaded
      <4>2. CASE s.data.subject = r /\ s.id = NewId(r)
        BY <3>2, <3>3, <4>2 DEF Apart, Loaded
      <4> QED
        BY <3>1, <4>1, <4>2 DEF Operated, RoutesRotate
    <3> QED
      BY <2>4, <3>1, <3>2, <3>4 DEF SubjectsApart, TypeOK
  <2>7. ASSUME NEW r \in Requests, SaveEntry(r) PROVE SubjectsApart'
    <3>1. session' = session
      BY <2>7 DEF SaveEntry
    <3>2. \A i \in DOMAIN entries' :
             \/ i = session[r].id /\ entries'[i].data = session[r].data
             \/ i \in DOMAIN entries /\ entries'[i] = entries[i]
      BY <2>7, SavedFacts DEF SaveEntry
    <3>3. Apart(session[r].id, session[r].data)'
      BY <2>4, <3>1
    <3> QED
      BY <2>4, <3>1, <3>2, <3>3 DEF SubjectsApart, Apart
  <2>8. ASSUME session' = session, Shrinks PROVE SubjectsApart'
    BY <2>4, <2>8 DEF SubjectsApart, Shrinks
  <2> QED
    BY <2>5, <2>6, <2>7, <2>8, RemovedFacts
    DEF Next, Handle, Send, Finish, DestroyEntry, DropPrevious, Reply, Fail, Restart,
        Tick, vars, requestVars
<1> QED
  BY <1>1, <1>2, TypeCorrect, AllDrawnInductive, PTL DEF Spec

THEOREM Fixation == ASSUME RoutesRotate PROVE Spec => []FixationDefeated
<1>1. SubjectsApart => FixationDefeated
  BY DEF SubjectsApart, Apart, FixationDefeated
<1> QED
  BY <1>1, SubjectsApartInductive, PTL
-----------------------------------------------------------------------------
(***************************************************************************)
(* Flash.  A flashed value sits in the entry of one id only, the id its    *)
(* writer saved, and only once the writer has saved; a request that finds  *)
(* it readable presented that id, so its own save, destroy or drop of what *)
(* it presented takes the value out of the store, and a request that still *)
(* has a save to do holds no flash but its own.                            *)
(***************************************************************************)
Past(r) == pc[r] \in {"drop", "reply", "done", "failed"}

\* What a request holds: its own flash, and a dirty mark if it read any.
HandlesOwnFlash ==
    \A r \in Requests :
        /\ session[r].data.next \subseteq {r}
        /\ readable[r] # {} => session[r].dirty
        /\ pc[r] = "destroy" => session[r].destroyed

StoredFlashSaved ==
    \A id \in DOMAIN entries : \A t \in entries[id].data.next :
        Past(t) /\ session[t].id = id

ReadFlashPresented ==
    \A r \in Requests : \A t \in readable[r] :
        Loaded(r) /\ Past(t) /\ session[t].id = presented[r]

FlashTaken(r) == \A id \in DOMAIN entries : entries[id].data.next \cap readable[r] = {}

FlashTakenOnceWritten ==
    \A r \in Requests :
        pc[r] \in {"reply", "done"} /\ ~(session[r].destroyed /\ Rotated(r))
            => FlashTaken(r)

FlashInv ==
    HandlesOwnFlash /\ StoredFlashSaved /\ ReadFlashPresented /\ FlashTakenOnceWritten

LEMMA FlashInductive == Spec => []FlashInv
<1> USE GuardAssumption, NoneAssumption
<1> USE DEF FlashInv
<1>1. Init => FlashInv
  BY DEF Init, HandlesOwnFlash, StoredFlashSaved, ReadFlashPresented,
         FlashTakenOnceWritten, Unloaded, Attached, EmptyData
<1>2. TypeOK /\ FlashInv /\ [Next]_vars => FlashInv'
  <2> SUFFICES ASSUME TypeOK, FlashInv, [Next]_vars PROVE FlashInv'
    OBVIOUS
  <2>0. /\ \A r \in Requests : session[r].id \in Ids
        /\ \A id \in DOMAIN entries : entries[id].data.next \subseteq Requests
        /\ \A r \in Requests : readable[r] \subseteq Requests
    BY DEF TypeOK, Handles, Data
  <2>1. ASSUME NEW r \in Requests, LoadKnown(r) \/ LoadFresh(r) PROVE FlashInv'
    <3>1. PICK s \in Handles :
             /\ AttachedFrom(r, s)
             /\ session' = [session EXCEPT ![r] = s]
             /\ readable' = [readable EXCEPT ![r] = s.data.now]
      BY <2>1, LoadStep
    <3>2. /\ pc[r] = "load" /\ pc' = [pc EXCEPT ![r] = "action"]
          /\ presented' = presented /\ Shrinks
      BY <2>1, <3>1, LoadStep, RemovedFacts DEF AttachedFrom
    <3>3. \A t \in Requests : Past(t) => t # r /\ Past(t)' /\ session'[t] = session[t]
      BY <3>1, <3>2 DEF Past, TypeOK
    <3>4. HandlesOwnFlash'
      BY <3>1, <3>2 DEF HandlesOwnFlash, AttachedFrom, TypeOK
    <3>5. StoredFlashSaved'
      BY <2>0, <3>2, <3>3 DEF StoredFlashSaved, Shrinks
    <3>6. ReadFlashPresented'
      <4>1. \A t \in s.data.now : Past(t) /\ session[t].id = presented[r] /\ t \in Requests
        BY <2>0, <3>1 DEF AttachedFrom, StoredFlashSaved
      <4> QED
        BY <2>0, <3>1, <3>2, <3>3, <4>1 DEF ReadFlashPresented, Loaded, TypeOK
    <3>7. FlashTakenOnceWritten'
      BY <3>1, <3>2 DEF FlashTakenOnceWritten, FlashTaken, Rotated, Shrinks, TypeOK
    <3> QED
      BY <3>4, <3>5, <3>6, <3>7
  <2>2. ASSUME NEW r \in Requests, Act(r) PROVE FlashInv'
    <3>1. PICK s \in Handles : Operated(r, s) /\ session' = [session EXCEPT ![r] = s]
      BY <2>2, ActStep
    <3>2. pc[r] = "action" /\ UNCHANGED <<pc, presented, readable, entries>>
      BY <2>2, ActStep
    <3>3. \A t \in Requests : Past(t) => t # r /\ Past(t)' /\ session'[t] = session[t]
      BY <3>1, <3>2 DEF Past, TypeOK
    <3>4. HandlesOwnFlash'
      BY <3>1, <3>2 DEF HandlesOwnFlash, Operated, TypeOK
    <3>5. StoredFlashSaved'
      BY <2>0, <3>2, <3>3 DEF StoredFlashSaved
    <3>6. ReadFlashPresented'
      BY <2>0, <3>2, <3>3 DEF ReadFlashPresented, Loaded
    <3>7. FlashTakenOnceWritten'
      BY <3>1, <3>2 DEF FlashTakenOnceWritten, FlashTaken, Rotated, TypeOK
    <3> QED
      BY <3>4, <3>5, <3>6, <3>7
  <2>3. ASSUME NEW r \in Requests, SaveEntry(r) PROVE FlashInv'
    <3>1. /\ pc[r] = "save" /\ pc' \in {[pc EXCEPT ![r] = "drop"], [pc EXCEPT ![r] = "reply"]}
          /\ UNCHANGED <<presented, session, readable>>
          /\ pc'[r] = "reply" => presented[r] = None \/ ~Rotated(r)
      BY <2>3 DEF SaveEntry, Goto, TypeOK
    <3>2. \A i \in DOMAIN entries' :
             \/ i = session[r].id /\ entries'[i].data = session[r].data
             \/ i # session[r].id /\ i \in DOMAIN entries /\ entries'[i] = entries[i]
      BY <2>3, SavedFacts DEF SaveEntry
    <3>3. Past(r)' /\ ~Past(r) /\ \A t \in Requests : Past(t) => Past(t)'
      BY <3>1 DEF Past, TypeOK
    <3>4. HandlesOwnFlash'
      BY <3>1 DEF HandlesOwnFlash, TypeOK
    <3>5. StoredFlashSaved'
      BY <2>0, <3>1, <3>2, <3>3 DEF StoredFlashSaved, HandlesOwnFlash
    <3>6. ReadFlashPresented'
      BY <2>0, <3>1, <3>3 DEF ReadFlashPresented, Loaded, TypeOK
    <3>7. FlashTakenOnceWritten'
      <4>1. \A q \in Requests : r \notin readable[q]
        BY <3>3 DEF ReadFlashPresented
      <4>2. ASSUME NEW q \in Requests, FlashTaken(q) PROVE FlashTaken(q)'
        BY <3>1, <3>2, <4>1, <4>2 DEF FlashTaken, HandlesOwnFlash
      <4>3. ASSUME pc'[r] = "reply" PROVE FlashTaken(r)'
        <5>1. \A t \in readable[r] : session[t].id = session[r].id
          BY <2>0, <3>1, <4>3 DEF ReadFlashPresented, Rotated
        <5> QED
          BY <3>1, <3>2, <4>1, <5>1 DEF FlashTaken, HandlesOwnFlash, StoredFlashSaved
      <4> QED
        BY <3>1, <4>2, <4>3 DEF FlashTakenOnceWritten, Rotated, TypeOK
    <3> QED
      BY <3>4, <3>5, <3>6, <3>7
  <2>4. ASSUME NEW r \in Requests,
               UNCHANGED <<presented, session, readable>>, Shrinks,
               \A t \in Requests : /\ Past(t) => Past(t)'
                                   /\ Loaded(t) => Loaded(t)'
                                   /\ pc'[t] \in {"reply", "done", "destroy"} /\ t # r
                                         => pc'[t] = pc[t],
               pc'[r] = "destroy" => session[r].destroyed,
               pc'[r] \in {"reply", "done"} /\ ~(session[r].destroyed /\ Rotated(r))
                  => FlashTaken(r)'
        PROVE  FlashInv'
    <3>1. HandlesOwnFlash'
      BY <2>4 DEF HandlesOwnFlash
    <3>2. StoredFlashSaved'
      BY <2>0, <2>4 DEF StoredFlashSaved, Shrinks
    <3>3. ReadFlashPresented'
      BY <2>0, <2>4 DEF ReadFlashPresented
    <3>4. \A q \in Requests : FlashTaken(q) => FlashTaken(q)'
      BY <2>4 DEF FlashTaken, Shrinks
    <3>5. FlashTakenOnceWritten'
      BY <2>4, <3>4 DEF FlashTakenOnceWritten, Rotated
    <3> QED
      BY <3>1, <3>2, <3>3, <3>5
  <2>5. ASSUME NEW r \in Requests, DestroyEntry(r) \/ DropPrevious(r) PROVE FlashInv'
    <3>1. PICK id : /\ entries' = Without(entries, id)
                    /\ ~(session[r].destroyed /\ Rotated(r)) => id = presented[r]
      BY <2>5 DEF DestroyEntry, DropPrevious, HandlesOwnFlash, Rotated
    <3>2. Shrinks /\ id \notin DOMAIN entries'
      BY <3>1, RemovedFacts
    <3>3. ~(session[r].destroyed /\ Rotated(r)) => FlashTaken(r)'
      BY <2>0, <2>5, <3>1, <3>2
      DEF FlashTaken, Shrinks, StoredFlashSaved, ReadFlashPresented, DestroyEntry, DropPrevious
    <3> QED
      BY <2>4, <2>5, <3>2, <3>3 DEF DestroyEntry, DropPrevious, Goto, Past, Loaded, TypeOK
  <2>6. ASSUME NEW r \in Requests, Finish(r) PROVE FlashInv'
    <3>1. pc'[r] = "reply" => FlashTaken(r)'
      BY <2>6 DEF Finish, Goto, HandlesOwnFlash, FlashTaken, TypeOK
    <3> QED
      BY <2>4, <2>6, <3>1, RemovedFacts DEF Finish, Goto, Past, Loaded, TypeOK
  <2>7. ASSUME NEW r \in Requests, Reply(r) PROVE FlashInv'
    <3>1. ~(session[r].destroyed /\ Rotated(r)) => FlashTaken(r)'
      BY <2>7 DEF Reply, FlashTakenOnceWritten, FlashTaken
    <3> QED
      BY <2>4, <2>7, <3>1, RemovedFacts DEF Reply, Goto, Past, Loaded, TypeOK
  <2>8. ASSUME NEW r \in Requests, Fail(r) PROVE FlashInv'
    BY <2>4, <2>8, RemovedFacts DEF Fail, Goto, Past, Loaded, TypeOK
  <2>9. ASSUME NEW r \in Requests, Send(r) PROVE FlashInv'
    <3>1. \A q \in Requests : Loaded(q) => presented'[q] = presented[q] /\ Loaded(q)'
      BY <2>9 DEF Send, Goto, Loaded, TypeOK
    <3>2. \A q \in Requests : Past(q) => Past(q)'
      BY <2>9 DEF Send, Goto, Past, TypeOK
    <3>3. \A q \in Requests : pc'[q] \in {"reply", "done", "destroy"} => pc'[q] = pc[q]
      BY <2>9 DEF Send, Goto, TypeOK
    <3>4. HandlesOwnFlash' /\ StoredFlashSaved'
      BY <2>0, <2>9, <3>2, <3>3 DEF Send, HandlesOwnFlash, StoredFlashSaved
    <3>5. ReadFlashPresented'
      BY <2>0, <2>9, <3>1, <3>2 DEF Send, ReadFlashPresented
    <3>6. FlashTakenOnceWritten'
      BY <2>9, <3>1, <3>3 DEF Send, FlashTakenOnceWritten, FlashTaken, Rotated, Loaded
    <3> QED
      BY <3>4, <3>5, <3>6
  <2>10. CASE Restart
    <3>1. Shrinks /\ DOMAIN entries' = {}
      BY <2>10, RemovedFacts DEF Restart
    <3>2. \A t \in Requests : /\ Past(t) => Past(t)'
                              /\ Loaded(t) => Loaded(t)'
                              /\ pc'[t] # "destroy"
      BY <2>10 DEF Restart, Past, Loaded, Running, TypeOK
    <3> QED
      BY <2>0, <2>10, <3>1, <3>2
      DEF Restart, HandlesOwnFlash, StoredFlashSaved, ReadFlashPresented,
          FlashTakenOnceWritten, FlashTaken
  <2>11. CASE Tick \/ UNCHANGED vars
    BY <2>11 DEF Tick, vars, requestVars, HandlesOwnFlash, StoredFlashSaved,
                 ReadFlashPresented, FlashTakenOnceWritten, FlashTaken, Past, Loaded, Rotated
  <2> QED
    BY <2>1, <2>2, <2>3, <2>5, <2>6, <2>7, <2>8, <2>9, <2>10, <2>11 DEF Next, Handle
<1> QED
  BY <1>1, <1>2, TypeCorrect, PTL DEF Spec

THEOREM FlashOnce == Spec => []FlashConsumed
<1>1. FlashInv => FlashConsumed
  BY DEF FlashInv, FlashTakenOnceWritten, FlashTaken, FlashConsumed, Replied
<1> QED
  BY <1>1, FlashInductive, PTL
==============================================================================
