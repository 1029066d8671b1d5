--------------------------- MODULE DatabaseProofs ---------------------------
(***************************************************************************)
(* Proofs about the database scope, for any tasks, pool and bounds.        *)
(***************************************************************************)
EXTENDS DatabaseProperties, SequenceLemmas

-----------------------------------------------------------------------------
(***************************************************************************)
(* The stack of scopes                                                     *)
(***************************************************************************)
LEMMA HandlesAre ==
    ASSUME StateOK, NEW t \in Tasks
    PROVE  /\ Len(scopes[t]) \in Nat
           /\ HandlesOf(t) = {scopes[t][i].handle : i \in 1 .. Len(scopes[t])}
           /\ \A i \in 1 .. Len(scopes[t]) : scopes[t][i] \in Scopes
<1>1. scopes[t] \in Seq(Scopes)
  BY DEF StateOK
<1>2. Len(scopes[t]) \in Nat /\ DOMAIN scopes[t] = 1 .. Len(scopes[t])
  BY <1>1, LenProperties
<1> QED
  BY <1>1, <1>2, ElementOfSeq DEF HandlesOf, ToSet

\* The innermost scope, and what is left without it.
LEMMA Innermost ==
    ASSUME StateOK, NEW t \in Tasks, scopes[t] # <<>>
    PROVE  /\ Len(scopes[t]) \in Nat /\ Len(scopes[t]) > 0
           /\ Len(scopes[t]) \in 1 .. Len(scopes[t])
           /\ Last(scopes[t]) = scopes[t][Len(scopes[t])] /\ Last(scopes[t]) \in Scopes
           /\ Current(t) = Last(scopes[t]).handle /\ Current(t) \in HandlesOf(t)
           /\ Front(scopes[t]) \in Seq(Scopes)
           /\ Len(Front(scopes[t])) = Len(scopes[t]) - 1
           /\ \A i \in 1 .. Len(Front(scopes[t])) :
                 Front(scopes[t])[i] = scopes[t][i] /\ i \in 1 .. Len(scopes[t]) - 1
<1>1. scopes[t] \in Seq(Scopes)
  BY DEF StateOK
<1>2. Len(scopes[t]) \in Nat \ {0}
  BY <1>1, EmptySeq
<1> DEFINE n == Len(scopes[t]) - 1
<1>3. \A i \in 1 .. n : scopes[t][i] \in Scopes
  BY <1>1, <1>2, ElementOfSeq
<1>4. n \in Int /\ n >= 0
  BY <1>2
<1>5. Current(t) = Last(scopes[t]).handle /\ Last(scopes[t]) = scopes[t][Len(scopes[t])]
  BY DEF Current, Last
<1>6. Current(t) \in HandlesOf(t)
  BY <1>2, <1>5, HandlesAre
<1> HIDE DEF n
<1>7. /\ SubSeq(scopes[t], 1, n) \in Seq(Scopes)
      /\ Len(SubSeq(scopes[t], 1, n)) = IF 1 <= n THEN n - 1 + 1 ELSE 0
      /\ \A i \in 1 .. n - 1 + 1 : SubSeq(scopes[t], 1, n)[i] = scopes[t][1 + i - 1]
  BY <1>3, <1>4, SubSeqProperties
<1>8. Len(SubSeq(scopes[t], 1, n)) = n
  BY <1>4, <1>7
<1>9. \A i \in 1 .. n : SubSeq(scopes[t], 1, n)[i] = scopes[t][i]
  BY <1>4, <1>7
<1>10. Front(scopes[t]) = SubSeq(scopes[t], 1, n)
  BY DEF Front, n
<1>11. Last(scopes[t]) \in Scopes
  BY <1>1, <1>2, <1>5, ElementOfSeq
<1> QED
  BY <1>2, <1>5, <1>6, <1>7, <1>8, <1>9, <1>10, <1>11 DEF n

LEMMA Entered ==
    ASSUME StateOK, NEW t \in Tasks,
           NEW kind \in {"scope", "request", "transaction", "rollback"},
           NEW h \in Handles, Enter(t, kind, h)
    PROVE  /\ scopes' \in [Tasks -> Seq(Scopes)]
           /\ \A u \in Tasks \ {t} : scopes'[u] = scopes[u]
           /\ Len(scopes[t]) \in Nat /\ Len(scopes'[t]) = Len(scopes[t]) + 1
           /\ \A i \in 1 .. Len(scopes[t]) : scopes'[t][i] = scopes[t][i]
           /\ scopes'[t][Len(scopes[t]) + 1] = [kind |-> kind, handle |-> h]
<1> DEFINE f == [kind |-> kind, handle |-> h]
<1>1. scopes[t] \in Seq(Scopes) /\ f \in Scopes /\ Len(scopes[t]) \in Nat
  BY LenProperties DEF StateOK, Scopes
<1>2. scopes' = [scopes EXCEPT ![t] = Append(scopes[t], f)]
  BY DEF Enter
<1> HIDE DEF f
<1>3. /\ Append(scopes[t], f) \in Seq(Scopes)
      /\ Len(Append(scopes[t], f)) = Len(scopes[t]) + 1
      /\ \A i \in 1 .. Len(scopes[t]) : Append(scopes[t], f)[i] = scopes[t][i]
      /\ Append(scopes[t], f)[Len(scopes[t]) + 1] = f
  BY <1>1, AppendProperties
<1> QED
  BY <1>1, <1>2, <1>3 DEF StateOK, f

LEMMA Exited ==
    ASSUME StateOK, NEW t \in Tasks, scopes[t] # <<>>, Exit(t)
    PROVE  /\ scopes' \in [Tasks -> Seq(Scopes)]
           /\ \A u \in Tasks \ {t} : scopes'[u] = scopes[u]
           /\ scopes'[t] = Front(scopes[t])
BY Innermost DEF StateOK, Exit

LEMMA CurrentType ==
    ASSUME StateOK, NEW t \in Tasks
    PROVE  /\ Current(t) \in Handles \cup {None}
           /\ Current(t) # None => scopes[t] # <<>>
           /\ Joined(t) \in Handles
BY Innermost DEF Current, Joined, Scopes, Handles
-----------------------------------------------------------------------------
\* Who waits for a connection for a query has a handle to send it through.
QueriesInScope == \A t \in Tasks : asked[t] = "query" => Current(t) # None

\* Each frame of a task: a handle of a transaction is that of an open one of
\* this task, of which nothing was told yet; and the frame that begins a
\* transaction is the first with its handle.
FrameOK(t, i) ==
    LET s == scopes[t][i]
    IN  /\ s.handle # Pool =>
              s.handle \in Open /\ s.handle[1] = t /\ txs[s.handle].told = "nothing"
        /\ s.kind \in {"transaction", "rollback"} =>
              /\ s.handle # Pool /\ txs[s.handle].kind = s.kind
              /\ \A j \in 1 .. i - 1 : scopes[t][j].handle # s.handle

WellNested(t) == \A i \in 1 .. Len(scopes[t]) : FrameOK(t, i)

LEMMA OnTop ==
    ASSUME StateOK, NEW t \in Tasks, scopes[t] # <<>>, WellNested(t)
    PROVE  /\ Current(t) # Pool =>
                 Current(t) \in Open /\ Current(t)[1] = t /\ txs[Current(t)].told = "nothing"
           /\ Last(scopes[t]).kind \in {"transaction", "rollback"} =>
                 /\ Current(t) \in Open /\ Current(t)[1] = t
                 /\ txs[Current(t)].told = "nothing"
                 /\ txs[Current(t)].kind = Last(scopes[t]).kind
                 /\ \A i \in 1 .. Len(Front(scopes[t])) : scopes[t][i].handle # Current(t)
<1>1. FrameOK(t, Len(scopes[t]))
  BY Innermost DEF WellNested
<1>2. /\ Last(scopes[t]) = scopes[t][Len(scopes[t])]
      /\ Current(t) = scopes[t][Len(scopes[t])].handle
      /\ Len(Front(scopes[t])) = Len(scopes[t]) - 1
  BY Innermost
<1> QED
  BY <1>1, <1>2 DEF FrameOK

LEMMA StateInit == Init => StateOK /\ QueriesInScope
BY EmptySeq, DatabaseAssumption DEF Init, StateOK, QueriesInScope

LEMMA StateStep ==
    ASSUME StateOK, QueriesInScope, \A t \in Tasks : WellNested(t), [Next]_vars
    PROVE  StateOK'
<1>1. CASE UNCHANGED vars
  BY <1>1 DEF StateOK, vars
<1>2. ASSUME NEW t \in Tasks, NEW kind \in {"scope", "request"}, NEW h \in Handles,
             Enter(t, kind, h), Tried(t),
             UNCHANGED <<size, asked, ending, strays, txs, rows>>
      PROVE  StateOK'
  <2>1. scopes' \in [Tasks -> Seq(Scopes)]
    BY <1>2, Entered
  <2>2. tried' \in [Tasks -> Nat]
    BY <1>2 DEF Tried, StateOK
  <2>3. UNCHANGED <<size, asked, ending, strays, txs, rows>>
    BY <1>2
  <2> QED
    BY <2>1, <2>2, <2>3 DEF StateOK
<1>3. ASSUME NEW t \in Tasks, NEW what \in {"transaction", "rollback"},
             Ask(t, what), Tried(t),
             UNCHANGED <<size, scopes, ending, strays, txs, rows>>
      PROVE  StateOK'
  BY <1>3 DEF Tried, Ask, StateOK
<1>4. ASSUME NEW t \in Tasks, Opens(t)
      PROVE  StateOK'
  <2>1. CASE EnterScope(t)
    <3>1. Pool \in Handles
      BY DEF Handles
    <3> QED
      BY <1>2, <2>1, <3>1 DEF EnterScope
  <2>2. CASE Begin(t, "transaction")
    BY <1>3, <2>2 DEF Begin
  <2>3. CASE Begin(t, "rollback")
    BY <1>3, <2>3 DEF Begin
  <2>4. CASE Dispatch(t)
    BY <1>2, <2>4, CurrentType DEF Dispatch, Arrives
  <2>5. CASE DispatchRollback(t)
    BY <1>2, <1>3, <2>5, CurrentType DEF DispatchRollback, NothingInScope, Arrives
  <2> QED
    BY <1>4, <2>1, <2>2, <2>3, <2>4, <2>5 DEF Opens
<1>5. ASSUME NEW t \in Tasks, Current(t) # None
      PROVE  RowOf(t) \in Rows
  BY <1>5, CurrentType DEF RowOf, Rows, Under
<1>6. ASSUME NEW t \in Tasks, Write(t)
      PROVE  StateOK'
  BY <1>5, <1>6 DEF Write, Ask, StateOK
<1>7. ASSUME NEW t \in Tasks, Clone(t)
      PROVE  StateOK'
  BY <1>7 DEF Clone, StateOK
<1>8. ASSUME NEW t \in Tasks, TimeOut(t)
      PROVE  StateOK'
  BY <1>8 DEF TimeOut, StateOK
<1>9. ASSUME NEW t \in Tasks, Grant(t)
      PROVE  StateOK'
  <2>1. CASE asked[t] = "query"
    <3>1. RowOf(t) \in Rows
      BY <1>5, <2>1 DEF QueriesInScope
    <3> QED
      BY <1>9, <2>1, <3>1 DEF Grant, StateOK
  <2>2. CASE asked[t] # "query"
    <3> DEFINE x == <<t, tried[t]>>
    <3>1. asked[t] \in {"transaction", "rollback"} /\ x \in Transactions /\ x \in Handles
      BY <1>9, <2>2 DEF Grant, StateOK, Transactions, Handles
    <3>2. Enter(t, asked[t], x)
      BY <1>9, <2>2 DEF Grant
    <3>3. scopes' \in [Tasks -> Seq(Scopes)]
      BY <3>1, <3>2, Entered
    <3>4. DOMAIN txs' = DOMAIN txs \cup {x}
      BY <1>9, <2>2 DEF Grant
    <3>5. \A y \in DOMAIN txs' :
             txs'[y] = IF y = x THEN [kind |-> asked[t], status |-> "open",
                                      told |-> "nothing"]
                       ELSE txs[y]
      BY <1>9, <2>2 DEF Grant
    <3> HIDE DEF x
    <3>6. DOMAIN txs' \subseteq Transactions /\ \A y \in DOMAIN txs' : txs'[y] \in Outcomes
      BY <3>1, <3>4, <3>5 DEF StateOK, Outcomes
    <3> QED
      BY <1>9, <2>2, <3>3, <3>4, <3>6 DEF Grant, StateOK
  <2> QED
    BY <2>1, <2>2
<1>10. ASSUME NEW t \in Tasks, Returns(t)
      PROVE  StateOK'
  <2>1. scopes[t] # <<>> /\ Exit(t)
    BY <1>10 DEF Returns, LeaveScope, LeaveStray, LeaveAlone, Leaves
  <2>2. scopes' \in [Tasks -> Seq(Scopes)]
    BY <2>1, Exited
  <2>3. CASE LeaveScope(t)
    BY <2>2, <2>3 DEF LeaveScope, StateOK
  <2>4. CASE LeaveStray(t)
    <3>1. /\ Current(t) \in DOMAIN txs
          /\ Told(Current(t), FALSE) \in {"ok", "err"}
      BY <2>4 DEF LeaveStray, Sole, Told, StateOK
    <3>2. txs' = [txs EXCEPT ![Current(t)].told = Told(Current(t), FALSE)]
      BY <2>4 DEF LeaveStray
    <3>3. DOMAIN txs' = DOMAIN txs /\ \A x \in DOMAIN txs : txs'[x] \in Outcomes
      BY <3>1, <3>2 DEF StateOK, Outcomes
    <3> QED
      BY <2>2, <2>4, <3>3 DEF LeaveStray, StateOK
  <2>5. ASSUME NEW ok \in BOOLEAN, LeaveAlone(t, ok)
        PROVE  StateOK'
    <3>1. Current(t) \in Open
      BY <2>1, <2>5, OnTop DEF LeaveAlone
    <3>2. [tx |-> Current(t), ok |-> ok] \in [tx : Transactions, ok : BOOLEAN]
      BY <3>1 DEF Open, StateOK
    <3> QED
      BY <2>2, <2>5, <3>2 DEF LeaveAlone, StateOK
  <2> QED
    BY <1>10, <2>3, <2>4, <2>5 DEF Returns
<1>11. ASSUME NEW t \in Tasks, Finish(t)
      PROVE  StateOK'
  <2> DEFINE x == ending[t].tx
  <2>1. PICK status \in {"committed", "undone"}, answer \in {"ok", "err", "unknown"} :
           txs' = [txs EXCEPT ![x].status = status, ![x].told = answer]
    BY <1>11 DEF Finish, Told
  <2> HIDE DEF x
  <2>2. DOMAIN txs' = DOMAIN txs
    BY <2>1
  <2>3. ASSUME NEW y \in DOMAIN txs
        PROVE  txs'[y] \in Outcomes
    <3>1. txs[y] \in Outcomes
      BY DEF StateOK
    <3>2. CASE y # x
      BY <2>1, <3>1, <3>2
    <3>3. CASE y = x
      <4>1. txs'[y] = [txs[y] EXCEPT !.status = status, !.told = answer]
        BY <2>1, <3>3
      <4> QED
        BY <3>1, <4>1 DEF Outcomes
    <3> QED
      BY <3>2, <3>3
  <2> QED
    BY <1>11, <2>2, <2>3 DEF Finish, StateOK
<1>12. ASSUME NEW t \in Tasks, Cancel(t)
      PROVE  StateOK'
  <2>1. PICK result \in {"undone", "committed"} :
           txs' = [x \in DOMAIN txs |->
                     IF txs[x].status # "open" \/ x \in strays \/ x[1] # t THEN txs[x]
                     ELSE IF ending[t] # None /\ ending[t].tx = x /\ Commits(x, ending[t].ok)
                     THEN [txs[x] EXCEPT !.status = result]
                     ELSE [txs[x] EXCEPT !.status = "undone"]]
    BY <1>12 DEF Cancel
  <2>3. DOMAIN txs' = DOMAIN txs
    BY <2>1
  <2>4. \A y \in DOMAIN txs : txs'[y] \in {txs[y], [txs[y] EXCEPT !.status = "undone"],
                                              [txs[y] EXCEPT !.status = "committed"]}
    BY <2>1
  <2>5. \A y \in DOMAIN txs : txs'[y] \in Outcomes
    <3>1. ASSUME NEW o \in Outcomes, NEW status \in {"undone", "committed"}
          PROVE  [o EXCEPT !.status = status] \in Outcomes
      BY <3>1 DEF Outcomes
    <3>2. ASSUME NEW y \in DOMAIN txs
          PROVE  txs'[y] \in Outcomes
      <4>1. txs[y] \in Outcomes
        BY DEF StateOK
      <4>2. \/ txs'[y] = txs[y]
            \/ txs'[y] = [txs[y] EXCEPT !.status = "undone"]
            \/ txs'[y] = [txs[y] EXCEPT !.status = "committed"]
        BY <2>4
      <4>3. /\ [txs[y] EXCEPT !.status = "undone"] \in Outcomes
            /\ [txs[y] EXCEPT !.status = "committed"] \in Outcomes
        BY <3>1, <4>1
      <4> QED
        BY <4>1, <4>2, <4>3
    <3> QED
      BY <3>2
  <2>6. /\ asked' \in [Tasks -> {None, "query", "transaction", "rollback"}]
        /\ ending' \in [Tasks -> {None} \cup [tx : Transactions, ok : BOOLEAN]]
    BY <1>12 DEF Cancel, StateOK
  <2>7. UNCHANGED <<size, tried, strays, rows>>
    BY <1>12 DEF Cancel
  <2>2. scopes' \in [Tasks -> Seq(Scopes)]
    BY <1>12, EmptySeq DEF Cancel, StateOK
  <2>8. DOMAIN txs' \subseteq Transactions /\ \A x \in DOMAIN txs' : txs'[x] \in Outcomes
    BY <2>3, <2>5 DEF StateOK
  <2>9. /\ size' \in PoolSizes /\ tried' \in [Tasks -> Nat]
        /\ strays' \subseteq DOMAIN txs' /\ rows' \subseteq Rows
    BY <2>3, <2>7 DEF StateOK
  <2> QED
    BY <2>2, <2>6, <2>8, <2>9 DEF StateOK
<1>13. ASSUME NEW x \in DOMAIN txs, StrayWrite(x)
      PROVE  StateOK'
  <2>1. x \in Handles
    BY DEF StateOK, Handles
  <2>2. [handle |-> x, under |-> txs[x].kind = "rollback"] \in Rows
    BY <2>1 DEF Rows
  <2> QED
    BY <1>13, <2>2 DEF StrayWrite, StateOK
<1>14. ASSUME NEW x \in DOMAIN txs, DropStray(x)
      PROVE  StateOK'
  BY <1>14 DEF DropStray, StateOK, Outcomes
<1> QED
  BY <1>1, <1>4, <1>6, <1>7, <1>8, <1>9, <1>10, <1>11, <1>12, <1>13, <1>14 DEF Next
-----------------------------------------------------------------------------
(***************************************************************************)
(* Scopes and transactions                                                 *)
(***************************************************************************)
\* A task that waits to begin a transaction has not used its name.
NamesApart ==
    \A t \in Tasks, n \in Nat : <<t, n>> \in DOMAIN txs =>
        n <= tried[t] /\ (asked[t] \in {"transaction", "rollback"} => n < tried[t])

\* The transaction a task awaits the end of is its own, and nobody else's.
EndingOK(t) ==
    ending[t] # None =>
        /\ ending[t].tx \in Open \ strays
        /\ ending[t].tx[1] = t /\ txs[ending[t].tx].told = "nothing"
        /\ ending[t].tx \notin HandlesOf(t)

ScopeInv ==
    /\ StateOK /\ QueriesInScope
    /\ \A t \in Tasks : WellNested(t)
    /\ \A t \in Tasks : EndingOK(t)
    /\ strays \subseteq Open
    /\ NamesApart
    /\ OutcomesAreTrue

\* Frames stay well nested while nothing happens to their transactions.
LEMMA NestedKept ==
    ASSUME StateOK, NEW t \in Tasks, WellNested(t),
           \A i \in 1 .. Len(scopes'[t]) :
               /\ i \in 1 .. Len(scopes[t]) /\ scopes'[t][i] = scopes[t][i]
               /\ scopes[t][i].handle # Pool =>
                     /\ scopes[t][i].handle \in DOMAIN txs'
                     /\ txs'[scopes[t][i].handle] = txs[scopes[t][i].handle]
    PROVE  WellNested(t)'
<1> SUFFICES ASSUME NEW i \in 1 .. Len(scopes'[t])
             PROVE  FrameOK(t, i)'
  BY DEF WellNested
<1>1. /\ i \in 1 .. Len(scopes[t]) /\ scopes'[t][i] = scopes[t][i]
      /\ scopes[t][i].handle # Pool =>
            /\ scopes[t][i].handle \in DOMAIN txs'
            /\ txs'[scopes[t][i].handle] = txs[scopes[t][i].handle]
  OBVIOUS
<1>2. FrameOK(t, i)
  BY <1>1 DEF WellNested
<1>3. i \in Nat /\ i <= Len(scopes[t])
  BY <1>1
<1> QED
  BY <1>1, <1>2 DEF FrameOK, Open

\* A task none of whose scopes and transactions a step touches.
Aside(t) ==
    /\ scopes'[t] = scopes[t] /\ ending'[t] = ending[t]
    /\ \A x \in DOMAIN txs :
          x \in HandlesOf(t) \/ (ending[t] # None /\ ending[t].tx = x) =>
              x \in DOMAIN txs' /\ txs'[x] = txs[x]
    /\ ending[t] # None => ending[t].tx \notin strays' \ strays

LEMMA HandlesInTxs ==
    ASSUME StateOK, NEW t \in Tasks, WellNested(t),
           NEW i \in 1 .. Len(scopes[t]), scopes[t][i].handle # Pool
    PROVE  /\ scopes[t][i].handle \in DOMAIN txs /\ scopes[t][i].handle[1] = t
           /\ scopes[t][i].handle \in HandlesOf(t)
BY HandlesAre DEF WellNested, FrameOK, Open

LEMMA AsideKept ==
    ASSUME ScopeInv, NEW t \in Tasks, Aside(t)
    PROVE  WellNested(t)' /\ EndingOK(t)' /\ Current(t)' = Current(t)
<1>1. StateOK /\ WellNested(t) /\ EndingOK(t)
  BY DEF ScopeInv
<1>2. WellNested(t)'
  BY <1>1, NestedKept, HandlesInTxs DEF Aside
<1>3. HandlesOf(t)' = HandlesOf(t) /\ Current(t)' = Current(t)
  BY DEF Aside, HandlesOf, Current
<1>4. ASSUME ending'[t] # None
      PROVE  /\ ending[t].tx \in Open \ strays
             /\ ending[t].tx[1] = t /\ txs[ending[t].tx].told = "nothing"
             /\ ending[t].tx \notin HandlesOf(t) /\ ending[t].tx \notin strays'
             /\ ending[t].tx \in DOMAIN txs' /\ txs'[ending[t].tx] = txs[ending[t].tx]
  BY <1>1, <1>4 DEF Aside, EndingOK, Open
<1>5. EndingOK(t)'
  BY <1>3, <1>4 DEF Aside, EndingOK, Open
<1> QED
  BY <1>2, <1>3, <1>5

LEMMA ScopeInit == Init => ScopeInv
<1> SUFFICES ASSUME Init PROVE ScopeInv
  OBVIOUS
<1>1. StateOK /\ QueriesInScope
  BY StateInit
<1>2. \A t \in Tasks : WellNested(t)
  BY EmptySeq DEF Init, WellNested
<1>3. /\ \A t \in Tasks : EndingOK(t)
      /\ strays \subseteq Open /\ NamesApart /\ OutcomesAreTrue
  BY DEF Init, EndingOK, NamesApart, OutcomesAreTrue
<1> QED
  BY <1>1, <1>2, <1>3 DEF ScopeInv

\* A scope or a request in the scope it was called in.
LEMMA EnterStep ==
    ASSUME ScopeInv, StateOK', NEW t \in Tasks, NEW kind \in {"scope", "request"},
           NEW h \in Handles, h = Pool \/ h = Current(t), Running(t),
           Enter(t, kind, h), Tried(t),
           UNCHANGED <<size, asked, ending, strays, txs, rows>>
    PROVE  ScopeInv'
<1>1. StateOK /\ WellNested(t) /\ asked[t] = None /\ ending[t] = None
  BY DEF ScopeInv, Running
<1> DEFINE n == Len(scopes[t])
<1>8. /\ \A u \in Tasks \ {t} : scopes'[u] = scopes[u]
      /\ n \in Nat /\ Len(scopes'[t]) = n + 1
      /\ \A i \in 1 .. n : scopes'[t][i] = scopes[t][i]
      /\ scopes'[t][n + 1] = [kind |-> kind, handle |-> h]
  <2>1. kind \in {"scope", "request", "transaction", "rollback"}
    OBVIOUS
  <2> QED
    BY <1>1, <2>1, Entered
<1> HIDE DEF n
<1>2. \A u \in Tasks \ {t} : Aside(u)
  BY <1>8 DEF Aside
<1>3. WellNested(t)'
  <2> SUFFICES ASSUME NEW i \in 1 .. Len(scopes'[t])
               PROVE  FrameOK(t, i)'
    BY DEF WellNested
  <2>1. CASE i \in 1 .. n
    <3>1. FrameOK(t, i) /\ scopes'[t][i] = scopes[t][i]
      BY <1>1, <1>8, <2>1 DEF WellNested, n
    <3>2. \A j \in 1 .. i - 1 : scopes'[t][j] = scopes[t][j]
      BY <1>8, <2>1
    <3> QED
      BY <3>1, <3>2 DEF FrameOK, Open
  <2>2. CASE i = n + 1
    <3>1. scopes'[t][i].kind = kind /\ scopes'[t][i].handle = h
      BY <1>8, <2>2
    <3>2. h # Pool => scopes[t] # <<>>
      BY <1>1, CurrentType, DatabaseAssumption
    <3>3. h # Pool => h \in Open /\ h[1] = t /\ txs[h].told = "nothing"
      BY <1>1, <3>2, OnTop
    <3> QED
      BY <3>1, <3>3 DEF FrameOK, Open
  <2> QED
    BY <1>8, <2>1, <2>2
<1>4. EndingOK(t)'
  BY <1>1 DEF EndingOK
<1>5. NamesApart'
  <2>1. \A u \in Tasks : tried[u] \in Nat /\ tried'[u] \in Nat /\ tried[u] <= tried'[u]
    BY DEF Tried, ScopeInv, StateOK
  <2>2. asked'[t] \notin {"transaction", "rollback"}
    BY <1>1, DatabaseAssumption
  <2>3. \A u \in Tasks \ {t} : tried'[u] = tried[u] /\ asked'[u] = asked[u]
    BY DEF Tried, ScopeInv, StateOK
  <2> QED
    BY <2>1, <2>2, <2>3 DEF ScopeInv, NamesApart
<1>6. QueriesInScope'
  BY <1>1, <1>2, AsideKept, DatabaseAssumption DEF ScopeInv, QueriesInScope
<1>7. strays' \subseteq Open' /\ OutcomesAreTrue'
  BY DEF ScopeInv, Open, OutcomesAreTrue
<1> QED
  BY <1>2, <1>3, <1>4, <1>5, <1>6, <1>7, AsideKept DEF ScopeInv

\* A task waits for a connection, gets one for a query, or gives up.
LEMMA WaitStep ==
    ASSUME ScopeInv, StateOK', NEW t \in Tasks,
           \A u \in Tasks \ {t} : asked'[u] = asked[u],
           \/ asked'[t] \in {None, asked[t]} /\ UNCHANGED tried
           \/ asked'[t] = "query" /\ Current(t) # None /\ UNCHANGED tried
           \/ asked'[t] \in {"transaction", "rollback"} /\ Tried(t),
           UNCHANGED <<scopes, ending, strays, txs>>
    PROVE  ScopeInv'
<1>1. \A u \in Tasks : Aside(u)
  BY DEF Aside
<1>2. NamesApart'
  <2>1. /\ \A u \in Tasks : tried[u] \in Nat /\ tried'[u] \in Nat /\ tried[u] <= tried'[u]
        /\ \A u \in Tasks \ {t} : tried'[u] = tried[u]
    <3>1. CASE UNCHANGED tried
      BY <3>1 DEF ScopeInv, StateOK
    <3>2. CASE Tried(t)
      BY <3>2 DEF Tried, ScopeInv, StateOK
    <3> QED
      BY <3>1, <3>2
  <2>2. ASSUME NEW u \in Tasks, NEW m \in Nat, <<u, m>> \in DOMAIN txs,
               asked'[u] \in {"transaction", "rollback"}
        PROVE  m < tried'[u]
    <3>1. m <= tried[u] /\ (asked[u] \in {"transaction", "rollback"} => m < tried[u])
      BY <2>2 DEF ScopeInv, NamesApart
    <3>2. CASE asked'[u] = asked[u]
      BY <2>1, <2>2, <3>1, <3>2
    <3>3. CASE u = t /\ tried'[t] = tried[t] + 1
      BY <2>1, <3>1, <3>3
    <3>4. \/ asked'[u] = asked[u]
          \/ u = t /\ tried'[t] = tried[t] + 1
      BY <2>2, DatabaseAssumption DEF Tried, ScopeInv, StateOK
    <3> QED
      BY <3>2, <3>3, <3>4
  <2> QED
    BY <2>1, <2>2 DEF ScopeInv, NamesApart
<1>3. QueriesInScope'
  BY <1>1, AsideKept, DatabaseAssumption DEF ScopeInv, QueriesInScope
<1>4. strays' \subseteq Open' /\ OutcomesAreTrue'
  BY DEF ScopeInv, Open, OutcomesAreTrue
<1> QED
  BY <1>1, <1>2, <1>3, <1>4, AsideKept DEF ScopeInv

\* A step on a transaction of one task leaves the other tasks aside.
LEMMA OthersAside ==
    ASSUME ScopeInv, NEW t \in Tasks, NEW u \in Tasks \ {t},
           scopes'[u] = scopes[u], ending'[u] = ending[u],
           \A x \in DOMAIN txs : x[1] # t => x \in DOMAIN txs' /\ txs'[x] = txs[x],
           \A x \in strays' \ strays : x[1] = t
    PROVE  Aside(u)
<1>1. StateOK /\ WellNested(u) /\ EndingOK(u)
  BY DEF ScopeInv
<1>2. ASSUME NEW x \in DOMAIN txs, x \in HandlesOf(u)
      PROVE  x[1] = u
  <2>1. x # Pool
    BY <1>1, DatabaseAssumption DEF StateOK
  <2> QED
    BY <1>1, <1>2, <2>1, HandlesAre, HandlesInTxs
<1>3. ending[u] # None => ending[u].tx[1] = u
  BY <1>1 DEF EndingOK
<1> QED
  BY <1>2, <1>3 DEF Aside

\* A transaction begins.
LEMMA BeginStep ==
    ASSUME ScopeInv, StateOK', NEW t \in Tasks, Grant(t), asked[t] # "query"
    PROVE  ScopeInv'
<1> DEFINE x == <<t, tried[t]>>
           n == Len(scopes[t])
<1>1. StateOK /\ WellNested(t) /\ EndingOK(t)
  BY DEF ScopeInv
<1>2. asked[t] \in {"transaction", "rollback"} /\ x \in Transactions /\ x \in Handles
  BY <1>1 DEF Grant, StateOK, Transactions, Handles
<1>3. x # Pool /\ x[1] = t
  BY <1>2, DatabaseAssumption
<1>4. x \notin DOMAIN txs
  BY <1>1, <1>2 DEF ScopeInv, NamesApart, StateOK
<1>5. /\ UNCHANGED <<size, ending, tried, strays, rows>>
      /\ asked' = [asked EXCEPT ![t] = None]
      /\ Enter(t, asked[t], x)
      /\ DOMAIN txs' = DOMAIN txs \cup {x}
      /\ txs'[x] = [kind |-> asked[t], status |-> "open", told |-> "nothing"]
      /\ \A y \in DOMAIN txs : txs'[y] = txs[y]
  BY <1>4 DEF Grant
<1> HIDE DEF x
<1>6. /\ \A u \in Tasks \ {t} : scopes'[u] = scopes[u]
      /\ n \in Nat /\ Len(scopes'[t]) = n + 1
      /\ \A i \in 1 .. n : scopes'[t][i] = scopes[t][i]
      /\ scopes'[t][n + 1] = [kind |-> asked[t], handle |-> x]
  BY <1>1, <1>2, <1>5, Entered
<1>7. \A u \in Tasks \ {t} : Aside(u)
  BY <1>5, <1>6 DEF Aside
<1>8. \A i \in 1 .. n : scopes[t][i].handle # x /\ FrameOK(t, i)
  BY <1>1, <1>3, <1>4, HandlesInTxs DEF WellNested
<1> HIDE DEF n
<1>9. WellNested(t)'
  <2> SUFFICES ASSUME NEW i \in 1 .. Len(scopes'[t])
               PROVE  FrameOK(t, i)'
    BY DEF WellNested
  <2>1. CASE i \in 1 .. n
    <3>1. FrameOK(t, i) /\ scopes'[t][i] = scopes[t][i]
      BY <1>6, <1>8, <2>1
    <3>2. \A j \in 1 .. i - 1 : scopes'[t][j] = scopes[t][j]
      BY <1>6, <2>1
    <3> QED
      BY <1>5, <3>1, <3>2 DEF FrameOK, Open
  <2>2. CASE i = n + 1
    <3>1. scopes'[t][i].kind = asked[t] /\ scopes'[t][i].handle = x
      BY <1>6, <2>2
    <3>2. \A j \in 1 .. i - 1 : scopes'[t][j].handle # x
      BY <1>6, <1>8, <2>2
    <3> QED
      BY <1>3, <1>5, <3>1, <3>2 DEF FrameOK, Open
  <2> QED
    BY <1>6, <2>1, <2>2
<1>10. EndingOK(t)'
  <2>1. HandlesOf(t)' \subseteq HandlesOf(t) \cup {x}
    <3>3. scopes'[t] \in Seq(Scopes)
      BY DEF StateOK
    <3>4. DOMAIN scopes'[t] = 1 .. Len(scopes'[t])
      BY <3>3, LenProperties
    <3>1. HandlesOf(t)' = {scopes'[t][i].handle : i \in 1 .. Len(scopes'[t])}
      BY <3>4 DEF HandlesOf, ToSet
    <3>2. HandlesOf(t) = {scopes[t][i].handle : i \in 1 .. n}
      BY <1>1, HandlesAre DEF n
    <3> QED
      <4>1. \A i \in 1 .. n + 1 : i \in 1 .. n \/ i = n + 1
        BY <1>6
      <4>2. scopes'[t][n + 1].handle = x
        BY <1>6
      <4>3. \A i \in 1 .. n + 1 : scopes'[t][i].handle \in HandlesOf(t) \cup {x}
        BY <1>6, <3>2, <4>1, <4>2
      <4> QED
        BY <1>6, <3>1, <4>3
  <2> QED
    BY <1>1, <1>4, <1>5, <2>1 DEF EndingOK, Open
<1>11. NamesApart'
  BY <1>1, <1>5, DatabaseAssumption DEF ScopeInv, NamesApart, StateOK, x
<1>12. QueriesInScope'
  BY <1>1, <1>5, <1>7, AsideKept, DatabaseAssumption DEF ScopeInv, QueriesInScope, StateOK
<1>13. strays' \subseteq Open' /\ OutcomesAreTrue'
  BY <1>4, <1>5 DEF ScopeInv, Open, OutcomesAreTrue
<1> QED
  BY <1>7, <1>9, <1>10, <1>11, <1>12, <1>13, AsideKept DEF ScopeInv

\* A handle escapes its scope.
LEMMA CloneStep ==
    ASSUME ScopeInv, StateOK', NEW t \in Tasks, Clone(t)
    PROVE  ScopeInv'
<1>1. StateOK /\ WellNested(t) /\ ending[t] = None
  BY DEF ScopeInv, Clone, Running
<1>2. Current(t) # Pool /\ scopes[t] # <<>>
  BY <1>1, CurrentType, DatabaseAssumption DEF Clone, StateOK, Handles
<1>3. Current(t) \in Open /\ Current(t)[1] = t
  BY <1>1, <1>2, OnTop
<1>4. Aside(t)
  BY <1>1 DEF Clone, Aside
<1>5. \A u \in Tasks \ {t} : Aside(u)
  BY <1>3, OthersAside DEF Clone
<1>6. NamesApart' /\ OutcomesAreTrue' /\ strays' \subseteq Open'
  BY <1>3 DEF Clone, ScopeInv, NamesApart, OutcomesAreTrue, Open
<1>7. QueriesInScope'
  BY <1>4, <1>5, AsideKept DEF Clone, ScopeInv, QueriesInScope
<1> QED
  BY <1>4, <1>5, <1>6, <1>7, AsideKept DEF ScopeInv

LEMMA DropStep ==
    ASSUME ScopeInv, StateOK', NEW x \in DOMAIN txs, DropStray(x)
    PROVE  ScopeInv'
<1>1. x \in Open /\ DOMAIN txs' = DOMAIN txs /\ strays' = strays \ {x}
  BY DEF DropStray, ScopeInv
<1>2. /\ \A y \in DOMAIN txs \ {x} : txs'[y] = txs[y]
      /\ txs'[x] \in {txs[x], [txs[x] EXCEPT !.status = "undone"]}
      /\ InScope(x) => txs' = txs
  BY DEF DropStray
<1>3. UNCHANGED <<scopes, asked, ending, tried>>
  BY DEF DropStray
<1>4. \A u \in Tasks : Aside(u)
  BY <1>1, <1>2, <1>3 DEF Aside, InScope
<1>5. NamesApart' /\ strays' \subseteq Open'
  BY <1>1, <1>2, <1>3 DEF ScopeInv, NamesApart, Open
<1>6. OutcomesAreTrue'
  <2>1. txs[x].status = "open" /\ txs[x] \in Outcomes
    BY <1>1 DEF Open, ScopeInv, StateOK
  <2>2. txs'[x].told = txs[x].told /\ txs'[x].kind = txs[x].kind
    BY <1>2, <2>1 DEF Outcomes
  <2>3. txs'[x].status \in {"open", "undone"}
    BY <1>2, <2>1 DEF Outcomes
  <2>4. ~(txs[x].told = "ok" /\ txs[x].kind = "transaction")
    BY <1>1, <2>1 DEF ScopeInv, OutcomesAreTrue
  <2> QED
    BY <1>1, <1>2, <2>2, <2>3, <2>4 DEF ScopeInv, OutcomesAreTrue
<1>7. QueriesInScope'
  BY <1>3, <1>4, AsideKept DEF ScopeInv, QueriesInScope
<1> QED
  BY <1>4, <1>5, <1>6, <1>7, AsideKept DEF ScopeInv

\* The work of a scope or a request returns.
LEMMA FrontNested ==
    ASSUME ScopeInv, NEW t \in Tasks, scopes[t] # <<>>, Exit(t),
           DOMAIN txs' = DOMAIN txs,
           \A i \in 1 .. Len(Front(scopes[t])) :
               scopes[t][i].handle # Pool =>
                   txs'[scopes[t][i].handle] = txs[scopes[t][i].handle]
    PROVE  WellNested(t)'
<1>1. StateOK /\ WellNested(t)
  BY DEF ScopeInv
<1>2. scopes'[t] = Front(scopes[t])
  BY <1>1, Exited
<1>3. \A i \in 1 .. Len(scopes'[t]) : i \in 1 .. Len(scopes[t]) /\ scopes'[t][i] = scopes[t][i]
  BY <1>1, <1>2, Innermost
<1> QED
  BY <1>1, <1>2, <1>3, NestedKept, HandlesInTxs

LEMMA LeaveStep ==
    ASSUME ScopeInv, StateOK', NEW t \in Tasks, LeaveScope(t)
    PROVE  ScopeInv'
<1>1. StateOK /\ asked[t] = None /\ ending[t] = None /\ scopes[t] # <<>> /\ Exit(t)
  BY DEF ScopeInv, LeaveScope, Leaves, Running
<1>2. \A u \in Tasks \ {t} : Aside(u)
  BY <1>1, Exited DEF LeaveScope, Aside
<1>3. WellNested(t)'
  BY <1>1, FrontNested DEF LeaveScope
<1>4. EndingOK(t)'
  BY <1>1 DEF LeaveScope, EndingOK
<1>5. NamesApart' /\ OutcomesAreTrue' /\ strays' \subseteq Open'
  BY DEF LeaveScope, ScopeInv, NamesApart, OutcomesAreTrue, Open
<1>6. QueriesInScope'
  BY <1>1, <1>2, AsideKept, DatabaseAssumption DEF LeaveScope, ScopeInv, QueriesInScope
<1> QED
  BY <1>2, <1>3, <1>4, <1>5, <1>6, AsideKept DEF ScopeInv

\* The work of a transaction returns, and it is ended.
LEMMA AloneStep ==
    ASSUME ScopeInv, StateOK', NEW t \in Tasks, NEW ok \in BOOLEAN, LeaveAlone(t, ok)
    PROVE  ScopeInv'
<1>1. StateOK /\ WellNested(t) /\ asked[t] = None /\ scopes[t] # <<>> /\ Exit(t)
  BY DEF ScopeInv, LeaveAlone, Leaves, Running
<1>2. \A u \in Tasks \ {t} : Aside(u)
  BY <1>1, Exited DEF LeaveAlone, Aside
<1>3. WellNested(t)'
  BY <1>1, FrontNested DEF LeaveAlone
<1>4. /\ Current(t) \in Open \ strays /\ Current(t)[1] = t
      /\ txs[Current(t)].told = "nothing"
      /\ \A i \in 1 .. Len(Front(scopes[t])) : scopes[t][i].handle # Current(t)
  BY <1>1, OnTop DEF LeaveAlone, Sole
<1>5. Current(t) \notin HandlesOf(t)'
  <2>1. scopes'[t] = Front(scopes[t]) /\ scopes'[t] \in Seq(Scopes)
    BY <1>1, Exited, Innermost
  <2>2. DOMAIN scopes'[t] = 1 .. Len(scopes'[t])
    BY <2>1, LenProperties
  <2>3. \A i \in 1 .. Len(scopes'[t]) : scopes'[t][i].handle # Current(t)
    BY <1>1, <1>4, <2>1, Innermost
  <2> QED
    BY <2>2, <2>3 DEF HandlesOf, ToSet
<1>6. EndingOK(t)'
  <2>1. ending'[t].tx = Current(t)
    BY <1>1 DEF LeaveAlone, StateOK
  <2> QED
    BY <1>4, <1>5, <2>1 DEF LeaveAlone, EndingOK, Open
<1>7. NamesApart' /\ OutcomesAreTrue' /\ strays' \subseteq Open'
  BY DEF LeaveAlone, ScopeInv, NamesApart, OutcomesAreTrue, Open
<1>8. QueriesInScope'
  BY <1>1, <1>2, AsideKept, DatabaseAssumption DEF LeaveAlone, ScopeInv, QueriesInScope
<1> QED
  BY <1>2, <1>3, <1>6, <1>7, <1>8, AsideKept DEF ScopeInv

\* The work of a transaction returns, and its handle lives on elsewhere.
LEMMA StrayStep ==
    ASSUME ScopeInv, StateOK', NEW t \in Tasks, LeaveStray(t)
    PROVE  ScopeInv'
<1> DEFINE x == Current(t)
<1>1. /\ StateOK /\ WellNested(t) /\ scopes[t] # <<>> /\ Exit(t)
      /\ asked[t] = None /\ ending[t] = None
  BY DEF ScopeInv, LeaveStray, Leaves, Running
<1>2. /\ x \in Open /\ x[1] = t
      /\ \A i \in 1 .. Len(Front(scopes[t])) : scopes[t][i].handle # x
  BY <1>1, OnTop DEF LeaveStray
<1>3. /\ UNCHANGED <<asked, ending, tried, strays>>
      /\ txs' = [txs EXCEPT ![x].told = Told(x, FALSE)]
  BY DEF LeaveStray
<1>4. \A u \in Tasks \ {t} : scopes'[u] = scopes[u]
  BY <1>1, Exited
<1> HIDE DEF x
<1>5. /\ DOMAIN txs' = DOMAIN txs
      /\ \A y \in DOMAIN txs \ {x} : txs'[y] = txs[y]
  BY <1>3
<1>6. txs[x] \in Outcomes /\ txs[x].status = "open" /\ x \in DOMAIN txs
  BY <1>1, <1>2 DEF StateOK, Open
<1>7. /\ txs'[x].status = "open" /\ txs'[x].kind = txs[x].kind
      /\ txs'[x].told = Told(x, FALSE)
  BY <1>3, <1>6 DEF Outcomes
<1>8. \A u \in Tasks \ {t} : Aside(u)
  BY <1>2, <1>3, <1>4, <1>5, OthersAside
<1>9. WellNested(t)'
  BY <1>1, <1>2, <1>5, FrontNested, Innermost, HandlesInTxs
<1>10. EndingOK(t)'
  BY <1>1, <1>3 DEF EndingOK
<1>11. NamesApart' /\ strays' \subseteq Open'
  BY <1>3, <1>5, <1>6, <1>7 DEF ScopeInv, NamesApart, Open
<1>12. OutcomesAreTrue'
  BY <1>5, <1>7 DEF ScopeInv, OutcomesAreTrue, Told
<1>13. QueriesInScope'
  BY <1>1, <1>3, <1>8, AsideKept, DatabaseAssumption DEF ScopeInv, QueriesInScope
<1> QED
  BY <1>8, <1>9, <1>10, <1>11, <1>12, <1>13, AsideKept DEF ScopeInv

\* A transaction has ended.
LEMMA FinishStep ==
    ASSUME ScopeInv, StateOK', NEW t \in Tasks, Finish(t)
    PROVE  ScopeInv'
<1> DEFINE x == ending[t].tx
           ok == ending[t].ok
<1>1. StateOK /\ WellNested(t) /\ ending[t] # None
  BY DEF ScopeInv, Finish
<1>2. x \in Open \ strays /\ x[1] = t /\ x \notin HandlesOf(t)
  BY <1>1 DEF ScopeInv, EndingOK
<1>3. /\ UNCHANGED <<scopes, asked, tried, strays>>
      /\ ending' = [ending EXCEPT ![t] = None]
  BY DEF Finish
<1>4. PICK status \in {"committed", "undone"}, answer \in {"ok", "err", "unknown"} :
         /\ txs' = [txs EXCEPT ![x].status = status, ![x].told = answer]
         /\ answer = "ok" /\ txs[x].kind = "transaction" => status = "committed"
         /\ answer = "err" => status = "undone"
  BY DEF Finish, Commits, Told
<1>5. ending'[t] = None /\ \A u \in Tasks \ {t} : ending'[u] = ending[u]
  BY <1>1, <1>3 DEF StateOK
<1> HIDE DEF x, ok
<1>6. /\ DOMAIN txs' = DOMAIN txs /\ x \in DOMAIN txs
      /\ \A y \in DOMAIN txs \ {x} : txs'[y] = txs[y]
  BY <1>2, <1>4 DEF Open
<1>7. /\ txs'[x].status = status /\ txs'[x].told = answer
      /\ txs'[x].kind = txs[x].kind
  <2>1. txs[x] \in Outcomes
    BY <1>1, <1>6 DEF StateOK
  <2>2. txs'[x] = [txs[x] EXCEPT !.status = status, !.told = answer]
    BY <1>4, <1>6
  <2> QED
    BY <2>1, <2>2 DEF Outcomes
<1>8. \A u \in Tasks \ {t} : Aside(u)
  BY <1>2, <1>3, <1>5, <1>6, OthersAside
<1>9. WellNested(t)'
  <2>1. Len(scopes[t]) \in Nat
    BY <1>1, HandlesAre
  <2> QED
    BY <1>1, <1>2, <1>3, <1>6, <2>1, NestedKept, HandlesInTxs
<1>10. EndingOK(t)'
  BY <1>5 DEF EndingOK
<1>11. NamesApart' /\ strays' \subseteq Open'
  BY <1>2, <1>3, <1>6 DEF ScopeInv, NamesApart, Open
<1>12. OutcomesAreTrue'
  BY <1>4, <1>6, <1>7 DEF ScopeInv, OutcomesAreTrue
<1>13. QueriesInScope'
  BY <1>3 DEF ScopeInv, QueriesInScope, Current
<1> QED
  BY <1>8, <1>9, <1>10, <1>11, <1>12, <1>13, AsideKept DEF ScopeInv

\* A task is dropped.
LEMMA CancelStep ==
    ASSUME ScopeInv, StateOK', NEW t \in Tasks, Cancel(t)
    PROVE  ScopeInv'
<1>1. StateOK /\ EndingOK(t)
  BY DEF ScopeInv
<1>2. /\ scopes'[t] = <<>> /\ asked'[t] = None /\ ending'[t] = None
      /\ \A u \in Tasks \ {t} : scopes'[u] = scopes[u] /\ asked'[u] = asked[u]
                                 /\ ending'[u] = ending[u]
      /\ UNCHANGED <<tried, strays>>
  BY <1>1 DEF Cancel, StateOK
<1>3. PICK result \in {"undone", "committed"} :
         txs' = [x \in DOMAIN txs |->
                   IF txs[x].status # "open" \/ x \in strays \/ x[1] # t THEN txs[x]
                   ELSE IF ending[t] # None /\ ending[t].tx = x /\ Commits(x, ending[t].ok)
                   THEN [txs[x] EXCEPT !.status = result]
                   ELSE [txs[x] EXCEPT !.status = "undone"]]
  BY DEF Cancel
<1>4. /\ DOMAIN txs' = DOMAIN txs
      /\ \A x \in DOMAIN txs :
            txs[x].status # "open" \/ x \in strays \/ x[1] # t => txs'[x] = txs[x]
  BY <1>3
<1>5. \A u \in Tasks \ {t} : Aside(u)
  BY <1>2, <1>4, OthersAside
<1>6. WellNested(t)' /\ EndingOK(t)'
  BY <1>2, EmptySeq DEF WellNested, EndingOK
<1>7. NamesApart' /\ strays' \subseteq Open'
  BY <1>2, <1>4, DatabaseAssumption DEF ScopeInv, NamesApart, Open
<1>8. OutcomesAreTrue'
  <2> SUFFICES ASSUME NEW x \in DOMAIN txs
               PROVE  /\ txs'[x].told = "ok" /\ txs'[x].kind = "transaction" =>
                            txs'[x].status = "committed"
                      /\ txs'[x].told = "err" => txs'[x].status # "committed"
    BY <1>4 DEF OutcomesAreTrue
  <2>1. /\ txs[x].told = "ok" /\ txs[x].kind = "transaction" =>
              txs[x].status = "committed"
        /\ txs[x].told = "err" => txs[x].status # "committed"
    BY DEF ScopeInv, OutcomesAreTrue
  <2>2. txs[x] \in Outcomes
    BY <1>1 DEF StateOK
  <2>3. CASE txs'[x] = txs[x]
    BY <2>1, <2>3
  <2>4. CASE txs[x].status = "open" /\ txs'[x] = [txs[x] EXCEPT !.status = "undone"]
    BY <2>1, <2>2, <2>4 DEF Outcomes
  <2>5. CASE /\ txs'[x] = [txs[x] EXCEPT !.status = result]
             /\ ending[t] # None /\ ending[t].tx = x
    <3>1. txs[x].told = "nothing"
      BY <1>1, <2>5 DEF EndingOK
    <3> QED
      BY <2>2, <2>5, <3>1 DEF Outcomes
  <2> QED
    BY <1>3, <2>3, <2>4, <2>5
<1>9. QueriesInScope'
  BY <1>2, <1>5, AsideKept, DatabaseAssumption DEF ScopeInv, QueriesInScope
<1> QED
  BY <1>5, <1>6, <1>7, <1>8, <1>9, AsideKept DEF ScopeInv

LEMMA ScopeStep ==
    ASSUME ScopeInv, [Next]_vars
    PROVE  ScopeInv'
<1>1. StateOK'
  BY StateStep DEF ScopeInv
<1>2. CASE UNCHANGED vars
  BY <1>1, <1>2, AsideKept DEF vars, ScopeInv, Aside, QueriesInScope, NamesApart, Open,
     OutcomesAreTrue
<1>3. ASSUME NEW t \in Tasks, Opens(t)
      PROVE  ScopeInv'
  <2>1. CASE EnterScope(t)
    <3>1. Pool \in Handles
      BY DEF Handles
    <3> QED
      BY <1>1, <2>1, <3>1, EnterStep DEF EnterScope, MayOpen
  <2>2. ASSUME NEW kind \in {"transaction", "rollback"}, Ask(t, kind), Tried(t),
               UNCHANGED <<scopes, ending, strays, txs>>
        PROVE  ScopeInv'
    <3>1. asked'[t] = kind /\ \A u \in Tasks \ {t} : asked'[u] = asked[u]
      BY <2>2 DEF Ask, ScopeInv, StateOK
    <3> QED
      BY <1>1, <2>2, <3>1, WaitStep
  <2>3. CASE Begin(t, "transaction") \/ Begin(t, "rollback")
    BY <2>2, <2>3 DEF Begin
  <2>4. CASE Dispatch(t)
    <3>1. StateOK
      BY DEF ScopeInv
    <3>2. Joined(t) \in Handles /\ (Joined(t) = Pool \/ Joined(t) = Current(t))
      BY <3>1, CurrentType DEF Joined
    <3> QED
      BY <1>1, <2>4, <3>2, EnterStep DEF Dispatch, Arrives
  <2>5. CASE DispatchRollback(t) /\ Current(t) = None
    BY <2>2, <2>5 DEF DispatchRollback, Arrives, NothingInScope
  <2>6. CASE DispatchRollback(t) /\ Current(t) # None
    <3>1. StateOK
      BY DEF ScopeInv
    <3>2. Current(t) \in Handles
      BY <2>6, <3>1, CurrentType
    <3> QED
      BY <1>1, <2>6, <3>2, EnterStep DEF DispatchRollback, Arrives, NothingInScope
  <2> QED
    BY <1>3, <2>1, <2>3, <2>4, <2>5, <2>6 DEF Opens
<1>4. ASSUME NEW t \in Tasks, Write(t)
      PROVE  ScopeInv'
  <2>1. /\ asked'[t] = asked[t] \/ asked'[t] = "query"
        /\ Current(t) # None /\ \A u \in Tasks \ {t} : asked'[u] = asked[u]
        /\ UNCHANGED <<scopes, ending, tried, strays, txs>>
    BY <1>4 DEF Write, Ask, ScopeInv, StateOK
  <2> QED
    BY <1>1, <2>1, WaitStep
<1>5. ASSUME NEW t \in Tasks, TimeOut(t) \/ (Grant(t) /\ asked[t] = "query")
      PROVE  ScopeInv'
  <2>1. /\ asked'[t] = None /\ \A u \in Tasks \ {t} : asked'[u] = asked[u]
        /\ UNCHANGED <<scopes, ending, tried, strays, txs>>
    BY <1>5 DEF TimeOut, Grant, ScopeInv, StateOK
  <2> QED
    BY <1>1, <2>1, WaitStep
<1>6. ASSUME NEW t \in Tasks, Grant(t)
      PROVE  ScopeInv'
  BY <1>1, <1>5, <1>6, BeginStep
<1>7. ASSUME NEW t \in Tasks, Returns(t)
      PROVE  ScopeInv'
  BY <1>1, <1>7, LeaveStep, AloneStep, StrayStep DEF Returns
<1>8. ASSUME NEW x \in DOMAIN txs, StrayWrite(x)
      PROVE  ScopeInv'
  <2>1. \A u \in Tasks : Aside(u)
    BY <1>8 DEF StrayWrite, Aside
  <2> QED
    BY <1>1, <1>8, <2>1, AsideKept DEF StrayWrite, ScopeInv, QueriesInScope, NamesApart,
       Open, OutcomesAreTrue
<1> QED
  BY <1>1, <1>2, <1>3, <1>4, <1>5, <1>6, <1>7, <1>8, CloneStep, FinishStep, CancelStep,
     DropStep DEF Next
-----------------------------------------------------------------------------
(***************************************************************************)
(* The pool's queue: who waits is in it, once                              *)
(***************************************************************************)
Waiting == {t \in Tasks : asked[t] # None}

QueueInv == queue \in Seq(Tasks) /\ IsInjective(queue) /\ Range(queue) = Waiting

LEMMA QueueIsOK == QueueInv => QueueOK
BY DEF QueueInv, QueueOK, Waiting, Range, ToSet

LEMMA QueueInit == Init => QueueInv
<1>1. SUFFICES ASSUME Init PROVE QueueInv
  OBVIOUS
<1>2. queue = <<>> /\ \A t \in Tasks : asked[t] = None
  BY <1>1 DEF Init
<1>3. PICK q : q = <<>>
  OBVIOUS
<1>4. q \in Seq(Tasks) /\ IsInjective(q) /\ Range(q) = {}
  BY <1>3 DEF IsInjective, Range
<1> QED
  BY <1>2, <1>3, <1>4 DEF QueueInv, Waiting

LEMMA AskQueue ==
    ASSUME StateOK, QueueInv, NEW t \in Tasks, Running(t), NEW what, what # None, Ask(t, what)
    PROVE  QueueInv'
<1>1. PICK q : q = queue
  OBVIOUS
<1>2. q \in Seq(Tasks) /\ IsInjective(q) /\ t \notin Range(q)
  BY <1>1 DEF QueueInv, Waiting, Running
<1>3. queue' = Append(q, t)
  BY <1>1 DEF Ask
<1>4. /\ Append(q, t) \in Seq(Tasks) /\ IsInjective(Append(q, t))
      /\ Range(Append(q, t)) = Range(q) \cup {t}
  BY <1>2, InjectiveAppend, AppendRange
<1>5. Waiting' = Waiting \cup {t}
  BY DEF Ask, Waiting, StateOK
<1> QED
  BY <1>1, <1>3, <1>4, <1>5 DEF QueueInv

\* A task leaves the queue, from its head or from wherever it is.
LEMMA LeaveQueue ==
    ASSUME StateOK, QueueInv, NEW t \in Tasks, asked' = [asked EXCEPT ![t] = None],
           \/ queue' = Among(queue, Tasks \ {t})
           \/ asked[t] # None /\ Head(queue) = t /\ queue' = Tail(queue)
    PROVE  QueueInv'
<1>1. PICK q : q = queue
  OBVIOUS
<1>2. q \in Seq(Tasks) /\ IsInjective(q) /\ Range(q) = Waiting
  BY <1>1 DEF QueueInv
<1>3. Waiting' = Waiting \ {t}
  BY DEF Waiting, StateOK
<1>4. CASE queue' = Among(queue, Tasks \ {t})
  <2>1. PICK others : others = Tasks \ {t}
    OBVIOUS
  <2>2. PICK kept : kept = Among(q, others)
    OBVIOUS
  <2>3. kept \in Seq(Tasks) /\ IsInjective(kept) /\ Range(kept) = Range(q) \cap others
    BY <1>2, <2>2, AmongType, AmongInjective
  <2>4. Range(kept) = Waiting'
    BY <1>2, <1>3, <2>1, <2>3 DEF Waiting
  <2> QED
    BY <1>1, <1>4, <2>1, <2>2, <2>3, <2>4 DEF QueueInv
<1>5. CASE asked[t] # None /\ Head(queue) = t /\ queue' = Tail(queue)
  <2>1. t \in Range(q)
    BY <1>2, <1>5 DEF Waiting
  <2>2. q # <<>> /\ IsSequence(q)
    <3>1. q # <<>>
      BY <1>2, <2>1 DEF Range
    <3> QED
      BY <1>2, <3>1, SequenceOf
  <2>3. IsInjective(Tail(q)) /\ Range(Tail(q)) = Range(q) \ {Head(q)}
    BY <1>2, <2>2, InjectiveTail
  <2>4. Tail(q) \in Seq(Tasks)
    BY <1>2, <2>2
  <2>5. queue' = Tail(q) /\ Head(q) = t
    BY <1>1, <1>5
  <2> QED
    BY <1>2, <1>3, <2>3, <2>4, <2>5 DEF QueueInv
<1> QED
  BY <1>4, <1>5

LEMMA QueueStep ==
    ASSUME StateOK, QueueInv, [Next]_vars
    PROVE  QueueInv'
<1>1. ASSUME UNCHANGED <<queue, asked>> PROVE QueueInv'
  BY <1>1 DEF QueueInv, Waiting
<1>2. CASE UNCHANGED vars
  BY <1>1, <1>2 DEF vars
<1>3. None \notin {"query", "transaction", "rollback"}
  BY DatabaseAssumption
<1>4. ASSUME NEW t \in Tasks, Opens(t) \/ Write(t)
      PROVE  QueueInv'
  <2>1. \/ UNCHANGED <<queue, asked>>
        \/ Running(t) /\ \E what \in {"query", "transaction", "rollback"} : Ask(t, what)
    BY <1>4 DEF Opens, EnterScope, Begin, Dispatch, DispatchRollback, Write, MayOpen, Arrives
  <2>2. CASE Running(t) /\ \E what \in {"query", "transaction", "rollback"} : Ask(t, what)
    <3>1. PICK what \in {"query", "transaction", "rollback"} : Ask(t, what)
      BY <2>2
    <3>2. what # None
      BY <1>3
    <3> QED
      BY <2>2, <3>1, <3>2, AskQueue
  <2> QED
    BY <1>1, <2>1, <2>2
<1>5. ASSUME NEW t \in Tasks, Grant(t) \/ TimeOut(t) \/ Cancel(t)
      PROVE  QueueInv'
  <2>1. /\ asked' = [asked EXCEPT ![t] = None]
        /\ \/ queue' = Among(queue, Tasks \ {t})
           \/ asked[t] # None /\ Head(queue) = t /\ queue' = Tail(queue)
    BY <1>5 DEF Grant, TimeOut, Cancel
  <2> QED
    BY <2>1, LeaveQueue
<1>6. ASSUME NEW t \in Tasks, Clone(t) \/ Returns(t) \/ Finish(t)
      PROVE  QueueInv'
  BY <1>1, <1>6 DEF Clone, Returns, LeaveScope, LeaveStray, LeaveAlone, Finish
<1>7. ASSUME NEW x \in DOMAIN txs, StrayWrite(x) \/ DropStray(x)
      PROVE  QueueInv'
  BY <1>1, <1>7 DEF StrayWrite, DropStray
<1> QED
  BY <1>2, <1>4, <1>5, <1>6, <1>7 DEF Next

(***************************************************************************)
(* The state is well typed, and every task that waits for a connection is  *)
(* in the pool's queue, for any number of tasks and connections (db.rs as  *)
(* a whole, sqlx's pool).                                                  *)
(***************************************************************************)
THEOREM TypeCorrect == Spec => []TypeOK
<1>1. Init => ScopeInv /\ QueueInv
  BY ScopeInit, QueueInit
<1>2. ScopeInv /\ QueueInv /\ [Next]_vars => (ScopeInv /\ QueueInv)'
  <2>1. SUFFICES ASSUME ScopeInv, QueueInv, [Next]_vars PROVE (ScopeInv /\ QueueInv)'
    OBVIOUS
  <2>2. StateOK
    BY <2>1 DEF ScopeInv
  <2> QED
    BY <2>1, <2>2, ScopeStep, QueueStep
<1>3. ScopeInv /\ QueueInv => TypeOK
  BY QueueIsOK DEF ScopeInv, TypeOK
<1> QED
  BY <1>1, <1>2, <1>3, PTL DEF Spec

(***************************************************************************)
(* No query is sent through a transaction that has ended, and a            *)
(* transaction that is being ended is nobody else's (db.rs, transaction    *)
(* and rollback_scope: Arc::into_inner).                                   *)
(***************************************************************************)
THEOREM LiveHandles == Spec => []HandlesAreLive
<1>1. ASSUME ScopeInv
      PROVE  HandlesAreLive
  <2>1. ASSUME NEW t \in Tasks, NEW h \in HandlesOf(t), h # Pool
        PROVE  h \in Open /\ h[1] = t
    <3>1. StateOK /\ WellNested(t)
      BY <1>1 DEF ScopeInv
    <3>2. PICK i \in 1 .. Len(scopes[t]) : h = scopes[t][i].handle
      BY <3>1, HandlesAre
    <3> QED
      BY <2>1, <3>1, <3>2 DEF WellNested, FrameOK
  <2>2. ASSUME NEW t \in Tasks, ending[t] # None, NEW u \in Tasks
        PROVE  ending[t].tx \in Open \ strays /\ ending[t].tx \notin HandlesOf(u)
    <3>1. EndingOK(t) /\ ending[t].tx # Pool
      BY <1>1, <2>2, DatabaseAssumption DEF ScopeInv, EndingOK, Open, StateOK
    <3> QED
      BY <2>1, <2>2, <3>1 DEF EndingOK
  <2>3. strays \subseteq Open
    BY <1>1 DEF ScopeInv
  <2> QED
    BY <2>1, <2>2, <2>3 DEF HandlesAreLive
<1> QED
  BY <1>1, ScopeInit, ScopeStep, PTL DEF Spec

(***************************************************************************)
(* What a caller of transaction is told is so (db.rs, transaction).        *)
(***************************************************************************)
THEOREM TrueOutcomes == Spec => []OutcomesAreTrue
<1>1. ScopeInv => OutcomesAreTrue
  BY DEF ScopeInv
<1> QED
  BY <1>1, ScopeInit, ScopeStep, PTL DEF Spec
-----------------------------------------------------------------------------
(***************************************************************************)
(* Rollbacks                                                               *)
(***************************************************************************)
\* Everything a task enters inside a rollback_scope has its handle.
RollbackNested(t) ==
    \A i \in 1 .. Len(scopes[t]) : scopes[t][i].kind = "rollback" =>
        \A j \in i .. Len(scopes[t]) : scopes[t][j].handle = scopes[t][i].handle

OutermostWaits(t) == asked[t] \in {"transaction", "rollback"} => HandlesOf(t) \subseteq {Pool}

RollbackInv ==
    /\ ScopeInv
    /\ \A row \in rows : row.under =>
          row.handle \in DOMAIN txs /\ txs[row.handle].kind = "rollback"
    /\ \A x \in DOMAIN txs : txs[x].kind = "rollback" => txs[x].status # "committed"
    /\ \A t \in Tasks : RollbackNested(t) /\ OutermostWaits(t)

\* What a task writes inside a rollback_scope goes through its transaction.
LEMMA WrittenUnder ==
    ASSUME ScopeInv, NEW t \in Tasks, RollbackNested(t), Under(t)
    PROVE  Current(t) \in DOMAIN txs /\ txs[Current(t)].kind = "rollback"
<1>1. StateOK /\ WellNested(t)
  BY DEF ScopeInv
<1>2. DOMAIN scopes[t] = 1 .. Len(scopes[t])
  BY <1>1, LenProperties DEF StateOK
<1>3. PICK i \in 1 .. Len(scopes[t]) : scopes[t][i].kind = "rollback"
  BY <1>2 DEF Under, ToSet
<1>4. FrameOK(t, i)
  BY <1>1 DEF WellNested
<1>5. scopes[t][i].handle \in DOMAIN txs /\ txs[scopes[t][i].handle].kind = "rollback"
  BY <1>3, <1>4 DEF FrameOK, Open
<1>6. Len(scopes[t]) \in Nat /\ scopes[t] # <<>>
  BY <1>1, <1>3, HandlesAre, EmptySeq
<1>7. Current(t) = scopes[t][Len(scopes[t])].handle
  BY <1>1, <1>6, Innermost
<1>8. Len(scopes[t]) \in i .. Len(scopes[t])
  BY <1>6
<1>9. Current(t) = scopes[t][i].handle
  BY <1>3, <1>7, <1>8 DEF RollbackNested
<1> QED
  BY <1>5, <1>9

\* A task in none but the pool's scopes is in no rollback_scope.
LEMMA NoRollback ==
    ASSUME ScopeInv, NEW t \in Tasks, HandlesOf(t) \subseteq {Pool},
           NEW i \in 1 .. Len(scopes[t])
    PROVE  scopes[t][i].kind # "rollback"
<1>1. StateOK /\ FrameOK(t, i)
  BY DEF ScopeInv, WellNested
<1>2. scopes[t][i].handle = Pool
  BY <1>1, HandlesAre
<1> QED
  BY <1>1, <1>2 DEF FrameOK

LEMMA RollbackEnter ==
    ASSUME ScopeInv, NEW t \in Tasks, RollbackNested(t),
           NEW kind \in {"scope", "request", "transaction", "rollback"},
           NEW h \in Handles, Enter(t, kind, h),
           HandlesOf(t) \subseteq {Pool} \/ (scopes[t] # <<>> /\ h = Current(t) /\ kind = "request")
    PROVE  RollbackNested(t)'
<1> DEFINE n == Len(scopes[t])
<1>1. StateOK
  BY DEF ScopeInv
<1>2. /\ n \in Nat /\ Len(scopes'[t]) = n + 1
      /\ \A i \in 1 .. n : scopes'[t][i] = scopes[t][i]
      /\ scopes'[t][n + 1] = [kind |-> kind, handle |-> h]
  BY <1>1, Entered
<1>3. \A i \in 1 .. n : scopes[t][i].kind = "rollback" =>
         /\ \A j \in i .. n : scopes[t][j].handle = scopes[t][i].handle
         /\ h = scopes[t][i].handle
  <2>1. ASSUME NEW i \in 1 .. n, scopes[t][i].kind = "rollback"
        PROVE  h = scopes[t][i].handle
    <3>1. scopes[t] # <<>> /\ h = Current(t)
      BY <2>1, NoRollback
    <3>2. n \in i .. n /\ Current(t) = scopes[t][n].handle
      BY <1>1, <1>2, <3>1, Innermost
    <3> QED
      BY <2>1, <3>1, <3>2 DEF RollbackNested
  <2> QED
    BY <2>1 DEF RollbackNested
<1> HIDE DEF n
<1>4. scopes'[t][n + 1].handle = h
  BY <1>2
<1>5. SUFFICES ASSUME NEW i \in 1 .. n + 1, scopes'[t][i].kind = "rollback",
                      NEW j \in i .. n + 1
               PROVE  scopes'[t][j].handle = scopes'[t][i].handle
  BY <1>2 DEF RollbackNested
<1>6. CASE i = n + 1
  <2>1. j = n + 1
    BY <1>2, <1>6
  <2> QED
    BY <1>6, <2>1
<1>7. CASE i \in 1 .. n /\ j = n + 1
  BY <1>2, <1>3, <1>4, <1>5, <1>7
<1>8. CASE i \in 1 .. n /\ j \in i .. n
  <2>1. j \in 1 .. n
    BY <1>2, <1>8
  <2> QED
    BY <1>2, <1>3, <1>5, <1>8, <2>1
<1> QED
  BY <1>2, <1>6, <1>7, <1>8

LEMMA RollbackExit ==
    ASSUME ScopeInv, NEW t \in Tasks, RollbackNested(t), scopes[t] # <<>>, Exit(t)
    PROVE  RollbackNested(t)'
<1>1. StateOK
  BY DEF ScopeInv
<1>2. /\ scopes'[t] = Front(scopes[t]) /\ Len(scopes[t]) \in Nat
      /\ Len(scopes'[t]) = Len(scopes[t]) - 1
      /\ \A i \in 1 .. Len(scopes'[t]) : scopes'[t][i] = scopes[t][i]
  BY <1>1, Exited, Innermost
<1>3. SUFFICES ASSUME NEW i \in 1 .. Len(scopes'[t]), scopes'[t][i].kind = "rollback",
                      NEW j \in i .. Len(scopes'[t])
               PROVE  scopes'[t][j].handle = scopes'[t][i].handle
  BY DEF RollbackNested
<1>4. /\ i \in 1 .. Len(scopes[t]) /\ j \in i .. Len(scopes[t])
      /\ j \in 1 .. Len(scopes'[t])
  BY <1>2
<1>5. scopes[t][j].handle = scopes[t][i].handle
  BY <1>2, <1>3, <1>4 DEF RollbackNested
<1> QED
  BY <1>2, <1>4, <1>5

\* A step that keeps kinds, commits no rollback, and writes no row that would stay.
Reversible ==
    /\ \A x \in DOMAIN txs : x \in DOMAIN txs' /\ txs'[x].kind = txs[x].kind
    /\ \A x \in DOMAIN txs' : txs'[x].kind = "rollback" => txs'[x].status # "committed"
    /\ \A row \in rows' \ rows : row.under =>
          row.handle \in DOMAIN txs /\ txs[row.handle].kind = "rollback"

LEMMA ReversibleKept ==
    ASSUME RollbackInv, ScopeInv', Reversible,
           \A t \in Tasks : RollbackNested(t)' /\ OutermostWaits(t)'
    PROVE  RollbackInv'
BY DEF RollbackInv, Reversible

LEMMA SameScopes ==
    ASSUME RollbackInv, NEW t \in Tasks, scopes'[t] = scopes[t],
           asked'[t] \in {None, "query", asked[t]}
    PROVE  RollbackNested(t)' /\ OutermostWaits(t)'
<1>1. HandlesOf(t)' = HandlesOf(t)
  BY DEF HandlesOf
<1> QED
  BY <1>1, DatabaseAssumption DEF RollbackInv, RollbackNested, OutermostWaits

LEMMA RollbackStep ==
    ASSUME Nesting = FALSE, RollbackInv, [Next]_vars
    PROVE  RollbackInv'
<1>1. ScopeInv /\ ScopeInv' /\ StateOK
  BY ScopeStep DEF RollbackInv, ScopeInv
<1>2. ASSUME UNCHANGED <<txs, rows>>
      PROVE  Reversible
  BY <1>2 DEF RollbackInv, Reversible
<1>3. CASE UNCHANGED vars
  BY <1>1, <1>2, <1>3, SameScopes, ReversibleKept DEF vars
<1>4. ASSUME NEW t \in Tasks, NEW kind \in {"scope", "request"}, NEW h \in Handles,
             Enter(t, kind, h), Running(t), UNCHANGED <<asked, txs, rows>>,
             \/ HandlesOf(t) \subseteq {Pool}
             \/ scopes[t] # <<>> /\ h = Current(t) /\ kind = "request"
      PROVE  RollbackInv'
  <2>1. kind \in {"scope", "request", "transaction", "rollback"}
    OBVIOUS
  <2>2. RollbackNested(t)'
    BY <1>1, <1>4, <2>1, RollbackEnter DEF RollbackInv
  <2>3. OutermostWaits(t)'
    BY <1>4, DatabaseAssumption DEF Running, OutermostWaits
  <2>4. \A u \in Tasks \ {t} : RollbackNested(u)' /\ OutermostWaits(u)'
    <3>1. \A u \in Tasks \ {t} : scopes'[u] = scopes[u]
      BY <1>1, <1>4, <2>1, Entered
    <3> QED
      BY <1>4, <3>1, SameScopes
  <2> QED
    BY <1>1, <1>2, <1>4, <2>2, <2>3, <2>4, ReversibleKept
<1>5. ASSUME NEW t \in Tasks, NEW kind \in {"transaction", "rollback"}, Ask(t, kind),
             HandlesOf(t) \subseteq {Pool}, UNCHANGED <<scopes, txs, rows>>
      PROVE  RollbackInv'
  <2>1. RollbackNested(t)' /\ OutermostWaits(t)'
    BY <1>5 DEF RollbackInv, RollbackNested, OutermostWaits, HandlesOf
  <2>2. \A u \in Tasks \ {t} : asked'[u] = asked[u]
    BY <1>1, <1>5 DEF Ask, StateOK
  <2> QED
    BY <1>1, <1>2, <1>5, <2>1, <2>2, SameScopes, ReversibleKept
<1>6. ASSUME NEW t \in Tasks, Opens(t)
      PROVE  RollbackInv'
  <2>1. Pool \in Handles
    BY DEF Handles
  <2>2. CASE EnterScope(t)
    BY <1>4, <2>1, <2>2 DEF EnterScope, MayOpen
  <2>3. CASE Begin(t, "transaction") \/ Begin(t, "rollback")
    BY <1>5, <2>3 DEF Begin, MayOpen
  <2>4. scopes[t] = <<>> => HandlesOf(t) \subseteq {Pool}
    BY EmptySeq DEF HandlesOf, ToSet
  <2>5. CASE Dispatch(t)
    <3>1. CASE scopes[t] = <<>>
      BY <1>1, <1>4, <2>4, <2>5, <3>1, CurrentType DEF Dispatch, Arrives
    <3>2. CASE scopes[t] # <<>>
      <4>1. Joined(t) = Current(t) /\ Joined(t) \in Handles
        BY <1>1, <3>2, CurrentType, Innermost, DatabaseAssumption DEF Joined, Scopes
      <4> QED
        BY <1>4, <2>5, <3>2, <4>1 DEF Dispatch, Arrives
    <3> QED
      BY <3>1, <3>2
  <2>6. CASE DispatchRollback(t) /\ Current(t) = None
    <3>1. scopes[t] = <<>>
      BY <1>1, <2>6, Innermost, DatabaseAssumption DEF Scopes
    <3> QED
      BY <1>5, <2>4, <2>6, <3>1 DEF DispatchRollback, NothingInScope
  <2>7. CASE DispatchRollback(t) /\ Current(t) # None
    <3>1. scopes[t] # <<>> /\ Current(t) \in Handles
      BY <1>1, <2>7, CurrentType
    <3> QED
      BY <1>4, <2>7, <3>1 DEF DispatchRollback, Arrives, NothingInScope
  <2> QED
    BY <1>6, <2>2, <2>3, <2>5, <2>6, <2>7 DEF Opens
<1>7. ASSUME NEW t \in Tasks,
             \A u \in Tasks \ {t} : asked'[u] = asked[u], asked'[t] \in {None, "query", asked[t]},
             UNCHANGED <<scopes, txs>>, rows' \in {rows, rows \cup {RowOf(t)}}
      PROVE  RollbackInv'
  <2>1. RowOf(t).under =>
           RowOf(t).handle \in DOMAIN txs /\ txs[RowOf(t).handle].kind = "rollback"
    BY <1>1, WrittenUnder DEF RollbackInv, RowOf
  <2>2. Reversible
    BY <1>7, <2>1 DEF RollbackInv, Reversible
  <2> QED
    BY <1>1, <1>7, <2>2, SameScopes, ReversibleKept
<1>8. ASSUME NEW t \in Tasks, Write(t) \/ Clone(t) \/ TimeOut(t) \/ (Grant(t) /\ asked[t] = "query")
      PROVE  RollbackInv'
  <2>1. CASE Write(t)
    BY <1>1, <1>7, <2>1 DEF Write, Ask, StateOK
  <2>2. CASE Clone(t)
    BY <1>7, <2>2 DEF Clone
  <2>3. CASE TimeOut(t)
    BY <1>1, <1>7, <2>3 DEF TimeOut, StateOK
  <2>4. CASE Grant(t) /\ asked[t] = "query"
    BY <1>1, <1>7, <2>4 DEF Grant, StateOK
  <2> QED
    BY <1>8, <2>1, <2>2, <2>3, <2>4
<1>9. ASSUME NEW t \in Tasks, Grant(t), asked[t] # "query"
      PROVE  RollbackInv'
  <2> DEFINE x == <<t, tried[t]>>
  <2>1. asked[t] \in {"transaction", "rollback"} /\ x \in Transactions /\ x \in Handles
    BY <1>1, <1>9 DEF Grant, StateOK, Transactions, Handles
  <2>2. x \notin DOMAIN txs
    BY <1>1, <2>1 DEF ScopeInv, NamesApart, StateOK
  <2>3. /\ Enter(t, asked[t], x) /\ asked' = [asked EXCEPT ![t] = None] /\ UNCHANGED rows
        /\ DOMAIN txs' = DOMAIN txs \cup {x}
        /\ txs'[x] = [kind |-> asked[t], status |-> "open", told |-> "nothing"]
        /\ \A y \in DOMAIN txs : txs'[y] = txs[y]
    BY <1>9, <2>2 DEF Grant
  <2> HIDE DEF x
  <2>4. asked'[t] = None /\ \A u \in Tasks \ {t} : asked'[u] = asked[u]
    BY <1>1, <2>3 DEF StateOK
  <2>5. HandlesOf(t) \subseteq {Pool}
    BY <2>1 DEF RollbackInv, OutermostWaits
  <2>6. RollbackNested(t)'
    BY <1>1, <2>1, <2>3, <2>5, RollbackEnter DEF RollbackInv
  <2>7. OutermostWaits(t)'
    BY <2>4, DatabaseAssumption DEF OutermostWaits
  <2>8. \A u \in Tasks \ {t} : scopes'[u] = scopes[u]
    <3>1. asked[t] \in {"scope", "request", "transaction", "rollback"}
      BY <2>1
    <3>2. x \in Handles
      BY <2>1
    <3> QED
      BY <1>1, <2>3, <3>1, <3>2, Entered
  <2>9. Reversible
    BY <2>3 DEF RollbackInv, Reversible
  <2> QED
    BY <1>1, <2>4, <2>6, <2>7, <2>8, <2>9, SameScopes, ReversibleKept
<1>10. ASSUME NEW t \in Tasks, Returns(t)
       PROVE  RollbackInv'
  <2>1. /\ Exit(t) /\ scopes[t] # <<>> /\ asked[t] = None
        /\ UNCHANGED <<asked, rows>>
    BY <1>10 DEF Returns, LeaveScope, LeaveStray, LeaveAlone, Leaves, Running
  <2>2. \A u \in Tasks \ {t} : RollbackNested(u)' /\ OutermostWaits(u)'
    BY <1>1, <2>1, Exited, SameScopes
  <2>3. RollbackNested(t)' /\ OutermostWaits(t)'
    BY <1>1, <2>1, RollbackExit, DatabaseAssumption DEF RollbackInv, OutermostWaits
  <2>4. CASE UNCHANGED txs
    BY <1>1, <1>2, <2>1, <2>2, <2>3, <2>4, ReversibleKept
  <2>5. CASE LeaveStray(t)
    <3>1. txs' = [txs EXCEPT ![Current(t)].told = Told(Current(t), FALSE)]
      BY <2>5 DEF LeaveStray
    <3>2. DOMAIN txs' = DOMAIN txs
      BY <3>1
    <3>3. \A x \in DOMAIN txs : txs'[x].kind = txs[x].kind /\ txs'[x].status = txs[x].status
      BY <1>1, <3>1 DEF StateOK, Outcomes
    <3>4. Reversible
      BY <2>1, <3>2, <3>3 DEF RollbackInv, Reversible
    <3> QED
      BY <1>1, <2>2, <2>3, <3>4, ReversibleKept
  <2> QED
    BY <1>10, <2>4, <2>5 DEF Returns, LeaveScope, LeaveAlone
<1>11. ASSUME NEW t \in Tasks, Finish(t)
       PROVE  RollbackInv'
  <2> DEFINE x == ending[t].tx
  <2>1. PICK status \in {"committed", "undone"}, answer \in {"ok", "err", "unknown"} :
           /\ txs' = [txs EXCEPT ![x].status = status, ![x].told = answer]
           /\ status = "committed" => txs[x].kind = "transaction"
    BY <1>11 DEF Finish, Commits, Told
  <2>2. x \in DOMAIN txs
    BY <1>1, <1>11 DEF ScopeInv, EndingOK, Open, Finish
  <2> HIDE DEF x
  <2>3. txs'[x].kind = txs[x].kind /\ txs'[x].status = status
    <3>1. txs'[x] = [txs[x] EXCEPT !.status = status, !.told = answer]
      BY <2>1, <2>2
    <3>2. txs[x] \in Outcomes
      BY <1>1, <2>2 DEF StateOK
    <3> QED
      BY <3>1, <3>2 DEF Outcomes
  <2>4. DOMAIN txs' = DOMAIN txs /\ \A y \in DOMAIN txs \ {x} : txs'[y] = txs[y]
    BY <2>1
  <2>5. Reversible
    BY <1>11, <2>1, <2>2, <2>3, <2>4 DEF Finish, RollbackInv, Reversible
  <2> QED
    BY <1>1, <1>11, <2>5, SameScopes, ReversibleKept DEF Finish
<1>12. ASSUME NEW t \in Tasks, Cancel(t)
       PROVE  RollbackInv'
  <2>1. /\ scopes'[t] = <<>> /\ asked'[t] = None /\ UNCHANGED rows
        /\ \A u \in Tasks \ {t} : scopes'[u] = scopes[u] /\ asked'[u] = asked[u]
    BY <1>1, <1>12 DEF Cancel, StateOK
  <2>2. PICK result \in {"undone", "committed"} :
           txs' = [x \in DOMAIN txs |->
                     IF txs[x].status # "open" \/ x \in strays \/ x[1] # t THEN txs[x]
                     ELSE IF ending[t] # None /\ ending[t].tx = x /\ Commits(x, ending[t].ok)
                     THEN [txs[x] EXCEPT !.status = result]
                     ELSE [txs[x] EXCEPT !.status = "undone"]]
    BY <1>12 DEF Cancel
  <2>3. ASSUME NEW x \in DOMAIN txs
        PROVE  /\ txs'[x].kind = txs[x].kind
               /\ txs'[x].kind = "rollback" => txs'[x].status # "committed"
    <3>1. txs[x] \in Outcomes /\ (txs[x].kind = "rollback" => txs[x].status # "committed")
      BY <1>1 DEF StateOK, RollbackInv
    <3>2. \/ txs'[x] = txs[x]
          \/ txs'[x] = [txs[x] EXCEPT !.status = "undone"]
          \/ txs'[x] = [txs[x] EXCEPT !.status = result] /\ txs[x].kind = "transaction"
      BY <2>2 DEF Commits
    <3> QED
      BY <3>1, <3>2 DEF Outcomes
  <2>4. Reversible
    BY <2>1, <2>2, <2>3 DEF RollbackInv, Reversible
  <2>5. RollbackNested(t)' /\ OutermostWaits(t)'
    BY <2>1, EmptySeq, DatabaseAssumption DEF RollbackNested, OutermostWaits
  <2> QED
    BY <1>1, <2>1, <2>4, <2>5, SameScopes, ReversibleKept
<1>13. ASSUME NEW x \in DOMAIN txs, StrayWrite(x)
       PROVE  RollbackInv'
  <2>2. /\ UNCHANGED txs
        /\ \A row \in rows' \ rows : row = [handle |-> x, under |-> txs[x].kind = "rollback"]
    BY <1>13 DEF StrayWrite
  <2>3. \A row \in rows' \ rows : row.handle = x /\ (row.under => txs[x].kind = "rollback")
    <3>1. CASE txs[x].kind = "rollback"
      BY <2>2, <3>1
    <3>2. CASE txs[x].kind # "rollback"
      <4>1. (txs[x].kind = "rollback") = FALSE
        BY <3>2
      <4>2. \A row \in rows' \ rows : row = [handle |-> x, under |-> FALSE]
        BY <2>2, <4>1
      <4> QED
        BY <4>2
    <3> QED
      BY <3>1, <3>2
  <2>1. Reversible
    BY <2>2, <2>3 DEF RollbackInv, Reversible
  <2> QED
    BY <1>1, <1>13, <2>1, SameScopes, ReversibleKept DEF StrayWrite
<1>14. ASSUME NEW x \in DOMAIN txs, DropStray(x)
       PROVE  RollbackInv'
  <2>1. /\ DOMAIN txs' = DOMAIN txs
        /\ \A y \in DOMAIN txs : txs'[y] \in {txs[y], [txs[y] EXCEPT !.status = "undone"]}
    BY <1>14 DEF DropStray
  <2>2. ASSUME NEW y \in DOMAIN txs
        PROVE  /\ txs'[y].kind = txs[y].kind
               /\ txs'[y].kind = "rollback" => txs'[y].status # "committed"
    <3>1. txs[y] \in Outcomes /\ (txs[y].kind = "rollback" => txs[y].status # "committed")
      BY <1>1 DEF StateOK, RollbackInv
    <3>2. txs'[y] = txs[y] \/ txs'[y] = [txs[y] EXCEPT !.status = "undone"]
      BY <2>1
    <3> QED
      BY <3>1, <3>2 DEF Outcomes
  <2>3. Reversible
    BY <1>14, <2>1, <2>2 DEF DropStray, RollbackInv, Reversible
  <2> QED
    BY <1>1, <1>14, <2>3, SameScopes, ReversibleKept DEF DropStray
<1> QED
  BY <1>3, <1>6, <1>8, <1>9, <1>10, <1>11, <1>12, <1>13, <1>14 DEF Next

(***************************************************************************)
(* No row written inside a rollback_scope is ever visible outside (db.rs,  *)
(* rollback_scope: "always rolled back"), for any tasks and pool, as long  *)
(* as the application opens no scope inside a transaction.                 *)
(***************************************************************************)
THEOREM Rollback ==
    ASSUME Nesting = FALSE
    PROVE  Spec => []RollbackLeavesNothing
<1>1. Init => RollbackInv
  BY ScopeInit, EmptySeq, DatabaseAssumption DEF Init, RollbackInv, RollbackNested, OutermostWaits
<1>2. RollbackInv /\ [Next]_vars => RollbackInv'
  BY RollbackStep
<1>3. RollbackInv => RollbackLeavesNothing
  <2>1. Pool \notin Transactions
    BY DatabaseAssumption
  <2> QED
    BY <2>1 DEF RollbackInv, ScopeInv, StateOK, RollbackLeavesNothing, Visible
<1> QED
  BY <1>1, <1>2, <1>3, PTL DEF Spec
==============================================================================
