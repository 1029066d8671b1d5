------------------------------ MODULE Database ------------------------------
(***************************************************************************)
(* The database in scope (crates/luxid-orm/src/db.rs): a task-local handle *)
(* that queries pick up, the scopes that set it (Db::scope, rollback_scope, *)
(* transaction), the middlewares that join or open one, and the pool whose *)
(* connections transactions hold until they end.                           *)
(*                                                                         *)
(* A task (a request or a test) is a stack of scopes and may wait for a    *)
(* connection; the pool serves waiting tasks in turn.  A transaction ends  *)
(* when rollback_scope or transaction ends it, or when the last clone of   *)
(* its handle is dropped; clones that live outside the scope are strays.   *)
(***************************************************************************)
EXTENDS Naturals, FiniteSets, SequencesExt, Selection

CONSTANTS Tasks,
          PoolSizes,   \* the numbers of connections a pool may have
          Pool,        \* Handle::Pool
          None,        \* no handle, or nothing asked of the pool
          Nesting,     \* whether the application opens scopes inside transactions
          MaxScopes    \* bound: MaxScopes[t] is how many scopes task t asks for

\* A transaction is named by the task that asked for it and its place.
Transactions == Tasks \X Nat

Handles == {Pool} \cup Transactions

ASSUME DatabaseAssumption ==
    /\ PoolSizes \subseteq Nat \ {0} /\ Nesting \in BOOLEAN
    /\ MaxScopes \in [Tasks -> Nat]
    /\ None \notin Handles \cup {"query", "transaction", "rollback"}
    /\ Pool \notin Transactions

VARIABLES size,   \* the connections of the pool: 1 for Db::in_memory
          scopes, \* scopes[t]: the scopes task t is in, innermost last
          asked,  \* asked[t]: what t needs a connection for, or None
          queue,  \* the tasks that wait for a connection, in order
          ending, \* ending[t]: the transaction t awaits the end of, or None
          tried,  \* tried[t]: how many scopes t has asked for
          strays, \* the transactions with a clone of their handle elsewhere
          txs,    \* txs[x]: what became of a transaction and what was told of it
          rows    \* every row written, with the handle it was written through

vars == <<size, scopes, asked, queue, ending, tried, strays, txs, rows>>

\* "request" is the scope of a request that WithDatabase put on the stack,
\* with the pool's handle or the one it joined.
Scopes == [kind : {"scope", "request", "transaction", "rollback"}, handle : Handles]

\* told: what the code that asked for the transaction was told of it; unknown
\* is the error of a commit that failed.
Outcomes == [kind   : {"transaction", "rollback"},
             status : {"open", "committed", "undone"},
             told   : {"nothing", "ok", "err", "unknown"}]

\* under: whether it was written inside a rollback_scope, however deep.
Rows == [handle : Handles, under : BOOLEAN]

QueueOK == queue \in Seq(Tasks) /\ ToSet(queue) = {t \in Tasks : asked[t] # None}

StateOK ==
    /\ size \in PoolSizes
    /\ scopes \in [Tasks -> Seq(Scopes)]
    /\ asked \in [Tasks -> {None, "query", "transaction", "rollback"}]
    /\ ending \in [Tasks -> {None} \cup [tx : Transactions, ok : BOOLEAN]]
    /\ tried \in [Tasks -> Nat]
    /\ DOMAIN txs \subseteq Transactions /\ \A x \in DOMAIN txs : txs[x] \in Outcomes
    /\ strays \subseteq DOMAIN txs
    /\ rows \subseteq Rows

TypeOK == QueueOK /\ StateOK

Init ==
    /\ size \in PoolSizes
    /\ scopes = [t \in Tasks |-> <<>>]
    /\ asked = [t \in Tasks |-> None]
    /\ queue = <<>>
    /\ ending = [t \in Tasks |-> None]
    /\ tried = [t \in Tasks |-> 0]
    /\ strays = {}
    /\ txs = [x \in {} |-> None]
    /\ rows = {}
-----------------------------------------------------------------------------
\* current(): the handle of the innermost scope.
Current(t) == IF scopes[t] = <<>> THEN None ELSE Last(scopes[t]).handle

Open == {x \in DOMAIN txs : txs[x].status = "open"}

Free == size - Cardinality(Open)

HandlesOf(t) == {s.handle : s \in ToSet(scopes[t])}

\* The task runs: it awaits neither a connection nor the end of a transaction.
Running(t) == asked[t] = None /\ ending[t] = None

\* The application opens a scope of its own.
MayOpen(t) ==
    /\ Running(t) /\ tried[t] < MaxScopes[t]
    /\ Nesting \/ HandlesOf(t) \subseteq {Pool}

Enter(t, kind, handle) ==
    scopes' = [scopes EXCEPT ![t] = Append(@, [kind |-> kind, handle |-> handle])]

Ask(t, what) ==
    /\ asked' = [asked EXCEPT ![t] = what]
    /\ queue' = Append(queue, t)

Tried(t) == tried' = [tried EXCEPT ![t] = @ + 1]

EnterScope(t) ==
    /\ MayOpen(t) /\ Tried(t)
    /\ Enter(t, "scope", Pool)
    /\ UNCHANGED <<size, asked, queue, ending, strays, txs, rows>>

\* transaction and rollback_scope.
Begin(t, kind) ==
    /\ MayOpen(t) /\ Tried(t)
    /\ Ask(t, kind)
    /\ UNCHANGED <<size, scopes, ending, strays, txs, rows>>

\* A request arrives in a test, or is the task itself.
Arrives(t) == Running(t) /\ tried[t] < MaxScopes[t] /\ Tried(t)

\* Mutants: the middleware does not look for a handle, or expects one.
PoolAlways(t) == Pool
JoinBlindly(t) == Current(t)

\* WithDatabase joins the handle in scope.
Joined(t) == IF Current(t) = None THEN Pool ELSE Current(t)

Dispatch(t) ==
    /\ Arrives(t)
    /\ Enter(t, "request", Joined(t))
    /\ UNCHANGED <<size, asked, queue, ending, strays, txs, rows>>

\* Mutant: WithRollbackDatabase opens a transaction whatever is in scope.
Anew(t) == TRUE

NothingInScope(t) == Current(t) = None

\* WithRollbackDatabase joins it too; with none in scope it opens one.
DispatchRollback(t) ==
    /\ Arrives(t)
    /\ IF NothingInScope(t)
       THEN Ask(t, "rollback") /\ UNCHANGED scopes
       ELSE Enter(t, "request", Current(t)) /\ UNCHANGED <<asked, queue>>
    /\ UNCHANGED <<size, ending, strays, txs, rows>>
-----------------------------------------------------------------------------
Under(t) == \E s \in ToSet(scopes[t]) : s.kind = "rollback"

RowOf(t) == [handle |-> Current(t), under |-> Under(t)]

\* A write through the handle in scope.  Through the pool's it needs a
\* connection; with none in scope it is an error.
Write(t) ==
    /\ Running(t) /\ Current(t) # None
    /\ IF Current(t) = Pool
       THEN Ask(t, "query") /\ UNCHANGED rows
       ELSE rows' = rows \cup {RowOf(t)} /\ UNCHANGED <<asked, queue>>
    /\ UNCHANGED <<size, scopes, ending, tried, strays, txs>>

\* The pool has a connection for the task that waits longest.
Grant(t) ==
    /\ asked[t] # None /\ Head(queue) = t /\ Free > 0
    /\ queue' = Tail(queue)
    /\ asked' = [asked EXCEPT ![t] = None]
    /\ IF asked[t] = "query"
       THEN rows' = rows \cup {RowOf(t)} /\ UNCHANGED <<scopes, txs>>
       ELSE LET x == <<t, tried[t]>>
            IN  /\ Enter(t, asked[t], x)
                /\ txs' = [y \in DOMAIN txs \cup {x} |->
                             IF y = x THEN [kind |-> asked[t], status |-> "open",
                                            told |-> "nothing"]
                             ELSE txs[y]]
                /\ UNCHANGED rows
    /\ UNCHANGED <<size, ending, tried, strays>>

\* The pool gives up after its acquire timeout: the query or `begin` fails.
TimeOut(t) ==
    /\ asked[t] # None /\ (Free = 0 \/ Head(queue) # t)
    /\ queue' = Among(queue, Tasks \ {t})
    /\ asked' = [asked EXCEPT ![t] = None]
    /\ UNCHANGED <<size, scopes, ending, tried, strays, txs, rows>>

\* Code in the scope stores a clone of the handle, or gives it to a task it
\* spawns; that code writes through it, and drops it.
Clone(t) ==
    /\ Running(t) /\ Current(t) \in DOMAIN txs
    /\ strays' = strays \cup {Current(t)}
    /\ UNCHANGED <<size, scopes, asked, queue, ending, tried, txs, rows>>

StrayWrite(x) ==
    /\ x \in strays
    /\ rows' = rows \cup {[handle |-> x, under |-> txs[x].kind = "rollback"]}
    /\ UNCHANGED <<size, scopes, asked, queue, ending, tried, strays, txs>>

\* Whether a clone of the handle of x is in a scope, or is being ended.
InScope(x) == \E t \in Tasks : x \in HandlesOf(t) \/ (ending[t] # None /\ ending[t].tx = x)

\* The last clone of an open transaction is dropped: it is rolled back.
DropStray(x) ==
    /\ x \in strays
    /\ strays' = strays \ {x}
    /\ txs' = IF InScope(x) THEN txs ELSE [txs EXCEPT ![x].status = "undone"]
    /\ UNCHANGED <<size, scopes, asked, queue, ending, tried, rows>>
-----------------------------------------------------------------------------
(***************************************************************************)
(* The work inside a scope returns                                         *)
(***************************************************************************)
Leaves(t) == Running(t) /\ scopes[t] # <<>>

Exit(t) == scopes' = [scopes EXCEPT ![t] = Front(@)]

LeaveScope(t) ==
    /\ Leaves(t) /\ Last(scopes[t]).kind \in {"scope", "request"}
    /\ Exit(t)
    /\ UNCHANGED <<size, asked, queue, ending, tried, strays, txs, rows>>

\* Mutant: a transaction commits however its work ended.
CommitsAnyway(x, ok) == txs[x].kind = "transaction"

Commits(x, ok) == txs[x].kind = "transaction" /\ ok

\* transaction returns what its work returned, rollback_scope hands it on as it is.
Told(x, ok) == IF txs[x].kind = "transaction" /\ ~ok THEN "err" ELSE "ok"

\* Mutant: the transaction is ended whoever else has its handle.
Unchecked(t) == TRUE

\* `into_inner` finds no other clone of the handle.
Sole(t) == Current(t) \notin strays

\* Commit or roll back, and await it.
LeaveAlone(t, ok) ==
    /\ Leaves(t) /\ Last(scopes[t]).kind \in {"transaction", "rollback"}
    /\ Sole(t)
    /\ Exit(t)
    /\ ending' = [ending EXCEPT ![t] = [tx |-> Current(t), ok |-> ok]]
    /\ UNCHANGED <<size, asked, queue, tried, strays, txs, rows>>

\* Another clone outlived the scope: transaction reports an error, and
\* rollback_scope skips the rollback.
LeaveStray(t) ==
    /\ Leaves(t) /\ Last(scopes[t]).kind \in {"transaction", "rollback"}
    /\ ~Sole(t)
    /\ Exit(t)
    /\ txs' = [txs EXCEPT ![Current(t)].told = Told(Current(t), FALSE)]
    /\ UNCHANGED <<size, asked, queue, ending, tried, strays, rows>>

\* The database has committed or rolled back.  Of a commit that failed the
\* application cannot know what became of it; a rollback that fails is an error
\* of rollback_scope, and made up for when the connection is dropped.
Finish(t) ==
    /\ ending[t] # None
    /\ LET x    == ending[t].tx
           told == Told(x, ending[t].ok)
           End(status, answer) == [txs EXCEPT ![x].status = status, ![x].told = answer]
       IN  txs' \in IF Commits(x, ending[t].ok)
                    THEN {End("committed", told), End("committed", "unknown"),
                          End("undone", "unknown")}
                    ELSE {End("undone", told), End("undone", "err")}
    /\ ending' = [ending EXCEPT ![t] = None]
    /\ UNCHANGED <<size, scopes, asked, queue, tried, strays, rows>>

\* The task is dropped at an await, or panics.  Its scopes drop their handles:
\* transactions without another clone are rolled back, and of one that was
\* committing nobody knows.
Cancel(t) ==
    /\ scopes[t] # <<>> \/ ~Running(t)
    /\ scopes' = [scopes EXCEPT ![t] = <<>>]
    /\ asked' = [asked EXCEPT ![t] = None]
    /\ queue' = Among(queue, Tasks \ {t})
    /\ ending' = [ending EXCEPT ![t] = None]
    /\ \E result \in {"undone", "committed"} :
          txs' = [x \in DOMAIN txs |->
                    IF txs[x].status # "open" \/ x \in strays \/ x[1] # t THEN txs[x]
                    ELSE IF ending[t] # None /\ ending[t].tx = x /\ Commits(x, ending[t].ok)
                    THEN [txs[x] EXCEPT !.status = result]
                    ELSE [txs[x] EXCEPT !.status = "undone"]]
    /\ UNCHANGED <<size, tried, strays, rows>>

Opens(t) ==
    \/ EnterScope(t) \/ Begin(t, "transaction") \/ Begin(t, "rollback")
    \/ Dispatch(t) \/ DispatchRollback(t)

Returns(t) == LeaveScope(t) \/ LeaveStray(t) \/ \E ok \in BOOLEAN : LeaveAlone(t, ok)

Next ==
    \/ \E t \in Tasks : \/ Opens(t) \/ Write(t) \/ Clone(t)
                        \/ Grant(t) \/ TimeOut(t)
                        \/ Returns(t) \/ Finish(t) \/ Cancel(t)
    \/ \E x \in DOMAIN txs : StrayWrite(x) \/ DropStray(x)

Spec == Init /\ [][Next]_vars

\* Work ends, the database answers, the pool serves who waits, and clones are
\* dropped.  Nobody has to time out or be cancelled.
FairSpec ==
    /\ Spec
    /\ \A t \in Tasks : WF_vars(Grant(t)) /\ WF_vars(Returns(t)) /\ WF_vars(Finish(t))
    /\ \A t \in Tasks : \A n \in 1 .. MaxScopes[t] : WF_vars(DropStray(<<t, n>>))
==============================================================================
