------------------------- MODULE DatabaseProperties -------------------------
(***************************************************************************)
(* What makes the database scope correct.                                  *)
(***************************************************************************)
EXTENDS Database

(***************************************************************************)
(* Tests leave nothing behind (db.rs, rollback_scope: "Run work inside a   *)
(* transaction that is always rolled back", "leave nothing behind"): no    *)
(* row written by code that runs inside a rollback_scope is ever visible   *)
(* outside of it, through whatever requests, scopes or transactions that   *)
(* code was called.                                                        *)
(***************************************************************************)
Visible(row) == row.handle = Pool \/ txs[row.handle].status = "committed"

RollbackLeavesNothing == \A row \in rows : row.under => ~Visible(row)

(***************************************************************************)
(* Outcomes are true (db.rs, transaction: "committing on Ok and rolling    *)
(* back on Err"): what a caller was told was committed is, and what it was *)
(* told an error of, by its own work or because a handle outlived the      *)
(* transaction, is not and never will be.                                  *)
(***************************************************************************)
OutcomesAreTrue ==
    \A x \in DOMAIN txs :
        /\ txs[x].told = "ok" /\ txs[x].kind = "transaction" => txs[x].status = "committed"
        /\ txs[x].told = "err" => txs[x].status # "committed"

(***************************************************************************)
(* Handles are live (db.rs, "a database handle outlived its transaction"): *)
(* no query can be sent through a transaction that has ended, and the      *)
(* transaction that is ended is nobody's any more.                         *)
(***************************************************************************)
HandlesAreLive ==
    /\ \A t \in Tasks : HandlesOf(t) \subseteq {Pool} \cup Open
    /\ strays \subseteq Open
    /\ \A t \in Tasks : ending[t] # None =>
          /\ ending[t].tx \in Open \ strays
          /\ \A u \in Tasks : ending[t].tx \notin HandlesOf(u)

(***************************************************************************)
(* Waits end (db.rs, WithDatabase: "with a single-connection pool it would *)
(* deadlock against the connection that transaction holds"): a task that   *)
(* waits for a connection gets one, without anybody having to time out.    *)
(***************************************************************************)
WaitsEnd == \A t \in Tasks : asked[t] # None ~> asked[t] = None
==============================================================================
