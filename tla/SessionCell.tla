----------------------------- MODULE SessionCell -----------------------------
(***************************************************************************)
(* What the session guard promises a client that sends one request at a    *)
(* time: one cell of values.  A request opens a copy of it with the flash  *)
(* moved on by one request, edits the copy, and writes it back whole or    *)
(* not at all; an answer that is lost may lose the cell but never shows an *)
(* older value.  No ids, cookies or entries here.                          *)
(***************************************************************************)
EXTENDS Session

CONSTANTS Clients, ClientOf

VARIABLES cell,   \* cell[c]: what the next request of c will find
          copy,   \* copy[r]: what request r works on
          ended,  \* ended[r]: r destroyed the session
          stage   \* idle, open, written, done or failed

cellVars == <<cell, copy, ended, stage>>

Alone(r) == \A q \in Requests :
    ClientOf[q] = ClientOf[r] => stage[q] \notin {"open", "written"}

Moved(d) == [d EXCEPT !.now = d.next, !.next = {}]

WithValue(d, k, w) == [d EXCEPT !.vals[k] = w]

\* What one operation can make of the data.
Edits(d, r) ==
    {WithValue(d, k, w) : k \in Keys, w \in {r, None}}
        \cup {[d EXCEPT !.next = @ \cup {r}], [d EXCEPT !.subject = r], EmptyData}

CellInit ==
    /\ cell = [c \in Clients |-> EmptyData]
    /\ copy = [r \in Requests |-> EmptyData]
    /\ ended = [r \in Requests |-> FALSE]
    /\ stage = [r \in Requests |-> "idle"]

Open(r) ==
    /\ stage[r] = "idle"
    /\ Alone(r)
    /\ stage' = [stage EXCEPT ![r] = "open"]
    /\ copy' = [copy EXCEPT ![r] = Moved(cell[ClientOf[r]])]
    /\ UNCHANGED <<cell, ended>>

Edit(r) ==
    /\ stage[r] = "open"
    /\ \E d \in Edits(copy[r], r) : copy' = [copy EXCEPT ![r] = d]
    /\ UNCHANGED <<cell, ended, stage>>

End(r) ==
    /\ stage[r] = "open"
    /\ copy' = [copy EXCEPT ![r] = EmptyData]
    /\ ended' = [ended EXCEPT ![r] = TRUE]
    /\ UNCHANGED <<cell, stage>>

Result(r) == IF ended[r] THEN EmptyData ELSE copy[r]

\* The write may be the answer itself (a cookie removed) or come before it.
WriteBack(r) ==
    /\ stage[r] = "open"
    /\ cell' = [cell EXCEPT ![ClientOf[r]] = Result(r)]
    /\ \E s \in {"written", "done"} : stage' = [stage EXCEPT ![r] = s]
    /\ UNCHANGED <<copy, ended>>

Answer(r) ==
    /\ stage[r] = "written"
    /\ stage' = [stage EXCEPT ![r] = "done"]
    /\ UNCHANGED <<cell, copy, ended>>

GiveUp(r) ==
    /\ stage[r] \in {"idle", "open"}
    /\ stage' = [stage EXCEPT ![r] = "failed"]
    /\ UNCHANGED <<cell, copy, ended>>

LoseAnswer(r) ==
    /\ stage[r] = "written"
    /\ stage' = [stage EXCEPT ![r] = "failed"]
    /\ cell' \in {cell, [cell EXCEPT ![ClientOf[r]] = EmptyData]}
    /\ UNCHANGED <<copy, ended>>

\* The server forgets everything and every request it was handling.
Reset ==
    /\ cell' = [c \in Clients |-> EmptyData]
    /\ \A r \in Requests :
          \/ stage'[r] = stage[r] /\ stage[r] \in {"idle", "done", "failed"}
          \/ stage'[r] = "failed" /\ stage[r] \in {"idle", "open", "written"}
    /\ stage' \in [Requests -> {"idle", "done", "failed"}]
    /\ UNCHANGED <<copy, ended>>

CellNext ==
    \/ Reset
    \/ \E r \in Requests :
          \/ Open(r) \/ Edit(r) \/ End(r) \/ WriteBack(r)
          \/ Answer(r) \/ GiveUp(r) \/ LoseAnswer(r)

CellSpec == CellInit /\ [][CellNext]_cellVars
==============================================================================
