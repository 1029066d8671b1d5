------------------------------ MODULE MCDatabase ------------------------------
(***************************************************************************)
(* The database scope with two tasks, say a test with requests inside it   *)
(* and a request of its own.                                               *)
(***************************************************************************)
EXTENDS DatabaseProperties

CONSTANTS first, second

\* One task opens a scope and another inside or after it, or is a test with a
\* request; the other opens one.
TwoAndOne == [t \in Tasks |-> IF t = first THEN 2 ELSE 1]
===============================================================================
