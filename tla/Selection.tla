----------------------------- MODULE Selection ------------------------------
(***************************************************************************)
(* Filtering, as the code does it everywhere: some of a sequence, in the   *)
(* order they were in (iter().filter in memory, WHERE and ORDER BY of a    *)
(* query).  A recursive function where SelectSeq takes an operator.        *)
(***************************************************************************)
EXTENDS Naturals, Sequences

\* The elements of a sequence that are in a set, in their order.
Among(seq, set) ==
    LET kept[i \in 0 .. Len(seq)] ==
            IF i = 0 THEN <<>>
            ELSE IF seq[i] \in set THEN Append(kept[i - 1], seq[i]) ELSE kept[i - 1]
    IN  kept[Len(seq)]
=============================================================================
