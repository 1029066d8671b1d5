------------------------------- MODULE Naming -------------------------------
(***************************************************************************)
(* The names a generator derives from the one the user typed.  A word is   *)
(* the snake-case spelling of a model, cut into tokens: an opaque stem      *)
(* followed by the letters the plural rules look at, as in                  *)
(* <<"categor", "y">>.  Only the part after the last underscore decides, so *)
(* the parts before it belong to the stem.                                  *)
(***************************************************************************)
EXTENDS Integers, Sequences, SequencesExt

EndsWith(word, ending) == IsSuffix(ending, word)

DropLast(word, n) == SubSeq(word, 1, Len(word) - n)

Vowels == {"a", "e", "i", "o", "u"}

\* A final y keeps its shape after a vowel and becomes ies elsewhere; a
\* sibilant takes es; everything else takes s.
Pluralize(word) ==
    LET stem == DropLast(word, 1)
        sibilant == \E e \in {<<"s">>, <<"s", "h">>, <<"c", "h">>, <<"x">>, <<"z">>} :
                        EndsWith(word, e)
    IN  IF EndsWith(word, <<"y">>) /\ (stem = <<>> \/ Last(stem) \notin Vowels)
        THEN stem \o <<"i", "e", "s">>
        ELSE IF sibilant THEN word \o <<"e", "s">> ELSE Append(word, "s")

\* The rule the command line uses for the factory of a table, and the one
\* the Model derive uses for the name of a model.  (trim_end_matches takes
\* every final "es", but what is left here ends in ss, sh or ch.)
Singular(table) ==
    IF EndsWith(table, <<"i", "e", "s">>) THEN Append(DropLast(table, 3), "y")
    ELSE IF \E e \in {<<"s", "s", "e", "s">>, <<"s", "h", "e", "s">>, <<"c", "h", "e", "s">>} :
                EndsWith(table, e)
         THEN DropLast(table, 2)
    ELSE IF EndsWith(table, <<"s", "s">>) THEN table
    ELSE IF EndsWith(table, <<"s">>) THEN DropLast(table, 1)
    ELSE table
=============================================================================
