--------------------------- MODULE SequenceLemmas ---------------------------
(***************************************************************************)
(* Induction over the members of a set of numbers, and what it shows of    *)
(* sequences and of the selections from them.                              *)
(***************************************************************************)
EXTENDS Selection, SequencesExt, SequenceTheorems, WellFoundedInduction, FiniteSetTheorems,
        TLAPS

-----------------------------------------------------------------------------
(***************************************************************************)
(* Induction, over the members of a set of numbers                         *)
(***************************************************************************)

\* Among the numbers of a set there is a least one: the initial segments of
\* the numbers are finite sets, ordered as the numbers are.
LEMMA LeastOfNumbers ==
    ASSUME NEW B \in SUBSET Nat, B # {}
    PROVE  \E m \in B : \A k \in B : m <= k
<1> DEFINE Segments == {0 .. n : n \in B}
<1>1. IsWellFoundedOn(StrictSubsetOrdering(Nat), FiniteSubsetsOf(Nat))
  BY FS_StrictSubsetOrderingWellFounded
<1>2. Segments \subseteq FiniteSubsetsOf(Nat) /\ Segments # {}
  <2>1. \A n \in B : IsFiniteSet(0 .. n) /\ 0 .. n \subseteq Nat
    BY FS_Interval
  <2> QED
    BY <2>1 DEF FiniteSubsetsOf
<1>3. PICK X \in Segments : \A Y \in Segments : <<Y, X>> \notin StrictSubsetOrdering(Nat)
  <2> HIDE DEF Segments
  <2> QED
    BY <1>1, <1>2, WFMin
<1>4. PICK m \in B : X = 0 .. m
  OBVIOUS
<1>5. ASSUME NEW k \in B, k < m PROVE FALSE
  <2>1. m \in 0 .. m /\ m \notin 0 .. k
    BY <1>5
  <2>2. 0 .. k \subseteq 0 .. m /\ 0 .. k # 0 .. m /\ 0 .. m \subseteq Nat
    BY <1>5, <2>1
  <2>3. 0 .. k \in Segments
    OBVIOUS
  <2> QED
    BY <1>3, <1>4, <2>2, <2>3 DEF StrictSubsetOrdering
<1> QED
  BY <1>5

\* A set that has 0 and, with each number, the next one, has them all.
LEMMA SetInduction ==
    ASSUME NEW S, 0 \in S, \A n \in Nat : n \in S => n + 1 \in S
    PROVE  Nat \subseteq S
<1> SUFFICES ASSUME Nat \ S # {} PROVE FALSE
  OBVIOUS
<1>1. PICK m \in Nat \ S : \A k \in Nat \ S : m <= k
  BY LeastOfNumbers
<1>2. m # 0 /\ m - 1 \in Nat /\ m - 1 \in S
  BY <1>1
<1>3. (m - 1) + 1 \in S
  BY <1>2
<1> QED
  BY <1>1, <1>3

-----------------------------------------------------------------------------
(***************************************************************************)
(* Sequences                                                               *)
(***************************************************************************)

IsSequence(s) == s \in Seq(Range(s))

LEMMA SequenceOf ==
    ASSUME NEW S, NEW s \in Seq(S)
    PROVE  IsSequence(s) /\ Range(s) \subseteq S /\ DOMAIN s = 1 .. Len(s) /\ Len(s) \in Nat
BY DEF Range, IsSequence

LEMMA ConcatSequence ==
    ASSUME NEW s, NEW t, IsSequence(s), IsSequence(t)
    PROVE  /\ IsSequence(s \o t)
           /\ Range(s \o t) = Range(s) \cup Range(t)
           /\ Len(s \o t) = Len(s) + Len(t)
           /\ Len(s) \in Nat /\ Len(t) \in Nat
           /\ \A i \in 1 .. Len(s) : (s \o t)[i] = s[i]
           /\ \A i \in 1 .. Len(t) : (s \o t)[Len(s) + i] = t[i]
<1> DEFINE S == Range(s) \cup Range(t)
<1>1. s \in Seq(S) /\ t \in Seq(S)
  BY DEF IsSequence
<1>2. s \o t \in Seq(S)
  BY <1>1
<1>3. /\ Len(s \o t) = Len(s) + Len(t)
      /\ Len(s) \in Nat /\ Len(t) \in Nat
      /\ \A i \in 1 .. Len(s) : (s \o t)[i] = s[i]
      /\ \A i \in 1 .. Len(t) : (s \o t)[Len(s) + i] = t[i]
  BY <1>1
<1>4. DOMAIN s = 1 .. Len(s) /\ DOMAIN t = 1 .. Len(t) /\ DOMAIN (s \o t) = 1 .. Len(s) + Len(t)
  BY <1>1, <1>2, <1>3
<1>5. Range(s \o t) \subseteq S
  BY <1>2, SequenceOf
<1>6. ASSUME NEW i \in 1 .. Len(t) PROVE t[i] \in Range(s \o t)
  <2>1. Len(s) + i \in DOMAIN (s \o t)
    BY <1>3, <1>4
  <2> QED
    BY <2>1, <1>3 DEF Range
<1>7. ASSUME NEW i \in 1 .. Len(s) PROVE s[i] \in Range(s \o t)
  <2>1. i \in DOMAIN (s \o t)
    BY <1>3, <1>4
  <2> QED
    BY <2>1, <1>3 DEF Range
<1>8. S \subseteq Range(s \o t)
  BY <1>4, <1>6, <1>7 DEF Range
<1> QED
  BY <1>2, <1>3, <1>5, <1>8, SequenceOf

LEMMA TailSequence ==
    ASSUME NEW s, IsSequence(s), s # <<>>
    PROVE  /\ IsSequence(Tail(s)) /\ Len(s) \in Nat \ {0}
           /\ DOMAIN s = 1 .. Len(s) /\ DOMAIN Tail(s) = 1 .. Len(s) - 1
           /\ Len(Tail(s)) = Len(s) - 1
           /\ \A i \in 1 .. Len(s) - 1 : Tail(s)[i] = s[i + 1]
           /\ Head(s) = s[1] /\ Head(s) \in Range(s)
           /\ Range(Tail(s)) \subseteq Range(s)
<1>1. /\ Tail(s) \in Seq(Range(s)) /\ Len(s) \in Nat \ {0}
      /\ Len(Tail(s)) = Len(s) - 1
      /\ \A i \in 1 .. Len(s) - 1 : Tail(s)[i] = s[i + 1]
      /\ Head(s) = s[1] /\ Head(s) \in Range(s)
  BY DEF IsSequence
<1> QED
  BY <1>1, SequenceOf DEF IsSequence

\* A line is put in, and taken out again.
LEMMA InsertAtSequence ==
    ASSUME NEW s, IsSequence(s), NEW i \in 1 .. Len(s), NEW x
    PROVE  /\ IsSequence(InsertAt(s, i, x))
           /\ Len(InsertAt(s, i, x)) = Len(s) + 1
           /\ \A j \in 1 .. Len(s) + 1 :
                 InsertAt(s, i, x)[j] = IF j < i THEN s[j] ELSE IF j = i THEN x ELSE s[j - 1]
           /\ Range(InsertAt(s, i, x)) = Range(s) \cup {x}
<1> DEFINE S == Range(s) \cup {x}
           t == InsertAt(s, i, x)
<1>1. s \in Seq(S) /\ x \in S
  BY DEF IsSequence
<1>2. /\ t \in Seq(S)
      /\ Len(t) = Len(s) + 1 /\ Len(s) \in Nat
      /\ \A j \in 1 .. Len(s) + 1 :
            t[j] = IF j < i THEN s[j] ELSE IF j = i THEN x ELSE s[j - 1]
  <2> HIDE DEF S
  <2> QED
    BY <1>1 DEF InsertAt
<1>3. IsSequence(t) /\ Range(t) \subseteq S /\ DOMAIN t = 1 .. Len(s) + 1
  <2> HIDE DEF S
  <2> QED
    BY <1>2, SequenceOf
<1>4. DOMAIN s = 1 .. Len(s)
  BY <1>1
<1>5. t[i] = x /\ i \in DOMAIN t
  BY <1>2, <1>3
<1>6. ASSUME NEW j \in 1 .. Len(s) PROVE s[j] \in Range(t)
  <2>1. CASE j < i
    <3>1. t[j] = s[j] /\ j \in DOMAIN t
      BY <1>2, <1>3, <2>1
    <3> QED
      BY <3>1 DEF Range
  <2>2. CASE ~ (j < i)
    <3>1. t[j + 1] = s[j] /\ j + 1 \in DOMAIN t
      BY <1>2, <1>3, <2>2
    <3> QED
      BY <3>1 DEF Range
  <2> QED
    BY <2>1, <2>2
<1>7. S \subseteq Range(t)
  BY <1>4, <1>5, <1>6 DEF Range
<1> QED
  BY <1>2, <1>3, <1>7

LEMMA RemoveAtSequence ==
    ASSUME NEW s, IsSequence(s), NEW i \in 1 .. Len(s)
    PROVE  /\ IsSequence(RemoveAt(s, i))
           /\ Len(RemoveAt(s, i)) = Len(s) - 1
           /\ \A j \in 1 .. Len(s) - 1 :
                 RemoveAt(s, i)[j] = IF j < i THEN s[j] ELSE s[j + 1]
           /\ Range(RemoveAt(s, i)) \subseteq Range(s)
<1> DEFINE S == Range(s)
           before == SubSeq(s, 1, i - 1)
           after == SubSeq(s, i + 1, Len(s))
<1>1. s \in Seq(S) /\ Len(s) \in Nat
  BY DEF IsSequence
<1> HIDE DEF S
<1>2. /\ before \in Seq(S) /\ Len(before) = i - 1
      /\ \A j \in 1 .. i - 1 : before[j] = s[j]
  BY <1>1
<1>3. /\ after \in Seq(S) /\ Len(after) = Len(s) - i
      /\ \A j \in 1 .. Len(s) - i : after[j] = s[i + j]
  BY <1>1, SubSeqProperties
<1>4. RemoveAt(s, i) = before \o after
  BY DEF RemoveAt
<1> HIDE DEF before, after
<1>5. /\ before \o after \in Seq(S)
      /\ Len(before \o after) = Len(s) - 1
      /\ \A j \in 1 .. Len(s) - 1 :
            (before \o after)[j] = IF j <= i - 1 THEN before[j] ELSE after[j - (i - 1)]
  BY <1>1, <1>2, <1>3, ConcatProperties
<1>6. ASSUME NEW j \in 1 .. Len(s) - 1
      PROVE  (before \o after)[j] = IF j < i THEN s[j] ELSE s[j + 1]
  BY <1>1, <1>2, <1>3, <1>5, <1>6
<1> QED
  BY <1>4, <1>5, <1>6, SequenceOf DEF S

LEMMA InsertThenRemove ==
    ASSUME NEW s, IsSequence(s), NEW i \in 1 .. Len(s), NEW x
    PROVE  RemoveAt(InsertAt(s, i, x), i) = s
<1> DEFINE t == InsertAt(s, i, x)
           u == RemoveAt(t, i)
<1>1. IsSequence(t) /\ Len(t) = Len(s) + 1 /\ Len(s) \in Nat /\ i \in 1 .. Len(t)
  BY InsertAtSequence DEF IsSequence
<1>2. /\ IsSequence(u) /\ Len(u) = Len(s)
      /\ \A j \in 1 .. Len(s) : u[j] = IF j < i THEN t[j] ELSE t[j + 1]
  <2> HIDE DEF t
  <2>1. /\ IsSequence(u) /\ Len(u) = Len(t) - 1
        /\ \A j \in 1 .. Len(t) - 1 : u[j] = IF j < i THEN t[j] ELSE t[j + 1]
    BY <1>1, RemoveAtSequence
  <2>2. Len(t) - 1 = Len(s)
    BY <1>1
  <2> QED
    BY <2>1, <2>2
<1>3. ASSUME NEW j \in 1 .. Len(s) PROVE u[j] = s[j]
  <2>1. CASE j < i
    <3>1. j \in 1 .. Len(s) + 1
      BY <1>1
    <3>2. t[j] = s[j]
      BY <2>1, <3>1, InsertAtSequence
    <3> QED
      BY <1>2, <2>1, <3>2
  <2>2. CASE ~ (j < i)
    <3>1. j + 1 \in 1 .. Len(s) + 1 /\ ~ (j + 1 < i) /\ j + 1 # i
      BY <1>1, <2>2
    <3>2. t[j + 1] = s[(j + 1) - 1]
      BY <3>1, InsertAtSequence
    <3>3. (j + 1) - 1 = j
      OBVIOUS
    <3> QED
      BY <1>2, <2>2, <3>2, <3>3
  <2> QED
    BY <2>1, <2>2
<1>4. u \in Seq(Range(u) \cup Range(s)) /\ s \in Seq(Range(u) \cup Range(s))
  BY <1>2 DEF IsSequence
<1> QED
  BY <1>2, <1>3, <1>4, SeqEqual

LEMMA AppendRange ==
    ASSUME NEW S, NEW s \in Seq(S), NEW x \in S
    PROVE  Range(Append(s, x)) = Range(s) \cup {x}
<1>1. /\ DOMAIN s = 1 .. Len(s) /\ DOMAIN Append(s, x) = 1 .. Len(s) + 1
      /\ Append(s, x)[Len(s) + 1] = x
      /\ \A i \in 1 .. Len(s) : Append(s, x)[i] = s[i]
      /\ Len(s) \in Nat
  OBVIOUS
<1>2. 1 .. Len(s) + 1 = (1 .. Len(s)) \cup {Len(s) + 1}
  BY <1>1
<1> QED
  BY <1>1, <1>2 DEF Range

\* A property of sequences, given as the set of those that have it, which the
\* empty one has and which an element more does not take away.
LEMMA SequenceInduction ==
    ASSUME NEW T, NEW M, <<>> \in M,
           \A s \in Seq(T), x \in T : s \in M => Append(s, x) \in M
    PROVE  Seq(T) \subseteq M
<1> DEFINE S == {n \in Nat : \A s \in Seq(T) : Len(s) = n => s \in M}
<1>1. 0 \in S
  <2>1. \A s \in Seq(T) : Len(s) = 0 => s = <<>>
    OBVIOUS
  <2> QED
    BY <2>1
<1>2. ASSUME NEW n \in Nat, n \in S PROVE n + 1 \in S
  <2>1. ASSUME NEW s \in Seq(T), Len(s) = n + 1 PROVE s \in M
    <3>1. s # <<>>
      BY <2>1
    <3>2. PICK r \in Seq(T), x \in T : s = Append(r, x)
      BY <3>1, SequenceEmptyOrAppend
    <3>3. Len(r) = n
      BY <2>1, <3>2, AppendProperties
    <3> QED
      BY <1>2, <3>2, <3>3
  <2> QED
    BY <2>1
<1>3. Nat \subseteq S
  <2> HIDE DEF S
  <2> QED
    BY <1>1, <1>2, SetInduction
<1>4. \A s \in Seq(T) : Len(s) \in Nat
  OBVIOUS
<1> QED
  BY <1>3, <1>4

-----------------------------------------------------------------------------
(***************************************************************************)
(* The elements of a sequence that are in a set                            *)
(***************************************************************************)

\* The function Among computes, up to some place.
Keeps(kept, seq, set, n) ==
    kept = [i \in 0 .. n |->
               IF i = 0 THEN <<>>
               ELSE IF seq[i] \in set THEN Append(kept[i - 1], seq[i]) ELSE kept[i - 1]]

LEMMA KeepsExists ==
    ASSUME NEW seq, NEW set, NEW n \in Nat
    PROVE  \E kept : Keeps(kept, seq, set, n)
<1> DEFINE S == {m \in Nat : \E kept : Keeps(kept, seq, set, m)}
<1>1. 0 \in S
  <2>1. Keeps([i \in 0 .. 0 |-> <<>>], seq, set, 0)
    BY DEF Keeps
  <2> QED
    BY <2>1
<1>2. ASSUME NEW m \in Nat, m \in S PROVE m + 1 \in S
  <2>1. PICK k : Keeps(k, seq, set, m)
    BY <1>2
  <2> DEFINE next == IF seq[m + 1] \in set THEN Append(k[m], seq[m + 1]) ELSE k[m]
             g == [i \in 0 .. m + 1 |-> IF i = m + 1 THEN next ELSE k[i]]
  <2>2. \A i \in 0 .. m : g[i] = k[i]
    OBVIOUS
  <2>3. \A i \in 1 .. m + 1 : i - 1 \in 0 .. m
    OBVIOUS
  <2>4. \A i \in 0 .. m + 1 :
           g[i] = IF i = 0 THEN <<>>
                  ELSE IF seq[i] \in set THEN Append(g[i - 1], seq[i]) ELSE g[i - 1]
    <3> TAKE i \in 0 .. m + 1
    <3>1. CASE i = m + 1
      <4>1. g[i] = next /\ g[i - 1] = k[m]
        BY <3>1, <2>2
      <4> HIDE DEF g
      <4> QED
        BY <3>1, <4>1
    <3>2. CASE i # m + 1
      <4>1. i \in 0 .. m /\ g[i] = k[i] /\ (i # 0 => g[i - 1] = k[i - 1])
        BY <3>2, <2>2
      <4> HIDE DEF g
      <4> QED
        BY <2>1, <4>1 DEF Keeps
    <3> QED
      BY <3>1, <3>2
  <2>5. Keeps(g, seq, set, m + 1)
    <3>1. DOMAIN g = 0 .. m + 1 /\ g = [i \in 0 .. m + 1 |-> g[i]]
      OBVIOUS
    <3> HIDE DEF g
    <3> QED
      BY <2>4, <3>1 DEF Keeps
  <2> QED
    BY <2>5
<1>3. Nat \subseteq S
  <2> HIDE DEF S
  <2> QED
    BY <1>1, <1>2, SetInduction
<1> QED
  BY <1>3

\* Two of them agree as far as both go.
LEMMA KeepsUnique ==
    ASSUME NEW s, NEW t, NEW set, NEW n \in Nat, NEW m \in Nat, NEW f, NEW g, n <= m,
           Keeps(f, s, set, n), Keeps(g, t, set, m), \A i \in 1 .. n : s[i] = t[i]
    PROVE  f[n] = g[n]
<1> DEFINE S == {i \in Nat : i <= n => f[i] = g[i]}
<1>1. 0 \in S
  BY DEF Keeps
<1>2. ASSUME NEW i \in Nat, i \in S PROVE i + 1 \in S
  <2>1. CASE i + 1 <= n
    <3>1. i + 1 \in 0 .. n /\ i + 1 \in 0 .. m /\ (i + 1) - 1 = i /\ i + 1 # 0
      BY <2>1
    <3>2. f[i] = g[i] /\ s[i + 1] = t[i + 1]
      BY <1>2, <2>1
    <3>3. f[i + 1] = IF s[i + 1] \in set THEN Append(f[i], s[i + 1]) ELSE f[i]
      BY <3>1 DEF Keeps
    <3>4. g[i + 1] = IF t[i + 1] \in set THEN Append(g[i], t[i + 1]) ELSE g[i]
      BY <3>1 DEF Keeps
    <3> QED
      BY <3>2, <3>3, <3>4
  <2> QED
    BY <2>1
<1>3. Nat \subseteq S
  <2> HIDE DEF S
  <2> QED
    BY <1>1, <1>2, SetInduction
<1> QED
  BY <1>3

LEMMA AmongKeeps ==
    ASSUME NEW seq, NEW set, Len(seq) \in Nat
    PROVE  \E kept : Keeps(kept, seq, set, Len(seq)) /\ Among(seq, set) = kept[Len(seq)]
<1> DEFINE kept == CHOOSE k : Keeps(k, seq, set, Len(seq))
<1>1. Keeps(kept, seq, set, Len(seq))
  BY KeepsExists
<1>2. Among(seq, set) = kept[Len(seq)]
  BY DEF Among, Keeps
<1> QED
  BY <1>1, <1>2

\* What Among computes, one element after the other.
LEMMA AmongEmpty ==
    ASSUME NEW set
    PROVE  Among(<<>>, set) = <<>>
<1>1. Len(<<>>) = 0
  OBVIOUS
<1>2. PICK k : Keeps(k, <<>>, set, 0) /\ Among(<<>>, set) = k[0]
  BY <1>1, AmongKeeps
<1> QED
  BY <1>2 DEF Keeps

LEMMA AmongAppend ==
    ASSUME NEW T, NEW s \in Seq(T), NEW x \in T, NEW set
    PROVE  Among(Append(s, x), set) =
              IF x \in set THEN Append(Among(s, set), x) ELSE Among(s, set)
<1> DEFINE t == Append(s, x)
           n == Len(s)
<1>2. n \in Nat /\ Len(t) = n + 1 /\ t[n + 1] = x /\ \A i \in 1 .. n : t[i] = s[i]
  BY AppendProperties
<1> HIDE DEF t, n
<1>3. PICK f : Keeps(f, s, set, n) /\ Among(s, set) = f[n]
  BY <1>2, AmongKeeps DEF n
<1>4. PICK g : Keeps(g, t, set, n + 1) /\ Among(t, set) = g[n + 1]
  BY <1>2, AmongKeeps
<1>5. f[n] = g[n]
  <2>1. \A i \in 1 .. n : s[i] = t[i]
    BY <1>2
  <2>2. n <= n + 1 /\ n + 1 \in Nat
    BY <1>2
  <2> QED
    BY <1>2, <1>3, <1>4, <2>1, <2>2, KeepsUnique
<1>6. g[n + 1] = IF t[n + 1] \in set THEN Append(g[n], t[n + 1]) ELSE g[n]
  <2>1. n + 1 \in 0 .. n + 1 /\ n + 1 # 0 /\ (n + 1) - 1 = n
    BY <1>2
  <2> QED
    BY <1>4, <2>1 DEF Keeps
<1>7. Among(t, set) = IF x \in set THEN Append(Among(s, set), x) ELSE Among(s, set)
  BY <1>2, <1>3, <1>4, <1>5, <1>6
<1> QED
  BY <1>7 DEF t

LEMMA AmongOne ==
    ASSUME NEW x, NEW set
    PROVE  Among(<<x>>, set) = IF x \in set THEN <<x>> ELSE <<>>
<1> DEFINE none == <<>>
<1>1. <<x>> = Append(none, x) /\ none \in Seq({x}) /\ x \in {x} /\ Among(none, set) = none
  BY AmongEmpty
<1> HIDE DEF none
<1>2. Among(Append(none, x), set) =
         IF x \in set THEN Append(Among(none, set), x) ELSE Among(none, set)
  BY <1>1, AmongAppend
<1>3. Among(<<x>>, set) = IF x \in set THEN <<x>> ELSE none
  BY <1>1, <1>2
<1> QED
  BY <1>3 DEF none

\* What is kept is a sequence of the elements that are in the set.
LEMMA AmongType ==
    ASSUME NEW T, NEW set
    PROVE  \A s \in Seq(T) : /\ Among(s, set) \in Seq(T)
                             /\ Range(Among(s, set)) = Range(s) \cap set
<1> DEFINE M == {s \in Seq(T) : /\ Among(s, set) \in Seq(T)
                                /\ Range(Among(s, set)) = Range(s) \cap set}
<1>1. <<>> \in M
  <2>1. Among(<<>>, set) = <<>> /\ <<>> \in Seq(T)
    BY AmongEmpty
  <2>2. Range(<<>>) = {}
    BY DEF Range
  <2> QED
    BY <2>1, <2>2
<1>2. ASSUME NEW s \in Seq(T), NEW x \in T, s \in M PROVE Append(s, x) \in M
  <2>1. Append(s, x) \in Seq(T)
    OBVIOUS
  <2>2. \A r \in Seq(T) : Range(Append(r, x)) = Range(r) \cup {x}
    BY AppendRange
  <2>3. CASE x \in set
    <3>1. Among(Append(s, x), set) = Append(Among(s, set), x)
      BY <2>3, AmongAppend
    <3>2. Among(s, set) \in Seq(T) /\ Range(Among(s, set)) = Range(s) \cap set
      BY <1>2
    <3> DEFINE a == Among(s, set)
    <3> HIDE DEF a
    <3>3. Append(a, x) \in Seq(T) /\ Range(Append(a, x)) = Range(a) \cup {x}
      BY <2>2, <3>2 DEF a
    <3>4. Range(Append(s, x)) = Range(s) \cup {x}
      BY <2>2
    <3> QED
      BY <2>1, <2>3, <3>1, <3>2, <3>3, <3>4 DEF a
  <2>4. CASE x \notin set
    <3>1. Among(Append(s, x), set) = Among(s, set)
      BY <2>4, AmongAppend
    <3> QED
      BY <1>2, <2>1, <2>2, <2>4, <3>1
  <2> QED
    BY <2>3, <2>4
<1> HIDE DEF M
<1>3. Seq(T) \subseteq M
  BY <1>1, <1>2, SequenceInduction
<1> QED
  BY <1>3 DEF M

\* Some of some of them.
LEMMA AmongAmong ==
    ASSUME NEW T, NEW few, NEW set
    PROVE  \A s \in Seq(T) : Among(Among(s, few), set) = Among(s, few \cap set)
<1> DEFINE both == few \cap set
           M == {s \in Seq(T) : Among(Among(s, few), set) = Among(s, both)}
<1> HIDE DEF both
<1>1. <<>> \in M
  BY AmongEmpty
<1>2. ASSUME NEW s \in Seq(T), NEW x \in T, s \in M PROVE Append(s, x) \in M
  <2>1. PICK some, kept : some = Among(s, few) /\ kept = Among(s, both)
    OBVIOUS
  <2>2. some \in Seq(T) /\ Among(some, set) = kept
    BY <1>2, <2>1, AmongType
  <2>3. /\ Among(Append(s, x), few) = IF x \in few THEN Append(some, x) ELSE some
        /\ Among(Append(s, x), both) = IF x \in both THEN Append(kept, x) ELSE kept
    <3>1. Among(Append(s, x), few) = IF x \in few THEN Append(Among(s, few), x) ELSE Among(s, few)
      BY <1>2, AmongAppend
    <3>2. Among(Append(s, x), both) = IF x \in both THEN Append(Among(s, both), x) ELSE Among(s, both)
      BY <1>2, AmongAppend
    <3> QED
      BY <2>1, <3>1, <3>2, Zenon
  <2>4. Among(Append(some, x), set) = IF x \in set THEN Append(kept, x) ELSE kept
    <3>1. Among(Append(some, x), set) =
             IF x \in set THEN Append(Among(some, set), x) ELSE Among(some, set)
      BY <2>2, AmongAppend
    <3> QED
      BY <2>2, <3>1
  <2>5. x \in both <=> x \in few /\ x \in set
    BY DEF both
  <2>6. Among(Among(Append(s, x), few), set) = Among(Append(s, x), both)
    <3>1. CASE x \in few
      BY <2>3, <2>4, <2>5, <3>1, Zenon
    <3>2. CASE x \notin few
      BY <2>2, <2>3, <2>5, <3>2, Zenon
    <3> QED
      BY <3>1, <3>2
  <2>7. Append(s, x) \in Seq(T)
    BY <1>2
  <2> QED
    BY <2>6, <2>7
<1> HIDE DEF M
<1>3. Seq(T) \subseteq M
  BY <1>1, <1>2, SequenceInduction
<1> QED
  BY <1>3 DEF M, both

\* Distinct elements stay distinct: one more, all but the first, some of them.
LEMMA InjectiveAppend ==
    ASSUME NEW T, NEW s \in Seq(T), NEW x \in T
    PROVE  IsInjective(Append(s, x)) <=> IsInjective(s) /\ x \notin Range(s)
<1> DEFINE t == Append(s, x)
           n == Len(s)
<1>1. /\ n \in Nat /\ DOMAIN s = 1 .. n /\ DOMAIN t = (1 .. n) \cup {n + 1}
      /\ t[n + 1] = x /\ \A i \in 1 .. n : t[i] = s[i] /\ i # n + 1
  OBVIOUS
<1> HIDE DEF t, n
<1>2. IsInjective(t) <=> IsInjective(s) /\ x \notin Range(s)
  BY <1>1 DEF IsInjective, Range
<1> QED
  BY <1>2 DEF t

LEMMA InjectiveTail ==
    ASSUME NEW s, IsSequence(s), s # <<>>, IsInjective(s)
    PROVE  IsInjective(Tail(s)) /\ Range(Tail(s)) = Range(s) \ {Head(s)}
<1> DEFINE t == Tail(s)
           n == Len(s)
<1>1. /\ n \in Nat \ {0} /\ DOMAIN s = 1 .. n /\ DOMAIN t = 1 .. n - 1
      /\ Head(s) = s[1] /\ \A i \in 1 .. n - 1 : t[i] = s[i + 1]
  BY TailSequence
<1>2. \A i \in 1 .. n - 1 : i + 1 \in 1 .. n /\ i + 1 # 1
  BY <1>1
<1>3. \A i \in 1 .. n : i # 1 => i - 1 \in 1 .. n - 1 /\ s[i] = t[i - 1]
  BY <1>1
<1> HIDE DEF t, n
<1>4. IsInjective(t)
  <2>1. ASSUME NEW i \in 1 .. n - 1, NEW j \in 1 .. n - 1, t[i] = t[j] PROVE i = j
    <3>1. i + 1 = j + 1
      BY <1>1, <1>2, <2>1 DEF IsInjective
    <3> QED
      BY <3>1
  <2> QED
    BY <1>1, <2>1 DEF IsInjective
<1>5. Range(t) = Range(s) \ {s[1]}
  <2>1. ASSUME NEW i \in 1 .. n - 1 PROVE t[i] \in Range(s) \ {s[1]}
    <3>1. i + 1 \in 1 .. n /\ 1 \in 1 .. n /\ i + 1 # 1 /\ t[i] = s[i + 1]
      BY <1>1, <1>2
    <3> QED
      BY <1>1, <3>1 DEF IsInjective, Range
  <2>2. ASSUME NEW i \in 1 .. n, s[i] # s[1] PROVE s[i] \in Range(t)
    BY <1>1, <1>3, <2>2 DEF Range
  <2> QED
    BY <1>1, <2>1, <2>2 DEF Range
<1> QED
  BY <1>1, <1>4, <1>5 DEF t

LEMMA AmongInjective ==
    ASSUME NEW T, NEW set
    PROVE  \A s \in Seq(T) : IsInjective(s) => IsInjective(Among(s, set))
<1> DEFINE M == {s \in Seq(T) : IsInjective(s) => IsInjective(Among(s, set))}
<1>1. <<>> \in M
  BY AmongEmpty
<1>2. ASSUME NEW s \in Seq(T), NEW x \in T, s \in M PROVE Append(s, x) \in M
  <2>1. SUFFICES ASSUME IsInjective(Append(s, x)) PROVE IsInjective(Among(Append(s, x), set))
    OBVIOUS
  <2>2. IsInjective(s) /\ x \notin Range(s)
    BY <2>1, InjectiveAppend
  <2>3. PICK kept : kept = Among(s, set)
    OBVIOUS
  <2>4. kept \in Seq(T) /\ Range(kept) \subseteq Range(s) /\ IsInjective(kept)
    BY <1>2, <2>2, <2>3, AmongType
  <2>5. IsInjective(Append(kept, x))
    BY <2>2, <2>4, InjectiveAppend
  <2> QED
    BY <2>3, <2>4, <2>5, AmongAppend
<1> HIDE DEF M
<1>3. Seq(T) \subseteq M
  BY <1>1, <1>2, SequenceInduction
<1> QED
  BY <1>3 DEF M

LEMMA AmongConcat ==
    ASSUME NEW T, NEW set, NEW s \in Seq(T)
    PROVE  \A t \in Seq(T) : Among(s \o t, set) = Among(s, set) \o Among(t, set)
<1> DEFINE M == {t \in Seq(T) : Among(s \o t, set) = Among(s, set) \o Among(t, set)}
<1>1. <<>> \in M
  <2>1. Among(<<>>, set) = <<>> /\ Among(s, set) \in Seq(T)
    BY AmongEmpty, AmongType
  <2> QED
    BY <2>1
<1>2. ASSUME NEW t \in Seq(T), NEW x \in T, t \in M PROVE Append(t, x) \in M
  <2>1. Append(t, x) \in Seq(T) /\ s \o t \in Seq(T)
    OBVIOUS
  <2>2. \A r, q \in Seq(T) : r \o Append(q, x) = Append(r \o q, x)
    OBVIOUS
  <2>3. Among(s, set) \in Seq(T) /\ Among(t, set) \in Seq(T)
    BY AmongType
  <2>4. CASE x \in set
    <3>1. Among(Append(t, x), set) = Append(Among(t, set), x)
      BY <2>4, AmongAppend
    <3>2. \A q \in Seq(T) : Among(Append(q, x), set) = Append(Among(q, set), x)
      BY <2>4, AmongAppend
    <3>3. Among(Append(s \o t, x), set) = Append(Among(s \o t, set), x)
      <4> DEFINE q == s \o t
      <4> HIDE DEF q
      <4>1. Among(Append(q, x), set) = Append(Among(q, set), x)
        BY <2>1, <3>2 DEF q
      <4> QED
        BY <4>1 DEF q
    <3>4. Among(s \o t, set) = Among(s, set) \o Among(t, set)
      BY <1>2
    <3>5. /\ s \o Append(t, x) = Append(s \o t, x)
          /\ Among(s, set) \o Append(Among(t, set), x) =
                Append(Among(s, set) \o Among(t, set), x)
      BY <2>2, <2>3
    <3>6. Among(s \o Append(t, x), set) = Among(s, set) \o Among(Append(t, x), set)
      BY <3>1, <3>3, <3>4, <3>5
    <3> QED
      BY <2>1, <3>6
  <2>5. CASE x \notin set
    <3>1. Among(Append(t, x), set) = Among(t, set)
      BY <2>5, AmongAppend
    <3>2. Among(Append(s \o t, x), set) = Among(s \o t, set)
      BY <2>1, <2>5, AmongAppend
    <3> QED
      BY <1>2, <2>1, <2>2, <2>3, <3>1, <3>2
  <2> QED
    BY <2>4, <2>5
<1> HIDE DEF M
<1>3. Seq(T) \subseteq M
  BY <1>1, <1>2, SequenceInduction
<1> QED
  BY <1>3 DEF M

\* A sequence of elements of the set is kept whole.
LEMMA AmongAll ==
    ASSUME NEW T, NEW set
    PROVE  \A s \in Seq(T) : Range(s) \subseteq set => Among(s, set) = s
<1> DEFINE M == {s \in Seq(T) : Range(s) \subseteq set => Among(s, set) = s}
<1>1. <<>> \in M
  BY AmongEmpty
<1>2. ASSUME NEW s \in Seq(T), NEW x \in T, s \in M PROVE Append(s, x) \in M
  <2>1. Append(s, x) \in Seq(T) /\ Range(Append(s, x)) = Range(s) \cup {x}
    BY AppendRange
  <2> QED
    BY <1>2, <2>1, AmongAppend
<1> HIDE DEF M
<1>3. Seq(T) \subseteq M
  BY <1>1, <1>2, SequenceInduction
<1> QED
  BY <1>3 DEF M

\* Of a sequence of others nothing is.
LEMMA AmongNone ==
    ASSUME NEW T, NEW set, NEW s \in Seq(T), Range(s) \cap set = {}
    PROVE  Among(s, set) = <<>>
<1>1. Among(s, set) \in Seq(T) /\ Range(Among(s, set)) = {}
  BY AmongType
<1>2. \A r \in Seq(T) : r # <<>> => r[1] \in Range(r)
  BY DEF Range
<1> QED
  BY <1>1, <1>2

\* The ones and the others of a sequence that has the ones first.
LEMMA AmongPrefix ==
    ASSUME NEW s, IsSequence(s), NEW set, NEW k \in 0 .. Len(s),
           \A i \in 1 .. Len(s) : s[i] \in set <=> i <= k
    PROVE  /\ Among(s, set) = SubSeq(s, 1, k)
           /\ Among(s, Range(s) \ set) = SubSeq(s, k + 1, Len(s))
<1> DEFINE T == Range(s)
           a == SubSeq(s, 1, k)
           b == SubSeq(s, k + 1, Len(s))
<1>1. s \in Seq(T) /\ Len(s) \in Nat
  BY DEF IsSequence
<1> HIDE DEF T
<1>2. /\ a \in Seq(T) /\ Len(a) = k /\ \A i \in 1 .. k : a[i] = s[i]
      /\ b \in Seq(T) /\ Len(b) = Len(s) - k /\ \A i \in 1 .. Len(s) - k : b[i] = s[k + i]
  BY <1>1, SubSeqProperties
<1>3. s = a \o b
  <2>1. SubSeq(s, 1, k) \o SubSeq(s, k + 1, Len(s)) = SubSeq(s, 1, Len(s))
    <3>1. 1 \in 1 .. Len(s) + 1 /\ k \in 1 - 1 .. Len(s) /\ Len(s) \in k .. Len(s)
      BY <1>1
    <3> QED
      BY <1>1, <3>1, ConcatAdjacentSubSeq
  <2> QED
    BY <1>1, <2>1, SubSeqFull
<1> HIDE DEF a, b
<1>4. Range(a) \subseteq T \cap set
  <2>1. \A i \in 1 .. k : i \in 1 .. Len(s) /\ i <= k
    BY <1>1
  <2>2. \A i \in 1 .. k : a[i] \in T \cap set
    BY <1>1, <1>2, <2>1
  <2>3. DOMAIN a = 1 .. k
    BY <1>2
  <2> QED
    BY <2>2, <2>3 DEF Range
<1>5. Range(b) \subseteq T \ set
  <2>1. \A i \in 1 .. Len(s) - k : k + i \in 1 .. Len(s) /\ ~ (k + i <= k)
    BY <1>1
  <2>2. ASSUME NEW i \in 1 .. Len(s) - k PROVE b[i] \in T \ set
    <3>1. b[i] = s[k + i] /\ k + i \in 1 .. Len(s)
      BY <1>2, <2>1
    <3>2. s[k + i] \in T
      BY <1>1, <3>1
    <3>3. s[k + i] \notin set
      BY <2>1, <3>1
    <3> QED
      BY <3>1, <3>2, <3>3
  <2>3. DOMAIN b = 1 .. Len(s) - k
    BY <1>2
  <2> QED
    BY <2>2, <2>3 DEF Range
<1>6. Among(s, set) = Among(a, set) \o Among(b, set)
  BY <1>2, <1>3, AmongConcat
<1>7. Among(a, set) = a /\ Among(b, set) = <<>>
  BY <1>2, <1>4, <1>5, AmongAll, AmongNone
<1>8. Among(s, T \ set) = Among(a, T \ set) \o Among(b, T \ set)
  BY <1>2, <1>3, AmongConcat
<1>9. Among(a, T \ set) = <<>> /\ Among(b, T \ set) = b
  <2>1. Range(a) \cap (T \ set) = {}
    BY <1>4
  <2> QED
    BY <1>2, <1>5, <2>1, AmongAll, AmongNone
<1>10. a \o <<>> = a /\ <<>> \o b = b
  BY <1>2
<1>11. Among(s, set) = a /\ Among(s, T \ set) = b
  BY <1>6, <1>7, <1>8, <1>9, <1>10
<1> QED
  BY <1>11 DEF T, a, b

\* An element more: kept where it belongs, or not seen.
LEMMA AmongInsertAt ==
    ASSUME NEW s, IsSequence(s), NEW i \in 1 .. Len(s), NEW x, NEW set
    PROVE  /\ x \notin set => Among(InsertAt(s, i, x), set) = Among(s, set)
           /\ x \in set /\ (\A j \in i .. Len(s) : s[j] \notin set)
                 => Among(InsertAt(s, i, x), set) = Append(Among(s, set), x)
<1> DEFINE T == Range(s) \cup {x}
           a == SubSeq(s, 1, i - 1)
           b == SubSeq(s, i, Len(s))
<1>1. s \in Seq(T) /\ Len(s) \in Nat /\ x \in T
  BY DEF IsSequence
<1> HIDE DEF T
<1>2. a \in Seq(T) /\ b \in Seq(T) /\ a \o <<x>> \in Seq(T) /\ <<x>> \in Seq(T)
  BY <1>1
<1>3. s = a \o b
  <2>1. s = a \o SubSeq(s, (i - 1) + 1, Len(s))
    BY <1>1, ConcatAdjacentSubSeq, SubSeqFull
  <2>2. (i - 1) + 1 = i
    OBVIOUS
  <2> QED
    BY <2>1, <2>2
<1>4. DOMAIN b = 1 .. Len(s) - i + 1 /\ \A j \in 1 .. Len(s) - i + 1 : b[j] = s[i + j - 1]
  BY <1>1
<1>5. InsertAt(s, i, x) = (a \o <<x>>) \o b
  BY DEF InsertAt
<1> HIDE DEF a, b
<1>6. Among(s, set) = Among(a, set) \o Among(b, set)
  BY <1>2, <1>3, AmongConcat
<1>7. Among(InsertAt(s, i, x), set) = (Among(a, set) \o Among(<<x>>, set)) \o Among(b, set)
  <2>1. PICK one : one = <<x>>
    OBVIOUS
  <2>2. one \in Seq(T)
    BY <1>2, <2>1
  <2>3. PICK ax : ax = a \o one
    OBVIOUS
  <2>4. ax \in Seq(T)
    BY <1>2, <2>2, <2>3
  <2>5. Among(a \o one, set) = Among(a, set) \o Among(one, set)
    BY <1>2, <2>2, AmongConcat
  <2>6. Among(ax \o b, set) = Among(ax, set) \o Among(b, set)
    BY <1>2, <2>4, AmongConcat
  <2> QED
    BY <1>5, <2>1, <2>3, <2>5, <2>6
<1>8. Among(a, set) \in Seq(T) /\ Among(b, set) \in Seq(T)
  BY <1>2, AmongType
<1>9. /\ x \notin set => Among(<<x>>, set) = <<>>
      /\ x \in set => Among(<<x>>, set) = <<x>>
  BY AmongOne
<1> DEFINE A == Among(a, set)
           B == Among(b, set)
<1>10. A \o <<>> = A /\ B \in Seq(T) /\ A \in Seq(T)
  BY <1>8
<1>11. CASE x \notin set
  <2>1. Among(<<x>>, set) = <<>>
    BY <1>9, <1>11
  <2> HIDE DEF A, B
  <2>2. Among(InsertAt(s, i, x), set) = (A \o <<>>) \o B
    BY <1>7, <2>1 DEF A, B
  <2>3. Among(s, set) = A \o B
    BY <1>6 DEF A, B
  <2> QED
    BY <1>11, <1>10, <2>2, <2>3
<1>12. CASE x \in set /\ \A j \in i .. Len(s) : s[j] \notin set
  <2>1. ASSUME NEW j \in DOMAIN b PROVE b[j] \notin set
    <3>1. b[j] = s[i + j - 1] /\ i + j - 1 \in i .. Len(s)
      BY <1>1, <1>4, <2>1
    <3> QED
      BY <1>12, <3>1
  <2>2. Among(b, set) = <<>>
    BY <1>2, <2>1, AmongNone DEF Range
  <2>3. Among(<<x>>, set) = <<x>>
    BY <1>9, <1>12
  <2> HIDE DEF A, B
  <2>4. Among(InsertAt(s, i, x), set) = (A \o <<x>>) \o <<>> /\ Among(s, set) = A \o <<>>
    BY <1>6, <1>7, <2>2, <2>3 DEF A
  <2>5. (A \o <<x>>) \o <<>> = Append(A, x)
    BY <1>1, <1>10
  <2>6. Among(InsertAt(s, i, x), set) = Append(Among(s, set), x)
    BY <1>10, <2>4, <2>5
  <2> QED
    BY <1>12, <2>6
<1> QED
  BY <1>11, <1>12

LEMMA AmongRemoveAt ==
    ASSUME NEW s, IsSequence(s), NEW i \in 1 .. Len(s), NEW set, s[i] \notin set
    PROVE  Among(RemoveAt(s, i), set) = Among(s, set)
<1> DEFINE T == Range(s)
           a == SubSeq(s, 1, i - 1)
           b == SubSeq(s, i + 1, Len(s))
<1>1. s \in Seq(T) /\ Len(s) \in Nat /\ s[i] \in T
  BY DEF IsSequence
<1> HIDE DEF T
<1>2. a \in Seq(T) /\ b \in Seq(T) /\ <<s[i]>> \in Seq(T) /\ a \o <<s[i]>> \in Seq(T)
  BY <1>1, SubSeqProperties
<1>3. s = (a \o <<s[i]>>) \o b
  <2>1. a \o <<s[i]>> = SubSeq(s, 1, i)
    BY <1>1, SubSeqRecursiveSecond
  <2>2. s = SubSeq(s, 1, i) \o b
    BY <1>1, ConcatAdjacentSubSeq, SubSeqFull
  <2> QED
    BY <2>1, <2>2
<1>4. RemoveAt(s, i) = a \o b
  BY DEF RemoveAt
<1> HIDE DEF a, b
<1>5. Among(<<s[i]>>, set) = <<>>
  BY AmongOne
<1>6. Among(s, set) = (Among(a, set) \o Among(<<s[i]>>, set)) \o Among(b, set)
  <2>1. PICK one : one = <<s[i]>>
    OBVIOUS
  <2>2. one \in Seq(T)
    BY <1>2, <2>1
  <2>3. PICK ax : ax = a \o one
    OBVIOUS
  <2>4. ax \in Seq(T)
    BY <1>2, <2>2, <2>3
  <2>5. Among(a \o one, set) = Among(a, set) \o Among(one, set)
    BY <1>2, <2>2, AmongConcat
  <2>6. Among(ax \o b, set) = Among(ax, set) \o Among(b, set)
    BY <1>2, <2>4, AmongConcat
  <2> QED
    BY <1>3, <2>1, <2>3, <2>5, <2>6
<1>7. Among(RemoveAt(s, i), set) = Among(a, set) \o Among(b, set)
  BY <1>2, <1>4, AmongConcat
<1>8. Among(a, set) \in Seq(T) /\ Among(b, set) \in Seq(T)
  BY <1>2, AmongType
<1> DEFINE A == Among(a, set)
           B == Among(b, set)
<1>9. A \o <<>> = A
  BY <1>8
<1>10. Among(s, set) = (A \o <<>>) \o B /\ Among(RemoveAt(s, i), set) = A \o B
  <2> HIDE DEF A, B
  <2> QED
    BY <1>5, <1>6, <1>7 DEF A, B
<1> QED
  BY <1>9, <1>10
-----------------------------------------------------------------------------
(***************************************************************************)
(* The sequences of a sequence, one after the other                        *)
(***************************************************************************)

\* The function FlattenSeq computes, up to some place.
Joins(joined, seqs, n) ==
    joined = [i \in 1 .. n |-> IF i = 1 THEN seqs[i] ELSE joined[i - 1] \o seqs[i]]

LEMMA JoinsExists ==
    ASSUME NEW seqs, NEW n \in Nat
    PROVE  \E joined : Joins(joined, seqs, n)
<1> DEFINE S == {m \in Nat : \E joined : Joins(joined, seqs, m)}
<1>1. 0 \in S
  <2>1. Joins([i \in 1 .. 0 |-> seqs[i]], seqs, 0)
    BY DEF Joins
  <2> QED
    BY <2>1
<1>2. ASSUME NEW m \in Nat, m \in S PROVE m + 1 \in S
  <2>1. PICK k : Joins(k, seqs, m)
    BY <1>2
  <2> DEFINE next == IF m = 0 THEN seqs[m + 1] ELSE k[m] \o seqs[m + 1]
             g == [i \in 1 .. m + 1 |-> IF i = m + 1 THEN next ELSE k[i]]
  <2>2. \A i \in 1 .. m : g[i] = k[i]
    OBVIOUS
  <2>3. \A i \in 1 .. m + 1 : g[i] = IF i = 1 THEN seqs[i] ELSE g[i - 1] \o seqs[i]
    <3> TAKE i \in 1 .. m + 1
    <3>1. CASE i = m + 1
      <4>1. g[i] = next /\ (i # 1 => g[i - 1] = k[m]) /\ (i = 1 <=> m = 0)
        BY <3>1, <2>2
      <4> HIDE DEF g
      <4> QED
        BY <3>1, <4>1
    <3>2. CASE i # m + 1
      <4>1. i \in 1 .. m /\ g[i] = k[i] /\ (i # 1 => g[i - 1] = k[i - 1])
        BY <3>2, <2>2
      <4> HIDE DEF g
      <4> QED
        BY <2>1, <4>1 DEF Joins
    <3> QED
      BY <3>1, <3>2
  <2>4. Joins(g, seqs, m + 1)
    <3>1. g = [i \in 1 .. m + 1 |-> g[i]]
      OBVIOUS
    <3> HIDE DEF g
    <3> QED
      BY <2>3, <3>1 DEF Joins
  <2> QED
    BY <2>4
<1>3. Nat \subseteq S
  <2> HIDE DEF S
  <2> QED
    BY <1>1, <1>2, SetInduction
<1> QED
  BY <1>3

\* What comes of it is a sequence of the elements of them all.
LEMMA FlattenSequence ==
    ASSUME NEW T, NEW seqs, NEW n \in Nat, Len(seqs) = n, n # 0,
           \A i \in 1 .. n : seqs[i] \in Seq(T)
    PROVE  /\ FlattenSeq(seqs) \in Seq(T)
           /\ Range(FlattenSeq(seqs)) = UNION {Range(seqs[i]) : i \in 1 .. n}
<1> DEFINE joined == CHOOSE f : Joins(f, seqs, n)
<1>1. Joins(joined, seqs, n)
  BY JoinsExists
<1>2. FlattenSeq(seqs) = joined[n]
  BY DEF FlattenSeq, Joins
<1> HIDE DEF joined
<1>3. \A i \in 1 .. n : joined[i] = IF i = 1 THEN seqs[i] ELSE joined[i - 1] \o seqs[i]
  BY <1>1 DEF Joins
<1> DEFINE Upto(m) == UNION {Range(seqs[i]) : i \in 1 .. m}
           S == {m \in Nat : m \in 1 .. n =>
                   joined[m] \in Seq(T) /\ Range(joined[m]) = Upto(m)}
<1>4. 0 \in S
  OBVIOUS
<1>5. ASSUME NEW m \in Nat, m \in S PROVE m + 1 \in S
  <2> SUFFICES ASSUME m + 1 \in 1 .. n
               PROVE  joined[m + 1] \in Seq(T) /\ Range(joined[m + 1]) = Upto(m + 1)
    OBVIOUS
  <2>1. CASE m = 0
    <3>1. joined[m + 1] = seqs[m + 1] /\ 1 .. m + 1 = {m + 1}
      BY <1>3, <2>1
    <3> QED
      BY <3>1
  <2>2. CASE m # 0
    <3>1. joined[m] \in Seq(T) /\ Range(joined[m]) = Upto(m)
      BY <1>5, <2>2
    <3>2. joined[m + 1] = joined[m] \o seqs[m + 1]
      <4>1. (m + 1) - 1 = m /\ m + 1 # 1
        BY <2>2
      <4> QED
        BY <1>3, <4>1
    <3>3. IsSequence(joined[m]) /\ IsSequence(seqs[m + 1])
      BY <3>1, SequenceOf
    <3>4. Range(joined[m + 1]) = Range(joined[m]) \cup Range(seqs[m + 1])
      BY <3>2, <3>3, ConcatSequence
    <3>5. 1 .. m + 1 = (1 .. m) \cup {m + 1}
      BY <2>2
    <3>6. joined[m + 1] \in Seq(T)
      BY <3>1, <3>2
    <3> QED
      BY <3>1, <3>4, <3>5, <3>6
  <2> QED
    BY <2>1, <2>2
<1>6. Nat \subseteq S
  <2> HIDE DEF S
  <2> QED
    BY <1>4, <1>5, SetInduction
<1>7. n \in S
  <2> HIDE DEF S
  <2> QED
    BY <1>6
<1>8. joined[n] \in Seq(T) /\ Range(joined[n]) = Upto(n)
  <2>1. n \in 1 .. n
    OBVIOUS
  <2> QED
    BY <1>7, <2>1
<1> QED
  BY <1>2, <1>8

=============================================================================
