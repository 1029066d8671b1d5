--------------------------- MODULE ContainerProofs ---------------------------
(***************************************************************************)
(* Proofs about the container, for any types, registrations, threads and   *)
(* containers and any bounds.                                              *)
(***************************************************************************)
EXTENDS ContainerProperties, SequenceTheorems, TLAPS

-----------------------------------------------------------------------------
(***************************************************************************)
(* Sequences                                                               *)
(***************************************************************************)
LEMMA LastOf ==
    ASSUME NEW S, NEW s \in Seq(S), s # <<>>
    PROVE  /\ Len(s) \in Nat /\ Len(s) > 0
           /\ Last(s) = s[Len(s)] /\ Last(s) \in S
<1>1. Len(s) \in Nat \ {0}
  BY EmptySeq
<1> QED
  BY <1>1, ElementOfSeq DEF Last

LEMMA FrontOf ==
    ASSUME NEW S, NEW s \in Seq(S), s # <<>>
    PROVE  /\ Front(s) \in Seq(S)
           /\ Len(Front(s)) = Len(s) - 1
           /\ \A i \in 1 .. Len(Front(s)) : Front(s)[i] = s[i]
<1>1. Len(s) \in Nat \ {0}
  BY EmptySeq
<1>2. \A i \in 1 .. Len(s) - 1 : s[i] \in S
  BY <1>1, ElementOfSeq
<1> DEFINE n == Len(s) - 1
<1>3. n \in Int /\ n >= 0
  BY <1>1
<1> HIDE DEF n
<1>4. /\ SubSeq(s, 1, n) \in Seq(S)
      /\ Len(SubSeq(s, 1, n)) = IF 1 <= n THEN n - 1 + 1 ELSE 0
      /\ \A i \in 1 .. n - 1 + 1 : SubSeq(s, 1, n)[i] = s[1 + i - 1]
  BY <1>2, <1>3, SubSeqProperties DEF n
<1>5. Len(SubSeq(s, 1, n)) = n
  BY <1>3, <1>4
<1>6. \A i \in 1 .. n : SubSeq(s, 1, n)[i] = s[i]
  BY <1>3, <1>4
<1> QED
  BY <1>4, <1>5, <1>6 DEF Front, n

\* Resuming the caller counts one more dependency and changes no frame's type.
LEMMA ResumedFrames ==
    ASSUME NEW s \in Seq(Frames)
    PROVE  /\ Resumed(s) \in Seq(Frames)
           /\ Len(Resumed(s)) = Len(s)
           /\ \A i \in 1 .. Len(s) : Resumed(s)[i].type = s[i].type
<1>1. CASE s = <<>>
  BY <1>1, EmptySeq DEF Resumed
<1>2. CASE s # <<>>
  <2> DEFINE n == Len(s)
             e == [s[n] EXCEPT !.done = @ + 1]
  <2>1. n \in Nat /\ n > 0 /\ n \in 1 .. Len(s) /\ s[n] \in Frames
    BY <1>2, LastOf
  <2>2. e \in Frames /\ e.type = s[n].type
    BY <2>1 DEF Frames
  <2>3. Resumed(s) = [s EXCEPT ![n] = e]
    BY <1>2 DEF Resumed
  <2> HIDE DEF n, e
  <2>4. /\ [s EXCEPT ![n] = e] \in Seq(Frames)
        /\ Len([s EXCEPT ![n] = e]) = Len(s)
        /\ \A j \in 1 .. Len(s) : [s EXCEPT ![n] = e][j] = IF j = n THEN e ELSE s[j]
    BY <2>1, <2>2, ExceptSeq
  <2> QED
    BY <2>2, <2>3, <2>4
<1> QED
  BY <1>1, <1>2

-----------------------------------------------------------------------------
(***************************************************************************)
(* Types.  A frame's registration exists, because what is resolved is      *)
(* registered and registration ends before the first resolution.           *)
(***************************************************************************)
FramesBound ==
    \A t \in Threads : \A i \in 1 .. Len(stack[t]) :
        stack[t][i].type \in DOMAIN registrations

Untouched ==
    phase = "assembling" => (\A t \in Threads : Idle(t)) /\ handed = {}

TypeInv == TypeOK /\ FramesBound /\ Untouched

LEMMA RegistrationType ==
    ASSUME TypeOK, NEW k \in DOMAIN registrations
    PROVE  /\ registrations[k] \in Registrations
           /\ Lifetime(k) \in Lifetimes
           /\ registrations[k].deps \in Seq(Types)
BY ContainerAssumption DEF TypeOK, Registrations, Lifetime

LEMMA TopType ==
    ASSUME TypeInv, NEW t \in Threads, stack[t] # <<>>
    PROVE  /\ Top(t) \in Frames
           /\ Top(t).type \in DOMAIN registrations
           /\ Recipe(t).deps \in Seq(Types)
           /\ Len(stack[t]) \in Nat /\ Len(stack[t]) > 0
           /\ Top(t) = stack[t][Len(stack[t])]
<1>1. stack[t] \in Seq(Frames)
  BY DEF TypeInv, TypeOK
<1>2. Len(stack[t]) \in Nat /\ Len(stack[t]) > 0 /\ Top(t) = stack[t][Len(stack[t])]
      /\ Top(t) \in Frames
  BY <1>1, LastOf DEF Top
<1>3. Top(t).type \in DOMAIN registrations
  BY <1>2 DEF TypeInv, FramesBound
<1> QED
  BY <1>2, <1>3, RegistrationType DEF TypeInv, Recipe

LEMMA CacheType ==
    ASSUME TypeInv, NEW t \in Threads, NEW k \in DOMAIN registrations
    PROVE  Cache(CachedBy(t, k))
<1>1. Lifetime(k) \in Lifetimes /\ scope[t] \in Scopes
  BY RegistrationType DEF TypeInv, TypeOK
<1> QED
  BY <1>1 DEF TypeInv, TypeOK, Cache, CachedBy, Lifetimes

LEMMA PublishedType ==
    ASSUME NEW f, Cache(f), NEW k \in Types, NEW i \in Instances
    PROVE  /\ Cache(Published(f, k, i))
           /\ Published(f, k, i)[k] \in Instances
           /\ k \in DOMAIN Published(f, k, i)
BY DEF Cache, Published, With

LEMMA TypeInit == Init => TypeInv
<1> SUFFICES ASSUME Init PROVE TypeInv
  OBVIOUS
<1>1. <<>> \in Seq(DOMAIN registrations) /\ <<>> \in Seq(Frames) /\ <<>> \in Seq(Types)
  BY EmptySeq
<1>2. TypeOK
  BY <1>1, ContainerAssumption DEF Init, TypeOK, Cache, Instances, IsInjective
<1> QED
  BY <1>2, EmptySeq DEF Init, TypeInv, FramesBound, Untouched, Idle

LEMMA TypeRegister ==
    ASSUME TypeInv, NEW g \in Recipes, Register(g)
    PROVE  TypeInv'
<1> DEFINE D == DOMAIN registrations
           E == D \cup {g.type}
<1>1. g.type \in Types
  BY ContainerAssumption DEF Registrations
<1>2. /\ DOMAIN registrations' = E
      /\ \A k \in E : registrations'[k] = IF k = g.type THEN g ELSE registrations[k]
  BY DEF Register, With
<1>3. order \in Seq(D) /\ order \in Seq(E) /\ IsInjective(order)
  BY SeqMonotonic DEF TypeInv, TypeOK
<1>4. order' \in Seq(E) /\ IsInjective(order')
  <2>1. CASE g.type \in D
    BY <1>3, <2>1 DEF Register
  <2>2. CASE g.type \notin D
    <3>1. order' = Append(order, g.type)
      BY <2>2 DEF Register
    <3>2. /\ Append(order, g.type) \in Seq(E)
          /\ Len(Append(order, g.type)) = Len(order) + 1
          /\ \A i \in 1 .. Len(order) : Append(order, g.type)[i] = order[i]
          /\ Append(order, g.type)[Len(order) + 1] = g.type
      BY <1>3, AppendProperties
    <3>3. /\ Len(order) \in Nat /\ DOMAIN order = 1 .. Len(order)
          /\ DOMAIN Append(order, g.type) = 1 .. Len(order) + 1
      BY <1>3, <3>2, LenProperties
    <3>4. \A i \in 1 .. Len(order) : order[i] # g.type
      BY <1>3, <2>2, ElementOfSeq
    <3>5. \A a, b \in 1 .. Len(order) : order[a] = order[b] => a = b
      BY <1>3, <3>3 DEF IsInjective
    <3>6. \A a \in 1 .. Len(order) + 1 : a \in 1 .. Len(order) \/ a = Len(order) + 1
      BY <3>3
    <3>7. IsInjective(order')
      BY <3>1, <3>2, <3>3, <3>4, <3>5, <3>6 DEF IsInjective
    <3> QED
      BY <3>1, <3>2, <3>7
  <2> QED
    BY <2>1, <2>2
<1>5. TypeOK'
  BY <1>1, <1>2, <1>4
  DEF TypeInv, TypeOK, Register, Cache, caches, threadVars, history
<1>6. FramesBound' /\ Untouched'
  BY <1>2 DEF TypeInv, FramesBound, Untouched, Register, Idle, caches, threadVars, history
<1> QED
  BY <1>5, <1>6 DEF TypeInv

LEMMA TypeBoot ==
    ASSUME TypeInv, Build \/ BootNext \/ Booted
    PROVE  TypeInv'
<1> USE DEF TypeInv, caches, threadVars, history
<1>1. CASE Build
  <2>1. order' \in Seq(DOMAIN registrations) /\ IsInjective(order')
    <3>1. <<>> \in Seq(DOMAIN registrations) /\ IsInjective(<<>>)
      BY EmptySeq DEF IsInjective
    <3> QED
      BY <1>1, <3>1 DEF Build, TypeOK
  <2> QED
    BY <1>1, <2>1 DEF Build, TypeOK, Cache, FramesBound, Untouched, Idle
<1>2. CASE BootNext
  <2>1. order \in Seq(DOMAIN registrations) /\ order # <<>>
    BY <1>2 DEF BootNext, TypeOK
  <2>2. /\ Head(order) \in DOMAIN registrations
        /\ Tail(order) \in Seq(DOMAIN registrations)
        /\ Len(Tail(order)) = Len(order) - 1
        /\ \A i \in 1 .. Len(Tail(order)) : Tail(order)[i] = order[i + 1]
        /\ Len(order) \in Nat /\ DOMAIN order = 1 .. Len(order)
        /\ DOMAIN Tail(order) = 1 .. Len(Tail(order))
    BY <2>1, HeadTailProperties, LenProperties
  <2>3. \A a, b \in 1 .. Len(order) : order[a] = order[b] => a = b
    BY <2>2 DEF TypeOK, IsInjective
  <2>4. \A a \in 1 .. Len(Tail(order)) : a \in Nat /\ a + 1 \in 1 .. Len(order)
    BY <2>2
  <2>5. IsInjective(Tail(order))
    <3> SUFFICES ASSUME NEW a \in DOMAIN Tail(order), NEW b \in DOMAIN Tail(order),
                        Tail(order)[a] = Tail(order)[b]
                 PROVE  a = b
      BY DEF IsInjective
    <3>1. order[a + 1] = order[b + 1] /\ a + 1 \in 1 .. Len(order) /\ b + 1 \in 1 .. Len(order)
      BY <2>2, <2>4
    <3> QED
      BY <3>1, <2>2, <2>3, <2>4
  <2>6. goal' \in [Threads -> Types \cup {None}]
    BY <1>2, <2>2 DEF BootNext, TypeOK
  <2> QED
    BY <1>2, <2>2, <2>5, <2>6 DEF BootNext, TypeOK, Cache, FramesBound, Untouched, Idle
<1>3. CASE Booted
  BY <1>3 DEF Booted, TypeOK, Cache, FramesBound, Untouched, Idle
<1> QED
  BY <1>1, <1>2, <1>3

\* The steps that push and pop no frame.
LEMMA TypeLookUp ==
    ASSUME TypeInv, NEW t \in Threads,
           Begin(t) \/ Missing(t) \/ Hit(t) \/ Cycle(t) \/ Depend(t) \/ DoWithout(t) \/ Report(t)
    PROVE  TypeInv'
<1> USE DEF TypeInv, caches, threadVars, history
<1>1. CASE Begin(t)
  <2>1. PICK s \in Scopes, k \in Types :
            scope' = [scope EXCEPT ![t] = s] /\ goal' = [goal EXCEPT ![t] = k]
    BY <1>1 DEF Begin
  <2>2. /\ scope' \in [Threads -> Scopes]
        /\ goal' \in [Threads -> Types \cup {None}]
        /\ calls' \in [Threads -> Nat]
    BY <1>1, <2>1 DEF Begin, TypeOK
  <2>3. phase # "assembling"
    BY <1>1 DEF Begin, Serving
  <2> QED
    BY <1>1, <2>2, <2>3 DEF Begin, TypeOK, Cache, FramesBound, Untouched
<1>2. CASE Missing(t)
  BY <1>2 DEF Missing, Resolving, TypeOK, Cache, FramesBound, Untouched, Idle
<1>3. CASE Cycle(t)
  BY <1>3 DEF Cycle, Resolving, TypeOK, Cache, FramesBound, Untouched, Idle
<1>4. CASE Report(t)
  BY <1>4 DEF Report, AfterFailure, TypeOK, Cache, FramesBound, Untouched, Idle
<1>5. CASE Depend(t)
  <2>1. Top(t).done + 1 \in 1 .. Len(Recipe(t).deps)
    BY <1>5, TopType, LenProperties DEF Depend, Working, Frames
  <2>2. goal'[t] \in Types /\ goal' \in [Threads -> Types \cup {None}]
    BY <1>5, <2>1, TopType, ElementOfSeq DEF Depend, Working, TypeOK
  <2> QED
    BY <1>5, <2>2 DEF Depend, Working, TypeOK, Cache, FramesBound, Untouched, Idle
<1>6. CASE Hit(t) \/ DoWithout(t)
  <2>1. stack[t] \in Seq(Frames)
    BY DEF TypeOK
  <2>2. /\ stack' = [stack EXCEPT ![t] = Resumed(@)]
        /\ UNCHANGED <<registrations, order, phase, caches, scope, chain, calls, built, panicked>>
    BY <1>6 DEF Hit, DoWithout
  <2>3. /\ stack' \in [Threads -> Seq(Frames)]
        /\ FramesBound'
    BY <2>1, <2>2, ResumedFrames DEF TypeOK, FramesBound
  <2>4. phase # "assembling"
    BY <1>6 DEF Hit, DoWithout, Resolving, Untouched, Idle
  <2>5. CASE Hit(t)
    <3>1. /\ goal[t] \in DOMAIN registrations
          /\ goal[t] \in DOMAIN CachedBy(t, goal[t])
      BY <2>5 DEF Hit, Uncached
    <3>2. <<scope[t], goal[t], CachedBy(t, goal[t])[goal[t]]>>
              \in Scopes \X Types \X Instances
      BY <3>1, CacheType DEF Cache, TypeOK
    <3> HIDE DEF CachedBy
    <3> QED
      BY <2>2, <2>3, <2>4, <2>5, <3>2 DEF Hit, TypeOK, Cache, Untouched
  <2>6. CASE DoWithout(t)
    BY <2>2, <2>3, <2>4, <2>6 DEF DoWithout, TypeOK, Cache, Untouched
  <2> QED
    BY <1>6, <2>5, <2>6
<1> QED
  BY <1>1, <1>2, <1>3, <1>4, <1>5, <1>6

LEMMA FramesReplaced ==
    ASSUME TypeInv, NEW t \in Threads, NEW s \in Seq(Frames),
           \A i \in 1 .. Len(s) : s[i].type \in DOMAIN registrations,
           stack' = [stack EXCEPT ![t] = s], registrations' = registrations
    PROVE  FramesBound' /\ stack' \in [Threads -> Seq(Frames)]
<1>1. stack'[t] = s /\ \A u \in Threads \ {t} : stack'[u] = stack[u]
  BY DEF TypeInv, TypeOK
<1> QED
  BY <1>1 DEF TypeInv, TypeOK, FramesBound

\* The steps that push or pop frames.
LEMMA TypeCall ==
    ASSUME TypeInv, NEW t \in Threads,
           Invoke(t) \/ Publish(t) \/ Unwind(t) \/ Panic(t)
    PROVE  TypeInv'
<1> USE DEF TypeInv, caches, threadVars, history
<1>0. /\ stack[t] \in Seq(Frames) /\ chain[t] \in Seq(Types)
      /\ phase # "assembling"
  BY DEF TypeOK, Untouched, Idle, Invoke, Publish, Unwind, Panic, Resolving, Working
<1>1. CASE Invoke(t)
  <2> DEFINE f == [type |-> goal[t], done |-> 0]
  <2>1. f \in Frames /\ f.type \in DOMAIN registrations /\ goal[t] \in Types
    BY <1>1 DEF Invoke, Uncached, TypeOK, Frames
  <2> HIDE DEF f
  <2>2. /\ Append(stack[t], f) \in Seq(Frames)
        /\ Len(Append(stack[t], f)) = Len(stack[t]) + 1
        /\ \A i \in 1 .. Len(stack[t]) : Append(stack[t], f)[i] = stack[t][i]
        /\ Append(stack[t], f)[Len(stack[t]) + 1] = f
        /\ Len(stack[t]) \in Nat
    BY <1>0, <2>1, AppendProperties, LenProperties
  <2>3. Append(chain[t], goal[t]) \in Seq(Types)
    BY <1>0, <2>1, AppendProperties
  <2>4. stack' = [stack EXCEPT ![t] = Append(stack[t], f)]
    BY <1>1 DEF Invoke, f
  <2>5. \A i \in 1 .. Len(Append(stack[t], f)) :
            Append(stack[t], f)[i].type \in DOMAIN registrations
    <3> SUFFICES ASSUME NEW i \in 1 .. Len(stack[t]) + 1
                 PROVE  Append(stack[t], f)[i].type \in DOMAIN registrations
      BY <2>2
    <3>1. i \in 1 .. Len(stack[t]) \/ i = Len(stack[t]) + 1
      BY <2>2
    <3> QED
      BY <2>1, <2>2, <3>1 DEF FramesBound
  <2>6. FramesBound' /\ stack' \in [Threads -> Seq(Frames)]
    BY <1>1, <2>2, <2>4, <2>5, FramesReplaced DEF Invoke
  <2>7. TypeOK'
    BY <1>1, <2>3, <2>6 DEF Invoke, TypeOK, Cache
  <2> QED
    BY <1>0, <1>1, <2>6, <2>7 DEF Invoke, Untouched
<1>2. CASE Publish(t)
  <2> DEFINE k == Top(t).type
             new == <<t, built[t]>>
             fs == Published(CachedBy(t, k), k, new)
  <2>1. stack[t] # <<>>
    BY <1>2 DEF Publish, Working
  <2>2. k \in DOMAIN registrations /\ k \in Types /\ new \in Instances
    BY <2>1, TopType DEF TypeOK, Instances
  <2>3. /\ Front(stack[t]) \in Seq(Frames)
        /\ Len(Front(stack[t])) = Len(stack[t]) - 1
        /\ \A i \in 1 .. Len(Front(stack[t])) : Front(stack[t])[i] = stack[t][i]
        /\ Len(stack[t]) \in Nat
    BY <1>0, <2>1, FrontOf, LenProperties
  <2>4. /\ Resumed(Front(stack[t])) \in Seq(Frames)
        /\ Len(Resumed(Front(stack[t]))) = Len(stack[t]) - 1
        /\ \A i \in 1 .. Len(stack[t]) - 1 :
              Resumed(Front(stack[t]))[i].type = stack[t][i].type
    BY <2>3, ResumedFrames
  <2>5. Cache(fs) /\ fs[k] \in Instances
    BY <2>2, CacheType, PublishedType
  <2> HIDE DEF fs, k, new
  <2>6. /\ built' = [built EXCEPT ![t] = @ + 1]
        /\ chain' = [chain EXCEPT ![t] = Front(@)]
        /\ stack' = [stack EXCEPT ![t] = Resumed(Front(@))]
        /\ singletons' = IF Lifetime(k) = "singleton" THEN fs ELSE singletons
        /\ scoped' = IF Lifetime(k) = "scoped" THEN [scoped EXCEPT ![scope[t]] = fs]
                     ELSE scoped
        /\ handed' = handed \cup {<<scope[t], k, fs[k]>>}
        /\ UNCHANGED <<registrations, order, phase, scope, goal, failing, calls,
                       panicked>>
    BY <1>2 DEF Publish, fs, k, new
  <2>7. FramesBound' /\ stack' \in [Threads -> Seq(Frames)]
    <3>1. \A i \in 1 .. Len(stack[t]) - 1 : i \in 1 .. Len(stack[t])
      BY <2>3
    <3>2. \A i \in 1 .. Len(Resumed(Front(stack[t]))) :
              Resumed(Front(stack[t]))[i].type \in DOMAIN registrations
      BY <2>4, <3>1 DEF FramesBound
    <3> QED
      BY <2>4, <2>6, <3>2, FramesReplaced
  <2>8. chain' \in [Threads -> Seq(Types)]
    <3>1. CASE chain[t] # <<>>
      BY <1>0, <2>6, <3>1, FrontOf DEF TypeOK
    <3>2. CASE chain[t] = <<>>
      <4>1. Front(<<>>) = <<>>
        BY EmptySeq, SubSeqEmpty DEF Front
      <4> QED
        BY <1>0, <2>6, <3>2, <4>1 DEF TypeOK
    <3> QED
      BY <3>1, <3>2
  <2>9. /\ Cache(singletons)' /\ DOMAIN scoped' = Scopes
        /\ \A s \in Scopes : Cache(scoped'[s])
    BY <2>5, <2>6 DEF TypeOK, Cache
  <2>10. /\ handed' \subseteq Scopes \X Types \X Instances
         /\ built' \in [Threads -> Nat]
    BY <2>2, <2>5, <2>6 DEF TypeOK
  <2>11. TypeOK'
    BY <2>6, <2>7, <2>8, <2>9, <2>10 DEF TypeOK, Cache
  <2> QED
    BY <1>0, <2>6, <2>7, <2>11 DEF Untouched
<1>3. CASE Unwind(t) \/ Panic(t)
  <2>1. stack[t] # <<>>
    BY <1>3 DEF Unwind, Panic, Working
  <2>2. /\ Front(stack[t]) \in Seq(Frames) /\ <<>> \in Seq(Frames)
        /\ Len(Front(stack[t])) = Len(stack[t]) - 1
        /\ \A i \in 1 .. Len(Front(stack[t])) : Front(stack[t])[i] = stack[t][i]
        /\ Len(stack[t]) \in Nat /\ Len(<<>>) = 0
    BY <1>0, <2>1, FrontOf, LenProperties, EmptySeq
  <2>3. Front(chain[t]) \in Seq(Types)
    BY <1>0, FrontOf, EmptySeq, SubSeqEmpty DEF Front
  <2>4. stack' = [stack EXCEPT ![t] = Front(@)] \/ stack' = [stack EXCEPT ![t] = <<>>]
    BY <1>3 DEF Unwind, Panic
  <2>5. /\ FramesBound' /\ stack' \in [Threads -> Seq(Frames)]
    <3>1. \A i \in 1 .. Len(stack[t]) - 1 : i \in 1 .. Len(stack[t])
      BY <2>2
    <3>2. /\ \A i \in 1 .. Len(Front(stack[t])) :
                Front(stack[t])[i].type \in DOMAIN registrations
          /\ \A i \in 1 .. Len(<<>>) : <<>>[i].type \in DOMAIN registrations
      BY <2>2, <3>1 DEF FramesBound
    <3>3. registrations' = registrations
      BY <1>3 DEF Unwind, Panic
    <3> QED
      BY <2>2, <2>4, <3>2, <3>3, FramesReplaced
  <2>6. TypeOK'
    <3>1. CASE Unwind(t)
      BY <2>3, <2>5, <3>1 DEF Unwind, TypeOK, Cache
    <3>2. CASE Panic(t)
      BY <2>5, <3>2 DEF Panic, AfterFailure, TypeOK, Cache
    <3> QED
      BY <1>3, <3>1, <3>2
  <2> QED
    BY <1>0, <1>3, <2>5, <2>6 DEF Unwind, Panic, AfterFailure, Untouched
<1> QED
  BY <1>1, <1>2, <1>3

LEMMA TypeInductive == Spec => []TypeInv
<1>1. TypeInv /\ [Next]_vars => TypeInv'
  <2> SUFFICES ASSUME TypeInv, [Next]_vars PROVE TypeInv'
    OBVIOUS
  <2>1. CASE UNCHANGED vars
    BY <2>1 DEF TypeInv, TypeOK, FramesBound, Untouched, Idle, Cache, vars, caches,
                threadVars, history
  <2>2. CASE Next
    BY <2>2, TypeRegister, TypeBoot, TypeLookUp, TypeCall DEF Next, Resolve
  <2> QED
    BY <2>1, <2>2
<1> QED
  BY <1>1, TypeInit, PTL DEF Spec

(***************************************************************************)
(* Type correctness of the container, for any providers and any number of  *)
(* threads and containers: what the caches, the stacks and the chains hold. *)
(***************************************************************************)
THEOREM TypeCorrect == Spec => []TypeOK
<1>1. TypeInv => TypeOK
  BY DEF TypeInv
<1> QED
  BY <1>1, TypeInductive, PTL

-----------------------------------------------------------------------------
(***************************************************************************)
(* Identity.  An instance is returned only from the cache of its service,  *)
(* and a cache never forgets or replaces what it holds; what it takes in   *)
(* was just built, so no other container holds it.                         *)
(***************************************************************************)
AlreadyBuilt(i) == i[2] < built[i[1]]

Held == /\ \A k \in DOMAIN singletons : AlreadyBuilt(singletons[k])
        /\ \A s \in Scopes : \A k \in DOMAIN scoped[s] : AlreadyBuilt(scoped[s][k])

ScopesApart ==
    \A s, u \in Scopes : s # u =>
        \A k \in DOMAIN scoped[s] \cap DOMAIN scoped[u] : scoped[s][k] # scoped[u][k]

HandedFromCache(h) ==
    /\ h[2] \in DOMAIN registrations
    /\ Lifetime(h[2]) = "singleton" =>
          h[2] \in DOMAIN singletons /\ h[3] = singletons[h[2]]
    /\ Lifetime(h[2]) = "scoped" =>
          h[2] \in DOMAIN scoped[h[1]] /\ h[3] = scoped[h[1]][h[2]]

CacheInv ==
    Held /\ ScopesApart /\ \A h \in handed : HandedFromCache(h)

LEMMA CacheHit ==
    ASSUME TypeInv, CacheInv, NEW t \in Threads, Hit(t)
    PROVE  CacheInv'
<1> DEFINE k == goal[t]
           h == <<scope[t], k, CachedBy(t, k)[k]>>
<1>1. /\ k \in DOMAIN registrations /\ k \in DOMAIN CachedBy(t, k)
      /\ handed' = handed \cup {h}
      /\ UNCHANGED <<registrations, singletons, scoped, built>>
  BY DEF Hit, Uncached, caches
<1>2. HandedFromCache(h)
  BY <1>1 DEF HandedFromCache, CachedBy
<1> HIDE DEF h, k
<1>3. \A i \in handed' : HandedFromCache(i)'
  BY <1>1, <1>2 DEF CacheInv, HandedFromCache, Lifetime
<1> QED
  BY <1>1, <1>3 DEF CacheInv, Held, ScopesApart, AlreadyBuilt

LEMMA CachePublish ==
    ASSUME TypeInv, CacheInv, NEW t \in Threads, Publish(t)
    PROVE  CacheInv'
<1> DEFINE k   == Top(t).type
           new == <<t, built[t]>>
           fs  == Published(CachedBy(t, k), k, new)
           h   == <<scope[t], k, fs[k]>>
<1>1. /\ built' = [built EXCEPT ![t] = @ + 1]
      /\ singletons' = IF Lifetime(k) = "singleton" THEN fs ELSE singletons
      /\ scoped' = IF Lifetime(k) = "scoped" THEN [scoped EXCEPT ![scope[t]] = fs]
                   ELSE scoped
      /\ handed' = handed \cup {h}
      /\ registrations' = registrations
  BY DEF Publish
<1>2. /\ k \in DOMAIN registrations /\ k \in Types
      /\ Lifetime(k) \in Lifetimes /\ scope[t] \in Scopes
  BY TopType, RegistrationType DEF Publish, Working, TypeInv, TypeOK
<1>3. \A i \in Instances : AlreadyBuilt(i) => AlreadyBuilt(i)' /\ i # new
  BY <1>1 DEF TypeInv, TypeOK, AlreadyBuilt, Instances
<1>4. \A i : i = new => AlreadyBuilt(i)'
  BY <1>1 DEF TypeInv, TypeOK, AlreadyBuilt
<1>5. /\ DOMAIN fs = DOMAIN CachedBy(t, k) \cup {k}
      /\ \A j \in DOMAIN CachedBy(t, k) : fs[j] = CachedBy(t, k)[j]
      /\ k \notin DOMAIN CachedBy(t, k) => fs[k] = new
  BY DEF Published, With
<1> HIDE DEF k, fs, new
<1>6. DOMAIN scoped = Scopes /\ DOMAIN scoped' = Scopes
  BY <1>1 DEF TypeInv, TypeOK
<1>7. CASE Lifetime(k) = "singleton"
  <2>1. CachedBy(t, k) = singletons /\ singletons' = fs /\ scoped' = scoped
    BY <1>1, <1>7 DEF CachedBy
  <2>2. /\ \A j \in DOMAIN singletons : singletons[j] \in Instances
        /\ \A s \in Scopes : \A j \in DOMAIN scoped[s] : scoped[s][j] \in Instances
    BY DEF TypeInv, TypeOK, Cache
  <2>3. Held'
    BY <1>3, <1>4, <1>5, <2>1, <2>2 DEF Held, CacheInv
  <2>4. \A i \in handed : HandedFromCache(i)'
    BY <1>1, <1>5, <2>1 DEF CacheInv, HandedFromCache, Lifetime
  <2>5. \A i : i = h => HandedFromCache(i)'
    BY <1>1, <1>2, <1>5, <1>7, <2>1 DEF HandedFromCache, Lifetime
  <2>6. ScopesApart'
    BY <2>1 DEF CacheInv, ScopesApart
  <2> QED
    BY <1>1, <2>3, <2>4, <2>5, <2>6 DEF CacheInv
<1>8. CASE Lifetime(k) = "scoped"
  <2>1. /\ CachedBy(t, k) = scoped[scope[t]] /\ singletons' = singletons
        /\ scoped'[scope[t]] = fs
        /\ \A s \in Scopes \ {scope[t]} : scoped'[s] = scoped[s]
    BY <1>1, <1>2, <1>6, <1>8 DEF CachedBy
  <2>2. /\ \A j \in DOMAIN singletons : singletons[j] \in Instances
        /\ \A s \in Scopes : \A j \in DOMAIN scoped[s] : scoped[s][j] \in Instances
    BY DEF TypeInv, TypeOK, Cache
  <2>3. Held'
    BY <1>3, <1>4, <1>5, <2>1, <2>2 DEF Held, CacheInv
  <2>4. \A s \in Scopes \ {scope[t]} : \A j \in DOMAIN fs \cap DOMAIN scoped[s] :
            fs[j] # scoped[s][j]
    BY <1>2, <1>3, <1>5, <2>1, <2>2 DEF CacheInv, Held, ScopesApart
  <2>5. ScopesApart'
    BY <2>1, <2>4 DEF CacheInv, ScopesApart
  <2>6. \A i \in handed : i[1] \in Scopes /\ HandedFromCache(i)'
    <3> SUFFICES ASSUME NEW i \in handed PROVE i[1] \in Scopes /\ HandedFromCache(i)'
      OBVIOUS
    <3>1. i[1] \in Scopes /\ HandedFromCache(i)
      BY DEF CacheInv, TypeInv, TypeOK
    <3> QED
      BY <1>1, <1>5, <2>1, <3>1 DEF HandedFromCache, Lifetime
  <2>7. \A i : i = h => HandedFromCache(i)'
    BY <1>1, <1>2, <1>5, <1>8, <2>1 DEF HandedFromCache, Lifetime
  <2> QED
    BY <1>1, <2>3, <2>5, <2>6, <2>7 DEF CacheInv
<1>9. CASE Lifetime(k) = "transient"
  <2>1. singletons' = singletons /\ scoped' = scoped
    BY <1>1, <1>9
  <2>2. /\ \A j \in DOMAIN singletons : singletons[j] \in Instances
        /\ \A s \in Scopes : \A j \in DOMAIN scoped[s] : scoped[s][j] \in Instances
    BY DEF TypeInv, TypeOK, Cache
  <2>3. Held'
    BY <1>3, <2>1, <2>2 DEF Held, CacheInv
  <2>4. ScopesApart' /\ \A i \in handed' : HandedFromCache(i)'
    BY <1>1, <1>2, <1>9, <2>1 DEF CacheInv, ScopesApart, HandedFromCache, Lifetime
  <2> QED
    BY <2>3, <2>4 DEF CacheInv
<1> QED
  BY <1>2, <1>7, <1>8, <1>9 DEF Lifetimes

LEMMA CacheNext ==
    ASSUME TypeInv, CacheInv, [Next]_vars
    PROVE  CacheInv'
<1>1. CASE /\ UNCHANGED <<singletons, scoped, built, handed>>
           /\ registrations' = registrations \/ handed = {}
  BY <1>1 DEF CacheInv, Held, AlreadyBuilt, ScopesApart, HandedFromCache, Lifetime
<1>2. CASE \E g \in Recipes : Register(g)
  <2>1. UNCHANGED <<singletons, scoped, built, handed>> /\ handed = {}
    BY <1>2 DEF Register, TypeInv, Untouched, caches, history
  <2> QED
    BY <1>1, <2>1
<1>3. CASE Build \/ BootNext \/ Booted
  BY <1>1, <1>3 DEF Build, BootNext, Booted, caches, history
<1>4. CASE \E t \in Threads : Begin(t) \/ Missing(t) \/ Cycle(t) \/ Invoke(t) \/ Depend(t)
                            \/ Unwind(t) \/ DoWithout(t) \/ Panic(t) \/ Report(t)
  BY <1>1, <1>4 DEF Begin, Missing, Cycle, Invoke, Depend, Unwind, DoWithout, Panic,
                    Report, caches, history
<1>5. CASE UNCHANGED vars
  BY <1>1, <1>5 DEF vars, caches, history
<1> QED
  BY <1>2, <1>3, <1>4, <1>5, CacheHit, CachePublish DEF Next, Resolve

(***************************************************************************)
(* Callers agree: whatever the providers are, however many threads resolve *)
(* them at once and whichever factories fail or panic, a singleton is one  *)
(* instance to all and a scoped service one per container.                 *)
(***************************************************************************)
THEOREM Identity == Spec => []CallersAgree
<1>1. Init => CacheInv
  BY DEF Init, CacheInv, Held, ScopesApart
<1>2. TypeInv /\ CacheInv => CallersAgree
  <2> SUFFICES ASSUME TypeInv, CacheInv, NEW h \in handed, NEW i \in handed,
                      h[2] = i[2], Lifetime(h[2]) # "transient"
               PROVE  SameFor(h, i) <=> h[3] = i[3]
    BY DEF CallersAgree
  <2>1. HandedFromCache(h) /\ HandedFromCache(i) /\ h[1] \in Scopes /\ i[1] \in Scopes
    BY DEF CacheInv, TypeInv, TypeOK
  <2>2. Lifetime(h[2]) \in Lifetimes
    BY <2>1, RegistrationType DEF HandedFromCache, TypeInv
  <2>3. CASE Lifetime(h[2]) = "singleton"
    BY <2>1, <2>3 DEF HandedFromCache, SameFor
  <2>4. CASE Lifetime(h[2]) = "scoped"
    BY <2>1, <2>4 DEF HandedFromCache, SameFor, CacheInv, ScopesApart
  <2> QED
    BY <2>2, <2>3, <2>4 DEF Lifetimes
<1>3. Spec => []CacheInv
  BY <1>1, CacheNext, TypeInductive, PTL DEF Spec
<1> QED
  BY <1>2, <1>3, TypeInductive, PTL

-----------------------------------------------------------------------------
(***************************************************************************)
(* A step of one thread                                                    *)
(***************************************************************************)
LEMMA OneThread ==
    ASSUME TypeInv, NEW t \in Threads, Begin(t) \/ Resolve(t)
    PROVE  /\ \A u \in Threads \ {t} :
                 /\ goal'[u] = goal[u] /\ stack'[u] = stack[u]
                 /\ chain'[u] = chain[u] /\ failing'[u] = failing[u]
           /\ UNCHANGED <<registrations, order>>
           /\ phase' = phase \/ (phase' = "stopped" /\ phase = "booting")
           /\ panicked \subseteq panicked'
           /\ phase # "assembling"
<1>1. CASE Begin(t)
  <2>1. PICK k \in Types : goal' = [goal EXCEPT ![t] = k]
    BY <1>1 DEF Begin
  <2> QED
    BY <1>1, <2>1 DEF Begin, Serving, TypeInv, TypeOK, history
<1>2. CASE Missing(t) \/ Hit(t) \/ Cycle(t) \/ Invoke(t) \/ Depend(t)
  BY <1>2 DEF Missing, Hit, Cycle, Invoke, Depend, Resolving, Working, Untouched, Idle,
              TypeInv, TypeOK, history
<1>3. CASE Publish(t)
  <2>1. /\ chain' = [chain EXCEPT ![t] = Front(@)]
        /\ stack' = [stack EXCEPT ![t] = Resumed(Front(@))]
        /\ UNCHANGED <<registrations, order, phase, goal, failing, panicked>>
        /\ Working(t)
    BY <1>3 DEF Publish
  <2> QED
    BY <2>1 DEF Working, Untouched, Idle, TypeInv, TypeOK
<1>4. CASE Unwind(t) \/ DoWithout(t) \/ Panic(t) \/ Report(t)
  BY <1>4 DEF Unwind, DoWithout, Panic, Report, AfterFailure, Working, Untouched, Idle,
              TypeInv, TypeOK, history
<1> QED
  BY <1>1, <1>2, <1>3, <1>4 DEF Resolve

LEMMA CachesGrow ==
    ASSUME TypeInv, [Next]_vars
    PROVE  DOMAIN singletons \subseteq DOMAIN singletons'
<1>1. CASE UNCHANGED singletons
  BY <1>1
<1>2. ASSUME NEW t \in Threads, Publish(t)
      PROVE  DOMAIN singletons \subseteq DOMAIN singletons'
  BY <1>2 DEF Publish, CachedBy, Published, With
<1> QED
  BY <1>1, <1>2
  DEF Next, Resolve, Register, Build, BootNext, Booted, Begin, Missing, Hit, Cycle, Invoke,
      Depend, Unwind, DoWithout, Panic, Report, vars, caches

\* An error on its way up meets no look-up.
FailuresRise == \A t \in Threads : failing[t] => ~Resolving(t)

LEMMA FailuresInductive == Spec => []FailuresRise
<1>1. Init => FailuresRise
  BY DEF Init, FailuresRise
<1>2. TypeInv /\ FailuresRise /\ [Next]_vars => FailuresRise'
  <2> SUFFICES ASSUME TypeInv, FailuresRise, [Next]_vars PROVE FailuresRise'
    OBVIOUS
  <2> USE DEF FailuresRise, Resolving
  <2>1. CASE UNCHANGED vars \/ Build \/ Booted \/ \E g \in Recipes : Register(g)
    BY <2>1 DEF vars, Build, Booted, Register, threadVars
  <2>2. CASE BootNext
    BY <2>2 DEF BootNext, Idle, TypeInv, TypeOK
  <2>3. ASSUME NEW t \in Threads, Begin(t) \/ Resolve(t)
        PROVE  FailuresRise'
    <3>1. \A u \in Threads \ {t} : goal'[u] = goal[u] /\ failing'[u] = failing[u]
      BY <2>3, OneThread
    <3>2. DOMAIN goal = Threads /\ DOMAIN failing = Threads
      BY DEF TypeInv, TypeOK
    <3>3. failing'[t] => goal'[t] = None
      <4>1. CASE Begin(t)
        BY <3>2, <4>1 DEF Begin, Idle
      <4>2. CASE Missing(t) \/ Hit(t) \/ Cycle(t) \/ Invoke(t) \/ Depend(t)
        BY <3>2, <4>2 DEF Missing, Hit, Cycle, Invoke, Depend
      <4>3. CASE Publish(t)
        BY <3>2, <4>3 DEF Publish
      <4>4. CASE Unwind(t) \/ DoWithout(t) \/ Panic(t) \/ Report(t)
        BY <3>2, <4>4 DEF Unwind, DoWithout, Panic, Report, Working
      <4> QED
        BY <2>3, <4>1, <4>2, <4>3, <4>4 DEF Resolve
    <3> QED
      BY <3>1, <3>3
  <2> QED
    BY <2>1, <2>2, <2>3 DEF Next
<1> QED
  BY <1>1, <1>2, TypeInductive, PTL DEF Spec

-----------------------------------------------------------------------------
(***************************************************************************)
(* Boot.  While the application boots, a singleton is still in the order,  *)
(* cached, or in the hands of the main thread: about to be resolved,       *)
(* being built by the outermost factory, or failed.                        *)
(***************************************************************************)
InHand(k) ==
    \/ stack[Main] = <<>> /\ (goal[Main] = k \/ failing[Main])
    \/ stack[Main] # <<>> /\ stack[Main][1].type = k

BootInv ==
    \A k \in DOMAIN registrations :
        /\ phase = "assembling" => Contains(order, k)
        /\ phase = "booting" /\ Lifetime(k) = "singleton" =>
              Contains(order, k) \/ k \in DOMAIN singletons \/ InHand(k)
        /\ phase = "booted" /\ Lifetime(k) = "singleton" => k \in DOMAIN singletons

LEMMA BootRegister ==
    ASSUME TypeInv, BootInv, NEW g \in Recipes, Register(g)
    PROVE  BootInv'
<1>1. /\ phase = "assembling" /\ phase' = phase
      /\ DOMAIN registrations' = DOMAIN registrations \cup {g.type}
      /\ g.type \in Types
  BY ContainerAssumption DEF Register, With, Registrations
<1>2. order \in Seq(Types) /\ Len(order) \in Nat
  BY SeqMonotonic, LenProperties DEF TypeInv, TypeOK
<1>3. \A k \in DOMAIN registrations' : Contains(order', k)
  <2>1. CASE g.type \in DOMAIN registrations
    BY <1>1, <2>1 DEF Register, BootInv
  <2>2. CASE g.type \notin DOMAIN registrations
    <3>1. order' = Append(order, g.type)
      BY <2>2 DEF Register
    <3>2. /\ Len(Append(order, g.type)) = Len(order) + 1
          /\ \A i \in 1 .. Len(order) : Append(order, g.type)[i] = order[i]
          /\ Append(order, g.type)[Len(order) + 1] = g.type
      BY <1>1, <1>2, AppendProperties
    <3>3. /\ Len(order) + 1 \in 1 .. Len(order')
          /\ \A i \in 1 .. Len(order) : i \in 1 .. Len(order')
      BY <1>2, <3>1, <3>2
    <3>4. Contains(order', g.type)
      BY <3>1, <3>2, <3>3 DEF Contains
    <3>5. \A k \in DOMAIN registrations : Contains(order', k)
      BY <1>1, <3>1, <3>2, <3>3 DEF BootInv, Contains
    <3> QED
      BY <1>1, <3>4, <3>5
  <2> QED
    BY <2>1, <2>2
<1> QED
  BY <1>1, <1>3 DEF BootInv, Contains

LEMMA BootMain ==
    ASSUME TypeInv, BootInv, Build \/ BootNext \/ Booted
    PROVE  BootInv'
<1>1. CASE Build
  BY <1>1 DEF Build, BootInv, InHand, Contains, Lifetime, caches, threadVars
<1>2. CASE Booted
  <2>1. \A k \in DOMAIN registrations : ~Contains(order, k) /\ ~InHand(k)
    BY <1>2, ContainerAssumption, EmptySeq
    DEF Booted, Idle, InHand, Contains, TypeInv, TypeOK
  <2> QED
    BY <1>2, <2>1 DEF Booted, BootInv, Lifetime, caches
<1>3. CASE BootNext
  <2>1. /\ phase = "booting" /\ phase' = phase /\ Idle(Main)
        /\ order # <<>> /\ order' = Tail(order)
        /\ goal' = IF Lifetime(Head(order)) = "singleton"
                   THEN [goal EXCEPT ![Main] = Head(order)] ELSE goal
        /\ UNCHANGED <<registrations, singletons, stack, failing>>
    BY <1>3 DEF BootNext, caches, threadVars, history
  <2>2. /\ order \in Seq(Types) /\ Len(order) \in Nat /\ Main \in Threads
        /\ Head(order) = order[1]
        /\ Len(Tail(order)) = Len(order) - 1
        /\ \A i \in 1 .. Len(Tail(order)) : Tail(order)[i] = order[i + 1]
    <3>1. order \in Seq(Types)
      BY SeqMonotonic DEF TypeInv, TypeOK
    <3> QED
      BY <2>1, <3>1, HeadTailProperties, LenProperties, ContainerAssumption
  <2>3. \A k \in DOMAIN registrations :
            Contains(order, k) => Contains(Tail(order), k) \/ k = Head(order)
    <3> SUFFICES ASSUME NEW i \in 1 .. Len(order), i # 1
                 PROVE  \E j \in 1 .. Len(Tail(order)) : Tail(order)[j] = order[i]
      BY <2>2 DEF Contains
    <3>1. i - 1 \in 1 .. Len(Tail(order)) /\ i - 1 + 1 = i
      BY <2>2
    <3> QED
      BY <2>2, <3>1
  <2>4. \A k \in DOMAIN registrations : ~InHand(k)
    BY <2>1, ContainerAssumption DEF Idle, InHand, TypeInv, TypeOK
  <2>5. Lifetime(Head(order)) = "singleton" => goal'[Main] = Head(order)
    BY <2>1, <2>2 DEF TypeInv, TypeOK
  <2>6. stack'[Main] = <<>>
    BY <2>1 DEF Idle
  <2>7. \A k \in DOMAIN registrations : Lifetime(k) = "singleton" =>
            Contains(Tail(order), k) \/ k \in DOMAIN singletons
              \/ (stack'[Main] = <<>> /\ goal'[Main] = k)
    BY <2>1, <2>3, <2>4, <2>5, <2>6 DEF BootInv
  <2> QED
    BY <2>1, <2>7 DEF BootInv, InHand, Lifetime
<1> QED
  BY <1>1, <1>2, <1>3

\* A step of the main thread while it boots.
LEMMA BootResolve ==
    ASSUME TypeInv, FailuresRise, phase = "booting", phase' = "booting", Resolve(Main),
           NEW k \in DOMAIN registrations, Lifetime(k) = "singleton", InHand(k)
    PROVE  InHand(k)' \/ k \in DOMAIN singletons'
<1>0. /\ Main \in Threads /\ stack[Main] \in Seq(Frames) /\ DOMAIN stack = Threads
      /\ DOMAIN goal = Threads /\ DOMAIN failing = Threads
      /\ Len(stack[Main]) \in Nat
      /\ stack[Main] # <<>> => Len(stack[Main]) > 0 /\ 1 \in 1 .. Len(stack[Main])
  BY ContainerAssumption, LenProperties, EmptySeq DEF TypeInv, TypeOK
<1>1. CASE Missing(Main) \/ Cycle(Main)
  BY <1>0, <1>1 DEF Missing, Cycle, InHand
<1>2. CASE Depend(Main)
  BY <1>0, <1>2 DEF Depend, Working, InHand
<1>3. CASE Panic(Main) \/ Report(Main)
  BY <1>3 DEF Panic, Report, AfterFailure
<1>4. CASE Hit(Main)
  <2>1. /\ Resolving(Main) /\ goal[Main] \in DOMAIN CachedBy(Main, goal[Main])
        /\ UNCHANGED <<singletons, failing>>
        /\ stack' = [stack EXCEPT ![Main] = Resumed(@)]
    BY <1>4 DEF Hit, Uncached, caches
  <2>2. CASE stack[Main] = <<>> /\ goal[Main] = k
    BY <2>1, <2>2 DEF CachedBy
  <2>3. CASE stack[Main] = <<>> /\ failing[Main]
    <3>1. stack'[Main] = <<>> /\ failing'[Main]
      BY <1>0, <2>1, <2>3 DEF Resumed
    <3> QED
      BY <3>1 DEF InHand
  <2>4. CASE stack[Main] # <<>> /\ stack[Main][1].type = k
    <3>1. stack'[Main] # <<>> /\ stack'[Main][1].type = k
      BY <1>0, <2>1, <2>4, ResumedFrames, EmptySeq
    <3> QED
      BY <3>1 DEF InHand
  <2> QED
    BY <2>2, <2>3, <2>4 DEF InHand
<1>5. CASE DoWithout(Main)
  <2>1. /\ stack[Main] # <<>> /\ stack' = [stack EXCEPT ![Main] = Resumed(@)]
    BY <1>5 DEF DoWithout, Working
  <2>2. stack'[Main] # <<>> /\ stack'[Main][1].type = stack[Main][1].type
    BY <1>0, <2>1, ResumedFrames, EmptySeq
  <2> QED
    BY <2>1, <2>2 DEF InHand
<1>6. CASE Invoke(Main)
  <2> DEFINE f == [type |-> goal[Main], done |-> 0]
  <2>1. f \in Frames /\ f.type = goal[Main] /\ stack' = [stack EXCEPT ![Main] = Append(@, f)]
        /\ failing' = failing /\ goal[Main] # None
    BY <1>6 DEF Invoke, Uncached, TypeInv, TypeOK, Frames, Resolving
  <2> HIDE DEF f
  <2>2. /\ stack'[Main] # <<>>
        /\ \A i \in 1 .. Len(stack[Main]) : stack'[Main][i] = stack[Main][i]
        /\ stack'[Main][Len(stack[Main]) + 1] = f
    BY <1>0, <2>1, AppendProperties
  <2>3. CASE stack[Main] # <<>>
    BY <1>0, <2>2, <2>3 DEF InHand
  <2>4. CASE stack[Main] = <<>>
    <3>1. goal[Main] = k
      BY <1>0, <2>1, <2>4 DEF InHand, FailuresRise, Resolving
    <3> QED
      BY <2>1, <2>2, <2>4, <3>1, EmptySeq DEF InHand
  <2> QED
    BY <2>3, <2>4
<1>7. CASE Publish(Main) \/ Unwind(Main)
  <2>1. stack[Main] # <<>>
    BY <1>7 DEF Publish, Unwind, Working
  <2>2. /\ Front(stack[Main]) \in Seq(Frames)
        /\ Len(Front(stack[Main])) = Len(stack[Main]) - 1
        /\ \A i \in 1 .. Len(Front(stack[Main])) : Front(stack[Main])[i] = stack[Main][i]
    BY <1>0, <2>1, FrontOf
  <2>3. stack[Main][1].type = k
    BY <2>1 DEF InHand
  <2>4. /\ Len(Resumed(Front(stack[Main]))) = Len(stack[Main]) - 1
        /\ \A i \in 1 .. Len(stack[Main]) - 1 :
              Resumed(Front(stack[Main]))[i].type = stack[Main][i].type
    BY <2>2, ResumedFrames
  <2>5. CASE Len(stack[Main]) > 1
    <3>1. stack'[Main] = Resumed(Front(stack[Main])) \/ stack'[Main] = Front(stack[Main])
      BY <1>0, <1>7 DEF Publish, Unwind
    <3>2. 1 \in 1 .. Len(stack[Main]) - 1
      BY <1>0, <2>5
    <3>3. Len(stack'[Main]) = Len(stack[Main]) - 1 /\ stack'[Main][1].type = k
      BY <2>2, <2>3, <2>4, <3>1, <3>2
    <3>4. stack'[Main] # <<>>
      BY <2>5, <3>3, EmptySeq
    <3> QED
      BY <3>3, <3>4 DEF InHand
  <2>6. CASE Len(stack[Main]) = 1
    <3>1. Top(Main).type = k
      BY <2>3, <2>6 DEF Top, Last
    <3>2. CASE Publish(Main)
      BY <3>1, <3>2 DEF Publish, CachedBy, Published, With
    <3>3. CASE Unwind(Main)
      <4>1. stack'[Main] = Front(stack[Main]) /\ failing'[Main]
        BY <1>0, <3>3 DEF Unwind
      <4>2. stack'[Main] = <<>>
        BY <2>2, <2>6, <4>1, EmptySeq
      <4> QED
        BY <4>1, <4>2 DEF InHand
    <3> QED
      BY <1>7, <3>2, <3>3
  <2> QED
    <3>1. Len(stack[Main]) \in Nat /\ Len(stack[Main]) > 0
      BY <1>0, <2>1, TopType
    <3>2. \A n \in Nat : n > 0 => n > 1 \/ n = 1
      OBVIOUS
    <3> QED
      BY <2>5, <2>6, <3>1, <3>2
<1> QED
  BY <1>1, <1>2, <1>3, <1>4, <1>5, <1>6, <1>7 DEF Resolve

LEMMA BootNextStep ==
    ASSUME TypeInv, FailuresRise, BootInv, [Next]_vars
    PROVE  BootInv'
<1>1. CASE UNCHANGED vars
  BY <1>1 DEF BootInv, InHand, Contains, Lifetime, vars, caches, threadVars
<1>2. CASE (\E g \in Recipes : Register(g)) \/ Build \/ BootNext \/ Booted
  BY <1>2, BootRegister, BootMain
<1>3. ASSUME NEW t \in Threads, Begin(t) \/ Resolve(t)
      PROVE  BootInv'
  <2>1. /\ UNCHANGED <<registrations, order>> /\ phase # "assembling"
        /\ phase' = phase \/ phase' = "stopped"
        /\ DOMAIN singletons \subseteq DOMAIN singletons'
    BY <1>3, OneThread, CachesGrow
  <2>2. CASE phase # "booting"
    BY <2>1, <2>2 DEF BootInv, Lifetime
  <2>3. CASE phase = "booting" /\ phase' = "booting"
    <3> SUFFICES ASSUME NEW k \in DOMAIN registrations, Lifetime(k) = "singleton", InHand(k)
                 PROVE  InHand(k)' \/ k \in DOMAIN singletons'
      BY <2>1, <2>3 DEF BootInv, Contains, Lifetime
    <3>1. CASE t = Main
      BY <1>3, <2>3, <3>1, BootResolve DEF Begin, Serving
    <3>2. CASE t # Main
      <4>1. /\ goal'[Main] = goal[Main] /\ stack'[Main] = stack[Main]
            /\ failing'[Main] = failing[Main]
        BY <1>3, <3>2, OneThread, ContainerAssumption
      <4> QED
        BY <4>1 DEF InHand
    <3> QED
      BY <3>1, <3>2
  <2> QED
    BY <2>1, <2>2, <2>3 DEF BootInv
<1> QED
  BY <1>1, <1>2, <1>3 DEF Next

(***************************************************************************)
(* Boot is complete: an application that went through eager initialisation *)
(* has every singleton it registered, in whatever order its providers are  *)
(* registered, depend on each other, replace each other or fail.           *)
(***************************************************************************)
THEOREM BootIsComplete == Spec => []BootedMeansReady
<1>1. Init => BootInv
  BY DEF Init, BootInv
<1>2. BootInv => BootedMeansReady
  BY DEF BootInv, BootedMeansReady
<1>3. Spec => []BootInv
  BY <1>1, BootNextStep, TypeInductive, FailuresInductive, PTL DEF Spec
<1> QED
  BY <1>2, <1>3, PTL

-----------------------------------------------------------------------------
(***************************************************************************)
(* Cycles.  Until a factory panics on it, a thread's chain names the       *)
(* factories on its stack, each of which depends on the next; what is      *)
(* looked up is a dependency of the last.                                  *)
(***************************************************************************)
Asks(j, k) == k \in ToSet(registrations[j].deps)

ChainFollows(t) ==
    /\ Len(chain[t]) = Len(stack[t])
    /\ \A i \in 1 .. Len(stack[t]) : chain[t][i] = stack[t][i].type
    /\ \A i \in 2 .. Len(stack[t]) : Asks(stack[t][i - 1].type, stack[t][i].type)
    /\ Resolving(t) /\ stack[t] # <<>> => Asks(Top(t).type, goal[t])

ChainInv == \A t \in Threads \ panicked : ChainFollows(t)

\* Popping the innermost factory, and perhaps counting a dependency of its
\* caller, leaves a chain that follows.
LEMMA ChainPop ==
    ASSUME TypeInv, NEW t \in Threads, ChainFollows(t), stack[t] # <<>>,
           goal'[t] = None, registrations' = registrations,
           chain'[t] = Front(chain[t]),
           NEW s \in Seq(Frames), stack'[t] = s, Len(s) = Len(stack[t]) - 1,
           \A i \in 1 .. Len(s) : s[i].type = stack[t][i].type
    PROVE  ChainFollows(t)'
<1>1. /\ chain[t] \in Seq(Types) /\ stack[t] \in Seq(Frames)
      /\ Len(stack[t]) \in Nat /\ Len(stack[t]) > 0 /\ Len(s) \in Nat
      /\ Len(chain[t]) = Len(stack[t])
  BY TopType, LenProperties DEF TypeInv, TypeOK, ChainFollows
<1>2. chain[t] # <<>>
  BY <1>1, EmptySeq
<1>3. /\ Len(Front(chain[t])) = Len(s)
      /\ \A i \in 1 .. Len(s) : Front(chain[t])[i] = chain[t][i]
  <2>1. /\ Len(Front(chain[t])) = Len(chain[t]) - 1
        /\ \A i \in 1 .. Len(Front(chain[t])) : Front(chain[t])[i] = chain[t][i]
    BY <1>1, <1>2, FrontOf
  <2>2. Len(Front(chain[t])) = Len(s)
    BY <1>1, <2>1
  <2> QED
    BY <2>1, <2>2
<1>4. \A i \in 1 .. Len(s) : i \in 1 .. Len(stack[t])
  BY <1>1
<1>5. \A i \in 1 .. Len(s) : chain'[t][i] = s[i].type
  BY <1>3, <1>4 DEF ChainFollows
<1>6. \A i \in 2 .. Len(s) : i \in 2 .. Len(stack[t]) /\ i - 1 \in 1 .. Len(s) /\ i \in 1 .. Len(s)
  BY <1>1
<1>7. \A i \in 2 .. Len(s) : Asks(s[i - 1].type, s[i].type)
  BY <1>6 DEF ChainFollows
<1> QED
  BY <1>3, <1>5, <1>7 DEF ChainFollows, Resolving, Asks

\* So does a step that keeps the chain and the types on the stack.
LEMMA ChainKept ==
    ASSUME TypeInv, NEW t \in Threads, ChainFollows(t),
           registrations' = registrations, chain'[t] = chain[t],
           stack'[t] \in {stack[t], Resumed(stack[t])},
           goal'[t] # None /\ stack[t] # <<>> => Asks(Top(t).type, goal'[t])
    PROVE  ChainFollows(t)'
<1>1. /\ stack[t] \in Seq(Frames) /\ Len(stack[t]) \in Nat
      /\ stack'[t] \in Seq(Frames)
      /\ Len(stack'[t]) = Len(stack[t])
      /\ \A i \in 1 .. Len(stack[t]) : stack'[t][i].type = stack[t][i].type
  BY ResumedFrames, LenProperties DEF TypeInv, TypeOK
<1>2. \A i \in 2 .. Len(stack[t]) : i - 1 \in 1 .. Len(stack[t]) /\ i \in 1 .. Len(stack[t])
  BY <1>1
<1>3. \A i \in 2 .. Len(stack[t]) : Asks(stack'[t][i - 1].type, stack'[t][i].type)
  BY <1>1, <1>2 DEF ChainFollows
<1>4. \A i \in 1 .. Len(stack[t]) : chain[t][i] = stack'[t][i].type
  BY <1>1 DEF ChainFollows
<1>5. ASSUME goal'[t] # None, stack'[t] # <<>>
      PROVE  Asks(Last(stack'[t]).type, goal'[t])
  <2>1. Len(stack'[t]) > 0 /\ Last(stack'[t]) = stack'[t][Len(stack'[t])]
    BY <1>1, <1>5, LastOf
  <2>2. stack[t] # <<>>
    BY <1>1, <2>1, EmptySeq
  <2>3. Len(stack[t]) \in 1 .. Len(stack[t])
    BY <1>1, <2>1
  <2>4. Last(stack'[t]).type = Top(t).type
    BY <1>1, <2>1, <2>2, <2>3, TopType
  <2> QED
    BY <1>5, <2>2, <2>4
<1> QED
  BY <1>1, <1>3, <1>4, <1>5 DEF ChainFollows, Resolving, Asks, Top

LEMMA ChainInvoke ==
    ASSUME TypeInv, NEW t \in Threads, ChainFollows(t), Invoke(t)
    PROVE  ChainFollows(t)'
<1> DEFINE f == [type |-> goal[t], done |-> 0]
           n == Len(stack[t])
<1>1. /\ f \in Frames /\ f.type = goal[t] /\ goal[t] \in Types /\ goal[t] # None
      /\ stack[t] \in Seq(Frames) /\ chain[t] \in Seq(Types)
      /\ n \in Nat /\ Len(chain[t]) = n
  BY LenProperties DEF Invoke, Uncached, Resolving, TypeInv, TypeOK, Frames, ChainFollows
<1>2. /\ stack'[t] = Append(stack[t], f) /\ chain'[t] = Append(chain[t], goal[t])
      /\ goal'[t] = None /\ registrations' = registrations
  BY DEF Invoke, TypeInv, TypeOK
<1> HIDE DEF f
<1>3. /\ Len(stack'[t]) = n + 1
      /\ \A i \in 1 .. n : stack'[t][i] = stack[t][i]
      /\ stack'[t][n + 1] = f
  BY <1>1, <1>2, AppendProperties
<1>4. /\ Len(chain'[t]) = n + 1
      /\ \A i \in 1 .. n : chain'[t][i] = chain[t][i]
      /\ chain'[t][n + 1] = goal[t]
  BY <1>1, <1>2, AppendProperties
<1>5. ASSUME NEW i \in 1 .. n + 1
      PROVE  chain'[t][i] = stack'[t][i].type
  <2>1. i \in 1 .. n \/ i = n + 1
    BY <1>1
  <2> QED
    BY <1>1, <1>3, <1>4, <2>1 DEF ChainFollows
<1>6. ASSUME NEW i \in 2 .. n + 1
      PROVE  Asks(stack'[t][i - 1].type, stack'[t][i].type)
  <2>1. CASE i \in 2 .. n
    <3>1. i - 1 \in 1 .. n /\ i \in 1 .. n
      BY <1>1, <2>1
    <3> QED
      BY <1>3, <2>1, <3>1 DEF ChainFollows
  <2>2. CASE i = n + 1
    <3>1. i - 1 = n /\ n \in 1 .. n /\ n # 0
      BY <1>1, <2>2
    <3>2. stack[t] # <<>>
      BY <3>1, EmptySeq
    <3>3. Top(t) = stack[t][n]
      BY <3>2, TopType
    <3> QED
      BY <1>1, <1>3, <2>2, <3>1, <3>2, <3>3 DEF ChainFollows, Resolving
  <2>3. i \in 2 .. n \/ i = n + 1
    BY <1>1
  <2> QED
    BY <2>1, <2>2, <2>3
<1> HIDE DEF n
<1> QED
  BY <1>2, <1>3, <1>4, <1>5, <1>6 DEF ChainFollows, Resolving, Asks

LEMMA ChainStep ==
    ASSUME TypeInv, NEW t \in Threads \ panicked, ChainFollows(t),
           Begin(t) \/ Resolve(t), t \notin panicked'
    PROVE  ChainFollows(t)'
<1>0. /\ DOMAIN stack = Threads /\ DOMAIN chain = Threads /\ DOMAIN goal = Threads
      /\ stack[t] \in Seq(Frames) /\ t \in Threads
      /\ registrations' = registrations
  BY OneThread DEF TypeInv, TypeOK
<1>1. CASE Begin(t) \/ Missing(t) \/ Cycle(t) \/ Report(t)
  <2>1. /\ stack'[t] = stack[t] /\ chain'[t] = chain[t]
        /\ goal'[t] = None \/ stack[t] = <<>>
    BY <1>0, <1>1 DEF Begin, Missing, Cycle, Report, Idle
  <2>2. CASE goal'[t] # None /\ goal'[t] = goal[t]
    BY <1>0, <2>1, <2>2, ChainKept DEF ChainFollows
  <2> QED
    BY <1>0, <2>1, ChainKept
<1>2. CASE Hit(t)
  BY <1>0, <1>2, ChainKept DEF Hit
<1>3. CASE Depend(t)
  <2>1. /\ stack'[t] = stack[t] /\ chain'[t] = chain[t] /\ stack[t] # <<>>
        /\ goal'[t] = Recipe(t).deps[Top(t).done + 1]
        /\ Top(t).done < Len(Recipe(t).deps)
    BY <1>0, <1>3 DEF Depend, Working
  <2>2. Top(t).done + 1 \in DOMAIN Recipe(t).deps
    BY <2>1, TopType, LenProperties DEF Frames
  <2>3. Asks(Top(t).type, goal'[t])
    BY <2>1, <2>2 DEF Asks, ToSet, Recipe
  <2> QED
    BY <1>0, <2>1, <2>3, ChainKept
<1>4. CASE DoWithout(t)
  BY <1>0, <1>4, ChainKept DEF DoWithout, Working, Resolving
<1>5. CASE Invoke(t)
  BY <1>0, <1>5, ChainInvoke
<1>6. CASE Publish(t) \/ Unwind(t)
  <2>1. /\ stack[t] # <<>> /\ goal'[t] = None
        /\ chain'[t] = Front(chain[t])
        /\ stack'[t] \in {Front(stack[t]), Resumed(Front(stack[t]))}
    BY <1>0, <1>6 DEF Publish, Unwind, Working, Resolving
  <2>2. /\ Front(stack[t]) \in Seq(Frames)
        /\ Len(Front(stack[t])) = Len(stack[t]) - 1
        /\ \A i \in 1 .. Len(Front(stack[t])) : Front(stack[t])[i] = stack[t][i]
    BY <1>0, <2>1, FrontOf
  <2>3. /\ stack'[t] \in Seq(Frames)
        /\ Len(stack'[t]) = Len(stack[t]) - 1
        /\ \A i \in 1 .. Len(stack'[t]) : stack'[t][i].type = stack[t][i].type
    BY <2>1, <2>2, ResumedFrames
  <2> QED
    BY <1>0, <2>1, <2>3, ChainPop
<1>7. CASE Panic(t)
  BY <1>7 DEF Panic
<1> QED
  BY <1>1, <1>2, <1>3, <1>4, <1>5, <1>6, <1>7 DEF Resolve

LEMMA ChainNext ==
    ASSUME TypeInv, ChainInv, [Next]_vars
    PROVE  ChainInv'
<1>1. CASE UNCHANGED vars
  BY <1>1 DEF ChainInv, ChainFollows, Resolving, Top, Asks, vars, threadVars, history
<1>2. CASE \E g \in Recipes : Register(g)
  <2>1. /\ UNCHANGED <<goal, stack, chain, panicked>>
        /\ \A t \in Threads : stack[t] = <<>>
    BY <1>2 DEF Register, TypeInv, Untouched, Idle, threadVars, history
  <2> QED
    BY <2>1, EmptySeq DEF ChainInv, ChainFollows
<1>3. CASE Build \/ Booted
  BY <1>3 DEF Build, Booted, ChainInv, ChainFollows, Resolving, Top, Asks, threadVars, history
<1>4. CASE BootNext
  <2>1. /\ UNCHANGED <<registrations, stack, chain, panicked>>
        /\ stack[Main] = <<>>
        /\ \A u \in Threads \ {Main} : goal'[u] = goal[u]
    BY <1>4 DEF BootNext, Idle, TypeInv, TypeOK, history
  <2> QED
    BY <2>1 DEF ChainInv, ChainFollows, Resolving, Top, Asks
<1>5. ASSUME NEW t \in Threads, Begin(t) \/ Resolve(t)
      PROVE  ChainInv'
  <2>1. /\ panicked \subseteq panicked' /\ registrations' = registrations
        /\ \A u \in Threads \ {t} :
              goal'[u] = goal[u] /\ stack'[u] = stack[u] /\ chain'[u] = chain[u]
    BY <1>5, OneThread
  <2>2. \A u \in Threads \ {t} : ChainFollows(u) => ChainFollows(u)'
    BY <2>1 DEF ChainFollows, Resolving, Top, Asks
  <2>3. t \notin panicked' => ChainFollows(t)'
    BY <1>5, <2>1, ChainStep DEF ChainInv
  <2> QED
    BY <2>1, <2>2, <2>3 DEF ChainInv
<1> QED
  BY <1>1, <1>2, <1>3, <1>4, <1>5 DEF Next

(***************************************************************************)
(* Cycles are real on a thread on which no factory has panicked: every     *)
(* type of a reported path depends on the next, whatever factories fail or *)
(* make do without what they asked for on the way.                         *)
(***************************************************************************)
THEOREM RealCycles == Spec => []CyclesRealUntilPanic
<1>1. Init => ChainInv
  BY EmptySeq DEF Init, ChainInv, ChainFollows
<1>2. TypeInv /\ ChainInv => CyclesRealUntilPanic
  <2> SUFFICES ASSUME TypeInv, ChainInv, NEW t \in Threads \ panicked,
                      Resolving(t), Uncached(t), Contains(chain[t], goal[t]),
                      NEW i \in 1 .. Len(chain[t])
               PROVE  Path(t)[i + 1] \in ToSet(registrations[Path(t)[i]].deps)
    BY DEF CyclesRealUntilPanic, ReportsRealCycle
  <2> DEFINE n == Len(chain[t])
  <2>1. /\ ChainFollows(t) /\ chain[t] \in Seq(Types) /\ stack[t] \in Seq(Frames)
        /\ n \in Nat /\ n = Len(stack[t]) /\ goal[t] \in Types
    BY LenProperties DEF ChainInv, ChainFollows, TypeInv, TypeOK, Uncached
  <2>2. /\ \A j \in 1 .. n : Path(t)[j] = chain[t][j]
        /\ Path(t)[n + 1] = goal[t]
    BY <2>1, AppendProperties DEF Path
  <2>3. chain[t][i] = stack[t][i].type /\ Path(t)[i] = stack[t][i].type
    BY <2>1, <2>2 DEF ChainFollows
  <2>4. CASE i = n
    <3>1. stack[t] # <<>>
      BY <2>1, <2>4, EmptySeq
    <3>2. Top(t) = stack[t][n]
      BY <2>1, <3>1, TopType
    <3> QED
      BY <2>1, <2>2, <2>3, <2>4, <3>1, <3>2 DEF ChainFollows, Asks
  <2>5. CASE i # n
    <3>1. i + 1 \in 2 .. n /\ i + 1 \in 1 .. n /\ i + 1 - 1 = i
      BY <2>1, <2>5
    <3>2. Path(t)[i + 1] = stack[t][i + 1].type
      BY <2>1, <2>2, <3>1 DEF ChainFollows
    <3>3. Asks(stack[t][i].type, stack[t][i + 1].type)
      BY <2>1, <3>1 DEF ChainFollows
    <3> QED
      BY <2>3, <3>2, <3>3 DEF Asks
  <2> QED
    BY <2>4, <2>5
<1>3. Spec => []ChainInv
  BY <1>1, ChainNext, TypeInductive, PTL DEF Spec
<1> QED
  BY <1>2, <1>3, TypeInductive, PTL
==============================================================================
