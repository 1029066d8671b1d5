----------------------------- MODULE StackProofs -----------------------------
(***************************************************************************)
(* Proofs about the running application, for any settings, addresses,      *)
(* teams, page size and number of rows, and any router whose handlers      *)
(* answer the requests as ServedAssumption says.                           *)
(***************************************************************************)
EXTENDS StackProperties, SequenceLemmas

-----------------------------------------------------------------------------
(***************************************************************************)
(* The chain of middleware                                                 *)
(***************************************************************************)

\* The contexts between the first n middleware of a stack, on the way in.
WayIn(after, n, stack, req, cell, v) ==
    after = [i \in 0 .. n |->
                IF i = 0 THEN I!NewContext
                ELSE I!Through(stack[i], after[i - 1], req, cell, v)]

LEMMA WayInExists ==
    ASSUME NEW stack, NEW req, NEW cell, NEW v, NEW n \in Nat
    PROVE  \E after : WayIn(after, n, stack, req, cell, v)
<1> DEFINE S == {m \in Nat : \E after : WayIn(after, m, stack, req, cell, v)}
<1>1. 0 \in S
  <2>1. WayIn([i \in 0 .. 0 |-> I!NewContext], 0, stack, req, cell, v)
    BY DEF WayIn
  <2> QED
    BY <2>1
<1>2. ASSUME NEW m \in Nat, m \in S PROVE m + 1 \in S
  <2>1. PICK k : WayIn(k, m, stack, req, cell, v)
    BY <1>2
  <2> DEFINE next == I!Through(stack[m + 1], k[m], req, cell, v)
             g == [i \in 0 .. m + 1 |-> IF i = m + 1 THEN next ELSE k[i]]
  <2>2. \A i \in 0 .. m : g[i] = k[i]
    OBVIOUS
  <2>3. \A i \in 0 .. m + 1 :
           g[i] = IF i = 0 THEN I!NewContext
                  ELSE I!Through(stack[i], g[i - 1], req, cell, v)
    <3> TAKE i \in 0 .. m + 1
    <3>1. CASE i = m + 1
      <4>1. g[i] = next /\ g[i - 1] = k[m] /\ i # 0
        BY <3>1, <2>2
      <4> HIDE DEF g
      <4> QED
        BY <3>1, <4>1
    <3>2. CASE i # m + 1
      <4>1. i \in 0 .. m /\ g[i] = k[i] /\ (i # 0 => g[i - 1] = k[i - 1])
        BY <3>2, <2>2
      <4> HIDE DEF g
      <4> QED
        BY <2>1, <4>1 DEF WayIn
    <3> QED
      BY <3>1, <3>2
  <2>4. WayIn(g, m + 1, stack, req, cell, v)
    <3>1. g = [i \in 0 .. m + 1 |-> g[i]]
      OBVIOUS
    <3> HIDE DEF g
    <3> QED
      BY <2>3, <3>1 DEF WayIn
  <2> QED
    BY <2>4
<1>3. Nat \subseteq S
  <2> HIDE DEF S
  <2> QED
    BY <1>1, <1>2, SetInduction
<1> QED
  BY <1>3

\* What comes in is what the last middleware makes of what the one before did.
Steps(after, stack, req, cell, v) ==
    /\ after[0] = I!NewContext
    /\ \A i \in 1 .. Len(stack) : after[i] = I!Through(stack[i], after[i - 1], req, cell, v)
    /\ I!Inbound(stack, req, cell, v) = after[Len(stack)]

LEMMA InboundSteps ==
    ASSUME NEW stack, NEW req, NEW cell, NEW v, Len(stack) \in Nat
    PROVE  \E after : Steps(after, stack, req, cell, v)
<1> DEFINE n == Len(stack)
<1> DEFINE after == CHOOSE f : WayIn(f, n, stack, req, cell, v)
<1>1. WayIn(after, n, stack, req, cell, v)
  BY WayInExists
<1>2. I!Inbound(stack, req, cell, v) = after[n]
  BY DEF I!Inbound, WayIn
<1> HIDE DEF after
<1>3. after[0] = I!NewContext
  BY <1>1 DEF WayIn
<1>4. \A i \in 1 .. n : after[i] = I!Through(stack[i], after[i - 1], req, cell, v)
  BY <1>1 DEF WayIn
<1>5. Steps(after, stack, req, cell, v)
  BY <1>2, <1>3, <1>4 DEF Steps
<1> QED
  BY <1>5

\* The contexts as the n innermost middleware are left.
WayOut(left, n, stack, ctx, req) ==
    left = [i \in 0 .. n |->
               IF i = 0 THEN ctx
               ELSE I!Leave(stack[ctx.entered + 1 - i], left[i - 1], req)]

LEMMA WayOutExists ==
    ASSUME NEW stack, NEW ctx, NEW req, NEW n \in Nat
    PROVE  \E left : WayOut(left, n, stack, ctx, req)
<1> DEFINE S == {m \in Nat : \E left : WayOut(left, m, stack, ctx, req)}
<1>1. 0 \in S
  <2>1. WayOut([i \in 0 .. 0 |-> ctx], 0, stack, ctx, req)
    BY DEF WayOut
  <2> QED
    BY <2>1
<1>2. ASSUME NEW m \in Nat, m \in S PROVE m + 1 \in S
  <2>1. PICK k : WayOut(k, m, stack, ctx, req)
    BY <1>2
  <2> DEFINE next == I!Leave(stack[ctx.entered + 1 - (m + 1)], k[m], req)
             g == [i \in 0 .. m + 1 |-> IF i = m + 1 THEN next ELSE k[i]]
  <2>2. \A i \in 0 .. m : g[i] = k[i]
    OBVIOUS
  <2>3. \A i \in 0 .. m + 1 :
           g[i] = IF i = 0 THEN ctx
                  ELSE I!Leave(stack[ctx.entered + 1 - i], g[i - 1], req)
    <3> TAKE i \in 0 .. m + 1
    <3>1. CASE i = m + 1
      <4>1. g[i] = next /\ g[i - 1] = k[m] /\ i # 0
        BY <3>1, <2>2
      <4> HIDE DEF g
      <4> QED
        BY <3>1, <4>1
    <3>2. CASE i # m + 1
      <4>1. i \in 0 .. m /\ g[i] = k[i] /\ (i # 0 => g[i - 1] = k[i - 1])
        BY <3>2, <2>2
      <4> HIDE DEF g
      <4> QED
        BY <2>1, <4>1 DEF WayOut
    <3> QED
      BY <3>1, <3>2
  <2>4. WayOut(g, m + 1, stack, ctx, req)
    <3>1. g = [i \in 0 .. m + 1 |-> g[i]]
      OBVIOUS
    <3> HIDE DEF g
    <3> QED
      BY <2>3, <3>1 DEF WayOut
  <2> QED
    BY <2>4
<1>3. Nat \subseteq S
  <2> HIDE DEF S
  <2> QED
    BY <1>1, <1>2, SetInduction
<1> QED
  BY <1>3

LEMMA OutboundSteps ==
    ASSUME NEW stack, NEW ctx, NEW req, ctx.entered \in Nat
    PROVE  \E left :
              /\ left[0] = ctx
              /\ \A i \in 1 .. ctx.entered :
                    left[i] = I!Leave(stack[ctx.entered + 1 - i], left[i - 1], req)
              /\ I!Outbound(stack, ctx, req) = left[ctx.entered]
<1> DEFINE n == ctx.entered
<1> DEFINE left == CHOOSE f : WayOut(f, n, stack, ctx, req)
<1>1. WayOut(left, n, stack, ctx, req)
  BY WayOutExists
<1>2. I!Outbound(stack, ctx, req) = left[n]
  BY DEF I!Outbound, WayOut
<1> HIDE DEF left
<1>3. left[0] = ctx
  BY <1>1 DEF WayOut
<1>4. \A i \in 1 .. n : left[i] = I!Leave(stack[n + 1 - i], left[i - 1], req)
  BY <1>1 DEF WayOut
<1> QED
  BY <1>2, <1>3, <1>4

\* Where the Inertia middleware was not entered nothing changes on the way out.
LEMMA OutboundPlain ==
    ASSUME NEW stack, NEW ctx, NEW req, ctx.entered \in Nat,
           \A i \in 1 .. ctx.entered : stack[i] # "inertia"
    PROVE  I!Outbound(stack, ctx, req) = ctx
<1>0. PICK n \in Nat : n = ctx.entered
  OBVIOUS
<1>1. PICK left : /\ left[0] = ctx
                  /\ \A i \in 1 .. n : left[i] = I!Leave(stack[n + 1 - i], left[i - 1], req)
                  /\ I!Outbound(stack, ctx, req) = left[n]
  BY <1>0, OutboundSteps
<1> DEFINE S == {i \in Nat : i <= n => left[i] = ctx}
<1>2. 0 \in S
  BY <1>1
<1>3. ASSUME NEW i \in Nat, i \in S PROVE i + 1 \in S
  <2>1. CASE i + 1 <= n
    <3>1. i + 1 \in 1 .. n /\ (i + 1) - 1 = i /\ n + 1 - (i + 1) \in 1 .. n
      BY <2>1
    <3>2. left[i + 1] = I!Leave(stack[n + 1 - (i + 1)], left[i], req)
      BY <1>1, <3>1
    <3>3. left[i + 1] = left[i]
      BY <1>0, <3>1, <3>2 DEF I!Leave
    <3> QED
      BY <1>3, <2>1, <3>3
  <2> QED
    BY <2>1
<1>4. Nat \subseteq S
  <2> HIDE DEF S
  <2> QED
    BY <1>2, <1>3, SetInduction
<1> QED
  BY <1>1, <1>4

-----------------------------------------------------------------------------
(***************************************************************************)
(* Requests, contexts, work: their fields                                  *)
(***************************************************************************)

IsRequest(r) ==
    r = [method |-> r.method, path |-> r.path, id |-> r.id, body |-> r.body,
         token |-> r.token, inertia |-> r.inertia, version |-> r.version,
         partial |-> r.partial, only |-> r.only, submission |-> r.submission]

IsContext(x) ==
    x = [auth |-> x.auth, database |-> x.database, session |-> x.session,
         inertia |-> x.inertia, outcome |-> x.outcome, entered |-> x.entered]

IsWork(w) ==
    w = [checks |-> w.checks, errors |-> w.errors, seen |-> w.seen, raced |-> w.raced,
         total |-> w.total, came |-> w.came, gone |-> w.gone, data |-> w.data,
         rows |-> w.rows, related |-> w.related, wrote |-> w.wrote, refused |-> w.refused]

IsService(s) ==
    /\ s = [pc |-> s.pc, req |-> s.req, action |-> s.action, stack |-> s.stack,
            ctx |-> s.ctx, work |-> s.work]
    /\ IsRequest(s.req) /\ IsContext(s.ctx) /\ IsWork(s.work)

\* The same request, between the same middleware.
SameService(s, t) ==
    /\ IsService(t) /\ t.req = s.req /\ t.action = s.action /\ t.stack = s.stack
    /\ t.ctx.auth = s.ctx.auth /\ t.ctx.database = s.ctx.database
    /\ t.ctx.session = s.ctx.session /\ t.ctx.inertia = s.ctx.inertia
    /\ t.ctx.entered = s.ctx.entered

LEMMA ServicePc ==
    ASSUME NEW s, IsService(s), NEW pc
    PROVE  LET t == [s EXCEPT !.pc = pc]
           IN  /\ IsService(t) /\ t.pc = pc /\ t.req = s.req /\ t.action = s.action
               /\ t.stack = s.stack /\ t.ctx = s.ctx /\ t.work = s.work
BY DEF IsService

LEMMA ServiceContext ==
    ASSUME NEW s, IsService(s), NEW x, IsContext(x)
    PROVE  LET t == [s EXCEPT !.ctx = x]
           IN  /\ IsService(t) /\ t.pc = s.pc /\ t.req = s.req /\ t.action = s.action
               /\ t.stack = s.stack /\ t.ctx = x /\ t.work = s.work
BY DEF IsService

LEMMA ServiceWork ==
    ASSUME NEW s, IsService(s), NEW w, IsWork(w)
    PROVE  LET t == [s EXCEPT !.work = w]
           IN  /\ IsService(t) /\ t.pc = s.pc /\ t.req = s.req /\ t.action = s.action
               /\ t.stack = s.stack /\ t.ctx = s.ctx /\ t.work = w
BY DEF IsService

LEMMA FinishFields ==
    ASSUME NEW s, IsService(s), NEW o
    PROVE  /\ SameService(s, Finish(s, o))
           /\ Finish(s, o).pc = "answer" /\ Finish(s, o).ctx.outcome = o
           /\ Finish(s, o).work = s.work
<1>1. IsContext(s.ctx)
  BY DEF IsService
<1>2. PICK x : x = [s.ctx EXCEPT !.outcome = o]
  OBVIOUS
<1>3. /\ IsContext(x) /\ x.outcome = o
      /\ x.auth = s.ctx.auth /\ x.database = s.ctx.database /\ x.session = s.ctx.session
      /\ x.inertia = s.ctx.inertia /\ x.entered = s.ctx.entered
  BY <1>1, <1>2 DEF IsContext
<1>4. PICK u : u = [s EXCEPT !.pc = "answer"]
  OBVIOUS
<1>5. /\ IsService(u) /\ u.pc = "answer" /\ u.req = s.req /\ u.action = s.action
      /\ u.stack = s.stack /\ u.ctx = s.ctx /\ u.work = s.work
  BY <1>4, ServicePc
<1>6. Finish(s, o) = [u EXCEPT !.ctx.outcome = o]
  BY <1>4 DEF Finish
<1>7. [u EXCEPT !.ctx.outcome = o] = [u EXCEPT !.ctx = x]
  <2>1. [u EXCEPT !.ctx.outcome = o] = [u EXCEPT !.ctx = [u.ctx EXCEPT !.outcome = o]]
    BY <1>5 DEF IsService
  <2> QED
    BY <1>2, <1>5, <2>1
<1>8. LET t == [u EXCEPT !.ctx = x]
      IN  IsService(t) /\ t.pc = u.pc /\ t.req = u.req /\ t.action = u.action
          /\ t.stack = u.stack /\ t.ctx = x /\ t.work = u.work
  BY <1>3, <1>5, ServiceContext
<1> QED
  BY <1>3, <1>5, <1>6, <1>7, <1>8 DEF SameService

LEMMA GotoFields ==
    ASSUME NEW s, IsService(s), NEW pc
    PROVE  /\ SameService(s, Goto(s, pc))
           /\ Goto(s, pc).pc = pc /\ Goto(s, pc).ctx = s.ctx /\ Goto(s, pc).work = s.work
BY ServicePc DEF Goto, SameService

LEMMA TakenFields ==
    ASSUME NEW req, IsRequest(req), NEW action, NEW stack, NEW ctx, IsContext(ctx)
    PROVE  LET s == Taken(req, action, stack, ctx)
           IN /\ IsService(s) /\ s.pc = "begin" /\ s.req = req /\ s.action = action
              /\ s.stack = stack /\ s.ctx = ctx /\ s.work = NewWork
<1>1. IsWork(NewWork)
  BY DEF NewWork, IsWork
<1> QED
  BY <1>1 DEF Taken, IsService

-----------------------------------------------------------------------------
(***************************************************************************)
(* The queries of a form                                                   *)
(***************************************************************************)

\* The rules of a field of a form, given its place, where they apply.
Applies(form, input, i, c) ==
    /\ ~(form[i].optional /\ input[form[i].name] = None)
    /\ \E j \in DOMAIN form[i].rules :
          c = [field |-> form[i].name, rule |-> form[i].rules[j]]

Rules(rules) == Len(rules) \in Nat /\ DOMAIN rules = 1 .. Len(rules)

IsForm(form) == /\ Rules(form) /\ Len(form) # 0
                /\ \A i \in DOMAIN form : Rules(form[i].rules)

LEMMA ApplicableRules ==
    ASSUME NEW form, IsForm(form), NEW input
    PROVE  /\ IsSequence(Applicable(form, input))
           /\ \A c : c \in Range(Applicable(form, input))
                     <=> \E i \in DOMAIN form : Applies(form, input, i, c)
<1>0. PICK n \in Nat : n = Len(form) /\ n # 0 /\ DOMAIN form = 1 .. n
  BY DEF IsForm, Rules
<1> DEFINE Of(i) == IF form[i].optional /\ input[form[i].name] = None THEN <<>>
                    ELSE [j \in DOMAIN form[i].rules |->
                            [field |-> form[i].name, rule |-> form[i].rules[j]]]
           seqs == [i \in DOMAIN form |-> Of(i)]
           T == UNION {Range(seqs[i]) : i \in 1 .. n}
<1>1. ASSUME NEW i \in 1 .. n
      PROVE  /\ seqs[i] \in Seq(Range(seqs[i]))
             /\ \A c : c \in Range(seqs[i]) <=> Applies(form, input, i, c)
  <2>1. seqs[i] = Of(i)
    BY <1>0
  <2>2. CASE form[i].optional /\ input[form[i].name] = None
    <3>1. seqs[i] = <<>>
      BY <2>1, <2>2
    <3> HIDE DEF seqs
    <3> QED
      BY <2>2, <3>1 DEF Applies, Range
  <2>3. CASE ~(form[i].optional /\ input[form[i].name] = None)
    <3>1. PICK m \in Nat : DOMAIN form[i].rules = 1 .. m
      BY <1>0 DEF IsForm, Rules
    <3>2. seqs[i] = [j \in 1 .. m |-> [field |-> form[i].name, rule |-> form[i].rules[j]]]
      BY <2>1, <2>3, <3>1
    <3> HIDE DEF seqs
    <3>3. \A j \in 1 .. m : seqs[i][j] \in Range(seqs[i])
      BY <3>2 DEF Range
    <3>4. seqs[i] \in Seq(Range(seqs[i]))
      <4>1. seqs[i] \in [1 .. m -> Range(seqs[i])]
        BY <3>2, <3>3
      <4> QED
        BY <4>1
    <3> QED
      BY <2>3, <3>1, <3>2, <3>4 DEF Applies, Range
  <2> QED
    BY <2>2, <2>3
<1>2. Applicable(form, input) = FlattenSeq(seqs)
  BY DEF Applicable
<1>3. Len(seqs) = n
  <2>1. seqs \in Seq({Of(i) : i \in 1 .. n})
    <3>1. PICK S : S = {Of(i) : i \in 1 .. n}
      OBVIOUS
    <3>2. seqs \in [1 .. n -> S]
      BY <1>0, <3>1
    <3> HIDE DEF seqs
    <3>3. seqs \in Seq(S)
      BY <3>2
    <3> QED
      BY <3>1, <3>3
  <2>2. DOMAIN seqs = 1 .. n
    BY <1>0
  <2> HIDE DEF seqs
  <2> QED
    BY <2>1, <2>2
<1> HIDE DEF seqs
<1>4. \A i \in 1 .. n : Range(seqs[i]) \subseteq T
  OBVIOUS
<1>5. \A i \in 1 .. n : seqs[i] \in Seq(T)
  BY <1>1, <1>4
<1> HIDE DEF T
<1>6. FlattenSeq(seqs) \in Seq(T)
      /\ Range(FlattenSeq(seqs)) = UNION {Range(seqs[i]) : i \in 1 .. n}
  BY <1>0, <1>3, <1>5, FlattenSequence
<1>7. IsSequence(FlattenSeq(seqs))
  BY <1>6, SequenceOf
<1> QED
  BY <1>0, <1>1, <1>2, <1>6, <1>7

LEMMA QueriesOf ==
    ASSUME NEW form, IsForm(form), NEW input
    PROVE  /\ IsSequence(AsyncChecks(form, input))
           /\ \A c : c \in Range(AsyncChecks(form, input))
                     <=> /\ \E i \in DOMAIN form : Applies(form, input, i, c)
                         /\ IsAsync(c.rule)
                         /\ c.field \notin DOMAIN ValidateSync(form, input)
<1>1. PICK s : s = Applicable(form, input)
  OBVIOUS
<1>2. IsSequence(s) /\ \A c : c \in Range(s) <=> \E i \in DOMAIN form : Applies(form, input, i, c)
  BY <1>1, ApplicableRules
<1> DEFINE failed == DOMAIN ValidateSync(form, input)
           left == {c \in ToSet(s) : IsAsync(c.rule) /\ c.field \notin failed}
<1>3. AsyncChecks(form, input) = Among(s, left)
  BY <1>1 DEF AsyncChecks
<1>4. Among(s, left) \in Seq(Range(s)) /\ Range(Among(s, left)) = Range(s) \cap left
  BY <1>2, AmongType DEF IsSequence
<1>5. ToSet(s) = Range(s)
  BY DEF ToSet, Range
<1>6. IsSequence(Among(s, left))
  BY <1>4, SequenceOf
<1> QED
  BY <1>2, <1>3, <1>4, <1>5, <1>6

FreeEmail == [field |-> "email", rule |-> UniqueRule(FALSE)]
FreeOrOwnEmail == [field |-> "email", rule |-> UniqueRule(TRUE)]
TeamExists == [field |-> "team_id", rule |-> Rule("exists")]

\* The form of a page makes none.
LEMMA StorePostQueries ==
    ASSUME NEW input
    PROVE  AsyncChecks(StorePost, input) = <<>>
<1>1. PICK f : f = Field("title", FALSE, <<LengthRule(3, None)>>)
  OBVIOUS
<1>2. /\ f.name = "title" /\ DOMAIN f.rules = 1 .. 1 /\ Rules(f.rules)
      /\ f.rules[1] = LengthRule(3, None)
  BY <1>1 DEF Field, Rules
<1>3. ~IsAsync(LengthRule(3, None))
  BY DEF IsAsync, LengthRule
<1>4. PICK form : form = StorePost
  OBVIOUS
<1>5. Len(form) = 1 /\ DOMAIN form = 1 .. 1 /\ form[1] = f
  <2>1. form = <<f>>
    BY <1>1, <1>4 DEF StorePost
  <2> QED
    BY <2>1
<1>6. IsForm(form)
  <2>1. \A i \in DOMAIN form : Rules(form[i].rules)
    BY <1>2, <1>5
  <2> QED
    BY <1>2, <1>5, <2>1 DEF IsForm, Rules
<1>7. /\ IsSequence(AsyncChecks(form, input))
      /\ \A c : c \in Range(AsyncChecks(form, input))
                => (\E i \in DOMAIN form : Applies(form, input, i, c)) /\ IsAsync(c.rule)
  BY <1>6, QueriesOf
<1>8. ASSUME NEW c \in Range(AsyncChecks(form, input)) PROVE FALSE
  <2>1. PICK j \in DOMAIN f.rules : c = [field |-> f.name, rule |-> f.rules[j]]
    BY <1>5, <1>7 DEF Applies
  <2>2. j = 1
    BY <1>2, <2>1
  <2>3. c.rule = LengthRule(3, None)
    BY <1>2, <2>1, <2>2
  <2> QED
    BY <1>3, <1>7, <2>3
<1>9. AsyncChecks(form, input) = <<>>
  BY <1>7, <1>8 DEF IsSequence, Range
<1> QED
  BY <1>4, <1>9

\* A registration asks for its address, and for its team.
LEMMA StoreUserQueries ==
    ASSUME NEW input
    PROVE  LET checks == AsyncChecks(StoreUser, input)
           IN /\ IsSequence(checks) /\ Range(checks) \subseteq {FreeEmail, TeamExists}
              /\ \/ "email" \in DOMAIN ValidateSync(StoreUser, input)
                 \/ FreeEmail \in Range(checks)
<1>0. PICK u : u = UniqueRule(FALSE) /\ FreeEmail = [field |-> "email", rule |-> u]
  BY DEF FreeEmail
<1>1. PICK f1, f2, f3, f4 :
         /\ f1 = Field("name", FALSE, <<LengthRule(2, 64), CustomRule({"A"})>>)
         /\ f2 = Field("email", FALSE, <<Rule("email"), UniqueRule(FALSE)>>)
         /\ f3 = Field("team_id", FALSE, <<Rule("exists")>>)
         /\ f4 = Field("age", TRUE, <<RangeRule(18, 120)>>)
  OBVIOUS
<1>2. /\ DOMAIN f1.rules = 1 .. 2 /\ Rules(f1.rules) /\ f1.rules[1] = LengthRule(2, 64)
      /\ f1.rules[2] = CustomRule({"A"})
  BY <1>1 DEF Field, Rules
<1>3. /\ f2.name = "email" /\ f2.optional = FALSE /\ DOMAIN f2.rules = 1 .. 2 /\ Rules(f2.rules)
      /\ f2.rules[1] = Rule("email") /\ f2.rules[2] = u
  BY <1>0, <1>1 DEF Field, Rules
<1>4. f3.name = "team_id" /\ DOMAIN f3.rules = 1 .. 1 /\ Rules(f3.rules) /\ f3.rules[1] = Rule("exists")
  BY <1>1 DEF Field, Rules
<1>5. DOMAIN f4.rules = 1 .. 1 /\ Rules(f4.rules) /\ f4.rules[1] = RangeRule(18, 120)
  BY <1>1 DEF Field, Rules
<1>6. /\ ~IsAsync(LengthRule(2, 64)) /\ ~IsAsync(CustomRule({"A"})) /\ ~IsAsync(Rule("email"))
      /\ ~IsAsync(RangeRule(18, 120)) /\ IsAsync(u)
  BY <1>0 DEF IsAsync, LengthRule, CustomRule, Rule, RangeRule, UniqueRule
<1>7. PICK form : form = StoreUser
  OBVIOUS
<1>8. /\ Len(form) = 4 /\ DOMAIN form = 1 .. 4
      /\ form[1] = f1 /\ form[2] = f2 /\ form[3] = f3 /\ form[4] = f4
  <2>1. form = <<f1, f2, f3, f4>>
    BY <1>1, <1>7 DEF StoreUser
  <2> QED
    BY <2>1
<1>9. IsForm(form)
  <2>1. \A i \in DOMAIN form : Rules(form[i].rules)
    BY <1>2, <1>3, <1>4, <1>5, <1>8
  <2> QED
    BY <1>2, <1>3, <1>4, <1>5, <1>8, <2>1 DEF IsForm, Rules
<1>10. /\ IsSequence(AsyncChecks(form, input))
       /\ \A c : c \in Range(AsyncChecks(form, input))
                 <=> /\ \E i \in DOMAIN form : Applies(form, input, i, c)
                     /\ IsAsync(c.rule)
                     /\ c.field \notin DOMAIN ValidateSync(form, input)
  BY <1>9, QueriesOf
<1>11. ASSUME NEW c \in Range(AsyncChecks(form, input))
       PROVE  c = FreeEmail \/ c = TeamExists
  <2>1. PICK i \in DOMAIN form : Applies(form, input, i, c)
    BY <1>10
  <2>2. PICK j \in DOMAIN form[i].rules :
           c = [field |-> form[i].name, rule |-> form[i].rules[j]]
    BY <2>1 DEF Applies
  <2>3. IsAsync(form[i].rules[j])
    BY <1>10, <2>2
  <2>4. i = 1 \/ i = 2 \/ i = 3 \/ i = 4
    BY <1>8
  <2>5. CASE i = 1
    <3>1. form[i].rules = f1.rules /\ j \in 1 .. 2
      BY <1>2, <1>8, <2>2, <2>5
    <3>2. j = 1 \/ j = 2
      BY <3>1
    <3>3. form[i].rules[j] = LengthRule(2, 64) \/ form[i].rules[j] = CustomRule({"A"})
      BY <1>2, <3>1, <3>2
    <3> QED
      BY <1>6, <2>3, <3>3
  <2>6. CASE i = 2
    <3>1. form[i].rules = f2.rules /\ form[i].name = "email" /\ j \in 1 .. 2
      BY <1>3, <1>8, <2>2, <2>6
    <3>2. j = 1 \/ j = 2
      BY <3>1
    <3>3. form[i].rules[j] = Rule("email") \/ form[i].rules[j] = u
      BY <1>0, <1>3, <3>1, <3>2
    <3>4. form[i].rules[j] = u
      BY <1>6, <2>3, <3>3
    <3> QED
      BY <1>0, <2>2, <3>1, <3>4
  <2>7. CASE i = 3
    BY <1>4, <1>8, <2>2, <2>7 DEF TeamExists
  <2>8. CASE i = 4
    BY <1>5, <1>6, <1>8, <2>2, <2>3, <2>8
  <2> QED
    BY <2>4, <2>5, <2>6, <2>7, <2>8
<1>12. Applies(form, input, 2, FreeEmail)
  <2>1. 2 \in DOMAIN form[2].rules
        /\ FreeEmail = [field |-> form[2].name, rule |-> form[2].rules[2]]
    <3>1. form[2].name = "email" /\ form[2].rules = f2.rules
      BY <1>0, <1>3, <1>8
    <3>2. 2 \in DOMAIN form[2].rules
      BY <1>0, <1>3, <1>8, <3>1
    <3>3. form[2].rules[2] = u
      BY <1>0, <1>3, <1>8, <3>1
    <3> QED
      BY <1>0, <3>1, <3>2, <3>3
  <2> QED
    BY <1>3, <1>8, <2>1 DEF Applies
<1>13. "email" \in DOMAIN ValidateSync(form, input)
       \/ FreeEmail \in Range(AsyncChecks(form, input))
  <2>1. FreeEmail.field = "email" /\ FreeEmail.rule = u
    BY <1>0
  <2>2. 2 \in DOMAIN form
    BY <1>8
  <2> QED
    BY <1>6, <1>10, <1>12, <2>1, <2>2
<1> QED
  BY <1>7, <1>10, <1>11, <1>13

\* A change asks for its address, the row it changes aside.
LEMMA UpdateUserQueries ==
    ASSUME NEW input
    PROVE  LET checks == AsyncChecks(UpdateUser, input)
           IN /\ IsSequence(checks) /\ Range(checks) \subseteq {FreeOrOwnEmail}
              /\ \/ "email" \in DOMAIN ValidateSync(UpdateUser, input)
                 \/ FreeOrOwnEmail \in Range(checks)
<1>0. PICK u : u = UniqueRule(TRUE) /\ FreeOrOwnEmail = [field |-> "email", rule |-> u]
  BY DEF FreeOrOwnEmail
<1>1. PICK f : f = Field("email", FALSE, <<Rule("email"), UniqueRule(TRUE)>>)
  OBVIOUS
<1>2. /\ f.name = "email" /\ f.optional = FALSE /\ DOMAIN f.rules = 1 .. 2 /\ Rules(f.rules)
      /\ f.rules[1] = Rule("email") /\ f.rules[2] = u
  BY <1>0, <1>1 DEF Field, Rules
<1>3. ~IsAsync(Rule("email")) /\ IsAsync(u)
  BY <1>0 DEF IsAsync, Rule, UniqueRule
<1>4. PICK form : form = UpdateUser
  OBVIOUS
<1>5. Len(form) = 1 /\ DOMAIN form = 1 .. 1 /\ form[1] = f
  <2>1. form = <<f>>
    BY <1>1, <1>4 DEF UpdateUser
  <2> QED
    BY <2>1
<1>6. IsForm(form)
  <2>1. \A i \in DOMAIN form : Rules(form[i].rules)
    BY <1>2, <1>5
  <2> QED
    BY <1>2, <1>5, <2>1 DEF IsForm, Rules
<1>7. /\ IsSequence(AsyncChecks(form, input))
      /\ \A c : c \in Range(AsyncChecks(form, input))
                <=> /\ \E i \in DOMAIN form : Applies(form, input, i, c)
                    /\ IsAsync(c.rule)
                    /\ c.field \notin DOMAIN ValidateSync(form, input)
  BY <1>6, QueriesOf
<1>8. ASSUME NEW c \in Range(AsyncChecks(form, input)) PROVE c = FreeOrOwnEmail
  <2>1. PICK j \in DOMAIN f.rules : c = [field |-> f.name, rule |-> f.rules[j]]
    BY <1>5, <1>7 DEF Applies
  <2>2. IsAsync(f.rules[j])
    BY <1>7, <2>1
  <2>3. j = 1 \/ j = 2
    BY <1>2, <2>1
  <2>4. f.rules[j] = u
    BY <1>2, <1>3, <2>2, <2>3
  <2> QED
    BY <1>0, <1>2, <2>1, <2>4
<1>9. Applies(form, input, 1, FreeOrOwnEmail)
  <2>1. 2 \in DOMAIN form[1].rules
        /\ FreeOrOwnEmail = [field |-> form[1].name, rule |-> form[1].rules[2]]
    <3>1. form[1].name = "email" /\ form[1].rules = f.rules
      BY <1>0, <1>2, <1>5
    <3>2. 2 \in DOMAIN form[1].rules
      BY <1>0, <1>2, <1>5, <3>1
    <3>3. form[1].rules[2] = u
      BY <1>0, <1>2, <1>5, <3>1
    <3> QED
      BY <1>0, <3>1, <3>2, <3>3
  <2> QED
    BY <1>2, <1>5, <2>1 DEF Applies
<1>10. "email" \in DOMAIN ValidateSync(form, input)
       \/ FreeOrOwnEmail \in Range(AsyncChecks(form, input))
  <2>1. FreeOrOwnEmail.field = "email" /\ FreeOrOwnEmail.rule = u
    BY <1>0
  <2>2. 1 \in DOMAIN form
    BY <1>5
  <2> QED
    BY <1>3, <1>7, <1>9, <2>1, <2>2
<1> QED
  BY <1>4, <1>7, <1>8, <1>10

\* The same request at the same place; only the work on it differs.
Reworked(s, t) ==
    /\ IsService(t) /\ t.pc = s.pc /\ t.req = s.req /\ t.action = s.action
    /\ t.stack = s.stack /\ t.ctx = s.ctx

LEMMA WorkIs ==
    ASSUME NEW s, IsService(s), NEW w, IsWork(w)
    PROVE  Reworked(s, [s EXCEPT !.work = w]) /\ [s EXCEPT !.work = w].work = w
BY ServiceWork DEF Reworked

SetChecks(s, v) == [s EXCEPT !.work.checks = v]
SetErrors(s, v) == [s EXCEPT !.work.errors = v]
SetSeen(s, v) == [s EXCEPT !.work.seen = v]
SetRaced(s, v) == [s EXCEPT !.work.raced = v]
SetTotal(s, v) == [s EXCEPT !.work.total = v]
SetCame(s, v) == [s EXCEPT !.work.came = v]
SetGone(s, v) == [s EXCEPT !.work.gone = v]
SetData(s, v) == [s EXCEPT !.work.data = v]
SetRows(s, v) == [s EXCEPT !.work.rows = v]
SetRelated(s, v) == [s EXCEPT !.work.related = v]
SetWrote(s, v) == [s EXCEPT !.work.wrote = v]
SetRefused(s, v) == [s EXCEPT !.work.refused = v]

LEMMA SetsChecks ==
    ASSUME NEW s, IsService(s), NEW v
    PROVE  Reworked(s, SetChecks(s, v)) /\ SetChecks(s, v).work = [s.work EXCEPT !.checks = v]
<1>1. PICK w : w = s.work
  OBVIOUS
<1>2. [s EXCEPT !.work.checks = v] = [s EXCEPT !.work = [s.work EXCEPT !.checks = v]]
  BY DEF IsService
<1>3. IsWork([w EXCEPT !.checks = v])
  BY <1>1 DEF IsWork, IsService
<1> QED
  BY <1>1, <1>2, <1>3, WorkIs DEF SetChecks

LEMMA SetsErrors ==
    ASSUME NEW s, IsService(s), NEW v
    PROVE  Reworked(s, SetErrors(s, v)) /\ SetErrors(s, v).work = [s.work EXCEPT !.errors = v]
<1>1. PICK w : w = s.work
  OBVIOUS
<1>2. [s EXCEPT !.work.errors = v] = [s EXCEPT !.work = [s.work EXCEPT !.errors = v]]
  BY DEF IsService
<1>3. IsWork([w EXCEPT !.errors = v])
  BY <1>1 DEF IsWork, IsService
<1> QED
  BY <1>1, <1>2, <1>3, WorkIs DEF SetErrors

LEMMA SetsSeen ==
    ASSUME NEW s, IsService(s), NEW v
    PROVE  Reworked(s, SetSeen(s, v)) /\ SetSeen(s, v).work = [s.work EXCEPT !.seen = v]
<1>1. PICK w : w = s.work
  OBVIOUS
<1>2. [s EXCEPT !.work.seen = v] = [s EXCEPT !.work = [s.work EXCEPT !.seen = v]]
  BY DEF IsService
<1>3. IsWork([w EXCEPT !.seen = v])
  BY <1>1 DEF IsWork, IsService
<1> QED
  BY <1>1, <1>2, <1>3, WorkIs DEF SetSeen

LEMMA SetsRaced ==
    ASSUME NEW s, IsService(s), NEW v
    PROVE  Reworked(s, SetRaced(s, v)) /\ SetRaced(s, v).work = [s.work EXCEPT !.raced = v]
<1>1. PICK w : w = s.work
  OBVIOUS
<1>2. [s EXCEPT !.work.raced = v] = [s EXCEPT !.work = [s.work EXCEPT !.raced = v]]
  BY DEF IsService
<1>3. IsWork([w EXCEPT !.raced = v])
  BY <1>1 DEF IsWork, IsService
<1> QED
  BY <1>1, <1>2, <1>3, WorkIs DEF SetRaced

LEMMA SetsTotal ==
    ASSUME NEW s, IsService(s), NEW v
    PROVE  Reworked(s, SetTotal(s, v)) /\ SetTotal(s, v).work = [s.work EXCEPT !.total = v]
<1>1. PICK w : w = s.work
  OBVIOUS
<1>2. [s EXCEPT !.work.total = v] = [s EXCEPT !.work = [s.work EXCEPT !.total = v]]
  BY DEF IsService
<1>3. IsWork([w EXCEPT !.total = v])
  BY <1>1 DEF IsWork, IsService
<1> QED
  BY <1>1, <1>2, <1>3, WorkIs DEF SetTotal

LEMMA SetsCame ==
    ASSUME NEW s, IsService(s), NEW v
    PROVE  Reworked(s, SetCame(s, v)) /\ SetCame(s, v).work = [s.work EXCEPT !.came = v]
<1>1. PICK w : w = s.work
  OBVIOUS
<1>2. [s EXCEPT !.work.came = v] = [s EXCEPT !.work = [s.work EXCEPT !.came = v]]
  BY DEF IsService
<1>3. IsWork([w EXCEPT !.came = v])
  BY <1>1 DEF IsWork, IsService
<1> QED
  BY <1>1, <1>2, <1>3, WorkIs DEF SetCame

LEMMA SetsGone ==
    ASSUME NEW s, IsService(s), NEW v
    PROVE  Reworked(s, SetGone(s, v)) /\ SetGone(s, v).work = [s.work EXCEPT !.gone = v]
<1>1. PICK w : w = s.work
  OBVIOUS
<1>2. [s EXCEPT !.work.gone = v] = [s EXCEPT !.work = [s.work EXCEPT !.gone = v]]
  BY DEF IsService
<1>3. IsWork([w EXCEPT !.gone = v])
  BY <1>1 DEF IsWork, IsService
<1> QED
  BY <1>1, <1>2, <1>3, WorkIs DEF SetGone

LEMMA SetsData ==
    ASSUME NEW s, IsService(s), NEW v
    PROVE  Reworked(s, SetData(s, v)) /\ SetData(s, v).work = [s.work EXCEPT !.data = v]
<1>1. PICK w : w = s.work
  OBVIOUS
<1>2. [s EXCEPT !.work.data = v] = [s EXCEPT !.work = [s.work EXCEPT !.data = v]]
  BY DEF IsService
<1>3. IsWork([w EXCEPT !.data = v])
  BY <1>1 DEF IsWork, IsService
<1> QED
  BY <1>1, <1>2, <1>3, WorkIs DEF SetData

LEMMA SetsRows ==
    ASSUME NEW s, IsService(s), NEW v
    PROVE  Reworked(s, SetRows(s, v)) /\ SetRows(s, v).work = [s.work EXCEPT !.rows = v]
<1>1. PICK w : w = s.work
  OBVIOUS
<1>2. [s EXCEPT !.work.rows = v] = [s EXCEPT !.work = [s.work EXCEPT !.rows = v]]
  BY DEF IsService
<1>3. IsWork([w EXCEPT !.rows = v])
  BY <1>1 DEF IsWork, IsService
<1> QED
  BY <1>1, <1>2, <1>3, WorkIs DEF SetRows

LEMMA SetsRelated ==
    ASSUME NEW s, IsService(s), NEW v
    PROVE  Reworked(s, SetRelated(s, v)) /\ SetRelated(s, v).work = [s.work EXCEPT !.related = v]
<1>1. PICK w : w = s.work
  OBVIOUS
<1>2. [s EXCEPT !.work.related = v] = [s EXCEPT !.work = [s.work EXCEPT !.related = v]]
  BY DEF IsService
<1>3. IsWork([w EXCEPT !.related = v])
  BY <1>1 DEF IsWork, IsService
<1> QED
  BY <1>1, <1>2, <1>3, WorkIs DEF SetRelated

LEMMA SetsWrote ==
    ASSUME NEW s, IsService(s), NEW v
    PROVE  Reworked(s, SetWrote(s, v)) /\ SetWrote(s, v).work = [s.work EXCEPT !.wrote = v]
<1>1. PICK w : w = s.work
  OBVIOUS
<1>2. [s EXCEPT !.work.wrote = v] = [s EXCEPT !.work = [s.work EXCEPT !.wrote = v]]
  BY DEF IsService
<1>3. IsWork([w EXCEPT !.wrote = v])
  BY <1>1 DEF IsWork, IsService
<1> QED
  BY <1>1, <1>2, <1>3, WorkIs DEF SetWrote

LEMMA SetsRefused ==
    ASSUME NEW s, IsService(s), NEW v
    PROVE  Reworked(s, SetRefused(s, v)) /\ SetRefused(s, v).work = [s.work EXCEPT !.refused = v]
<1>1. PICK w : w = s.work
  OBVIOUS
<1>2. [s EXCEPT !.work.refused = v] = [s EXCEPT !.work = [s.work EXCEPT !.refused = v]]
  BY DEF IsService
<1>3. IsWork([w EXCEPT !.refused = v])
  BY <1>1 DEF IsWork, IsService
<1> QED
  BY <1>1, <1>2, <1>3, WorkIs DEF SetRefused

-----------------------------------------------------------------------------
(***************************************************************************)
(* What each middleware lets in                                            *)
(***************************************************************************)

Refused == I!Err("unauthorized", <<>>)

\* What a token guard makes of a context: a refusal, or who is asking.
Guarded(x, ctx, req) ==
    /\ IsContext(x) /\ x.session = ctx.session /\ x.inertia = ctx.inertia
    /\ x.database = ctx.database
    /\ \/ x.outcome = Refused /\ x.entered = ctx.entered
       \/ /\ x.outcome = I!Running /\ x.entered = ctx.entered + 1
          /\ IF req.token = None THEN x.auth = ctx.auth
             ELSE req.token.valid /\ x.auth = req.token.subject

LEMMA RefusedIsNotRunning == Refused # I!Running
<1>1. Refused.kind = "unauthorized" /\ I!Running.kind = "running"
  BY DEF Refused, I!Err, I!Running
<1> QED
  BY <1>1

LEMMA ThroughDatabase ==
    ASSUME NEW req, NEW cell, NEW v,
           NEW first, first = I!Through("database", I!NewContext, req, cell, v)
    PROVE  /\ IsContext(first) /\ first.auth = None /\ first.database = TRUE
           /\ first.session = None /\ first.inertia = None
           /\ first.outcome = I!Running /\ first.entered = 1
<1>1. PICK c : c = I!NewContext
  OBVIOUS
<1>2. /\ IsContext(c) /\ c.auth = None /\ c.session = None
      /\ c.inertia = None /\ c.outcome = I!Running /\ c.entered = 0
  BY <1>1 DEF I!NewContext, IsContext
<1>3. PICK d : d = [c EXCEPT !.database = TRUE]
  OBVIOUS
<1>4. /\ IsContext(d) /\ d.auth = None /\ d.database = TRUE /\ d.session = None
      /\ d.inertia = None /\ d.outcome = I!Running /\ d.entered = 0
  BY <1>2, <1>3 DEF IsContext
<1>5. I!Enter("database", c, req, cell, v) = d
  BY <1>3 DEF I!Enter
<1>6. I!Through("database", c, req, cell, v) = [d EXCEPT !.entered = @ + 1]
  BY <1>2, <1>4, <1>5 DEF I!Through
<1>7. PICK x : x = [d EXCEPT !.entered = @ + 1]
  OBVIOUS
<1>8. /\ IsContext(x) /\ x.auth = None /\ x.database = TRUE /\ x.session = None
      /\ x.inertia = None /\ x.outcome = I!Running /\ x.entered = 1
  BY <1>4, <1>7 DEF IsContext
<1> QED
  BY <1>1, <1>6, <1>7, <1>8

LEMMA HaltFields ==
    ASSUME NEW ctx, IsContext(ctx), NEW o
    PROVE  LET x == I!Halt(ctx, o)
           IN  /\ IsContext(x) /\ x.auth = ctx.auth /\ x.database = ctx.database
               /\ x.session = ctx.session /\ x.inertia = ctx.inertia
               /\ x.outcome = o /\ x.entered = ctx.entered
BY DEF I!Halt, IsContext

LEMMA GuardFields ==
    ASSUME NEW ctx, IsContext(ctx), ctx.outcome = I!Running, NEW req,
           NEW x, x = I!JwtGuard(ctx, req, TRUE) \/ x = I!JwtGuard(ctx, req, FALSE)
    PROVE  /\ IsContext(x) /\ x.session = ctx.session /\ x.inertia = ctx.inertia
           /\ x.database = ctx.database /\ x.entered = ctx.entered
           /\ \/ x.outcome = Refused
              \/ /\ x.outcome = I!Running
                 /\ x = I!JwtGuard(ctx, req, TRUE) => req.token # None
                 /\ IF req.token = None THEN x.auth = ctx.auth
                    ELSE req.token.valid /\ x.auth = req.token.subject
<1>1. PICK h : h = I!Halt(ctx, Refused)
  OBVIOUS
<1>2. /\ IsContext(h) /\ h.session = ctx.session /\ h.inertia = ctx.inertia
      /\ h.database = ctx.database /\ h.entered = ctx.entered /\ h.outcome = Refused
  BY <1>1, HaltFields
<1>3. PICK w : w = [ctx EXCEPT !.auth = req.token.subject]
  OBVIOUS
<1>4. /\ IsContext(w) /\ w.session = ctx.session /\ w.inertia = ctx.inertia
      /\ w.database = ctx.database /\ w.entered = ctx.entered /\ w.outcome = I!Running
      /\ w.auth = req.token.subject
  BY <1>3 DEF IsContext
<1>5. I!JwtGuard(ctx, req, TRUE) =
         IF req.token # None THEN IF req.token.valid THEN w ELSE h ELSE h
  BY <1>1, <1>3 DEF I!JwtGuard, Refused
<1>6. I!JwtGuard(ctx, req, FALSE) =
         IF req.token # None THEN IF req.token.valid THEN w ELSE h ELSE ctx
  BY <1>1, <1>3 DEF I!JwtGuard, Refused
<1>7. h # w /\ h # ctx
  BY <1>2, <1>4, RefusedIsNotRunning
<1> QED
  BY <1>2, <1>4, <1>5, <1>6, <1>7

LEMMA ThroughGuard ==
    ASSUME NEW ctx, IsContext(ctx), NEW n \in Nat, ctx.entered = n, ctx.outcome = I!Running,
           NEW req, NEW cell, NEW v, NEW name \in {"jwt", "optional_jwt"}
    PROVE  LET x == I!Through(name, ctx, req, cell, v)
           IN  /\ Guarded(x, ctx, req)
               /\ name = "jwt" /\ x.outcome = I!Running => req.token # None
<1>1. PICK g : g = I!Enter(name, ctx, req, cell, v)
  OBVIOUS
<1>2. name = "jwt" => g = I!JwtGuard(ctx, req, TRUE)
  BY <1>1 DEF I!Enter
<1>3. name = "optional_jwt" => g = I!JwtGuard(ctx, req, FALSE)
  BY <1>1 DEF I!Enter
<1>4. /\ IsContext(g) /\ g.session = ctx.session /\ g.inertia = ctx.inertia
      /\ g.database = ctx.database /\ g.entered = ctx.entered
      /\ \/ g.outcome = Refused
         \/ /\ g.outcome = I!Running
            /\ g = I!JwtGuard(ctx, req, TRUE) => req.token # None
            /\ IF req.token = None THEN g.auth = ctx.auth
               ELSE req.token.valid /\ g.auth = req.token.subject
  BY <1>2, <1>3, GuardFields, ZenonT(60)
<1>5. PICK w : w = [g EXCEPT !.entered = @ + 1]
  OBVIOUS
<1>6. /\ IsContext(w) /\ w.session = g.session /\ w.inertia = g.inertia /\ w.auth = g.auth
      /\ w.database = g.database /\ w.entered = n + 1 /\ w.outcome = g.outcome
  BY <1>4, <1>5 DEF IsContext
<1>7. I!Through(name, ctx, req, cell, v) = IF g.outcome # I!Running THEN g ELSE w
  BY <1>1, <1>5 DEF I!Through
<1> QED
  BY <1>2, <1>4, <1>6, <1>7, RefusedIsNotRunning DEF Guarded

\* Behind one that has answered nothing is entered.
LEMMA ThroughAnswered ==
    ASSUME NEW ctx, ctx.outcome # I!Running, NEW name, NEW req, NEW cell, NEW v
    PROVE  I!Through(name, ctx, req, cell, v) = ctx
BY DEF I!Through

\* What reaches an action of the API, and what is turned away before.
Admitted(x, n, req, required) ==
    /\ IsContext(x) /\ x.session = None /\ x.inertia = None /\ x.database = TRUE
    /\ x.entered \in 0 .. n
    /\ \/ x.outcome = Refused
       \/ /\ x.outcome = I!Running
          /\ required => req.token # None
          /\ IF req.token = None THEN x.auth = None
             ELSE req.token.valid /\ x.auth = req.token.subject

LEMMA InboundDatabase ==
    ASSUME NEW req, NEW cell, NEW v, req.token = None,
           NEW stack, Len(stack) = 1, stack[1] = "database"
    PROVE  Admitted(I!Inbound(stack, req, cell, v), 1, req, FALSE)
<1>1. Len(stack) \in Nat
  OBVIOUS
<1>2. PICK after : Steps(after, stack, req, cell, v)
  BY <1>1, InboundSteps
<1>3. after[1] = I!Through("database", I!NewContext, req, cell, v)
  BY <1>2 DEF Steps
<1>4. /\ IsContext(after[1]) /\ after[1].auth = None /\ after[1].database = TRUE
      /\ after[1].session = None /\ after[1].inertia = None
      /\ after[1].outcome = I!Running /\ after[1].entered = 1
  <2>1. PICK first : first = after[1]
    OBVIOUS
  <2>2. first = I!Through("database", I!NewContext, req, cell, v)
    BY <1>3, <2>1
  <2>3. /\ IsContext(first) /\ first.auth = None /\ first.database = TRUE
        /\ first.session = None /\ first.inertia = None
        /\ first.outcome = I!Running /\ first.entered = 1
    BY <2>2, ThroughDatabase, ZenonT(60)
  <2> QED
    BY <2>1, <2>3
<1> QED
  BY <1>2, <1>4 DEF Admitted, Steps

LEMMA InboundApi ==
    ASSUME NEW req, NEW cell, NEW v,
           NEW name \in {"jwt", "optional_jwt"}, NEW stack,
           Len(stack) = 2, stack[1] = "database", stack[2] = name
    PROVE  Admitted(I!Inbound(stack, req, cell, v), 2, req, name = "jwt")
<1>1. Len(stack) \in Nat
  OBVIOUS
<1>2. PICK after : Steps(after, stack, req, cell, v)
  BY <1>1, InboundSteps
<1>3. after[1] = I!Through("database", I!NewContext, req, cell, v)
  BY <1>1, <1>2 DEF Steps
<1>4. after[2] = I!Through(name, after[1], req, cell, v)
  BY <1>1, <1>2 DEF Steps
<1>5. /\ IsContext(after[1]) /\ after[1].auth = None /\ after[1].database = TRUE
      /\ after[1].session = None /\ after[1].inertia = None
      /\ after[1].outcome = I!Running /\ after[1].entered = 1
  <2>1. PICK first : first = after[1]
    OBVIOUS
  <2>2. first = I!Through("database", I!NewContext, req, cell, v)
    BY <1>3, <2>1
  <2>3. /\ IsContext(first) /\ first.auth = None /\ first.database = TRUE
        /\ first.session = None /\ first.inertia = None
        /\ first.outcome = I!Running /\ first.entered = 1
    BY <2>2, ThroughDatabase, ZenonT(60)
  <2> QED
    BY <2>1, <2>3
<1>6. /\ Guarded(after[2], after[1], req)
      /\ name = "jwt" /\ after[2].outcome = I!Running => req.token # None
  BY <1>4, <1>5, ThroughGuard
<1> QED
  BY <1>2, <1>5, <1>6, RefusedIsNotRunning DEF Guarded, Admitted, Steps

Listed3(stack, x, y, z) ==
    Len(stack) = 3 /\ stack[1] = x /\ stack[2] = y /\ stack[3] = z

LEMMA InboundBoth ==
    ASSUME NEW req, NEW cell, NEW v, NEW stack, 
           Listed3(stack, "database", "optional_jwt", "jwt")
    PROVE  Admitted(I!Inbound(stack, req, cell, v), 3, req, TRUE)
<1>1. Len(stack) \in Nat
  BY DEF Listed3
<1>2. PICK after : Steps(after, stack, req, cell, v)
  BY <1>1, InboundSteps
<1>0. Len(stack) = 3
  BY DEF Listed3
<1>3. after[1] = I!Through("database", I!NewContext, req, cell, v)
  BY <1>2 DEF Listed3, Steps
<1>4. after[2] = I!Through("optional_jwt", after[1], req, cell, v)
  BY <1>2 DEF Listed3, Steps
<1>5. after[3] = I!Through("jwt", after[2], req, cell, v)
  BY <1>2 DEF Listed3, Steps
<1>6. /\ IsContext(after[1]) /\ after[1].auth = None /\ after[1].database = TRUE
      /\ after[1].session = None /\ after[1].inertia = None
      /\ after[1].outcome = I!Running /\ after[1].entered = 1
  <2>1. PICK first : first = after[1]
    OBVIOUS
  <2>2. first = I!Through("database", I!NewContext, req, cell, v)
    BY <1>3, <2>1
  <2>3. /\ IsContext(first) /\ first.auth = None /\ first.database = TRUE
        /\ first.session = None /\ first.inertia = None
        /\ first.outcome = I!Running /\ first.entered = 1
    BY <2>2, ThroughDatabase
  <2> QED
    BY <2>1, <2>3
<1>7. Guarded(after[2], after[1], req)
  BY <1>4, <1>6, ThroughGuard
<1>8. CASE after[2].outcome = Refused
  <2>1. after[3] = after[2]
    BY <1>5, <1>8, RefusedIsNotRunning, ThroughAnswered
  <2> QED
    BY <1>0, <1>2, <1>6, <1>7, <1>8, <2>1, RefusedIsNotRunning DEF Guarded, Admitted, Steps
<1>9. CASE after[2].outcome = I!Running
  <2>1. IsContext(after[2]) /\ after[2].entered = 2
    BY <1>6, <1>7, <1>9, RefusedIsNotRunning DEF Guarded
  <2>2. /\ Guarded(after[3], after[2], req)
        /\ after[3].outcome = I!Running => req.token # None
    BY <1>5, <1>9, <2>1, ThroughGuard
  <2>3. IF req.token = None THEN after[2].auth = None
        ELSE req.token.valid /\ after[2].auth = req.token.subject
    BY <1>6, <1>7, <1>9, RefusedIsNotRunning DEF Guarded
  <2> QED
    BY <1>0, <1>2, <1>6, <1>7, <2>1, <2>2, <2>3, RefusedIsNotRunning DEF Guarded, Admitted, Steps
<1> QED
  BY <1>7, <1>8, <1>9 DEF Guarded

-----------------------------------------------------------------------------
(***************************************************************************)
(* What the middleware of the pages lets in                                *)
(***************************************************************************)

\* A session as the next request finds it, nobody being signed in.
Cell(d) == d \in I!S!Data /\ d.subject = None

\* The session a request opens: what was flashed is to be shown now.
Opened(d) ==
    [id |-> <<None, 0>>,
     data |-> [subject |-> None, next |-> {}, now |-> d.next, vals |-> d.vals],
     dirty |-> d.next # {} \/ d.now # {}, destroyed |-> FALSE]

LEMMA CellFields ==
    ASSUME NEW d, Cell(d)
    PROVE  /\ d = [subject |-> None, next |-> d.next, now |-> d.now, vals |-> d.vals]
           /\ DOMAIN d.vals = {I!PREVIOUS_URL}
           /\ d.vals = [k \in {I!PREVIOUS_URL} |-> d.vals[I!PREVIOUS_URL]]
BY DEF Cell, I!S!Data

LEMMA OpenedIsThat ==
    ASSUME NEW d, Cell(d)
    PROVE  I!OpenSession(d) = Opened(d)
<1>1. PICK h : h = I!S!Attached(<<None, 0>>, d)
  OBVIOUS
<1>2. h = [id |-> <<None, 0>>, data |-> d, dirty |-> FALSE, destroyed |-> FALSE]
  BY <1>1 DEF I!S!Attached
<1>3. PICK e : e = [d EXCEPT !.now = d.next, !.next = {}]
  OBVIOUS
<1>4. e = [subject |-> None, next |-> {}, now |-> d.next, vals |-> d.vals]
  <2>1. PICK e1 : e1 = [d EXCEPT !.now = d.next]
    OBVIOUS
  <2>2. e1 = [subject |-> None, next |-> d.next, now |-> d.next, vals |-> d.vals]
    BY <2>1, CellFields
  <2>3. e = [e1 EXCEPT !.next = {}]
    BY <1>3, <2>1
  <2> QED
    BY <2>2, <2>3
<1>5. I!S!AgeFlash(h) = [h EXCEPT !.data = e, !.dirty = (d.next # {} \/ d.now # {})]
  BY <1>2, <1>3 DEF I!S!AgeFlash
<1>6. PICK h1 : h1 = [h EXCEPT !.data = e]
  OBVIOUS
<1>7. h1 = [id |-> <<None, 0>>, data |-> e, dirty |-> FALSE, destroyed |-> FALSE]
  BY <1>2, <1>6
<1>8. I!S!AgeFlash(h) = [h1 EXCEPT !.dirty = (d.next # {} \/ d.now # {})]
  BY <1>5, <1>6
<1> QED
  BY <1>1, <1>4, <1>7, <1>8 DEF I!OpenSession, Opened

LEMMA OpenedIsSomething ==
    ASSUME NEW d, Cell(d)
    PROVE  Opened(d) # None
<1>1. PICK e : e = [subject |-> None, next |-> {}, now |-> d.next, vals |-> d.vals]
  OBVIOUS
<1>2. e \in I!S!Data
  BY <1>1 DEF Cell, I!S!Data
<1>3. PICK h : h = Opened(d)
  OBVIOUS
<1>4. h \in [id : {<<None, 0>>}, data : I!S!Data, dirty : BOOLEAN, destroyed : BOOLEAN]
  BY <1>1, <1>2, <1>3 DEF Opened
<1> QED
  BY <1>3, <1>4, NoneAssumption

LEMMA ThroughSession ==
    ASSUME NEW ctx, IsContext(ctx), ctx.entered = 1, ctx.outcome = I!Running,
           NEW req, NEW d, Cell(d), NEW v,
           NEW second, second = I!Through("session", ctx, req, d, v)
    PROVE  /\ IsContext(second) /\ second.auth = ctx.auth /\ second.database = ctx.database
           /\ second.session = Opened(d) /\ second.inertia = ctx.inertia
           /\ second.outcome = I!Running /\ second.entered = 2
<1>1. PICK o : o = Opened(d)
  OBVIOUS
<1>2. o.data.subject = None
  BY <1>1 DEF Opened
<1>3. PICK g : g = I!Enter("session", ctx, req, d, v)
  OBVIOUS
<1>4. g = I!SessionGuard(ctx, d)
  BY <1>3 DEF I!Enter
<1>5. g = [ctx EXCEPT !.session = o, !.auth = ctx.auth]
  BY <1>1, <1>2, <1>4, OpenedIsThat DEF I!SessionGuard
<1>6. PICK g1 : g1 = [ctx EXCEPT !.session = o]
  OBVIOUS
<1>7. /\ IsContext(g1) /\ g1.auth = ctx.auth /\ g1.database = ctx.database
      /\ g1.session = o /\ g1.inertia = ctx.inertia
      /\ g1.outcome = I!Running /\ g1.entered = 1
  BY <1>6 DEF IsContext
<1>8. g = [g1 EXCEPT !.auth = ctx.auth]
  BY <1>5, <1>6
<1>9. /\ IsContext(g) /\ g.auth = ctx.auth /\ g.database = ctx.database
      /\ g.session = o /\ g.inertia = ctx.inertia
      /\ g.outcome = I!Running /\ g.entered = 1
  BY <1>7, <1>8 DEF IsContext
<1>10. second = [g EXCEPT !.entered = @ + 1]
  BY <1>3, <1>9 DEF I!Through
<1> QED
  BY <1>1, <1>9, <1>10 DEF IsContext

\* The session as the action finds it: a whole page that is asked for is
\* remembered.
Kept(req, d) ==
    IF I!IsGet(req) /\ ~I!IsPartial(req)
    THEN [id |-> <<None, 0>>,
          data |-> [subject |-> None, next |-> {}, now |-> d.next,
                    vals |-> [k \in {I!PREVIOUS_URL} |-> req.path]],
          dirty |-> TRUE, destroyed |-> FALSE]
    ELSE Opened(d)

\* Where a failed form goes back to.
Back(req, d) ==
    IF I!IsGet(req) /\ ~I!IsPartial(req) THEN req.path
    ELSE IF d.vals[I!PREVIOUS_URL] = None THEN Home ELSE d.vals[I!PREVIOUS_URL]

Shared(req, d, v) ==
    [hasSession |-> TRUE, errors |-> d.next, back |-> Back(req, d), version |-> v]

LEMMA KeptIsPut ==
    ASSUME NEW d, Cell(d), NEW path
    PROVE  I!S!Put(Opened(d), I!PREVIOUS_URL, path) =
             [id |-> <<None, 0>>,
              data |-> [subject |-> None, next |-> {}, now |-> d.next,
                        vals |-> [k \in {I!PREVIOUS_URL} |-> path]],
              dirty |-> TRUE, destroyed |-> FALSE]
<1>1. PICK e : e = [subject |-> None, next |-> {}, now |-> d.next, vals |-> d.vals]
  OBVIOUS
<1>2. PICK f : f = [k \in {I!PREVIOUS_URL} |-> path]
  OBVIOUS
<1>3. [d.vals EXCEPT ![I!PREVIOUS_URL] = path] = f
  BY <1>2, CellFields
<1>4. [e EXCEPT !.vals[I!PREVIOUS_URL] = path] =
        [subject |-> None, next |-> {}, now |-> d.next, vals |-> f]
  <2>1. e.vals = d.vals
    BY <1>1
  <2>2. [e EXCEPT !.vals[I!PREVIOUS_URL] = path] = [e EXCEPT !.vals = f]
    BY <1>3, <2>1
  <2> QED
    BY <1>1, <2>2
<1>5. PICK o : o = Opened(d)
  OBVIOUS
<1>6. o.data = e
  BY <1>1, <1>5 DEF Opened
<1>7. PICK w : w = [subject |-> None, next |-> {}, now |-> d.next, vals |-> f]
  OBVIOUS
<1>8. I!S!Put(o, I!PREVIOUS_URL, path) = [o EXCEPT !.data = w, !.dirty = TRUE]
  BY <1>4, <1>6, <1>7 DEF I!S!Put, I!S!Write
<1>9. PICK o1 : o1 = [o EXCEPT !.data = w]
  OBVIOUS
<1>10. o1 = [id |-> <<None, 0>>, data |-> w, dirty |-> (d.next # {} \/ d.now # {}),
             destroyed |-> FALSE]
  BY <1>5, <1>9 DEF Opened
<1>11. I!S!Put(o, I!PREVIOUS_URL, path) = [o1 EXCEPT !.dirty = TRUE]
  BY <1>8, <1>9
<1> QED
  BY <1>2, <1>5, <1>7, <1>10, <1>11

LEMMA ThroughInertia ==
    ASSUME NEW ctx, IsContext(ctx), ctx.entered = 2, ctx.outcome = I!Running,
           NEW req, req.path \in {Home, Posts, Post}, NEW d, Cell(d), ctx.session = Opened(d), NEW v,
           NEW third, third = I!Through("inertia", ctx, req, d, v)
    PROVE  /\ IsContext(third) /\ third.auth = ctx.auth /\ third.database = ctx.database
           /\ IF I!Stale(req, v)
              THEN /\ third.outcome = I!Ok(I!Reload(req.path)) /\ third.entered = 2
                   /\ third.session = Opened(d) /\ third.inertia = ctx.inertia
              ELSE /\ third.outcome = I!Running /\ third.entered = 3
                   /\ third.session = Kept(req, d) /\ third.inertia = Shared(req, d, v)
<1>1. PICK g : g = I!InertiaGuard(ctx, req, v)
  OBVIOUS
<1>2. I!Enter("inertia", ctx, req, d, v) = g
  BY <1>1 DEF I!Enter
<1>3. CASE I!Stale(req, v)
  <2>1. PICK o : o = I!Ok(I!Reload(req.path))
    OBVIOUS
  <2>2. o # I!Running
    <3>1. o.kind = "ok" /\ I!Running.kind = "running"
      BY <2>1 DEF I!Ok, I!Running
    <3> QED
      BY <3>1
  <2>3. g = I!Halt(ctx, o)
    BY <1>1, <1>3, <2>1 DEF I!InertiaGuard
  <2>4. /\ IsContext(g) /\ g.auth = ctx.auth /\ g.database = ctx.database
        /\ g.session = ctx.session /\ g.inertia = ctx.inertia
        /\ g.outcome = o /\ g.entered = ctx.entered
    BY <2>3, HaltFields
  <2>5. third = g
    BY <1>2, <2>2, <2>4 DEF I!Through
  <2> QED
    BY <1>3, <2>1, <2>4, <2>5
<1>4. CASE ~I!Stale(req, v)
  <2>1. PICK o : o = Opened(d)
    OBVIOUS
  <2>2. o # None /\ o.data.now = d.next /\ o.data.vals = d.vals
    BY <2>1, OpenedIsSomething DEF Opened
  <2>3. PICK k : k = Kept(req, d)
    OBVIOUS
  <2>4. k = IF I!Remembers(ctx, req) THEN I!S!Put(ctx.session, I!PREVIOUS_URL, req.path)
            ELSE ctx.session
    <3>1. I!Remembers(ctx, req) <=> I!IsGet(req) /\ ~I!IsPartial(req)
      BY <2>1, <2>2 DEF I!Remembers
    <3> QED
      BY <2>3, <3>1, KeptIsPut DEF Kept
  <2>0. req.path # None
    BY NoneAssumption
  <2>5. /\ k # None
        /\ k.data.vals[I!PREVIOUS_URL] = IF I!IsGet(req) /\ ~I!IsPartial(req) THEN req.path
                                         ELSE d.vals[I!PREVIOUS_URL]
    <3>1. CASE I!IsGet(req) /\ ~I!IsPartial(req)
      <4>1. PICK f : f = [x \in {I!PREVIOUS_URL} |-> req.path]
        OBVIOUS
      <4>2. f[I!PREVIOUS_URL] = req.path
        BY <4>1
      <4>3. PICK e : e = [subject |-> None, next |-> {}, now |-> d.next, vals |-> f]
        OBVIOUS
      <4>4. k = [id |-> <<None, 0>>, data |-> e, dirty |-> TRUE, destroyed |-> FALSE]
        BY <2>3, <3>1, <4>1, <4>3 DEF Kept
      <4>5. k.data.vals[I!PREVIOUS_URL] = req.path
        BY <4>2, <4>3, <4>4
      <4>6. k # None
        <5>1. f \in [{I!PREVIOUS_URL} -> {Home, Posts, Post} \cup Submissions \cup {None}]
          BY <4>1
        <5>2. e \in I!S!Data
          BY <4>3, <5>1 DEF Cell, I!S!Data
        <5>3. k \in [id : {<<None, 0>>}, data : I!S!Data, dirty : BOOLEAN,
                     destroyed : BOOLEAN]
          BY <4>4, <5>2
        <5> QED
          BY <5>3, NoneAssumption
      <4> QED
        BY <3>1, <4>5, <4>6
    <3>2. CASE ~(I!IsGet(req) /\ ~I!IsPartial(req))
      BY <2>1, <2>2, <2>3, <3>2 DEF Kept
    <3> QED
      BY <3>1, <3>2
  <2>6. PICK i : i = Shared(req, d, v)
    OBVIOUS
  <2>7. i = [hasSession |-> TRUE, errors |-> d.next,
             back |-> IF k.data.vals[I!PREVIOUS_URL] = None THEN <<>>
                      ELSE k.data.vals[I!PREVIOUS_URL],
             version |-> v]
    <3>1. Back(req, d) = IF k.data.vals[I!PREVIOUS_URL] = None THEN <<>>
                         ELSE k.data.vals[I!PREVIOUS_URL]
      BY <2>0, <2>5 DEF Back, Home
    <3> QED
      BY <2>6, <3>1 DEF Shared
  <2>8. g = [ctx EXCEPT !.session = k, !.inertia = i]
    BY <1>1, <1>4, <2>1, <2>2, <2>4, <2>5, <2>7 DEF I!InertiaGuard
  <2>9. PICK g1 : g1 = [ctx EXCEPT !.session = k]
    OBVIOUS
  <2>10. /\ IsContext(g1) /\ g1.auth = ctx.auth /\ g1.database = ctx.database
         /\ g1.session = k /\ g1.outcome = I!Running /\ g1.entered = 2
    BY <2>9 DEF IsContext
  <2>11. g = [g1 EXCEPT !.inertia = i]
    BY <2>8, <2>9
  <2>12. /\ IsContext(g) /\ g.auth = ctx.auth /\ g.database = ctx.database
         /\ g.session = k /\ g.inertia = i /\ g.outcome = I!Running /\ g.entered = 2
    BY <2>10, <2>11 DEF IsContext
  <2>13. third = [g EXCEPT !.entered = @ + 1]
    BY <1>2, <2>12 DEF I!Through
  <2>14. /\ IsContext(third) /\ third.auth = ctx.auth /\ third.database = ctx.database
         /\ third.session = k /\ third.inertia = i /\ third.outcome = I!Running
         /\ third.entered = 3
    BY <2>12, <2>13 DEF IsContext
  <2> QED
    BY <1>4, <2>3, <2>6, <2>14
<1> QED
  BY <1>3, <1>4

PageStack(stack) == Listed3(stack, "database", "session", "inertia")

\* A page request that found the cell d, when assets v were deployed.
Paged(x, req, d, v) ==
    /\ IsContext(x) /\ x.auth = None /\ x.database = TRUE
    /\ IF I!Stale(req, v)
       THEN /\ x.outcome = I!Ok(I!Reload(req.path)) /\ x.entered = 2
            /\ x.session = Opened(d) /\ x.inertia = None
       ELSE /\ x.outcome = I!Running /\ x.entered = 3
            /\ x.session = Kept(req, d) /\ x.inertia = Shared(req, d, v)

LEMMA InboundPages ==
    ASSUME NEW req, req.path \in {Home, Posts, Post}, NEW d, Cell(d), NEW v,
           NEW stack, PageStack(stack)
    PROVE  Paged(I!Inbound(stack, req, d, v), req, d, v)
<1>1. Len(stack) = 3 /\ stack[1] = "database" /\ stack[2] = "session" /\ stack[3] = "inertia"
  BY DEF PageStack, Listed3
<1>2. PICK after : Steps(after, stack, req, d, v)
  <2>1. Len(stack) \in Nat
    BY <1>1
  <2> QED
    BY <2>1, InboundSteps
<1>3. PICK first : first = after[1]
  OBVIOUS
<1>4. PICK second : second = after[2]
  OBVIOUS
<1>5. PICK third : third = after[3]
  OBVIOUS
<1>6. first = I!Through("database", I!NewContext, req, d, v)
  BY <1>1, <1>2, <1>3 DEF Steps
<1>7. second = I!Through("session", first, req, d, v)
  BY <1>1, <1>2, <1>3, <1>4 DEF Steps
<1>8. third = I!Through("inertia", second, req, d, v)
  BY <1>1, <1>2, <1>4, <1>5 DEF Steps
<1>9. /\ IsContext(first) /\ first.auth = None /\ first.database = TRUE
      /\ first.session = None /\ first.inertia = None
      /\ first.outcome = I!Running /\ first.entered = 1
  BY <1>6, ThroughDatabase
<1>10. /\ IsContext(second) /\ second.auth = None /\ second.database = TRUE
       /\ second.session = Opened(d) /\ second.inertia = None
       /\ second.outcome = I!Running /\ second.entered = 2
  BY <1>7, <1>9, ThroughSession
<1>11. Paged(third, req, d, v)
  BY <1>8, <1>10, ThroughInertia DEF Paged
<1> QED
  BY <1>1, <1>2, <1>5, <1>11 DEF Steps

LEMMA OutboundPages ==
    ASSUME NEW ctx, NEW req, NEW stack, PageStack(stack)
    PROVE  /\ ctx.entered = 2 => I!Outbound(stack, ctx, req) = ctx
           /\ ctx.entered = 3 => I!Outbound(stack, ctx, req) = I!LeaveInertia(ctx, req)
<1>1. stack[1] = "database" /\ stack[2] = "session" /\ stack[3] = "inertia"
  BY DEF PageStack, Listed3
<1>2. ASSUME ctx.entered = 2 PROVE I!Outbound(stack, ctx, req) = ctx
  <2>1. \A i \in 1 .. ctx.entered : stack[i] # "inertia"
    BY <1>1, <1>2
  <2>2. ctx.entered \in Nat
    BY <1>2
  <2> QED
    BY <2>1, <2>2, OutboundPlain
<1>3. ASSUME ctx.entered = 3 PROVE I!Outbound(stack, ctx, req) = I!LeaveInertia(ctx, req)
  <2>1. ctx.entered \in Nat
    BY <1>3
  <2>2. PICK left :
           /\ left[0] = ctx
           /\ \A i \in 1 .. ctx.entered :
                 left[i] = I!Leave(stack[ctx.entered + 1 - i], left[i - 1], req)
           /\ I!Outbound(stack, ctx, req) = left[ctx.entered]
    BY <2>1, OutboundSteps
  <2>3. left[1] = I!Leave("inertia", ctx, req)
    BY <1>1, <1>3, <2>2
  <2>4. left[2] = I!Leave("session", left[1], req)
    BY <1>1, <1>3, <2>2
  <2>5. left[3] = I!Leave("database", left[2], req)
    BY <1>1, <1>3, <2>2
  <2>6. left[3] = left[1] /\ left[1] = I!LeaveInertia(ctx, req)
    BY <2>3, <2>4, <2>5 DEF I!Leave
  <2> QED
    BY <1>3, <2>2, <2>6
<1> QED
  BY <1>2, <1>3

\* The stacks of the API have no Inertia middleware: nothing changes on the
\* way out.
LEMMA OutboundApi ==
    ASSUME NEW ctx, NEW req, NEW stack, NEW n \in 0 .. 3, ctx.entered \in 0 .. n,
           \A i \in 1 .. n : stack[i] # "inertia"
    PROVE  I!Outbound(stack, ctx, req) = ctx
<1>1. ctx.entered \in Nat /\ \A i \in 1 .. ctx.entered : stack[i] # "inertia"
  OBVIOUS
<1> QED
  BY <1>1, OutboundPlain

-----------------------------------------------------------------------------
(***************************************************************************)
(* The requests of the two clients                                         *)
(***************************************************************************)

Plain(r, method, path, token) ==
    /\ IsRequest(r) /\ r.method = method /\ r.path = path /\ r.token = token
    /\ r.inertia = FALSE /\ r.partial = None

LEMMA RequestFields ==
    ASSUME NEW method, NEW path
    PROVE  LET r == Request(method, path)
           IN  /\ Plain(r, method, path, None) /\ r.id = None /\ r.version = None
               /\ r.only = {} /\ r.submission = None
BY DEF Request, Plain, IsRequest

LEMMA ApiRequestFields ==
    ASSUME NEW method, NEW path, NEW token
    PROVE  Plain(ApiRequest(method, path, token), method, path, token)
<1>1. PICK r : r = Request(method, path)
  OBVIOUS
<1>2. Plain(r, method, path, None)
  BY <1>1, RequestFields
<1>3. ApiRequest(method, path, token) = [r EXCEPT !.token = token]
  BY <1>1 DEF ApiRequest
<1> QED
  BY <1>2, <1>3 DEF Plain, IsRequest

LEMMA PlainSets ==
    ASSUME NEW r, NEW method, NEW path, NEW token, Plain(r, method, path, token),
           NEW b, NEW i
    PROVE  /\ Plain([r EXCEPT !.body = b], method, path, token)
           /\ Plain([r EXCEPT !.id = i], method, path, token)
           /\ [r EXCEPT !.id = i].id = i
BY DEF Plain, IsRequest

\* The requests of the API, with where they go; what else there is to ask for.
Routed(req, action, stack) == Reaches(req.method, req.path, action, stack)

Call(req) ==
    /\ IsRequest(req) /\ req.inertia = FALSE
    /\ \/ Routed(req, "users.index", Api) /\ req.id \in Nat \cup {Malformed}
       \/ Routed(req, "users.store", Api) /\ req.method = "POST"
       \/ Routed(req, "users.update", Api)
       \/ Routed(req, "users.destroy", Api)
       \/ Routed(req, "teams.index", <<"database", "optional_jwt">>)
       \/ Routed(req, "teams.destroy", <<"database", "optional_jwt", "jwt">>)
       \/ Routed(req, "pages.home", <<"database">>) /\ req.token = None
       \/ LET n == Dispatch(Served, req.method, req.path)
          IN n # 0 /\ Served[n].kind = "static" /\ Served[n].action = "static files"
                   /\ Served[n].middleware = <<>>
       \/ Dispatch(Served, req.method, req.path) = 0

LEMMA RegisteringCall ==
    ASSUME NEW a, NEW b
    PROVE  Call(Registering(a, b))
<1>1. PICK mine : mine = Token(a, TRUE)
  OBVIOUS
<1>2. PICK req : req = [ApiRequest("POST", AllUsers, mine) EXCEPT !.body = b]
  OBVIOUS
<1>3. Plain(req, "POST", AllUsers, mine)
  BY <1>2, ApiRequestFields, PlainSets
<1>4. Reaches("POST", AllUsers, "users.store", Api)
  BY ServedAssumption
<1>5. Call(req)
  BY <1>3, <1>4 DEF Call, Routed, Plain
<1> QED
  BY <1>1, <1>2, <1>5 DEF Registering

LEMMA RenamingCall ==
    ASSUME NEW a, NEW i, NEW email
    PROVE  Call(Renaming(a, i, email)) /\ Renaming(a, i, email).method = "PUT"
<1>1. PICK mine, b : mine = Token(a, TRUE) /\ b = [email |-> email]
  OBVIOUS
<1>2. PICK r : r = ApiRequest("PUT", OneUser, mine)
  OBVIOUS
<1>3. PICK r1 : r1 = [r EXCEPT !.id = i]
  OBVIOUS
<1>4. PICK req : req = [r1 EXCEPT !.body = b]
  OBVIOUS
<1>5. Renaming(a, i, email) = req
  BY <1>1, <1>2, <1>3, <1>4 DEF Renaming
<1>6. Plain(req, "PUT", OneUser, mine)
  BY <1>2, <1>3, <1>4, ApiRequestFields, PlainSets
<1>7. Reaches("PUT", OneUser, "users.update", Api)
  BY ServedAssumption
<1> QED
  BY <1>5, <1>6, <1>7 DEF Call, Routed, Plain

LEMMA RemovingCall ==
    ASSUME NEW token, NEW i
    PROVE  Call(Removing(token, i)) /\ Removing(token, i).method = "DELETE"
<1>1. Plain(Removing(token, i), "DELETE", OneUser, token)
  BY ApiRequestFields, PlainSets DEF Removing
<1>2. Reaches("DELETE", OneUser, "users.destroy", Api)
  BY ServedAssumption
<1> QED
  BY <1>1, <1>2 DEF Call, Routed, Plain

LEMMA WriterCalls ==
    ASSUME NEW a, NEW req \in WriterRequests(a)
    PROVE  Call(req) /\ (req.method = "POST" => RoomFor(a))
<1>1. CASE RoomFor(a) /\ \E b : req = Registering(a, b)
  BY <1>1, RegisteringCall
<1>2. CASE \E i, e : req = Renaming(a, i, e)
  BY <1>2, RenamingCall
<1>3. CASE \E t : req = Removing(t, 1)
  BY <1>3, RemovingCall
<1> DEFINE Bodies == {User("Ada", e, 1, None) : e \in Actors}
                       \cup {User("A", 0, 9, 17), Malformed}
           Tokens == {Token(1, TRUE), Token(1, FALSE), None}
           posts == {Registering(a, b) : b \in IF RoomFor(a) THEN Bodies ELSE {}}
           puts == {Renaming(a, i, e) : i \in Actors, e \in Actors}
           deletes == {Removing(t, 1) : t \in Tokens}
<1>4. WriterRequests(a) = posts \cup puts \cup deletes
  BY DEF WriterRequests
<1> HIDE DEF Bodies, Tokens
<1>5. req \in posts => RoomFor(a) /\ \E b : req = Registering(a, b)
  OBVIOUS
<1>6. req \in puts => \E i, e : req = Renaming(a, i, e)
  OBVIOUS
<1>7. req \in deletes => \E t : req = Removing(t, 1)
  OBVIOUS
<1> HIDE DEF posts, puts, deletes
<1> QED
  BY <1>1, <1>2, <1>3, <1>4, <1>5, <1>6, <1>7

LEMMA ReaderCalls ==
    ASSUME NEW a, NEW req \in ReaderRequests(a)
    PROVE  Call(req) /\ (req.method = "POST" => RoomFor(a))
<1>0. PICK mine : mine = Token(a, TRUE)
  OBVIOUS
<1>1. CASE \E p \in 0 .. (MaxUsers \div PerPage + 1) \cup {Malformed} :
              req = [ApiRequest("GET", AllUsers, mine) EXCEPT !.id = p]
  <2>0. PICK p \in 0 .. (MaxUsers \div PerPage + 1) \cup {Malformed} :
           req = [ApiRequest("GET", AllUsers, mine) EXCEPT !.id = p]
    BY <1>1
  <2>1. Plain(req, "GET", AllUsers, mine) /\ req.id = p
    BY <2>0, ApiRequestFields, PlainSets
  <2>2. Reaches("GET", AllUsers, "users.index", Api)
    BY ServedAssumption
  <2>3. req.id \in Nat \cup {Malformed}
    BY <2>1
  <2> QED
    BY <2>1, <2>2, <2>3 DEF Call, Routed, Plain
<1>2. CASE \E t : req = ApiRequest("GET", AllTeams, t)
  <2>1. PICK t : req = ApiRequest("GET", AllTeams, t)
    BY <1>2
  <2>2. Plain(req, "GET", AllTeams, t)
    BY <2>1, ApiRequestFields
  <2>3. Reaches("GET", AllTeams, "teams.index", <<"database", "optional_jwt">>)
    BY ServedAssumption
  <2> QED
    BY <2>2, <2>3 DEF Call, Routed, Plain
<1>3. CASE req = Request("GET", <<"detached">>)
  <2>1. PICK p : p = <<"detached">>
    OBVIOUS
  <2>2. Plain(req, "GET", p, None)
    BY <1>3, <2>1, RequestFields
  <2>3. Reaches("GET", p, "pages.home", <<"database">>)
    BY <2>1, ServedAssumption
  <2> QED
    BY <2>2, <2>3 DEF Call, Routed, Plain
<1>4. CASE req = Request("GET", <<"build", "app.js">>)
  <2>1. PICK p : p = <<"build", "app.js">>
    OBVIOUS
  <2>2. Plain(req, "GET", p, None)
    BY <1>4, <2>1, RequestFields
  <2>3. LET n == Dispatch(Served, "GET", p)
        IN n # 0 /\ Served[n].kind = "static" /\ Served[n].action = "static files"
                 /\ Served[n].middleware = <<>>
    BY <2>1, ServedAssumption
  <2> QED
    BY <2>2, <2>3 DEF Call, Plain
<1>5. CASE req = Request("GET", <<"nowhere">>)
  <2>1. PICK p : p = <<"nowhere">>
    OBVIOUS
  <2>2. Plain(req, "GET", p, None)
    BY <1>5, <2>1, RequestFields
  <2>3. Dispatch(Served, "GET", p) = 0
    BY <2>1, ServedAssumption
  <2> QED
    BY <2>2, <2>3 DEF Call, Plain
<1>6. CASE RoomFor(a) /\ \E b : req = Registering(a, b)
  BY <1>6, RegisteringCall
<1>7. CASE \E t, i : req = Removing(t, i)
  BY <1>7, RemovingCall
<1>8. CASE \E i : req = [ApiRequest("DELETE", OneTeam, mine) EXCEPT !.id = i]
  <2>0. PICK i : req = [ApiRequest("DELETE", OneTeam, mine) EXCEPT !.id = i]
    BY <1>8
  <2>1. Plain(req, "DELETE", OneTeam, mine)
    BY <2>0, ApiRequestFields, PlainSets
  <2>2. Reaches("DELETE", OneTeam, "teams.destroy", <<"database", "optional_jwt", "jwt">>)
    BY ServedAssumption
  <2> QED
    BY <2>1, <2>2 DEF Call, Routed, Plain
<1> QED
  BY <1>0, <1>1, <1>2, <1>3, <1>4, <1>5, <1>6, <1>7, <1>8 DEF ReaderRequests

-----------------------------------------------------------------------------
(***************************************************************************)
(* An action up to its first statement                                     *)
(***************************************************************************)

\* A request refused, by an error that says so.
Fails(s, kinds) == s.pc = "answer" /\ \E k \in kinds : \E f : s.ctx.outcome = I!Err(k, f)

\* The queries a registration or a change still has to make are some of those
\* of its form, and unless the one for its address is among them the address
\* was found free or is known to be wrong.
Asking(s) ==
    LET mine == IF s.action = "users.store" THEN FreeEmail ELSE FreeOrOwnEmail
    IN /\ s.action \in {"users.store", "users.update"}
       /\ IsSequence(s.work.checks) /\ s.work.checks # <<>>
       /\ Range(s.work.checks) \subseteq
             {mine} \cup IF s.action = "users.store" THEN {TeamExists} ELSE {}
       /\ \/ s.work.seen
          \/ "email" \in DOMAIN s.work.errors
          \/ mine \in Range(s.work.checks)

\* Nothing was written yet, and nothing found.
Untouched(w) ==
    /\ IsWork(w) /\ w.wrote = FALSE /\ w.refused = None /\ w.seen = FALSE /\ w.raced = FALSE
    /\ w.came = FALSE /\ w.gone = FALSE

LEMMA NewWorkFields == Untouched(NewWork)
BY DEF Untouched, IsWork, NewWork

\* The work once the rules that need no query have run.
Found(w, errors, checks) == [w EXCEPT !.errors = errors, !.checks = checks]

LEMMA FoundFields ==
    ASSUME NEW w, Untouched(w), NEW e, NEW c
    PROVE  Untouched(Found(w, e, c)) /\ Found(w, e, c).errors = e
           /\ Found(w, e, c).checks = c
<1>1. PICK w1 : w1 = [w EXCEPT !.errors = e]
  OBVIOUS
<1>2. Untouched(w1) /\ w1.errors = e
  BY <1>1 DEF Untouched, IsWork
<1>3. Found(w, e, c) = [w1 EXCEPT !.checks = c]
  BY <1>1 DEF Found
<1> QED
  BY <1>2, <1>3 DEF Untouched, IsWork

LEMMA ValidateSteps ==
    ASSUME NEW s, IsService(s), Untouched(s.work)
    PROVE  \/ Validate(s) = Finish(s, I!Err("bad-request", <<>>))
           \/ \E t : /\ SameService(s, t) /\ t.pc = s.pc /\ t.ctx = s.ctx /\ Untouched(t.work)
                     /\ t.work.errors = ValidateSync(FormOf(s.action), s.req.body)
                     /\ t.work.checks = AsyncChecks(FormOf(s.action), s.req.body)
                     /\ Validate(s) = IF t.work.checks = <<>> THEN Verdict(t)
                                      ELSE Goto(t, "check")
<1> DEFINE e == ValidateSync(FormOf(s.action), s.req.body)
           c == AsyncChecks(FormOf(s.action), s.req.body)
<1> HIDE DEF e, c
<1>2. PICK w : w = Found(s.work, e, c)
  OBVIOUS
<1>3. Untouched(w) /\ w.errors = e /\ w.checks = c
  BY <1>2, FoundFields
<1>4. PICK t : t = [s EXCEPT !.work = w]
  OBVIOUS
<1>5. /\ IsService(t) /\ t.pc = s.pc /\ t.req = s.req /\ t.action = s.action
      /\ t.stack = s.stack /\ t.ctx = s.ctx /\ t.work = w
  BY <1>3, <1>4, ServiceWork DEF Untouched
<1>6. [s EXCEPT !.work.errors = e, !.work.checks = c] = t
  <2>1. PICK t1 : t1 = [s EXCEPT !.work.errors = e]
    OBVIOUS
  <2>2. PICK w1 : w1 = [s.work EXCEPT !.errors = e]
    OBVIOUS
  <2>3. t1 = [s EXCEPT !.work = w1]
    <3>1. [s EXCEPT !.work.errors = e] = [s EXCEPT !.work = [s.work EXCEPT !.errors = e]]
      BY DEF IsService
    <3> QED
      BY <2>1, <2>2, <3>1
  <2>4. t1.work = w1 /\ IsService(t1)
    <3>1. IsWork(w1)
      BY <2>2 DEF Untouched, IsWork
    <3> QED
      BY <2>3, <3>1, ServiceWork
  <2>5. [s EXCEPT !.work.errors = e, !.work.checks = c] = [t1 EXCEPT !.work.checks = c]
    BY <2>1
  <2>6. [t1 EXCEPT !.work.checks = c] = [t1 EXCEPT !.work = [t1.work EXCEPT !.checks = c]]
    BY <2>4 DEF IsService
  <2>7. [t1.work EXCEPT !.checks = c] = w
    BY <1>2, <2>2, <2>4 DEF Found
  <2>8. [t1 EXCEPT !.work = w] = t
    BY <1>4, <2>3 DEF IsService
  <2> QED
    BY <2>5, <2>6, <2>7, <2>8
<1>6a. Checked(s) = t
  BY <1>6 DEF Checked, e, c
<1>7. Validate(s) = IF s.req.body = Malformed THEN Finish(s, I!Err("bad-request", <<>>))
                    ELSE IF t.work.checks = <<>> THEN Verdict(t) ELSE Goto(t, "check")
  BY <1>6a DEF Validate
<1>8. SameService(s, t)
  BY <1>5 DEF SameService
<1> QED
  BY <1>3, <1>5, <1>7, <1>8 DEF e, c

LEMMA SameTransitive ==
    ASSUME NEW s, NEW t, NEW u, SameService(s, t), SameService(t, u)
    PROVE  SameService(s, u)
BY DEF SameService

LEMMA SameReworked ==
    ASSUME NEW s, NEW t, Reworked(s, t)
    PROVE  SameService(s, t)
BY DEF SameService, Reworked

LEMMA NoErrorsHasNone == \A field : field \notin DOMAIN NoErrors
BY DEF NoErrors

LEMMA VerdictSteps ==
    ASSUME NEW s, IsService(s)
    PROVE  /\ SameService(s, Verdict(s)) /\ Verdict(s).work = s.work
           /\ s.work.errors # NoErrors => Fails(Verdict(s), {"validation"})
           /\ s.work.errors = NoErrors =>
                Verdict(s).pc = Writes(s.action) /\ Verdict(s).ctx = s.ctx
<1>1. CASE s.work.errors # NoErrors
  <2>1. Verdict(s) = Finish(s, I!Err("validation", FirstMessages(s.work.errors)))
    BY <1>1 DEF Verdict
  <2> QED
    BY <1>1, <2>1, FinishFields DEF Fails
<1>2. CASE s.work.errors = NoErrors
  <2>1. Verdict(s) = Goto(s, Writes(s.action))
    BY <1>2 DEF Verdict
  <2> QED
    BY <1>2, <2>1, GotoFields
<1> QED
  BY <1>1, <1>2

\* Validating a registration or a change asks for the address, or fails.
LEMMA ValidateApi ==
    ASSUME NEW s, IsService(s), Untouched(s.work),
           s.action \in {"users.store", "users.update"}
    PROVE  LET t == Validate(s)
           IN  /\ SameService(s, t) /\ Untouched(t.work)
               /\ \/ Fails(t, {"bad-request", "validation"})
                  \/ t.pc = "check" /\ Asking(t)
<1>1. CASE Validate(s) = Finish(s, I!Err("bad-request", <<>>))
  BY <1>1, FinishFields DEF Fails
<1>2. ASSUME NEW t, SameService(s, t), t.pc = s.pc, t.ctx = s.ctx, Untouched(t.work),
             t.work.errors = ValidateSync(FormOf(s.action), s.req.body),
             t.work.checks = AsyncChecks(FormOf(s.action), s.req.body),
             Validate(s) = IF t.work.checks = <<>> THEN Verdict(t) ELSE Goto(t, "check")
      PROVE  LET u == Validate(s)
             IN  /\ SameService(s, u) /\ Untouched(u.work)
                 /\ \/ Fails(u, {"bad-request", "validation"})
                    \/ u.pc = "check" /\ Asking(u)
  <2> DEFINE mine == IF s.action = "users.store" THEN FreeEmail ELSE FreeOrOwnEmail
  <2>1. /\ IsSequence(t.work.checks)
        /\ Range(t.work.checks) \subseteq
              {mine} \cup IF s.action = "users.store" THEN {TeamExists} ELSE {}
        /\ "email" \in DOMAIN t.work.errors \/ mine \in Range(t.work.checks)
    <3>1. CASE s.action = "users.store"
      <4>1. FormOf(s.action) = StoreUser
        BY <3>1 DEF FormOf
      <4>2. /\ t.work.checks = AsyncChecks(StoreUser, s.req.body)
            /\ t.work.errors = ValidateSync(StoreUser, s.req.body)
        BY <1>2, <4>1
      <4>3. /\ IsSequence(t.work.checks) /\ Range(t.work.checks) \subseteq {FreeEmail, TeamExists}
            /\ \/ "email" \in DOMAIN t.work.errors
               \/ FreeEmail \in Range(t.work.checks)
        BY <4>2, StoreUserQueries
      <4> QED
        BY <3>1, <4>3
    <3>2. CASE s.action = "users.update"
      <4>1. FormOf(s.action) = UpdateUser
        BY <3>2 DEF FormOf
      <4>2. /\ t.work.checks = AsyncChecks(UpdateUser, s.req.body)
            /\ t.work.errors = ValidateSync(UpdateUser, s.req.body)
        BY <1>2, <4>1
      <4>3. /\ IsSequence(t.work.checks) /\ Range(t.work.checks) \subseteq {FreeOrOwnEmail}
            /\ \/ "email" \in DOMAIN t.work.errors
               \/ FreeOrOwnEmail \in Range(t.work.checks)
        BY <4>2, UpdateUserQueries
      <4> QED
        BY <3>2, <4>3
    <3> QED
      BY <3>1, <3>2
  <2>2. CASE t.work.checks = <<>>
    <3>1. mine \notin Range(t.work.checks)
      BY <2>2 DEF Range
    <3>2. t.work.errors # NoErrors
      BY <2>1, <3>1, NoErrorsHasNone
    <3>3. Validate(s) = Verdict(t) /\ IsService(t)
      BY <1>2, <2>2 DEF SameService
    <3>4. PICK u : u = Verdict(t)
      OBVIOUS
    <3>5. SameService(t, u) /\ u.work = t.work /\ Fails(u, {"validation"})
      BY <3>2, <3>3, <3>4, VerdictSteps
    <3>6. Fails(u, {"bad-request", "validation"})
      BY <3>5 DEF Fails
    <3>7. SameService(s, u)
      BY <1>2, <3>5, SameTransitive
    <3> QED
      BY <1>2, <3>3, <3>4, <3>5, <3>6, <3>7
  <2>3. CASE t.work.checks # <<>>
    <3>1. Validate(s) = Goto(t, "check") /\ IsService(t)
      BY <1>2, <2>3 DEF SameService
    <3>2. PICK u : u = Goto(t, "check")
      OBVIOUS
    <3>3. SameService(t, u) /\ u.pc = "check" /\ u.work = t.work
      BY <3>1, <3>2, GotoFields
    <3>4. u.action = s.action
      BY <1>2, <3>3 DEF SameService
    <3>5. Asking(u)
      BY <2>1, <2>3, <3>3, <3>4 DEF Asking
    <3>6. SameService(s, u)
      BY <1>2, <3>3, SameTransitive
    <3> QED
      BY <1>2, <3>1, <3>2, <3>3, <3>5, <3>6
  <2> QED
    BY <2>2, <2>3
<1>3. \/ Validate(s) = Finish(s, I!Err("bad-request", <<>>))
      \/ \E t : /\ SameService(s, t) /\ t.pc = s.pc /\ t.ctx = s.ctx /\ Untouched(t.work)
                /\ t.work.errors = ValidateSync(FormOf(s.action), s.req.body)
                /\ t.work.checks = AsyncChecks(FormOf(s.action), s.req.body)
                /\ Validate(s) = IF t.work.checks = <<>> THEN Verdict(t) ELSE Goto(t, "check")
  BY ValidateSteps
<1> QED
  BY <1>1, <1>2, <1>3

\* Validating the form of a page asks nothing.
LEMMA ValidatePage ==
    ASSUME NEW s, IsService(s), Untouched(s.work),
           s.action \in {"pages.store", "pages.update"}
    PROVE  LET t == Validate(s)
           IN  /\ SameService(s, t) /\ Untouched(t.work)
               /\ \/ Fails(t, {"bad-request", "validation"})
                  \/ t.pc = "render" /\ t.ctx = s.ctx
<1>1. CASE Validate(s) = Finish(s, I!Err("bad-request", <<>>))
  BY <1>1, FinishFields DEF Fails
<1>2. ASSUME NEW t, SameService(s, t), t.pc = s.pc, t.ctx = s.ctx, Untouched(t.work),
             t.work.checks = AsyncChecks(FormOf(s.action), s.req.body),
             Validate(s) = IF t.work.checks = <<>> THEN Verdict(t) ELSE Goto(t, "check")
      PROVE  LET u == Validate(s)
             IN  /\ SameService(s, u) /\ Untouched(u.work)
                 /\ \/ Fails(u, {"bad-request", "validation"})
                    \/ u.pc = "render" /\ u.ctx = s.ctx
  <2>1. FormOf(s.action) = StorePost
    BY DEF FormOf
  <2>2. t.work.checks = <<>>
    BY <1>2, <2>1, StorePostQueries
  <2>3. Validate(s) = Verdict(t) /\ IsService(t) /\ t.action = s.action
    BY <1>2, <2>2 DEF SameService
  <2>4. PICK u : u = Verdict(t)
    OBVIOUS
  <2>5. Writes(t.action) = "render"
    BY <2>3 DEF Writes
  <2>6. /\ SameService(t, u) /\ u.work = t.work
        /\ \/ Fails(u, {"validation"})
           \/ u.pc = "render" /\ u.ctx = t.ctx
    BY <2>3, <2>4, <2>5, VerdictSteps
  <2>7. Fails(u, {"validation"}) => Fails(u, {"bad-request", "validation"})
    BY DEF Fails
  <2>8. SameService(s, u)
    BY <1>2, <2>6, SameTransitive
  <2> QED
    BY <1>2, <2>3, <2>4, <2>6, <2>7, <2>8
<1>3. \/ Validate(s) = Finish(s, I!Err("bad-request", <<>>))
      \/ \E t : /\ SameService(s, t) /\ t.pc = s.pc /\ t.ctx = s.ctx /\ Untouched(t.work)
                /\ t.work.checks = AsyncChecks(FormOf(s.action), s.req.body)
                /\ Validate(s) = IF t.work.checks = <<>> THEN Verdict(t) ELSE Goto(t, "check")
  BY ValidateSteps
<1> QED
  BY <1>1, <1>2, <1>3

-----------------------------------------------------------------------------
(***************************************************************************)
(* A request of a client of the API, at work and answered                  *)
(***************************************************************************)

Protected == {"users.index", "users.store", "users.update", "users.destroy", "teams.destroy"}

\* What a request has passed when its action starts.
Enters(s) ==
    /\ s.ctx.database = TRUE
    /\ s.action \in Protected => s.req.token # None
    /\ IF s.req.token = None THEN s.ctx.auth = None
       ELSE s.req.token.valid /\ s.ctx.auth = s.req.token.subject

Passed(s) == \/ s.action \in {"none", "static files"}
             \/ s.ctx.outcome.kind = "unauthorized"
             \/ Enters(s)

\* Its middleware lets it out as it is.
Unwrapped(s) ==
    /\ IsService(s) /\ s.req.inertia = FALSE /\ s.ctx.session = None
    /\ s.ctx.entered \in 0 .. 3 /\ \A i \in 1 .. s.ctx.entered : s.stack[i] # "inertia"

Failures == {"bad-request", "validation", "not-found", "unauthorized", "forbidden",
             "conflict", "internal"}
Changes == {"users.store", "users.update", "users.destroy"}

Answered(s) ==
    /\ Passed(s)
    /\ \/ Fails(s, Failures) /\ (s.work.wrote = FALSE \/ s.work.refused = "after")
       \/ /\ s.pc = "answer"
          /\ \E status \in {200, 201, 204} : s.ctx.outcome = I!Ok(I!Response(status))
          /\ s.action \in Changes => s.work.wrote = TRUE

\* The statements of each action.
Acts(s) ==
    \/ s.action = "users.index" /\ s.pc \in {"count", "fetch", "load"} /\ s.req.id \in Nat
    \/ s.action = "users.store" /\ s.pc \in {"check", "insert", "after"}
    \/ s.action = "users.update" /\ s.pc \in {"find", "check", "update", "after"}
    \/ s.action = "users.destroy" /\ s.pc \in {"find", "delete"}
    \/ s.action = "teams.index" /\ s.pc \in {"all", "members"}
    \/ s.action = "teams.destroy" /\ s.pc = "delete"

\* What is known between them: an address asked for or found free, and no row
\* written before the last.
Acting(s) ==
    /\ Enters(s) /\ Acts(s)
    /\ s.pc \in {"find", "count"} => Untouched(s.work)
    /\ s.pc = "check" => Asking(s)
    /\ s.pc \in {"insert", "update"} => s.work.seen = TRUE
    /\ s.work.refused = None
    /\ s.work.wrote = IF s.pc = "after" THEN TRUE ELSE FALSE

ApiService(s) == Unwrapped(s) /\ (Acting(s) \/ Answered(s))

LEMMA StillUnwrapped ==
    ASSUME NEW s, NEW t, Unwrapped(s), SameService(s, t)
    PROVE  Unwrapped(t)
BY DEF Unwrapped, SameService

LEMMA StillEnters ==
    ASSUME NEW s, NEW t, Enters(s), SameService(s, t)
    PROVE  Enters(t) /\ Passed(t)
BY DEF Enters, SameService, Passed

LEMMA ActingIsNotAnswered ==
    ASSUME NEW s, Acting(s)
    PROVE  s.pc # "answer" /\ s.pc # "idle"
BY DEF Acting, Acts

\* Failing: nothing was written, or only what a hook refused afterwards.
LEMMA ActingFails ==
    ASSUME NEW s, NEW t, Unwrapped(s), Enters(s), SameService(s, t),
           t.pc = "answer", NEW k \in Failures, NEW f, t.ctx.outcome = I!Err(k, f),
           t.work.wrote = FALSE \/ t.work.refused = "after"
    PROVE  ApiService(t)
<1>1. Unwrapped(t) /\ Passed(t)
  BY StillUnwrapped, StillEnters
<1>2. Fails(t, Failures)
  BY DEF Fails
<1> QED
  BY <1>1, <1>2 DEF ApiService, Answered

LEMMA FailsForAll ==
    ASSUME NEW s, NEW kinds, kinds \subseteq Failures, Fails(s, kinds)
    PROVE  Fails(s, Failures)
BY DEF Fails

LEMMA ActingSucceeds ==
    ASSUME NEW s, NEW t, Unwrapped(s), Enters(s), SameService(s, t), t.pc = "answer",
           NEW status \in {200, 201, 204}, t.ctx.outcome = I!Ok(I!Response(status)),
           s.action \in Changes => t.work.wrote = TRUE
    PROVE  ApiService(t)
<1>1. Unwrapped(t) /\ Passed(t) /\ t.action = s.action
  BY StillUnwrapped, StillEnters DEF SameService
<1> QED
  BY <1>1 DEF ApiService, Answered

LEMMA FinishFails ==
    ASSUME NEW s, Unwrapped(s), Enters(s), s.work.wrote = FALSE, NEW k \in Failures, NEW f
    PROVE  ApiService(Finish(s, I!Err(k, f)))
<1>1. IsService(s)
  BY DEF Unwrapped
<1>2. PICK o : o = I!Err(k, f)
  OBVIOUS
<1>3. PICK t : t = Finish(s, o)
  OBVIOUS
<1>4. SameService(s, t) /\ t.pc = "answer" /\ t.ctx.outcome = o /\ t.work = s.work
  BY <1>1, <1>3, FinishFields
<1> QED
  BY <1>2, <1>3, <1>4, ActingFails

\* A place an action may come to from where it is.
Leads(s, pc) == \A t : t.pc = pc /\ t.action = s.action /\ t.req = s.req => Acts(t)

LEMMA GotoActs ==
    ASSUME NEW s, Unwrapped(s), Enters(s), s.work.wrote = FALSE, s.work.refused = None,
           NEW pc \in {"delete", "all", "members", "fetch", "load", "find", "count"},
           pc \in {"find", "count"} => Untouched(s.work), Leads(s, pc)
    PROVE  ApiService(Goto(s, pc))
<1>1. PICK t : t = Goto(s, pc)
  OBVIOUS
<1>2. SameService(s, t) /\ t.pc = pc /\ t.work = s.work
  BY <1>1, GotoFields DEF Unwrapped
<1>3. Unwrapped(t) /\ Enters(t)
  BY <1>2, StillUnwrapped, StillEnters
<1>4. t.action = s.action /\ t.req = s.req
  BY <1>2 DEF SameService
<1>5. Acts(t)
  BY <1>2, <1>4 DEF Leads
<1>6. Acting(t)
  BY <1>2, <1>3, <1>5 DEF Acting
<1> QED
  BY <1>1, <1>3, <1>6 DEF ApiService

-----------------------------------------------------------------------------
(***************************************************************************)
(* What each statement makes of the request it is of                       *)
(***************************************************************************)

\* What the others and the hooks leave on the work of a request.
SameHistory(w, u) == /\ IsWork(u) /\ u.raced = w.raced /\ u.seen = w.seen
                     /\ u.wrote = w.wrote /\ u.refused = w.refused
                     /\ u.came = w.came /\ u.gone = w.gone

LEMMA RefuseFields ==
    ASSUME NEW s, IsService(s), NEW when
    PROVE  LET t == Refuse(s, when)
           IN  /\ SameService(s, t) /\ Fails(t, {"conflict"})
               /\ t.work.wrote = s.work.wrote /\ t.work.refused = when
<1>1. PICK u : u = SetRefused(s, when)
  OBVIOUS
<1>2. Reworked(s, u) /\ u.work = [s.work EXCEPT !.refused = when]
  BY <1>1, SetsRefused
<1>3. IsWork(s.work)
  BY DEF IsService
<1>4. u.work.wrote = s.work.wrote /\ u.work.refused = when
  BY <1>2, <1>3 DEF IsWork
<1>5. PICK t : t = Finish(u, I!Err("conflict", <<>>))
  OBVIOUS
<1>6. SameService(u, t) /\ Fails(t, {"conflict"}) /\ t.work = u.work
  BY <1>2, <1>5, FinishFields DEF Reworked, Fails
<1>7. SameService(s, t)
  BY <1>2, <1>6, SameReworked, SameTransitive
<1> QED
  BY <1>1, <1>4, <1>5, <1>6, <1>7 DEF Refuse, SetRefused

\* A query of the validation taken off the list.
CheckedOff(s, broken) ==
    LET check == Head(s.work.checks)
    IN [s EXCEPT
          !.work.checks = Tail(@),
          !.work.seen = @ \/ (check.rule.name = "unique" /\ ~broken),
          !.work.errors = IF broken THEN Add(@, check.field, check.rule.name) ELSE @]

LEMMA CheckedOffSets ==
    ASSUME NEW s, IsService(s), NEW rest, NEW seen, NEW errors
    PROVE  LET t == SetErrors(SetSeen(SetChecks(s, rest), seen), errors)
           IN  /\ Reworked(s, t) /\ t.work.checks = rest /\ t.work.seen = seen
               /\ t.work.errors = errors /\ t.work.raced = s.work.raced
               /\ t.work.wrote = s.work.wrote /\ t.work.refused = s.work.refused
<1>1. PICK t1 : t1 = SetChecks(s, rest)
  OBVIOUS
<1>2. Reworked(s, t1) /\ t1.work = [s.work EXCEPT !.checks = rest]
  BY <1>1, SetsChecks
<1>3. PICK t2 : t2 = SetSeen(t1, seen)
  OBVIOUS
<1>2a. IsService(t1)
  BY <1>2 DEF Reworked
<1>4. Reworked(t1, t2) /\ t2.work = [t1.work EXCEPT !.seen = seen]
  BY <1>2a, <1>3, SetsSeen
<1>5. PICK t : t = SetErrors(t2, errors)
  OBVIOUS
<1>4a. IsService(t2)
  BY <1>4 DEF Reworked
<1>6. Reworked(t2, t) /\ t.work = [t2.work EXCEPT !.errors = errors]
  BY <1>4a, <1>5, SetsErrors
<1>7. Reworked(s, t)
  BY <1>2, <1>4, <1>6 DEF Reworked
<1>8. IsWork(s.work) /\ IsWork(t1.work) /\ IsWork(t2.work)
  BY <1>2, <1>4 DEF Reworked, IsService
<1>9. /\ t.work.checks = rest /\ t.work.seen = seen /\ t.work.errors = errors
      /\ t.work.raced = s.work.raced /\ t.work.wrote = s.work.wrote
      /\ t.work.refused = s.work.refused
  BY <1>2, <1>4, <1>6, <1>8 DEF IsWork
<1> QED
  BY <1>1, <1>3, <1>5, <1>7, <1>9

LEMMA CheckedOffFields ==
    ASSUME NEW s, IsService(s), NEW broken
    PROVE  LET check == Head(s.work.checks)
               t == CheckedOff(s, broken)
           IN  /\ Reworked(s, t)
               /\ t.work.checks = Tail(s.work.checks)
               /\ t.work.seen = (s.work.seen \/ (check.rule.name = "unique" /\ ~broken))
               /\ t.work.errors = IF broken THEN Add(s.work.errors, check.field, check.rule.name)
                                  ELSE s.work.errors
               /\ t.work.raced = s.work.raced /\ t.work.wrote = s.work.wrote
               /\ t.work.refused = s.work.refused
<1> DEFINE check == Head(s.work.checks)
           rest == Tail(s.work.checks)
           seen == s.work.seen \/ (check.rule.name = "unique" /\ ~broken)
           errors == IF broken THEN Add(s.work.errors, check.field, check.rule.name)
                     ELSE s.work.errors
<1>1. CheckedOff(s, broken) = SetErrors(SetSeen(SetChecks(s, rest), seen), errors)
  <2>1. IsWork(s.work)
    BY DEF IsService
  <2> QED
    BY <2>1 DEF CheckedOff, IsService, IsWork, SetErrors, SetSeen, SetChecks
<1> HIDE DEF check, rest, seen, errors
<1>2. PICK t : t = SetErrors(SetSeen(SetChecks(s, rest), seen), errors)
  OBVIOUS
<1>3. /\ Reworked(s, t) /\ t.work.checks = rest /\ t.work.seen = seen
      /\ t.work.errors = errors /\ t.work.raced = s.work.raced
      /\ t.work.wrote = s.work.wrote /\ t.work.refused = s.work.refused
  BY <1>2, CheckedOffSets
<1> QED
  BY <1>1, <1>2, <1>3 DEF rest, seen, errors, check

LEMMA AddDomain ==
    ASSUME NEW errors, NEW field, NEW message
    PROVE  DOMAIN Add(errors, field, message) = DOMAIN errors \cup {field}
BY DEF Add

LEMMA QueryFields ==
    /\ FreeEmail.field = "email" /\ FreeEmail.rule.name = "unique" /\ FreeEmail.rule.except = FALSE
    /\ FreeOrOwnEmail.field = "email" /\ FreeOrOwnEmail.rule.name = "unique"
    /\ FreeOrOwnEmail.rule.except = TRUE
    /\ TeamExists.field = "team_id" /\ TeamExists.rule.name = "exists"
BY DEF FreeEmail, FreeOrOwnEmail, TeamExists, UniqueRule, Rule

LEMMA TailRange ==
    ASSUME NEW q, IsSequence(q), q # <<>>, NEW x \in Range(q), x # Head(q)
    PROVE  x \in Range(Tail(q))
<1>1. /\ Len(q) \in Nat \ {0} /\ DOMAIN q = 1 .. Len(q) /\ DOMAIN Tail(q) = 1 .. Len(q) - 1
      /\ \A i \in 1 .. Len(q) - 1 : Tail(q)[i] = q[i + 1]
      /\ Head(q) = q[1]
  BY TailSequence
<1>2. PICK i \in 1 .. Len(q) : q[i] = x
  BY <1>1 DEF Range
<1>3. i # 1
  BY <1>1, <1>2
<1>4. i - 1 \in 1 .. Len(q) - 1 /\ Tail(q)[i - 1] = x
  BY <1>1, <1>2, <1>3
<1> QED
  BY <1>1, <1>4 DEF Range

MyQuery(s) == IF s.action = "users.store" THEN FreeEmail ELSE FreeOrOwnEmail

LEMMA CheckSteps ==
    ASSUME NEW s, Unwrapped(s), Acting(s), s.pc = "check", NEW broken \in BOOLEAN
    PROVE  LET u == CheckedOff(s, broken)
               t == IF u.work.checks = <<>> THEN Verdict(u) ELSE u
           IN  /\ ApiService(t) /\ SameService(s, t) /\ t.work.raced = s.work.raced
               /\ t.work.seen => s.work.seen \/ (Head(s.work.checks) = MyQuery(s) /\ ~broken)
<1> DEFINE check == Head(s.work.checks)
           mine == MyQuery(s)
<1>1. /\ IsService(s) /\ Enters(s) /\ Asking(s)
      /\ s.work.refused = None /\ s.work.wrote = FALSE
  BY DEF Unwrapped, Acting
<1>2. /\ s.action \in {"users.store", "users.update"}
      /\ IsSequence(s.work.checks) /\ s.work.checks # <<>>
      /\ Range(s.work.checks) \subseteq
              {mine} \cup IF s.action = "users.store" THEN {TeamExists} ELSE {}
      /\ s.work.seen \/ "email" \in DOMAIN s.work.errors \/ mine \in Range(s.work.checks)
  BY <1>1 DEF Asking, MyQuery
<1>3. /\ IsSequence(Tail(s.work.checks)) /\ check \in Range(s.work.checks)
      /\ Range(Tail(s.work.checks)) \subseteq Range(s.work.checks)
  BY <1>2, TailSequence
<1>4. mine.field = "email" /\ mine.rule.name = "unique" /\ TeamExists.rule.name # "unique"
  BY QueryFields DEF MyQuery
<1>5. check.rule.name = "unique" <=> check = mine
  BY <1>2, <1>3, <1>4
<1>6. PICK u : u = CheckedOff(s, broken)
  OBVIOUS
<1>7. /\ Reworked(s, u)
      /\ u.work.checks = Tail(s.work.checks)
      /\ u.work.seen = (s.work.seen \/ (check.rule.name = "unique" /\ ~broken))
      /\ u.work.errors = IF broken THEN Add(s.work.errors, check.field, check.rule.name)
                         ELSE s.work.errors
      /\ u.work.raced = s.work.raced /\ u.work.wrote = s.work.wrote
      /\ u.work.refused = s.work.refused
  BY <1>1, <1>6, CheckedOffFields
<1> HIDE DEF check
<1>8. /\ DOMAIN s.work.errors \subseteq DOMAIN u.work.errors
      /\ broken => check.field \in DOMAIN u.work.errors
  <2>1. PICK e, f, m : e = s.work.errors /\ f = check.field /\ m = check.rule.name
    OBVIOUS
  <2>2. u.work.errors = IF broken THEN Add(e, f, m) ELSE e
    BY <1>7, <2>1
  <2>3. DOMAIN Add(e, f, m) = DOMAIN e \cup {f}
    BY AddDomain
  <2>4. DOMAIN e \subseteq DOMAIN u.work.errors /\ (broken => f \in DOMAIN u.work.errors)
    BY <2>2, <2>3
  <2> QED
    BY <2>1, <2>4
<1>10. u.work.seen => s.work.seen \/ (check = mine /\ ~broken)
  BY <1>5, <1>7
<1>11. \/ u.work.seen
       \/ "email" \in DOMAIN u.work.errors
       \/ mine \in Range(u.work.checks)
  <2>1. CASE s.work.seen
    BY <1>7, <2>1
  <2>2. CASE "email" \in DOMAIN s.work.errors
    BY <1>8, <2>2
  <2>3. CASE mine \in Range(s.work.checks)
    <3>1. CASE check = mine
      BY <1>4, <1>7, <1>8, <3>1
    <3>2. CASE check # mine
      BY <1>2, <1>7, <2>3, <3>2, TailRange DEF check
    <3> QED
      BY <3>1, <3>2
  <2> QED
    BY <1>2, <2>1, <2>2, <2>3
<1>12. SameService(s, u) /\ Unwrapped(u) /\ Enters(u) /\ IsService(u)
  BY <1>1, <1>7, SameReworked, StillUnwrapped, StillEnters DEF Reworked
<1>13. u.action = s.action /\ u.pc = "check" /\ u.req = s.req
  BY <1>7 DEF Reworked
<1>14. CASE u.work.checks # <<>>
  <2>1. Asking(u)
    BY <1>2, <1>3, <1>7, <1>11, <1>13, <1>14 DEF Asking, MyQuery
  <2>2. Acts(u)
    BY <1>2, <1>13 DEF Acts
  <2>3. Acting(u)
    BY <1>1, <1>7, <1>12, <1>13, <2>1, <2>2 DEF Acting
  <2> QED
    BY <1>6, <1>7, <1>10, <1>12, <1>14, <2>3 DEF ApiService, check
<1>15. CASE u.work.checks = <<>>
  <2>1. PICK t : t = Verdict(u)
    OBVIOUS
  <2>2. /\ SameService(u, t) /\ t.work = u.work
        /\ u.work.errors # NoErrors => Fails(t, {"validation"})
        /\ u.work.errors = NoErrors => t.pc = Writes(u.action)
    BY <1>12, <2>1, VerdictSteps
  <2>3. SameService(s, t)
    BY <1>12, <2>2, SameTransitive
  <2>4. Unwrapped(t) /\ Enters(t) /\ Passed(t) /\ t.action = s.action
    BY <1>1, <2>3, StillUnwrapped, StillEnters DEF SameService
  <2>5. t.work.wrote = FALSE /\ t.work.refused = None
    BY <1>1, <1>7, <2>2
  <2>6. ASSUME u.work.errors # NoErrors PROVE ApiService(t)
    <3>1. Fails(t, Failures)
      BY <2>2, <2>6, FailsForAll DEF Failures
    <3>2. Answered(t)
      BY <2>4, <2>5, <3>1 DEF Answered
    <3> QED
      BY <2>4, <3>2 DEF ApiService
  <2>7. ASSUME u.work.errors = NoErrors PROVE ApiService(t)
    <3>1. mine \notin Range(u.work.checks)
      BY <1>15 DEF Range
    <3>2. u.work.seen
      BY <1>11, <2>7, <3>1, NoErrorsHasNone
    <3>3. t.pc = IF s.action = "users.store" THEN "insert" ELSE "update"
      BY <1>2, <1>13, <2>2, <2>7 DEF Writes
    <3>4. t.work.seen = TRUE
      BY <1>7, <2>2, <3>2
    <3>5. Acts(t)
      BY <1>2, <2>4, <3>3 DEF Acts
    <3>6. Acting(t)
      BY <1>2, <2>4, <2>5, <3>3, <3>4, <3>5 DEF Acting
    <3> QED
      BY <2>4, <3>6 DEF ApiService
  <2>8. ApiService(t)
    BY <2>6, <2>7
  <2> QED
    BY <1>6, <1>7, <1>10, <1>15, <2>1, <2>2, <2>3, <2>8 DEF check
<1> QED
  BY <1>14, <1>15

LEMMA ActingFields ==
    ASSUME NEW s, Unwrapped(s), Acting(s)
    PROVE  /\ IsService(s) /\ IsWork(s.work) /\ Enters(s) /\ s.work.refused = None
           /\ s.pc # "after" => s.work.wrote = FALSE
           /\ s.pc = "after" => s.work.wrote = TRUE
           /\ s.pc \in {"insert", "update"} => s.work.seen = TRUE
BY DEF Unwrapped, Acting, IsService

\* A hook refuses, before the write or after it.
LEMMA RefuseSteps ==
    ASSUME NEW s, Unwrapped(s), Acting(s),
           NEW when, s.pc = "after" => when = "after"
    PROVE  LET t == Refuse(s, when)
           IN  ApiService(t) /\ SameService(s, t) /\ t.pc = "answer"
<1>1. IsService(s) /\ Enters(s) /\ (s.pc # "after" => s.work.wrote = FALSE)
  BY ActingFields
<1>2. PICK t : t = Refuse(s, when)
  OBVIOUS
<1>3. /\ SameService(s, t) /\ Fails(t, {"conflict"})
      /\ t.work.wrote = s.work.wrote /\ t.work.refused = when
  BY <1>1, <1>2, RefuseFields
<1>4. Unwrapped(t) /\ Passed(t)
  BY <1>1, <1>3, StillUnwrapped, StillEnters
<1>5. Fails(t, Failures) /\ t.pc = "answer"
  BY <1>3, FailsForAll DEF Failures, Fails
<1>6. t.work.wrote = TRUE => t.work.refused = "after"
  BY <1>1, <1>3
<1>7. Answered(t)
  BY <1>4, <1>5, <1>6 DEF Answered
<1> QED
  BY <1>2, <1>3, <1>4, <1>5, <1>7 DEF ApiService

WrittenBy(s) == [s EXCEPT !.work.wrote = TRUE, !.pc = "after"]

LEMMA WriteSteps ==
    ASSUME NEW s, Unwrapped(s), Acting(s), s.pc \in {"insert", "update"}
    PROVE  LET t == WrittenBy(s)
           IN  /\ ApiService(t) /\ SameService(s, t) /\ t.pc = "after"
<1>1. IsService(s) /\ IsWork(s.work) /\ Enters(s) /\ s.work.refused = None
  BY ActingFields
<1>2. PICK u : u = SetWrote(s, TRUE)
  OBVIOUS
<1>3. Reworked(s, u) /\ u.work = [s.work EXCEPT !.wrote = TRUE]
  BY <1>1, <1>2, SetsWrote
<1>4. u.work.wrote = TRUE /\ u.work.refused = None
  BY <1>1, <1>3 DEF IsWork
<1>5. PICK t : t = Goto(u, "after")
  OBVIOUS
<1>6. IsService(u)
  BY <1>3 DEF Reworked
<1>7. SameService(u, t) /\ t.pc = "after" /\ t.work = u.work
  BY <1>5, <1>6, GotoFields
<1>8. SameService(s, t)
  BY <1>3, <1>7, SameReworked, SameTransitive
<1>9. Unwrapped(t) /\ Enters(t) /\ t.action = s.action
  BY <1>1, <1>8, StillUnwrapped, StillEnters DEF SameService
<1>10. Acts(t)
  <2>1. s.action \in {"users.store", "users.update"}
    BY DEF Acting, Acts
  <2> QED
    BY <1>7, <1>9, <2>1 DEF Acts
<1>11. Acting(t)
  BY <1>4, <1>7, <1>9, <1>10 DEF Acting
<1>12. WrittenBy(s) = t
  BY <1>2, <1>5 DEF WrittenBy, Goto, SetWrote
<1> QED
  BY <1>7, <1>8, <1>9, <1>11, <1>12 DEF ApiService

LEMMA SucceedSteps ==
    ASSUME NEW s, Unwrapped(s), Enters(s), NEW status \in {200, 201, 204},
           s.action \in Changes => s.work.wrote = TRUE
    PROVE  LET t == Finish(s, I!Ok(I!Response(status)))
           IN  /\ ApiService(t) /\ SameService(s, t) /\ t.pc = "answer" /\ t.work = s.work
               /\ t.ctx.outcome = I!Ok(I!Response(status))
<1>1. PICK o : o = I!Ok(I!Response(status))
  OBVIOUS
<1>2. PICK t : t = Finish(s, o)
  OBVIOUS
<1>3. /\ SameService(s, t) /\ t.pc = "answer" /\ t.ctx.outcome = o /\ t.work = s.work
  BY <1>2, FinishFields DEF Unwrapped
<1>4. t.ctx.outcome = I!Ok(I!Response(status)) /\ (s.action \in Changes => t.work.wrote = TRUE)
  BY <1>1, <1>3
<1>5. ApiService(t)
  BY <1>3, <1>4, ActingSucceeds, ZenonT(60)
<1> QED
  BY <1>1, <1>2, <1>3, <1>4, <1>5

DeletedBy(s) == [Finish(s, I!Ok(I!Response(204))) EXCEPT !.work.wrote = TRUE]

LEMMA DeleteSteps ==
    ASSUME NEW s, Unwrapped(s), Acting(s)
    PROVE  LET t == DeletedBy(s)
           IN  ApiService(t) /\ SameService(s, t) /\ t.pc = "answer"
<1>1. IsService(s) /\ Enters(s)
  BY ActingFields
<1>2. PICK o : o = I!Ok(I!Response(204))
  OBVIOUS
<1>3. PICK u : u = Finish(s, o)
  OBVIOUS
<1>4. SameService(s, u) /\ u.pc = "answer" /\ u.ctx.outcome = o
  BY <1>1, <1>3, FinishFields
<1>5. IsService(u) /\ IsWork(u.work)
  BY <1>4 DEF SameService, IsService
<1>6. PICK t : t = SetWrote(u, TRUE)
  OBVIOUS
<1>7. Reworked(u, t) /\ t.work = [u.work EXCEPT !.wrote = TRUE]
  BY <1>5, <1>6, SetsWrote
<1>8. t.work.wrote = TRUE
  BY <1>5, <1>7 DEF IsWork
<1>9. SameService(s, t) /\ t.pc = "answer" /\ t.ctx.outcome = o
  BY <1>4, <1>7, SameReworked, SameTransitive DEF Reworked
<1>10. ApiService(t)
  BY <1>1, <1>2, <1>8, <1>9, ActingSucceeds
<1>11. DeletedBy(s) = t
  BY <1>2, <1>3, <1>6 DEF DeletedBy, SetWrote
<1> QED
  BY <1>9, <1>10, <1>11

LEMMA FindSteps ==
    ASSUME NEW s, Unwrapped(s), Acting(s), s.pc = "find"
    PROVE  /\ LET t == Validate(s)
              IN  s.action = "users.update" =>
                    /\ ApiService(t) /\ SameService(s, t)
                    /\ t.pc \in {"answer", "check"} /\ Untouched(t.work)
           /\ LET t == Goto(s, "delete")
              IN  s.action # "users.update" =>
                    ApiService(t) /\ SameService(s, t) /\ t.pc = "delete"
<1>1. IsService(s) /\ Enters(s) /\ s.work.refused = None /\ s.work.wrote = FALSE
  BY ActingFields
<1>2. Untouched(s.work) /\ s.action \in {"users.update", "users.destroy"}
  BY DEF Acting, Acts
<1>3. ASSUME s.action = "users.update"
      PROVE  LET t == Validate(s)
             IN  /\ ApiService(t) /\ SameService(s, t)
                 /\ t.pc \in {"answer", "check"} /\ Untouched(t.work)
  <2>1. PICK t : t = Validate(s)
    OBVIOUS
  <2>2. /\ SameService(s, t) /\ Untouched(t.work)
        /\ \/ Fails(t, {"bad-request", "validation"})
           \/ t.pc = "check" /\ Asking(t)
    BY <1>1, <1>2, <1>3, <2>1, ValidateApi
  <2>3. Unwrapped(t) /\ Enters(t) /\ Passed(t) /\ t.action = s.action
    BY <1>1, <2>2, StillUnwrapped, StillEnters DEF SameService
  <2>4. t.work.refused = None /\ t.work.wrote = FALSE
    BY <2>2 DEF Untouched
  <2>5. Fails(t, {"bad-request", "validation"}) => Answered(t) /\ t.pc = "answer"
    <3>1. Fails(t, {"bad-request", "validation"}) => Fails(t, Failures) /\ t.pc = "answer"
      BY FailsForAll DEF Failures, Fails
    <3> QED
      BY <2>3, <2>4, <3>1 DEF Answered
  <2>6. t.pc = "check" /\ Asking(t) => Acting(t)
    BY <1>3, <2>3, <2>4 DEF Acting, Acts
  <2> QED
    BY <2>1, <2>2, <2>3, <2>5, <2>6 DEF ApiService
<1>4. ASSUME s.action # "users.update"
      PROVE  LET t == Goto(s, "delete")
             IN  ApiService(t) /\ SameService(s, t) /\ t.pc = "delete"
  <2>1. PICK pc : pc = "delete"
    OBVIOUS
  <2>2. Leads(s, pc)
    BY <1>2, <1>4, <2>1 DEF Acts, Leads
  <2>3. /\ pc \in {"delete", "all", "members", "fetch", "load", "find", "count"}
        /\ pc \notin {"find", "count"}
    BY <2>1
  <2>4. ApiService(Goto(s, pc))
    BY <1>1, <2>2, <2>3, GotoActs
  <2> QED
    BY <1>1, <2>1, <2>4, GotoFields
<1> QED
  BY <1>3, <1>4

\* The statements of a listing.
LEMMA ListingSteps ==
    ASSUME NEW s, Unwrapped(s), Acting(s), s.action \in {"users.index", "teams.index"},
           NEW u, Reworked(s, u), u.work.wrote = s.work.wrote, u.work.refused = s.work.refused
    PROVE  /\ LET t == Listed(u)
              IN  /\ ApiService(t) /\ SameService(s, t) /\ t.pc = "answer" /\ t.work = u.work
                  /\ t.ctx.outcome = I!Ok(I!Response(200))
           /\ \A pc \in {"fetch", "load", "members"} :
                 Leads(s, pc) =>
                   LET t == Goto(u, pc)
                   IN  ApiService(t) /\ SameService(s, t) /\ t.pc = pc /\ t.work = u.work
<1>1. IsService(s) /\ Enters(s) /\ s.work.refused = None /\ s.work.wrote = FALSE
  BY ActingFields DEF Acting, Acts
<1>2. SameService(s, u) /\ IsService(u) /\ u.action = s.action /\ u.req = s.req
  BY SameReworked DEF Reworked
<1>3. Unwrapped(u) /\ Enters(u) /\ u.work.refused = None /\ u.work.wrote = FALSE
  BY <1>1, <1>2, StillUnwrapped, StillEnters
<1>4. LET t == Listed(u)
      IN  /\ ApiService(t) /\ SameService(s, t) /\ t.pc = "answer" /\ t.work = u.work
          /\ t.ctx.outcome = I!Ok(I!Response(200))
  <2>1. u.action \in Changes => u.work.wrote = TRUE
    BY <1>2 DEF Changes
  <2>2. PICK status \in {200, 201, 204} : status = 200
    OBVIOUS
  <2>a. LET t == Finish(u, I!Ok(I!Response(status)))
        IN  /\ ApiService(t) /\ SameService(u, t) /\ t.pc = "answer" /\ t.work = u.work
            /\ t.ctx.outcome = I!Ok(I!Response(status))
    BY <1>3, <2>1, SucceedSteps, ZenonT(60)
  <2>3. PICK t : t = Finish(u, I!Ok(I!Response(status)))
    OBVIOUS
  <2>4. /\ ApiService(t) /\ SameService(u, t) /\ t.pc = "answer" /\ t.work = u.work
        /\ t.ctx.outcome = I!Ok(I!Response(status))
    BY <2>a, <2>3
  <2>5. SameService(s, t)
    BY <1>2, <2>4, SameTransitive
  <2>6. Listed(u) = t
    BY <2>2, <2>3 DEF Listed
  <2> QED
    BY <2>2, <2>4, <2>5, <2>6
<1>5. ASSUME NEW pc \in {"fetch", "load", "members"}, Leads(s, pc)
      PROVE  LET t == Goto(u, pc)
             IN  ApiService(t) /\ SameService(s, t) /\ t.pc = pc /\ t.work = u.work
  <2>1. Leads(u, pc)
    BY <1>2, <1>5 DEF Leads
  <2>2. ApiService(Goto(u, pc))
    BY <1>3, <2>1, GotoActs
  <2>3. SameService(u, Goto(u, pc)) /\ Goto(u, pc).pc = pc /\ Goto(u, pc).work = u.work
    BY <1>2, GotoFields
  <2> QED
    BY <1>2, <2>2, <2>3, SameTransitive
<1> QED
  BY <1>4, <1>5

CountedBy(s, n) == [s EXCEPT !.work.total = n, !.pc = "fetch"]

LEMMA CountSteps ==
    ASSUME NEW s, Unwrapped(s), Acting(s), s.pc = "count", NEW n
    PROVE  LET t == CountedBy(s, n)
           IN  /\ ApiService(t) /\ SameService(s, t) /\ t.pc = "fetch" /\ t.work.total = n
               /\ t.work.came = FALSE /\ t.work.gone = FALSE
<1>1. IsService(s) /\ IsWork(s.work) /\ s.work.came = FALSE /\ s.work.gone = FALSE
  BY ActingFields DEF Acting, Untouched
<1>2. PICK u : u = SetTotal(s, n)
  OBVIOUS
<1>3. Reworked(s, u) /\ u.work = [s.work EXCEPT !.total = n]
  BY <1>1, <1>2, SetsTotal
<1>4. /\ u.work.wrote = s.work.wrote /\ u.work.refused = s.work.refused
      /\ u.work.total = n /\ u.work.came = FALSE /\ u.work.gone = FALSE
  BY <1>1, <1>3 DEF IsWork
<1>5. /\ s.action = "users.index" /\ s.req.id \in Nat
      /\ s.action \in {"users.index", "teams.index"}
  BY DEF Acting, Acts
<1>6. PICK pc \in {"fetch", "load", "members"} : pc = "fetch"
  OBVIOUS
<1>7. Leads(s, pc)
  BY <1>5, <1>6 DEF Leads, Acts
<1>8. PICK t : t = Goto(u, pc)
  OBVIOUS
<1>9. ApiService(t) /\ SameService(s, t) /\ t.pc = pc /\ t.work = u.work
  <2>1. Reworked(s, u)
    BY <1>3
  <2> QED
    BY <2>1, <1>4, <1>5, <1>6, <1>7, <1>8, ListingSteps
<1>10. CountedBy(s, n) = t
  BY <1>2, <1>6, <1>8 DEF CountedBy, SetTotal, Goto
<1> QED
  BY <1>4, <1>6, <1>9, <1>10

FetchedBy(s, data, rows) ==
    LET next == [s EXCEPT !.work.data = data, !.work.rows = rows]
    IN IF data = <<>> THEN Listed(next) ELSE Goto(next, "load")

LEMMA FetchSteps ==
    ASSUME NEW s, Unwrapped(s), Acting(s), s.pc = "fetch", NEW data, NEW rows
    PROVE  LET t == FetchedBy(s, data, rows)
           IN  /\ ApiService(t) /\ SameService(s, t) /\ t.pc \in {"load", "answer"}
               /\ t.work.data = data /\ t.work.rows = rows /\ t.work.total = s.work.total
               /\ t.work.came = s.work.came /\ t.work.gone = s.work.gone
<1>1. IsService(s) /\ IsWork(s.work)
  BY ActingFields
<1>2. PICK u1 : u1 = SetData(s, data)
  OBVIOUS
<1>3. Reworked(s, u1) /\ u1.work = [s.work EXCEPT !.data = data]
  BY <1>1, <1>2, SetsData
<1>4. IsService(u1) /\ IsWork(u1.work)
  BY <1>3 DEF Reworked, IsService
<1>5. PICK u : u = SetRows(u1, rows)
  OBVIOUS
<1>6. Reworked(u1, u) /\ u.work = [u1.work EXCEPT !.rows = rows]
  BY <1>4, <1>5, SetsRows
<1>7. Reworked(s, u)
  BY <1>3, <1>6 DEF Reworked
<1>8. /\ u.work.wrote = s.work.wrote /\ u.work.refused = s.work.refused
      /\ u.work.data = data /\ u.work.rows = rows /\ u.work.total = s.work.total
      /\ u.work.came = s.work.came /\ u.work.gone = s.work.gone
  BY <1>1, <1>3, <1>4, <1>6 DEF IsWork
<1>9. /\ s.action = "users.index" /\ s.req.id \in Nat
      /\ s.action \in {"users.index", "teams.index"}
  BY DEF Acting, Acts
<1>10. PICK pc \in {"fetch", "load", "members"} : pc = "load"
  OBVIOUS
<1>11. Leads(s, pc)
  BY <1>9, <1>10 DEF Leads, Acts
<1>12. [s EXCEPT !.work.data = data, !.work.rows = rows] = u
  BY <1>2, <1>5 DEF SetData, SetRows
<1>13. FetchedBy(s, data, rows) = IF data = <<>> THEN Listed(u) ELSE Goto(u, "load")
  BY <1>12 DEF FetchedBy
<1>14. PICK listed, gone : listed = Listed(u) /\ gone = Goto(u, pc)
  OBVIOUS
<1>15. ApiService(listed) /\ SameService(s, listed) /\ listed.pc = "answer" /\ listed.work = u.work
  BY <1>7, <1>8, <1>9, <1>14, ListingSteps
<1>16. ApiService(gone) /\ SameService(s, gone) /\ gone.pc = pc /\ gone.work = u.work
  BY <1>7, <1>8, <1>9, <1>10, <1>11, <1>14, ListingSteps
<1> QED
  BY <1>8, <1>10, <1>13, <1>14, <1>15, <1>16

LEMMA LoadSteps ==
    ASSUME NEW s, Unwrapped(s), Acting(s), s.pc \in {"load", "members"}, NEW related
    PROVE  LET t == Listed([s EXCEPT !.work.related = related])
           IN  /\ ApiService(t) /\ SameService(s, t) /\ t.pc = "answer"
               /\ t.work.data = s.work.data /\ t.work.total = s.work.total
               /\ t.work.came = s.work.came /\ t.work.gone = s.work.gone
<1>1. IsService(s) /\ IsWork(s.work)
  BY ActingFields
<1>2. PICK u : u = SetRelated(s, related)
  OBVIOUS
<1>3. Reworked(s, u) /\ u.work = [s.work EXCEPT !.related = related]
  BY <1>1, <1>2, SetsRelated
<1>4. /\ u.work.wrote = s.work.wrote /\ u.work.refused = s.work.refused
      /\ u.work.data = s.work.data /\ u.work.total = s.work.total
      /\ u.work.came = s.work.came /\ u.work.gone = s.work.gone
  BY <1>1, <1>3 DEF IsWork
<1>5. s.action \in {"users.index", "teams.index"}
  BY DEF Acting, Acts
<1>6. PICK t : t = Listed(u)
  OBVIOUS
<1>7. ApiService(t) /\ SameService(s, t) /\ t.pc = "answer" /\ t.work = u.work
  <2>1. Reworked(s, u)
    BY <1>3
  <2> QED
    BY <2>1, <1>4, <1>5, <1>6, ListingSteps
<1> QED
  BY <1>2, <1>4, <1>6, <1>7 DEF SetRelated

LEMMA AllSteps ==
    ASSUME NEW s, Unwrapped(s), Acting(s), s.pc = "all", NEW data
    PROVE  LET next == [s EXCEPT !.work.data = data]
               t == IF data = <<>> THEN Listed(next) ELSE Goto(next, "members")
           IN  ApiService(t) /\ SameService(s, t) /\ t.pc \in {"members", "answer"}
<1>1. IsService(s) /\ IsWork(s.work)
  BY ActingFields
<1>2. PICK u : u = SetData(s, data)
  OBVIOUS
<1>3. Reworked(s, u) /\ u.work = [s.work EXCEPT !.data = data]
  BY <1>1, <1>2, SetsData
<1>4. u.work.wrote = s.work.wrote /\ u.work.refused = s.work.refused
  BY <1>1, <1>3 DEF IsWork
<1>5. s.action = "teams.index" /\ s.action \in {"users.index", "teams.index"}
  BY DEF Acting, Acts
<1>6. PICK pc \in {"fetch", "load", "members"} : pc = "members"
  OBVIOUS
<1>7. Leads(s, pc)
  BY <1>5, <1>6 DEF Leads, Acts
<1>8. PICK listed, gone : listed = Listed(u) /\ gone = Goto(u, pc)
  OBVIOUS
<1>9. ApiService(listed) /\ SameService(s, listed) /\ listed.pc = "answer"
  BY <1>3, <1>4, <1>5, <1>8, ListingSteps, ZenonT(60)
<1>10. ApiService(gone) /\ SameService(s, gone) /\ gone.pc = pc
  BY <1>3, <1>4, <1>5, <1>6, <1>7, <1>8, ListingSteps, ZenonT(60)
<1> QED
  BY <1>2, <1>6, <1>8, <1>9, <1>10 DEF SetData

\* What another request leaves on this one.
LEMMA FlagSteps ==
    ASSUME NEW s, Unwrapped(s), Acting(s), s.pc \notin {"find", "count"},
           NEW t, Reworked(s, t), t.work.checks = s.work.checks,
           t.work.errors = s.work.errors, t.work.seen = s.work.seen,
           t.work.wrote = s.work.wrote, t.work.refused = s.work.refused
    PROVE  ApiService(t) /\ SameService(s, t) /\ t.pc = s.pc
<1>1. SameService(s, t) /\ t.pc = s.pc /\ t.action = s.action /\ t.req = s.req
  BY SameReworked DEF Reworked
<1>2. Unwrapped(t) /\ Enters(t)
  BY <1>1, ActingFields, StillUnwrapped, StillEnters
<1>3. Acts(t)
  BY <1>1 DEF Acting, Acts
<1>4. s.pc = "check" => Asking(t)
  BY <1>1 DEF Acting, Asking
<1>5. Acting(t)
  BY <1>1, <1>2, <1>3, <1>4 DEF Acting
<1> QED
  BY <1>1, <1>2, <1>5 DEF ApiService

-----------------------------------------------------------------------------
(***************************************************************************)
(* A request of a client of the API as it is taken up                      *)
(***************************************************************************)

\* A request its middleware let in, or turned away, before its action.
Arrived(s) ==
    /\ Unwrapped(s) /\ Untouched(s.work) /\ s.ctx.inertia = None
    /\ \/ s.ctx.outcome = Refused
       \/ s.ctx.outcome = I!Running /\ Enters(s)

\* The same, whether or not a token is required.
LetIn(x, n, req) ==
    /\ IsContext(x) /\ x.session = None /\ x.inertia = None /\ x.database = TRUE
    /\ x.entered \in 0 .. n
    /\ \/ x.outcome = Refused
       \/ /\ x.outcome = I!Running
          /\ IF req.token = None THEN x.auth = None
             ELSE req.token.valid /\ x.auth = req.token.subject

LEMMA AdmittedIsLetIn ==
    ASSUME NEW x, NEW n, NEW req, NEW required, Admitted(x, n, req, required)
    PROVE  LetIn(x, n, req) /\ (required = TRUE /\ x.outcome # Refused => req.token # None)
BY DEF Admitted, LetIn

\* The first of a chain are not the middleware of pages.
NotOfPages(stack, n) == \A i \in 1 .. n : stack[i] # "inertia"

LEMMA Arrives ==
    ASSUME NEW req, IsRequest(req), req.inertia = FALSE, NEW action, NEW stack,
           NEW n \in 0 .. 3, NotOfPages(stack, n),
           NEW ctx, LetIn(ctx, n, req),
           action \in Protected /\ ctx.outcome # Refused => req.token # None
    PROVE  LET s == Taken(req, action, stack, ctx)
           IN  Arrived(s) /\ s.req = req /\ s.action = action /\ s.ctx = ctx
<1>1. PICK s : s = Taken(req, action, stack, ctx)
  OBVIOUS
<1>2. /\ IsService(s) /\ s.pc = "begin" /\ s.req = req /\ s.action = action
      /\ s.stack = stack /\ s.ctx = ctx /\ s.work = NewWork
  BY <1>1, TakenFields DEF LetIn
<1>3. /\ ctx.session = None /\ ctx.inertia = None /\ ctx.database = TRUE
      /\ ctx.entered \in 0 .. n
      /\ \/ ctx.outcome = Refused
         \/ /\ ctx.outcome = I!Running
            /\ IF req.token = None THEN ctx.auth = None
               ELSE req.token.valid /\ ctx.auth = req.token.subject
  BY DEF LetIn
<1>4. Unwrapped(s)
  <2>1. ctx.entered \in 0 .. 3 /\ \A i \in 1 .. ctx.entered : stack[i] # "inertia"
    BY <1>3 DEF NotOfPages
  <2> QED
    BY <1>2, <1>3, <2>1 DEF Unwrapped
<1>5. ctx.outcome = Refused \/ (ctx.outcome = I!Running /\ Enters(s))
  BY <1>2, <1>3, RefusedIsNotRunning DEF Enters
<1> QED
  BY <1>1, <1>2, <1>3, <1>4, <1>5, NewWorkFields DEF Arrived

\* What is served before the first statement.
Fresh(s) ==
    /\ s.pc \in {"answer", "count", "check", "find", "delete", "all"} /\ Untouched(s.work)
    /\ s.pc = "answer" /\ s.action = "users.index" => I!IsErr(s.ctx.outcome)

LEMMA TurnedAway ==
    ASSUME NEW s, Arrived(s), s.ctx.outcome # I!Running
    PROVE  LET t == Goto(s, "answer")
           IN  ApiService(t) /\ SameService(s, t) /\ Fresh(t)
<1>1. IsService(s) /\ Unwrapped(s) /\ s.ctx.outcome = Refused /\ Untouched(s.work)
  BY DEF Arrived, Unwrapped
<1>2. PICK t : t = Goto(s, "answer")
  OBVIOUS
<1>3. SameService(s, t) /\ t.pc = "answer" /\ t.ctx = s.ctx /\ t.work = s.work
  BY <1>1, <1>2, GotoFields
<1>4. Unwrapped(t)
  BY <1>1, <1>3, StillUnwrapped
<1>5. PICK o : o = t.ctx.outcome
  OBVIOUS
<1>6. o = I!Err("unauthorized", <<>>)
  BY <1>1, <1>3, <1>5 DEF Refused
<1>7. o.kind = "unauthorized"
  BY <1>6 DEF I!Err
<1>8. Fails(t, Failures) /\ I!IsErr(o)
  BY <1>3, <1>5, <1>6, <1>7 DEF Fails, Failures, I!IsErr
<1>9. t.work.wrote = FALSE
  BY <1>1, <1>3 DEF Untouched
<1>10. Answered(t)
  BY <1>5, <1>7, <1>8, <1>9 DEF Answered, Passed
<1> QED
  BY <1>1, <1>2, <1>3, <1>4, <1>5, <1>8, <1>10 DEF ApiService, Fresh

LEMMA ArrivedFields ==
    ASSUME NEW s, Arrived(s), s.ctx.outcome = I!Running
    PROVE  /\ IsService(s) /\ Unwrapped(s) /\ Enters(s) /\ Untouched(s.work)
           /\ s.work.wrote = FALSE /\ s.work.refused = None /\ s.ctx.inertia = None
BY RefusedIsNotRunning DEF Arrived, Unwrapped, Untouched

LEMMA BeginFails ==
    ASSUME NEW s, Arrived(s), s.ctx.outcome = I!Running, NEW k \in Failures
    PROVE  LET t == Finish(s, I!Err(k, <<>>))
           IN  ApiService(t) /\ SameService(s, t) /\ Fresh(t)
<1>1. /\ IsService(s) /\ Unwrapped(s) /\ Enters(s) /\ Untouched(s.work) /\ s.work.wrote = FALSE
  BY ArrivedFields
<1>2. PICK o : o = I!Err(k, <<>>)
  OBVIOUS
<1>3. PICK t : t = Finish(s, o)
  OBVIOUS
<1>4. ApiService(t)
  BY <1>1, <1>2, <1>3, FinishFails
<1>5. SameService(s, t) /\ t.pc = "answer" /\ t.work = s.work /\ t.ctx.outcome = o
  BY <1>1, <1>3, FinishFields
<1>6. I!IsErr(o)
  BY <1>2 DEF I!Err, I!IsErr, Failures
<1> QED
  BY <1>1, <1>2, <1>3, <1>4, <1>5, <1>6 DEF Fresh

LEMMA BeginGoes ==
    ASSUME NEW s, Arrived(s), s.ctx.outcome = I!Running,
           NEW pc \in {"find", "count", "delete", "all"}, Leads(s, pc)
    PROVE  LET t == Goto(s, pc)
           IN  ApiService(t) /\ SameService(s, t) /\ Fresh(t)
<1>1. /\ IsService(s) /\ Unwrapped(s) /\ Enters(s) /\ Untouched(s.work)
      /\ s.work.wrote = FALSE /\ s.work.refused = None
  BY ArrivedFields
<1>2. PICK t : t = Goto(s, pc)
  OBVIOUS
<1>3. SameService(s, t) /\ t.pc = pc /\ t.work = s.work
  BY <1>1, <1>2, GotoFields
<1>4. pc \in {"delete", "all", "members", "fetch", "load", "find", "count"}
  OBVIOUS
<1>5. ApiService(t)
  BY <1>1, <1>2, <1>4, GotoActs
<1> QED
  BY <1>1, <1>2, <1>3, <1>5 DEF Fresh

LEMMA BeginStore ==
    ASSUME NEW s, Arrived(s), s.ctx.outcome = I!Running, s.action = "users.store"
    PROVE  LET t == Validate(s)
           IN  ApiService(t) /\ SameService(s, t) /\ Fresh(t)
<1>1. /\ IsService(s) /\ Unwrapped(s) /\ Enters(s) /\ Untouched(s.work)
  BY ArrivedFields
<1>2. PICK t : t = Validate(s)
  OBVIOUS
<1>3. /\ SameService(s, t) /\ Untouched(t.work)
      /\ \/ Fails(t, {"bad-request", "validation"})
         \/ t.pc = "check" /\ Asking(t)
  BY <1>1, <1>2, ValidateApi
<1>4. Unwrapped(t) /\ Enters(t) /\ Passed(t) /\ t.action = "users.store"
  BY <1>1, <1>3, StillUnwrapped, StillEnters DEF SameService
<1>5. t.work.wrote = FALSE /\ t.work.refused = None
  BY <1>3 DEF Untouched
<1>6. CASE Fails(t, {"bad-request", "validation"})
  <2>1. Fails(t, Failures) /\ t.pc = "answer"
    BY <1>6, FailsForAll DEF Failures, Fails
  <2>2. Answered(t)
    BY <1>4, <1>5, <2>1 DEF Answered
  <2> QED
    BY <1>2, <1>3, <1>4, <2>1, <2>2 DEF ApiService, Fresh
<1>7. CASE t.pc = "check" /\ Asking(t)
  <2>1. Acting(t)
    BY <1>4, <1>5, <1>7 DEF Acting, Acts
  <2> QED
    BY <1>2, <1>3, <1>4, <1>7, <2>1 DEF ApiService, Fresh
<1> QED
  BY <1>3, <1>6, <1>7

Actions == {"users.index", "users.store", "users.update", "users.destroy",
            "teams.index", "teams.destroy", "pages.home"}

LEMMA BeginApi ==
    ASSUME NEW s, Arrived(s), s.ctx.outcome = I!Running, s.action \in Actions,
           s.action = "users.index" => s.req.id \in Nat \cup {Malformed}
    PROVE  LET t == Begin(s)
           IN  ApiService(t) /\ SameService(s, t) /\ Fresh(t)
<1>0. "bad-request" \in Failures /\ "internal" \in Failures
  BY DEF Failures
<1>1. CASE s.action = "users.index"
  <2>1. CASE s.req.id = Malformed
    <3>1. Begin(s) = Finish(s, I!Err("bad-request", <<>>))
      BY <1>1, <2>1 DEF Begin
    <3> QED
      BY <1>0, <3>1, BeginFails
  <2>2. CASE s.req.id # Malformed
    <3>1. Begin(s) = Goto(s, "count")
      BY <1>1, <2>2 DEF Begin
    <3>2. PICK pc \in {"find", "count", "delete", "all"} : pc = "count"
      OBVIOUS
    <3>3. s.req.id \in Nat
      BY <1>1, <2>2
    <3>4. Leads(s, pc)
      BY <1>1, <3>2, <3>3 DEF Leads, Acts
    <3> QED
      BY <3>1, <3>2, <3>4, BeginGoes
  <2> QED
    BY <2>1, <2>2
<1>2. CASE s.action = "users.store"
  <2>1. Begin(s) = Validate(s)
    BY <1>2 DEF Begin
  <2> QED
    BY <1>2, <2>1, BeginStore
<1>3. CASE s.action \in {"users.update", "users.destroy", "teams.destroy"}
  <2>1. CASE s.req.id = Malformed
    <3>1. Begin(s) = Finish(s, I!Err("bad-request", <<>>))
      BY <1>3, <2>1 DEF Begin
    <3> QED
      BY <1>0, <3>1, BeginFails
  <2>2. CASE s.req.id # Malformed
    <3>1. PICK pc \in {"find", "count", "delete", "all"} :
             pc = IF s.action = "teams.destroy" THEN "delete" ELSE "find"
      OBVIOUS
    <3>2. Begin(s) = Goto(s, pc)
      BY <1>3, <2>2, <3>1 DEF Begin
    <3>3. Leads(s, pc)
      BY <1>3, <3>1 DEF Leads, Acts
    <3> QED
      BY <3>2, <3>3, BeginGoes
  <2> QED
    BY <2>1, <2>2
<1>4. CASE s.action = "teams.index"
  <2>1. PICK pc \in {"find", "count", "delete", "all"} : pc = "all"
    OBVIOUS
  <2>2. Begin(s) = Goto(s, pc)
    BY <1>4, <2>1 DEF Begin
  <2>3. Leads(s, pc)
    BY <1>4, <2>1 DEF Leads, Acts
  <2> QED
    BY <2>2, <2>3, BeginGoes
<1>5. CASE s.action = "pages.home"
  <2>1. I!Render(s.ctx, s.req, "Home", PropsOf("Home")) = I!Err("internal", <<>>)
    BY ArrivedFields DEF I!Render
  <2>2. Begin(s) = Finish(s, I!Err("internal", <<>>))
    BY <1>5, <2>1 DEF Begin, RenderPage
  <2> QED
    BY <1>0, <2>2, BeginFails
<1> QED
  BY <1>1, <1>2, <1>3, <1>4, <1>5 DEF Actions

\* The service of a request a handler takes, before its action.
Incoming(a, req, action, stack) ==
    Taken(req, action, stack, I!Inbound(stack, req, cells[ClientOf(a)], version))

LEMMA TakenUpIs ==
    ASSUME NEW a, NEW req, NEW action, NEW stack, Routed(req, action, stack)
    PROVE  LET s == Incoming(a, req, action, stack)
           IN  TakenUp(a, req) = IF s.ctx.outcome # I!Running THEN Goto(s, "answer")
                                 ELSE Begin(s)
<1>1. PICK n : n = Dispatch(Served, req.method, req.path)
  OBVIOUS
<1>2. n # 0 /\ Served[n].kind = "route" /\ Served[n].action = action
      /\ Served[n].middleware = stack
  BY <1>1 DEF Routed, Reaches
<1>3. PICK ctx : ctx = I!Inbound(stack, req, cells[ClientOf(a)], version)
  OBVIOUS
<1>4. PICK s : s = Taken(req, action, stack, ctx)
  OBVIOUS
<1>5. s.ctx = ctx
  BY <1>4 DEF Taken
<1>6. TakenUp(a, req) = IF ctx.outcome # I!Running THEN Goto(s, "answer") ELSE Begin(s)
  BY <1>1, <1>2, <1>3, <1>4 DEF TakenUp
<1> QED
  BY <1>3, <1>4, <1>5, <1>6 DEF Incoming

\* What an API request is when it has been taken up.
UpFor(t, req, action) == ApiService(t) /\ Fresh(t) /\ t.req = req /\ t.action = action

\* The page of a listing decodes, or cannot be.
Numbered(req, action) == action = "users.index" => req.id \in Nat \cup {Malformed}

LEMMA RoutedUp ==
    ASSUME NEW a, NEW req, IsRequest(req), req.inertia = FALSE,
           NEW action \in Actions, NEW stack, Routed(req, action, stack),
           Numbered(req, action),
           NEW n \in 0 .. 3, NotOfPages(stack, n),
           NEW ctx, ctx = I!Inbound(stack, req, cells[ClientOf(a)], version),
           LetIn(ctx, n, req),
           action \in Protected /\ ctx.outcome # Refused => req.token # None
    PROVE  UpFor(TakenUp(a, req), req, action)
<1>2. PICK s : s = Taken(req, action, stack, ctx)
  OBVIOUS
<1>1. Arrived(Taken(req, action, stack, ctx))
  BY Arrives
<1>3. Arrived(s) /\ s.req = req /\ s.action = action /\ s.ctx = ctx
  <2>1. IsContext(ctx)
    BY DEF LetIn
  <2> QED
    BY <1>1, <1>2, <2>1, TakenFields
<1>4. TakenUp(a, req) = IF s.ctx.outcome # I!Running THEN Goto(s, "answer") ELSE Begin(s)
  BY <1>2, TakenUpIs DEF Incoming
<1>5. PICK t : t = TakenUp(a, req)
  OBVIOUS
<1>6. ApiService(t) /\ SameService(s, t) /\ Fresh(t)
  <2>1. CASE s.ctx.outcome # I!Running
    BY <1>3, <1>4, <1>5, <2>1, TurnedAway
  <2>2. CASE s.ctx.outcome = I!Running
    BY <1>3, <1>4, <1>5, <2>2, BeginApi DEF Numbered
  <2> QED
    BY <2>1, <2>2
<1>7. t.req = req /\ t.action = action
  BY <1>3, <1>6 DEF SameService
<1> QED
  BY <1>5, <1>6, <1>7 DEF UpFor

LEMMA ApiStack ==
    /\ Len(Api) = 2 /\ Api[1] = "database" /\ Api[2] = "jwt"
    /\ LET s == <<"database", "optional_jwt">>
       IN  Len(s) = 2 /\ s[1] = "database" /\ s[2] = "optional_jwt"
    /\ Listed3(<<"database", "optional_jwt", "jwt">>, "database", "optional_jwt", "jwt")
    /\ Listed3(Pages, "database", "session", "inertia")
    /\ LET s == <<"database">> IN Len(s) = 1 /\ s[1] = "database"
BY DEF Api, Pages, Listed3

LEMMA ApiUp ==
    ASSUME NEW a, NEW req, IsRequest(req), req.inertia = FALSE,
           NEW action \in Actions, Routed(req, action, Api),
           Numbered(req, action)
    PROVE  UpFor(TakenUp(a, req), req, action)
<1>1. PICK stack : stack = Api
  OBVIOUS
<1>0. PICK ctx : ctx = I!Inbound(stack, req, cells[ClientOf(a)], version)
  OBVIOUS
<1>2. Len(stack) = 2 /\ stack[1] = "database" /\ stack[2] = "jwt"
  BY <1>1, ApiStack
<1>3. PICK name \in {"jwt", "optional_jwt"} : name = "jwt"
  OBVIOUS
<1>4. PICK required : required = (name = "jwt")
  OBVIOUS
<1>5. Admitted(I!Inbound(stack, req, cells[ClientOf(a)], version), 2, req, name = "jwt")
  BY <1>2, <1>3, InboundApi
<1>6. Admitted(ctx, 2, req, required)
  BY <1>4, <1>5, <1>0
<1>6a. LetIn(ctx, 2, req) /\ (required = TRUE /\ ctx.outcome # Refused => req.token # None)
  BY <1>6, AdmittedIsLetIn
<1>7. NotOfPages(stack, 2)
  BY <1>2 DEF NotOfPages
<1>8. action \in Protected => required = TRUE
  BY <1>3, <1>4
<1>9. Routed(req, action, stack)
  BY <1>1
<1>10. 2 \in 0 .. 3
  OBVIOUS
<1> QED
  BY <1>0, <1>6a, <1>7, <1>8, <1>9, <1>10, RoutedUp

LEMMA TeamsUp ==
    ASSUME NEW a, NEW req, IsRequest(req), req.inertia = FALSE,
           Routed(req, "teams.index", <<"database", "optional_jwt">>)
    PROVE  UpFor(TakenUp(a, req), req, "teams.index")
<1>1. PICK stack : stack = <<"database", "optional_jwt">>
  OBVIOUS
<1>0. PICK ctx : ctx = I!Inbound(stack, req, cells[ClientOf(a)], version)
  OBVIOUS
<1>2. Len(stack) = 2 /\ stack[1] = "database" /\ stack[2] = "optional_jwt"
  BY <1>1, ApiStack
<1>3. PICK name \in {"jwt", "optional_jwt"} : name = "optional_jwt"
  OBVIOUS
<1>4. PICK required : required = (name = "jwt")
  OBVIOUS
<1>5. Admitted(I!Inbound(stack, req, cells[ClientOf(a)], version), 2, req, name = "jwt")
  BY <1>2, <1>3, InboundApi
<1>6. Admitted(ctx, 2, req, required)
  BY <1>4, <1>5, <1>0
<1>6a. LetIn(ctx, 2, req) /\ (required = TRUE /\ ctx.outcome # Refused => req.token # None)
  BY <1>6, AdmittedIsLetIn
<1>7. NotOfPages(stack, 2)
  BY <1>2 DEF NotOfPages
<1>8. PICK action \in Actions : action = "teams.index"
  BY DEF Actions
<1>9. Routed(req, action, stack) /\ Numbered(req, action)
  BY <1>1, <1>8 DEF Numbered
<1>10. action \in Protected => required = TRUE
  BY <1>8 DEF Protected
<1>11. 2 \in 0 .. 3
  OBVIOUS
<1>12. UpFor(TakenUp(a, req), req, action)
  BY <1>0, <1>6a, <1>7, <1>9, <1>10, <1>11, RoutedUp
<1> QED
  BY <1>8, <1>12

LEMMA TeamUp ==
    ASSUME NEW a, NEW req, IsRequest(req), req.inertia = FALSE,
           Routed(req, "teams.destroy", <<"database", "optional_jwt", "jwt">>)
    PROVE  UpFor(TakenUp(a, req), req, "teams.destroy")
<1>1. PICK stack : stack = <<"database", "optional_jwt", "jwt">>
  OBVIOUS
<1>0. PICK ctx : ctx = I!Inbound(stack, req, cells[ClientOf(a)], version)
  OBVIOUS
<1>2. Listed3(stack, "database", "optional_jwt", "jwt")
  BY <1>1, ApiStack
<1>3. PICK required : required = TRUE
  OBVIOUS
<1>4. Admitted(I!Inbound(stack, req, cells[ClientOf(a)], version), 3, req, TRUE)
  BY <1>2, InboundBoth
<1>5. Admitted(ctx, 3, req, required)
  BY <1>3, <1>4, <1>0
<1>5a. LetIn(ctx, 3, req) /\ (required = TRUE /\ ctx.outcome # Refused => req.token # None)
  BY <1>5, AdmittedIsLetIn
<1>6. NotOfPages(stack, 3)
  BY <1>2 DEF NotOfPages, Listed3
<1>7. PICK action \in Actions : action = "teams.destroy"
  BY DEF Actions
<1>8. Routed(req, action, stack) /\ Numbered(req, action)
  BY <1>1, <1>7 DEF Numbered
<1>9. action \in Protected => required = TRUE
  BY <1>3
<1>10. 3 \in 0 .. 3
  OBVIOUS
<1>11. UpFor(TakenUp(a, req), req, action)
  BY <1>0, <1>5a, <1>6, <1>8, <1>9, <1>10, RoutedUp
<1> QED
  BY <1>7, <1>11

LEMMA DetachedUp ==
    ASSUME NEW a, NEW req, IsRequest(req), req.inertia = FALSE, req.token = None,
           Routed(req, "pages.home", <<"database">>)
    PROVE  UpFor(TakenUp(a, req), req, "pages.home")
<1>1. PICK stack : stack = <<"database">>
  OBVIOUS
<1>0. PICK ctx : ctx = I!Inbound(stack, req, cells[ClientOf(a)], version)
  OBVIOUS
<1>2. Len(stack) = 1 /\ stack[1] = "database"
  BY <1>1, ApiStack
<1>3. PICK required : required = FALSE
  OBVIOUS
<1>4. Admitted(I!Inbound(stack, req, cells[ClientOf(a)], version), 1, req, FALSE)
  BY <1>2, InboundDatabase
<1>5. Admitted(ctx, 1, req, required)
  BY <1>3, <1>4, <1>0
<1>5a. LetIn(ctx, 1, req) /\ (required = TRUE /\ ctx.outcome # Refused => req.token # None)
  BY <1>5, AdmittedIsLetIn
<1>6. NotOfPages(stack, 1)
  BY <1>2 DEF NotOfPages
<1>7. PICK action \in Actions : action = "pages.home"
  BY DEF Actions
<1>8. Routed(req, action, stack) /\ Numbered(req, action)
  BY <1>1, <1>7 DEF Numbered
<1>9. action \in Protected => required = TRUE
  BY <1>7 DEF Protected
<1>10. 1 \in 0 .. 3
  OBVIOUS
<1>11. UpFor(TakenUp(a, req), req, action)
  BY <1>0, <1>5a, <1>6, <1>8, <1>9, <1>10, RoutedUp
<1> QED
  BY <1>7, <1>11

LEMMA NewContextFields ==
    LET ctx == I!NewContext
    IN  IsContext(ctx) /\ ctx.session = None /\ ctx.entered = 0
BY DEF I!NewContext, IsContext

\* What is answered without any middleware.
Bare(action, o) == /\ action \in {"none", "static files"}
                   /\ o = I!Err("not-found", <<>>) \/ o = I!Ok(I!Response(200))

LEMMA BareAnswer ==
    ASSUME NEW req, IsRequest(req), req.inertia = FALSE, NEW action, NEW stack,
           NEW ctx, IsContext(ctx), ctx.session = None, ctx.entered = 0,
           NEW o, Bare(action, o)
    PROVE  UpFor(Finish(Taken(req, action, stack, ctx), o), req, action)
<1>1. /\ action \in {"none", "static files"}
      /\ o = I!Err("not-found", <<>>) \/ o = I!Ok(I!Response(200))
  BY DEF Bare
<1>2. PICK s : s = Taken(req, action, stack, ctx)
  OBVIOUS
<1>3. IsService(s) /\ s.req = req /\ s.action = action /\ s.ctx = ctx /\ s.work = NewWork
  BY <1>2, TakenFields
<1>4. PICK t : t = Finish(s, o)
  OBVIOUS
<1>5. SameService(s, t) /\ t.pc = "answer" /\ t.ctx.outcome = o /\ t.work = NewWork
  BY <1>3, <1>4, FinishFields
<1>6. Unwrapped(s)
  BY <1>3 DEF Unwrapped
<1>7. Unwrapped(t) /\ t.req = req /\ t.action = action
  BY <1>3, <1>5, <1>6, StillUnwrapped DEF SameService
<1>8. Untouched(t.work) /\ t.work.wrote = FALSE
  BY <1>5, NewWorkFields DEF Untouched
<1>9. Passed(t)
  BY <1>1, <1>7 DEF Passed
<1>10. Fails(t, Failures) \/ \E status \in {200, 201, 204} : t.ctx.outcome = I!Ok(I!Response(status))
  <2>1. CASE o = I!Err("not-found", <<>>)
    BY <1>5, <2>1 DEF Fails, Failures
  <2>2. CASE o = I!Ok(I!Response(200))
    <3>1. PICK status \in {200, 201, 204} : status = 200
      OBVIOUS
    <3>2. o = I!Ok(I!Response(status))
      BY <2>2, <3>1
    <3> QED
      BY <1>5, <3>2
  <2> QED
    BY <1>1, <2>1, <2>2
<1>11. t.action \notin Changes
  BY <1>1, <1>7 DEF Changes
<1>12. Answered(t)
  BY <1>5, <1>8, <1>9, <1>10, <1>11 DEF Answered
<1> QED
  BY <1>1, <1>2, <1>4, <1>5, <1>7, <1>8, <1>12 DEF UpFor, ApiService, Fresh

LEMMA InboundNothing ==
    ASSUME NEW req, NEW cell, NEW v, NEW stack, Len(stack) = 0
    PROVE  I!Inbound(stack, req, cell, v) = I!NewContext
<1>1. Len(stack) \in Nat
  OBVIOUS
<1>2. PICK after : Steps(after, stack, req, cell, v)
  BY <1>1, InboundSteps
<1> QED
  BY <1>2 DEF Steps

LEMMA StaticUp ==
    ASSUME NEW a, NEW req, IsRequest(req), req.inertia = FALSE,
           NEW n, n = Dispatch(Served, req.method, req.path), n # 0,
           Served[n].kind = "static", Served[n].action = "static files",
           Served[n].middleware = <<>>
    PROVE  UpFor(TakenUp(a, req), req, "static files")
<1>1. PICK stack : stack = <<>>
  OBVIOUS
<1>2. Len(stack) = 0
  BY <1>1
<1>3. I!Inbound(stack, req, cells[ClientOf(a)], version) = I!NewContext
  BY <1>2, InboundNothing
<1>4. PICK ctx : ctx = I!NewContext
  OBVIOUS
<1>5. PICK s : s = Taken(req, "static files", stack, ctx)
  OBVIOUS
<1>6. TakenUp(a, req) = Finish(s, I!Ok(I!Response(200)))
  BY <1>1, <1>3, <1>4, <1>5 DEF TakenUp
<1>7. PICK o : o = I!Ok(I!Response(200))
  OBVIOUS
<1>8. PICK action : action = "static files"
  OBVIOUS
<1>9. Bare(action, o) /\ IsContext(ctx) /\ ctx.session = None /\ ctx.entered = 0
  BY <1>4, <1>7, <1>8, NewContextFields DEF Bare
<1>10. UpFor(Finish(Taken(req, action, stack, ctx), o), req, action)
  BY <1>9, BareAnswer
<1> QED
  BY <1>5, <1>6, <1>7, <1>8, <1>10

LEMMA NoneUp ==
    ASSUME NEW a, NEW req, IsRequest(req), req.inertia = FALSE,
           Dispatch(Served, req.method, req.path) = 0
    PROVE  UpFor(TakenUp(a, req), req, "none")
<1>1. PICK stack, ctx, o, action :
         /\ stack = <<>> /\ ctx = I!NewContext /\ o = I!Err("not-found", <<>>)
         /\ action = "none"
  OBVIOUS
<1>2. TakenUp(a, req) = Finish(Taken(req, "none", <<>>, I!NewContext), I!Err("not-found", <<>>))
  BY DEF TakenUp
<1>3. Bare(action, o) /\ IsContext(ctx) /\ ctx.session = None /\ ctx.entered = 0
  BY <1>1, NewContextFields DEF Bare
<1>4. UpFor(Finish(Taken(req, action, stack, ctx), o), req, action)
  BY <1>3, BareAnswer
<1> QED
  BY <1>1, <1>2, <1>4

\* Every request of the API is taken up as one.
LEMMA CallUp ==
    ASSUME NEW a, NEW req, Call(req)
    PROVE  LET s == TakenUp(a, req)
           IN  /\ ApiService(s) /\ Fresh(s) /\ s.req = req
               /\ s.action = "users.store" => req.method = "POST"
<1>1. IsRequest(req) /\ req.inertia = FALSE
  BY DEF Call
<1>2. PICK s : s = TakenUp(a, req)
  OBVIOUS
<1>3. ASSUME NEW action \in Actions, Routed(req, action, Api), Numbered(req, action),
             action = "users.store" => req.method = "POST"
      PROVE  /\ ApiService(s) /\ Fresh(s) /\ s.req = req
             /\ s.action = "users.store" => req.method = "POST"
  <2>1. UpFor(s, req, action)
    BY <1>1, <1>2, <1>3, ApiUp
  <2> QED
    BY <1>3, <2>1 DEF UpFor
<1>4. CASE Routed(req, "users.index", Api) /\ req.id \in Nat \cup {Malformed}
  <2>1. PICK action \in Actions : action = "users.index"
    BY DEF Actions
  <2>2. Routed(req, action, Api) /\ Numbered(req, action)
    BY <1>4, <2>1 DEF Numbered
  <2> QED
    BY <1>2, <1>3, <2>1, <2>2
<1>5. CASE Routed(req, "users.store", Api) /\ req.method = "POST"
  <2>1. PICK action \in Actions : action = "users.store"
    BY DEF Actions
  <2>2. Routed(req, action, Api) /\ Numbered(req, action)
    BY <1>5, <2>1 DEF Numbered
  <2> QED
    BY <1>2, <1>3, <1>5, <2>1, <2>2
<1>6. CASE Routed(req, "users.update", Api)
  <2>1. PICK action \in Actions : action = "users.update"
    BY DEF Actions
  <2>2. Routed(req, action, Api) /\ Numbered(req, action)
    BY <1>6, <2>1 DEF Numbered
  <2> QED
    BY <1>2, <1>3, <2>1, <2>2
<1>7. CASE Routed(req, "users.destroy", Api)
  <2>1. PICK action \in Actions : action = "users.destroy"
    BY DEF Actions
  <2>2. Routed(req, action, Api) /\ Numbered(req, action)
    BY <1>7, <2>1 DEF Numbered
  <2> QED
    BY <1>2, <1>3, <2>1, <2>2
<1>8. CASE Routed(req, "teams.index", <<"database", "optional_jwt">>)
  BY <1>1, <1>2, <1>8, TeamsUp DEF UpFor
<1>9. CASE Routed(req, "teams.destroy", <<"database", "optional_jwt", "jwt">>)
  BY <1>1, <1>2, <1>9, TeamUp DEF UpFor
<1>10. CASE Routed(req, "pages.home", <<"database">>) /\ req.token = None
  BY <1>1, <1>2, <1>10, DetachedUp DEF UpFor
<1>11. CASE LET n == Dispatch(Served, req.method, req.path)
            IN n # 0 /\ Served[n].kind = "static" /\ Served[n].action = "static files"
                     /\ Served[n].middleware = <<>>
  <2>1. PICK n : n = Dispatch(Served, req.method, req.path)
    OBVIOUS
  <2>2. UpFor(s, req, "static files")
    BY <1>1, <1>2, <1>11, <2>1, StaticUp
  <2> QED
    BY <1>2, <2>2 DEF UpFor
<1>12. CASE Dispatch(Served, req.method, req.path) = 0
  <2>1. UpFor(s, req, "none")
    BY <1>1, <1>2, <1>12, NoneUp
  <2> QED
    BY <1>2, <2>1 DEF UpFor
<1> QED
  BY <1>4, <1>5, <1>6, <1>7, <1>8, <1>9, <1>10, <1>11, <1>12 DEF Call

-----------------------------------------------------------------------------
(***************************************************************************)
(* The statements as steps of the server, between clients of the API       *)
(***************************************************************************)

Serves(s) == s = Idle \/ ApiService(s)

ApiServings == DOMAIN serving = Actors /\ \A a \in Actors : Serves(serving[a])

LEMMA IdlePc == Idle.pc = "idle"
BY DEF Idle

LEMMA AtWork ==
    ASSUME NEW s, Serves(s), s.pc # "idle", s.pc # "answer"
    PROVE  ApiService(s) /\ Unwrapped(s) /\ Acting(s) /\ IsService(s)
<1>1. ApiService(s)
  BY IdlePc DEF Serves
<1>2. ~Answered(s)
  BY DEF Answered, Fails
<1> QED
  BY <1>1, <1>2 DEF ApiService, Unwrapped

LEMMA StepIs ==
    ASSUME NEW a \in Actors, NEW t, DOMAIN serving = Actors, Step(a, t)
    PROVE  /\ DOMAIN serving' = Actors /\ serving'[a] = t
           /\ \A b \in Actors : b # a => serving'[b] = serving[b]
BY DEF Step

LEMMA StepServes ==
    ASSUME NEW a \in Actors, NEW t, ApiServings, Step(a, t), Serves(t)
    PROVE  ApiServings'
<1>1. /\ DOMAIN serving' = Actors /\ serving'[a] = t
      /\ \A b \in Actors : b # a => serving'[b] = serving[b]
  BY StepIs DEF ApiServings
<1>2. ASSUME NEW b \in Actors PROVE Serves(serving'[b])
  BY <1>1 DEF ApiServings
<1> QED
  BY <1>1, <1>2 DEF ApiServings

\* A query is one of a few, so what it finds is a truth value.
LEMMA RefusedOrNot ==
    ASSUME NEW check \in {FreeEmail, FreeOrOwnEmail, TeamExists}, NEW req
    PROVE  /\ IsRefused(check, req) \in BOOLEAN
           /\ check = FreeEmail /\ ~IsRefused(check, req) =>
                 \A i \in DOMAIN users : users[i].email # req.body["email"]
           /\ check = FreeOrOwnEmail /\ ~IsRefused(check, req) =>
                 \A i \in DOMAIN users : users[i].email = req.body["email"] => i = req.id
BY QueryFields DEF IsRefused

\* No row but the request's own holds the address it asks for.
FreeFor(s) ==
    \A i \in DOMAIN users :
       users[i].email = s.req.body.email => s.action = "users.update" /\ i = s.req.id

LEMMA CheckStep ==
    ASSUME NEW a \in Actors, ApiServings, Check(a)
    PROVE  /\ ApiServings' /\ SameService(serving[a], serving'[a])
           /\ serving'[a].work.raced = serving[a].work.raced
           /\ serving'[a].work.seen => serving[a].work.seen \/ FreeFor(serving[a])
           /\ \A b \in Actors : b # a => serving'[b] = serving[b]
<1>1. PICK s : s = serving[a]
  OBVIOUS
<1>2. Serves(s) /\ s.pc = "check" /\ DOMAIN serving = Actors
  BY <1>1 DEF ApiServings, Check, At
<1>3. Unwrapped(s) /\ Acting(s) /\ IsService(s)
  BY <1>2, AtWork
<1>4. /\ IsSequence(s.work.checks) /\ s.work.checks # <<>>
      /\ s.action \in {"users.store", "users.update"}
      /\ Range(s.work.checks) \subseteq
            {MyQuery(s)} \cup IF s.action = "users.store" THEN {TeamExists} ELSE {}
  BY <1>2, <1>3 DEF Acting, Asking, MyQuery
<1>5. Head(s.work.checks) \in {FreeEmail, FreeOrOwnEmail, TeamExists}
  BY <1>4, TailSequence DEF MyQuery
<1>6. PICK broken \in BOOLEAN : broken = IsRefused(Head(s.work.checks), s.req)
  BY <1>5, RefusedOrNot
<1>7. PICK u : u = CheckedOff(s, broken)
  OBVIOUS
<1>8. PICK t : t = IF u.work.checks = <<>> THEN Verdict(u) ELSE u
  OBVIOUS
<1>9. /\ ApiService(t) /\ SameService(s, t) /\ t.work.raced = s.work.raced
      /\ t.work.seen => s.work.seen \/ (Head(s.work.checks) = MyQuery(s) /\ ~broken)
  BY <1>2, <1>3, <1>7, <1>8, CheckSteps
<1>10. Step(a, t)
  BY <1>1, <1>6, <1>7, <1>8 DEF Check, CheckedOff
<1>11. Head(s.work.checks) = MyQuery(s) /\ ~broken => FreeFor(s)
  <2>1. CASE s.action = "users.store"
    BY <1>5, <1>6, <2>1, RefusedOrNot DEF MyQuery, FreeFor
  <2>2. CASE s.action = "users.update"
    BY <1>5, <1>6, <2>2, RefusedOrNot DEF MyQuery, FreeFor
  <2> QED
    BY <1>4, <2>1, <2>2
<1>12. Serves(t)
  BY <1>9 DEF Serves
<1>13. ApiServings'
  BY <1>10, <1>12, StepServes
<1> QED
  BY <1>1, <1>2, <1>9, <1>10, <1>11, <1>13, StepIs

LEMMA RefuseWriteStep ==
    ASSUME NEW a \in Actors, ApiServings, RefuseWrite(a)
    PROVE  /\ ApiServings' /\ serving'[a].pc = "answer"
           /\ SameService(serving[a], serving'[a])
           /\ \A b \in Actors : b # a => serving'[b] = serving[b]
<1>1. PICK s : s = serving[a]
  OBVIOUS
<1>2. Serves(s) /\ s.pc \in {"insert", "update"} /\ DOMAIN serving = Actors
  BY <1>1 DEF ApiServings, RefuseWrite
<1>3. Unwrapped(s) /\ Acting(s)
  BY <1>2, AtWork
<1>4. PICK when, t : when = "before" /\ t = Refuse(s, when)
  OBVIOUS
<1>5. s.pc # "after"
  BY <1>2
<1>6. ApiService(t) /\ SameService(s, t) /\ t.pc = "answer"
  BY <1>3, <1>4, <1>5, RefuseSteps
<1>7. Step(a, t)
  BY <1>1, <1>4 DEF RefuseWrite
<1>8. Serves(t)
  BY <1>6 DEF Serves
<1> QED
  BY <1>1, <1>2, <1>6, <1>7, <1>8, StepIs, StepServes

LEMMA AfterHooksStep ==
    ASSUME NEW a \in Actors, ApiServings, AfterHooks(a)
    PROVE  /\ ApiServings' /\ serving'[a].pc = "answer"
           /\ SameService(serving[a], serving'[a])
           /\ \A b \in Actors : b # a => serving'[b] = serving[b]
<1>1. PICK s : s = serving[a]
  OBVIOUS
<1>2. Serves(s) /\ s.pc = "after" /\ DOMAIN serving = Actors
  BY <1>1 DEF ApiServings, AfterHooks, At
<1>3. Unwrapped(s) /\ Acting(s) /\ Enters(s) /\ s.work.wrote = TRUE
  BY <1>2, AtWork, ActingFields
<1>4. PICK when, refused : when = "after" /\ refused = Refuse(s, when)
  OBVIOUS
<1>5. ApiService(refused) /\ SameService(s, refused) /\ refused.pc = "answer"
  BY <1>3, <1>4, RefuseSteps
<1>6. PICK status \in {200, 201, 204} : status = IF s.action = "users.store" THEN 201 ELSE 200
  OBVIOUS
<1>7. PICK done : done = Finish(s, I!Ok(I!Response(status)))
  OBVIOUS
<1>8. ApiService(done) /\ SameService(s, done) /\ done.pc = "answer"
  <2>1. s.action \in Changes => s.work.wrote = TRUE
    BY <1>3
  <2>2. LET u == Finish(s, I!Ok(I!Response(status)))
        IN  ApiService(u) /\ SameService(s, u) /\ u.pc = "answer" /\ u.work = s.work
            /\ u.ctx.outcome = I!Ok(I!Response(status))
    <3>1. status \in {200, 201, 204} /\ Unwrapped(s) /\ Enters(s)
      BY <1>3, <1>6
    <3> QED
      BY <2>1, <3>1, SucceedSteps, ZenonT(60)
  <2> QED
    BY <1>7, <2>2
<1>9. Step(a, refused) \/ Step(a, done)
  BY <1>1, <1>4, <1>6, <1>7 DEF AfterHooks
<1>10. Serves(refused) /\ Serves(done)
  BY <1>5, <1>8 DEF Serves
<1> QED
  BY <1>1, <1>2, <1>5, <1>8, <1>9, <1>10, StepIs, StepServes

LEMMA FindStep ==
    ASSUME NEW a \in Actors, ApiServings, Find(a)
    PROVE  /\ ApiServings' /\ SameService(serving[a], serving'[a])
           /\ \/ serving'[a].pc \in {"answer", "delete"}
              \/ serving'[a].pc = "check" /\ Untouched(serving'[a].work)
           /\ \A b \in Actors : b # a => serving'[b] = serving[b]
<1>1. PICK s : s = serving[a]
  OBVIOUS
<1>2. Serves(s) /\ s.pc = "find" /\ DOMAIN serving = Actors
  BY <1>1 DEF ApiServings, Find, At
<1>3. Unwrapped(s) /\ Acting(s) /\ IsService(s) /\ Enters(s) /\ s.work.wrote = FALSE
  BY <1>2, AtWork, ActingFields
<1>4. PICK t : /\ t = IF s.req.id \notin DOMAIN users THEN Finish(s, I!Err("not-found", <<>>))
                      ELSE IF ~Authorized(s) THEN Finish(s, I!Err("forbidden", <<>>))
                      ELSE IF s.action = "users.update" THEN Validate(s)
                      ELSE Goto(s, "delete")
  OBVIOUS
<1>5. Step(a, t)
  BY <1>1, <1>4 DEF Find
<1>6. ASSUME NEW k \in {"not-found", "forbidden"}, t = Finish(s, I!Err(k, <<>>))
      PROVE  ApiService(t) /\ SameService(s, t) /\ t.pc = "answer"
  <2>1. k \in Failures
    BY DEF Failures
  <2>2. PICK o : o = I!Err(k, <<>>)
    OBVIOUS
  <2>3. ApiService(Finish(s, I!Err(k, <<>>)))
    BY <1>3, <2>1, FinishFails
  <2>4. SameService(s, Finish(s, o)) /\ Finish(s, o).pc = "answer"
    BY <1>3, FinishFields
  <2> QED
    BY <1>6, <2>2, <2>3, <2>4
<1>7. ASSUME s.action = "users.update", t = Validate(s)
      PROVE  ApiService(t) /\ SameService(s, t) /\ t.pc \in {"answer", "check"} /\ Untouched(t.work)
  BY <1>2, <1>3, <1>7, FindSteps
<1>8. ASSUME s.action # "users.update", t = Goto(s, "delete")
      PROVE  ApiService(t) /\ SameService(s, t) /\ t.pc = "delete"
  BY <1>2, <1>3, <1>8, FindSteps
<1>9. /\ ApiService(t) /\ SameService(s, t)
      /\ \/ t.pc \in {"answer", "delete"}
         \/ t.pc = "check" /\ Untouched(t.work)
  BY <1>4, <1>6, <1>7, <1>8
<1>10. Serves(t)
  BY <1>9 DEF Serves
<1> QED
  BY <1>1, <1>2, <1>5, <1>9, <1>10, StepIs, StepServes

\* What a write tells the others: they are served on.
LEMMA OvertakenServes ==
    ASSUME NEW a, NEW email, NEW row, NEW b \in Actors, b # a, Serves(serving[b]),
           NEW t, t = Overtaken(a, email, row)[b]
    PROVE  Serves(t)
<1>1. PICK s : s = serving[b]
  OBVIOUS
<1>2. \/ t = s
      \/ s.pc \in {"check", "insert", "update"} /\ t = SetRaced(s, TRUE)
      \/ s.pc = "fetch" /\ t = SetCame(s, TRUE)
  BY <1>1 DEF Overtaken, SetRaced, SetCame
<1>3. CASE t = s
  BY <1>1, <1>3
<1>4. ASSUME s.pc \in {"check", "insert", "update", "fetch"},
             t = SetRaced(s, TRUE) \/ t = SetCame(s, TRUE)
      PROVE  Serves(t)
  <2>1. Unwrapped(s) /\ Acting(s) /\ IsService(s) /\ IsWork(s.work)
    BY <1>1, <1>4, AtWork, ActingFields
  <2>5. ASSUME t = SetRaced(s, TRUE)
        PROVE  Reworked(s, t) /\ t.work = [s.work EXCEPT !.raced = TRUE]
    <3>1. PICK yes : yes = TRUE
      OBVIOUS
    <3>2. Reworked(s, SetRaced(s, yes)) /\ SetRaced(s, yes).work = [s.work EXCEPT !.raced = yes]
      BY <2>1, SetsRaced
    <3> QED
      BY <2>5, <3>1, <3>2, Zenon
  <2>6. ASSUME t = SetCame(s, TRUE)
        PROVE  Reworked(s, t) /\ t.work = [s.work EXCEPT !.came = TRUE]
    <3>1. PICK yes : yes = TRUE
      OBVIOUS
    <3>2. Reworked(s, SetCame(s, yes)) /\ SetCame(s, yes).work = [s.work EXCEPT !.came = yes]
      BY <2>1, SetsCame
    <3> QED
      BY <2>6, <3>1, <3>2, Zenon
  <2>2. /\ Reworked(s, t)
        /\ \/ t.work = [s.work EXCEPT !.raced = TRUE]
           \/ t.work = [s.work EXCEPT !.came = TRUE]
    BY <1>4, <2>5, <2>6
  <2>3. /\ t.work.checks = s.work.checks /\ t.work.errors = s.work.errors
        /\ t.work.seen = s.work.seen /\ t.work.wrote = s.work.wrote
        /\ t.work.refused = s.work.refused
    BY <2>1, <2>2 DEF IsWork
  <2>4. Reworked(s, t) /\ s.pc \notin {"find", "count"}
    BY <1>4, <2>2
  <2> QED
    BY <2>1, <2>3, <2>4, FlagSteps DEF Serves
<1> QED
  BY <1>2, <1>3, <1>4

\* The services of the others after a write.
LEMMA OthersServe ==
    ASSUME NEW a \in Actors, ApiServings, NEW t, Serves(t), NEW email, NEW row,
           serving' = [Overtaken(a, email, row) EXCEPT ![a] = t]
    PROVE  /\ ApiServings' /\ serving'[a] = t
           /\ \A b \in Actors : b # a => serving'[b] = Overtaken(a, email, row)[b]
<1>1. DOMAIN Overtaken(a, email, row) = Actors
  BY DEF Overtaken
<1>2. /\ DOMAIN serving' = Actors /\ serving'[a] = t
      /\ \A b \in Actors : b # a => serving'[b] = Overtaken(a, email, row)[b]
  BY <1>1
<1>3. ASSUME NEW b \in Actors, b # a
      PROVE  Serves(serving'[b])
  <2>1. Serves(serving[b])
    BY DEF ApiServings
  <2>2. PICK u : u = Overtaken(a, email, row)[b]
    OBVIOUS
  <2>3. Serves(u)
    BY <1>3, <2>1, <2>2, OvertakenServes
  <2> QED
    BY <1>2, <1>3, <2>2, <2>3
<1>4. \A b \in Actors : Serves(serving'[b])
  BY <1>2, <1>3
<1> QED
  BY <1>2, <1>4 DEF ApiServings

LEMMA InsertStep ==
    ASSUME NEW a \in Actors, ApiServings, Insert(a)
    PROVE  /\ ApiServings' /\ SameService(serving[a], serving'[a])
           /\ serving'[a].pc = "after"
           /\ \A b \in Actors : b # a =>
                 serving'[b] = Overtaken(a, serving[a].req.body.email, nextId)[b]
<1>1. PICK s : s = serving[a]
  OBVIOUS
<1>2. Serves(s) /\ s.pc = "insert"
  BY <1>1 DEF ApiServings, Insert, At
<1>3. Unwrapped(s) /\ Acting(s)
  BY <1>2, AtWork
<1>4. PICK t : t = WrittenBy(s)
  OBVIOUS
<1>5. ApiService(t) /\ SameService(s, t) /\ t.pc = "after"
  BY <1>2, <1>3, <1>4, WriteSteps
<1>6. Serves(t)
  BY <1>5 DEF Serves
<1>7. PICK email : email = s.req.body.email
  OBVIOUS
<1>8. serving' = [Overtaken(a, email, nextId) EXCEPT ![a] = t]
  BY <1>1, <1>4, <1>7 DEF Insert, WrittenBy
<1> QED
  BY <1>1, <1>5, <1>6, <1>7, <1>8, OthersServe

LEMMA UpdateStep ==
    ASSUME NEW a \in Actors, ApiServings, Update(a)
    PROVE  /\ ApiServings' /\ SameService(serving[a], serving'[a])
           /\ IF serving[a].req.id \in DOMAIN users
              THEN /\ serving'[a].pc = "after"
                   /\ \A b \in Actors : b # a =>
                         serving'[b] = Overtaken(a, serving[a].req.body.email,
                                                 serving[a].req.id)[b]
              ELSE /\ serving'[a].pc = "answer"
                   /\ \A b \in Actors : b # a => serving'[b] = serving[b]
<1>1. PICK s : s = serving[a]
  OBVIOUS
<1>2. Serves(s) /\ s.pc = "update" /\ DOMAIN serving = Actors
  BY <1>1 DEF ApiServings, Update, At
<1>3. Unwrapped(s) /\ Acting(s) /\ IsService(s) /\ Enters(s) /\ s.work.wrote = FALSE
  BY <1>2, AtWork, ActingFields
<1>4. CASE s.req.id \in DOMAIN users
  <2>4. PICK t : t = WrittenBy(s)
    OBVIOUS
  <2>5. ApiService(t) /\ SameService(s, t) /\ t.pc = "after"
    BY <1>2, <1>3, <2>4, WriteSteps
  <2>6. Serves(t)
    BY <2>5 DEF Serves
  <2>7. PICK email, i : email = s.req.body.email /\ i = s.req.id
    OBVIOUS
  <2>8. serving' = [Overtaken(a, email, i) EXCEPT ![a] = t]
    BY <1>1, <1>4, <2>4, <2>7 DEF Update, WrittenBy
  <2> QED
    BY <1>1, <1>4, <2>5, <2>6, <2>7, <2>8, OthersServe
<1>5. CASE s.req.id \notin DOMAIN users
  <2>1. PICK k, f, o : k = "internal" /\ f = <<>> /\ o = I!Err(k, f)
    OBVIOUS
  <2>2. PICK t : t = Finish(s, o)
    OBVIOUS
  <2>3. k \in Failures
    BY <2>1 DEF Failures
  <2>4. ApiService(Finish(s, I!Err(k, f)))
    BY <1>3, <2>3, FinishFails
  <2>5. SameService(s, Finish(s, o)) /\ Finish(s, o).pc = "answer"
    BY <1>3, FinishFields
  <2>6. Step(a, t)
    BY <1>1, <1>5, <2>1, <2>2 DEF Update
  <2>7. Serves(t)
    BY <2>1, <2>2, <2>4 DEF Serves
  <2> QED
    BY <1>1, <1>2, <1>5, <2>2, <2>5, <2>6, <2>7, StepIs, StepServes
<1> QED
  BY <1>4, <1>5

LEMMA DeleteStep ==
    ASSUME NEW a \in Actors, ApiServings, Delete(a)
    PROVE  /\ ApiServings' /\ SameService(serving[a], serving'[a])
           /\ serving'[a].pc = "answer"
           /\ \A b \in Actors : b # a =>
                 \/ serving'[b] = serving[b] /\ (serving[b].pc = "fetch" => users' = users)
                 \/ serving[b].pc = "fetch" /\ serving'[b] = SetGone(serving[b], TRUE)
<1>1. PICK s : s = serving[a]
  OBVIOUS
<1>2. Serves(s) /\ s.pc = "delete" /\ DOMAIN serving = Actors
  BY <1>1 DEF ApiServings, Delete, At
<1>3. Unwrapped(s) /\ Acting(s)
  BY <1>2, AtWork
<1>4. PICK t : t = DeletedBy(s)
  OBVIOUS
<1>5. ApiService(t) /\ SameService(s, t) /\ t.pc = "answer"
  BY <1>3, <1>4, DeleteSteps
<1>6. serving' = [b \in Actors |-> IF b = a THEN t
                    ELSE IF serving[b].pc = "fetch" /\ users' # users
                    THEN SetGone(serving[b], TRUE) ELSE serving[b]]
  BY <1>1, <1>4, Zenon DEF Delete, DeletedBy, At, SetGone
<1>7. /\ DOMAIN serving' = Actors /\ serving'[a] = t
      /\ \A b \in Actors : b # a =>
            \/ serving'[b] = serving[b] /\ (serving[b].pc = "fetch" => users' = users)
            \/ serving[b].pc = "fetch" /\ serving'[b] = SetGone(serving[b], TRUE)
  BY <1>6
<1>8. ASSUME NEW b \in Actors, b # a
      PROVE  Serves(serving'[b])
  <2>1. Serves(serving[b])
    BY DEF ApiServings
  <2>2. PICK u, v, yes : u = serving[b] /\ yes = TRUE /\ v = SetGone(u, yes)
    OBVIOUS
  <2>3. ASSUME u.pc = "fetch"
        PROVE  Serves(v)
    <3>1. Serves(u) /\ u.pc # "idle" /\ u.pc # "answer"
      BY <2>1, <2>2, <2>3
    <3>2. Unwrapped(u) /\ Acting(u)
      BY <3>1, AtWork
    <3>5. IsService(u) /\ IsWork(u.work)
      BY <3>2, ActingFields
    <3>3. Reworked(u, v) /\ v.work = [u.work EXCEPT !.gone = yes]
      BY <2>2, <3>5, SetsGone
    <3>4. /\ v.work.checks = u.work.checks /\ v.work.errors = u.work.errors
          /\ v.work.seen = u.work.seen /\ v.work.wrote = u.work.wrote
          /\ v.work.refused = u.work.refused
      BY <3>3, <3>5 DEF IsWork
    <3>6. Reworked(u, v) /\ u.pc \notin {"find", "count"}
      BY <2>3, <3>3
    <3> QED
      BY <3>2, <3>4, <3>6, FlagSteps DEF Serves
  <2>4. serving'[b] = u \/ (u.pc = "fetch" /\ serving'[b] = v)
    BY <1>7, <1>8, <2>2, Zenon
  <2> QED
    BY <2>1, <2>2, <2>3, <2>4
<1>9. \A b \in Actors : Serves(serving'[b])
  <2>1. Serves(t)
    BY <1>5 DEF Serves
  <2> QED
    BY <1>7, <1>8, <2>1
<1>10. ApiServings'
  BY <1>7, <1>9 DEF ApiServings
<1> QED
  BY <1>1, <1>5, <1>7, <1>10

LEMMA CountStep ==
    ASSUME NEW a \in Actors, ApiServings, Count(a)
    PROVE  /\ ApiServings' /\ SameService(serving[a], serving'[a])
           /\ serving'[a].pc = "fetch" /\ serving'[a].work.total = Cardinality(DOMAIN users)
           /\ serving'[a].work.came = FALSE /\ serving'[a].work.gone = FALSE
           /\ \A b \in Actors : b # a => serving'[b] = serving[b]
<1>1. PICK s, n : s = serving[a] /\ n = Cardinality(DOMAIN users)
  OBVIOUS
<1>2. Serves(s) /\ s.pc = "count" /\ DOMAIN serving = Actors
  BY <1>1 DEF ApiServings, Count, At
<1>3. Unwrapped(s) /\ Acting(s)
  BY <1>2, AtWork
<1>4. PICK t : t = CountedBy(s, n)
  OBVIOUS
<1>5. /\ ApiService(t) /\ SameService(s, t) /\ t.pc = "fetch" /\ t.work.total = n
      /\ t.work.came = FALSE /\ t.work.gone = FALSE
  BY <1>2, <1>3, <1>4, CountSteps, ZenonT(60)
<1>6. Step(a, t)
  BY <1>1, <1>4 DEF Count, CountedBy
<1>7. Serves(t)
  BY <1>5 DEF Serves
<1> QED
  BY <1>1, <1>2, <1>5, <1>6, <1>7, StepIs, StepServes

LEMMA FetchStep ==
    ASSUME NEW a \in Actors, ApiServings, Fetch(a)
    PROVE  LET s == serving[a]
               data == FetchPage(InOrder(DOMAIN users), PageIndex(s.req.id), PerPage)
           IN /\ ApiServings' /\ SameService(s, serving'[a])
              /\ serving'[a].pc \in {"load", "answer"}
              /\ serving'[a].work.data = data
              /\ serving'[a].work.rows = [i \in ToSet(data) |-> users[i]]
              /\ serving'[a].work.total = s.work.total
              /\ serving'[a].work.came = s.work.came /\ serving'[a].work.gone = s.work.gone
              /\ \A b \in Actors : b # a => serving'[b] = serving[b]
<1>1. PICK s, data, rows :
         /\ s = serving[a]
         /\ data = FetchPage(InOrder(DOMAIN users), PageIndex(s.req.id), PerPage)
         /\ rows = [i \in ToSet(data) |-> users[i]]
  OBVIOUS
<1>2. Serves(s) /\ s.pc = "fetch" /\ DOMAIN serving = Actors
  BY <1>1 DEF ApiServings, Fetch, At
<1>3. Unwrapped(s) /\ Acting(s)
  BY <1>2, AtWork
<1>4. PICK t : t = FetchedBy(s, data, rows)
  OBVIOUS
<1>5. /\ ApiService(t) /\ SameService(s, t) /\ t.pc \in {"load", "answer"}
      /\ t.work.data = data /\ t.work.rows = rows /\ t.work.total = s.work.total
      /\ t.work.came = s.work.came /\ t.work.gone = s.work.gone
  BY <1>2, <1>3, <1>4, FetchSteps
<1>6. Step(a, t)
  BY <1>1, <1>4 DEF Fetch, FetchedBy
<1>7. Serves(t)
  BY <1>5 DEF Serves
<1>8. /\ ApiServings' /\ serving'[a] = t
      /\ \A b \in Actors : b # a => serving'[b] = serving[b]
  BY <1>2, <1>6, <1>7, StepIs, StepServes
<1> QED
  BY <1>1, <1>5, <1>8, Zenon

LEMMA LoadTeamStep ==
    ASSUME NEW a \in Actors, ApiServings, LoadTeam(a)
    PROVE  /\ ApiServings' /\ SameService(serving[a], serving'[a])
           /\ serving'[a].pc = "answer"
           /\ serving'[a].work.data = serving[a].work.data
           /\ serving'[a].work.total = serving[a].work.total
           /\ serving'[a].work.came = serving[a].work.came
           /\ serving'[a].work.gone = serving[a].work.gone
           /\ \A b \in Actors : b # a => serving'[b] = serving[b]
<1>1. PICK s, related :
         /\ s = serving[a]
         /\ related = LoadBelongsTo(s.work.rows, s.work.data, "team", teams)
  OBVIOUS
<1>2. Serves(s) /\ s.pc = "load" /\ DOMAIN serving = Actors
  BY <1>1 DEF ApiServings, LoadTeam, At
<1>3. Unwrapped(s) /\ Acting(s)
  BY <1>2, AtWork
<1>4. PICK t : t = Listed([s EXCEPT !.work.related = related])
  OBVIOUS
<1>5. /\ ApiService(t) /\ SameService(s, t) /\ t.pc = "answer"
      /\ t.work.data = s.work.data /\ t.work.total = s.work.total
      /\ t.work.came = s.work.came /\ t.work.gone = s.work.gone
  BY <1>2, <1>3, <1>4, LoadSteps
<1>6. Step(a, t)
  BY <1>1, <1>4 DEF LoadTeam
<1>7. Serves(t)
  BY <1>5 DEF Serves
<1> QED
  BY <1>1, <1>2, <1>5, <1>6, <1>7, StepIs, StepServes

LEMMA AllStep ==
    ASSUME NEW a \in Actors, ApiServings, All(a)
    PROVE  /\ ApiServings' /\ SameService(serving[a], serving'[a])
           /\ serving'[a].pc \in {"members", "answer"}
           /\ \A b \in Actors : b # a => serving'[b] = serving[b]
<1>1. PICK s, data : s = serving[a] /\ data = InOrder(DOMAIN teams)
  OBVIOUS
<1>2. Serves(s) /\ s.pc = "all" /\ DOMAIN serving = Actors
  BY <1>1 DEF ApiServings, All, At
<1>3. Unwrapped(s) /\ Acting(s)
  BY <1>2, AtWork
<1>4. PICK next : next = [s EXCEPT !.work.data = data]
  OBVIOUS
<1>5. PICK t : t = IF data = <<>> THEN Listed(next) ELSE Goto(next, "members")
  OBVIOUS
<1>6. ApiService(t) /\ SameService(s, t) /\ t.pc \in {"members", "answer"}
  BY <1>2, <1>3, <1>4, <1>5, AllSteps
<1>7. Step(a, t)
  BY <1>1, <1>4, <1>5 DEF All
<1>8. Serves(t)
  BY <1>6 DEF Serves
<1> QED
  BY <1>1, <1>2, <1>6, <1>7, <1>8, StepIs, StepServes

LEMMA LoadMembersStep ==
    ASSUME NEW a \in Actors, ApiServings, LoadMembers(a)
    PROVE  /\ ApiServings' /\ SameService(serving[a], serving'[a])
           /\ serving'[a].pc = "answer"
           /\ \A b \in Actors : b # a => serving'[b] = serving[b]
<1>1. PICK s, related :
         /\ s = serving[a]
         /\ related = [members |-> LoadHasMany(s.work.data, users, "team"),
                       first |-> LoadHasOne(s.work.data, users, "team")]
  OBVIOUS
<1>2. Serves(s) /\ s.pc = "members" /\ DOMAIN serving = Actors
  BY <1>1 DEF ApiServings, LoadMembers, At
<1>3. Unwrapped(s) /\ Acting(s)
  BY <1>2, AtWork
<1>4. PICK t : t = Listed([s EXCEPT !.work.related = related])
  OBVIOUS
<1>5. ApiService(t) /\ SameService(s, t) /\ t.pc = "answer"
  BY <1>2, <1>3, <1>4, LoadSteps
<1>6. Step(a, t)
  BY <1>1, <1>4 DEF LoadMembers
<1>7. Serves(t)
  BY <1>5 DEF Serves
<1> QED
  BY <1>1, <1>2, <1>5, <1>6, <1>7, StepIs, StepServes

\* Without a browser nothing is ever left to follow.
ApiTabs == tab = [a \in Actors |-> Blank]

LEMMA SendStep ==
    ASSUME NEW a \in Actors, ~setting.browser, ApiServings, Send(a)
    PROVE  /\ ApiServings' /\ serving[a] = Idle /\ Fresh(serving'[a])
           /\ ApiService(serving'[a])
           /\ serving'[a].action = "users.store" => RoomFor(a)
           /\ \A b \in Actors : b # a => serving'[b] = serving[b]
<1>1. PICK req \in Wanted(a) : Take(a, req)
  BY DEF Send
<1>2. Call(req) /\ (req.method = "POST" => RoomFor(a))
  <2>1. req \in WriterRequests(a) \/ req \in ReaderRequests(a)
    BY <1>1 DEF Wanted
  <2> QED
    BY <2>1, WriterCalls, ReaderCalls
<1>3. PICK t : t = TakenUp(a, req)
  OBVIOUS
<1>4. /\ ApiService(t) /\ Fresh(t) /\ t.req = req
      /\ t.action = "users.store" => req.method = "POST"
  BY <1>2, <1>3, CallUp
<1>5. Step(a, t)
  BY <1>1, <1>3 DEF Take, Step
<1>6. Serves(t)
  BY <1>4 DEF Serves
<1>7. serving[a] = Idle /\ DOMAIN serving = Actors
  BY DEF Send, Free, ApiServings
<1> QED
  BY <1>2, <1>4, <1>5, <1>6, <1>7, StepIs, StepServes

LEMMA ApiAnswerStep ==
    ASSUME NEW a \in Actors, ~setting.browser, ApiServings, Answer(a), ApiTabs
    PROVE  /\ ApiServings' /\ serving'[a] = Idle
           /\ \A b \in Actors : b # a => serving'[b] = serving[b]
           /\ tab' = tab
<1>1. Step(a, Idle)
  BY DEF Answer
<1>2. DOMAIN serving = Actors /\ Serves(Idle)
  BY DEF ApiServings, Serves
<1>3. PICK req, response : tab' = [tab EXCEPT ![a] = Received(tab[a], req, response)]
  <2>1. PICK req, response : req = serving[a].req /\ response = Written(Left(serving[a]).outcome)
    OBVIOUS
  <2>2. tab' = [tab EXCEPT ![a] = Received(tab[a], req, response)]
    BY <2>1 DEF Answer
  <2> QED
    BY <2>2
<1>4. tab' = tab
  BY <1>3 DEF Received, ApiTabs
<1> QED
  BY <1>1, <1>2, <1>4, StepIs, StepServes

LEMMA DeployIdles ==
    ASSUME Deploy
    PROVE  /\ ApiServings' /\ \A a \in Actors : serving'[a] = Idle
           /\ UNCHANGED <<setting, users, teams, nextId, tab>>
BY DEF Deploy, ApiServings, Serves, tables

-----------------------------------------------------------------------------
(***************************************************************************)
(* What a browser sends                                                    *)
(***************************************************************************)

Loads(r) == r.method = "GET" /\ r.path \in {Home, Posts}
Submits(r) == /\ r.partial = None /\ r.submission \in Submissions
              /\ \/ r.method = "POST" /\ r.path = Posts
                 \/ r.method = "PUT" /\ r.path = Post

\* A request of a tab: loads and submissions of the page it shows.
Sent(r, t) ==
    /\ IsRequest(r) /\ r.token = None
    /\ \/ r.inertia = FALSE /\ r.partial = None
       \/ r.inertia = TRUE /\ t.page # None /\ r.version = t.assets
    /\ r.partial = None \/ r.partial = t.page.component
    /\ Loads(r) \/ Submits(r)

LEMMA GetSent ==
    ASSUME NEW t, NEW url \in {Home, Posts}
    PROVE  Sent(Request("GET", url), t) /\ Request("GET", url).inertia = FALSE
           /\ Loads(Request("GET", url))
<1>1. PICK m : m = "GET"
  OBVIOUS
<1>2. PICK r : r = Request(m, url)
  OBVIOUS
<1>3. Plain(r, m, url, None)
  BY <1>2, RequestFields
<1> QED
  BY <1>1, <1>2, <1>3 DEF Sent, Loads, Plain

LEMMA FormSent ==
    ASSUME NEW t, NEW m, NEW path, (m = "POST" /\ path = Posts) \/ (m = "PUT" /\ path = Post),
           NEW b, NEW name \in Submissions
    PROVE  LET r == [Request(m, path) EXCEPT !.body = b, !.submission = name]
           IN  Sent(r, t) /\ r.inertia = FALSE
<1>1. PICK r : r = Request(m, path)
  OBVIOUS
<1>2. Plain(r, m, path, None)
  BY <1>1, RequestFields
<1>3. PICK u : u = [r EXCEPT !.body = b]
  OBVIOUS
<1>4. /\ IsRequest(u) /\ u.method = m /\ u.path = path /\ u.token = None
      /\ u.inertia = FALSE /\ u.partial = None
  BY <1>2, <1>3 DEF Plain, IsRequest
<1>5. PICK w : w = [u EXCEPT !.submission = name]
  OBVIOUS
<1>6. /\ IsRequest(w) /\ w.method = m /\ w.path = path /\ w.token = None
      /\ w.inertia = FALSE /\ w.partial = None /\ w.submission = name
  BY <1>4, <1>5 DEF IsRequest
<1>7. Sent(w, t) /\ w.inertia = FALSE
  BY <1>6 DEF Sent, Submits
<1> QED
  BY <1>1, <1>3, <1>5, <1>7

LEMMA NavigatingSent ==
    ASSUME NEW t, NEW r, Sent(r, t), t.page # None, t.page.version = t.assets
    PROVE  LET n == Navigating(r, t.page)
           IN  /\ Sent(n, t) /\ n.inertia = TRUE
               /\ n.method = r.method /\ n.path = r.path
<1>1. PICK yes, v : yes = TRUE /\ v = t.page.version
  OBVIOUS
<1>2. PICK u : u = [r EXCEPT !.inertia = yes]
  OBVIOUS
<1>3. /\ IsRequest(u) /\ u.method = r.method /\ u.path = r.path /\ u.token = r.token
      /\ u.inertia = yes /\ u.partial = r.partial /\ u.submission = r.submission
  BY <1>2 DEF Sent, IsRequest
<1>4. PICK w : w = [u EXCEPT !.version = v]
  OBVIOUS
<1>5. /\ IsRequest(w) /\ w.method = r.method /\ w.path = r.path /\ w.token = r.token
      /\ w.inertia = yes /\ w.partial = r.partial /\ w.submission = r.submission
      /\ w.version = v
  BY <1>3, <1>4 DEF IsRequest
<1>6. Loads(w) \/ Submits(w)
  BY <1>5 DEF Sent, Loads, Submits
<1>7. Sent(w, t)
  BY <1>1, <1>5, <1>6 DEF Sent
<1>8. w = Navigating(r, t.page)
  BY <1>1, <1>2, <1>4 DEF Navigating
<1> QED
  BY <1>1, <1>5, <1>7, <1>8

LEMMA ReloadSent ==
    ASSUME NEW t, NEW r, Sent(r, t), r.inertia = TRUE, Loads(r)
    PROVE  Sent([r EXCEPT !.partial = t.page.component, !.only = {"posts"}], t)
<1>1. PICK c, o : c = t.page.component /\ o = {"posts"}
  OBVIOUS
<1>2. PICK u : u = [r EXCEPT !.partial = c]
  OBVIOUS
<1>3. /\ IsRequest(u) /\ u.method = r.method /\ u.path = r.path /\ u.token = r.token
      /\ u.inertia = r.inertia /\ u.partial = c /\ u.version = r.version
  BY <1>2 DEF Sent, IsRequest
<1>4. PICK w : w = [u EXCEPT !.only = o]
  OBVIOUS
<1>5. /\ IsRequest(w) /\ w.method = r.method /\ w.path = r.path /\ w.token = r.token
      /\ w.inertia = r.inertia /\ w.partial = c /\ w.version = r.version
  BY <1>3, <1>4 DEF IsRequest
<1>6. Loads(w)
  BY <1>5 DEF Loads
<1>7. Sent(w, t)
  BY <1>1, <1>5, <1>6 DEF Sent
<1> QED
  BY <1>1, <1>2, <1>4, <1>7

LEMMA NewNameIsOne ==
    ASSUME NEW c
    PROVE  NewName(c) \in Submissions
<1>1. PICK used : used = {due[c]} \cup cells[c].next \cup cells[c].now
  OBVIOUS
<1>2. \E n \in Submissions : used \cap Submissions # Submissions => n \notin used
  <2>1. CASE used \cap Submissions # Submissions
    BY <2>1
  <2>2. CASE used \cap Submissions = Submissions
    BY <2>2 DEF Submissions
  <2> QED
    BY <2>1, <2>2
<1>3. NewName(c) = CHOOSE n \in Submissions : used \cap Submissions # Submissions => n \notin used
  BY <1>1 DEF NewName
<1> QED
  BY <1>2, <1>3

LEMMA SubmittingSent ==
    ASSUME NEW a, NEW t, NEW m \in {"POST", "PUT"}, NEW title
    PROVE  Sent(Submitting(a, m, title), t)
<1>1. PICK path : path = IF m = "POST" THEN Posts ELSE Post
  OBVIOUS
<1>6. PICK b : b = [title |-> title]
  OBVIOUS
<1>2. PICK name : name = NewName(ClientOf(a))
  OBVIOUS
<1>5. name \in Submissions
  BY <1>2, NewNameIsOne
<1>3. (m = "POST" /\ path = Posts) \/ (m = "PUT" /\ path = Post)
  BY <1>1
<1>4. Sent([Request(m, path) EXCEPT !.body = b, !.submission = name], t)
  BY <1>3, <1>5, FormSent
<1> QED
  BY <1>1, <1>2, <1>4, <1>6 DEF Submitting

LEMMA BrowserRequestsSent ==
    ASSUME NEW a, NEW t, t = tab[a], t.page # None => t.page.version = t.assets,
           NEW req \in BrowserRequests(a)
    PROVE  Sent(req, t)
<1>1. PICK page : page = tab[a].page
  OBVIOUS
<1>2. PICK gets : gets = {Request("GET", url) : url \in {Home, Posts}}
  OBVIOUS
<1>3. PICK forms : forms = Forms(a)
  OBVIOUS
<1>4. PICK reloads : reloads = {Reloading(r, page) : r \in gets}
  OBVIOUS
<1>5. \/ req \in gets
      \/ page # None /\ req \in {Navigating(r, page) : r \in gets \cup forms} \cup forms \cup reloads
  BY <1>1, <1>2, <1>3, <1>4 DEF BrowserRequests
<1>6. \A r \in gets : Sent(r, t) /\ Loads(r)
  BY <1>2, GetSent
<1>7. \A r \in forms : Sent(r, t)
  BY <1>3, SubmittingSent DEF Forms
<1>8. ASSUME page # None, NEW r, Sent(r, t)
      PROVE  /\ Sent(Navigating(r, page), t)
             /\ Loads(r) => Sent(Reloading(r, page), t)
  <2>1. PICK n : n = Navigating(r, page)
    OBVIOUS
  <2>2. Sent(n, t) /\ n.inertia = TRUE /\ (Loads(r) => Loads(n))
    BY <1>1, <1>8, <2>1, NavigatingSent, ZenonT(60) DEF Loads
  <2>3. Loads(n) => Sent([n EXCEPT !.partial = t.page.component, !.only = {"posts"}], t)
    BY <2>2, ReloadSent
  <2> QED
    BY <1>1, <2>1, <2>2, <2>3 DEF Reloading
<1>9. page # None => \A r \in reloads : Sent(r, t)
  BY <1>4, <1>6, <1>8
<1>10. page # None => \A r \in {Navigating(x, page) : x \in gets \cup forms} : Sent(r, t)
  BY <1>6, <1>7, <1>8
<1> QED
  BY <1>5, <1>6, <1>7, <1>9, <1>10

-----------------------------------------------------------------------------
(***************************************************************************)
(* A page request, served                                                  *)
(***************************************************************************)

\* A page of the application as it is sent in answer to a request.
PageOf(req, d, v, component) ==
    LET merged == {"errors"} \cup PropsOf(component)
        sent == IF I!ComponentMatches(req, component) THEN merged \cap req.only ELSE merged
    IN [component |-> component, props |-> sent,
        errors |-> IF "errors" \in sent THEN d.next ELSE {},
        url |-> req.path, version |-> v, json |-> req.inertia]

PageAnswer(p) == I!Ok([status |-> 200, location |-> None, page |-> p])

\* What an action of the pages can come to.
Outcome(req, o, d, v) ==
    \/ Loads(req) /\ o = PageAnswer(PageOf(req, d, v, IF req.path = Home THEN "Home" ELSE "Posts"))
    \/ Submits(req) /\ \E k \in {"bad-request", "validation"} : \E f : o = I!Err(k, f)
    \/ Submits(req) /\ req.method = "POST" /\ o = PageAnswer(PageOf(req, d, v, "Posts/Show"))
    \/ Submits(req) /\ req.method = "PUT" /\ o = I!Ok(I!Redirect(Posts))

PageActions == {"pages.home", "pages.index", "pages.store", "pages.update"}

\* A request of a tab in the state its action leaves it, with the session it
\* found and the version of the assets.
PageService(s, t, d, v) ==
    /\ IsService(s) /\ s.pc = "answer" /\ Sent(s.req, t) /\ Untouched(s.work)
    /\ PageStack(s.stack) /\ s.action \in PageActions
    /\ s.ctx.auth = None /\ s.ctx.database = TRUE
    /\ IF I!Stale(s.req, v)
       THEN /\ s.ctx.outcome = I!Ok(I!Reload(s.req.path)) /\ s.ctx.entered = 2
            /\ s.ctx.session = Opened(d) /\ s.ctx.inertia = None
       ELSE /\ Outcome(s.req, s.ctx.outcome, d, v) /\ s.ctx.entered = 3
            /\ s.ctx.session = Kept(s.req, d) /\ s.ctx.inertia = Shared(s.req, d, v)

\* A session of a browser: what it owes, and the page it was last given.
Session(d) ==
    /\ Cell(d) /\ d.next \subseteq Submissions
    /\ d.vals[I!PREVIOUS_URL] \in {None, Home, Posts}

LEMMA SharedIsSomething ==
    ASSUME NEW d, Session(d), NEW v \in {1, 2}, NEW req, req.path \in {Home, Posts, Post}
    PROVE  Shared(req, d, v) # None
<1>1. Back(req, d) \in {Home, Posts, Post}
  BY DEF Back, Session
<1>2. PICK x : x = Shared(req, d, v)
  OBVIOUS
<1>3. x \in [hasSession : BOOLEAN, errors : SUBSET Submissions,
             back : {Home, Posts, Post}, version : {1, 2}]
  BY <1>1, <1>2 DEF Shared, Session
<1> QED
  BY <1>2, <1>3, NoneAssumption

\* The render of a page for a context the middleware has prepared.
LEMMA RenderIs ==
    ASSUME NEW ctx, NEW req, NEW d, NEW v, ctx.inertia = Shared(req, d, v), ctx.inertia # None,
           NEW component
    PROVE  I!Render(ctx, req, component, PropsOf(component)) = PageAnswer(PageOf(req, d, v, component))
<1>1. PICK props : props = PropsOf(component)
  OBVIOUS
<1>2. PICK p : p = PageOf(req, d, v, component)
  OBVIOUS
<1>3. ctx.inertia.errors = d.next /\ ctx.inertia.version = v
  BY DEF Shared
<1>4. I!Render(ctx, req, component, props) = I!Ok([I!Response(200) EXCEPT !.page = p])
  BY <1>1, <1>2, <1>3 DEF I!Render, PageOf
<1>5. PICK r : r = I!Response(200)
  OBVIOUS
<1>6. [r EXCEPT !.page = p] = [status |-> 200, location |-> None, page |-> p]
  BY <1>5 DEF I!Response
<1> QED
  BY <1>1, <1>2, <1>4, <1>5, <1>6 DEF PageAnswer

PageRoute(req, action) ==
    \/ Loads(req) /\ req.path = Home /\ action = "pages.home"
    \/ Loads(req) /\ req.path = Posts /\ action = "pages.index"
    \/ Submits(req) /\ req.method = "POST" /\ action = "pages.store"
    \/ Submits(req) /\ req.method = "PUT" /\ action = "pages.update"

\* A request let in to its action.
Prepared(s, d, v) ==
    /\ IsService(s) /\ Untouched(s.work)
    /\ s.ctx.inertia = Shared(s.req, d, v) /\ s.ctx.inertia # None

\* What an action makes of it.
Done(s, u, d, v) ==
    /\ SameService(s, u) /\ u.pc = "answer" /\ Untouched(u.work)
    /\ Outcome(s.req, u.ctx.outcome, d, v)

LEMMA RenderPageIs ==
    ASSUME NEW s, NEW d, NEW v, Prepared(s, d, v), NEW component,
           Outcome(s.req, PageAnswer(PageOf(s.req, d, v, component)), d, v)
    PROVE  Done(s, RenderPage(s, component), d, v)
<1>1. PICK o : o = I!Render(s.ctx, s.req, component, PropsOf(component))
  OBVIOUS
<1>2. o = PageAnswer(PageOf(s.req, d, v, component))
  BY <1>1, RenderIs DEF Prepared
<1>3. PICK u : u = Finish(s, o)
  OBVIOUS
<1>4. SameService(s, u) /\ u.pc = "answer" /\ u.ctx.outcome = o /\ u.work = s.work
  BY <1>3, FinishFields DEF Prepared
<1>5. Outcome(s.req, o, d, v)
  BY <1>2
<1>6. Done(s, u, d, v)
  BY <1>4, <1>5 DEF Done, Prepared
<1>7. RenderPage(s, component) = u
  BY <1>1, <1>3 DEF RenderPage
<1> QED
  BY <1>6, <1>7

LEMMA NotLoads ==
    ASSUME NEW req, Submits(req)
    PROVE  ~Loads(req)
BY DEF Submits, Loads

LEMMA BeginLoads ==
    ASSUME NEW s, NEW d, NEW v, Prepared(s, d, v), Loads(s.req), PageRoute(s.req, s.action)
    PROVE  Done(s, Begin(s), d, v)
<1>1. PICK component : component = IF s.req.path = Home THEN "Home" ELSE "Posts"
  OBVIOUS
<1>2. \/ s.action = "pages.home" /\ s.req.path = Home
      \/ s.action = "pages.index" /\ s.req.path = Posts
  BY NotLoads DEF PageRoute
<1>3. Posts # Home
  BY DEF Posts, Home
<1>4. Begin(s) = RenderPage(s, component)
  BY <1>1, <1>2, <1>3 DEF Begin
<1>5. Outcome(s.req, PageAnswer(PageOf(s.req, d, v, component)), d, v)
  BY <1>1 DEF Outcome
<1> QED
  BY <1>4, <1>5, RenderPageIs

LEMMA BeginSubmits ==
    ASSUME NEW s, NEW d, NEW v, Prepared(s, d, v), Submits(s.req), PageRoute(s.req, s.action)
    PROVE  Done(s, Begin(s), d, v)
<1>1. \/ s.action = "pages.store" /\ s.req.method = "POST"
      \/ s.action = "pages.update" /\ s.req.method = "PUT"
  BY NotLoads DEF PageRoute
<1>2. s.action \in {"pages.store", "pages.update"}
  BY <1>1
<1>3. PICK u : u = Validate(s)
  OBVIOUS
<1>4. Begin(s) = Submitted(u)
  BY <1>2, <1>3 DEF Begin
<1>5. /\ SameService(s, u) /\ Untouched(u.work)
      /\ \/ Fails(u, {"bad-request", "validation"})
         \/ u.pc = "render" /\ u.ctx = s.ctx
  BY <1>2, <1>3, ValidatePage DEF Prepared
<1>6. ASSUME Fails(u, {"bad-request", "validation"})
      PROVE  Done(s, Submitted(u), d, v)
  <2>1. Submitted(u) = u
    BY <1>6 DEF Submitted, Fails
  <2>2. u.pc = "answer" /\ Outcome(s.req, u.ctx.outcome, d, v)
    BY <1>6 DEF Fails, Outcome
  <2> QED
    BY <1>5, <2>1, <2>2 DEF Done
<1>7. ASSUME u.pc = "render", u.ctx = s.ctx
      PROVE  Done(s, Submitted(u), d, v)
  <2>1. Prepared(u, d, v) /\ u.req = s.req /\ u.action = s.action
    BY <1>5, <1>7 DEF Prepared, SameService
  <2>2. CASE u.action = "pages.store"
    <3>1. Outcome(u.req, PageAnswer(PageOf(u.req, d, v, "Posts/Show")), d, v)
      BY <1>1, <2>1, <2>2 DEF Outcome
    <3>2. Done(u, RenderPage(u, "Posts/Show"), d, v)
      BY <2>1, <3>1, RenderPageIs
    <3>3. Submitted(u) = RenderPage(u, "Posts/Show")
      BY <1>7, <2>2 DEF Submitted
    <3> QED
      BY <1>5, <2>1, <3>2, <3>3, SameTransitive DEF Done
  <2>3. CASE u.action # "pages.store"
    <3>1. PICK o : o = I!Ok(I!Redirect(Posts))
      OBVIOUS
    <3>2. PICK w : w = Finish(u, o)
      OBVIOUS
    <3>3. SameService(u, w) /\ w.pc = "answer" /\ w.ctx.outcome = o /\ w.work = u.work
      BY <2>1, <3>2, FinishFields DEF Prepared
    <3>4. Submitted(u) = w
      BY <1>7, <2>3, <3>1, <3>2 DEF Submitted
    <3>5. Outcome(s.req, o, d, v)
      BY <1>1, <2>1, <2>3, <3>1 DEF Outcome
    <3> QED
      BY <1>5, <3>3, <3>4, <3>5, SameTransitive DEF Done
  <2> QED
    BY <2>2, <2>3
<1> QED
  BY <1>4, <1>5, <1>6, <1>7

LEMMA SentRoute ==
    ASSUME NEW t, NEW req, Sent(req, t)
    PROVE  \E action \in PageActions : PageRoute(req, action) /\ Routed(req, action, Pages)
<1>1. CASE Loads(req)
  <2>1. req.path = Home \/ req.path = Posts
    BY <1>1 DEF Loads
  <2>2. req.path = Home => PageRoute(req, "pages.home") /\ Routed(req, "pages.home", Pages)
    BY <1>1, ServedAssumption DEF PageRoute, Routed, Loads
  <2>3. req.path = Posts => PageRoute(req, "pages.index") /\ Routed(req, "pages.index", Pages)
    BY <1>1, ServedAssumption DEF PageRoute, Routed, Loads
  <2> QED
    BY <2>1, <2>2, <2>3 DEF PageActions
<1>2. CASE Submits(req)
  <2>1. \/ req.method = "POST" /\ req.path = Posts
        \/ req.method = "PUT" /\ req.path = Post
    BY <1>2 DEF Submits
  <2>2. req.method = "POST" /\ req.path = Posts =>
           PageRoute(req, "pages.store") /\ Routed(req, "pages.store", Pages)
    BY <1>2, ServedAssumption DEF PageRoute, Routed
  <2>3. req.method = "PUT" /\ req.path = Post =>
           PageRoute(req, "pages.update") /\ Routed(req, "pages.update", Pages)
    BY <1>2, ServedAssumption DEF PageRoute, Routed
  <2> QED
    BY <2>1, <2>2, <2>3 DEF PageActions
<1> QED
  BY <1>1, <1>2 DEF Sent

LEMMA SentPath ==
    ASSUME NEW t, NEW req, Sent(req, t)
    PROVE  IsRequest(req) /\ req.path \in {Home, Posts, Post}
BY DEF Sent, Loads, Submits

LEMMA PagesUp ==
    ASSUME NEW a, NEW t, NEW req, Sent(req, t),
           NEW d, d = cells[ClientOf(a)], Session(d), NEW v \in {1, 2}, v = version
    PROVE  LET u == TakenUp(a, req)
           IN  PageService(u, t, d, v) /\ u.req = req
<1>1. PICK action \in PageActions : PageRoute(req, action) /\ Routed(req, action, Pages)
  BY SentRoute
<1>2. PICK x : x = I!Inbound(Pages, req, d, v)
  OBVIOUS
<1>3. PICK s : s = Incoming(a, req, action, Pages)
  OBVIOUS
<1>4. s = Taken(req, action, Pages, x)
  BY <1>2, <1>3 DEF Incoming
<1>5. Cell(d) /\ PageStack(Pages)
  BY ApiStack DEF Session, PageStack
<1>6. Paged(x, req, d, v)
  BY <1>2, <1>5, SentPath, InboundPages
<1>7. IsRequest(req) /\ IsContext(x)
  BY <1>6, SentPath DEF Paged
<1>8. /\ IsService(s) /\ s.req = req /\ s.action = action
      /\ s.stack = Pages /\ s.ctx = x /\ s.work = NewWork
  BY <1>4, <1>7, TakenFields
<1>9. Untouched(s.work)
  BY <1>8, NewWorkFields
<1>10. PICK u : u = IF s.ctx.outcome # I!Running THEN Goto(s, "answer") ELSE Begin(s)
  OBVIOUS
<1>11. TakenUp(a, req) = u
  BY <1>1, <1>3, <1>10, TakenUpIs
<1>12. CASE I!Stale(req, v)
  <2>1. s.ctx.outcome = I!Ok(I!Reload(req.path)) /\ s.ctx.entered = 2
        /\ s.ctx.session = Opened(d) /\ s.ctx.inertia = None
        /\ s.ctx.auth = None /\ s.ctx.database = TRUE
    BY <1>6, <1>8, <1>12 DEF Paged
  <2>2. s.ctx.outcome # I!Running
    BY <2>1 DEF I!Ok, I!Running
  <2>3. PICK pc : pc = "answer"
    OBVIOUS
  <2>4. u = Goto(s, pc)
    BY <1>10, <2>2, <2>3
  <2>5. SameService(s, u) /\ u.pc = pc /\ u.ctx = s.ctx /\ u.work = s.work
    BY <1>8, <2>4, GotoFields
  <2>6. IsService(u) /\ u.req = req /\ u.action = action /\ u.stack = Pages
    BY <1>8, <2>5 DEF SameService
  <2>7. PageService(u, t, d, v)
    BY <1>5, <1>9, <1>12, <2>1, <2>3, <2>5, <2>6 DEF PageService
  <2> QED
    BY <1>11, <2>6, <2>7
<1>13. CASE ~I!Stale(req, v)
  <2>1. s.ctx.outcome = I!Running /\ s.ctx.entered = 3
        /\ s.ctx.session = Kept(req, d) /\ s.ctx.inertia = Shared(req, d, v)
        /\ s.ctx.auth = None /\ s.ctx.database = TRUE
    BY <1>6, <1>8, <1>13 DEF Paged
  <2>2. Prepared(s, d, v)
    <3>1. Shared(req, d, v) # None
      BY SharedIsSomething, SentPath
    <3> QED
      BY <1>8, <1>9, <2>1, <3>1 DEF Prepared
  <2>3. u = Begin(s)
    BY <1>10, <2>1
  <2>4. PageRoute(s.req, s.action) /\ (Loads(s.req) \/ Submits(s.req))
    BY <1>1, <1>8 DEF Sent
  <2>5. Done(s, u, d, v)
    BY <2>2, <2>3, <2>4, BeginLoads, BeginSubmits
  <2>6. IsService(u) /\ u.req = req /\ u.action = action /\ u.stack = Pages /\ u.pc = "answer"
        /\ Untouched(u.work) /\ Outcome(req, u.ctx.outcome, d, v)
    BY <1>8, <2>5 DEF SameService, Done
  <2>7. /\ u.ctx.auth = None /\ u.ctx.database = TRUE /\ u.ctx.entered = 3
        /\ u.ctx.session = Kept(req, d) /\ u.ctx.inertia = Shared(req, d, v)
    BY <2>1, <2>5 DEF Done, SameService
  <2>8. PageService(u, t, d, v)
    BY <1>5, <1>13, <2>6, <2>7 DEF PageService
  <2> QED
    BY <1>11, <2>6, <2>8
<1> QED
  BY <1>12, <1>13

-----------------------------------------------------------------------------
(***************************************************************************)
(* A page request, answered                                                *)
(***************************************************************************)

Bounced(s) == s.ctx.outcome.kind = "validation" /\ s.req.inertia = TRUE

\* The session after a bounce: the submission is flashed into it.
Flashed(req, d) ==
    [id |-> <<None, 0>>,
     data |-> [subject |-> None, next |-> {req.submission}, now |-> d.next, vals |-> d.vals],
     dirty |-> TRUE, destroyed |-> FALSE]

LEMMA SubmitsKeeps ==
    ASSUME NEW req, Submits(req), NEW d
    PROVE  /\ ~I!IsGet(req) /\ Kept(req, d) = Opened(d)
           /\ Back(req, d) = IF d.vals[I!PREVIOUS_URL] = None THEN Home ELSE d.vals[I!PREVIOUS_URL]
           /\ \A v : ~I!Stale(req, v)
<1>1. ~I!IsGet(req)
  BY DEF Submits, I!IsGet
<1> QED
  BY <1>1 DEF Kept, Back, I!Stale

LEMMA FlashIs ==
    ASSUME NEW req, NEW d
    PROVE  I!S!Flash(Opened(d), req.submission) = Flashed(req, d)
<1>1. PICK h : h = Opened(d)
  OBVIOUS
<1>2. PICK e : e = [h.data EXCEPT !.next = h.data.next \cup {req.submission}]
  OBVIOUS
<1>3. e = [subject |-> None, next |-> {req.submission}, now |-> d.next, vals |-> d.vals]
  <2>1. h.data = [subject |-> None, next |-> {}, now |-> d.next, vals |-> d.vals]
    BY <1>1 DEF Opened
  <2> QED
    BY <1>2, <2>1
<1>4. I!S!Flash(h, req.submission) = [h EXCEPT !.data = e, !.dirty = TRUE]
  BY <1>2 DEF I!S!Flash, I!S!Write
<1>5. PICK h1 : h1 = [h EXCEPT !.data = e]
  OBVIOUS
<1>6. PICK i, b, yes, no : /\ i = <<None, 0>> /\ b = (d.next # {} \/ d.now # {})
                           /\ yes = TRUE /\ no = FALSE
  OBVIOUS
<1>8. h1 = [id |-> i, data |-> e, dirty |-> b, destroyed |-> no]
  BY <1>1, <1>5, <1>6 DEF Opened
<1>9. [h1 EXCEPT !.dirty = yes] = [id |-> i, data |-> e, dirty |-> yes, destroyed |-> no]
  BY <1>8
<1>7. [h1 EXCEPT !.dirty = TRUE] =
        [id |-> <<None, 0>>, data |-> e, dirty |-> TRUE, destroyed |-> FALSE]
  BY <1>6, <1>9, Zenon
<1> QED
  BY <1>1, <1>3, <1>4, <1>5, <1>7 DEF Flashed

LEMMA OutcomeKinds ==
    ASSUME NEW req, NEW o, NEW d, NEW v, Outcome(req, o, d, v)
    PROVE  /\ o.kind = "validation" => Submits(req)
           /\ I!IsErr(o) => Submits(req) /\ \E k \in {"bad-request", "validation"} : \E f : o = I!Err(k, f)
<1>1. ASSUME NEW x
      PROVE  I!Ok(x).kind = "ok" /\ ~I!IsErr(I!Ok(x))
  BY DEF I!Ok, I!IsErr
<1> QED
  BY <1>1 DEF Outcome, PageAnswer

LEMMA LeftStale ==
    ASSUME NEW s, NEW t, NEW d, NEW v, PageService(s, t, d, v), I!Stale(s.req, v)
    PROVE  Left(s) = s.ctx
BY OutboundPages DEF PageService, Left

LEMMA LeftPlain ==
    ASSUME NEW s, NEW t, NEW d, NEW v, PageService(s, t, d, v), ~Bounced(s)
    PROVE  Left(s) = s.ctx
<1>1. CASE I!Stale(s.req, v)
  BY <1>1, LeftStale
<1>2. CASE ~I!Stale(s.req, v)
  <2>1. Left(s) = I!LeaveInertia(s.ctx, s.req)
    BY <1>2, OutboundPages DEF PageService, Left
  <2>2. s.req.inertia \in BOOLEAN
    BY DEF PageService, Sent
  <2> QED
    BY <2>1, <2>2 DEF Bounced, I!LeaveInertia
<1> QED
  BY <1>1, <1>2

LEMMA LeftBounced ==
    ASSUME NEW s, NEW t, NEW d, NEW v, PageService(s, t, d, v), Bounced(s)
    PROVE  /\ Submits(s.req) /\ Left(s).session = Flashed(s.req, d)
           /\ Left(s).outcome = I!Ok(I!Redirect(Back(s.req, d)))
           /\ ~I!Stale(s.req, v)
<1>1. ~I!Stale(s.req, v)
  <2>1. ASSUME I!Stale(s.req, v)
        PROVE  FALSE
    BY <2>1 DEF PageService, Bounced, I!Ok
  <2> QED
    BY <2>1
<1>2. /\ Outcome(s.req, s.ctx.outcome, d, v) /\ s.ctx.entered = 3 /\ IsContext(s.ctx)
      /\ s.ctx.session = Kept(s.req, d) /\ s.ctx.inertia = Shared(s.req, d, v)
      /\ PageStack(s.stack)
  BY <1>1 DEF PageService, IsService
<1>3. Submits(s.req)
  BY <1>2, OutcomeKinds DEF Bounced
<1>4. s.ctx.session = Opened(d)
  BY <1>2, <1>3, SubmitsKeeps
<1>5. PICK o : o = I!Ok(I!Redirect(Back(s.req, d)))
  OBVIOUS
<1>6. PICK f : f = I!S!Flash(s.ctx.session, s.req.submission)
  OBVIOUS
<1>7. f = Flashed(s.req, d)
  BY <1>4, <1>6, FlashIs
<1>8. s.ctx.inertia.hasSession = TRUE /\ s.ctx.inertia.back = Back(s.req, d)
  BY <1>2 DEF Shared
<1>9. Left(s) = I!LeaveInertia(s.ctx, s.req)
  BY <1>2, OutboundPages DEF Left
<1>10. I!LeaveInertia(s.ctx, s.req) = [s.ctx EXCEPT !.session = f, !.outcome = o]
  BY <1>5, <1>6, <1>8 DEF I!LeaveInertia, Bounced
<1>11. PICK c : c = [s.ctx EXCEPT !.session = f]
  OBVIOUS
<1>12. IsContext(c) /\ c.session = f
  BY <1>2, <1>11 DEF IsContext
<1>13. [c EXCEPT !.outcome = o].session = f /\ [c EXCEPT !.outcome = o].outcome = o
  BY <1>12 DEF IsContext
<1> QED
  BY <1>1, <1>3, <1>5, <1>7, <1>9, <1>10, <1>11, <1>13

\* What the history of a browser has to do with its session.
History(d, owed, shown) ==
    /\ Session(d) /\ owed \in Submissions \cup {None} /\ shown \in {Home, Posts}
    /\ d.next = IF owed = None THEN {} ELSE {owed}
    /\ shown = IF d.vals[I!PREVIOUS_URL] = None THEN Home ELSE d.vals[I!PREVIOUS_URL]

Bag(next, now, vals) == [subject |-> None, next |-> next, now |-> now, vals |-> vals]
Handle(e, dirty) == [id |-> <<None, 0>>, data |-> e, dirty |-> dirty, destroyed |-> FALSE]
Valued(vals) ==
    /\ vals = [k \in {I!PREVIOUS_URL} |-> vals[I!PREVIOUS_URL]]
    /\ vals[I!PREVIOUS_URL] \in {None, Home, Posts}

LEMMA BagIsSession ==
    ASSUME NEW next, next \subseteq Submissions, NEW now, now \subseteq Submissions,
           NEW vals, Valued(vals)
    PROVE  LET e == Bag(next, now, vals)
           IN  /\ Session(e) /\ e.next = next /\ e.now = now /\ e.vals = vals
<1>1. PICK e : e = Bag(next, now, vals)
  OBVIOUS
<1>2. e.subject = None /\ e.next = next /\ e.now = now /\ e.vals = vals
  BY <1>1 DEF Bag
<1>3. vals \in [{I!PREVIOUS_URL} -> ({Home, Posts, Post} \cup Submissions) \cup {None}]
  BY DEF Valued
<1>4. e \in I!S!Data
  BY <1>1, <1>3 DEF Bag, I!S!Data
<1> QED
  BY <1>1, <1>2, <1>4 DEF Session, Cell, Valued

LEMMA HandleIsSomething ==
    ASSUME NEW e, Session(e), NEW dirty \in BOOLEAN
    PROVE  Handle(e, dirty) # None
<1>1. PICK h : h = Handle(e, dirty)
  OBVIOUS
<1>2. h \in [id : {<<None, 0>>}, data : I!S!Data, dirty : BOOLEAN, destroyed : BOOLEAN]
  BY <1>1 DEF Handle, Session, Cell
<1> QED
  BY <1>1, <1>2, NoneAssumption

LEMMA SessionFields ==
    ASSUME NEW d, Session(d)
    PROVE  d = Bag(d.next, d.now, d.vals) /\ Valued(d.vals) /\ d.next \subseteq Submissions
<1>1. d = Bag(d.next, d.now, d.vals)
  BY CellFields DEF Session, Bag
<1>2. d.vals = [k \in {I!PREVIOUS_URL} |-> d.vals[I!PREVIOUS_URL]]
  BY CellFields DEF Session
<1> QED
  BY <1>1, <1>2 DEF Session, Valued

\* What a successful answer leaves behind.
LEMMA Stored ==
    ASSUME NEW r, NEW d, NEW e, NEW dirty \in BOOLEAN, r.session = Handle(e, dirty),
           Session(e), ~I!IsErr(r.outcome)
    PROVE  I!CellAfter(r, d) = (IF dirty THEN e ELSE d) /\ r.session # None
<1>1. Handle(e, dirty) # None
  BY HandleIsSomething
<1>2. r.session.dirty = dirty /\ r.session.data = e
  BY DEF Handle
<1> QED
  BY <1>1, <1>2 DEF I!CellAfter

LEMMA OpenedIsHandle ==
    ASSUME NEW d, NEW dirty, dirty = (d.next # {} \/ d.now # {})
    PROVE  Opened(d) = Handle(Bag({}, d.next, d.vals), dirty)
BY DEF Opened, Handle, Bag

\* An answer that only ages the session.
LEMMA AgedHistory ==
    ASSUME NEW r, NEW d, NEW owed, NEW shown, History(d, owed, shown),
           r.session = Opened(d), ~I!IsErr(r.outcome)
    PROVE  History(I!CellAfter(r, d), None, shown) /\ r.session # None
<1>1. PICK e : e = Bag({}, d.next, d.vals)
  OBVIOUS
<1>2. Session(d) /\ Valued(d.vals) /\ d.next \subseteq Submissions
  BY SessionFields DEF History
<1>3. Session(e) /\ e.next = {} /\ e.vals = d.vals
  BY <1>1, <1>2, BagIsSession
<1>4. PICK dirty : dirty = (d.next # {} \/ d.now # {})
  OBVIOUS
<1>5. r.session = Handle(e, dirty) /\ dirty \in BOOLEAN
  BY <1>1, <1>4, OpenedIsHandle
<1>6. I!CellAfter(r, d) = (IF dirty THEN e ELSE d) /\ r.session # None
  BY <1>3, <1>5, Stored
<1>7. PICK after : after = I!CellAfter(r, d)
  OBVIOUS
<1>8. Session(after) /\ after.next = {} /\ after.vals = d.vals
  BY <1>2, <1>3, <1>4, <1>6, <1>7
<1> QED
  BY <1>6, <1>7, <1>8 DEF History

LEMMA OkFields ==
    ASSUME NEW x
    PROVE  I!Ok(x).kind = "ok" /\ I!Ok(x).response = x /\ ~I!IsErr(I!Ok(x))
BY DEF I!Ok, I!IsErr

LEMMA ResponseFields ==
    ASSUME NEW url
    PROVE  /\ LET r == I!Redirect(url)
              IN  r.status = 303 /\ r.location = url /\ r.page = None
           /\ LET r == I!Reload(url)
              IN  r.status = 409 /\ r.location = url /\ r.page = None
BY DEF I!Redirect, I!Reload, I!Response

\* An answer that succeeds and is no page given for good.
LEMMA PassingHistory ==
    ASSUME NEW s, NEW d, NEW owed, NEW shown, History(d, owed, shown),
           Left(s) = s.ctx, s.ctx.session = Opened(d),
           NEW x, s.ctx.outcome = I!Ok(x), ~IsPage(s, Left(s))
    PROVE  History(I!CellAfter(Left(s), d), DueAfter(s, Left(s), owed),
                   IF IsPage(s, Left(s)) THEN s.req.path ELSE shown)
<1>1. PICK r : r = Left(s)
  OBVIOUS
<1>2. r.session = Opened(d) /\ ~I!IsErr(r.outcome) /\ s.ctx.outcome.kind = "ok"
  BY <1>1, OkFields
<1>3. History(I!CellAfter(r, d), None, shown) /\ r.session # None
  BY <1>2, AgedHistory
<1>4. DueAfter(s, r, owed) = None
  BY <1>2, <1>3 DEF DueAfter
<1> QED
  BY <1>1, <1>3, <1>4

LEMMA StaleHistory ==
    ASSUME NEW s, NEW t, NEW d, NEW v, PageService(s, t, d, v), I!Stale(s.req, v),
           NEW owed, NEW shown, History(d, owed, shown)
    PROVE  History(I!CellAfter(Left(s), d), DueAfter(s, Left(s), owed),
                   IF IsPage(s, Left(s)) THEN s.req.path ELSE shown)
<1>1. PICK x : x = I!Reload(s.req.path)
  OBVIOUS
<1>2. Left(s) = s.ctx /\ s.ctx.session = Opened(d) /\ s.ctx.outcome = I!Ok(x)
  BY <1>1, LeftStale DEF PageService
<1>3. Left(s).outcome.response.status = 409
  BY <1>1, <1>2, OkFields, ResponseFields
<1>4. ~IsPage(s, Left(s))
  BY <1>3 DEF IsPage
<1> QED
  BY <1>2, <1>4, PassingHistory

LEMMA LoadedHistory ==
    ASSUME NEW s, NEW t, NEW d, NEW v, PageService(s, t, d, v), ~I!Stale(s.req, v),
           Loads(s.req), NEW owed, NEW shown, History(d, owed, shown)
    PROVE  History(I!CellAfter(Left(s), d), DueAfter(s, Left(s), owed),
                   IF IsPage(s, Left(s)) THEN s.req.path ELSE shown)
<1>1. PICK p : p = PageOf(s.req, d, v, IF s.req.path = Home THEN "Home" ELSE "Posts")
  OBVIOUS
<1>2. PICK x : x = [status |-> 200, location |-> None, page |-> p]
  OBVIOUS
<1>3. s.ctx.outcome = I!Ok(x) /\ s.ctx.session = Kept(s.req, d)
  <2>1. Outcome(s.req, s.ctx.outcome, d, v) /\ s.ctx.session = Kept(s.req, d)
    BY DEF PageService
  <2>2. ~Submits(s.req)
    BY NotLoads
  <2>3. s.ctx.outcome = PageAnswer(p)
    BY <1>1, <2>1, <2>2 DEF Outcome
  <2> QED
    BY <1>2, <2>1, <2>3 DEF PageAnswer
<1>4. s.ctx.outcome.kind = "ok" /\ ~I!IsErr(s.ctx.outcome) /\ s.ctx.outcome.response = x
  BY <1>3, OkFields
<1>5. Left(s) = s.ctx
  BY <1>4, LeftPlain DEF Bounced
<1>6. I!IsGet(s.req)
  BY DEF Loads, I!IsGet
<1>7. CASE I!IsPartial(s.req)
  <2>1. ~IsPage(s, Left(s))
    BY <1>7 DEF IsPage
  <2>2. s.ctx.session = Opened(d)
    BY <1>3, <1>7 DEF Kept
  <2> QED
    BY <1>3, <1>5, <2>1, <2>2, PassingHistory
<1>8. CASE ~I!IsPartial(s.req)
  <2>1. PICK vals : vals = [k \in {I!PREVIOUS_URL} |-> s.req.path]
    OBVIOUS
  <2>2. s.req.path \in {Home, Posts}
    BY DEF Loads
  <2>3. vals[I!PREVIOUS_URL] = s.req.path
    BY <2>1
  <2>4. Valued(vals)
    BY <2>1, <2>2, <2>3 DEF Valued
  <2>5. d.next \subseteq Submissions
    BY SessionFields DEF History
  <2>6. PICK e : e = Bag({}, d.next, vals)
    OBVIOUS
  <2>7. Session(e) /\ e.next = {} /\ e.vals = vals
    BY <2>4, <2>5, <2>6, BagIsSession
  <2>8. s.ctx.session = Handle(e, TRUE)
    BY <1>3, <1>6, <1>8, <2>1, <2>6 DEF Kept, Handle, Bag
  <2>9. PICK r : r = Left(s)
    OBVIOUS
  <2>10. r.session = Handle(e, TRUE) /\ ~I!IsErr(r.outcome)
    BY <1>4, <1>5, <2>8, <2>9
  <2>11. I!CellAfter(r, d) = e /\ r.session # None
    BY <2>7, <2>10, Stored
  <2>12. DueAfter(s, r, owed) = None
    BY <1>4, <2>10, <2>11 DEF DueAfter
  <2>13. IsPage(s, r)
    <3>1. r.outcome.response.status = 200
      BY <1>2, <1>4, <1>5, <2>9
    <3> QED
      BY <1>6, <1>8, <2>10, <2>11, <3>1 DEF IsPage
  <2>14. History(e, None, s.req.path)
    <3>1. vals[I!PREVIOUS_URL] # None
      BY <2>2, <2>3, NoneAssumption
    <3> QED
      BY <2>2, <2>3, <2>7, <3>1 DEF History
  <2> QED
    BY <2>9, <2>11, <2>12, <2>13, <2>14
<1> QED
  BY <1>7, <1>8

LEMMA BouncedHistory ==
    ASSUME NEW s, NEW t, NEW d, NEW v, PageService(s, t, d, v), Bounced(s),
           NEW owed, NEW shown, History(d, owed, shown)
    PROVE  History(I!CellAfter(Left(s), d), DueAfter(s, Left(s), owed),
                   IF IsPage(s, Left(s)) THEN s.req.path ELSE shown)
<1>1. PICK r, x : r = Left(s) /\ x = I!Redirect(Back(s.req, d))
  OBVIOUS
<1>2. Submits(s.req) /\ r.session = Flashed(s.req, d) /\ r.outcome = I!Ok(x)
  BY <1>1, LeftBounced
<1>3. s.req.submission \in Submissions
  BY <1>2 DEF Submits
<1>4. Valued(d.vals) /\ d.next \subseteq Submissions
  BY SessionFields DEF History
<1>5. PICK e : e = Bag({s.req.submission}, d.next, d.vals)
  OBVIOUS
<1>6. Session(e) /\ e.next = {s.req.submission} /\ e.vals = d.vals
  <2>1. PICK n : n = {s.req.submission}
    OBVIOUS
  <2>2. n \subseteq Submissions
    BY <1>3, <2>1
  <2> QED
    BY <1>4, <1>5, <2>1, <2>2, BagIsSession
<1>7. r.session = Handle(e, TRUE)
  BY <1>2, <1>5 DEF Flashed, Handle, Bag
<1>8. ~I!IsErr(r.outcome)
  BY <1>2, OkFields
<1>9. I!CellAfter(r, d) = e /\ r.session # None
  BY <1>6, <1>7, <1>8, Stored
<1>10. DueAfter(s, r, owed) = s.req.submission
  BY <1>8, <1>9 DEF DueAfter, Bounced
<1>11. ~IsPage(s, r)
  BY <1>2, SubmitsKeeps DEF IsPage
<1>12. s.req.submission # None
  BY <1>3, NoneAssumption
<1>13. History(e, s.req.submission, shown)
  BY <1>3, <1>6, <1>12 DEF History
<1> QED
  BY <1>1, <1>9, <1>10, <1>11, <1>13

LEMMA SubmittedHistory ==
    ASSUME NEW s, NEW t, NEW d, NEW v, PageService(s, t, d, v), Submits(s.req), ~Bounced(s),
           NEW owed, NEW shown, History(d, owed, shown)
    PROVE  History(I!CellAfter(Left(s), d), DueAfter(s, Left(s), owed),
                   IF IsPage(s, Left(s)) THEN s.req.path ELSE shown)
<1>1. ~I!Stale(s.req, v) /\ ~I!IsGet(s.req) /\ Kept(s.req, d) = Opened(d)
  BY SubmitsKeeps
<1>2. Left(s) = s.ctx /\ s.ctx.session = Opened(d) /\ Outcome(s.req, s.ctx.outcome, d, v)
  BY <1>1, LeftPlain DEF PageService
<1>3. ~IsPage(s, Left(s))
  BY <1>1 DEF IsPage
<1>4. CASE I!IsErr(s.ctx.outcome)
  <2>1. I!CellAfter(Left(s), d) = d /\ DueAfter(s, Left(s), owed) = owed
    BY <1>2, <1>4 DEF I!CellAfter, DueAfter
  <2> QED
    BY <1>3, <2>1
<1>5. CASE ~I!IsErr(s.ctx.outcome)
  <2>1. \E x : s.ctx.outcome = I!Ok(x)
    <3>1. ASSUME NEW k \in {"bad-request", "validation"}, NEW f
          PROVE  I!IsErr(I!Err(k, f))
      BY DEF I!IsErr, I!Err
    <3> QED
      BY <1>2, <1>5, <3>1 DEF Outcome, PageAnswer
  <2>2. PICK x : s.ctx.outcome = I!Ok(x)
    BY <2>1
  <2> QED
    BY <1>2, <1>3, <2>2, PassingHistory
<1> QED
  BY <1>4, <1>5

LEMMA AnsweredHistory ==
    ASSUME NEW s, NEW t, NEW d, NEW v, PageService(s, t, d, v),
           NEW owed, NEW shown, History(d, owed, shown)
    PROVE  History(I!CellAfter(Left(s), d), DueAfter(s, Left(s), owed),
                   IF IsPage(s, Left(s)) THEN s.req.path ELSE shown)
<1>1. Loads(s.req) \/ Submits(s.req)
  BY DEF PageService, Sent
<1> QED
  BY <1>1, StaleHistory, LoadedHistory, BouncedHistory, SubmittedHistory

-----------------------------------------------------------------------------
(***************************************************************************)
(* What a tab is sent, and what it makes of it                             *)
(***************************************************************************)

Given(p) == [status |-> 200, location |-> None, page |-> p]

Reloaded(s, v, w) == Loads(s.req) /\ I!Stale(s.req, v) /\ w = I!Reload(s.req.path)
GivenPage(s, d, v, w) ==
    /\ s.req.path \in {Home, Posts} /\ ~I!Stale(s.req, v)
    /\ \E component \in Components : w = Given(PageOf(s.req, d, v, component))
Redirected(s, w) == Submits(s.req) /\ \E url \in {Home, Posts} : w = I!Redirect(url)
Blamed(s, w) == Submits(s.req) /\ \E status \in {400, 422} : w = I!Response(status)

LEMMA WrittenOk ==
    ASSUME NEW x
    PROVE  Written(I!Ok(x)) = x
BY OkFields DEF Written

LEMMA WrittenErr ==
    ASSUME NEW k \in {"bad-request", "validation"}, NEW f
    PROVE  \E status \in {400, 422} : Written(I!Err(k, f)) = I!Response(status)
<1>1. PICK o : o = I!Err(k, f)
  OBVIOUS
<1>2. o.kind = k /\ I!IsErr(o)
  BY <1>1 DEF I!Err, I!IsErr
<1>3. I!StatusOf(k) \in {400, 422}
  <2>1. k = "bad-request" => I!StatusOf(k) = 400
    BY DEF I!StatusOf
  <2>2. k = "validation" => I!StatusOf(k) = 422
    BY DEF I!StatusOf
  <2> QED
    BY <2>1, <2>2
<1>4. PICK status \in {400, 422} : status = I!StatusOf(k)
  BY <1>3
<1>5. Written(o) = I!Response(status)
  BY <1>2, <1>4 DEF Written
<1> QED
  BY <1>1, <1>4, <1>5

LEMMA BackIsPage ==
    ASSUME NEW req, Submits(req), NEW d, Session(d)
    PROVE  Back(req, d) \in {Home, Posts}
BY SubmitsKeeps DEF Session

LEMMA Wire ==
    ASSUME NEW s, NEW t, NEW d, NEW v, PageService(s, t, d, v), Session(d),
           NEW w, w = Written(Left(s).outcome)
    PROVE  Reloaded(s, v, w) \/ GivenPage(s, d, v, w) \/ Redirected(s, w) \/ Blamed(s, w)
<1>1. CASE I!Stale(s.req, v)
  <2>1. PICK x : x = I!Reload(s.req.path)
    OBVIOUS
  <2>2. Left(s).outcome = I!Ok(x)
    BY <1>1, <2>1, LeftStale DEF PageService
  <2>3. w = x
    BY <2>2, WrittenOk
  <2>4. Loads(s.req)
    BY <1>1, SubmitsKeeps DEF PageService, Sent
  <2> QED
    BY <1>1, <2>1, <2>3, <2>4 DEF Reloaded
<1>2. CASE Bounced(s)
  <2>1. PICK url, x : url = Back(s.req, d) /\ x = I!Redirect(url)
    OBVIOUS
  <2>2. Submits(s.req) /\ Left(s).outcome = I!Ok(x)
    BY <1>2, <2>1, LeftBounced
  <2>3. w = x
    BY <2>2, WrittenOk
  <2>4. url \in {Home, Posts}
    BY <2>1, <2>2, BackIsPage
  <2> QED
    BY <2>1, <2>2, <2>3, <2>4 DEF Redirected
<1>3. ASSUME ~I!Stale(s.req, v), ~Bounced(s)
      PROVE  GivenPage(s, d, v, w) \/ Redirected(s, w) \/ Blamed(s, w)
  <2>1. PICK o : o = s.ctx.outcome
    OBVIOUS
  <2>2. w = Written(o) /\ Outcome(s.req, o, d, v)
    BY <1>3, <2>1, LeftPlain DEF PageService
  <2>3. ASSUME NEW component \in Components, s.req.path \in {Home, Posts},
               o = PageAnswer(PageOf(s.req, d, v, component))
        PROVE  GivenPage(s, d, v, w)
    <3>1. PICK x : x = Given(PageOf(s.req, d, v, component))
      OBVIOUS
    <3>2. o = I!Ok(x)
      BY <2>3, <3>1 DEF PageAnswer, Given
    <3>3. w = x
      BY <2>2, <3>2, WrittenOk
    <3> QED
      BY <1>3, <2>3, <3>1, <3>3 DEF GivenPage
  <2>4. ASSUME Loads(s.req), o = PageAnswer(PageOf(s.req, d, v, IF s.req.path = Home THEN "Home" ELSE "Posts"))
        PROVE  GivenPage(s, d, v, w)
    <3>1. PICK component : component = IF s.req.path = Home THEN "Home" ELSE "Posts"
      OBVIOUS
    <3>2. component \in Components
      BY <3>1 DEF Components
    <3>3. s.req.path \in {Home, Posts}
      BY <2>4 DEF Loads
    <3> QED
      BY <2>3, <2>4, <3>1, <3>2, <3>3
  <2>5. ASSUME Submits(s.req), s.req.method = "POST", o = PageAnswer(PageOf(s.req, d, v, "Posts/Show"))
        PROVE  GivenPage(s, d, v, w)
    <3>1. s.req.path = Posts
      BY <2>5 DEF Submits
    <3> QED
      BY <2>3, <2>5, <3>1 DEF Components
  <2>6. ASSUME Submits(s.req), NEW k \in {"bad-request", "validation"}, NEW f, o = I!Err(k, f)
        PROVE  Blamed(s, w)
    BY <2>2, <2>6, WrittenErr DEF Blamed
  <2>7. ASSUME Submits(s.req), o = I!Ok(I!Redirect(Posts))
        PROVE  Redirected(s, w)
    <3>1. PICK x : x = I!Redirect(Posts)
      OBVIOUS
    <3>2. w = x
      BY <2>2, <2>7, <3>1, WrittenOk
    <3> QED
      BY <2>7, <3>1, <3>2 DEF Redirected
  <2>8. Outcome(s.req, o, d, v)
    BY <2>2
  <2> QED
    BY <2>4, <2>5, <2>6, <2>7, <2>8 DEF Outcome
<1> QED
  BY <1>1, <1>2, <1>3

Whole(page) == page.props = {"errors"} \cup PropsOf(page.component)
PageShown(component, props, v) == [component |-> component, props |-> props, version |-> v]

\* A tab and the page it shows: of the assets it loaded, and complete.
Tab(t) ==
    /\ t = [page |-> t.page, assets |-> t.assets, todo |-> t.todo]
    /\ IF t.page = None THEN t.assets = None
       ELSE t.assets \in {1, 2} /\ t.page.version = t.assets /\ Whole(t.page)
    /\ t.todo # None => Sent(t.todo, t) /\ Loads(t.todo)

LEMMA PropsAreProps ==
    ASSUME NEW component \in Components
    PROVE  {"errors"} \cup PropsOf(component) \subseteq Props
BY DEF Props

LEMMA PageIsSomething ==
    ASSUME NEW req, req.path \in {Home, Posts}, req.inertia \in BOOLEAN,
           NEW d, Session(d), NEW v \in {1, 2}, NEW component \in Components
    PROVE  PageOf(req, d, v, component) # None
<1>1. PICK p : p = PageOf(req, d, v, component)
  OBVIOUS
<1>2. PICK merged : merged = {"errors"} \cup PropsOf(component)
  OBVIOUS
<1>3. merged \subseteq Props
  BY <1>2, PropsAreProps
<1>4. p.props \subseteq Props /\ p.errors \subseteq Submissions
  <2>1. /\ p.props = merged \/ p.props = merged \cap req.only
        /\ p.errors = d.next \/ p.errors = {}
    BY <1>1, <1>2 DEF PageOf
  <2> QED
    BY <1>3, <2>1 DEF Session
<1>7. p.component = component /\ p.url = req.path /\ p.version = v /\ p.json = req.inertia
  BY <1>1 DEF PageOf
<1>8. p = [component |-> p.component, props |-> p.props, errors |-> p.errors,
           url |-> p.url, version |-> p.version, json |-> p.json]
  BY <1>1 DEF PageOf
<1>6. p \in [component : Components, props : SUBSET Props, errors : SUBSET Submissions,
             url : {Home, Posts, Post}, version : {1, 2}, json : BOOLEAN]
  BY <1>4, <1>7, <1>8
<1> QED
  BY <1>1, <1>6, NoneAssumption

LEMMA ShownIsSomething ==
    ASSUME NEW component \in Components, NEW v \in {1, 2},
           NEW props, props = {"errors"} \cup PropsOf(component)
    PROVE  PageShown(component, props, v) # None /\ Whole(PageShown(component, props, v))
<1>1. PICK p : p = PageShown(component, props, v)
  OBVIOUS
<1>2. p.component = component /\ p.props = props
  BY <1>1 DEF PageShown
<1>3. props \subseteq Props
  BY PropsAreProps
<1>4. p \in [component : Components, props : SUBSET Props, version : {1, 2}]
  BY <1>1, <1>3 DEF PageShown
<1> QED
  BY <1>1, <1>2, <1>4, NoneAssumption DEF Whole

LEMMA TabPage ==
    ASSUME NEW t, Tab(t), NEW page, NEW v
    PROVE  /\ LET u == [t EXCEPT !.page = page, !.assets = v]
              IN  u = [page |-> page, assets |-> v, todo |-> t.todo]
           /\ LET u == [t EXCEPT !.page = page]
              IN  u = [page |-> page, assets |-> t.assets, todo |-> t.todo]
           /\ LET u == [t EXCEPT !.todo = page]
              IN  u = [page |-> t.page, assets |-> t.assets, todo |-> page]
<1>1. PICK x, y, z : x = t.page /\ y = t.assets /\ z = t.todo
  OBVIOUS
<1>2. t = [page |-> x, assets |-> y, todo |-> z]
  BY <1>1 DEF Tab
<1>3. PICK t1 : t1 = [t EXCEPT !.page = page]
  OBVIOUS
<1>4. t1 = [page |-> page, assets |-> y, todo |-> z]
  BY <1>2, <1>3
<1>5. [t1 EXCEPT !.assets = v] = [page |-> page, assets |-> v, todo |-> z]
  BY <1>4
<1>6. [t EXCEPT !.todo = page] = [page |-> x, assets |-> y, todo |-> page]
  BY <1>2
<1> QED
  BY <1>1, <1>3, <1>4, <1>5, <1>6

LEMMA SentTo ==
    ASSUME NEW t, NEW u, u.page = t.page, u.assets = t.assets, NEW r, Sent(r, t)
    PROVE  Sent(r, u)
BY DEF Sent

LEMMA TodoTab ==
    ASSUME NEW t, Tab(t), NEW req, Sent(req, t), Loads(req)
    PROVE  Tab([t EXCEPT !.todo = req])
<1>1. PICK u : u = [page |-> t.page, assets |-> t.assets, todo |-> req]
  OBVIOUS
<1>2. [t EXCEPT !.todo = req] = u
  BY <1>1, TabPage
<1>3. u.page = t.page /\ u.assets = t.assets /\ u.todo = req
  BY <1>1
<1>4. Sent(req, u)
  BY <1>3, SentTo
<1> QED
  BY <1>1, <1>2, <1>3, <1>4 DEF Tab

LEMMA PageTab ==
    ASSUME NEW t, Tab(t), t.todo = None, NEW component \in Components, NEW v \in {1, 2},
           NEW props, props = {"errors"} \cup PropsOf(component)
    PROVE  /\ Tab([t EXCEPT !.page = PageShown(component, props, v), !.assets = v])
           /\ t.assets = v => Tab([t EXCEPT !.page = PageShown(component, props, v)])
<1>1. PICK page : page = PageShown(component, props, v)
  OBVIOUS
<1>2. PICK u : u = [page |-> page, assets |-> v, todo |-> t.todo]
  OBVIOUS
<1>3. page # None /\ Whole(page)
  BY <1>1, ShownIsSomething
<1>4. page.version = v
  BY <1>1 DEF PageShown
<1>5. u.page = page /\ u.assets = v /\ u.todo = None
  BY <1>2
<1>6. Tab(u)
  BY <1>2, <1>3, <1>4, <1>5 DEF Tab
<1> QED
  BY <1>1, <1>2, <1>6, TabPage

LEMMA FollowSent ==
    ASSUME NEW t, NEW req, Sent(req, t), Submits(req), NEW url \in {Home, Posts}
    PROVE  Sent(Follow(req, url), t) /\ Loads(Follow(req, url))
<1>1. PICK get : get = "GET"
  OBVIOUS
<1>2. PICK r1 : r1 = [req EXCEPT !.method = get]
  OBVIOUS
<1>3. PICK r2 : r2 = [r1 EXCEPT !.path = url]
  OBVIOUS
<1>4. PICK r3 : r3 = [r2 EXCEPT !.body = None]
  OBVIOUS
<1>5. PICK r4 : r4 = [r3 EXCEPT !.submission = None]
  OBVIOUS
<1>6. IsRequest(r1) /\ r1.method = get /\ r1.token = req.token /\ r1.inertia = req.inertia
      /\ r1.version = req.version /\ r1.partial = req.partial
  BY <1>2 DEF Sent, IsRequest
<1>7. IsRequest(r2) /\ r2.method = get /\ r2.path = url /\ r2.token = req.token
      /\ r2.inertia = req.inertia /\ r2.version = req.version /\ r2.partial = req.partial
  BY <1>3, <1>6 DEF IsRequest
<1>8. IsRequest(r3) /\ r3.method = get /\ r3.path = url /\ r3.token = req.token
      /\ r3.inertia = req.inertia /\ r3.version = req.version /\ r3.partial = req.partial
  BY <1>4, <1>7 DEF IsRequest
<1>9. IsRequest(r4) /\ r4.method = get /\ r4.path = url /\ r4.token = req.token
      /\ r4.inertia = req.inertia /\ r4.version = req.version /\ r4.partial = req.partial
  BY <1>5, <1>8 DEF IsRequest
<1>10. Loads(r4)
  BY <1>1, <1>9 DEF Loads
<1>11. Sent(r4, t)
  BY <1>9, <1>10 DEF Sent
<1>12. r4 = Follow(req, url)
  BY <1>1, <1>2, <1>3, <1>4, <1>5 DEF Follow
<1> QED
  BY <1>10, <1>11, <1>12

LEMMA ReloadedTab ==
    ASSUME setting.browser, NEW t, Tab(t), NEW s, NEW v, NEW w, Reloaded(s, v, w)
    PROVE  Tab(Received(t, s.req, w))
<1>1. PICK url : url = s.req.path
  OBVIOUS
<1>2. url \in {Home, Posts} /\ w.status = 409 /\ w.location = url /\ w.page = None
  BY <1>1, ResponseFields DEF Reloaded, Loads
<1>3. PICK r : r = Request("GET", url)
  OBVIOUS
<1>4. Sent(r, t) /\ Loads(r)
  BY <1>2, <1>3, GetSent
<1>5. Received(t, s.req, w) = [t EXCEPT !.todo = r]
  BY <1>2, <1>3 DEF Received
<1> QED
  BY <1>4, <1>5, TodoTab

LEMMA RedirectedTab ==
    ASSUME setting.browser, NEW t, Tab(t), NEW s, Sent(s.req, t), NEW w, Redirected(s, w)
    PROVE  Tab(Received(t, s.req, w))
<1>1. PICK url \in {Home, Posts} : w = I!Redirect(url)
  BY DEF Redirected
<1>2. w.status = 303 /\ w.location = url /\ w.page = None
  BY <1>1, ResponseFields
<1>3. PICK req, r : req = s.req /\ r = Follow(req, url)
  OBVIOUS
<1>4. Sent(r, t) /\ Loads(r)
  BY <1>3, FollowSent DEF Redirected
<1>5. Received(t, s.req, w) = [t EXCEPT !.todo = r]
  BY <1>2, <1>3 DEF Received
<1> QED
  BY <1>4, <1>5, TodoTab

LEMMA BlamedTab ==
    ASSUME setting.browser, NEW t, Tab(t), t.todo = None, NEW s, NEW w, Blamed(s, w)
    PROVE  Tab(Received(t, s.req, w))
<1>1. PICK status \in {400, 422} : w = I!Response(status)
  BY DEF Blamed
<1>2. w.status = status /\ w.page = None
  BY <1>1 DEF I!Response
<1>3. PICK u : u = [t EXCEPT !.page = None, !.assets = None]
  OBVIOUS
<1>4. u = [page |-> None, assets |-> None, todo |-> t.todo]
  <2>1. PICK n : n = None
    OBVIOUS
  <2>2. PICK t1 : t1 = [t EXCEPT !.page = n]
    OBVIOUS
  <2>5. t = [page |-> t.page, assets |-> t.assets, todo |-> t.todo]
    BY DEF Tab
  <2>3. t1 = [page |-> n, assets |-> t.assets, todo |-> t.todo]
    BY <2>2, <2>5
  <2>4. [t1 EXCEPT !.assets = n] = [page |-> n, assets |-> n, todo |-> t.todo]
    BY <2>3
  <2> QED
    BY <1>3, <2>1, <2>2, <2>4
<1>5. Tab(u)
  BY <1>4 DEF Tab
<1>6. Received(t, s.req, w) = t \/ Received(t, s.req, w) = u
  BY <1>2, <1>3 DEF Received
<1> QED
  BY <1>5, <1>6

LEMMA GivenTab ==
    ASSUME setting.browser, NEW t, Tab(t), t.todo = None, NEW s, Sent(s.req, t),
           NEW d, Session(d), NEW v \in {1, 2}, NEW w, GivenPage(s, d, v, w)
    PROVE  Tab(Received(t, s.req, w))
<1>1. PICK req : req = s.req
  OBVIOUS
<1>2. PICK component \in Components : w = Given(PageOf(req, d, v, component))
  BY <1>1 DEF GivenPage
<1>3. PICK p : p = PageOf(req, d, v, component)
  OBVIOUS
<1>4. req.path \in {Home, Posts} /\ req.inertia \in BOOLEAN /\ Sent(req, t)
  BY <1>1 DEF GivenPage, Sent
<1>5. w.page = p /\ p # None
  BY <1>2, <1>3, <1>4, PageIsSomething DEF Given
<1>6. Received(t, req, w) = Shown(t, req, p)
  BY <1>5 DEF Received
<1>7. PICK whole : whole = {"errors"} \cup PropsOf(component)
  OBVIOUS
<1>8. /\ p.component = component /\ p.url = req.path /\ p.version = v /\ p.json = req.inertia
      /\ p.props = IF I!ComponentMatches(req, component) THEN whole \cap req.only ELSE whole
  BY <1>3, <1>7 DEF PageOf
<1>9. CASE ~p.json
  <2>1. p.props = whole
    BY <1>4, <1>8, <1>9 DEF Sent, I!ComponentMatches, I!IsPartial
  <2>2. Shown(t, req, p) = [t EXCEPT !.page = PageShown(component, whole, v), !.assets = v]
    BY <1>8, <1>9, <2>1 DEF Shown, PageShown
  <2>3. Tab([t EXCEPT !.page = PageShown(component, whole, v), !.assets = v])
    BY <1>7, PageTab
  <2> QED
    BY <1>1, <1>6, <2>2, <2>3
<1>10. ASSUME p.json, v # t.assets
       PROVE  Tab(Shown(t, req, p))
  <2>1. PICK r : r = Request("GET", req.path)
    OBVIOUS
  <2>2. Sent(r, t) /\ Loads(r)
    BY <1>4, <2>1, GetSent
  <2>3. Shown(t, req, p) = [t EXCEPT !.todo = r]
    BY <1>8, <1>10, <2>1 DEF Shown
  <2> QED
    BY <2>2, <2>3, TodoTab
<1>11. ASSUME p.json, v = t.assets, NEW props, props = whole,
              Shown(t, req, p) = [t EXCEPT !.page = PageShown(component, props, v)]
       PROVE  Tab(Shown(t, req, p))
  <2>1. t.assets = v /\ props = {"errors"} \cup PropsOf(component)
    BY <1>7, <1>11
  <2>2. Tab([t EXCEPT !.page = PageShown(component, props, v)])
    BY <2>1, PageTab
  <2> QED
    BY <1>11, <2>2
<1>12. ASSUME p.json, v = t.assets, I!IsPartial(req), component = t.page.component
       PROVE  Tab(Shown(t, req, p))
  <2>1. PICK props : props = p.props \cup t.page.props
    OBVIOUS
  <2>2. t.page # None
    BY <1>4, <1>8, <1>12 DEF Sent
  <2>3. t.page.props = whole
    BY <1>7, <1>12, <2>2 DEF Tab, Whole
  <2>4. props = whole
    BY <1>8, <2>1, <2>3
  <2>5. Shown(t, req, p) = [t EXCEPT !.page = PageShown(component, props, v)]
    BY <1>8, <1>12, <2>1 DEF Shown, PageShown
  <2> QED
    BY <1>11, <1>12, <2>4, <2>5
<1>13. ASSUME p.json, v = t.assets, ~(I!IsPartial(req) /\ component = t.page.component)
       PROVE  Tab(Shown(t, req, p))
  <2>1. p.props = whole
    BY <1>4, <1>8, <1>13 DEF Sent, I!ComponentMatches, I!IsPartial
  <2>2. Shown(t, req, p) = [t EXCEPT !.page = PageShown(component, whole, v)]
    BY <1>8, <1>13, <2>1 DEF Shown, PageShown
  <2> QED
    BY <1>11, <1>13, <2>2
<1> QED
  BY <1>1, <1>6, <1>9, <1>10, <1>12, <1>13

-----------------------------------------------------------------------------
(***************************************************************************)
(* The invariant of the whole application                                  *)
(***************************************************************************)

\* A browser's requests wait for each other, and what it asked for is
\* answered for the page it shows, the session and the assets there are.
PageServings ==
    /\ DOMAIN serving = Actors /\ (serving[1] = Idle \/ serving[2] = Idle)
    /\ \A a \in Actors : \/ serving[a] = Idle
                         \/ PageService(serving[a], tab[a], cells[1], version) /\ tab[a].todo = None

Servings == IF setting.browser THEN PageServings ELSE ApiServings /\ ApiTabs

Clients ==
    /\ DOMAIN cells = Actors /\ DOMAIN due = Actors /\ DOMAIN last = Actors
    /\ \A c \in Actors : History(cells[c], due[c], last[c])

Tabs == DOMAIN tab = Actors /\ \A a \in Actors : Tab(tab[a])

Site == setting \in Settings /\ version \in {1, 2} /\ Clients /\ Tabs /\ Servings

LEMMA BrowserOrNot ==
    ASSUME setting \in Settings
    PROVE  setting.browser \in BOOLEAN /\ \A a \in Actors : setting.browser => ClientOf(a) = 1
BY StackAssumption DEF ClientOf

LEMMA EmptyHistory == History(I!S!EmptyData, None, Home)
<1>1. PICK e, vals : e = I!S!EmptyData /\ vals = e.vals
  OBVIOUS
<1>2. vals = [k \in {I!PREVIOUS_URL} |-> None] /\ e = Bag({}, {}, vals)
  BY <1>1 DEF I!S!EmptyData, Bag
<1>3. vals[I!PREVIOUS_URL] = None
  BY <1>2
<1>4. Valued(vals)
  BY <1>2, <1>3 DEF Valued
<1>5. Session(e) /\ e.next = {} /\ e.vals = vals
  <2>1. PICK n : n = {}
    OBVIOUS
  <2>2. n \subseteq Submissions
    BY <2>1
  <2> QED
    BY <1>2, <1>4, <2>1, <2>2, BagIsSession
<1> QED
  BY <1>1, <1>3, <1>5 DEF History

LEMMA BlankTab == Tab(Blank) /\ Blank.page = None /\ Blank.todo = None
BY DEF Tab, Blank

LEMMA InitSite == Init => Site
<1>1. SUFFICES ASSUME Init PROVE Site
  OBVIOUS
<1>2. setting \in Settings /\ version \in {1, 2}
  BY <1>1 DEF Init
<1>3. Clients
  BY <1>1, EmptyHistory DEF Init, Clients
<1>4. Tabs /\ ApiTabs /\ \A a \in Actors : serving[a] = Idle
  BY <1>1, BlankTab DEF Init, Tabs, ApiTabs
<1>5. DOMAIN serving = Actors
  BY <1>1 DEF Init
<1>6. PageServings /\ ApiServings
  BY <1>4, <1>5 DEF PageServings, ApiServings, Serves, Actors
<1> QED
  BY <1>2, <1>3, <1>4, <1>6 DEF Site, Servings

LEMMA DeploySite ==
    ASSUME Site, Deploy
    PROVE  Site'
<1>1. PICK durable \in BOOLEAN :
         LET kept(f, empty) == IF durable THEN f ELSE [c \in Actors |-> empty]
         IN /\ cells' = kept(cells, I!S!EmptyData)
            /\ due' = kept(due, None)
            /\ last' = kept(last, Home)
  BY Zenon DEF Deploy
<1>2. Clients'
  <2>1. CASE durable
    <3>1. cells' = cells /\ due' = due /\ last' = last
      BY <1>1, <2>1
    <3> QED
      BY <3>1 DEF Clients, Site
  <2>2. CASE ~durable
    <3>1. PICK e : e = I!S!EmptyData
      OBVIOUS
    <3>2. /\ cells' = [c \in Actors |-> e] /\ due' = [c \in Actors |-> None]
          /\ last' = [c \in Actors |-> Home]
      BY <1>1, <2>2, <3>1
    <3>3. History(e, None, Home)
      BY <3>1, EmptyHistory
    <3> QED
      BY <3>2, <3>3 DEF Clients
  <2> QED
    BY <2>1, <2>2
<1>3. ApiServings' /\ (\A a \in Actors : serving'[a] = Idle)
      /\ UNCHANGED <<setting, users, teams, nextId, tab>>
  BY DeployIdles
<1>4. DOMAIN serving' = Actors
  BY <1>3 DEF ApiServings
<1>5. version' \in {1, 2}
  BY DEF Deploy, Site
<1>6. PageServings'
  BY <1>3, <1>4 DEF PageServings, Actors
<1>7. Servings'
  BY <1>3, <1>6 DEF Servings, Site, ApiTabs
<1> QED
  BY <1>2, <1>3, <1>5, <1>7 DEF Site, Tabs

LEMMA FreeOfBrowser ==
    ASSUME setting \in Settings, setting.browser, NEW a \in Actors, Free(a)
    PROVE  \A b \in Actors : serving[b] = Idle
BY DEF Free, ClientOf

\* A browser's request is taken up.
LEMMA WebTake ==
    ASSUME Site, setting.browser, NEW a \in Actors, Free(a), NEW req, Take(a, req),
           NEW t, Sent(req, t), tab'[a] = t, t.todo = None,
           UNCHANGED <<setting, version, cells>>
    PROVE  PageServings'
<1>1. (\A b \in Actors : serving[b] = Idle) /\ DOMAIN serving = Actors /\ DOMAIN tab = Actors
  BY FreeOfBrowser DEF Site, Servings, PageServings, Tabs
<1>2. ClientOf(a) = 1 /\ version \in {1, 2} /\ Session(cells[1])
  BY BrowserOrNot DEF Site, Clients, History, Actors
<1>3. PICK d, v : d = cells[1] /\ v = version
  OBVIOUS
<1>4. PICK u : u = TakenUp(a, req)
  OBVIOUS
<1>5. PageService(u, t, d, v)
  BY <1>2, <1>3, <1>4, PagesUp
<1>6. serving' = [serving EXCEPT ![a] = u]
  BY <1>4 DEF Take
<1>7. /\ DOMAIN serving' = Actors /\ serving'[a] = u
      /\ \A b \in Actors : b # a => serving'[b] = Idle
  BY <1>1, <1>6
<1>8. serving'[1] = Idle \/ serving'[2] = Idle
  BY <1>7 DEF Actors
<1>9. PageService(serving'[a], tab'[a], cells'[1], version')
  BY <1>3, <1>5, <1>7
<1> QED
  BY <1>7, <1>8, <1>9 DEF PageServings

LEMMA WebSend ==
    ASSUME Site, setting.browser, NEW a \in Actors, Send(a)
    PROVE  Site'
<1>1. PICK req \in Wanted(a) : Take(a, req)
  BY DEF Send
<1>2. /\ Free(a) /\ tab[a].todo = None
      /\ UNCHANGED <<setting, version, cells, tab, due, last>>
  BY DEF Send
<1>3. PICK t : t = tab[a]
  OBVIOUS
<1>4. Tab(t)
  BY <1>3 DEF Site, Tabs
<1>5. Sent(req, t)
  <2>1. Wanted(a) = BrowserRequests(a)
    BY DEF Wanted
  <2>2. t.page # None => t.page.version = t.assets
    BY <1>4 DEF Tab
  <2> QED
    BY <1>1, <1>3, <2>1, <2>2, BrowserRequestsSent
<1>6. PageServings'
  <2>1. tab'[a] = t
    BY <1>2, <1>3
  <2> QED
    BY <1>1, <1>2, <1>3, <1>5, <2>1, WebTake
<1> QED
  BY <1>2, <1>6 DEF Site, Servings, Clients, Tabs

LEMMA FollowedTab ==
    ASSUME NEW t, Tab(t), NEW r, Sent(r, t)
    PROVE  LET u == [t EXCEPT !.todo = None]
           IN  Tab(u) /\ Sent(r, u) /\ u.todo = None
<1>1. PICK u : u = [page |-> t.page, assets |-> t.assets, todo |-> None]
  OBVIOUS
<1>2. u.page = t.page /\ u.assets = t.assets /\ u.todo = None
  BY <1>1
<1>3. Sent(r, u) /\ Tab(u)
  BY <1>1, <1>2, SentTo DEF Tab
<1>4. [t EXCEPT !.todo = None] = u
  <2>1. t = [page |-> t.page, assets |-> t.assets, todo |-> t.todo]
    BY DEF Tab
  <2> QED
    BY <1>1, <2>1
<1> QED
  BY <1>2, <1>3, <1>4

LEMMA WebFollowUp ==
    ASSUME Site, setting.browser, NEW a \in Actors, FollowUp(a)
    PROVE  Site'
<1>1. PICK t, req : t = tab[a] /\ req = t.todo
  OBVIOUS
<1>2. PICK u : u = [t EXCEPT !.todo = None]
  OBVIOUS
<1>3. /\ Free(a) /\ req # None /\ Take(a, req) /\ tab' = [tab EXCEPT ![a] = u]
      /\ UNCHANGED <<setting, version, cells, due, last>>
  BY <1>1, <1>2 DEF FollowUp
<1>4. Tab(t) /\ DOMAIN tab = Actors
  BY <1>1 DEF Site, Tabs
<1>5. Sent(req, t)
  BY <1>1, <1>3, <1>4 DEF Tab
<1>6. Tab(u) /\ Sent(req, u) /\ u.todo = None
  BY <1>2, <1>4, <1>5, FollowedTab
<1>9. tab'[a] = u
  BY <1>3, <1>4
<1>7. PageServings'
  BY <1>3, <1>6, <1>9, WebTake
<1>8. Tabs'
  BY <1>3, <1>6 DEF Site, Tabs
<1> QED
  BY <1>3, <1>7, <1>8 DEF Site, Servings, Clients

LEMMA WebAnswer ==
    ASSUME Site, setting.browser, NEW a \in Actors, Answer(a)
    PROVE  Site'
<1>1. PICK s, t, d, v : s = serving[a] /\ t = tab[a] /\ d = cells[1] /\ v = version
  OBVIOUS
<1>2. PICK r, w : r = Left(s) /\ w = Written(Left(s).outcome)
  OBVIOUS
<1>3. ClientOf(a) = 1 /\ 1 \in Actors /\ PageServings
  BY BrowserOrNot DEF Site, Servings, Actors
<1>4. PageService(s, t, d, v) /\ t.todo = None
  <2>1. s # Idle
    BY <1>1, IdlePc DEF Answer, At
  <2> QED
    BY <1>1, <1>3, <2>1 DEF PageServings
<1>5. History(d, due[1], last[1]) /\ Session(d) /\ v \in {1, 2}
  BY <1>1, <1>3 DEF Site, Clients, History
<1>6. PICK d1, o1, l1 : /\ d1 = I!CellAfter(r, d) /\ o1 = DueAfter(s, r, due[1])
                        /\ l1 = IF IsPage(s, r) THEN s.req.path ELSE last[1]
  OBVIOUS
<1>7. History(d1, o1, l1)
  BY <1>2, <1>4, <1>5, <1>6, AnsweredHistory
<1>8. /\ cells' = [cells EXCEPT ![1] = d1] /\ due' = [due EXCEPT ![1] = o1]
      /\ last' = [last EXCEPT ![1] = l1] /\ UNCHANGED <<setting, version>>
  BY <1>1, <1>2, <1>3, <1>6 DEF Answer
<1>9. Clients'
  BY <1>3, <1>7, <1>8 DEF Site, Clients
<1>10. tab' = [tab EXCEPT ![a] = Received(t, s.req, w)]
  BY <1>1, <1>2 DEF Answer
<1>11. Tab(Received(t, s.req, w))
  <2>1. Reloaded(s, v, w) \/ GivenPage(s, d, v, w) \/ Redirected(s, w) \/ Blamed(s, w)
    BY <1>2, <1>4, <1>5, Wire
  <2>2. Tab(t) /\ Sent(s.req, t)
    BY <1>1, <1>4 DEF Site, Tabs, PageService
  <2> QED
    BY <1>4, <1>5, <2>1, <2>2, ReloadedTab, GivenTab, RedirectedTab, BlamedTab
<1>12. Tabs'
  BY <1>10, <1>11 DEF Site, Tabs
<1>13. \A b \in Actors : serving'[b] = Idle
  <2>1. serving' = [serving EXCEPT ![a] = Idle] /\ DOMAIN serving = Actors
    BY <1>3 DEF Answer, Step, PageServings
  <2>2. \A b \in Actors : b # a => serving[b] = Idle
    <3>1. serving[a] # Idle
      BY IdlePc DEF Answer, At
    <3> QED
      BY <1>3, <3>1 DEF PageServings, Actors
  <2> QED
    BY <2>1, <2>2
<1>14. PageServings'
  <2>1. DOMAIN serving' = Actors
    BY <1>3 DEF Answer, Step, PageServings
  <2> QED
    BY <1>13, <2>1 DEF PageServings, Actors
<1> QED
  BY <1>8, <1>9, <1>12, <1>14 DEF Site, Servings

\* What a browser asks for has no statement left to make.
LEMMA WebStatements ==
    ASSUME Site, setting.browser, NEW a \in Actors
    PROVE  serving[a].pc \in {"idle", "answer"}
BY IdlePc DEF Site, Servings, PageServings, PageService

LEMMA ApiLeft ==
    ASSUME NEW s, ApiService(s)
    PROVE  Left(s) = s.ctx /\ s.ctx.session = None
<1>1. /\ s.ctx.session = None /\ s.ctx.entered \in 0 .. 3
      /\ \A i \in 1 .. s.ctx.entered : s.stack[i] # "inertia"
  BY DEF ApiService, Unwrapped
<1>2. s.ctx.entered \in Nat
  BY <1>1
<1>3. PICK ctx, stack, req : ctx = s.ctx /\ stack = s.stack /\ req = s.req
  OBVIOUS
<1>4. I!Outbound(stack, ctx, req) = ctx
  BY <1>1, <1>2, <1>3, OutboundPlain
<1> QED
  BY <1>1, <1>3, <1>4 DEF Left

\* Without a session an answer leaves the client's history alone.
LEMMA ApiAnswerClients ==
    ASSUME ApiServings, Clients, NEW a \in Actors, Answer(a)
    PROVE  Clients' /\ UNCHANGED <<setting, version, users, teams, nextId>>
<1>1. PICK s, c : s = serving[a] /\ c = ClientOf(a)
  OBVIOUS
<1>2. ApiService(s)
  BY <1>1, IdlePc DEF ApiServings, Serves, Answer, At
<1>3. PICK r : r = Left(s)
  OBVIOUS
<1>4. r.session = None
  BY <1>2, <1>3, ApiLeft
<1>5. I!CellAfter(r, cells[c]) = cells[c] /\ DueAfter(s, r, due[c]) = due[c] /\ ~IsPage(s, r)
  BY <1>4 DEF I!CellAfter, DueAfter, IsPage
<1>6. /\ cells' = [cells EXCEPT ![c] = cells[c]] /\ due' = [due EXCEPT ![c] = due[c]]
      /\ last' = [last EXCEPT ![c] = last[c]] /\ UNCHANGED <<setting, version, users, teams, nextId>>
  BY <1>1, <1>3, <1>5 DEF Answer, tables
<1>7. /\ DOMAIN cells' = Actors /\ DOMAIN due' = Actors /\ DOMAIN last' = Actors
      /\ \A b \in Actors : cells'[b] = cells[b] /\ due'[b] = due[b] /\ last'[b] = last[b]
  BY <1>6 DEF Clients
<1>8. Clients'
  BY <1>7 DEF Clients
<1> QED
  BY <1>6, <1>8

\* The steps a request makes on its own.
Statement(a) ==
    \/ Check(a) \/ RefuseWrite(a) \/ Insert(a) \/ Update(a)
    \/ AfterHooks(a) \/ Find(a) \/ Delete(a)
    \/ Count(a) \/ Fetch(a) \/ LoadTeam(a) \/ All(a) \/ LoadMembers(a)

LEMMA NextIs ==
    Next <=> Deploy \/ \E a \in Actors : Send(a) \/ FollowUp(a) \/ Answer(a) \/ Statement(a)
BY DEF Next, Statement

LEMMA StatementAt ==
    ASSUME NEW a \in Actors, Statement(a)
    PROVE  serving[a].pc \notin {"idle", "answer"} /\ UNCHANGED web
BY DEF Statement, Check, RefuseWrite, Insert, Update, AfterHooks, Find, Delete,
       Count, Fetch, LoadTeam, All, LoadMembers, At

LEMMA StatementServings ==
    ASSUME NEW a \in Actors, ApiServings, Statement(a)
    PROVE  ApiServings'
BY CheckStep, RefuseWriteStep, InsertStep, UpdateStep, AfterHooksStep, FindStep, DeleteStep,
   CountStep, FetchStep, LoadTeamStep, AllStep, LoadMembersStep DEF Statement

LEMMA ApiSend ==
    ASSUME Site, ~setting.browser, NEW a \in Actors, Send(a)
    PROVE  Site'
<1>1. ApiServings /\ ApiTabs
  BY DEF Site, Servings
<1>2. ApiServings'
  BY <1>1, SendStep
<1>3. UNCHANGED <<setting, version, cells, tab, due, last>>
  BY DEF Send
<1> QED
  BY <1>1, <1>2, <1>3 DEF Site, Servings, Clients, Tabs, ApiTabs

LEMMA ApiAnswer ==
    ASSUME Site, ~setting.browser, NEW a \in Actors, Answer(a)
    PROVE  Site'
<1>1. ApiServings /\ ApiTabs /\ Clients
  BY DEF Site, Servings
<1>2. ApiServings' /\ tab' = tab
  BY <1>1, ApiAnswerStep
<1>3. Clients' /\ UNCHANGED <<setting, version>>
  BY <1>1, ApiAnswerClients
<1> QED
  BY <1>1, <1>2, <1>3 DEF Site, Servings, Tabs, ApiTabs

LEMMA ApiStatement ==
    ASSUME Site, ~setting.browser, NEW a \in Actors, Statement(a)
    PROVE  Site'
<1>1. ApiServings /\ ApiTabs
  BY DEF Site, Servings
<1>2. ApiServings'
  BY <1>1, StatementServings
<1>3. UNCHANGED web
  BY StatementAt
<1>4. UNCHANGED <<setting, version, cells, tab, due, last>>
  BY <1>3 DEF web
<1> QED
  BY <1>1, <1>2, <1>4 DEF Site, Servings, Clients, Tabs, ApiTabs

LEMMA ApiFollowsNothing ==
    ASSUME Site, ~setting.browser, NEW a \in Actors
    PROVE  ~FollowUp(a)
BY BlankTab DEF Site, Servings, ApiTabs, FollowUp

LEMMA NextSite == Site /\ [Next]_vars => Site'
<1>1. SUFFICES ASSUME Site, [Next]_vars PROVE Site'
  OBVIOUS
<1>2. CASE UNCHANGED vars
  BY <1>1, <1>2 DEF vars, Site, Clients, Tabs, Servings, PageServings, ApiServings, ApiTabs
<1>3. CASE Deploy
  BY <1>1, <1>3, DeploySite
<1>4. ASSUME NEW a \in Actors, Send(a) \/ FollowUp(a) \/ Answer(a) \/ Statement(a)
      PROVE  Site'
  <2>1. CASE setting.browser
    BY <1>1, <1>4, <2>1, WebSend, WebFollowUp, WebAnswer, WebStatements, StatementAt
  <2>2. CASE ~setting.browser
    BY <1>1, <1>4, <2>2, ApiSend, ApiFollowsNothing, ApiAnswer, ApiStatement
  <2> QED
    BY <2>1, <2>2
<1> QED
  BY <1>1, <1>2, <1>3, <1>4, NextIs

\* Every reachable state of the application is as the parts above say.
THEOREM SiteIsSound == Spec => []Site
<1>1. Init => Site
  BY InitSite
<1>2. Site /\ [Next]_vars => Site'
  BY NextSite
<1> QED
  BY <1>1, <1>2, PTL DEF Spec

-----------------------------------------------------------------------------
(***************************************************************************)
(* What follows of it for the guards, the pages and the forms              *)
(***************************************************************************)

LEMMA AtWorkIs ==
    ASSUME Site, NEW a \in Actors, serving[a] # Idle
    PROVE  /\ setting.browser => /\ PageService(serving[a], tab[a], cells[1], version)
                                 /\ ClientOf(a) = 1 /\ tab[a].todo = None
                                 /\ Session(cells[1]) /\ version \in {1, 2}
                                 /\ History(cells[1], due[1], last[1])
           /\ ~setting.browser => ApiService(serving[a])
<1>1. CASE setting.browser
  <2>1. History(cells[1], due[1], last[1])
    BY DEF Site, Clients, Actors
  <2> QED
    BY <1>1, <2>1, BrowserOrNot DEF Site, Servings, PageServings, History
<1>2. CASE ~setting.browser
  BY <1>2 DEF Site, Servings, ApiServings, Serves
<1> QED
  BY <1>1, <1>2

LEMMA WorkingIs ==
    ASSUME NEW a, Working(a)
    PROVE  serving[a] # Idle
BY IdlePc DEF Working

LEMMA AnsweringIs ==
    ASSUME NEW a, Answering(a)
    PROVE  serving[a] # Idle
BY IdlePc DEF Answering

LEMMA PagePassed ==
    ASSUME NEW s, NEW t, NEW d, NEW v, PageService(s, t, d, v)
    PROVE  Passed(s)
<1>1. s.req.token = None /\ s.ctx.auth = None /\ s.ctx.database = TRUE
  BY DEF PageService, Sent
<1>2. s.action \notin Protected
  BY DEF PageService, PageActions, Protected
<1> QED
  BY <1>1, <1>2 DEF Passed, Enters

LEMMA ApiPassed ==
    ASSUME NEW s, ApiService(s)
    PROVE  Passed(s)
BY DEF ApiService, Acting, Answered, Passed

LEMMA SiteGuards == Site => GuardsBeforeActions
<1>1. SUFFICES ASSUME Site, NEW a \in Actors, Working(a)
      PROVE  LET s == serving[a]
                 required == s.action \in {"users.index", "users.store", "users.update",
                                           "users.destroy", "teams.destroy"}
             IN s.action \in {"none", "static files"} \/ s.ctx.outcome.kind = "unauthorized"
                \/ /\ s.ctx.database
                   /\ required => s.req.token # None
                   /\ IF s.req.token = None THEN s.ctx.auth = None
                      ELSE s.req.token.valid /\ s.ctx.auth = s.req.token.subject
  BY DEF GuardsBeforeActions
<1>2. PICK s : s = serving[a]
  OBVIOUS
<1>3. Passed(s)
  BY <1>1, <1>2, WorkingIs, AtWorkIs, PagePassed, ApiPassed
<1> QED
  BY <1>2, <1>3 DEF Passed, Enters, Protected

\* No action behind a guard starts without the token it requires, verified
\* and as its subject, and none outside the database's scope, whatever the
\* requests and however they overlap (Auth::jwt, on groups and routes).
THEOREM GuardsAreSound == Spec => []GuardsBeforeActions
BY SiteIsSound, SiteGuards, PTL

LEMMA SiteComplete == Site => PagesComplete
BY DEF Site, Tabs, Tab, Whole, PagesComplete

\* A tab has every prop of the page it shows, through partial reloads and
\* deployments (component_matches: inertia.rs).
THEOREM PagesAreComplete == Spec => []PagesComplete
BY SiteIsSound, SiteComplete, PTL

\* An error is written as one.
LEMMA ErrorIsBlamed ==
    ASSUME NEW s, NEW t, NEW d, NEW v, PageService(s, t, d, v), Session(d),
           I!IsErr(Left(s).outcome)
    PROVE  Blamed(s, Written(Left(s).outcome))
<1>1. ~Bounced(s)
  <2>1. ASSUME Bounced(s)
        PROVE  FALSE
    <3>1. PICK x : x = I!Redirect(Back(s.req, d))
      OBVIOUS
    <3>2. Left(s).outcome = I!Ok(x)
      BY <2>1, <3>1, LeftBounced
    <3> QED
      BY <3>2, OkFields
  <2> QED
    BY <2>1
<1>2. Left(s) = s.ctx
  BY <1>1, LeftPlain
<1>3. ~I!Stale(s.req, v)
  <2>1. ASSUME I!Stale(s.req, v)
        PROVE  FALSE
    <3>1. PICK x : x = I!Reload(s.req.path)
      OBVIOUS
    <3>2. s.ctx.outcome = I!Ok(x)
      BY <2>1, <3>1 DEF PageService
    <3> QED
      BY <1>2, <3>2, OkFields
  <2> QED
    BY <2>1
<1>4. PICK o : o = s.ctx.outcome
  OBVIOUS
<1>5. Outcome(s.req, o, d, v) /\ I!IsErr(o)
  BY <1>2, <1>3, <1>4 DEF PageService
<1>6. Submits(s.req) /\ \E k \in {"bad-request", "validation"} : \E f : o = I!Err(k, f)
  BY <1>5, OutcomeKinds
<1>7. PICK k \in {"bad-request", "validation"} : \E f : o = I!Err(k, f)
  BY <1>6
<1>9. PICK f : o = I!Err(k, f)
  BY <1>7
<1>8. PICK status \in {400, 422} : Written(o) = I!Response(status)
  BY <1>9, WrittenErr
<1> QED
  BY <1>2, <1>4, <1>6, <1>8 DEF Blamed

\* What is written tells what was answered.
LEMMA WireStatus ==
    ASSUME NEW s, NEW t, NEW d, NEW v, PageService(s, t, d, v), Session(d),
           NEW w, w = Written(Left(s).outcome)
    PROVE  /\ Submits(s.req) => w.status # 409
           /\ w.status = 200 => /\ GivenPage(s, d, v, w)
                                /\ Left(s).outcome.response = w
<1>1. Blamed(s, w) => w.status \in {400, 422}
  BY DEF Blamed, I!Response
<1>2. Redirected(s, w) => w.status = 303
  BY ResponseFields DEF Redirected
<1>3. Reloaded(s, v, w) => Loads(s.req) /\ w.status = 409
  BY ResponseFields DEF Reloaded
<1>4. GivenPage(s, d, v, w) => w.status = 200
  BY DEF GivenPage, Given
<1>5. Reloaded(s, v, w) \/ GivenPage(s, d, v, w) \/ Redirected(s, w) \/ Blamed(s, w)
  BY Wire
<1>6. ~I!IsErr(Left(s).outcome) => Left(s).outcome.response = w
  BY DEF Written
<1>7. w.status = 200 => ~I!IsErr(Left(s).outcome)
  BY <1>1, ErrorIsBlamed
<1>8. Submits(s.req) => w.status # 409
  BY <1>1, <1>2, <1>3, <1>4, <1>5, NotLoads
<1>9. w.status = 200 => GivenPage(s, d, v, w)
  BY <1>1, <1>2, <1>3, <1>5
<1> QED
  BY <1>6, <1>7, <1>8, <1>9

\* A page that is sent, with what it says.
LEMMA PageSent ==
    ASSUME Site, setting.browser, NEW a \in Actors, Answering(a), HasPage(a)
    PROVE  LET s == serving[a]
               p == PageFor(a)
           IN /\ p.errors = IF "errors" \in p.props THEN cells[1].next ELSE {}
              /\ p.version = version /\ p.json = s.req.inertia
              /\ Sent(s.req, tab[a]) /\ ~I!Stale(s.req, version)
<1>1. PICK s, t, d, v : s = serving[a] /\ t = tab[a] /\ d = cells[1] /\ v = version
  OBVIOUS
<1>2. PageService(s, t, d, v) /\ Session(d)
  BY <1>1, AnsweringIs, AtWorkIs
<1>3. PICK w : w = Written(Left(s).outcome)
  OBVIOUS
<1>4. w.status = 200
  BY <1>1, <1>3 DEF HasPage, StatusFor
<1>5. GivenPage(s, d, v, w) /\ Left(s).outcome.response = w
  BY <1>2, <1>3, <1>4, WireStatus
<1>6. PICK component \in Components : w = Given(PageOf(s.req, d, v, component))
  BY <1>5 DEF GivenPage
<1>7. PICK p : p = PageOf(s.req, d, v, component)
  OBVIOUS
<1>8. PageFor(a) = p
  BY <1>1, <1>5, <1>6, <1>7 DEF PageFor, ResponseFor, Given
<1>9. /\ p.errors = IF "errors" \in p.props THEN d.next ELSE {}
      /\ p.version = v /\ p.json = s.req.inertia
  BY <1>7 DEF PageOf
<1>10. Sent(s.req, t) /\ ~I!Stale(s.req, v)
  BY <1>2, <1>5 DEF PageService, GivenPage
<1> QED
  BY <1>1, <1>8, <1>9, <1>10

LEMMA SiteErrors == Site => ErrorsFollowTheSubmission
<1>1. SUFFICES ASSUME Site, NEW a \in Actors, Answering(a), HasPage(a), setting.browser
      PROVE  PageFor(a).errors =
                IF "errors" \notin PageFor(a).props \/ due[ClientOf(a)] = None THEN {}
                ELSE {due[ClientOf(a)]}
  BY DEF ErrorsFollowTheSubmission
<1>2. PageFor(a).errors = IF "errors" \in PageFor(a).props THEN cells[1].next ELSE {}
  BY <1>1, PageSent
<1>3. ClientOf(a) = 1 /\ cells[1].next = IF due[1] = None THEN {} ELSE {due[1]}
  BY <1>1, AnsweringIs, AtWorkIs DEF History
<1> QED
  BY <1>2, <1>3

\* The errors of a failed form are on the page that answers the first request
\* to succeed after it, and on no other (flash and age_flash: auth.rs,
\* session.rs, inertia.rs).
THEOREM ErrorsAreShownOnce == Spec => []ErrorsFollowTheSubmission
BY SiteIsSound, SiteErrors, PTL

LEMMA SiteDeploys == Site => DeploysCostNoInput
<1>1. SUFFICES ASSUME Site, NEW a \in Actors, Answering(a), setting.browser
      PROVE  /\ HasPage(a) /\ PageFor(a).json /\ serving[a].req.method = "GET" =>
                   PageFor(a).version = tab[a].assets
             /\ serving[a].req.method # "GET" => StatusFor(a) # 409
  BY DEF DeploysCostNoInput
<1>2. ASSUME HasPage(a), PageFor(a).json, serving[a].req.method = "GET"
      PROVE  PageFor(a).version = tab[a].assets
  <2>1. PICK s, p : s = serving[a] /\ p = PageFor(a)
    OBVIOUS
  <2>2. p.version = version /\ p.json = s.req.inertia /\ Sent(s.req, tab[a])
        /\ ~I!Stale(s.req, version)
    BY <1>1, <1>2, <2>1, PageSent
  <2>3. s.req.inertia = TRUE /\ s.req.version = tab[a].assets
    BY <1>2, <2>1, <2>2 DEF Sent
  <2> QED
    BY <1>2, <2>1, <2>2, <2>3 DEF I!Stale, I!IsGet
<1>3. ASSUME serving[a].req.method # "GET"
      PROVE  StatusFor(a) # 409
  <2>1. PICK s, t, d, v : s = serving[a] /\ t = tab[a] /\ d = cells[1] /\ v = version
    OBVIOUS
  <2>2. PageService(s, t, d, v) /\ Session(d)
    BY <1>1, <2>1, AnsweringIs, AtWorkIs
  <2>3. Submits(s.req)
    BY <1>3, <2>1, <2>2 DEF PageService, Sent, Loads
  <2>4. PICK w : w = Written(Left(s).outcome)
    OBVIOUS
  <2>5. w.status # 409
    BY <2>2, <2>3, <2>4, WireStatus
  <2> QED
    BY <2>1, <2>4, <2>5 DEF StatusFor
<1> QED
  BY <1>2, <1>3

\* Wherever deployments fall, a tab stays on the assets it loaded and no form
\* is turned away for being of older ones (the version check: inertia.rs).
THEOREM DeploysAreHarmless == Spec => []DeploysCostNoInput
BY SiteIsSound, SiteDeploys, PTL

LEMMA SiteBounces == Site => BouncesLand
<1>1. ASSUME Site, NEW a \in Actors, Answering(a), serving[a].ctx.outcome.kind = "validation",
             serving[a].req.inertia
      PROVE  StatusFor(a) = 303 /\ ResponseFor(a).location = last[ClientOf(a)]
  <2>1. CASE setting.browser
    <3>1. PICK s, t, d, v : s = serving[a] /\ t = tab[a] /\ d = cells[1] /\ v = version
      OBVIOUS
    <3>2. /\ PageService(s, t, d, v) /\ Session(d) /\ ClientOf(a) = 1
          /\ last[1] = IF d.vals[I!PREVIOUS_URL] = None THEN Home ELSE d.vals[I!PREVIOUS_URL]
      BY <1>1, <2>1, <3>1, AnsweringIs, AtWorkIs DEF History
    <3>3. Bounced(s)
      <4>1. s.req.inertia \in BOOLEAN
        BY <3>2 DEF PageService, Sent
      <4> QED
        BY <1>1, <3>1, <4>1 DEF Bounced
    <3>4. PICK url, x : url = Back(s.req, d) /\ x = I!Redirect(url)
      OBVIOUS
    <3>5. Submits(s.req) /\ Left(s).outcome = I!Ok(x)
      BY <3>2, <3>3, <3>4, LeftBounced
    <3>6. url = last[1]
      BY <3>2, <3>4, <3>5, SubmitsKeeps
    <3>7. x.status = 303 /\ x.location = url
      BY <3>4, ResponseFields
    <3>8. Written(Left(s).outcome) = x /\ Left(s).outcome.response = x
      BY <3>5, WrittenOk, OkFields
    <3> QED
      BY <3>1, <3>2, <3>6, <3>7, <3>8 DEF StatusFor, ResponseFor
  <2>2. CASE ~setting.browser
    <3>1. ApiService(serving[a])
      BY <1>1, <2>2, AnsweringIs, AtWorkIs
    <3> QED
      BY <1>1, <3>1 DEF ApiService, Unwrapped
  <2> QED
    BY <2>1, <2>2
<1>2. ASSUME Site, NEW a \in Actors, tab[a].todo # None
      PROVE  Dispatch(Served, "GET", tab[a].todo.path) # 0
  <2>1. tab[a].todo.path \in {Home, Posts}
    BY <1>2 DEF Site, Tabs, Tab, Loads
  <2>2. Dispatch(Served, "GET", Home) # 0 /\ Dispatch(Served, "GET", Posts) # 0
    BY ServedAssumption DEF Reaches
  <2> QED
    BY <2>1, <2>2
<1> QED
  BY <1>1, <1>2 DEF BouncesLand

\* A failed form bounces to the page the browser was last given, or to the
\* root, and that is always a page there is (PREVIOUS_URL: inertia.rs).
THEOREM BouncesAreToPages == Spec => []BouncesLand
BY SiteIsSound, SiteBounces, PTL

-----------------------------------------------------------------------------
(***************************************************************************)
(* The rows, and what those who are about to write know of them            *)
(***************************************************************************)

Rows ==
    /\ nextId \in Nat \ {0} /\ DOMAIN users \subseteq 1 .. (nextId - 1)
    /\ \A i \in DOMAIN users : users[i].stamped = TRUE /\ users[i].raced \in BOOLEAN
    /\ DOMAIN teams \subseteq Teams

\* Who found an address free, and has not been overtaken, still finds it free.
Watch(s) ==
    s.pc \in {"check", "insert", "update"} =>
        /\ s.work.raced \in BOOLEAN
        /\ s.work.seen /\ s.work.raced = FALSE => FreeFor(s)

Watches == \A a \in Actors : Watch(serving[a])

Data == Rows /\ Watches /\ UniqueUnlessOvertaken

\* A write to one row, of one address.
Wrote(i, email) ==
    \A k \in DOMAIN users' : IF k = i THEN users'[k].email = email
                             ELSE k \in DOMAIN users /\ users'[k] = users[k]

LEMMA RowFields ==
    ASSUME NEW s, NEW team
    PROVE  LET r == BeforeSave(Active(s, team))
           IN  r.email = s.req.body.email /\ r.stamped = TRUE /\ r.raced = s.work.raced
BY DEF BeforeSave, Active

LEMMA WatchKept ==
    ASSUME NEW s, Watch(s), UNCHANGED users
    PROVE  s.pc \in {"check", "insert", "update"} =>
              /\ s.work.raced \in BOOLEAN
              /\ s.work.seen /\ s.work.raced = FALSE =>
                    \A i \in DOMAIN users' : users'[i].email = s.req.body.email =>
                       s.action = "users.update" /\ i = s.req.id
BY DEF Watch, FreeFor

\* The address a service waits to write is free after the write of another
\* that has not overtaken it.
LEMMA NotOvertaken ==
    ASSUME NEW s, Watch(s), s.pc \in {"check", "insert", "update"}, Acts(s),
           NEW i, NEW email, Wrote(i, email),
           ~(/\ s.work.seen /\ s.req.body.email = email
             /\ (s.action = "users.store" \/ s.req.id # i)),
           s.work.seen, s.work.raced = FALSE
    PROVE  \A k \in DOMAIN users' : users'[k].email = s.req.body.email =>
               s.action = "users.update" /\ k = s.req.id
<1>1. SUFFICES ASSUME NEW k \in DOMAIN users', users'[k].email = s.req.body.email
      PROVE  s.action = "users.update" /\ k = s.req.id
  OBVIOUS
<1>2. s.action \in {"users.store", "users.update"}
  BY DEF Acts
<1>3. FreeFor(s)
  BY DEF Watch
<1>4. CASE k = i
  BY <1>1, <1>2, <1>4 DEF Wrote
<1>5. CASE k # i
  BY <1>1, <1>3, <1>5 DEF Wrote, FreeFor
<1> QED
  BY <1>4, <1>5

LEMMA OthersWatch ==
    ASSUME NEW a \in Actors, NEW b \in Actors, b # a, Serves(serving[b]), Watch(serving[b]),
           NEW i, NEW email, Wrote(i, email), serving'[b] = Overtaken(a, email, i)[b]
    PROVE  Watch(serving[b])'
<1>1. PICK s, u : s = serving[b] /\ u = serving'[b]
  OBVIOUS
<1>2. CASE s.pc \in {"check", "insert", "update"}
  <2>1. Acting(s) /\ IsService(s) /\ IsWork(s.work)
    BY <1>1, <1>2, AtWork, ActingFields
  <2>2. Acts(s) /\ Watch(s)
    BY <1>1, <2>1 DEF Acting
  <2>3. CASE /\ s.work.seen /\ s.req.body.email = email
             /\ (s.action = "users.store" \/ s.req.id # i)
    <3>1. PICK yes : yes = TRUE
      OBVIOUS
    <3>2. u = SetRaced(s, yes)
      BY <1>1, <1>2, <2>3, <3>1 DEF Overtaken, SetRaced
    <3>3. u.work = [s.work EXCEPT !.raced = yes]
      BY <2>1, <3>2, SetsRaced
    <3>4. u.work.raced = TRUE
      BY <2>1, <3>1, <3>3 DEF IsWork
    <3> QED
      BY <1>1, <3>4 DEF Watch
  <2>4. CASE ~(/\ s.work.seen /\ s.req.body.email = email
               /\ (s.action = "users.store" \/ s.req.id # i))
    <3>1. u = s
      BY <1>1, <1>2, <2>4 DEF Overtaken
    <3>2. s.work.raced \in BOOLEAN
      BY <1>2, <2>2 DEF Watch
    <3>3. ASSUME s.work.seen, s.work.raced = FALSE
          PROVE  \A k \in DOMAIN users' : users'[k].email = s.req.body.email =>
                    s.action = "users.update" /\ k = s.req.id
      BY <1>2, <2>2, <2>4, <3>3, NotOvertaken
    <3> QED
      BY <1>1, <3>1, <3>2, <3>3 DEF Watch, FreeFor
  <2> QED
    BY <2>3, <2>4
<1>3. CASE s.pc \notin {"check", "insert", "update"}
  <2>1. u = s \/ (s.pc = "fetch" /\ u = SetCame(s, TRUE))
    BY <1>1, <1>3, Zenon DEF Overtaken, SetCame
  <2>2. ASSUME s.pc = "fetch", u = SetCame(s, TRUE)
        PROVE  u.pc = "fetch"
    <3>1. IsService(s)
      BY <1>1, <2>2, AtWork
    <3>2. PICK yes : yes = TRUE
      OBVIOUS
    <3>3. Reworked(s, SetCame(s, yes))
      BY <3>1, SetsCame
    <3> QED
      BY <2>2, <3>2, <3>3 DEF Reworked
  <2>3. u.pc \notin {"check", "insert", "update"}
    BY <1>3, <2>1, <2>2
  <2> QED
    BY <1>1, <2>3 DEF Watch
<1> QED
  BY <1>2, <1>3

\* A written row is like another only when its writer was overtaken.
LEMMA WriteIsUnique ==
    ASSUME UniqueUnlessOvertaken, NEW s, s.work.seen = TRUE, Watch(s),
           s.pc \in {"insert", "update"},
           NEW i, i \in DOMAIN users', Wrote(i, s.req.body.email),
           users'[i].raced = s.work.raced,
           s.action = "users.update" => i = s.req.id
    PROVE  UniqueUnlessOvertaken'
<1>1. ASSUME NEW j \in DOMAIN users', NEW k \in DOMAIN users', j # k, j # i, k # i,
             users'[j].email = users'[k].email
      PROVE  users'[j].raced \/ users'[k].raced
  <2>1. /\ j \in DOMAIN users /\ users'[j] = users[j]
        /\ k \in DOMAIN users /\ users'[k] = users[k]
    BY <1>1 DEF Wrote
  <2> QED
    BY <1>1, <2>1 DEF UniqueUnlessOvertaken
<1>2. ASSUME NEW j \in DOMAIN users', j # i, users'[j].email = users'[i].email
      PROVE  users'[i].raced
  <2>1. users'[i].email = s.req.body.email /\ j \in DOMAIN users /\ users'[j] = users[j]
    BY <1>2 DEF Wrote
  <2>2. ~FreeFor(s)
    <3>1. users[j].email = s.req.body.email
      BY <1>2, <2>1
    <3>2. ~(s.action = "users.update" /\ j = s.req.id)
      BY <1>2
    <3> QED
      BY <2>1, <3>1, <3>2 DEF FreeFor
  <2>3. s.work.raced \in BOOLEAN /\ s.work.raced # FALSE
    BY <2>2 DEF Watch
  <2>4. s.work.raced = TRUE
    BY <2>3
  <2> QED
    BY <2>4
<1>3. ASSUME NEW j \in DOMAIN users', NEW k \in DOMAIN users', j # k,
             users'[j].email = users'[k].email
      PROVE  users'[j].raced \/ users'[k].raced
  BY <1>1, <1>2, <1>3
<1> QED
  BY <1>3 DEF UniqueUnlessOvertaken

LEMMA InsertData ==
    ASSUME Data, ApiServings, NEW a \in Actors, Insert(a)
    PROVE  Data'
<1>1. PICK s : s = serving[a]
  OBVIOUS
<1>2. Serves(s) /\ s.pc = "insert" /\ Watch(s)
  BY <1>1 DEF ApiServings, Insert, At, Data, Watches
<1>3. Acting(s) /\ s.work.seen = TRUE
  BY <1>2, AtWork, ActingFields
<1>4. s.action = "users.store"
  BY <1>2, <1>3 DEF Acting, Acts
<1>5. PICK n : n = nextId
  OBVIOUS
<1>6. n \in Nat \ {0} /\ DOMAIN users \subseteq 1 .. (n - 1) /\ n \notin DOMAIN users
  BY <1>5 DEF Data, Rows
<1>7. PICK row : row = BeforeSave(Active(s, s.req.body.team_id))
  OBVIOUS
<1>8. row.email = s.req.body.email /\ row.stamped = TRUE /\ row.raced = s.work.raced
  BY <1>7, RowFields
<1>9. users' = WithKey(users, n, row) /\ nextId' = n + 1 /\ teams' = teams
  BY <1>1, <1>5, <1>7 DEF Insert
<1>10. /\ DOMAIN users' = DOMAIN users \cup {n} /\ users'[n] = row
       /\ \A k \in DOMAIN users : k # n => users'[k] = users[k]
  BY <1>9 DEF WithKey
<1>11. Wrote(n, s.req.body.email)
  BY <1>8, <1>10 DEF Wrote
<1>12. s.work.raced \in BOOLEAN
  BY <1>2 DEF Watch
<1>13. Rows'
  <2>1. nextId' \in Nat \ {0} /\ DOMAIN users' \subseteq 1 .. (nextId' - 1)
    BY <1>6, <1>9, <1>10
  <2>2. \A i \in DOMAIN users' : users'[i].stamped = TRUE /\ users'[i].raced \in BOOLEAN
    BY <1>8, <1>10, <1>12 DEF Data, Rows
  <2> QED
    BY <1>9, <2>1, <2>2 DEF Data, Rows
<1>14. UniqueUnlessOvertaken'
  BY <1>2, <1>3, <1>4, <1>8, <1>10, <1>11, WriteIsUnique DEF Data
<1>15. /\ serving'[a].pc = "after"
       /\ \A b \in Actors : b # a => serving'[b] = Overtaken(a, s.req.body.email, n)[b]
  BY <1>1, <1>5, InsertStep
<1>16. Watches'
  <2>1. ASSUME NEW b \in Actors, b # a
        PROVE  Watch(serving[b])'
    <3>1. PICK email : email = s.req.body.email
      OBVIOUS
    <3>2. Wrote(n, email) /\ serving'[b] = Overtaken(a, email, n)[b]
      BY <1>11, <1>15, <2>1, <3>1
    <3>3. Serves(serving[b]) /\ Watch(serving[b])
      BY DEF ApiServings, Data, Watches
    <3> QED
      BY <2>1, <3>2, <3>3, OthersWatch
  <2>2. Watch(serving[a])'
    BY <1>15 DEF Watch
  <2> QED
    BY <2>1, <2>2 DEF Watches
<1> QED
  BY <1>13, <1>14, <1>16 DEF Data

\* One row is another, and the rest are as they were.
Rewrote(i, row) ==
    /\ DOMAIN users' = DOMAIN users /\ users'[i] = row
    /\ \A k \in DOMAIN users : k # i => users'[k] = users[k]

LEMMA QuietData ==
    ASSUME Data, UNCHANGED <<users, teams, nextId>>, \A b \in Actors : Watch(serving[b])'
    PROVE  Data'
BY DEF Data, Rows, Watches, UniqueUnlessOvertaken

LEMMA StillWatches ==
    ASSUME NEW b, Watch(serving[b]), UNCHANGED users, serving'[b] = serving[b]
    PROVE  Watch(serving[b])'
BY DEF Watch, FreeFor

\* A request that is about to write nothing has nothing to watch.
LEMMA NoWatch ==
    ASSUME NEW b, serving'[b].pc \notin {"check", "insert", "update"}
    PROVE  Watch(serving[b])'
BY DEF Watch

\* The tables stay, and one request goes on.
LEMMA OneGoesOn ==
    ASSUME Data, UNCHANGED <<users, teams, nextId>>, NEW a \in Actors,
           \A b \in Actors : b # a => serving'[b] = serving[b],
           Watch(serving[a])'
    PROVE  Data'
<1>1. ASSUME NEW b \in Actors PROVE Watch(serving[b])'
  <2>1. Watch(serving[b])
    BY DEF Data, Watches
  <2> QED
    BY <2>1, StillWatches
<1> QED
  BY <1>1, QuietData

LEMMA UpdateData ==
    ASSUME Data, ApiServings, NEW a \in Actors, Update(a)
    PROVE  Data'
<1>1. PICK s, i : s = serving[a] /\ i = s.req.id
  OBVIOUS
<1>2. Serves(s) /\ s.pc = "update" /\ Watch(s)
  BY <1>1 DEF ApiServings, Update, At, Data, Watches
<1>3. Acting(s) /\ s.work.seen = TRUE
  BY <1>2, AtWork, ActingFields
<1>4. teams' = teams /\ nextId' = nextId
  BY DEF Update
<1>5. CASE i \notin DOMAIN users
  <2>1. users' = users
    BY <1>1, <1>5 DEF Update
  <2>2. serving'[a].pc = "answer" /\ \A b \in Actors : b # a => serving'[b] = serving[b]
    BY <1>1, <1>5, UpdateStep
  <2>3. Watch(serving[a])'
    BY <2>2, NoWatch
  <2> QED
    BY <1>4, <2>1, <2>2, <2>3, OneGoesOn
<1>6. CASE i \in DOMAIN users
  <2>1. PICK row : row = BeforeSave(Active(s, users[i].team))
    OBVIOUS
  <2>2. row.email = s.req.body.email /\ row.stamped = TRUE /\ row.raced = s.work.raced
    BY <2>1, RowFields
  <2>3. users' = [users EXCEPT ![i] = row]
    BY <1>1, <1>6, <2>1 DEF Update
  <2>4. Rewrote(i, row)
    BY <1>6, <2>3 DEF Rewrote
  <2>5. Wrote(i, s.req.body.email) /\ i \in DOMAIN users'
    BY <1>6, <2>2, <2>4 DEF Wrote, Rewrote
  <2>6. s.work.raced \in BOOLEAN
    BY <1>2 DEF Watch
  <2>7. Rows'
    <3>1. DOMAIN users' = DOMAIN users
      BY <2>4 DEF Rewrote
    <3>2. \A k \in DOMAIN users' : users'[k].stamped = TRUE /\ users'[k].raced \in BOOLEAN
      BY <2>2, <2>4, <2>6 DEF Data, Rows, Rewrote
    <3> QED
      BY <1>4, <3>1, <3>2 DEF Data, Rows
  <2>8. UniqueUnlessOvertaken'
    <3>1. users'[i].raced = s.work.raced
      BY <2>2, <2>4 DEF Rewrote
    <3> QED
      BY <1>1, <1>2, <1>3, <2>5, <3>1, WriteIsUnique DEF Data
  <2>9. /\ serving'[a].pc = "after"
        /\ \A b \in Actors : b # a => serving'[b] = Overtaken(a, s.req.body.email, i)[b]
    BY <1>1, <1>6, UpdateStep
  <2>10. Watches'
    <3>1. ASSUME NEW b \in Actors, b # a
          PROVE  Watch(serving[b])'
      <4>1. PICK email : email = s.req.body.email
        OBVIOUS
      <4>2. Wrote(i, email) /\ serving'[b] = Overtaken(a, email, i)[b]
        BY <2>5, <2>9, <3>1, <4>1
      <4>3. Serves(serving[b]) /\ Watch(serving[b])
        BY DEF ApiServings, Data, Watches
      <4> QED
        BY <3>1, <4>2, <4>3, OthersWatch
    <3>2. Watch(serving[a])'
      BY <2>9, NoWatch
    <3> QED
      BY <3>1, <3>2 DEF Watches
  <2> QED
    BY <2>7, <2>8, <2>10 DEF Data
<1> QED
  BY <1>5, <1>6

LEMMA DeleteData ==
    ASSUME Data, ApiServings, NEW a \in Actors, Delete(a)
    PROVE  Data'
<1>1. /\ DOMAIN users' \subseteq DOMAIN users /\ \A k \in DOMAIN users' : users'[k] = users[k]
      /\ DOMAIN teams' \subseteq DOMAIN teams /\ nextId' = nextId
  <2>1. CASE serving[a].action = "teams.destroy"
    <3>1. PICK i : i = serving[a].req.id
      OBVIOUS
    <3>2. teams' = WithoutKey(teams, i) /\ users' = users /\ nextId' = nextId
      BY <2>1, <3>1 DEF Delete
    <3> QED
      BY <3>2 DEF WithoutKey
  <2>2. CASE serving[a].action # "teams.destroy"
    <3>1. PICK i : i = serving[a].req.id
      OBVIOUS
    <3>2. users' = WithoutKey(users, i) /\ teams' = teams /\ nextId' = nextId
      BY <2>2, <3>1 DEF Delete
    <3> QED
      BY <3>2 DEF WithoutKey
  <2> QED
    BY <2>1, <2>2
<1>2. Rows' /\ UniqueUnlessOvertaken'
  BY <1>1 DEF Data, Rows, UniqueUnlessOvertaken
<1>3. ASSUME NEW b \in Actors
      PROVE  Watch(serving[b])'
  <2>1. CASE b = a
    BY <2>1, DeleteStep, NoWatch
  <2>2. CASE b # a /\ serving'[b] = serving[b]
    <3>1. Watch(serving[b])
      BY DEF Data, Watches
    <3> QED
      BY <1>1, <2>2, <3>1 DEF Watch, FreeFor
  <2>3. CASE serving[b].pc = "fetch" /\ serving'[b] = SetGone(serving[b], TRUE)
    <3>1. IsService(serving[b])
      BY <2>3, AtWork DEF ApiServings
    <3>2. PICK s, yes : s = serving[b] /\ yes = TRUE
      OBVIOUS
    <3>3. Reworked(s, SetGone(s, yes))
      BY <3>1, <3>2, SetsGone
    <3>4. serving'[b].pc = "fetch"
      BY <2>3, <3>2, <3>3 DEF Reworked
    <3> QED
      BY <3>4, NoWatch
  <2> QED
    BY <2>1, <2>2, <2>3, DeleteStep
<1> QED
  BY <1>2, <1>3 DEF Data, Watches

LEMMA CheckData ==
    ASSUME Data, ApiServings, NEW a \in Actors, Check(a)
    PROVE  Data'
<1>1. PICK s, t : s = serving[a] /\ t = serving'[a]
  OBVIOUS
<1>2. s.pc = "check" /\ Watch(s) /\ UNCHANGED <<users, teams, nextId>>
  BY <1>1 DEF Check, At, Data, Watches, tables
<1>3. /\ SameService(s, t) /\ t.work.raced = s.work.raced
      /\ t.work.seen => s.work.seen \/ FreeFor(s)
      /\ \A b \in Actors : b # a => serving'[b] = serving[b]
  BY <1>1, CheckStep
<1>4. t.req = s.req /\ t.action = s.action
  BY <1>3 DEF SameService
<1>5. s.work.raced \in BOOLEAN /\ (s.work.seen /\ s.work.raced = FALSE => FreeFor(s))
  BY <1>2 DEF Watch
<1>6. Watch(serving[a])'
  BY <1>1, <1>2, <1>3, <1>4, <1>5 DEF Watch, FreeFor
<1> QED
  BY <1>2, <1>3, <1>6, OneGoesOn

\* One that has seen nothing yet watches nothing.
LEMMA UntouchedWatches ==
    ASSUME NEW b, Untouched(serving'[b].work)
    PROVE  Watch(serving[b])'
<1>1. PICK w : w = serving'[b].work
  OBVIOUS
<1>2. w.seen = FALSE /\ w.raced = FALSE
  BY <1>1 DEF Untouched
<1>3. w.raced \in BOOLEAN /\ ~w.seen
  BY <1>2
<1> QED
  BY <1>1, <1>3 DEF Watch

LEMMA FindData ==
    ASSUME Data, ApiServings, NEW a \in Actors, Find(a)
    PROVE  Data'
<1>1. UNCHANGED <<users, teams, nextId>>
  BY DEF Find, tables
<1>2. Watch(serving[a])'
  BY FindStep, UntouchedWatches, NoWatch
<1> QED
  BY <1>1, <1>2, FindStep, OneGoesOn

LEMMA SendData ==
    ASSUME Data, ApiServings, ~setting.browser, NEW a \in Actors, Send(a)
    PROVE  Data'
<1>1. UNCHANGED <<users, teams, nextId>>
  BY DEF Send, tables
<1>2. Watch(serving[a])'
  BY SendStep, UntouchedWatches DEF Fresh
<1> QED
  BY <1>1, <1>2, SendStep, OneGoesOn

LEMMA AnswerData ==
    ASSUME Data, ApiServings, ApiTabs, ~setting.browser, NEW a \in Actors, Answer(a)
    PROVE  Data'
<1>1. UNCHANGED <<users, teams, nextId>>
  BY DEF Answer, tables
<1>2. serving'[a].pc = "idle" /\ \A b \in Actors : b # a => serving'[b] = serving[b]
  BY ApiAnswerStep, IdlePc
<1>3. Watch(serving[a])'
  BY <1>2, NoWatch
<1> QED
  BY <1>1, <1>2, <1>3, OneGoesOn

\* A statement that only reads, or refuses to write.
Reads(a) == \/ RefuseWrite(a) \/ AfterHooks(a) \/ Count(a) \/ Fetch(a)
            \/ LoadTeam(a) \/ All(a) \/ LoadMembers(a)

LEMMA ReadsStep ==
    ASSUME ApiServings, NEW a \in Actors, Reads(a)
    PROVE  /\ UNCHANGED <<users, teams, nextId>>
           /\ serving'[a].pc \in {"answer", "fetch", "load", "members"}
           /\ \A b \in Actors : b # a => serving'[b] = serving[b]
<1>1. UNCHANGED <<users, teams, nextId>>
  BY DEF Reads, RefuseWrite, AfterHooks, Count, Fetch, LoadTeam, All, LoadMembers, tables
<1>2. /\ serving'[a].pc \in {"answer", "fetch", "load", "members"}
      /\ \A b \in Actors : b # a => serving'[b] = serving[b]
  BY RefuseWriteStep, AfterHooksStep, CountStep, FetchStep, LoadTeamStep, AllStep,
     LoadMembersStep DEF Reads
<1> QED
  BY <1>1, <1>2

LEMMA ReadsData ==
    ASSUME Data, ApiServings, NEW a \in Actors, Reads(a)
    PROVE  Data'
<1>1. Watch(serving[a])'
  BY ReadsStep, NoWatch
<1> QED
  BY <1>1, ReadsStep, OneGoesOn

LEMMA StatementData ==
    ASSUME Data, ApiServings, NEW a \in Actors, Statement(a)
    PROVE  Data'
BY CheckData, InsertData, UpdateData, DeleteData, FindData, ReadsData DEF Statement, Reads

\* A browser's requests, and a deployment, leave the tables alone.
LEMMA TablesStay ==
    ASSUME Data, UNCHANGED <<users, teams, nextId>>,
           \A a \in Actors : serving'[a].pc \in {"idle", "answer"}
    PROVE  Data'
<1>1. \A a \in Actors : Watch(serving[a])'
  BY NoWatch
<1> QED
  BY <1>1, QuietData

LEMMA InitData == Init => Data
<1>1. SUFFICES ASSUME Init PROVE Data
  OBVIOUS
<1>2. users = <<>> /\ nextId = 1 /\ DOMAIN teams = Teams
  BY <1>1 DEF Init
<1>3. Rows /\ UniqueUnlessOvertaken
  BY <1>2 DEF Rows, UniqueUnlessOvertaken
<1>4. \A a \in Actors : serving[a].pc = "idle"
  BY <1>1, IdlePc DEF Init
<1>5. Watches
  BY <1>4 DEF Watches, Watch
<1> QED
  BY <1>3, <1>5 DEF Data

LEMMA NextData == Site /\ Data /\ [Next]_vars => Data'
<1>1. SUFFICES ASSUME Site, Data, [Next]_vars PROVE Data'
  OBVIOUS
<1>2. CASE UNCHANGED vars
  BY <1>1, <1>2 DEF vars, Data, Rows, Watches, Watch, FreeFor, UniqueUnlessOvertaken
<1>3. CASE Deploy
  BY <1>1, <1>3, DeployIdles, IdlePc, TablesStay
<1>4. ASSUME NEW a \in Actors, Send(a) \/ FollowUp(a) \/ Answer(a) \/ Statement(a)
      PROVE  Data'
  <2>1. CASE setting.browser
    <3>1. ~Statement(a)
      BY <1>1, <2>1, WebStatements, StatementAt
    <3>2. UNCHANGED <<setting, users, teams, nextId>>
      BY <1>4, <3>1 DEF Send, FollowUp, Answer, tables
    <3>3. Site' /\ setting'.browser
      BY <1>1, <2>1, <3>2, NextSite
    <3>4. \A b \in Actors : serving'[b].pc \in {"idle", "answer"}
      BY <3>3, IdlePc DEF Site, Servings, PageServings, PageService
    <3> QED
      BY <1>1, <3>2, <3>4, TablesStay
  <2>2. CASE ~setting.browser
    <3>1. ApiServings /\ ApiTabs
      BY <1>1, <2>2 DEF Site, Servings
    <3> QED
      BY <1>1, <1>4, <2>2, <3>1, ApiFollowsNothing, SendData, AnswerData, StatementData
  <2> QED
    BY <2>1, <2>2
<1> QED
  BY <1>1, <1>2, <1>3, <1>4, NextIs

\* Every row has been through the hooks, and no one who found an address free
\* and was not overtaken has lost it, in every reachable state.
THEOREM DataIsSound == Spec => [](Site /\ Data)
<1>1. Init => Site /\ Data
  BY InitSite, InitData
<1>2. (Site /\ Data) /\ [Next]_vars => (Site /\ Data)'
  BY NextSite, NextData
<1> QED
  BY <1>1, <1>2, PTL DEF Spec

LEMMA DataUnique == Data => UniqueUnlessOvertaken
BY DEF Data

\* Two rows hold the same unique value only when the later writer was
\* overtaken between its query and its write (Rule::Unique: validate.rs).
THEOREM UniqueButForRaces == Spec => []UniqueUnlessOvertaken
BY DataIsSound, DataUnique, PTL

LEMMA ApiHooks ==
    ASSUME NEW s, ApiService(s), s.pc = "answer",
           NEW status, status = Written(Left(s).outcome).status
    PROVE  /\ status \in 400..499 /\ s.work.wrote => s.work.refused = "after"
           /\ status \in {200, 201, 204} /\ s.action \in Changes => s.work.wrote
<1>1. Left(s) = s.ctx /\ Answered(s)
  <2>1. ~Acting(s)
    BY DEF Acting, Acts
  <2> QED
    BY <2>1, ApiLeft DEF ApiService
<1>2. CASE Fails(s, Failures) /\ (s.work.wrote = FALSE \/ s.work.refused = "after")
  <2>1. status \notin {200, 201, 204}
    <3>1. PICK k \in Failures : \E f : s.ctx.outcome = I!Err(k, f)
      BY <1>2 DEF Fails
    <3>2. PICK f : s.ctx.outcome = I!Err(k, f)
      BY <3>1
    <3>3. PICK o : o = s.ctx.outcome
      OBVIOUS
    <3>4. o.kind = k /\ I!IsErr(o)
      BY <3>1, <3>2, <3>3 DEF I!Err, I!IsErr, Failures
    <3>5. status = I!StatusOf(k)
      BY <1>1, <3>3, <3>4 DEF Written, I!Response
    <3> QED
      BY <3>1, <3>5 DEF I!StatusOf, Failures
  <2> QED
    BY <1>2, <2>1
<1>3. CASE /\ \E x \in {200, 201, 204} : s.ctx.outcome = I!Ok(I!Response(x))
           /\ s.action \in Changes => s.work.wrote = TRUE
  <2>1. PICK x \in {200, 201, 204} : s.ctx.outcome = I!Ok(I!Response(x))
    BY <1>3
  <2>2. PICK r : r = I!Response(x)
    OBVIOUS
  <2>3. status = r.status
    BY <1>1, <2>1, <2>2, WrittenOk
  <2>4. status = x
    BY <2>2, <2>3 DEF I!Response
  <2> QED
    BY <1>3, <2>4
<1> QED
  BY <1>1, <1>2, <1>3 DEF Answered

LEMMA SiteHooks == Site /\ Data => HooksSurroundWrites
<1>1. SUFFICES ASSUME Site, Data PROVE HooksSurroundWrites
  OBVIOUS
<1>2. \A i \in DOMAIN users : users[i].stamped
  <2>1. SUFFICES ASSUME NEW i \in DOMAIN users PROVE users[i].stamped
    OBVIOUS
  <2>2. users[i].stamped = TRUE
    BY <1>1, <2>1 DEF Data, Rows
  <2> QED
    BY <2>2
<1>3. ASSUME NEW a \in Actors, Answering(a), NEW s, s = serving[a],
             NEW status, status = StatusFor(a)
      PROVE  /\ status \in 400..499 /\ s.work.wrote => s.work.refused = "after"
             /\ status \in {200, 201, 204} /\ s.action \in Changes => s.work.wrote
  <2>1. CASE setting.browser
    <3>1. PageService(s, tab[a], cells[1], version)
      BY <1>1, <1>3, <2>1, AnsweringIs, AtWorkIs
    <3>2. s.work.wrote = FALSE /\ s.action \notin Changes
      BY <3>1 DEF PageService, Untouched, PageActions, Changes
    <3> QED
      BY <3>2
  <2>2. CASE ~setting.browser
    <3>1. ApiService(s) /\ s.pc = "answer"
      BY <1>1, <1>3, <2>2, AnsweringIs, AtWorkIs DEF Answering
    <3> QED
      BY <1>3, <3>1, ApiHooks DEF StatusFor
  <2> QED
    BY <2>1, <2>2
<1> QED
  BY <1>2, <1>3 DEF HooksSurroundWrites, Changes

\* Every stored row went through the hooks before its write; what blames the
\* client wrote nothing and what reports success wrote, but for a hook after
\* the write that refuses what is stored (insert, update: model.rs; hooks.rs).
THEOREM HooksAreAround == Spec => []HooksSurroundWrites
BY DataIsSound, SiteHooks, PTL

-----------------------------------------------------------------------------
(***************************************************************************)
(* The bounds, and the shapes of what is stored                            *)
(***************************************************************************)

\* What a write of another does to a request: nothing, or it is overtaken, or
\* the listing it is making may miss a row.
LEMMA OvertakenIs ==
    ASSUME NEW a, NEW email, NEW row, NEW b \in Actors, b # a,
           NEW s, s = serving[b], Serves(s), NEW t, t = Overtaken(a, email, row)[b]
    PROVE  \/ t = s /\ s.pc # "fetch"
           \/ s.pc \in {"check", "insert", "update"} /\ Reworked(s, t)
           \/ s.pc = "fetch" /\ Reworked(s, t) /\ t.work = [s.work EXCEPT !.came = TRUE]
<1>1. \/ t = s /\ s.pc # "fetch"
      \/ s.pc \in {"check", "insert", "update"} /\ t = SetRaced(s, TRUE)
      \/ s.pc = "fetch" /\ t = SetCame(s, TRUE)
  BY DEF Overtaken, SetRaced, SetCame
<1>2. PICK yes : yes = TRUE
  OBVIOUS
<1>3. ASSUME s.pc \in {"check", "insert", "update"}, t = SetRaced(s, TRUE)
      PROVE  Reworked(s, t)
  <2>1. IsService(s)
    BY <1>3, AtWork
  <2>2. Reworked(s, SetRaced(s, yes))
    BY <2>1, SetsRaced
  <2> QED
    BY <1>2, <1>3, <2>2, Zenon
<1>4. ASSUME s.pc = "fetch", t = SetCame(s, TRUE)
      PROVE  Reworked(s, t) /\ t.work = [s.work EXCEPT !.came = TRUE]
  <2>1. IsService(s)
    BY <1>4, AtWork
  <2>2. Reworked(s, SetCame(s, yes)) /\ SetCame(s, yes).work = [s.work EXCEPT !.came = yes]
    BY <2>1, SetsCame
  <2> QED
    BY <1>2, <1>4, <2>2, Zenon
<1> QED
  BY <1>1, <1>3, <1>4

Pending(s) == IF s.pc \in {"check", "insert"} /\ s.action = "users.store" THEN 1 ELSE 0

\* There is room for every row that is being registered.
Rooms == nextId + Pending(serving[1]) + Pending(serving[2]) <= MaxUsers + 1

LEMMA RoomsAfter ==
    ASSUME nextId \in Nat, nextId' \in Nat, Rooms, NEW a \in Actors,
           nextId' + Pending(serving'[a]) <= nextId + Pending(serving[a]),
           \A b \in Actors : b # a => Pending(serving'[b]) <= Pending(serving[b])
    PROVE  Rooms'
<1>1. PICK p1 \in 0 .. 1 : p1 = Pending(serving[1])
  BY DEF Pending
<1>2. PICK p2 \in 0 .. 1 : p2 = Pending(serving[2])
  BY DEF Pending
<1>3. PICK q1 \in 0 .. 1 : q1 = Pending(serving'[1])
  BY DEF Pending
<1>4. PICK q2 \in 0 .. 1 : q2 = Pending(serving'[2])
  BY DEF Pending
<1>5. PICK n \in Nat, m \in Nat : n = nextId /\ m = nextId'
  OBVIOUS
<1>6. \/ m + q1 <= n + p1 /\ q2 <= p2
      \/ m + q2 <= n + p2 /\ q1 <= p1
  BY <1>1, <1>2, <1>3, <1>4, <1>5 DEF Actors
<1>7. n + p1 + p2 <= MaxUsers + 1 /\ MaxUsers \in Nat
  BY <1>1, <1>2, <1>5, StackAssumption DEF Rooms
<1>8. m + q1 + q2 <= MaxUsers + 1
  BY <1>6, <1>7
<1> QED
  BY <1>3, <1>4, <1>5, <1>8 DEF Rooms

\* One request goes on, registering no one it was not registering before.
LEMMA RoomStays ==
    ASSUME nextId \in Nat, nextId' = nextId, Rooms, NEW a \in Actors,
           Pending(serving'[a]) <= Pending(serving[a]),
           \A b \in Actors : b # a => Pending(serving'[b]) <= Pending(serving[b])
    PROVE  Rooms'
<1>1. PICK p \in 0 .. 1 : p = Pending(serving[a])
  BY DEF Pending
<1>2. PICK q \in 0 .. 1 : q = Pending(serving'[a])
  BY DEF Pending
<1>3. nextId' + q <= nextId + p
  BY <1>1, <1>2
<1> QED
  BY <1>1, <1>2, <1>3, RoomsAfter

LEMMA NonePending ==
    ASSUME NEW s, s.pc \notin {"check", "insert"} \/ s.action # "users.store"
    PROVE  \A t : Pending(s) <= Pending(t)
BY DEF Pending

LEMMA SamePending ==
    ASSUME NEW s, NEW t, t = s \/ Reworked(s, t)
    PROVE  Pending(t) <= Pending(s)
BY DEF Pending, Reworked

LEMMA OvertakenPending ==
    ASSUME NEW a, NEW email, NEW row, NEW b \in Actors, b # a, Serves(serving[b]),
           serving'[b] = Overtaken(a, email, row)[b]
    PROVE  Pending(serving'[b]) <= Pending(serving[b])
BY OvertakenIs, SamePending

\* A registration is taken up only while there is room for its row.
LEMMA RoomForIs ==
    ASSUME nextId \in Nat, NEW a \in Actors, RoomFor(a), NEW b \in Actors, b # a
    PROVE  nextId + Pending(serving[b]) <= MaxUsers
<1> DEFINE others == {c \in Actors \ {a} : serving[c].pc # "idle" /\
                                              serving[c].action = "users.store"}
<1>1. nextId + Cardinality(others) <= MaxUsers
  BY DEF RoomFor
<1>2. Actors \ {a} = {b}
  BY DEF Actors
<1>3. CASE Pending(serving[b]) = 1
  <2>1. others = {b}
    BY <1>2, <1>3 DEF Pending
  <2>2. Cardinality(others) = 1
    BY <2>1, FS_Singleton
  <2> QED
    BY <1>1, <1>3, <2>2
<1>4. CASE Pending(serving[b]) = 0
  <2>1. Cardinality(others) \in Nat
    <3>1. IsFiniteSet({b})
      BY FS_Singleton
    <3>2. IsFiniteSet(others)
      BY <1>2, <3>1, FS_Subset
    <3> QED
      BY <3>2, FS_CardinalityType
  <2> QED
    BY <1>1, <1>4, <2>1, StackAssumption
<1> QED
  BY <1>3, <1>4 DEF Pending

LEMMA SendRoom ==
    ASSUME nextId \in Nat, Rooms, ApiServings, ~setting.browser, NEW a \in Actors, Send(a)
    PROVE  Rooms'
<1>1. nextId' = nextId /\ \A b \in Actors : b # a => serving'[b] = serving[b]
  BY SendStep DEF Send, tables
<1>2. CASE serving'[a].action # "users.store"
  <2>1. Pending(serving'[a]) <= Pending(serving[a])
    BY <1>2, NonePending
  <2> QED
    BY <1>1, <2>1, SamePending, RoomStays
<1>3. CASE serving'[a].action = "users.store"
  <2>1. RoomFor(a)
    BY <1>3, SendStep
  <2>2. PICK b \in Actors : b # a
    BY DEF Actors
  <2>3. nextId + Pending(serving[b]) <= MaxUsers
    BY <2>1, <2>2, RoomForIs
  <2>4. PICK p \in 0 .. 1 : p = Pending(serving'[a])
    BY DEF Pending
  <2>5. PICK q \in 0 .. 1 : q = Pending(serving'[b])
    BY DEF Pending
  <2>6. nextId + q <= MaxUsers /\ MaxUsers \in Nat
    BY <1>1, <2>2, <2>3, <2>5, StackAssumption
  <2>7. nextId' + p + q <= MaxUsers + 1 /\ nextId' + q + p <= MaxUsers + 1
    BY <1>1, <2>6
  <2>8. (a = 1 /\ b = 2) \/ (a = 2 /\ b = 1)
    BY <2>2 DEF Actors
  <2> QED
    BY <2>4, <2>5, <2>7, <2>8 DEF Rooms
<1> QED
  BY <1>2, <1>3

LEMMA InsertRoom ==
    ASSUME nextId \in Nat, Rooms, ApiServings, NEW a \in Actors, Insert(a)
    PROVE  Rooms'
<1>1. PICK s, t : s = serving[a] /\ t = serving'[a]
  OBVIOUS
<1>2. Serves(s) /\ s.pc = "insert"
  BY <1>1 DEF ApiServings, Insert, At
<1>3. s.action = "users.store"
  <2>1. Acts(s)
    BY <1>2, AtWork DEF Acting
  <2> QED
    BY <1>2, <2>1 DEF Acts
<1>4. Pending(s) = 1
  BY <1>2, <1>3 DEF Pending
<1>5. nextId' = nextId + 1 /\ t.pc = "after"
  BY <1>1, InsertStep DEF Insert
<1>6. Pending(t) = 0
  BY <1>5 DEF Pending
<1>7. \A b \in Actors : b # a => Pending(serving'[b]) <= Pending(serving[b])
  <2>1. SUFFICES ASSUME NEW b \in Actors, b # a
                 PROVE  Pending(serving'[b]) <= Pending(serving[b])
    OBVIOUS
  <2>2. PICK email, row : email = s.req.body.email /\ row = nextId
    OBVIOUS
  <2>3. serving'[b] = Overtaken(a, email, row)[b]
    BY <1>1, <2>1, <2>2, InsertStep
  <2>4. Serves(serving[b])
    BY DEF ApiServings
  <2> QED
    BY <2>1, <2>3, <2>4, OvertakenPending
<1>8. nextId' \in Nat /\ nextId' + Pending(t) <= nextId + Pending(s)
  BY <1>4, <1>5, <1>6
<1> QED
  BY <1>1, <1>7, <1>8, RoomsAfter

LEMMA UpdateRoom ==
    ASSUME nextId \in Nat, Rooms, ApiServings, NEW a \in Actors, Update(a)
    PROVE  Rooms'
<1>1. nextId' = nextId /\ serving'[a].pc \in {"after", "answer"}
  BY UpdateStep DEF Update
<1>2. Pending(serving'[a]) <= Pending(serving[a])
  BY <1>1, NonePending
<1>3. ASSUME NEW b \in Actors, b # a
      PROVE  Pending(serving'[b]) <= Pending(serving[b])
  <2>1. PICK email, row : email = serving[a].req.body.email /\ row = serving[a].req.id
    OBVIOUS
  <2>2. serving'[b] = serving[b] \/ serving'[b] = Overtaken(a, email, row)[b]
    BY <1>3, <2>1, UpdateStep
  <2>3. Serves(serving[b])
    BY DEF ApiServings
  <2> QED
    BY <1>3, <2>2, <2>3, SamePending, OvertakenPending
<1> QED
  BY <1>1, <1>2, <1>3, RoomStays

LEMMA DeleteRoom ==
    ASSUME nextId \in Nat, Rooms, ApiServings, NEW a \in Actors, Delete(a)
    PROVE  Rooms'
<1>1. nextId' = nextId /\ serving'[a].pc = "answer"
  BY DeleteStep DEF Delete
<1>2. Pending(serving'[a]) <= Pending(serving[a])
  BY <1>1, NonePending
<1>3. ASSUME NEW b \in Actors, b # a
      PROVE  Pending(serving'[b]) <= Pending(serving[b])
  <2>1. CASE serving'[b] = serving[b]
    BY <2>1, SamePending
  <2>2. CASE serving[b].pc = "fetch" /\ serving'[b] = SetGone(serving[b], TRUE)
    <3>1. IsService(serving[b])
      BY <2>2, AtWork DEF ApiServings
    <3>2. PICK s, yes : s = serving[b] /\ yes = TRUE
      OBVIOUS
    <3>3. Reworked(s, SetGone(s, yes))
      BY <3>1, <3>2, SetsGone
    <3> QED
      BY <2>2, <3>2, <3>3, SamePending
  <2> QED
    BY <1>3, <2>1, <2>2, DeleteStep
<1> QED
  BY <1>1, <1>2, <1>3, RoomStays

LEMMA CheckRoom ==
    ASSUME nextId \in Nat, Rooms, ApiServings, NEW a \in Actors, Check(a)
    PROVE  Rooms'
<1>1. nextId' = nextId /\ serving[a].pc = "check"
  BY DEF Check, At, tables
<1>2. serving'[a].action = serving[a].action
  BY CheckStep DEF SameService
<1>3. Pending(serving'[a]) <= Pending(serving[a])
  BY <1>1, <1>2 DEF Pending
<1> QED
  BY <1>1, <1>3, CheckStep, SamePending, RoomStays

LEMMA FindRoom ==
    ASSUME nextId \in Nat, Rooms, ApiServings, NEW a \in Actors, Find(a)
    PROVE  Rooms'
<1>1. nextId' = nextId /\ serving[a].pc = "find" /\ Serves(serving[a])
  BY DEF Find, At, tables, ApiServings
<1>2. serving[a].action # "users.store"
  <2>1. Acts(serving[a])
    BY <1>1, AtWork DEF Acting
  <2> QED
    BY <1>1, <2>1 DEF Acts
<1>3. serving'[a].action # "users.store"
  BY <1>2, FindStep DEF SameService
<1>4. Pending(serving'[a]) <= Pending(serving[a])
  BY <1>3, NonePending
<1> QED
  BY <1>1, <1>4, FindStep, SamePending, RoomStays

LEMMA ReadsRoom ==
    ASSUME nextId \in Nat, Rooms, ApiServings, NEW a \in Actors, Reads(a)
    PROVE  Rooms'
<1>1. nextId' = nextId /\ \A b \in Actors : b # a => serving'[b] = serving[b]
  BY ReadsStep
<1>2. Pending(serving'[a]) <= Pending(serving[a])
  BY ReadsStep, NonePending
<1> QED
  BY <1>1, <1>2, SamePending, RoomStays

LEMMA AnswerRoom ==
    ASSUME nextId \in Nat, Rooms, ApiServings, ApiTabs, ~setting.browser,
           NEW a \in Actors, Answer(a)
    PROVE  Rooms'
<1>1. nextId' = nextId
  BY DEF Answer, tables
<1>2. serving'[a].pc = "idle" /\ \A b \in Actors : b # a => serving'[b] = serving[b]
  BY ApiAnswerStep, IdlePc
<1>3. Pending(serving'[a]) <= Pending(serving[a])
  BY <1>2, NonePending
<1> QED
  BY <1>1, <1>2, <1>3, SamePending, RoomStays

LEMMA StatementRoom ==
    ASSUME nextId \in Nat, Rooms, ApiServings, NEW a \in Actors, Statement(a)
    PROVE  Rooms'
BY CheckRoom, InsertRoom, UpdateRoom, DeleteRoom, FindRoom, ReadsRoom DEF Statement, Reads

\* Who is idle, or about to answer, registers no one.
LEMMA RoomWithout ==
    ASSUME nextId \in Nat, nextId' = nextId, Rooms,
           \A a \in Actors : serving'[a].pc \in {"idle", "answer"}
    PROVE  Rooms'
<1>1. \A a \in Actors : Pending(serving'[a]) <= Pending(serving[a])
  BY NonePending
<1>2. 1 \in Actors
  BY DEF Actors
<1> QED
  BY <1>1, <1>2, RoomStays

LEMMA InitRoom == Init => Rooms
<1>1. SUFFICES ASSUME Init PROVE Rooms
  OBVIOUS
<1>2. nextId = 1 /\ serving[1].pc = "idle" /\ serving[2].pc = "idle"
  BY <1>1, IdlePc DEF Init, Actors
<1>3. Pending(serving[1]) = 0 /\ Pending(serving[2]) = 0
  BY <1>2 DEF Pending
<1> QED
  BY <1>2, <1>3, StackAssumption DEF Rooms

LEMMA NextRoom == Site /\ Data /\ Rooms /\ [Next]_vars => Rooms'
<1>1. SUFFICES ASSUME Site, Data, Rooms, [Next]_vars PROVE Rooms'
  OBVIOUS
<1>2. nextId \in Nat
  BY <1>1 DEF Data, Rows
<1>3. CASE UNCHANGED vars
  BY <1>1, <1>3 DEF vars, Rooms
<1>4. CASE Deploy
  BY <1>1, <1>2, <1>4, DeployIdles, IdlePc, RoomWithout
<1>5. ASSUME NEW a \in Actors, Send(a) \/ FollowUp(a) \/ Answer(a) \/ Statement(a)
      PROVE  Rooms'
  <2>1. CASE setting.browser
    <3>1. ~Statement(a)
      BY <1>1, <2>1, WebStatements, StatementAt
    <3>2. UNCHANGED <<setting, nextId>>
      BY <1>5, <3>1 DEF Send, FollowUp, Answer, tables
    <3>3. Site' /\ setting'.browser
      BY <1>1, <2>1, <3>2, NextSite
    <3>4. \A b \in Actors : serving'[b].pc \in {"idle", "answer"}
      BY <3>3, IdlePc DEF Site, Servings, PageServings, PageService
    <3> QED
      BY <1>1, <1>2, <3>2, <3>4, RoomWithout
  <2>2. CASE ~setting.browser
    <3>1. ApiServings /\ ApiTabs
      BY <1>1, <2>2 DEF Site, Servings
    <3> QED
      BY <1>1, <1>2, <1>5, <2>2, <3>1, ApiFollowsNothing, SendRoom, AnswerRoom, StatementRoom
  <2> QED
    BY <2>1, <2>2
<1> QED
  BY <1>1, <1>3, <1>4, <1>5, NextIs

\* What is only remembered is kept for each client.
Remembered == due \in [Actors -> Submissions \cup {None}] /\ last \in [Actors -> {Home, Posts}]

LEMMA InitRemembered == Init => Remembered
BY DEF Init, Remembered

LEMMA NextRemembered == Site' /\ Remembered /\ [Next]_vars => Remembered'
<1>1. SUFFICES ASSUME Site', Remembered, [Next]_vars PROVE Remembered'
  OBVIOUS
<1>2. \A c \in Actors : due'[c] \in Submissions \cup {None} /\ last'[c] \in {Home, Posts}
  BY <1>1 DEF Site, Clients, History
<1>3. CASE UNCHANGED <<due, last>>
  BY <1>1, <1>3 DEF Remembered
<1>4. ASSUME NEW c, NEW d, NEW l,
             due' = [due EXCEPT ![c] = d], last' = [last EXCEPT ![c] = l]
      PROVE  Remembered'
  <2>1. due' = [x \in Actors |-> due'[x]] /\ last' = [x \in Actors |-> last'[x]]
    BY <1>1, <1>4 DEF Remembered
  <2> QED
    BY <1>2, <2>1 DEF Remembered
<1>5. ASSUME NEW a \in Actors, Answer(a)
      PROVE  Remembered'
  <2>1. PICK c, d, l : /\ c = ClientOf(a) /\ d = DueAfter(serving[a], Left(serving[a]), due[c])
                       /\ l = IF IsPage(serving[a], Left(serving[a]))
                              THEN serving[a].req.path ELSE last[c]
    OBVIOUS
  <2>2. due' = [due EXCEPT ![c] = d] /\ last' = [last EXCEPT ![c] = l]
    BY <1>5, <2>1 DEF Answer
  <2> QED
    BY <1>4, <2>2
<1>6. CASE Deploy
  <2>1. (due' = due \/ due' = [c \in Actors |-> None])
        /\ (last' = last \/ last' = [c \in Actors |-> Home])
    BY <1>6 DEF Deploy
  <2> QED
    BY <1>1, <2>1 DEF Remembered
<1>7. ASSUME NEW a \in Actors, Send(a) \/ FollowUp(a) \/ Statement(a)
      PROVE  Remembered'
  <2>1. UNCHANGED <<due, last>>
    BY <1>7, StatementAt DEF Send, FollowUp, web
  <2> QED
    BY <1>3, <2>1
<1>8. UNCHANGED vars => UNCHANGED <<due, last>>
  BY DEF vars
<1> QED
  BY <1>1, <1>3, <1>5, <1>6, <1>7, <1>8, NextIs

LEMMA AllTyped == Site /\ Data /\ Rooms /\ Remembered => TypeOK
<1>1. SUFFICES ASSUME Site, Data, Rooms, Remembered PROVE TypeOK
  OBVIOUS
<1>2. setting \in Settings /\ version \in {1, 2} /\ \A c \in Actors : cells[c] \in I!S!Data
  BY <1>1 DEF Site, Clients, History, Session, Cell
<1>3. nextId \in 1..(MaxUsers + 1)
  <2>1. PICK p \in 0 .. 1 : p = Pending(serving[1])
    BY DEF Pending
  <2>2. PICK q \in 0 .. 1 : q = Pending(serving[2])
    BY DEF Pending
  <2>3. nextId \in Nat \ {0} /\ nextId + p + q <= MaxUsers + 1 /\ MaxUsers \in Nat
    BY <1>1, <2>1, <2>2, StackAssumption DEF Data, Rows, Rooms
  <2> QED
    BY <2>3
<1>4. /\ DOMAIN users \subseteq 1..(nextId - 1) /\ DOMAIN teams \subseteq Teams
      /\ \A i \in DOMAIN users : users[i].raced \in BOOLEAN
  BY <1>1 DEF Data, Rows
<1>5. ASSUME NEW a \in Actors
      PROVE  /\ tab[a].assets \in {None, 1, 2}
             /\ (tab[a].page = None) = (tab[a].assets = None)
  <2>1. Tab(tab[a])
    BY <1>1 DEF Site, Tabs
  <2>2. None \notin {1, 2}
    BY NoneAssumption
  <2> QED
    BY <2>1, <2>2 DEF Tab
<1> QED
  BY <1>1, <1>2, <1>3, <1>4, <1>5 DEF TypeOK, Remembered

\* The tables, the sessions, the tabs and what is remembered of a client keep
\* their shapes, and no more rows are registered than there is room for,
\* those under way included.
THEOREM StackTypes == Spec => []TypeOK
<1>1. Init => Rooms /\ Remembered
  BY InitRoom, InitRemembered
<1>2. (Site /\ Data) /\ (Site /\ Data)' /\ (Rooms /\ Remembered) /\ [Next]_vars
      => (Rooms /\ Remembered)'
  BY NextRoom, NextRemembered
<1>3. (Site /\ Data) /\ (Rooms /\ Remembered) => TypeOK
  BY AllTyped
<1> QED
  BY <1>1, <1>2, <1>3, DataIsSound, PTL DEF Spec

-----------------------------------------------------------------------------
(***************************************************************************)
(* Rows in their order, and the pages they are cut into                    *)
(***************************************************************************)

UpTo(m) == [i \in 1 .. m |-> i]

LEMMA UpToGrows ==
    ASSUME NEW m \in Nat
    PROVE  UpTo(m) \in Seq(Nat) /\ UpTo(0) = <<>> /\ UpTo(m + 1) = Append(UpTo(m), m + 1)
<1>1. UpTo(m) \in Seq(Nat) /\ UpTo(0) = <<>>
  BY DEF UpTo
<1>2. UpTo(m + 1) = Append(UpTo(m), m + 1)
  BY DEF UpTo
<1> QED
  BY <1>1, <1>2

\* What is kept of the first numbers is as many as there are to keep.
LEMMA AmongCounts ==
    ASSUME NEW set, NEW m \in Nat
    PROVE  /\ Among(UpTo(m), set) \in Seq(Nat)
           /\ Len(Among(UpTo(m), set)) = Cardinality(set \cap (1 .. m))
<1> DEFINE S == {n \in Nat : /\ Among(UpTo(n), set) \in Seq(Nat)
                             /\ Len(Among(UpTo(n), set)) = Cardinality(set \cap (1 .. n))}
<1>1. 0 \in S
  <2>1. UpTo(0) = <<>> /\ Among(<<>>, set) = <<>>
    BY UpToGrows, AmongEmpty
  <2>2. set \cap (1 .. 0) = {} /\ Cardinality({}) = 0
    BY FS_EmptySet
  <2>3. PICK kept : kept = Among(UpTo(0), set)
    OBVIOUS
  <2>4. kept = <<>>
    BY <2>1, <2>3
  <2>5. kept \in Seq(Nat) /\ Len(kept) = 0
    BY <2>4
  <2> QED
    BY <2>2, <2>3, <2>5
<1>2. ASSUME NEW n \in Nat, n \in S PROVE n + 1 \in S
  <2>1. PICK s, kept : s = UpTo(n) /\ kept = Among(s, set)
    OBVIOUS
  <2>2. s \in Seq(Nat) /\ kept \in Seq(Nat) /\ Len(kept) = Cardinality(set \cap (1 .. n))
    BY <1>2, <2>1, UpToGrows
  <2>3. PICK x, more : x = n + 1 /\ more = Among(UpTo(n + 1), set)
    OBVIOUS
  <2>4. x \in Nat /\ UpTo(n + 1) = Append(s, x)
    <3>1. UpTo(n + 1) = Append(UpTo(n), n + 1)
      BY UpToGrows
    <3> QED
      BY <2>1, <2>3, <3>1
  <2>8. more = IF x \in set THEN Append(kept, x) ELSE kept
    <3>1. Among(Append(s, x), set) = IF x \in set THEN Append(kept, x) ELSE kept
      BY <2>1, <2>2, <2>4, AmongAppend, ZenonT(60)
    <3> QED
      BY <2>3, <2>4, <3>1
  <2>5. IsFiniteSet(set \cap (1 .. n)) /\ n + 1 \notin set \cap (1 .. n)
    <3>1. IsFiniteSet(1 .. n)
      BY FS_Interval
    <3> QED
      BY <3>1, FS_Subset
  <2>6. more \in Seq(Nat) /\ Len(more) = Len(kept) + IF x \in set THEN 1 ELSE 0
    BY <2>2, <2>4, <2>8
  <2>7. Cardinality(set \cap (1 .. n + 1)) =
           Cardinality(set \cap (1 .. n)) + IF x \in set THEN 1 ELSE 0
    <3>1. CASE x \in set
      <4>1. set \cap (1 .. n + 1) = (set \cap (1 .. n)) \cup {n + 1}
        BY <2>3, <3>1
      <4> QED
        BY <2>5, <3>1, <4>1, FS_AddElement
    <3>2. CASE x \notin set
      <4>1. set \cap (1 .. n + 1) = set \cap (1 .. n)
        BY <2>3, <3>2
      <4>2. Cardinality(set \cap (1 .. n)) \in Nat
        BY <2>5, FS_CardinalityType
      <4> QED
        BY <3>2, <4>1, <4>2
    <3> QED
      BY <3>1, <3>2
  <2>9. Len(more) = Cardinality(set \cap (1 .. n + 1))
    BY <2>2, <2>6, <2>7
  <2> QED
    BY <2>3, <2>6, <2>9
<1>3. Nat \subseteq S
  <2> HIDE DEF S
  <2> QED
    BY <1>1, <1>2, SetInduction
<1> QED
  BY <1>3

\* Numbers up to a bound have a greatest one.
LEMMA MaxIsGreatest ==
    ASSUME NEW m \in Nat, NEW set \in SUBSET (0 .. m), set # {}
    PROVE  Max(set) \in set /\ \A y \in set : Max(set) >= y
<1> DEFINE Has(t) == \E x \in t : \A y \in t : x >= y
           S == {n \in Nat : \A t \in SUBSET (0 .. n) : t # {} => Has(t)}
<1>1. 0 \in S
  <2>1. ASSUME NEW t \in SUBSET (0 .. 0), t # {} PROVE Has(t)
    <3>1. \A y \in t : y = 0
      BY <2>1
    <3>3. PICK x \in t : TRUE
      BY <2>1
    <3>4. x = 0 /\ \A y \in t : x >= y
      BY <3>1, <3>3
    <3> QED
      BY <3>3, <3>4
  <2> QED
    BY <2>1
<1>2. ASSUME NEW n \in Nat, n \in S PROVE n + 1 \in S
  <2>1. ASSUME NEW t \in SUBSET (0 .. n + 1), t # {} PROVE Has(t)
    <3>1. CASE n + 1 \in t
      <4>1. \A y \in t : n + 1 >= y
        OBVIOUS
      <4> QED
        BY <3>1, <4>1
    <3>2. CASE n + 1 \notin t
      <4>1. t \in SUBSET (0 .. n)
        BY <2>1, <3>2
      <4> QED
        BY <1>2, <2>1, <4>1
    <3> QED
      BY <3>1, <3>2
  <2> QED
    BY <2>1
<1>3. Nat \subseteq S
  <2> HIDE DEF S
  <2> QED
    BY <1>1, <1>2, SetInduction
<1>4. Has(set)
  BY <1>3
<1> QED
  BY <1>4 DEF Max

\* A table's rows in order are as many as its keys.
LEMMA InOrderCounts ==
    ASSUME NEW m \in Nat, NEW ids \in SUBSET (1 .. m)
    PROVE  InOrder(ids) \in Seq(Nat) /\ Len(InOrder(ids)) = Cardinality(ids)
<1>1. PICK top : top = Max(ids \cup {0})
  OBVIOUS
<1>2. ids \cup {0} \in SUBSET (0 .. m) /\ ids \cup {0} # {}
  OBVIOUS
<1>3. top \in ids \cup {0} /\ \A y \in ids \cup {0} : top >= y
  BY <1>1, <1>2, MaxIsGreatest
<1>4. top \in Nat
  BY <1>2, <1>3
<1>6. ids \cap (1 .. top) = ids
  <2>1. \A y \in ids : y \in 1 .. top
    BY <1>3, <1>4
  <2> QED
    BY <2>1
<1>5. InOrder(ids) = Among(UpTo(top), ids)
  BY <1>1 DEF InOrder, UpTo
<1> QED
  BY <1>4, <1>5, <1>6, AmongCounts

LEMMA TimesMonotone ==
    ASSUME NEW per \in Nat, NEW i \in Nat, NEW j \in Nat, i <= j
    PROVE  i * per <= j * per /\ i * per \in Nat /\ j * per \in Nat
<1>1. PICK d \in Nat : j = i + d
  <2>1. j - i \in Nat /\ j = i + (j - i)
    OBVIOUS
  <2> QED
    BY <2>1
<1>2. d * per \in Nat /\ i * per \in Nat
  OBVIOUS
<1>3. (i + d) * per = i * per + d * per
  OBVIOUS
<1> QED
  BY <1>1, <1>2, <1>3

LEMMA NumPagesIs ==
    ASSUME NEW total \in Nat, NEW per \in Nat \ {0}
    PROVE  LET k == NumPages(total, per)
           IN  k \in Nat /\ k * per <= total + per - 1 /\ total + per - 1 < k * per + per
<1>1. PICK n \in Nat : n = total + per - 1
  OBVIOUS
<1>2. n \div per \in Nat /\ per * (n \div per) + (n % per) = n /\ n % per \in 0 .. per - 1
  OBVIOUS
<1>3. PICK k \in Nat : k = n \div per
  BY <1>2
<1>4. per * k = k * per
  OBVIOUS
<1>5. k * per <= n /\ n < k * per + per
  BY <1>2, <1>3, <1>4
<1> QED
  BY <1>1, <1>3, <1>5 DEF NumPages

FinalPage(total, per) == AtLeastOne(NumPages(total, per))
Before(page, per) == (page - 1) * per

\* Where a page begins, and what the total says of it.
LEMMA PageBounds ==
    ASSUME NEW total \in Nat, NEW per \in Nat \ {0}, NEW page \in Nat \ {0},
           NEW final, final = FinalPage(total, per),
           NEW before, before = Before(page, per)
    PROVE  /\ final \in Nat \ {0} /\ before \in Nat
           /\ page < final => before + per < total
           /\ page = final => IF total = 0 THEN before = 0
                             ELSE before < total /\ total <= before + per
           /\ page > final => total <= before
<1>1. PICK k : k = NumPages(total, per)
  OBVIOUS
<1>2. k \in Nat /\ k * per <= total + per - 1 /\ total + per - 1 < k * per + per
  BY <1>1, NumPagesIs
<1>3. final = IF k = 0 THEN 1 ELSE k
  BY <1>1 DEF AtLeastOne, FinalPage
<1>4. PICK i \in Nat : i = page - 1
  OBVIOUS
<1>5. before \in Nat /\ before = i * per /\ final \in Nat \ {0}
  BY <1>2, <1>3, <1>4, TimesMonotone DEF Before
<1>6. PICK m \in Nat : m = k * per
  BY <1>2, TimesMonotone
<1>7. PICK b \in Nat : b = i * per
  BY <1>5
<1>8. ASSUME page < final PROVE b + per < total
  <2>1. i + 2 <= k
    BY <1>2, <1>3, <1>4, <1>8
  <2>2. (i + 2) * per <= k * per /\ (i + 2) * per = i * per + per + per
    BY <1>2, <2>1, TimesMonotone
  <2> QED
    BY <1>2, <1>6, <1>7, <2>2
<1>9. ASSUME page = final
      PROVE  IF total = 0 THEN b = 0 ELSE b < total /\ total <= b + per
  <2>1. CASE k = 0
    <3>1. i = 0 /\ b = 0 /\ m = 0
      BY <1>3, <1>4, <1>6, <1>7, <1>9, <2>1
    <3>2. total < 1
      BY <1>2, <1>6, <3>1
    <3> QED
      BY <3>1, <3>2
  <2>2. CASE k # 0
    <3>1. k = i + 1
      BY <1>2, <1>3, <1>4, <1>9, <2>2
    <3>2. (i + 1) * per = i * per + per
      OBVIOUS
    <3>3. m = b + per
      BY <1>6, <1>7, <3>1, <3>2
    <3> QED
      BY <1>2, <1>6, <3>3
  <2> QED
    BY <2>1, <2>2
<1>10. ASSUME page > final PROVE total <= b
  <2>1. k <= i
    BY <1>2, <1>3, <1>4, <1>10
  <2>2. k * per <= i * per
    BY <1>2, <2>1, TimesMonotone
  <2> QED
    BY <1>2, <1>6, <1>7, <2>2
<1> QED
  BY <1>5, <1>7, <1>8, <1>9, <1>10

\* The rows of a page.
LEMMA FetchPageIs ==
    ASSUME NEW selected \in Seq(Nat), NEW per \in Nat \ {0}, NEW page \in Nat \ {0},
           NEW before, before = Before(page, per)
    PROVE  LET data == FetchPage(selected, page - 1, per)
           IN  /\ Len(data) = IF Len(selected) <= before THEN 0
                              ELSE IF before + per < Len(selected) THEN per
                                   ELSE Len(selected) - before
               /\ Len(selected) <= before => data = <<>>
<1>1. PICK i \in Nat : i = page - 1
  OBVIOUS
<1>2. before = i * per /\ i * per \in Nat /\ (i + 1) * per = before + per
  <2>1. i * per \in Nat /\ (i + 1) * per = i * per + per
    OBVIOUS
  <2>2. before = i * per
    BY <1>1 DEF Before
  <2> QED
    BY <2>1, <2>2
<1>2a. PICK b \in Nat : b = before
  BY <1>2
<1>3. PICK n \in Nat : b = before /\ n = Len(selected)
  BY <1>2a
<1>4. PICK to \in Nat : to = IF b + per < n THEN b + per ELSE n
  OBVIOUS
<1>5. FetchPage(selected, page - 1, per) = SubSeq(selected, b + 1, to)
  BY <1>1, <1>2, <1>3, <1>4 DEF FetchPage
<1>6. \A j \in (b + 1) .. to : selected[j] \in Nat
  BY <1>3, <1>4
<1>7. Len(SubSeq(selected, b + 1, to)) = IF b + 1 <= to THEN to - (b + 1) + 1 ELSE 0
  BY <1>6, SubSeqProperties
<1>8. to < b + 1 => SubSeq(selected, b + 1, to) = <<>>
  BY SubSeqEmpty
<1>9. PICK data : data = FetchPage(selected, page - 1, per)
  OBVIOUS
<1>10. /\ Len(data) = IF b + 1 <= to THEN to - b ELSE 0
       /\ to < b + 1 => data = <<>>
  BY <1>5, <1>7, <1>8, <1>9
<1>11. /\ Len(data) = IF n <= b THEN 0 ELSE IF b + per < n THEN per ELSE n - b
       /\ n <= b => data = <<>>
  BY <1>4, <1>10
<1> QED
  BY <1>3, <1>9, <1>11

\* What a listing promises of its page and its counters.
AddsUp(w, id) ==
    LET p == Paginated(w.data, id, PerPage, w.total)
        before == (p.page - 1) * PerPage
    IN /\ Len(p.data) <= PerPage /\ p.last_page >= 1
       /\ HasMore(p) /\ ~w.gone => Len(p.data) = PerPage
       /\ p.page = p.last_page /\ ~w.came /\ ~w.gone =>
             before + Len(p.data) = p.total
       /\ p.page > p.last_page /\ ~w.came => p.data = <<>>

\* Between its two queries: no row fewer unless one went, none more unless one
\* came.
Tallied(w, n) ==
    /\ w.total \in Nat /\ w.came \in BOOLEAN /\ w.gone \in BOOLEAN
    /\ w.gone = FALSE => w.total <= n
    /\ w.came = FALSE => n <= w.total

Counted(s) ==
    /\ s.pc = "fetch" => Tallied(s.work, Cardinality(DOMAIN users))
    /\ /\ s.action = "users.index"
       /\ s.pc = "load" \/ (s.pc = "answer" /\ ~I!IsErr(s.ctx.outcome))
       => AddsUp(s.work, s.req.id)

Counts == \A a \in Actors : Counted(serving[a])

LEMMA RowsAreFinite ==
    ASSUME Rows
    PROVE  IsFiniteSet(DOMAIN users) /\ Cardinality(DOMAIN users) \in Nat
<1>1. nextId - 1 \in Nat /\ DOMAIN users \subseteq 1 .. (nextId - 1)
  BY DEF Rows
<1>2. IsFiniteSet(1 .. (nextId - 1))
  BY <1>1, FS_Interval
<1> QED
  BY <1>1, <1>2, FS_Subset, FS_CardinalityType

\* The page of a listing, cut from the n rows there are.
CutFrom(selected, n, id, w) ==
    /\ selected \in Seq(Nat) /\ Len(selected) = n
    /\ w.data = FetchPage(selected, PageIndex(id), PerPage)

LEMMA PageAddsUp ==
    ASSUME NEW n \in Nat, NEW id \in Nat, NEW w, Tallied(w, n),
           NEW selected, CutFrom(selected, n, id, w)
    PROVE  AddsUp(w, id)
<1>1. PICK page \in Nat \ {0} : page = AtLeastOne(id)
  BY DEF AtLeastOne
<1>2. PICK per \in Nat \ {0} : per = PerPage
  BY StackAssumption
<1>3. PICK total \in Nat : total = w.total
  BY DEF Tallied
<1>4. PICK final : final = FinalPage(total, per)
  OBVIOUS
<1>4a. PICK before : before = Before(page, per)
  OBVIOUS
<1>5. /\ final \in Nat \ {0} /\ before \in Nat
      /\ page < final => before + per < total
      /\ page = final => IF total = 0 THEN before = 0
                        ELSE before < total /\ total <= before + per
      /\ page > final => total <= before
  <2>1. total \in Nat /\ per \in Nat \ {0} /\ page \in Nat \ {0}
    OBVIOUS
  <2> QED
    BY <1>4, <1>4a, <2>1, PageBounds
<1>6. PICK data : data = w.data
  OBVIOUS
<1>7. /\ Len(data) = IF n <= before THEN 0 ELSE IF before + per < n THEN per ELSE n - before
      /\ n <= before => data = <<>>
  <2>1. data = FetchPage(selected, page - 1, per)
    BY <1>1, <1>2, <1>6 DEF PageIndex, CutFrom
  <2>2. selected \in Seq(Nat) /\ Len(selected) = n
    BY DEF CutFrom
  <2> QED
    BY <1>4a, <2>1, <2>2, FetchPageIs
<1>8. PICK p : p = Paginated(data, id, per, total)
  OBVIOUS
<1>9. p.data = data /\ p.page = page /\ p.total = total /\ p.last_page = final
  BY <1>1, <1>4, <1>8 DEF Paginated, FinalPage
<1>10. Len(data) <= per /\ final >= 1
  BY <1>5, <1>7
<1>11. ASSUME page < final, ~w.gone PROVE Len(data) = per
  <2>1. total <= n
    BY <1>3, <1>11 DEF Tallied
  <2> QED
    BY <1>5, <1>7, <1>11, <2>1
<1>12. ASSUME page = final, ~w.came, ~w.gone PROVE before + Len(data) = total
  <2>1. total = n
    BY <1>3, <1>12 DEF Tallied
  <2> QED
    BY <1>5, <1>7, <1>12, <2>1
<1>13. ASSUME page > final, ~w.came PROVE data = <<>>
  <2>1. n <= total
    BY <1>3, <1>13 DEF Tallied
  <2> QED
    BY <1>5, <1>7, <1>13, <2>1
<1>14. before = (p.page - 1) * PerPage
  BY <1>2, <1>4a, <1>9 DEF Before
<1> QED
  BY <1>2, <1>3, <1>6, <1>8, <1>9, <1>10, <1>11, <1>12, <1>13, <1>14 DEF AddsUp, HasMore

LEMMA AddsUpOf ==
    ASSUME NEW v, NEW w, NEW id, AddsUp(v, id), w.data = v.data, w.total = v.total,
           w.came = v.came, w.gone = v.gone
    PROVE  AddsUp(w, id)
BY DEF AddsUp

\* A request that lists nothing has nothing to count.
LEMMA NotListing ==
    ASSUME NEW b, serving'[b].pc # "fetch", serving'[b].action # "users.index"
    PROVE  Counted(serving[b])'
BY DEF Counted

LEMMA OneListsOn ==
    ASSUME Counts, UNCHANGED users, NEW a \in Actors,
           \A b \in Actors : b # a => serving'[b] = serving[b],
           Counted(serving[a])'
    PROVE  Counts'
<1>1. ASSUME NEW b \in Actors, b # a PROVE Counted(serving[b])'
  <2>1. Counted(serving[b]) /\ serving'[b] = serving[b]
    BY <1>1 DEF Counts
  <2> QED
    BY <2>1 DEF Counted
<1> QED
  BY <1>1 DEF Counts

LEMMA CountCounts ==
    ASSUME Counts, Rows, ApiServings, NEW a \in Actors, Count(a)
    PROVE  Counts'
<1>1. users' = users
  BY DEF Count, tables
<1>2. PICK t, w : t = serving'[a] /\ w = t.work
  OBVIOUS
<1>4. PICK n \in Nat : n = Cardinality(DOMAIN users)
  BY RowsAreFinite
<1>3. t.pc = "fetch" /\ w.total = n /\ w.came = FALSE /\ w.gone = FALSE
  <2>1. /\ serving'[a].pc = "fetch" /\ serving'[a].work.total = Cardinality(DOMAIN users)
        /\ serving'[a].work.came = FALSE /\ serving'[a].work.gone = FALSE
    BY CountStep
  <2> QED
    BY <1>2, <1>4, <2>1, Zenon
<1>5. Tallied(w, n)
  <2>1. w.total = n
    BY <1>3, Zenon
  <2>2. w.total \in Nat /\ w.total <= n /\ n <= w.total
    BY <2>1
  <2>3. w.came \in BOOLEAN /\ w.gone \in BOOLEAN
    BY <1>3, Zenon
  <2> QED
    BY <2>2, <2>3, Zenon DEF Tallied
<1>6. t.pc # "load" /\ t.pc # "answer"
  BY <1>3
<1>7. Counted(serving[a])'
  BY <1>1, <1>2, <1>3, <1>4, <1>5, <1>6 DEF Counted
<1> QED
  BY <1>1, <1>7, CountStep, OneListsOn

LEMMA FetchCounts ==
    ASSUME Counts, Rows, ApiServings, NEW a \in Actors, Fetch(a)
    PROVE  Counts'
<1>1. users' = users /\ serving[a].pc = "fetch"
  BY DEF Fetch, At, tables
<1>2. PICK s, t : s = serving[a] /\ t = serving'[a]
  OBVIOUS
<1>3. PICK selected, n : selected = InOrder(DOMAIN users) /\ n = Cardinality(DOMAIN users)
  OBVIOUS
<1>4. n \in Nat /\ selected \in Seq(Nat) /\ Len(selected) = n
  <2>1. nextId - 1 \in Nat /\ DOMAIN users \in SUBSET (1 .. (nextId - 1))
    BY DEF Rows
  <2> QED
    BY <1>3, <2>1, InOrderCounts, RowsAreFinite
<1>5. Tallied(s.work, n)
  BY <1>1, <1>2, <1>3 DEF Counts, Counted
<1>6. /\ SameService(s, t) /\ t.pc \in {"load", "answer"}
      /\ t.work.data = FetchPage(selected, PageIndex(s.req.id), PerPage)
      /\ t.work.total = s.work.total
      /\ t.work.came = s.work.came /\ t.work.gone = s.work.gone
  BY <1>2, <1>3, FetchStep
<1>7. Tallied(t.work, n)
  BY <1>5, <1>6 DEF Tallied
<1>8. t.req = s.req /\ s.req.id \in Nat
  <2>1. Acts(s) /\ s.pc = "fetch"
    BY <1>1, <1>2, AtWork DEF ApiServings, Acting
  <2>2. s.req.id \in Nat
    BY <2>1 DEF Acts
  <2> QED
    BY <1>6, <2>2 DEF SameService
<1>9. AddsUp(t.work, t.req.id)
  <2>1. PICK w, id : w = t.work /\ id = t.req.id
    OBVIOUS
  <2>2. CutFrom(selected, n, id, w) /\ id \in Nat /\ Tallied(w, n)
    BY <1>4, <1>6, <1>7, <1>8, <2>1 DEF CutFrom
  <2>3. AddsUp(w, id)
    BY <1>4, <2>2, PageAddsUp
  <2> QED
    BY <2>1, <2>3
<1>10. Counted(serving[a])'
  BY <1>2, <1>6, <1>9 DEF Counted
<1> QED
  BY <1>1, <1>10, FetchStep, OneListsOn

LEMMA LoadTeamCounts ==
    ASSUME Counts, ApiServings, NEW a \in Actors, LoadTeam(a)
    PROVE  Counts'
<1>1. users' = users /\ serving[a].pc = "load"
  BY DEF LoadTeam, At, tables
<1>2. PICK s, t : s = serving[a] /\ t = serving'[a]
  OBVIOUS
<1>3. /\ SameService(s, t) /\ t.pc = "answer" /\ t.work.data = s.work.data
      /\ t.work.total = s.work.total
      /\ t.work.came = s.work.came /\ t.work.gone = s.work.gone
  BY <1>2, LoadTeamStep
<1>4. t.req = s.req /\ t.action = s.action
  BY <1>3 DEF SameService
<1>5. Counted(s)
  BY <1>2 DEF Counts
<1>6. t.action = "users.index" => AddsUp(t.work, t.req.id)
  <2>1. SUFFICES ASSUME t.action = "users.index" PROVE AddsUp(t.work, t.req.id)
    OBVIOUS
  <2>2. AddsUp(s.work, s.req.id)
    BY <1>1, <1>2, <1>4, <1>5, <2>1 DEF Counted
  <2>3. PICK v, w, id : v = s.work /\ w = t.work /\ id = s.req.id
    OBVIOUS
  <2>4. AddsUp(w, id)
    BY <1>3, <2>2, <2>3, AddsUpOf
  <2> QED
    BY <1>4, <2>3, <2>4
<1>7. Counted(serving[a])'
  BY <1>2, <1>3, <1>6 DEF Counted
<1> QED
  BY <1>1, <1>7, LoadTeamStep, OneListsOn

\* A request that lists nothing now goes on listing nothing.
LEMMA OthersNotListing ==
    ASSUME NEW b, Serves(serving[b]), serving[b].pc \in {"check", "insert", "update"},
           Reworked(serving[b], serving'[b])
    PROVE  Counted(serving[b])'
<1>1. serving'[b].pc \notin {"fetch", "load", "answer"}
  BY DEF Reworked
<1> QED
  BY <1>1 DEF Counted

\* A listing under way that a row was written beside.
LEMMA CameBy ==
    ASSUME NEW v, NEW w, NEW n \in Nat, NEW m \in Nat, Tallied(v, n), n <= m,
           w.total = v.total, w.gone = v.gone, w.came = TRUE
    PROVE  Tallied(w, m)
<1>1. w.came \in BOOLEAN /\ w.came # FALSE /\ w.gone \in BOOLEAN
  BY Zenon DEF Tallied
<1>2. w.total \in Nat
  BY DEF Tallied
<1>3. w.gone = FALSE => w.total <= m
  <2>1. w.gone = FALSE => v.gone = FALSE
    BY Zenon
  <2> QED
    BY <2>1 DEF Tallied
<1> QED
  BY <1>1, <1>2, <1>3 DEF Tallied

\* A listing under way that a row was removed beside.
LEMMA WentBy ==
    ASSUME NEW v, NEW w, NEW n \in Nat, NEW m \in Nat, Tallied(v, n), m <= n,
           w.total = v.total, w.came = v.came, w.gone = TRUE
    PROVE  Tallied(w, m)
<1>1. w.gone \in BOOLEAN /\ w.gone # FALSE /\ w.came \in BOOLEAN
  BY Zenon DEF Tallied
<1>2. w.total \in Nat
  BY DEF Tallied
<1>3. w.came = FALSE => m <= w.total
  <2>1. w.came = FALSE => v.came = FALSE
    BY Zenon
  <2> QED
    BY <2>1 DEF Tallied
<1> QED
  BY <1>1, <1>2, <1>3 DEF Tallied

LEMMA OthersCount ==
    ASSUME Counts, ApiServings, NEW a, NEW email, NEW row, NEW b \in Actors, b # a,
           serving'[b] = Overtaken(a, email, row)[b],
           NEW n \in Nat, n = Cardinality(DOMAIN users),
           NEW m \in Nat, m = Cardinality(DOMAIN users'), n <= m
    PROVE  Counted(serving[b])'
<1>1. PICK s, t : s = serving[b] /\ t = serving'[b]
  OBVIOUS
<1>2. Serves(s) /\ Counted(s)
  BY <1>1 DEF ApiServings, Counts
<1>3. \/ t = s /\ s.pc # "fetch"
      \/ s.pc \in {"check", "insert", "update"} /\ Reworked(s, t)
      \/ s.pc = "fetch" /\ Reworked(s, t) /\ t.work = [s.work EXCEPT !.came = TRUE]
  BY <1>1, <1>2, OvertakenIs
<1>4. CASE t = s /\ s.pc # "fetch"
  BY <1>1, <1>2, <1>4 DEF Counted
<1>5. CASE s.pc \in {"check", "insert", "update"} /\ Reworked(s, t)
  BY <1>1, <1>2, <1>5, OthersNotListing
<1>6. CASE s.pc = "fetch" /\ Reworked(s, t) /\ t.work = [s.work EXCEPT !.came = TRUE]
  <2>1. PICK v, w : v = s.work /\ w = t.work
    OBVIOUS
  <2>2. IsWork(v)
    BY <1>2, <1>6, <2>1, AtWork DEF IsService
  <2>3. w.total = v.total /\ w.gone = v.gone /\ w.came = TRUE
    BY <1>6, <2>1, <2>2 DEF IsWork
  <2>4. Tallied(v, n)
    BY <1>2, <1>6, <2>1 DEF Counted
  <2>5. Tallied(w, m)
    BY <2>3, <2>4, CameBy
  <2>6. t.pc = "fetch"
    BY <1>6 DEF Reworked
  <2> QED
    BY <1>1, <2>1, <2>5, <2>6 DEF Counted
<1> QED
  BY <1>3, <1>4, <1>5, <1>6

\* One request writes or removes, and lists nothing itself.
LEMMA WriterCounts ==
    ASSUME Counts, ApiServings, NEW a \in Actors,
           SameService(serving[a], serving'[a]), serving'[a].pc # "fetch",
           serving[a].pc \in {"insert", "update", "delete", "check", "find", "after",
                              "all", "members"}
    PROVE  Counted(serving[a])'
<1>1. PICK s : s = serving[a]
  OBVIOUS
<1>2. Acts(s)
  BY <1>1, AtWork DEF ApiServings, Acting
<1>3. s.action # "users.index"
  BY <1>1, <1>2 DEF Acts
<1>4. serving'[a].action # "users.index"
  BY <1>1, <1>3 DEF SameService
<1> QED
  BY <1>4, NotListing

LEMMA InsertCounts ==
    ASSUME Counts, Rows, ApiServings, NEW a \in Actors, Insert(a)
    PROVE  Counts'
<1>1. serving[a].pc = "insert"
  BY DEF Insert, At
<1>2. PICK n \in Nat : n = Cardinality(DOMAIN users)
  BY RowsAreFinite
<1>3. PICK id, row : id = nextId /\ users' = WithKey(users, id, row)
  BY DEF Insert
<1>4. PICK m \in Nat : m = Cardinality(DOMAIN users') /\ n <= m
  <2>1. DOMAIN users' = DOMAIN users \cup {id}
    BY <1>3 DEF WithKey
  <2>2. IsFiniteSet(DOMAIN users)
    BY RowsAreFinite
  <2>3. Cardinality(DOMAIN users \cup {id}) \in {Cardinality(DOMAIN users), Cardinality(DOMAIN users) + 1}
    BY <2>2, FS_AddElement
  <2> QED
    BY <1>2, <2>1, <2>3
<1>5. ASSUME NEW b \in Actors, b # a PROVE Counted(serving[b])'
  <2>1. PICK email : email = serving[a].req.body.email
    OBVIOUS
  <2>2. serving'[b] = Overtaken(a, email, id)[b]
    BY <1>3, <1>5, <2>1, InsertStep
  <2> QED
    BY <1>2, <1>4, <1>5, <2>2, OthersCount
<1>6. SameService(serving[a], serving'[a]) /\ serving'[a].pc # "fetch"
  BY InsertStep
<1>7. Counted(serving[a])'
  BY <1>1, <1>6, WriterCounts
<1> QED
  BY <1>5, <1>7 DEF Counts

LEMMA UpdateCounts ==
    ASSUME Counts, Rows, ApiServings, NEW a \in Actors, Update(a)
    PROVE  Counts'
<1>1. serving[a].pc = "update"
  BY DEF Update, At
<1>2. PICK n \in Nat : n = Cardinality(DOMAIN users)
  BY RowsAreFinite
<1>3. PICK i : i = serving[a].req.id
  OBVIOUS
<1>4. SameService(serving[a], serving'[a]) /\ serving'[a].pc # "fetch"
  BY UpdateStep
<1>5. Counted(serving[a])'
  BY <1>1, <1>4, WriterCounts
<1>6. CASE i \notin DOMAIN users
  <2>1. users' = users
    BY <1>3, <1>6 DEF Update
  <2>2. \A b \in Actors : b # a => serving'[b] = serving[b]
    BY <1>3, <1>6, UpdateStep
  <2> QED
    BY <1>5, <2>1, <2>2, OneListsOn
<1>7. CASE i \in DOMAIN users
  <2>1. DOMAIN users' = DOMAIN users
    <3>1. PICK row : users' = [users EXCEPT ![i] = row]
      BY <1>3, <1>7 DEF Update
    <3> QED
      BY <3>1
  <2>2. n = Cardinality(DOMAIN users') /\ n <= n
    BY <1>2, <2>1
  <2>3. ASSUME NEW b \in Actors, b # a PROVE Counted(serving[b])'
    <3>1. PICK email : email = serving[a].req.body.email
      OBVIOUS
    <3>2. serving'[b] = Overtaken(a, email, i)[b]
      BY <1>3, <1>7, <2>3, <3>1, UpdateStep
    <3> QED
      BY <1>2, <2>2, <2>3, <3>2, OthersCount
  <2> QED
    BY <1>5, <2>3 DEF Counts
<1> QED
  BY <1>6, <1>7

LEMMA DeleteCounts ==
    ASSUME Counts, Rows, ApiServings, NEW a \in Actors, Delete(a)
    PROVE  Counts'
<1>1. serving[a].pc = "delete"
  BY DEF Delete, At
<1>2. PICK n \in Nat : n = Cardinality(DOMAIN users)
  BY RowsAreFinite
<1>3. DOMAIN users' \in SUBSET DOMAIN users
  <2>1. CASE serving[a].action = "teams.destroy"
    BY <2>1 DEF Delete
  <2>2. CASE serving[a].action # "teams.destroy"
    <3>1. PICK i : users' = WithoutKey(users, i)
      BY <2>2 DEF Delete
    <3> QED
      BY <3>1 DEF WithoutKey
  <2> QED
    BY <2>1, <2>2
<1>4. PICK m \in Nat : m = Cardinality(DOMAIN users') /\ m <= n
  <2>1. IsFiniteSet(DOMAIN users)
    BY RowsAreFinite
  <2>2. IsFiniteSet(DOMAIN users') /\ Cardinality(DOMAIN users') <= Cardinality(DOMAIN users)
    BY <1>3, <2>1, FS_Subset
  <2>3. Cardinality(DOMAIN users') \in Nat
    BY <2>2, FS_CardinalityType
  <2> QED
    BY <1>2, <2>2, <2>3
<1>5. ASSUME NEW b \in Actors, b # a PROVE Counted(serving[b])'
  <2>1. PICK s, t : s = serving[b] /\ t = serving'[b]
    OBVIOUS
  <2>2. Serves(s) /\ Counted(s)
    BY <2>1 DEF ApiServings, Counts
  <2>3. \/ t = s /\ (s.pc = "fetch" => users' = users)
        \/ s.pc = "fetch" /\ t = SetGone(s, TRUE)
    BY <1>5, <2>1, DeleteStep
  <2>4. CASE t = s /\ (s.pc = "fetch" => users' = users)
    BY <2>1, <2>2, <2>4 DEF Counted
  <2>5. CASE s.pc = "fetch" /\ t = SetGone(s, TRUE)
    <3>1. IsService(s)
      BY <2>2, <2>5, AtWork
    <3>2. PICK yes : yes = TRUE
      OBVIOUS
    <3>3. Reworked(s, SetGone(s, yes)) /\ SetGone(s, yes).work = [s.work EXCEPT !.gone = yes]
      BY <3>1, SetsGone
    <3>4. Reworked(s, t) /\ t.work = [s.work EXCEPT !.gone = TRUE]
      BY <2>5, <3>2, <3>3, Zenon
    <3>5. PICK v, w : v = s.work /\ w = t.work
      OBVIOUS
    <3>6. IsWork(v)
      BY <3>1, <3>5 DEF IsService
    <3>7. w.total = v.total /\ w.came = v.came /\ w.gone = TRUE
      BY <3>4, <3>5, <3>6 DEF IsWork
    <3>8. Tallied(v, n)
      BY <1>2, <2>2, <2>5, <3>5 DEF Counted
    <3>9. Tallied(w, m)
      BY <1>4, <3>7, <3>8, WentBy
    <3>10. t.pc = "fetch"
      BY <2>5, <3>4 DEF Reworked
    <3> QED
      BY <1>4, <2>1, <3>5, <3>9, <3>10 DEF Counted
  <2> QED
    BY <2>3, <2>4, <2>5
<1>6. SameService(serving[a], serving'[a]) /\ serving'[a].pc # "fetch"
  BY DeleteStep
<1>7. Counted(serving[a])'
  BY <1>1, <1>6, WriterCounts
<1> QED
  BY <1>5, <1>7 DEF Counts

\* A statement of an action that lists nothing, and leaves the rows alone.
LEMMA OtherCounts ==
    ASSUME Counts, ApiServings, NEW a \in Actors,
           Check(a) \/ Find(a) \/ RefuseWrite(a) \/ AfterHooks(a) \/ All(a) \/ LoadMembers(a)
    PROVE  Counts'
<1>1. users' = users
  BY DEF Check, Find, RefuseWrite, AfterHooks, All, LoadMembers, tables
<1>2. serving[a].pc \in {"check", "find", "insert", "update", "after", "all", "members"}
  BY DEF Check, Find, RefuseWrite, AfterHooks, All, LoadMembers, At
<1>3. /\ SameService(serving[a], serving'[a])
      /\ \A b \in Actors : b # a => serving'[b] = serving[b]
  BY CheckStep, FindStep, RefuseWriteStep, AfterHooksStep, AllStep, LoadMembersStep
<1>4. serving[a].action # "users.index" /\ serving'[a].action = serving[a].action
  <2>1. PICK s : s = serving[a]
    OBVIOUS
  <2>2. Acts(s)
    BY <1>2, <2>1, AtWork DEF ApiServings, Acting
  <2> QED
    BY <1>2, <1>3, <2>1, <2>2 DEF Acts, SameService
<1>5. serving'[a].pc # "fetch"
  <2>1. PICK t : t = serving'[a]
    OBVIOUS
  <2>2. ApiServings'
    BY CheckStep, FindStep, RefuseWriteStep, AfterHooksStep, AllStep, LoadMembersStep
  <2>3. Serves(t)
    BY <2>1, <2>2 DEF ApiServings
  <2>4. t.pc = "fetch" => Acts(t)
    BY <2>3, AtWork DEF Acting
  <2> QED
    BY <1>4, <2>1, <2>4 DEF Acts
<1>6. Counted(serving[a])'
  BY <1>4, <1>5, NotListing
<1> QED
  BY <1>1, <1>3, <1>6, OneListsOn

LEMMA StatementCounts ==
    ASSUME Counts, Rows, ApiServings, NEW a \in Actors, Statement(a)
    PROVE  Counts'
BY InsertCounts, UpdateCounts, DeleteCounts, CountCounts, FetchCounts, LoadTeamCounts,
   OtherCounts DEF Statement

LEMMA SendCounts ==
    ASSUME Counts, ApiServings, ~setting.browser, NEW a \in Actors, Send(a)
    PROVE  Counts'
<1>1. users' = users
  BY DEF Send, tables
<1>2. /\ Fresh(serving'[a]) /\ \A b \in Actors : b # a => serving'[b] = serving[b]
  BY SendStep
<1>3. PICK t : t = serving'[a]
  OBVIOUS
<1>4. /\ t.pc \notin {"fetch", "load"}
      /\ t.pc = "answer" /\ t.action = "users.index" => I!IsErr(t.ctx.outcome)
  BY <1>2, <1>3 DEF Fresh
<1>5. Counted(serving[a])'
  BY <1>3, <1>4 DEF Counted
<1> QED
  BY <1>1, <1>2, <1>5, OneListsOn

\* A request that is over counts nothing.
LEMMA IdleCounts ==
    ASSUME NEW b, serving'[b].pc = "idle"
    PROVE  Counted(serving[b])'
BY DEF Counted

LEMMA AnswerCounts ==
    ASSUME Counts, ApiServings, ApiTabs, ~setting.browser, NEW a \in Actors, Answer(a)
    PROVE  Counts'
<1>1. users' = users
  BY DEF Answer, tables
<1>2. serving'[a].pc = "idle" /\ \A b \in Actors : b # a => serving'[b] = serving[b]
  BY ApiAnswerStep, IdlePc
<1>3. Counted(serving[a])'
  BY <1>2, IdleCounts
<1> QED
  BY <1>1, <1>2, <1>3, OneListsOn

LEMMA InitCounts == Init => Counts
<1>1. SUFFICES ASSUME Init PROVE Counts
  OBVIOUS
<1>2. \A a \in Actors : serving[a].pc = "idle"
  BY <1>1, IdlePc DEF Init
<1> QED
  BY <1>2 DEF Counts, Counted

LEMMA NextCounts == Site /\ Data /\ Counts /\ [Next]_vars => Counts'
<1>1. SUFFICES ASSUME Site, Data, Counts, [Next]_vars PROVE Counts'
  OBVIOUS
<1>2. CASE UNCHANGED vars
  <2>1. users' = users /\ serving' = serving
    BY <1>2 DEF vars
  <2> QED
    BY <1>1, <2>1 DEF Counts, Counted
<1>3. CASE Deploy
  <2>1. \A a \in Actors : serving'[a].pc = "idle"
    BY <1>3, DeployIdles, IdlePc
  <2> QED
    BY <2>1, IdleCounts DEF Counts
<1>4. ASSUME NEW a \in Actors, Send(a) \/ FollowUp(a) \/ Answer(a) \/ Statement(a)
      PROVE  Counts'
  <2>1. CASE setting.browser
    <3>1. ~Statement(a)
      BY <1>1, <2>1, WebStatements, StatementAt
    <3>2. setting' = setting
      BY <1>4, <3>1 DEF Send, FollowUp, Answer
    <3>3. Site' /\ setting'.browser
      BY <1>1, <2>1, <3>2, NextSite
    <3>4. ASSUME NEW b \in Actors PROVE Counted(serving[b])'
      <4>1. serving'[b] = Idle \/ (serving'[b].pc = "answer" /\ serving'[b].action \in PageActions)
        BY <3>3 DEF Site, Servings, PageServings, PageService
      <4>2. CASE serving'[b] = Idle
        BY <4>2, IdlePc, IdleCounts
      <4>3. CASE serving'[b].pc = "answer" /\ serving'[b].action \in PageActions
        BY <4>3, NotListing DEF PageActions
      <4> QED
        BY <4>1, <4>2, <4>3
    <3> QED
      BY <3>4 DEF Counts
  <2>2. CASE ~setting.browser
    <3>1. ApiServings /\ ApiTabs /\ Rows
      BY <1>1, <2>2 DEF Site, Servings, Data
    <3> QED
      BY <1>1, <1>4, <2>2, <3>1, ApiFollowsNothing, SendCounts, AnswerCounts, StatementCounts
  <2> QED
    BY <2>1, <2>2
<1> QED
  BY <1>1, <1>2, <1>3, <1>4, NextIs

\* An answer that failed is not a 200.
LEMMA FailedIsNotOk ==
    ASSUME NEW s, ApiService(s), s.pc = "answer", Written(Left(s).outcome).status = 200
    PROVE  ~I!IsErr(s.ctx.outcome)
<1>1. Left(s) = s.ctx /\ Answered(s)
  <2>1. ~Acting(s)
    BY DEF Acting, Acts
  <2> QED
    BY <2>1, ApiLeft DEF ApiService
<1>2. CASE Fails(s, Failures)
  <2>1. PICK k \in Failures : \E f : s.ctx.outcome = I!Err(k, f)
    BY <1>2 DEF Fails
  <2>2. PICK f : s.ctx.outcome = I!Err(k, f)
    BY <2>1
  <2>3. PICK o : o = s.ctx.outcome
    OBVIOUS
  <2>4. o.kind = k /\ I!IsErr(o)
    BY <2>1, <2>2, <2>3 DEF I!Err, I!IsErr, Failures
  <2>5. Written(Left(s).outcome).status = I!StatusOf(k)
    BY <1>1, <2>3, <2>4 DEF Written, I!Response
  <2>6. I!StatusOf(k) # 200
    BY <2>1 DEF I!StatusOf, Failures
  <2> QED
    BY <2>5, <2>6
<1>3. ASSUME NEW x, s.ctx.outcome = I!Ok(x)
      PROVE  ~I!IsErr(s.ctx.outcome)
  BY <1>3, OkFields
<1> QED
  BY <1>1, <1>2, <1>3 DEF Answered

LEMMA CountsAddUp == Site /\ Counts => PagesAddUp
<1>1. SUFFICES ASSUME Site, Counts PROVE PagesAddUp
  OBVIOUS
<1>2. ASSUME NEW a \in Actors, Answering(a), serving[a].action = "users.index",
             StatusFor(a) = 200
      PROVE  AddsUp(serving[a].work, serving[a].req.id)
  <2>1. PICK s : s = serving[a]
    OBVIOUS
  <2>2. s.pc = "answer" /\ s # Idle
    BY <1>2, <2>1, AnsweringIs DEF Answering
  <2>3. ~setting.browser
    <3>1. setting.browser => s.action \in PageActions
      BY <1>1, <2>1, <2>2, AtWorkIs DEF PageService
    <3> QED
      BY <1>2, <2>1, <3>1 DEF PageActions
  <2>4. ApiService(s)
    BY <1>1, <2>1, <2>2, <2>3, AtWorkIs
  <2>5. ~I!IsErr(s.ctx.outcome)
    BY <1>2, <2>1, <2>2, <2>4, FailedIsNotOk DEF StatusFor
  <2>6. Counted(s)
    BY <1>1, <2>1 DEF Counts
  <2> QED
    BY <1>2, <2>1, <2>2, <2>5, <2>6 DEF Counted
<1> QED
  BY <1>2 DEF PagesAddUp, AddsUp

\* A listing and its counters fit together although they are two queries: a
\* page with more to come is full unless a row went in between, the last ends
\* at the total unless one came or went, and one past it is empty unless one
\* came (paginate: model.rs).
THEOREM ListingsAddUp == Spec => []PagesAddUp
<1>1. Init => Site /\ Data /\ Counts
  BY InitSite, InitData, InitCounts
<1>2. (Site /\ Data /\ Counts) /\ [Next]_vars => (Site /\ Data /\ Counts)'
  BY NextSite, NextData, NextCounts
<1>3. Site /\ Data /\ Counts => PagesAddUp
  BY CountsAddUp
<1> QED
  BY <1>1, <1>2, <1>3, PTL DEF Spec

-----------------------------------------------------------------------------
(***************************************************************************)
(* Relations, loaded for a batch of parents                                *)
(***************************************************************************)

\* The function Grouped computes, up to some child.
Filled(byKey, keep, children, column, ids, n) ==
    byKey = [m \in 0 .. n |->
               IF m = 0 THEN <<>>
               ELSE WithChild(keep, byKey[m - 1], Get(children, ids[m], column), ids[m])]

LEMMA FilledExists ==
    ASSUME NEW keep, NEW children, NEW column, NEW ids, NEW n \in Nat
    PROVE  \E f : Filled(f, keep, children, column, ids, n)
<1> DEFINE S == {m \in Nat : \E f : Filled(f, keep, children, column, ids, m)}
<1>1. 0 \in S
  <2>1. Filled([i \in 0 .. 0 |-> <<>>], keep, children, column, ids, 0)
    BY DEF Filled
  <2> QED
    BY <2>1
<1>2. ASSUME NEW m \in Nat, m \in S PROVE m + 1 \in S
  <2>1. PICK f : Filled(f, keep, children, column, ids, m)
    BY <1>2
  <2> DEFINE next == WithChild(keep, f[m], Get(children, ids[m + 1], column), ids[m + 1])
             g == [i \in 0 .. m + 1 |-> IF i = m + 1 THEN next ELSE f[i]]
  <2>2. \A i \in 0 .. m : g[i] = f[i]
    OBVIOUS
  <2>3. \A i \in 0 .. m + 1 :
           g[i] = IF i = 0 THEN <<>>
                  ELSE WithChild(keep, g[i - 1], Get(children, ids[i], column), ids[i])
    <3> TAKE i \in 0 .. m + 1
    <3>1. CASE i = m + 1
      <4>1. g[i] = next /\ g[i - 1] = f[m] /\ i # 0
        BY <3>1, <2>2
      <4> HIDE DEF g
      <4> QED
        BY <3>1, <4>1
    <3>2. CASE i # m + 1
      <4>1. i \in 0 .. m /\ g[i] = f[i] /\ (i # 0 => g[i - 1] = f[i - 1])
        BY <3>2, <2>2
      <4> HIDE DEF g
      <4> QED
        BY <2>1, <4>1 DEF Filled
    <3> QED
      BY <3>1, <3>2
  <2>4. Filled(g, keep, children, column, ids, m + 1)
    <3>1. g = [i \in 0 .. m + 1 |-> g[i]]
      OBVIOUS
    <3> HIDE DEF g
    <3> QED
      BY <2>3, <3>1 DEF Filled
  <2> QED
    BY <2>4
<1>3. Nat \subseteq S
  <2> HIDE DEF S
  <2> QED
    BY <1>1, <1>2, SetInduction
<1> QED
  BY <1>3

LEMMA GroupedIs ==
    ASSUME NEW keep, NEW children, NEW column, NEW ids, Len(ids) \in Nat
    PROVE  \E f : /\ Filled(f, keep, children, column, ids, Len(ids))
                  /\ Grouped(keep, children, column, ids) = f[Len(ids)]
<1> DEFINE f == CHOOSE g : Filled(g, keep, children, column, ids, Len(ids))
<1>1. Filled(f, keep, children, column, ids, Len(ids))
  BY FilledExists
<1>2. Grouped(keep, children, column, ids) = f[Len(ids)]
  BY DEF Grouped, Filled
<1> QED
  BY <1>1, <1>2

\* What is kept of the children under one key.
Chosen(keep, mine) ==
    IF keep = "all" \/ mine = <<>> THEN mine
    ELSE IF keep = "first" THEN <<mine[1]>> ELSE <<mine[Len(mine)]>>

LEMMA ChosenMore ==
    ASSUME NEW keep, NEW mine \in Seq(Nat), NEW i \in Nat
    PROVE  Bucketed(keep, Chosen(keep, mine), i) = Chosen(keep, Append(mine, i))
<1>1. PICK more : more = Append(mine, i)
  OBVIOUS
<1>2. /\ more # <<>> /\ more[Len(more)] = i /\ Len(mine) \in Nat
      /\ mine # <<>> => more[1] = mine[1]
      /\ mine = <<>> => more[1] = i
  BY <1>1
<1>3. CASE keep = "all"
  BY <1>1, <1>3 DEF Bucketed, Chosen
<1>4. CASE keep # "all" /\ mine = <<>>
  <2>1. Chosen(keep, mine) = mine /\ Bucketed(keep, mine, i) = <<i>>
    BY <1>4 DEF Bucketed, Chosen
  <2>2. Chosen(keep, more) = <<i>>
    BY <1>2, <1>4 DEF Chosen
  <2> QED
    BY <1>1, <2>1, <2>2
<1>5. CASE keep # "all" /\ mine # <<>> /\ keep = "first"
  <2>1. Chosen(keep, mine) = <<mine[1]>> /\ <<mine[1]>> # <<>>
    BY <1>5 DEF Chosen
  <2>2. Bucketed(keep, <<mine[1]>>, i) = <<mine[1]>>
    BY <1>5, <2>1 DEF Bucketed
  <2>3. Chosen(keep, more) = <<mine[1]>>
    BY <1>2, <1>5 DEF Chosen
  <2> QED
    BY <1>1, <2>1, <2>2, <2>3
<1>6. CASE keep # "all" /\ mine # <<>> /\ keep # "first"
  <2>1. \A bucket : Bucketed(keep, bucket, i) = <<i>>
    BY <1>6 DEF Bucketed
  <2>2. Chosen(keep, more) = <<i>>
    BY <1>2, <1>6 DEF Chosen
  <2> QED
    BY <1>1, <2>1, <2>2
<1> QED
  BY <1>3, <1>4, <1>5, <1>6

LEMMA BucketAfter ==
    ASSUME NEW keep, NEW byKey, NEW at, NEW i, NEW key
    PROVE  Bucket(WithChild(keep, byKey, at, i), key) =
              IF key = at THEN Bucketed(keep, Bucket(byKey, key), i) ELSE Bucket(byKey, key)
BY DEF WithChild, WithKey, Bucket

Holding(children, column, key) == {i \in Nat : Get(children, i, column) = key}

\* Under each key is what is kept of the children that hold it.
LEMMA BucketOfGrouped ==
    ASSUME NEW keep, NEW children, NEW column, NEW ids \in Seq(Nat), NEW key
    PROVE  Bucket(Grouped(keep, children, column, ids), key) =
              Chosen(keep, Among(ids, Holding(children, column, key)))
<1>1. PICK l \in Nat : l = Len(ids) /\ DOMAIN ids = 1 .. l
  OBVIOUS
<1>2. PICK f : Filled(f, keep, children, column, ids, l)
               /\ Grouped(keep, children, column, ids) = f[l]
  BY <1>1, GroupedIs
<1>3. PICK hold : hold = Holding(children, column, key)
  OBVIOUS
<1> DEFINE Part(n) == SubSeq(ids, 1, n)
           S == {n \in Nat : n <= l => Bucket(f[n], key) = Chosen(keep, Among(Part(n), hold))}
<1>4. 0 \in S
  <2>1. f[0] = <<>>
    BY <1>2 DEF Filled
  <2>2. Part(0) = <<>> /\ Among(<<>>, hold) = <<>>
    BY AmongEmpty
  <2>3. Bucket(<<>>, key) = <<>> /\ Chosen(keep, <<>>) = <<>>
    BY DEF Bucket, Chosen
  <2> QED
    BY <2>1, <2>2, <2>3
<1>5. ASSUME NEW n \in Nat, n \in S PROVE n + 1 \in S
  <2>1. SUFFICES ASSUME n + 1 <= l
                 PROVE  Bucket(f[n + 1], key) = Chosen(keep, Among(Part(n + 1), hold))
    OBVIOUS
  <2>2. PICK part, i : part = Part(n) /\ i = ids[n + 1]
    OBVIOUS
  <2>3. part \in Seq(Nat) /\ i \in Nat
    BY <1>1, <2>1, <2>2
  <2>4. Part(n + 1) = Append(part, i)
    BY <1>1, <2>1, <2>2
  <2>5. PICK at : at = Get(children, i, column)
    OBVIOUS
  <2>6. f[n + 1] = WithChild(keep, f[n], at, i)
    <3>1. n + 1 \in 0 .. l /\ n + 1 # 0 /\ (n + 1) - 1 = n
      BY <1>1, <2>1
    <3> QED
      BY <1>2, <2>2, <2>5, <3>1 DEF Filled
  <2>7. i \in hold <=> key = at
    BY <1>3, <2>3, <2>5 DEF Holding
  <2>8. PICK mine : mine = Among(part, hold)
    OBVIOUS
  <2>9. mine \in Seq(Nat)
    BY <2>3, <2>8, AmongType
  <2>10. Bucket(f[n], key) = Chosen(keep, mine)
    BY <1>5, <2>1, <2>2, <2>8
  <2>11. Among(Append(part, i), hold) = IF key = at THEN Append(mine, i) ELSE mine
    <3>1. Among(Append(part, i), hold) =
             IF i \in hold THEN Append(Among(part, hold), i) ELSE Among(part, hold)
      BY <2>3, AmongAppend
    <3> QED
      BY <2>7, <2>8, <3>1
  <2>12. Bucket(f[n + 1], key) = IF key = at THEN Bucketed(keep, Chosen(keep, mine), i)
                                 ELSE Chosen(keep, mine)
    BY <2>6, <2>10, BucketAfter
  <2> HIDE DEF Part
  <2>13. CASE key = at
    BY <2>3, <2>4, <2>9, <2>11, <2>12, <2>13, ChosenMore, ZenonT(60)
  <2>14. CASE key # at
    BY <2>4, <2>11, <2>12, <2>14
  <2> QED
    BY <2>13, <2>14
<1>6. Nat \subseteq S
  <2> HIDE DEF S
  <2> QED
    BY <1>4, <1>5, SetInduction
<1>7. Part(l) = ids
  BY <1>1, SubSeqFull
<1>8. Bucket(f[l], key) = Chosen(keep, Among(Part(l), hold))
  BY <1>6
<1> QED
  BY <1>2, <1>3, <1>7, <1>8

\* Rows in their order are the numbers from one on, as far as one likes.
LEMMA InOrderIs ==
    ASSUME NEW m \in Nat, NEW ids \in SUBSET (1 .. m)
    PROVE  InOrder(ids) = Among(UpTo(m), ids)
<1>1. PICK top : top = Max(ids \cup {0})
  OBVIOUS
<1>2. ids \cup {0} \in SUBSET (0 .. m) /\ ids \cup {0} # {}
  OBVIOUS
<1>3. top \in ids \cup {0} /\ \A y \in ids \cup {0} : top >= y
  BY <1>1, <1>2, MaxIsGreatest
<1>4. top \in Nat /\ top <= m
  BY <1>2, <1>3
<1>5. InOrder(ids) = Among(UpTo(top), ids)
  BY <1>1 DEF InOrder, UpTo
<1> DEFINE S == {n \in Nat : top <= n => Among(UpTo(n), ids) = Among(UpTo(top), ids)}
<1>6. 0 \in S
  <2>1. top <= 0 => top = 0
    BY <1>4
  <2> QED
    BY <2>1
<1>7. ASSUME NEW n \in Nat, n \in S PROVE n + 1 \in S
  <2>1. CASE top = n + 1
    BY <2>1
  <2>2. CASE top # n + 1
    <3>1. SUFFICES ASSUME top <= n + 1 PROVE Among(UpTo(n + 1), ids) = Among(UpTo(top), ids)
      OBVIOUS
    <3>2. Among(UpTo(n), ids) = Among(UpTo(top), ids)
      BY <1>4, <1>7, <2>2, <3>1
    <3>3. n + 1 \notin ids
      BY <1>3, <1>4, <2>2, <3>1
    <3>4. PICK s, x : s = UpTo(n) /\ x = n + 1
      OBVIOUS
    <3>5. s \in Seq(Nat) /\ x \in Nat /\ UpTo(n + 1) = Append(s, x)
      <4>1. UpTo(n) \in Seq(Nat) /\ UpTo(n + 1) = Append(UpTo(n), n + 1)
        BY UpToGrows
      <4> QED
        BY <3>4, <4>1
    <3>6. Among(Append(s, x), ids) = Among(s, ids)
      BY <3>3, <3>4, <3>5, AmongAppend
    <3> QED
      BY <3>2, <3>4, <3>5, <3>6
  <2> QED
    BY <2>1, <2>2
<1>8. Nat \subseteq S
  <2> HIDE DEF S
  <2> QED
    BY <1>6, <1>7, SetInduction
<1>9. Among(UpTo(m), ids) = Among(UpTo(top), ids)
  BY <1>4, <1>8
<1> QED
  BY <1>5, <1>9

\* What is loaded under a key that was asked for.
LEMMA BucketByKey ==
    ASSUME NEW m \in Nat, NEW children, DOMAIN children \in SUBSET (1 .. m),
           NEW keep, NEW column, NEW keys, NEW key \in keys
    PROVE  Bucket(ByKey(keep, children, column, keys), key) =
              Chosen(keep, InOrder({i \in DOMAIN children : Get(children, i, column) = key}))
<1>1. PICK found : found = {i \in DOMAIN children : Get(children, i, column) \in keys}
  OBVIOUS
<1>2. PICK mine : mine = {i \in DOMAIN children : Get(children, i, column) = key}
  OBVIOUS
<1>3. PICK hold : hold = Holding(children, column, key)
  OBVIOUS
<1>4. found \in SUBSET (1 .. m) /\ mine \in SUBSET (1 .. m) /\ found \cap hold = mine
  BY <1>1, <1>2, <1>3 DEF Holding
<1>5. PICK all : all = UpTo(m)
  OBVIOUS
<1>6. all \in Seq(Nat)
  BY <1>5, UpToGrows
<1>7. InOrder(found) = Among(all, found) /\ InOrder(mine) = Among(all, mine)
  BY <1>4, <1>5, InOrderIs
<1>8. PICK ids : ids = InOrder(found)
  OBVIOUS
<1>9. ids \in Seq(Nat)
  BY <1>4, <1>8, InOrderCounts
<1>10. ByKey(keep, children, column, keys) = Grouped(keep, children, column, ids)
  BY <1>1, <1>8 DEF ByKey, Fetched
<1>11. Bucket(Grouped(keep, children, column, ids), key) = Chosen(keep, Among(ids, hold))
  BY <1>3, <1>9, BucketOfGrouped
<1>12. Among(ids, hold) = InOrder(mine)
  <2>1. Among(Among(all, found), hold) = Among(all, found \cap hold)
    BY <1>6, AmongAmong
  <2> QED
    BY <1>4, <1>7, <1>8, <2>1
<1> QED
  BY <1>2, <1>10, <1>11, <1>12

\* The rows of a selection are those selected.
LEMMA OneOrNone ==
    ASSUME NEW m \in Nat, NEW ids \in SUBSET (1 .. m), \A i, j \in ids : i = j
    PROVE  \A keep : Chosen(keep, InOrder(ids)) = InOrder(ids)
<1>1. PICK s : s = InOrder(ids)
  OBVIOUS
<1>2. Cardinality(ids) <= 1 /\ Cardinality(ids) \in Nat
  <2>1. CASE ids = {}
    BY <2>1, FS_EmptySet
  <2>2. CASE ids # {}
    <3>1. PICK i \in ids : TRUE
      BY <2>2
    <3>2. ids = {i}
      BY <3>1
    <3> QED
      BY <3>2, FS_Singleton
  <2> QED
    BY <2>1, <2>2
<1>3. s \in Seq(Nat) /\ Len(s) <= 1
  <2>1. InOrder(ids) \in Seq(Nat) /\ Len(InOrder(ids)) = Cardinality(ids)
    BY InOrderCounts
  <2> QED
    BY <1>1, <1>2, <2>1
<1>4. ASSUME s # <<>> PROVE Len(s) = 1 /\ <<s[1]>> = s
  <2>1. Len(s) = 1 /\ s[1] \in Nat
    <3>1. PICK n \in Nat \ {0} : n = Len(s)
      BY <1>3, <1>4, EmptySeq
    <3>2. Len(s) = 1
      <4>1. n <= 1
        BY <1>3, <3>1
      <4> QED
        BY <3>1, <4>1
    <3>3. 1 \in 1 .. Len(s)
      BY <3>2
    <3>4. s[1] \in Nat
      BY <1>3, <3>3, ElementOfSeq
    <3> QED
      BY <3>2, <3>4
  <2>2. PICK t : t = <<s[1]>>
    OBVIOUS
  <2>3. t \in Seq(Nat) /\ Len(t) = 1 /\ t[1] = s[1]
    BY <2>1, <2>2
  <2>4. t = s
    BY <1>3, <2>1, <2>3, SeqEqual
  <2> QED
    BY <2>1, <2>2, <2>4
<1> QED
  BY <1>1, <1>4 DEF Chosen

\* A finite set of numbers goes up to one of them.
LEMMA FiniteIsBounded ==
    ASSUME NEW set \in SUBSET (Nat \ {0}), IsFiniteSet(set)
    PROVE  \E m \in Nat : set \in SUBSET (1 .. m)
<1> DEFINE Bounded(t) == \E m \in Nat : t \in SUBSET (1 .. m)
           S == {n \in Nat : \A t \in SUBSET (Nat \ {0}) :
                               IsFiniteSet(t) /\ Cardinality(t) = n => Bounded(t)}
<1>1. 0 \in S
  <2>1. ASSUME NEW t \in SUBSET (Nat \ {0}), IsFiniteSet(t), Cardinality(t) = 0
        PROVE  Bounded(t)
    <3>1. t = {}
      BY <2>1, FS_EmptySet
    <3>2. t \in SUBSET (1 .. 0)
      BY <3>1
    <3> QED
      BY <3>2
  <2> QED
    BY <2>1
<1>2. ASSUME NEW n \in Nat, n \in S PROVE n + 1 \in S
  <2>1. ASSUME NEW t \in SUBSET (Nat \ {0}), IsFiniteSet(t), Cardinality(t) = n + 1
        PROVE  Bounded(t)
    <3>1. t # {}
      BY <2>1, FS_EmptySet
    <3>2. PICK x \in t : TRUE
      BY <3>1
    <3>3. PICK u : u = t \ {x}
      OBVIOUS
    <3>4. u \in SUBSET (Nat \ {0}) /\ IsFiniteSet(u) /\ Cardinality(u) = n
      <4>1. IsFiniteSet(t \ {x}) /\ Cardinality(t \ {x}) = Cardinality(t) - 1
        BY <2>1, <3>2, FS_RemoveElement
      <4>2. Cardinality(t) - 1 = n
        BY <2>1
      <4> QED
        BY <2>1, <3>3, <4>1, <4>2
    <3>5. PICK m \in Nat : u \in SUBSET (1 .. m)
      BY <1>2, <3>4
    <3>6. \A y \in t : y = x \/ y \in u
      BY <3>3
    <3>7. CASE x <= m
      <4>1. t \in SUBSET (1 .. m)
        BY <2>1, <3>2, <3>5, <3>6, <3>7
      <4> QED
        BY <4>1
    <3>8. CASE ~(x <= m)
      <4>1. x \in Nat /\ t \in SUBSET (1 .. x)
        BY <2>1, <3>2, <3>5, <3>6, <3>8
      <4> QED
        BY <4>1
    <3> QED
      BY <3>7, <3>8
  <2> QED
    BY <2>1
<1>3. Nat \subseteq S
  <2> HIDE DEF S
  <2> QED
    BY <1>1, <1>2, SetInduction
<1>4. PICK n \in Nat : n = Cardinality(set)
  BY FS_CardinalityType
<1> QED
  BY <1>3, <1>4

\* The keys of both tables are bounded.
LEMMA KeysAreBounded ==
    ASSUME Rows
    PROVE  /\ \E m \in Nat : DOMAIN users \in SUBSET (1 .. m)
           /\ \E m \in Nat : DOMAIN teams \in SUBSET (1 .. m)
<1>1. nextId - 1 \in Nat /\ DOMAIN users \in SUBSET (1 .. (nextId - 1))
  BY DEF Rows
<1>2. PICK m \in Nat : Teams \in SUBSET (1 .. m)
  BY StackAssumption, FiniteIsBounded
<1>3. DOMAIN teams \in SUBSET (1 .. m)
  BY <1>2 DEF Rows
<1> QED
  BY <1>1, <1>3

\* The first of a selection, if there is one, and nothing else.
LEMMA FirstOfAll ==
    ASSUME NEW s \in Seq(Nat), NEW f, f = Chosen("first", s)
    PROVE  f = SubSeq(s, 1, Len(f)) /\ (f = <<>>) = (s = <<>>)
<1>1. CASE s = <<>>
  <2>1. f = s
    BY <1>1 DEF Chosen
  <2> QED
    BY <1>1, <2>1, SubSeqFull
<1>2. CASE s # <<>>
  <2>1. PICK n \in Nat \ {0} : n = Len(s)
    BY <1>2, EmptySeq
  <2>2. PICK x \in Nat : x = s[1]
    <3>1. 1 \in 1 .. Len(s)
      BY <2>1
    <3> QED
      BY <3>1, ElementOfSeq
  <2>3. f = <<x>>
    BY <1>2, <2>2 DEF Chosen
  <2>4. f \in Seq(Nat) /\ Len(f) = 1 /\ f[1] = x /\ f # <<>>
    <3>1. <<x>> \in Seq(Nat) /\ Len(<<x>>) = 1 /\ <<x>>[1] = x
      OBVIOUS
    <3>2. f # <<>>
      BY <2>3, <3>1, EmptySeq
    <3> QED
      BY <2>3, <3>1, <3>2
  <2>5. \A i \in 1 .. 1 : s[i] \in Nat
    BY <2>2
  <2>6. PICK g : g = SubSeq(s, 1, 1)
    OBVIOUS
  <2>7. g \in Seq(Nat) /\ Len(g) = 1 /\ g[1] = s[1]
    <3>1. /\ SubSeq(s, 1, 1) \in Seq(Nat)
          /\ Len(SubSeq(s, 1, 1)) = IF 1 <= 1 THEN 1 - 1 + 1 ELSE 0
          /\ \A i \in 1 .. 1 - 1 + 1 : SubSeq(s, 1, 1)[i] = s[1 + i - 1]
      BY <2>5, SubSeqProperties
    <3> QED
      BY <2>6, <3>1
  <2>8. f = g
    <3>1. \A i \in 1 .. 1 : f[i] = g[i]
      BY <2>2, <2>4, <2>7
    <3> QED
      BY <2>4, <2>7, <3>1, SeqEqual
  <2> QED
    BY <1>2, <2>4, <2>6, <2>8
<1> QED
  BY <1>1, <1>2

\* The rows of a team, and the first of them.
LEMMA MembersAre ==
    ASSUME NEW m \in Nat, NEW children, DOMAIN children \in SUBSET (1 .. m),
           NEW ids, NEW t \in ToSet(ids),
           NEW mine, mine = InOrder({u \in DOMAIN children : children[u].team = t}),
           NEW first, first = LoadHasOne(ids, children, "team")[t]
    PROVE  /\ LoadHasMany(ids, children, "team")[t] = mine
           /\ first = SubSeq(mine, 1, Len(first))
           /\ (first = <<>>) = (mine = <<>>)
<1>1. PICK keys : keys = ToSet(ids)
  OBVIOUS
<1>2. PICK own : own = {u \in DOMAIN children : children[u].team = t}
  OBVIOUS
<1>3. {u \in DOMAIN children : Get(children, u, "team") = t} = own
  BY <1>2 DEF Get
<1>4. ASSUME NEW keep
      PROVE  Bucket(ByKey(keep, children, "team", keys), t) = Chosen(keep, mine)
  <2>1. Bucket(ByKey(keep, children, "team", keys), t) =
           Chosen(keep, InOrder({u \in DOMAIN children : Get(children, u, "team") = t}))
    BY <1>1, BucketByKey
  <2> QED
    BY <1>2, <1>3, <2>1
<1>5. LoadHasMany(ids, children, "team")[t] = Chosen("all", mine)
  BY <1>1, <1>4 DEF LoadHasMany
<1>6. first = Chosen("first", mine)
  BY <1>1, <1>4 DEF LoadHasOne
<1>7. mine \in Seq(Nat)
  <2>1. own \in SUBSET (1 .. m)
    BY <1>2
  <2> QED
    BY <1>2, <2>1, InOrderCounts
<1>8. Chosen("all", mine) = mine
  BY DEF Chosen
<1> QED
  BY <1>5, <1>6, <1>7, <1>8, FirstOfAll

\* The owner of a row, if it is there.
LEMMA OwnerIs ==
    ASSUME NEW m \in Nat, NEW owners, DOMAIN owners \in SUBSET (1 .. m),
           NEW rows, NEW ids, NEW i \in ToSet(ids),
           NEW one, one = {t \in DOMAIN owners : t = rows[i].team}
    PROVE  LoadBelongsTo(rows, ids, "team", owners)[i] = InOrder(one)
<1>1. PICK keys : keys = {rows[p].team : p \in ToSet(ids)}
  OBVIOUS
<1>2. PICK key : key = rows[i].team
  OBVIOUS
<1>3. key \in keys
  BY <1>1, <1>2
<1>4. PICK own : own = {t \in DOMAIN owners : t = key} /\ own = one
  BY <1>2
<1>5. {t \in DOMAIN owners : Get(owners, t, "id") = key} = own
  BY <1>4 DEF Get
<1>6. LoadBelongsTo(rows, ids, "team", owners)[i] = Bucket(ByKey("last", owners, "id", keys), key)
  BY <1>1, <1>2 DEF LoadBelongsTo
<1>7. Bucket(ByKey("last", owners, "id", keys), key) = Chosen("last", InOrder(own))
  <2>1. Bucket(ByKey("last", owners, "id", keys), key) =
           Chosen("last", InOrder({t \in DOMAIN owners : Get(owners, t, "id") = key}))
    BY <1>3, BucketByKey
  <2> QED
    BY <1>5, <2>1
<1>8. own \in SUBSET (1 .. m) /\ \A t, u \in own : t = u
  BY <1>4
<1>9. Chosen("last", InOrder(own)) = InOrder(own)
  BY <1>8, OneOrNone
<1> QED
  BY <1>2, <1>4, <1>6, <1>7, <1>9

LEMMA TeamLoaded ==
    ASSUME Rows, ApiServings, NEW a \in Actors, LoadTeam(a)
    PROVE  \A i \in ToSet(serving'[a].work.data) :
              serving'[a].work.related[i] =
                 InOrder({t \in DOMAIN teams : t = serving'[a].work.rows[i].team})
<1>1. PICK s, related :
         /\ s = serving[a]
         /\ related = LoadBelongsTo(s.work.rows, s.work.data, "team", teams)
  OBVIOUS
<1>2. Serves(s) /\ s.pc = "load" /\ DOMAIN serving = Actors
  BY <1>1 DEF ApiServings, LoadTeam, At
<1>3. IsService(s)
  BY <1>2, AtWork
<1>4. PICK loaded : loaded = SetRelated(s, related)
  OBVIOUS
<1>5. Reworked(s, loaded) /\ loaded.work = [s.work EXCEPT !.related = related]
  BY <1>3, <1>4, SetsRelated
<1>6. PICK o : o = I!Ok(I!Response(200))
  OBVIOUS
<1>7. serving'[a] = Finish(loaded, o)
  <2>1. Step(a, Finish(loaded, o))
    BY <1>1, <1>4, <1>6 DEF LoadTeam, Listed, SetRelated
  <2> QED
    BY <1>2, <2>1 DEF Step
<1>8. Finish(loaded, o).work = loaded.work
  BY <1>5, FinishFields DEF Reworked, SameService
<1>9. PICK v, w : v = s.work /\ w = serving'[a].work
  OBVIOUS
<1>10. w = [v EXCEPT !.related = related] /\ IsWork(v)
  BY <1>3, <1>5, <1>7, <1>8, <1>9 DEF IsService
<1>11. w.related = related /\ w.data = v.data /\ w.rows = v.rows
  BY <1>10 DEF IsWork
<1>12. PICK m \in Nat : DOMAIN teams \in SUBSET (1 .. m)
  BY KeysAreBounded
<1>13. ASSUME NEW i \in ToSet(v.data)
       PROVE  LoadBelongsTo(v.rows, v.data, "team", teams)[i] =
                 InOrder({t \in DOMAIN teams : t = v.rows[i].team})
  <2>1. PICK rows, ids, one :
           /\ rows = v.rows /\ ids = v.data
           /\ one = {t \in DOMAIN teams : t = rows[i].team}
    OBVIOUS
  <2>2. LoadBelongsTo(rows, ids, "team", teams)[i] = InOrder(one)
    <3>1. i \in ToSet(ids)
      BY <1>13, <2>1
    <3> QED
      BY <1>12, <2>1, <3>1, OwnerIs
  <2> QED
    BY <2>1, <2>2
<1> QED
  BY <1>1, <1>9, <1>11, <1>13

LEMMA MembersLoaded ==
    ASSUME Rows, ApiServings, NEW a \in Actors, LoadMembers(a),
           NEW t \in ToSet(serving'[a].work.data)
    PROVE  LET mine == InOrder({u \in DOMAIN users : users[u].team = t})
               r == serving'[a].work.related
           IN /\ r.members[t] = mine
              /\ r.first[t] = SubSeq(mine, 1, Len(r.first[t]))
              /\ (r.first[t] = <<>>) = (mine = <<>>)
<1>1. PICK s, many, one, related :
         /\ s = serving[a]
         /\ many = LoadHasMany(s.work.data, users, "team")
         /\ one = LoadHasOne(s.work.data, users, "team")
         /\ related = [members |-> many, first |-> one]
  OBVIOUS
<1>2. Serves(s) /\ s.pc = "members" /\ DOMAIN serving = Actors
  BY <1>1 DEF ApiServings, LoadMembers, At
<1>3. IsService(s)
  BY <1>2, AtWork
<1>4. PICK loaded : loaded = SetRelated(s, related)
  OBVIOUS
<1>5. Reworked(s, loaded) /\ loaded.work = [s.work EXCEPT !.related = related]
  BY <1>3, <1>4, SetsRelated
<1>6. PICK o : o = I!Ok(I!Response(200))
  OBVIOUS
<1>7. serving'[a] = Finish(loaded, o)
  <2>1. Step(a, Finish(loaded, o))
    BY <1>1, <1>4, <1>6 DEF LoadMembers, Listed, SetRelated
  <2> QED
    BY <1>2, <2>1 DEF Step
<1>8. Finish(loaded, o).work = loaded.work
  BY <1>5, FinishFields DEF Reworked, SameService
<1>9. PICK v, w : v = s.work /\ w = serving'[a].work
  OBVIOUS
<1>10. w = [v EXCEPT !.related = related] /\ IsWork(v)
  BY <1>3, <1>5, <1>7, <1>8, <1>9 DEF IsService
<1>11. w.related = related /\ w.data = v.data
  BY <1>10 DEF IsWork
<1>12. related.members = many /\ related.first = one
  BY <1>1
<1>13. PICK m \in Nat : DOMAIN users \in SUBSET (1 .. m)
  BY KeysAreBounded
<1>14. PICK mine : mine = InOrder({u \in DOMAIN users : users[u].team = t})
  OBVIOUS
<1>15. PICK first : first = LoadHasOne(v.data, users, "team")[t]
  OBVIOUS
<1>16. /\ LoadHasMany(v.data, users, "team")[t] = mine
       /\ first = SubSeq(mine, 1, Len(first))
       /\ (first = <<>>) = (mine = <<>>)
  <2>1. t \in ToSet(v.data)
    BY <1>9, <1>11
  <2> QED
    BY <1>13, <1>14, <1>15, <2>1, MembersAre
<1>17. many[t] = mine /\ one[t] = first
  BY <1>1, <1>9, <1>15, <1>16
<1> QED
  BY <1>9, <1>11, <1>12, <1>14, <1>16, <1>17, Zenon

\* Relations are loaded by their own statement, and by nothing else.
LEMMA OnlyLoads ==
    ASSUME ApiServings, NEW a \in Actors, Statement(a), NEW b \in Actors,
           serving[b].pc \in {"load", "members"}, serving'[b].pc = "answer"
    PROVE  /\ serving[b].pc = "load" => LoadTeam(b)
           /\ serving[b].pc = "members" => LoadMembers(b)
<1>1. CASE b = a
  BY <1>1 DEF Statement, Check, RefuseWrite, Insert, Update, AfterHooks, Find, Delete,
              Count, Fetch, LoadTeam, All, LoadMembers, At
<1>2. CASE b # a
  <2>1. serving[b].pc # "fetch" /\ Serves(serving[b])
    BY DEF ApiServings
  <2>2. ASSUME NEW email, NEW row, serving'[b] = Overtaken(a, email, row)[b]
        PROVE  serving'[b] = serving[b]
    <3>1. PICK s, t : s = serving[b] /\ t = serving'[b]
      OBVIOUS
    <3>2. \/ t = s /\ s.pc # "fetch"
          \/ s.pc \in {"check", "insert", "update"} /\ Reworked(s, t)
          \/ s.pc = "fetch" /\ Reworked(s, t) /\ t.work = [s.work EXCEPT !.came = TRUE]
      BY <1>2, <2>1, <2>2, <3>1, OvertakenIs
    <3> QED
      BY <3>1, <3>2
  <2>3. serving'[b] = serving[b]
    <3>1. CASE Insert(a)
      BY <1>2, <2>2, <3>1, InsertStep
    <3>2. CASE Update(a)
      BY <1>2, <2>2, <3>2, UpdateStep
    <3>3. CASE Delete(a)
      BY <1>2, <2>1, <3>3, DeleteStep
    <3>4. CASE Check(a) \/ Find(a)
      BY <1>2, <3>4, CheckStep, FindStep
    <3>5. CASE Reads(a)
      BY <1>2, <3>5, ReadsStep
    <3> QED
      BY <3>1, <3>2, <3>3, <3>4, <3>5 DEF Statement, Reads
  <2> QED
    BY <2>3
<1> QED
  BY <1>1, <1>2

\* What one request that loaded has to show.
Joined(s, t) ==
    /\ s.pc = "load" /\ t.pc = "answer" =>
         \A i \in ToSet(t.work.data) :
            t.work.related[i] = InOrder({k \in DOMAIN teams : k = t.work.rows[i].team})
    /\ s.pc = "members" /\ t.pc = "answer" =>
         \A k \in ToSet(t.work.data) :
            LET mine == InOrder({u \in DOMAIN users : users[u].team = k})
            IN /\ t.work.related.members[k] = mine
               /\ t.work.related.first[k] = SubSeq(mine, 1, Len(t.work.related.first[k]))
               /\ (t.work.related.first[k] = <<>>) = (mine = <<>>)

LEMMA EveryLoad ==
    ASSUME Site, Data, [Next]_vars, NEW b \in Actors
    PROVE  Joined(serving[b], serving'[b])
<1>1. SUFFICES ASSUME serving[b].pc \in {"load", "members"}, serving'[b].pc = "answer"
               PROVE  Joined(serving[b], serving'[b])
  BY DEF Joined
<1>2. ~setting.browser /\ ApiServings
  <2>1. ~setting.browser
    BY <1>1, WebStatements
  <2> QED
    BY <2>1 DEF Site, Servings
<1>3. PICK a \in Actors : Statement(a)
  <2>1. ~(UNCHANGED vars)
    BY <1>1 DEF vars
  <2>2. ~Deploy
    BY <1>1, DeployIdles, IdlePc
  <2>3. ASSUME NEW a \in Actors, Send(a) \/ FollowUp(a) \/ Answer(a) PROVE FALSE
    <3>1. serving[a].pc \in {"idle", "answer"}
      BY <2>3, IdlePc DEF Send, FollowUp, Answer, Free, At
    <3>2. \E t : serving' = [serving EXCEPT ![a] = t]
      BY <2>3 DEF Send, FollowUp, Answer, Take, Step
    <3>3. serving'[b] = serving[b]
      BY <1>1, <1>2, <3>1, <3>2 DEF ApiServings
    <3> QED
      BY <1>1, <3>3
  <2> QED
    BY <2>1, <2>2, <2>3, NextIs
<1>4. Rows
  BY DEF Data
<1>5. CASE serving[b].pc = "load"
  <2>1. LoadTeam(b)
    BY <1>1, <1>2, <1>3, <1>5, OnlyLoads
  <2> QED
    BY <1>2, <1>4, <1>5, <2>1, TeamLoaded DEF Joined
<1>6. CASE serving[b].pc = "members"
  <2>1. LoadMembers(b)
    BY <1>1, <1>2, <1>3, <1>6, OnlyLoads
  <2>2. \A k \in ToSet(serving'[b].work.data) :
            LET mine == InOrder({u \in DOMAIN users : users[u].team = k})
            IN /\ serving'[b].work.related.members[k] = mine
               /\ serving'[b].work.related.first[k] =
                     SubSeq(mine, 1, Len(serving'[b].work.related.first[k]))
               /\ (serving'[b].work.related.first[k] = <<>>) = (mine = <<>>)
    BY <1>2, <1>4, <2>1, MembersLoaded
  <2> QED
    BY <1>6, <2>2 DEF Joined
<1> QED
  BY <1>1, <1>5, <1>6

\* A request that loads relations for a batch of rows gets, for each of them,
\* the rows a join of the two tables would give, as they are when the second
\* statement reads them (load_has_many, load_has_one, load_belongs_to:
\* loading.rs).
THEOREM EagerLoads == Spec => EagerLoadIsTheJoin
<1>1. Init => Site /\ Data
  BY InitSite, InitData
<1>2. (Site /\ Data) /\ [Next]_vars => (Site /\ Data)'
  BY NextSite, NextData
<1>3. (Site /\ Data) /\ [Next]_vars =>
        [\A a \in Actors : LET w == serving'[a].work IN
         /\ serving[a].pc = "load" /\ serving'[a].pc = "answer" =>
              \A i \in ToSet(w.data) :
                 w.related[i] = InOrder({t \in DOMAIN teams : t = w.rows[i].team})
         /\ serving[a].pc = "members" /\ serving'[a].pc = "answer" =>
              \A t \in ToSet(w.data) :
                 LET mine == InOrder({u \in DOMAIN users : users[u].team = t})
                 IN /\ w.related.members[t] = mine
                    /\ w.related.first[t] = SubSeq(mine, 1, Len(w.related.first[t]))
                    /\ (w.related.first[t] = <<>>) = (mine = <<>>)]_vars
  <2>1. SUFFICES ASSUME Site, Data, [Next]_vars
                 PROVE  \A a \in Actors : Joined(serving[a], serving'[a])
    BY Zenon DEF Joined
  <2> QED
    BY <2>1, EveryLoad
<1> QED
  BY <1>1, <1>2, <1>3, PTL DEF Spec, EagerLoadIsTheJoin
=============================================================================
