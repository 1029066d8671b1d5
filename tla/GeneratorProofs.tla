---------------------------- MODULE GeneratorProofs ----------------------------
(***************************************************************************)
(* Proofs about what the generators write and what the migrator makes of   *)
(* it, for any words, flags, columns and bounds.                           *)
(***************************************************************************)
EXTENDS WorkspaceProofs

-----------------------------------------------------------------------------
(***************************************************************************)
(* The files that register a kind, and the plans that are written          *)
(***************************************************************************)

Kinds == Range(ModuleDirs) \cup {"controllers", "migration"}
Indexes == {<<kind>> : kind \in Kinds} \cup {<<"routes">>}

ModuleMark(kind) == IF kind = "migration" THEN "migration-modules" ELSE "modules"
ModuleInsertion(kind, name) == Insertion(<<kind>>, ModuleMark(kind), Module(name))

\* The kind an insertion registers, and the name.
Owner(x) == CASE x.line[1] = "mod" -> x.path[1]
              [] x.line[1] = "box" -> "migration"
              [] OTHER -> "controllers"
Name(x) == x.line[2]

\* The three lines a generator adds.
Form(x) ==
    \/ x.line[1] = "mod" /\ x.path[1] \in Kinds /\ x = ModuleInsertion(x.path[1], Name(x))
    \/ /\ x = Insertion(<<"migration">>, "migrations", Boxed(Name(x)))
       /\ x.line \in Boxes
    \/ x = Insertion(<<"routes">>, "routes", Resource(Name(x)))

Plain(contents) == \A i \in DOMAIN contents : contents[i][1] \notin {"mod", "box", "resource"}

Paths(new) == {new[i].path : i \in DOMAIN new}

\* Files to be written: each at a path of its own, registering nothing.
FilesOK(new) ==
    /\ IsSequence(new)
    /\ \A i \in DOMAIN new : /\ new[i] = NewFile(new[i].path, new[i].contents)
                             /\ IsSequence(new[i].contents) /\ Plain(new[i].contents)
    /\ \A i, j \in DOMAIN new : new[i].path = new[j].path => i = j

\* Lines to be inserted, none twice.
LinesOK(todo) ==
    /\ IsSequence(todo)
    /\ \A i \in DOMAIN todo : Form(todo[i])
    /\ \A i, j \in DOMAIN todo : todo[i] = todo[j] => i = j

\* A box or a route comes after the module it names.
InItsPlace(todo, i) ==
    \/ todo[i].line[1] = "mod"
    \/ \E j \in 1 .. i - 1 : todo[j] = ModuleInsertion(Owner(todo[i]), Name(todo[i]))

\* Between two writes: what is to be written is not there yet; what is to be
\* registered is there or will be, is not registered yet, and waits for the
\* module it names.
WritingInv ==
    cmd.name = "write" =>
        LET new == cmd.plan.files
            todo == cmd.plan.insertions
        IN  /\ cmd.plan = Plan(new, todo)
            /\ FilesOK(new) /\ Paths(new) \cap DOMAIN files = {}
            /\ LinesOK(todo)
            /\ \A i \in DOMAIN todo :
                  /\ <<Owner(todo[i]), Name(todo[i])>> \in DOMAIN files \cup Paths(new)
                  /\ todo[i].line \notin Lines(todo[i].path)
                  /\ InItsPlace(todo, i) \/ Registered(Owner(todo[i]), Name(todo[i]))

IndexesInv == \A path \in Indexes \cap DOMAIN files : IsSequence(files[path])

\* A migration is declared above the marker that is left for the next one.
BoxesInv ==
    <<"migration">> \in DOMAIN files =>
        LET migrations == files[<<"migration">>] IN
        \A i, j \in DOMAIN migrations :
            /\ migrations[i][1] = "box" => migrations[i] \in Boxes
            /\ migrations[i] \in Boxes /\ migrations[j] = Marker("migrations") => i < j

Needed == {<<<<kind>>, ModuleMark(kind)>> : kind \in Kinds}
          \cup {<<<<"migration">>, "migrations">>, <<<<"routes">>, "routes">>}

\* A marker the generators look for is there unless the developer took it out.
MarkersInv ==
    /\ \A n \in Needed : n[1] \in DOMAIN files =>
          Marker(n[2]) \in Lines(n[1]) \/ n \in removed
    /\ cmd.name = "write" =>
          \A n \in Needed : \A i \in DOMAIN cmd.plan.files : cmd.plan.files[i].path = n[1] =>
             Marker(n[2]) \in Range(cmd.plan.files[i].contents)

\* Unless a command was stopped, an application has every file its generators
\* add to, or is being written.
IndexesThere ==
    stops = 0 =>
        \/ DOMAIN files = {} /\ cmd.name # "write"
        \/ Indexes \subseteq DOMAIN files
                             \cup (IF cmd.name = "write" THEN Paths(cmd.plan.files) ELSE {})

\* The applied migrations are the first of those declared, each declared once;
\* what is being run are the next ones, or the last ones backwards.
OrderAt(k) ==
    /\ applied = {Declared[i] : i \in 1 .. k}
    /\ cmd.name = "up" =>
          /\ IsSequence(cmd.todo) /\ Len(cmd.todo) <= Len(Declared) - k
          /\ \A i \in 1 .. Len(cmd.todo) : cmd.todo[i] = Declared[k + i]
    /\ cmd.name = "down" =>
          /\ IsSequence(cmd.todo) /\ Len(cmd.todo) <= k
          /\ \A i \in 1 .. Len(cmd.todo) : cmd.todo[i] = Declared[(k - i) + 1]

OrderInv ==
    /\ IsSequence(Declared)
    /\ \A i, j \in DOMAIN Declared : Declared[i] = Declared[j] => i = j
    /\ \E k \in 0 .. Len(Declared) : OrderAt(k)

OutcomeInv ==
    cmd.name = "none" =>
        /\ cmd.outcome = "no marker" => removed # {}
        /\ cmd.outcome \in {"unreadable", "failed"} => stops > 0

-----------------------------------------------------------------------------
(***************************************************************************)
(* The plan of make:model                                                  *)
(***************************************************************************)

\* A plan that writes files of some kinds only, registers each, and each once.
GoodPlan(p, kinds) ==
    /\ p = Plan(p.files, p.insertions)
    /\ FilesOK(p.files)
    /\ \A i \in DOMAIN p.files :
          /\ p.files[i].path = <<p.files[i].path[1], p.files[i].path[2]>>
          /\ p.files[i].path[1] \in kinds
    /\ LinesOK(p.insertions)
    /\ \A i \in DOMAIN p.insertions :
          LET x == p.insertions[i] IN
          /\ Owner(x) \in kinds /\ <<Owner(x), Name(x)>> \in Paths(p.files)
          /\ InItsPlace(p.insertions, i)

\* The parts of a concatenation, by place.
LEMMA PlaceInConcat ==
    ASSUME NEW s, NEW t, IsSequence(s), IsSequence(t), NEW i \in DOMAIN (s \o t)
    PROVE  \/ i \in DOMAIN s /\ (s \o t)[i] = s[i]
           \/ i - Len(s) \in DOMAIN t /\ (s \o t)[i] = t[i - Len(s)]
<1>1. /\ IsSequence(s \o t) /\ Len(s \o t) = Len(s) + Len(t)
      /\ Len(s) \in Nat /\ Len(t) \in Nat
      /\ \A j \in 1 .. Len(s) : (s \o t)[j] = s[j]
      /\ \A j \in 1 .. Len(t) : (s \o t)[Len(s) + j] = t[j]
  BY ConcatSequence
<1>2. DOMAIN s = 1 .. Len(s) /\ DOMAIN t = 1 .. Len(t) /\ DOMAIN (s \o t) = 1 .. Len(s) + Len(t)
  BY <1>1, SequenceOf DEF IsSequence
<1>3. CASE i <= Len(s)
  BY <1>1, <1>2, <1>3
<1>4. CASE ~ (i <= Len(s))
  <2>1. i - Len(s) \in 1 .. Len(t) /\ Len(s) + (i - Len(s)) = i
    BY <1>1, <1>2, <1>4
  <2> QED
    BY <1>1, <1>2, <2>1
<1> QED
  BY <1>3, <1>4

LEMMA PathsOfConcat ==
    ASSUME NEW s, NEW t, IsSequence(s), IsSequence(t)
    PROVE  Paths(s \o t) = Paths(s) \cup Paths(t)
<1>1. Range(s \o t) = Range(s) \cup Range(t)
  BY ConcatSequence
<1>2. \A r : Paths(r) = {f.path : f \in Range(r)}
  BY DEF Paths, Range
<1> QED
  BY <1>1, <1>2

LEMMA FilesOfConcat ==
    ASSUME NEW s, NEW t, FilesOK(s), FilesOK(t), Paths(s) \cap Paths(t) = {}
    PROVE  FilesOK(s \o t)
<1>1. IsSequence(s) /\ IsSequence(t) /\ IsSequence(s \o t)
  BY ConcatSequence DEF FilesOK
<1>2. ASSUME NEW i \in DOMAIN (s \o t)
      PROVE  /\ (s \o t)[i] = NewFile((s \o t)[i].path, (s \o t)[i].contents)
             /\ IsSequence((s \o t)[i].contents) /\ Plain((s \o t)[i].contents)
  BY <1>1, PlaceInConcat DEF FilesOK
<1>3. ASSUME NEW i \in DOMAIN (s \o t), NEW j \in DOMAIN (s \o t),
             (s \o t)[i].path = (s \o t)[j].path
      PROVE  i = j
  <2>1. /\ \/ i \in DOMAIN s /\ (s \o t)[i] = s[i]
           \/ i - Len(s) \in DOMAIN t /\ (s \o t)[i] = t[i - Len(s)]
        /\ \/ j \in DOMAIN s /\ (s \o t)[j] = s[j]
           \/ j - Len(s) \in DOMAIN t /\ (s \o t)[j] = t[j - Len(s)]
    BY <1>1, PlaceInConcat
  <2>2. i \in Int /\ j \in Int /\ Len(s) \in Int
    BY <1>1, SequenceOf DEF IsSequence
  <2>3. CASE i \in DOMAIN s /\ (s \o t)[i] = s[i] /\ j \in DOMAIN s /\ (s \o t)[j] = s[j]
    BY <1>3, <2>3 DEF FilesOK
  <2>4. CASE /\ i - Len(s) \in DOMAIN t /\ (s \o t)[i] = t[i - Len(s)]
             /\ j - Len(s) \in DOMAIN t /\ (s \o t)[j] = t[j - Len(s)]
    <3>1. i - Len(s) = j - Len(s)
      BY <1>3, <2>4 DEF FilesOK
    <3> QED
      BY <2>2, <3>1
  <2>5. \A k \in DOMAIN s, l \in DOMAIN t : s[k].path # t[l].path
    BY DEF Paths
  <2> QED
    BY <1>3, <2>1, <2>3, <2>4, <2>5
<1> QED
  BY <1>1, <1>2, <1>3 DEF FilesOK

LEMMA LinesOfConcat ==
    ASSUME NEW s, NEW t, LinesOK(s), LinesOK(t),
           \A k \in DOMAIN s, l \in DOMAIN t : s[k] # t[l]
    PROVE  LinesOK(s \o t)
<1>1. IsSequence(s) /\ IsSequence(t) /\ IsSequence(s \o t)
  BY ConcatSequence DEF LinesOK
<1>2. ASSUME NEW i \in DOMAIN (s \o t) PROVE Form((s \o t)[i])
  BY <1>1, PlaceInConcat DEF LinesOK
<1>3. ASSUME NEW i \in DOMAIN (s \o t), NEW j \in DOMAIN (s \o t), (s \o t)[i] = (s \o t)[j]
      PROVE  i = j
  <2>1. /\ \/ i \in DOMAIN s /\ (s \o t)[i] = s[i]
           \/ i - Len(s) \in DOMAIN t /\ (s \o t)[i] = t[i - Len(s)]
        /\ \/ j \in DOMAIN s /\ (s \o t)[j] = s[j]
           \/ j - Len(s) \in DOMAIN t /\ (s \o t)[j] = t[j - Len(s)]
    BY <1>1, PlaceInConcat
  <2>2. i \in Int /\ j \in Int /\ Len(s) \in Int
    BY <1>1, SequenceOf DEF IsSequence
  <2>3. CASE i \in DOMAIN s /\ (s \o t)[i] = s[i] /\ j \in DOMAIN s /\ (s \o t)[j] = s[j]
    BY <1>3, <2>3 DEF LinesOK
  <2>4. CASE /\ i - Len(s) \in DOMAIN t /\ (s \o t)[i] = t[i - Len(s)]
             /\ j - Len(s) \in DOMAIN t /\ (s \o t)[j] = t[j - Len(s)]
    <3>1. i - Len(s) = j - Len(s)
      BY <1>3, <2>4 DEF LinesOK
    <3> QED
      BY <2>2, <3>1
  <2> QED
    BY <1>3, <2>1, <2>3, <2>4
<1> QED
  BY <1>1, <1>2, <1>3 DEF LinesOK

LEMMA PlaceAfterConcat ==
    ASSUME NEW s, NEW t, IsSequence(s), IsSequence(t), NEW i \in DOMAIN (s \o t),
           \/ i \in DOMAIN s /\ (s \o t)[i] = s[i] /\ InItsPlace(s, i)
           \/ /\ i - Len(s) \in DOMAIN t /\ (s \o t)[i] = t[i - Len(s)]
              /\ InItsPlace(t, i - Len(s))
    PROVE  InItsPlace(s \o t, i)
<1> DEFINE u == s \o t
           n == Len(s)
<1>1. /\ IsSequence(u) /\ Len(u) = n + Len(t) /\ n \in Nat /\ Len(t) \in Nat
      /\ \A j \in 1 .. n : u[j] = s[j]
      /\ \A j \in 1 .. Len(t) : u[n + j] = t[j]
  BY ConcatSequence
<1>2. DOMAIN s = 1 .. n /\ DOMAIN t = 1 .. Len(t) /\ DOMAIN u = 1 .. n + Len(t)
  BY <1>1, SequenceOf DEF IsSequence
<1>3. i \in Nat
  BY <1>1, <1>2
<1> HIDE DEF u, n
<1>4. ASSUME i \in DOMAIN s, u[i] = s[i], InItsPlace(s, i)
      PROVE  InItsPlace(u, i)
  <2>1. \A j \in 1 .. i - 1 : u[j] = s[j]
    BY <1>1, <1>2, <1>4
  <2> QED
    BY <1>4, <2>1 DEF InItsPlace
<1>5. ASSUME i - n \in DOMAIN t, u[i] = t[i - n], InItsPlace(t, i - n)
      PROVE  InItsPlace(u, i)
  <2>1. ASSUME NEW j \in 1 .. (i - n) - 1 PROVE n + j \in 1 .. i - 1 /\ u[n + j] = t[j]
    BY <1>1, <1>2, <1>3, <1>5
  <2>2. CASE u[i].line[1] = "mod"
    BY <2>2 DEF InItsPlace
  <2>3. CASE u[i].line[1] # "mod"
    <3>1. PICK j \in 1 .. (i - n) - 1 : t[j] = ModuleInsertion(Owner(u[i]), Name(u[i]))
      BY <1>5, <2>3 DEF InItsPlace
    <3> QED
      BY <2>1, <3>1 DEF InItsPlace
  <2> QED
    BY <2>2, <2>3
<1> QED
  BY <1>4, <1>5 DEF u, n

\* Two plans of different kinds make one.
LEMMA PlanOfTwo ==
    ASSUME NEW K, NEW L, K \cap L = {},
           NEW p, GoodPlan(p, K), NEW q, GoodPlan(q, L)
    PROVE  GoodPlan(p ++ q, K \cup L)
<1> DEFINE f == p.files \o q.files
           t == p.insertions \o q.insertions
           n == Len(p.insertions)
<1>1. (p ++ q) = Plan(f, t) /\ (p ++ q).files = f /\ (p ++ q).insertions = t
  BY DEF ++, Plan
<1>2. /\ FilesOK(p.files) /\ FilesOK(q.files)
      /\ IsSequence(p.files) /\ IsSequence(q.files)
      /\ LinesOK(p.insertions) /\ LinesOK(q.insertions)
      /\ IsSequence(p.insertions) /\ IsSequence(q.insertions)
  BY DEF GoodPlan, FilesOK, LinesOK
<1>3. Paths(p.files) \cap Paths(q.files) = {}
  BY DEF GoodPlan, Paths
<1>4. FilesOK(f) /\ Paths(f) = Paths(p.files) \cup Paths(q.files)
  BY <1>2, <1>3, FilesOfConcat, PathsOfConcat
<1>5. ASSUME NEW i \in DOMAIN f
      PROVE  f[i].path = <<f[i].path[1], f[i].path[2]>> /\ f[i].path[1] \in K \cup L
  <2>1. \/ i \in DOMAIN p.files /\ f[i] = p.files[i]
        \/ i - Len(p.files) \in DOMAIN q.files /\ f[i] = q.files[i - Len(p.files)]
    BY <1>2, PlaceInConcat
  <2> HIDE DEF f
  <2> QED
    BY <2>1 DEF GoodPlan
<1>6. LinesOK(t)
  <2>1. \A k \in DOMAIN p.insertions, l \in DOMAIN q.insertions :
           p.insertions[k] # q.insertions[l]
    BY DEF GoodPlan
  <2> QED
    BY <1>2, <2>1, LinesOfConcat
<1>7. ASSUME NEW i \in DOMAIN t
      PROVE  /\ Owner(t[i]) \in K \cup L
             /\ <<Owner(t[i]), Name(t[i])>> \in Paths(f)
             /\ InItsPlace(t, i)
  <2>1. CASE i \in DOMAIN p.insertions /\ t[i] = p.insertions[i]
    <3>1. InItsPlace(p.insertions, i)
      BY <2>1 DEF GoodPlan
    <3>2. InItsPlace(t, i)
      BY <1>2, <2>1, <3>1, PlaceAfterConcat
    <3> HIDE DEF f, t
    <3> QED
      BY <1>4, <2>1, <3>2 DEF GoodPlan
  <2>2. CASE i - n \in DOMAIN q.insertions /\ t[i] = q.insertions[i - n]
    <3>1. InItsPlace(q.insertions, i - n)
      BY <2>2 DEF GoodPlan
    <3>2. InItsPlace(t, i)
      BY <1>2, <2>2, <3>1, PlaceAfterConcat
    <3> HIDE DEF f, t
    <3> QED
      BY <1>4, <2>2, <3>2 DEF GoodPlan
  <2> QED
    BY <1>2, <2>1, <2>2, PlaceInConcat
<1> HIDE DEF f, t
<1> QED
  BY <1>1, <1>4, <1>5, <1>6, <1>7 DEF GoodPlan

\* Sequences written out.
LEMMA OneElement ==
    ASSUME NEW a
    PROVE  IsSequence(<<a>>) /\ DOMAIN <<a>> = {1} /\ <<a>>[1] = a
<1>1. <<a>> \in Seq({a}) /\ Len(<<a>>) = 1 /\ 1 .. 1 = {1}
  OBVIOUS
<1>2. IsSequence(<<a>>) /\ DOMAIN <<a>> = 1 .. Len(<<a>>)
  BY <1>1, SequenceOf
<1> QED
  BY <1>1, <1>2

\* A registration of each form says what it registers.
LEMMA OwnerAndName ==
    ASSUME NEW name
    PROVE  /\ \A kind : /\ Owner(ModuleInsertion(kind, name)) = kind
                        /\ Name(ModuleInsertion(kind, name)) = name
           /\ LET x == Insertion(<<"migration">>, "migrations", Boxed(name))
              IN  Owner(x) = "migration" /\ Name(x) = name
           /\ LET x == Insertion(<<"routes">>, "routes", Resource(name))
              IN  Owner(x) = "controllers" /\ Name(x) = name
BY DEF ModuleInsertion, Insertion, Module, Boxed, Resource, Owner, Name

LEMMA ModuleForm ==
    ASSUME NEW kind \in Kinds, NEW name
    PROVE  Form(ModuleInsertion(kind, name)) /\ ModuleInsertion(kind, name).line[1] = "mod"
BY DEF ModuleInsertion, Insertion, Module, Form, Name

\* One file, and the line that registers it.
LEMMA GeneratedIsGood ==
    ASSUME NEW kind \in Kinds \ {"migration"}, NEW name, NEW contents,
           IsSequence(contents), Plain(contents)
    PROVE  GoodPlan(Generated(kind, name, contents), {kind})
<1> DEFINE p == Generated(kind, name, contents)
           x == ModuleInsertion(kind, name)
           f == NewFile(<<kind, name>>, contents)
<1>1. p = Plan(<<f>>, <<x>>) /\ p.files = <<f>> /\ p.insertions = <<x>>
  BY DEF Generated, Plan, ModuleInsertion, ModuleMark
<1>2. /\ f = NewFile(f.path, f.contents) /\ f.contents = contents
      /\ f.path = <<kind, name>> /\ f.path[1] = kind /\ f.path[2] = name
  BY DEF NewFile
<1>3. Form(x) /\ x.line[1] = "mod" /\ Owner(x) = kind /\ Name(x) = name
  BY ModuleForm, OwnerAndName
<1> HIDE DEF p, x, f
<1>4. /\ IsSequence(<<f>>) /\ DOMAIN <<f>> = {1} /\ <<f>>[1] = f
      /\ IsSequence(<<x>>) /\ DOMAIN <<x>> = {1} /\ <<x>>[1] = x
  BY OneElement
<1>5. FilesOK(<<f>>) /\ Paths(<<f>>) = {<<kind, name>>}
  BY <1>2, <1>4 DEF FilesOK, Paths
<1>6. LinesOK(<<x>>) /\ InItsPlace(<<x>>, 1)
  BY <1>3, <1>4 DEF LinesOK, InItsPlace
<1>7. GoodPlan(p, {kind})
  BY <1>1, <1>2, <1>3, <1>4, <1>5, <1>6 DEF GoodPlan
<1> QED
  BY <1>7 DEF p

\* A part that was not asked for.
LEMMA NothingIsGood == ASSUME NEW kinds PROVE GoodPlan(Plan(<<>>, <<>>), kinds)
<1>1. IsSequence(<<>>) /\ DOMAIN <<>> = {}
  BY SequenceOf DEF IsSequence
<1> QED
  BY <1>1 DEF GoodPlan, Plan, FilesOK, LinesOK

\* One file, its line, and a second line that refers to the first.
LEMMA TwoLinesAreGood ==
    ASSUME NEW kind \in Kinds, NEW name, NEW y, Form(y), y.line[1] # "mod",
           Owner(y) = kind, Name(y) = name,
           NEW p, p = Plan(<<NewFile(<<kind, name>>, <<Code>>)>>,
                           <<ModuleInsertion(kind, name), y>>)
    PROVE  GoodPlan(p, {kind})
<1> DEFINE x == ModuleInsertion(kind, name)
           f == NewFile(<<kind, name>>, <<Code>>)
           lines == <<x, y>>
<1>1. p = Plan(<<f>>, lines) /\ p.files = <<f>> /\ p.insertions = lines
  BY DEF Plan
<1>2. /\ f = NewFile(f.path, f.contents) /\ f.contents = <<Code>>
      /\ f.path = <<kind, name>> /\ f.path[1] = kind /\ f.path[2] = name
  BY DEF NewFile
<1>3. Form(x) /\ x.line[1] = "mod" /\ Owner(x) = kind /\ Name(x) = name
  BY ModuleForm, OwnerAndName
<1>4. /\ DOMAIN lines = {1, 2} /\ lines[1] = x /\ lines[2] = y
      /\ lines \in Seq({x, y})
  OBVIOUS
<1>5. IsSequence(<<Code>>) /\ Plain(<<Code>>)
  <2>1. IsSequence(<<Code>>) /\ DOMAIN <<Code>> = {1} /\ <<Code>>[1] = Code
    BY OneElement
  <2> QED
    BY <2>1 DEF Plain, Code
<1> HIDE DEF x, f, lines
<1>6. IsSequence(<<f>>) /\ DOMAIN <<f>> = {1} /\ <<f>>[1] = f
  BY OneElement
<1>7. FilesOK(<<f>>) /\ Paths(<<f>>) = {<<kind, name>>}
  BY <1>2, <1>5, <1>6 DEF FilesOK, Paths
<1>8. IsSequence(lines)
  BY <1>4, SequenceOf
<1>9. x # y
  BY <1>3
<1>10. LinesOK(lines)
  BY <1>3, <1>4, <1>8, <1>9 DEF LinesOK
<1>11. InItsPlace(lines, 1) /\ InItsPlace(lines, 2)
  BY <1>3, <1>4 DEF InItsPlace, x
<1> QED
  BY <1>1, <1>2, <1>3, <1>4, <1>6, <1>7, <1>10, <1>11 DEF GoodPlan

LEMMA MigrationIsGood ==
    ASSUME NEW word \in Words
    PROVE  GoodPlan(MigrationPlan(word), {"migration"})
<1> DEFINE name == Pluralize(word)
           y == Insertion(<<"migration">>, "migrations", Boxed(name))
<1>1. "migration" \in Kinds
  BY DEF Kinds
<1>2. Owner(y) = "migration" /\ Name(y) = name
  BY OwnerAndName
<1>3. y.line = Boxed(name) /\ y.line[1] = "box" /\ Boxed(name) \in Boxes
  BY DEF Insertion, Boxed, Boxes
<1>4. MigrationPlan(word) = Plan(<<NewFile(<<"migration", name>>, <<Code>>)>>,
                                 <<ModuleInsertion("migration", name), y>>)
  BY DEF MigrationPlan, ModuleInsertion, ModuleMark
<1> HIDE DEF name
<1>5. Form(y)
  BY <1>2, <1>3 DEF Form
<1> HIDE DEF y
<1> QED
  BY <1>1, <1>2, <1>3, <1>4, <1>5, TwoLinesAreGood

LEMMA ControllerIsGood ==
    ASSUME NEW word
    PROVE  GoodPlan(ControllerPlan(word), {"controllers"})
<1> DEFINE name == Pluralize(word)
           y == Insertion(<<"routes">>, "routes", Resource(name))
<1>1. "controllers" \in Kinds
  BY DEF Kinds
<1>2. Owner(y) = "controllers" /\ Name(y) = name /\ y.line[1] # "mod"
  BY OwnerAndName DEF Insertion, Resource
<1>3. ControllerPlan(word) = Plan(<<NewFile(<<"controllers", name>>, <<Code>>)>>,
                                  <<ModuleInsertion("controllers", name), y>>)
  BY DEF ControllerPlan, ModuleInsertion, ModuleMark
<1> HIDE DEF name
<1>4. Form(y)
  BY <1>2 DEF Form
<1> HIDE DEF y
<1> QED
  BY <1>1, <1>2, <1>3, <1>4, TwoLinesAreGood

LEMMA MakeModelIsGood ==
    ASSUME NEW word \in Words, NEW flags
    PROVE  \E kinds : GoodPlan(MakeModel(word, flags), kinds)
<1> DEFINE key == Attribute(PrimaryKey)
           id == Field("id", "i64", FALSE)
           S == {Code, Open, Close, key, id}
           entity == <<Code, Open, key, id, Close, Code>>
           factory == <<Code, Open, Close, Code>>
<1>1. /\ IsSequence(<<Code>>) /\ Plain(<<Code>>)
      /\ IsSequence(factory) /\ Plain(factory)
      /\ IsSequence(entity) /\ Plain(entity)
  <2>1. \A line \in S : line[1] \notin {"mod", "box", "resource"}
    <3>1. /\ Code[1] = "code" /\ Open[1] = "marker" /\ Close[1] = "marker"
          /\ key[1] = "attr" /\ id[1] = "field"
      BY DEF Code, Open, Close, Marker, Attribute, Field
    <3> HIDE DEF key, id
    <3> QED
      BY <3>1
  <2> HIDE DEF key, id
  <2>2. <<Code>> \in Seq(S) /\ entity \in Seq(S) /\ factory \in Seq(S)
    OBVIOUS
  <2> HIDE DEF S, entity, factory
  <2>3. \A s \in Seq(S) : Plain(s)
    BY <2>1 DEF Plain
  <2> QED
    BY <2>2, <2>3, SequenceOf
<1>2. {"models", "entities", "validators", "policies", "factories", "seeders"}
         \subseteq Kinds \ {"migration"}
  BY DEF Kinds, ModuleDirs, Range
<1> DEFINE asked(flag, plan) == IF flag \in flags THEN plan ELSE Plan(<<>>, <<>>)
           p1 == ModelPlan(word)
           p2 == p1 ++ EntityPlan(word)
           p3 == p2 ++ asked("migration", MigrationPlan(word))
           p4 == p3 ++ asked("requests", RequestsPlan(word))
           p5 == p4 ++ asked("policy", PolicyPlan(word))
           p6 == p5 ++ asked("factory", FactoryPlan(word))
           p7 == p6 ++ asked("seeder", SeederPlan(word))
           p8 == p7 ++ asked("controller", ControllerPlan(word))
<1>3. MakeModel(word, flags) = p8
  BY DEF MakeModel
<1>4. /\ GoodPlan(ModelPlan(word), {"models"})
      /\ GoodPlan(EntityPlan(word), {"entities"})
      /\ GoodPlan(RequestsPlan(word), {"validators"})
      /\ GoodPlan(PolicyPlan(word), {"policies"})
      /\ GoodPlan(FactoryPlan(word), {"factories"})
      /\ GoodPlan(SeederPlan(word), {"seeders"})
  BY <1>1, <1>2, GeneratedIsGood
     DEF ModelPlan, EntityPlan, RequestsPlan, PolicyPlan, FactoryPlan, SeederPlan
<1>5. ASSUME NEW flag, NEW plan, NEW kinds, GoodPlan(plan, kinds)
      PROVE  GoodPlan(asked(flag, plan), kinds)
  BY <1>5, NothingIsGood
<1>6. /\ GoodPlan(asked("migration", MigrationPlan(word)), {"migration"})
      /\ GoodPlan(asked("requests", RequestsPlan(word)), {"validators"})
      /\ GoodPlan(asked("policy", PolicyPlan(word)), {"policies"})
      /\ GoodPlan(asked("factory", FactoryPlan(word)), {"factories"})
      /\ GoodPlan(asked("seeder", SeederPlan(word)), {"seeders"})
      /\ GoodPlan(asked("controller", ControllerPlan(word)), {"controllers"})
  <2> HIDE DEF asked
  <2> QED
    BY <1>4, <1>5, MigrationIsGood, ControllerIsGood
<1> HIDE DEF asked
<1> HIDE DEF p1, p2, p3, p4, p5, p6, p7, p8
<1>11. GoodPlan(p1, {"models"})
  BY <1>4 DEF p1
<1>12. GoodPlan(p2, {"models"} \cup {"entities"})
  BY <1>4, <1>11, PlanOfTwo DEF p2
<1>13. GoodPlan(p3, {"models", "entities"} \cup {"migration"})
  <2>1. GoodPlan(p2, {"models", "entities"})
    BY <1>12
  <2> QED
    BY <1>6, <2>1, PlanOfTwo DEF p3
<1>14. GoodPlan(p4, {"models", "entities", "migration"} \cup {"validators"})
  <2>1. GoodPlan(p3, {"models", "entities", "migration"})
    BY <1>13
  <2> QED
    BY <1>6, <2>1, PlanOfTwo DEF p4
<1>15. GoodPlan(p5, {"models", "entities", "migration", "validators"} \cup {"policies"})
  <2>1. GoodPlan(p4, {"models", "entities", "migration", "validators"})
    BY <1>14
  <2> QED
    BY <1>6, <2>1, PlanOfTwo DEF p5
<1>16. GoodPlan(p6, {"models", "entities", "migration", "validators", "policies"}
                    \cup {"factories"})
  <2>1. GoodPlan(p5, {"models", "entities", "migration", "validators", "policies"})
    BY <1>15
  <2> QED
    BY <1>6, <2>1, PlanOfTwo DEF p6
<1> DEFINE six == {"models", "entities", "migration", "validators", "policies", "factories"}
<1>17. GoodPlan(p7, six \cup {"seeders"})
  <2>1. GoodPlan(p6, six)
    BY <1>16
  <2> QED
    BY <1>6, <2>1, PlanOfTwo DEF p7
<1>18. GoodPlan(p8, (six \cup {"seeders"}) \cup {"controllers"})
  <2>1. (six \cup {"seeders"}) \cap {"controllers"} = {}
    OBVIOUS
  <2> HIDE DEF six
  <2> QED
    BY <1>6, <1>17, <2>1, PlanOfTwo DEF p8
<1> QED
  BY <1>3, <1>18

-----------------------------------------------------------------------------
(***************************************************************************)
(* The plan of luxid new                                                   *)
(***************************************************************************)

\* The files written carry the markers that are looked for.
Marked(new) == \A n \in Needed : \A i \in DOMAIN new :
                  new[i].path = n[1] => Marker(n[2]) \in Range(new[i].contents)

\* Files of a new application at some paths.
Shell(new, paths) == FilesOK(new) /\ Marked(new) /\ Paths(new) = paths

LEMMA NeededMarks ==
    ASSUME NEW n \in Needed
    PROVE  \/ n[1] = <<"migration">> /\ n[2] \in {"migration-modules", "migrations"}
           \/ n[1] = <<"routes">> /\ n[2] = "routes"
           \/ \E kind \in Kinds \ {"migration"} : n[1] = <<kind>> /\ n[2] = "modules"
BY DEF Needed, ModuleMark

LEMMA KindsListed ==
    Kinds = {"models", "entities", "validators", "services", "middleware", "policies",
             "factories", "seeders", "controllers", "migration"}
<1>1. Range(ModuleDirs) = {"models", "entities", "validators", "services", "middleware",
                           "policies", "factories", "seeders"}
  BY DEF Range, ModuleDirs
<1> QED
  BY <1>1 DEF Kinds

LEMMA ShellOfTwo ==
    ASSUME NEW A, NEW B, A \cap B = {}, NEW s, Shell(s, A), NEW t, Shell(t, B)
    PROVE  Shell(s \o t, A \cup B)
<1>1. IsSequence(s) /\ IsSequence(t)
  BY DEF Shell, FilesOK
<1>2. FilesOK(s \o t) /\ Paths(s \o t) = A \cup B
  BY <1>1, FilesOfConcat, PathsOfConcat DEF Shell
<1>3. Marked(s \o t)
  BY <1>1, PlaceInConcat DEF Shell, Marked
<1> QED
  BY <1>2, <1>3 DEF Shell

\* One file, whose lines are code and markers.
LEMMA ShellOfOne ==
    ASSUME NEW kind, NEW contents, IsSequence(contents), Plain(contents),
           \A n \in Needed : n[1] = <<kind>> => Marker(n[2]) \in Range(contents)
    PROVE  Shell(<<NewFile(<<kind>>, contents)>>, {<<kind>>})
<1> DEFINE f == NewFile(<<kind>>, contents)
<1>1. f = NewFile(f.path, f.contents) /\ f.path = <<kind>> /\ f.contents = contents
  BY DEF NewFile
<1> HIDE DEF f
<1>2. IsSequence(<<f>>) /\ DOMAIN <<f>> = {1} /\ <<f>>[1] = f
  BY OneElement
<1>3. FilesOK(<<f>>) /\ Marked(<<f>>) /\ Paths(<<f>>) = {<<kind>>}
  BY <1>1, <1>2 DEF FilesOK, Marked, Paths
<1> QED
  BY <1>3 DEF Shell, f

\* What is in them.
LEMMA Contents ==
    /\ IsSequence(<<Code>>) /\ Plain(<<Code>>)
    /\ \A mark : LET c == <<Marker(mark)>>
                 IN  IsSequence(c) /\ Plain(c) /\ Marker(mark) \in Range(c)
    /\ \A mark : LET c == <<Code, Marker(mark)>>
                 IN  IsSequence(c) /\ Plain(c) /\ Marker(mark) \in Range(c)
    /\ \A mark : LET c == <<Code, Marker(mark), Code>>
                 IN  IsSequence(c) /\ Plain(c) /\ Marker(mark) \in Range(c)
    /\ \A m1, m2 : LET c == <<Marker(m1), Code, Marker(m2), Code>>
                   IN  /\ IsSequence(c) /\ Plain(c)
                       /\ Marker(m1) \in Range(c) /\ Marker(m2) \in Range(c)
<1> DEFINE S(m1, m2) == {Code, Marker(m1), Marker(m2)}
<1>1. ASSUME NEW m1, NEW m2, NEW s \in Seq(S(m1, m2)) PROVE IsSequence(s) /\ Plain(s)
  <2>1. \A line \in S(m1, m2) : line[1] \notin {"mod", "box", "resource"}
    BY DEF Code, Marker
  <2> HIDE DEF S
  <2> QED
    BY <2>1, SequenceOf DEF Plain
<1>2. ASSUME NEW m1, NEW m2
      PROVE  /\ <<Code>> \in Seq(S(m1, m2)) /\ <<Marker(m1)>> \in Seq(S(m1, m2))
             /\ <<Code, Marker(m1)>> \in Seq(S(m1, m2))
             /\ <<Code, Marker(m1), Code>> \in Seq(S(m1, m2))
             /\ <<Marker(m1), Code, Marker(m2), Code>> \in Seq(S(m1, m2))
  OBVIOUS
<1>3. ASSUME NEW a, NEW b, NEW c, NEW d
      PROVE  /\ a \in Range(<<a>>) /\ b \in Range(<<a, b>>) /\ b \in Range(<<a, b, c>>)
             /\ a \in Range(<<a, b, c, d>>) /\ c \in Range(<<a, b, c, d>>)
  BY DEF Range
<1> HIDE DEF S
<1> QED
  BY <1>1, <1>2, <1>3

\* A sequence of three, part by part.
LEMMA ThreeParts ==
    ASSUME NEW a, NEW b, NEW c
    PROVE  <<a, b, c>> = (<<a>> \o <<b>>) \o <<c>>
<1> DEFINE S == {a, b, c}
           u == <<a>> \o <<b>>
           v == u \o <<c>>
<1>1. /\ <<a, b, c>> \in Seq(S) /\ Len(<<a, b, c>>) = 3
      /\ <<a>> \in Seq(S) /\ <<b>> \in Seq(S) /\ <<c>> \in Seq(S)
      /\ Len(<<a>>) = 1 /\ Len(<<b>>) = 1 /\ Len(<<c>>) = 1
      /\ <<a>>[1] = a /\ <<b>>[1] = b /\ <<c>>[1] = c
  OBVIOUS
<1> HIDE DEF S
<1>2. u \in Seq(S) /\ Len(u) = 2 /\ u[1] = a /\ u[2] = b
  BY <1>1, ConcatProperties
<1> HIDE DEF u
<1>3. v \in Seq(S) /\ Len(v) = 3 /\ v[1] = a /\ v[2] = b /\ v[3] = c
  <2>1. PICK z : z = <<c>>
    OBVIOUS
  <2>2. z \in Seq(S) /\ Len(z) = 1 /\ z[1] = c
    BY <1>1, <2>1
  <2>3. /\ u \o z \in Seq(S) /\ Len(u \o z) = Len(u) + Len(z)
        /\ \A i \in 1 .. Len(u) + Len(z) :
              (u \o z)[i] = IF i <= Len(u) THEN u[i] ELSE z[i - Len(u)]
    BY <1>2, <2>2, ConcatProperties
  <2>4. Len(u \o z) = 3 /\ (u \o z)[1] = a /\ (u \o z)[2] = b /\ (u \o z)[3] = c
    BY <1>2, <2>2, <2>3
  <2> QED
    BY <2>1, <2>3, <2>4
<1> HIDE DEF v
<1>4. \A i \in 1 .. 3 : <<a, b, c>>[i] = v[i]
  BY <1>3
<1>5. <<a, b, c>> = v
  BY <1>1, <1>3, <1>4, SeqEqual
<1> QED
  BY <1>5 DEF u, v

LEMMA ManifestsShell ==
    Shell(Manifests, {<<"Cargo.toml">>, <<"migration">>, <<"main">>})
<1> DEFINE cargo == NewFile(<<"Cargo.toml">>, <<Code>>)
           c == <<Marker("migration-modules"), Code, Marker("migrations"), Code>>
           migration == NewFile(<<"migration">>, c)
           main == NewFile(<<"main">>, <<Code>>)
<1>1. Shell(<<cargo>>, {<<"Cargo.toml">>}) /\ Shell(<<main>>, {<<"main">>})
  <2>1. \A n \in Needed : n[1] # <<"Cargo.toml">> /\ n[1] # <<"main">>
    BY NeededMarks, KindsListed
  <2> QED
    BY <2>1, Contents, ShellOfOne
<1>2. Shell(<<migration>>, {<<"migration">>})
  <2>1. \A n \in Needed : n[1] = <<"migration">> => n[2] \in {"migration-modules", "migrations"}
    BY NeededMarks, KindsListed
  <2>2. /\ IsSequence(c) /\ Plain(c)
        /\ Marker("migration-modules") \in Range(c) /\ Marker("migrations") \in Range(c)
    BY Contents
  <2> HIDE DEF c
  <2> QED
    BY <2>1, <2>2, ShellOfOne
<1> HIDE DEF cargo, migration, main
<1>3. Manifests = (<<cargo>> \o <<migration>>) \o <<main>>
  <2>1. Manifests = <<cargo, migration, main>>
    BY DEF Manifests, cargo, migration, main
  <2>2. <<cargo, migration, main>> = (<<cargo>> \o <<migration>>) \o <<main>>
    BY ThreeParts
  <2> QED
    BY <2>1, <2>2
<1>4. Shell(<<cargo>> \o <<migration>>, {<<"Cargo.toml">>} \cup {<<"migration">>})
  BY <1>1, <1>2, ShellOfTwo
<1>5. Shell((<<cargo>> \o <<migration>>) \o <<main>>,
            ({<<"Cargo.toml">>} \cup {<<"migration">>}) \cup {<<"main">>})
  BY <1>1, <1>4, ShellOfTwo
<1> QED
  BY <1>3, <1>5

LEMMA ShellsShell ==
    /\ Shell(ApiShell, {<<"app">>, <<"routes">>, <<"controllers">>})
    /\ Shell(InertiaShell, {<<"app">>, <<"routes">>, <<"controllers">>})
<1> DEFINE app == NewFile(<<"app">>, <<Code>>)
           routes == NewFile(<<"routes">>, <<Code, Marker("routes"), Code>>)
           controllers == NewFile(<<"controllers">>, <<Code, Marker("modules")>>)
<1>1. Shell(<<app>>, {<<"app">>})
  <2>1. \A n \in Needed : n[1] # <<"app">>
    BY NeededMarks, KindsListed
  <2> QED
    BY <2>1, Contents, ShellOfOne
<1>2. Shell(<<routes>>, {<<"routes">>})
  <2>1. \A n \in Needed : n[1] = <<"routes">> => n[2] = "routes"
    BY NeededMarks, KindsListed
  <2> DEFINE c == <<Code, Marker("routes"), Code>>
  <2>2. IsSequence(c) /\ Plain(c) /\ Marker("routes") \in Range(c)
    BY Contents
  <2> HIDE DEF c
  <2> QED
    BY <2>1, <2>2, ShellOfOne DEF c
<1>3. Shell(<<controllers>>, {<<"controllers">>})
  <2>1. \A n \in Needed : n[1] = <<"controllers">> => n[2] = "modules"
    BY NeededMarks, KindsListed
  <2> DEFINE c == <<Code, Marker("modules")>>
  <2>2. IsSequence(c) /\ Plain(c) /\ Marker("modules") \in Range(c)
    BY Contents
  <2> HIDE DEF c
  <2> QED
    BY <2>1, <2>2, ShellOfOne DEF c
<1> HIDE DEF app, routes, controllers
<1>4. /\ ApiShell = (<<app>> \o <<routes>>) \o <<controllers>>
      /\ InertiaShell = (<<app>> \o <<routes>>) \o <<controllers>>
  <2>1. ApiShell = <<app, routes, controllers>> /\ InertiaShell = <<app, routes, controllers>>
    BY DEF ApiShell, InertiaShell, app, routes, controllers
  <2>2. <<app, routes, controllers>> = (<<app>> \o <<routes>>) \o <<controllers>>
    BY ThreeParts
  <2> QED
    BY <2>1, <2>2
<1>5. Shell(<<app>> \o <<routes>>, {<<"app">>} \cup {<<"routes">>})
  BY <1>1, <1>2, ShellOfTwo
<1>6. Shell((<<app>> \o <<routes>>) \o <<controllers>>,
            ({<<"app">>} \cup {<<"routes">>}) \cup {<<"controllers">>})
  BY <1>3, <1>5, ShellOfTwo
<1> QED
  BY <1>4, <1>6

LEMMA RegistriesShell == Shell(Registries, {<<dir>> : dir \in Range(ModuleDirs)})
<1> DEFINE c == <<Marker("modules")>>
<1>1. /\ DOMAIN ModuleDirs = 1 .. 8
      /\ \A i, j \in 1 .. 8 : ModuleDirs[i] = ModuleDirs[j] => i = j
  BY DEF ModuleDirs
<1>2. IsSequence(c) /\ Plain(c) /\ Marker("modules") \in Range(c)
  BY Contents
<1> HIDE DEF c
<1>3. /\ DOMAIN Registries = 1 .. 8
      /\ \A i \in 1 .. 8 : Registries[i] = NewFile(<<ModuleDirs[i]>>, c)
  BY <1>1 DEF Registries, c
<1>4. \A i \in 1 .. 8 : Registries[i].path = <<ModuleDirs[i]>> /\ Registries[i].contents = c
  BY <1>3 DEF NewFile
<1>5. IsSequence(Registries)
  <2>1. Registries = [i \in 1 .. 8 |-> Registries[i]]
    BY <1>1 DEF Registries
  <2>2. \A i \in 1 .. 8 : Registries[i] \in Range(Registries)
    BY <1>3 DEF Range
  <2>3. Registries \in Seq(Range(Registries))
    BY <2>1, <2>2
  <2> QED
    BY <2>3 DEF IsSequence
<1>6. FilesOK(Registries)
  BY <1>1, <1>2, <1>3, <1>4, <1>5 DEF FilesOK
<1>7. Marked(Registries)
  <2>1. ASSUME NEW n \in Needed, NEW i \in 1 .. 8, n[1] = <<ModuleDirs[i]>>
        PROVE  n[2] = "modules"
    <3>1. ModuleDirs[i] # "migration" /\ ModuleDirs[i] # "routes"
      BY DEF ModuleDirs
    <3> QED
      BY <2>1, <3>1, NeededMarks
  <2> QED
    BY <1>2, <1>3, <1>4, <2>1 DEF Marked
<1>8. Paths(Registries) = {<<dir>> : dir \in Range(ModuleDirs)}
  BY <1>1, <1>3, <1>4 DEF Paths, Range
<1> QED
  BY <1>6, <1>7, <1>8 DEF Shell

\* luxid new writes every file the other generators add to, each with its
\* markers, for each stack.
LEMMA NewAppIsGood ==
    ASSUME NEW stack
    PROVE  /\ NewApp(stack) = Plan(NewApp(stack).files, <<>>)
           /\ NewApp(stack).insertions = <<>>
           /\ FilesOK(NewApp(stack).files) /\ Marked(NewApp(stack).files)
           /\ Indexes \subseteq Paths(NewApp(stack).files)
<1> DEFINE shell == IF stack = "api" THEN ApiShell ELSE InertiaShell
           readme == <<NewFile(<<"README.md">>, <<Code>>)>>
           A == {<<"Cargo.toml">>, <<"migration">>, <<"main">>}
           B == {<<"app">>, <<"routes">>, <<"controllers">>}
           C == {<<dir>> : dir \in Range(ModuleDirs)}
           f == ((Manifests \o shell) \o Registries) \o readme
<1>1. NewApp(stack) = Plan(f, <<>>)
  BY DEF NewApp
<1>2. Shell(shell, B)
  BY ShellsShell
<1>3. Shell(readme, {<<"README.md">>})
  <2>1. \A n \in Needed : n[1] # <<"README.md">>
    BY NeededMarks, KindsListed
  <2> QED
    BY <2>1, Contents, ShellOfOne
<1>4. /\ A \cap B = {} /\ (A \cup B) \cap C = {}
      /\ ((A \cup B) \cup C) \cap {<<"README.md">>} = {}
      /\ Indexes \subseteq (A \cup B) \cup C
  <2>1. Range(ModuleDirs) = {"models", "entities", "validators", "services", "middleware",
                             "policies", "factories", "seeders"}
    BY DEF Range, ModuleDirs
  <2> QED
    BY <2>1 DEF Indexes, Kinds
<1>5. Shell(Manifests, A) /\ Shell(Registries, C)
  BY ManifestsShell, RegistriesShell
<1> HIDE DEF shell, readme, A, B, C
<1>6. Shell(Manifests \o shell, A \cup B)
  BY <1>2, <1>4, <1>5, ShellOfTwo
<1>7. Shell((Manifests \o shell) \o Registries, (A \cup B) \cup C)
  BY <1>4, <1>5, <1>6, ShellOfTwo
<1>8. Shell(f, ((A \cup B) \cup C) \cup {<<"README.md">>})
  BY <1>3, <1>4, <1>7, ShellOfTwo
<1> HIDE DEF f
<1> QED
  BY <1>1, <1>4, <1>8 DEF Plan, Shell

-----------------------------------------------------------------------------
(***************************************************************************)
(* Positions in a file                                                     *)
(***************************************************************************)

LEMMA OnePosition ==
    ASSUME NEW s, IsSequence(s), NEW line
    PROVE  Cardinality(Positions(s, line)) = 1 <=> \E i : Positions(s, line) = {i}
<1>1. IsFiniteSet(Positions(s, line))
  <2>1. DOMAIN s = 1 .. Len(s) /\ Len(s) \in Nat
    BY SequenceOf DEF IsSequence
  <2>2. IsFiniteSet(DOMAIN s) /\ Positions(s, line) \subseteq DOMAIN s
    BY <2>1, FS_Interval DEF Positions
  <2> QED
    BY <2>2, FS_Subset
<1> QED
  BY <1>1, FS_Singleton

\* The place a line is put at is the first of those found.
LEMMA FirstPosition ==
    ASSUME NEW s, IsSequence(s), NEW line, Positions(s, line) # {}
    PROVE  /\ First(Positions(s, line)) \in 1 .. Len(s)
           /\ s[First(Positions(s, line))] = line
           /\ \A j \in Positions(s, line) : First(Positions(s, line)) <= j
<1>1. DOMAIN s = 1 .. Len(s)
  BY SequenceOf DEF IsSequence
<1>2. Positions(s, line) \in SUBSET Nat
  BY <1>1 DEF Positions
<1>3. \E i \in Positions(s, line) : \A j \in Positions(s, line) : i <= j
  BY <1>2, LeastOfNumbers
<1>4. /\ First(Positions(s, line)) \in Positions(s, line)
      /\ \A j \in Positions(s, line) : First(Positions(s, line)) <= j
  BY <1>3 DEF First
<1> QED
  BY <1>1, <1>4 DEF Positions

\* A line that is put in is where it was put, if it was nowhere before, and
\* every other one is as often there as it was.
LEMMA PositionsAfterInsert ==
    ASSUME NEW s, IsSequence(s), NEW i \in 1 .. Len(s), NEW x, NEW line,
           IF line = x THEN x \notin Range(s) ELSE Cardinality(Positions(s, line)) = 1
    PROVE  Cardinality(Positions(InsertAt(s, i, x), line)) = 1
<1> DEFINE t == InsertAt(s, i, x)
<1>1. /\ IsSequence(t) /\ Len(t) = Len(s) + 1 /\ Len(s) \in Nat
      /\ DOMAIN t = 1 .. Len(s) + 1 /\ DOMAIN s = 1 .. Len(s)
      /\ \A j \in 1 .. Len(s) + 1 :
            t[j] = IF j < i THEN s[j] ELSE IF j = i THEN x ELSE s[j - 1]
  BY InsertAtSequence, SequenceOf DEF IsSequence
<1> HIDE DEF t
<1>2. CASE line = x
  <2>1. \A j \in 1 .. Len(s) : s[j] # x
    BY <1>1, <1>2 DEF Range
  <2>2. \A j \in 1 .. Len(s) + 1 : t[j] = x <=> j = i
    BY <1>1, <2>1
  <2>3. Positions(t, line) = {i}
    BY <1>1, <1>2, <2>2 DEF Positions
  <2> QED
    BY <1>1, <2>3, OnePosition DEF t
<1>3. CASE line # x
  <2>1. PICK k : Positions(s, line) = {k}
    BY <1>3, OnePosition
  <2>2. k \in 1 .. Len(s) /\ \A j \in 1 .. Len(s) : s[j] = line <=> j = k
    BY <1>1, <2>1 DEF Positions
  <2> DEFINE m == IF k < i THEN k ELSE k + 1
  <2>3. m \in 1 .. Len(s) + 1 /\ \A j \in 1 .. Len(s) + 1 : t[j] = line <=> j = m
    BY <1>1, <1>3, <2>2
  <2> HIDE DEF m
  <2>4. Positions(t, line) = {m}
    BY <1>1, <2>3 DEF Positions
  <2> QED
    BY <1>1, <2>4, OnePosition DEF t
<1> QED
  BY <1>2, <1>3

\* Taking out a line leaves the others as they were.
LEMMA PositionsAfterRemove ==
    ASSUME NEW s, IsSequence(s), NEW i \in 1 .. Len(s)
    PROVE  /\ \A line \in Range(s) : line # s[i] => line \in Range(RemoveAt(s, i))
           /\ \A line : line # s[i] /\ Cardinality(Positions(s, line)) = 1
                          => Cardinality(Positions(RemoveAt(s, i), line)) = 1
<1> DEFINE t == RemoveAt(s, i)
<1>1. /\ IsSequence(t) /\ Len(t) = Len(s) - 1 /\ Len(s) \in Nat
      /\ DOMAIN t = 1 .. Len(s) - 1 /\ DOMAIN s = 1 .. Len(s)
      /\ \A j \in 1 .. Len(s) - 1 : t[j] = IF j < i THEN s[j] ELSE s[j + 1]
  BY RemoveAtSequence, SequenceOf DEF IsSequence
<1> HIDE DEF t
<1>2. ASSUME NEW k \in 1 .. Len(s), k # i
      PROVE  LET m == IF k < i THEN k ELSE k - 1 IN m \in DOMAIN t /\ t[m] = s[k]
  BY <1>1, <1>2
<1>3. ASSUME NEW line \in Range(s), line # s[i] PROVE line \in Range(t)
  <2>1. PICK k \in 1 .. Len(s) : line = s[k]
    BY <1>1 DEF Range
  <2>2. k # i
    BY <1>3, <2>1
  <2> DEFINE m == IF k < i THEN k ELSE k - 1
  <2>3. m \in DOMAIN t /\ t[m] = line
    BY <1>2, <2>1, <2>2
  <2> HIDE DEF m
  <2> QED
    BY <2>3 DEF Range
<1>4. ASSUME NEW line, line # s[i], Cardinality(Positions(s, line)) = 1
      PROVE  Cardinality(Positions(t, line)) = 1
  <2>1. PICK k : Positions(s, line) = {k}
    BY <1>4, OnePosition
  <2>2. k \in 1 .. Len(s) /\ k # i /\ \A j \in 1 .. Len(s) : s[j] = line <=> j = k
    BY <1>1, <1>4, <2>1 DEF Positions
  <2> DEFINE m == IF k < i THEN k ELSE k - 1
  <2>3. m \in 1 .. Len(s) - 1 /\ \A j \in 1 .. Len(s) - 1 : t[j] = line <=> j = m
    BY <1>1, <2>2
  <2> HIDE DEF m
  <2>4. Positions(t, line) = {m}
    BY <1>1, <2>3 DEF Positions
  <2> QED
    BY <1>1, <2>4, OnePosition
<1> QED
  BY <1>3, <1>4 DEF t

-----------------------------------------------------------------------------
(***************************************************************************)
(* The steps, by what they do to the files                                 *)
(***************************************************************************)

\* The questions of luxid new are asked where nothing is written yet.
AskInv == cmd.name = "ask" => files = <<>>

\* A generated file changes, or none does: not one that registers a kind.
ChangesGenerated ==
    /\ DOMAIN files' = DOMAIN files
    /\ \A kind : <<kind>> \in DOMAIN files => files'[<<kind>>] = files[<<kind>>]

StartsNew ==
    /\ files' = files /\ files = <<>> /\ cmd.name # "write"
    /\ \E stack : cmd' = Writing(NewApp(stack))

StartsModel ==
    /\ files' = files /\ DOMAIN files # {} /\ cmd.name = "none"
    /\ \E word \in Words : \E flags : cmd' = Writing(MakeModel(word, flags))
                                       /\ Clashes(MakeModel(word, flags)) = {}

\* A command that ends is over; a write in between leads to the next one.
Quiet == /\ files' = files /\ cmd'.name # "write"
         /\ cmd'.name = "ask" => cmd.name = "ask" \/ files = <<>>

EditsAMarker == Idle /\ \E path \in DOMAIN files : \E mark : RemoveMarker(path, mark)

LEMMA NewStarts ==
    ASSUME NEW o \in CommandLines, files = <<>>, files' = files, cmd.name # "write",
           cmd' \in {WithClient(o, c) : c \in Clients \cup {"refused", "ask"}}
                \cup {WithKind(o, k) : k \in {"refused", "ask", "api", "inertia"}}
    PROVE  Quiet \/ StartsNew
<1>1. ASSUME NEW c \in Clients \cup {"refused", "ask"}, cmd' = WithClient(o, c)
      PROVE  Quiet \/ StartsNew
  <2>1. CASE c = "refused" \/ c = "ask"
    BY <1>1, <2>1 DEF WithClient, Ended, Asking, Quiet
  <2>2. CASE c \in Clients
    <3>1. cmd' = Writing(NewApp(c))
      BY <1>1, <2>2 DEF WithClient, Clients
    <3> QED
      BY <3>1 DEF StartsNew
  <2> QED
    BY <2>1, <2>2
<1>2. ResolveClient(o) \in Clients \cup {"refused", "ask"}
  BY DEF ResolveClient, CommandLines, Clients
<1>3. ASSUME NEW k \in {"refused", "ask", "api", "inertia"}, cmd' = WithKind(o, k)
      PROVE  Quiet \/ StartsNew
  <2>1. CASE k = "refused" \/ k = "ask"
    BY <1>3, <2>1 DEF WithKind, Ended, Asking, Quiet
  <2>2. CASE k = "inertia"
    BY <1>1, <1>2, <1>3, <2>2 DEF WithKind
  <2>3. CASE k = "api" /\ o.client = "none"
    <3>1. cmd' = Writing(NewApp("api"))
      BY <1>3, <2>3 DEF WithKind
    <3> QED
      BY <3>1 DEF StartsNew
  <2>4. CASE k = "api" /\ o.client # "none"
    BY <1>3, <2>4 DEF WithKind, Ended, Quiet
  <2> QED
    BY <1>3, <2>1, <2>2, <2>3, <2>4
<1> QED
  BY <1>1, <1>3

LEMMA AnswerStarts ==
    ASSUME CmdOK, AskInv, NEW answer, Answer(answer)
    PROVE  UNCHANGED <<files, cmd>> \/ Quiet \/ StartsNew
<1>1. cmd.name = "ask" /\ cmd.options \in CommandLines /\ files = <<>> /\ files' = files
  BY DEF Answer, CmdOK, AskInv
<1> DEFINE chosen == Chosen(answer, cmd.choices, cmd.stdin)
<1>2. CASE chosen = "again"
  BY <1>1, <1>2 DEF Answer
<1>3. CASE chosen \in Clients
  <2>1. chosen # "again"
    BY <1>3 DEF Clients
  <2>2. cmd' = WithClient(cmd.options, chosen)
    BY <1>3, <2>1 DEF Answer
  <2> QED
    BY <1>1, <1>3, <2>2, NewStarts
<1>4. CASE chosen \notin Clients /\ chosen # "again"
  <2>1. cmd' = WithKind(cmd.options, chosen)
    BY <1>4 DEF Answer
  <2>2. chosen \in {"api", "inertia"}
    <3>1. CASE cmd.choices = <<"api", "inertia">>
      BY <1>4, <3>1 DEF Chosen, Range
    <3>2. CASE cmd.choices = <<"react", "vue", "svelte">>
      BY <1>4, <3>2 DEF Chosen, Range, Clients
    <3> QED
      BY <1>1, <3>1, <3>2 DEF CmdOK
  <2> QED
    BY <1>1, <2>1, <2>2, NewStarts
<1> QED
  BY <1>2, <1>3, <1>4

\* A file of two names is not one that registers a kind.
LEMMA EditOfGenerated ==
    ASSUME NEW kind, NEW name, NEW lines,
           files' = [files EXCEPT ![<<kind, name>>] = lines]
    PROVE  ChangesGenerated
BY DEF ChangesGenerated

LEMMA SyncChangesGenerated ==
    ASSUME SyncFile
    PROVE  ChangesGenerated
<1> DEFINE kind == Head(cmd.todo)[1]
           table == Head(cmd.todo)[2]
           path == SyncPath(kind, table)
<1>1. files' = files \/ files' = [files EXCEPT ![path] = Synced(kind, table)]
  BY DEF SyncFile
<1>2. path = <<kind, table>> \/ path = <<kind, Singular(table)>>
  BY DEF SyncPath
<1> HIDE DEF kind, table, path
<1>3. CASE files' = files
  BY <1>3 DEF ChangesGenerated
<1>4. CASE files' = [files EXCEPT ![path] = Synced(kind, table)]
  BY <1>2, <1>4, EditOfGenerated
<1> QED
  BY <1>1, <1>3, <1>4

\* What a step can be.
LEMMA StepKinds ==
    ASSUME CmdOK, AskInv, [Next]_vars
    PROVE  \/ UNCHANGED <<files, cmd>>
           \/ Quiet
           \/ StartsNew
           \/ StartsModel
           \/ WriteFile
           \/ Insert /\ cmd'.name = "write"
           \/ ChangesGenerated /\ cmd.name \in {"sync", "none"} /\ cmd'.name \in {"sync", "none"}
           \/ EditsAMarker
<1> DEFINE Generated1 == ChangesGenerated /\ cmd.name \in {"sync", "none"}
                                          /\ cmd'.name \in {"sync", "none"}
<1>1. ASSUME NEW o \in Options, New(o) PROVE Quiet \/ StartsNew
  <2>1. ResolveKind(o) \in {"refused", "ask", "api", "inertia"} /\ o \in CommandLines
    BY OptionsAssumption DEF ResolveKind, CommandLines
  <2>2. files = <<>> /\ files' = files /\ cmd.name # "write" /\ cmd' = WithKind(o, ResolveKind(o))
    BY <1>1 DEF New, Idle
  <2> QED
    BY <2>1, <2>2, NewStarts
<1>2. CASE NewAgain
  BY <1>2 DEF NewAgain, Ended, Quiet
<1>3. ASSUME NEW word \in Words, NEW flags \in FlagSets, MakeModelCommand(word, flags)
      PROVE  Quiet \/ StartsModel
  <2> DEFINE plan == MakeModel(word, flags)
  <2>1. files' = files /\ cmd.name = "none" /\ (ProjectRoot => DOMAIN files # {})
    BY <1>3 DEF MakeModelCommand, Idle, ProjectRoot
  <2>2. CASE ~ ProjectRoot \/ Clashes(plan) # {}
    <3>1. \E outcome : cmd' = Ended(outcome)
      BY <1>3, <2>2 DEF MakeModelCommand
    <3> QED
      BY <2>1, <3>1 DEF Ended, Quiet
  <2>3. CASE ProjectRoot /\ Clashes(plan) = {}
    <3>1. cmd' = Writing(plan)
      BY <1>3, <2>3 DEF MakeModelCommand
    <3> QED
      BY <2>1, <2>3, <3>1 DEF StartsModel
  <2> QED
    BY <2>2, <2>3
<1>4. CASE HangUp
  BY <1>4 DEF HangUp, CmdOK, Quiet
<1>5. CASE Insert
  <2>1. CASE \E outcome : cmd' = Ended(outcome) /\ files' = files
    BY <2>1 DEF Ended, Quiet
  <2>2. CASE \E plan : cmd' = [cmd EXCEPT !.plan = plan]
    <3>1. cmd = [name |-> "write", plan |-> cmd.plan]
      BY <1>5 DEF Insert, Writing, CmdOK
    <3> QED
      BY <1>5, <2>2, <3>1
  <2> QED
    BY <1>5, <2>1, <2>2 DEF Insert
<1>6. CASE Written \/ Migrated \/ SyncDone
  BY <1>6 DEF Written, Migrated, SyncDone, Ended, Quiet
<1>7. ASSUME NEW steps, Migrate(steps) \/ MigrateRollback(steps) PROVE Quiet
  BY <1>7, MigratingGoesOn DEF Migrate, MigrateRollback, Quiet
<1>8. ASSUME NEW force \in BOOLEAN, MigrateFresh(force) PROVE Quiet
  <2>1. CASE force
    BY <1>8, <2>1, MigratingGoesOn DEF MigrateFresh, Quiet
  <2>2. CASE ~ force
    BY <1>8, <2>2 DEF MigrateFresh, Ended, Quiet
  <2> QED
    BY <2>1, <2>2
<1>9. CASE Up
  BY <1>9 DEF Up, CmdOK, Quiet
<1>10. CASE Down
  BY <1>10 DEF Down, Ended, CmdOK, Quiet
<1>11. CASE Record \/ Fresh
  BY <1>11, MigratingGoesOn DEF Record, Fresh, Quiet
<1>12. ASSUME NEW dry, DbSync(dry) PROVE Quiet
  BY <1>12 DEF DbSync, Quiet
<1>13. CASE SyncFile
  <2>1. cmd.name = "sync" /\ cmd'.name = "sync"
    BY <1>13 DEF SyncFile, CmdOK
  <2> QED
    BY <1>13, <2>1, SyncChangesGenerated
<1>14. ASSUME NEW kind, NEW name, NEW lines, Edit(<<kind, name>>, lines) PROVE Generated1
  BY <1>14, EditOfGenerated DEF Edit, Idle, Ended
<1>15. ASSUME Edited PROVE Generated1 \/ EditsAMarker
  <2>1. ASSUME NEW word \in Words, NEW columns \in ColumnSets,
               FillMigration(Pluralize(word), columns)
        PROVE  Generated1
    BY <1>14, <2>1 DEF FillMigration
  <2>2. ASSUME NEW table, NEW line, Annotate(table, line) PROVE Generated1
    BY <1>14, <2>2 DEF Annotate
  <2>3. ASSUME NEW path \in DOMAIN files, NEW mark, RemoveMarker(path, mark) PROVE EditsAMarker
    <3>1. Idle
      BY <2>3 DEF RemoveMarker, Edit
    <3> QED
      BY <2>3, <3>1 DEF EditsAMarker
  <2> HIDE DEF Generated1
  <2> QED
    BY <1>15, <2>1, <2>2, <2>3 DEF Edited
<1>16. CASE Stop
  BY <1>16 DEF Stop, Ended, Quiet
<1>17. CASE UNCHANGED vars
  BY <1>17 DEF vars
<1> HIDE DEF Generated1
<1>18. CASE Generate
  BY <1>1, <1>2, <1>3, <1>18 DEF Generate
<1>19. CASE Reply
  BY <1>19, AnswerStarts DEF Reply
<1>20. CASE RunCommand
  BY <1>7, <1>8, <1>12, <1>20 DEF RunCommand
<1>21. CASE Work
  BY <1>5, <1>6, <1>9, <1>10, <1>11, <1>13, <1>21 DEF Work
<1> QED
  BY <1>4, <1>15, <1>16, <1>17, <1>18, <1>19, <1>20, <1>21 DEF Next, Generated1

-----------------------------------------------------------------------------
(***************************************************************************)
(* Nothing is registered that is not there                                 *)
(***************************************************************************)

\* Registering lines, one kind after the other.
ModulesHold ==
    \A kind \in Kinds : \A line \in Lines(<<kind>>) :
        line[1] = "mod" => /\ <<kind, line[2]>> \in DOMAIN files
                           /\ Cardinality(Positions(files[<<kind>>], line)) = 1
BoxesHold ==
    \A line \in Lines(<<"migration">>) : line[1] = "box" => Registered("migration", line[2])
RoutesHold ==
    \A line \in Lines(<<"routes">>) : line[1] = "resource" => Registered("controllers", line[2])

LEMMA RegistriesInParts == RegistriesHold <=> ModulesHold /\ BoxesHold /\ RoutesHold
BY DEF RegistriesHold, ModulesHold, BoxesHold, RoutesHold, Kinds

\* What is registered, in files as they are before and after.
RegistriesInv == IndexesInv /\ WritingInv /\ RegistriesHold

\* A step that leaves the files that register as they are.
LEMMA SameIndexes ==
    ASSUME RegistriesInv, cmd'.name # "write", DOMAIN files' = DOMAIN files,
           \A kind : <<kind>> \in DOMAIN files => files'[<<kind>>] = files[<<kind>>]
    PROVE  RegistriesInv'
<1>1. \A kind : Lines(<<kind>>)' = Lines(<<kind>>)
  BY DEF Lines
<1>2. \A kind, name : Registered(kind, name)' <=> Registered(kind, name)
  BY <1>1 DEF Registered
<1>3. ModulesHold'
  <2>1. ASSUME NEW kind \in Kinds, NEW line \in Lines(<<kind>>)', line[1] = "mod"
        PROVE  /\ <<kind, line[2]>> \in DOMAIN files'
               /\ Cardinality(Positions(files'[<<kind>>], line)) = 1
    <3>1. <<kind>> \in DOMAIN files
      BY <2>1 DEF Lines
    <3>2. line \in Lines(<<kind>>)
      BY <1>1, <2>1
    <3>3. ModulesHold
      BY RegistriesInParts DEF RegistriesInv
    <3>4. /\ <<kind, line[2]>> \in DOMAIN files
          /\ Cardinality(Positions(files[<<kind>>], line)) = 1
      BY <2>1, <3>2, <3>3 DEF ModulesHold
    <3> QED
      BY <3>1, <3>4
  <2> QED
    BY <2>1 DEF ModulesHold
<1>4. BoxesHold' /\ RoutesHold'
  BY <1>1, <1>2, RegistriesInParts DEF RegistriesInv, BoxesHold, RoutesHold
<1>5. IndexesInv'
  <2>1. \A path \in Indexes : \E kind : path = <<kind>>
    BY DEF Indexes
  <2>2. ASSUME NEW path \in Indexes, path \in DOMAIN files'
        PROVE  path \in DOMAIN files /\ files'[path] = files[path]
    BY <2>1, <2>2
  <2> QED
    BY <2>2 DEF RegistriesInv, IndexesInv
<1>6. WritingInv'
  BY DEF WritingInv
<1>7. RegistriesHold'
  BY <1>3, <1>4, RegistriesInParts, PTL
<1> QED
  BY <1>5, <1>6, <1>7 DEF RegistriesInv

\* A marker is taken out of a file that registers a kind, or of another.
LEMMA RemoveKeepsRegistries ==
    ASSUME RegistriesInv, EditsAMarker
    PROVE  RegistriesInv'
<1>0. PICK path \in DOMAIN files : \E mark : RemoveMarker(path, mark)
  BY DEF EditsAMarker
<1>1. PICK mark : RemoveMarker(path, mark)
  BY <1>0
<1>2. PICK i \in Positions(files[path], Marker(mark)) : Edit(path, RemoveAt(files[path], i))
  BY <1>1 DEF RemoveMarker
<1> DEFINE s == files[path]
           t == RemoveAt(s, i)
<1>3. files' = [files EXCEPT ![path] = t] /\ cmd'.name # "write"
  BY <1>2 DEF Edit, Ended
<1>4. DOMAIN files' = DOMAIN files
  BY <1>3
<1>5. CASE path \notin Indexes
  <2>1. \A kind : <<kind>> \in DOMAIN files /\ <<kind>> # path => files'[<<kind>>] = files[<<kind>>]
    BY <1>3
  <2>2. ModulesHold'
    <3>1. \A kind \in Kinds : path # <<kind>> /\ path # <<"routes">>
      BY <1>5 DEF Indexes
    <3>2. \A kind \in Kinds : Lines(<<kind>>)' = Lines(<<kind>>)
      BY <1>4, <2>1, <3>1 DEF Lines
    <3>3. ModulesHold
      BY RegistriesInParts DEF RegistriesInv
    <3>4. \A kind \in Kinds : <<kind>> \in DOMAIN files => files'[<<kind>>] = files[<<kind>>]
      BY <2>1, <3>1
    <3>5. \A kind \in Kinds : \A line \in Lines(<<kind>>) : <<kind>> \in DOMAIN files
      BY DEF Lines
    <3> QED
      BY <1>4, <3>2, <3>3, <3>4, <3>5 DEF ModulesHold
  <2>3. /\ \A kind \in {"migration", "controllers", "routes"} : Lines(<<kind>>)' = Lines(<<kind>>)
    <3>1. \A kind \in {"migration", "controllers", "routes"} : path # <<kind>>
      BY <1>5 DEF Indexes, Kinds
    <3> QED
      BY <1>4, <2>1, <3>1 DEF Lines
  <2>4. BoxesHold' /\ RoutesHold'
    BY <2>3, RegistriesInParts DEF RegistriesInv, BoxesHold, RoutesHold, Registered
  <2>5. IndexesInv'
    BY <1>3, <1>4, <1>5 DEF RegistriesInv, IndexesInv
  <2>6. WritingInv'
    BY <1>3 DEF WritingInv
  <2>7. RegistriesHold'
    BY <2>2, <2>4, RegistriesInParts, PTL
  <2> QED
    BY <2>5, <2>6, <2>7 DEF RegistriesInv
<1>6. CASE path \in Indexes
  <2>1. IsSequence(s) /\ i \in 1 .. Len(s) /\ s[i] = Marker(mark)
    <3>1. IsSequence(s)
      BY <1>6 DEF RegistriesInv, IndexesInv
    <3> QED
      BY <3>1, SequenceOf DEF IsSequence, Positions
  <2> HIDE DEF s
  <2>2. /\ IsSequence(t) /\ Range(t) \subseteq Range(s)
        /\ \A line \in Range(s) : line # Marker(mark) => line \in Range(t)
        /\ \A line : line # Marker(mark) /\ Cardinality(Positions(s, line)) = 1
                        => Cardinality(Positions(t, line)) = 1
    BY <2>1, RemoveAtSequence, PositionsAfterRemove
  <2> HIDE DEF t
  <2>3. files'[path] = t /\ \A p \in DOMAIN files : p # path => files'[p] = files[p]
    BY <1>3
  <2>4. \A p : /\ Lines(p)' \subseteq Lines(p)
               /\ \A line \in Lines(p) : line # Marker(mark) => line \in Lines(p)'
    BY <1>4, <2>2, <2>3 DEF Lines, s
  <2>5. \A kind, name : Registered(kind, name) => Registered(kind, name)'
    <3>1. \A name : Module(name) # Marker(mark)
      BY DEF Module, Marker
    <3> QED
      BY <2>4, <3>1 DEF Registered
  <2>6. ModulesHold'
    <3>1. ASSUME NEW kind \in Kinds, NEW line \in Lines(<<kind>>)', line[1] = "mod"
          PROVE  /\ <<kind, line[2]>> \in DOMAIN files'
                 /\ Cardinality(Positions(files'[<<kind>>], line)) = 1
      <4>1. <<kind>> \in DOMAIN files /\ line \in Lines(<<kind>>) /\ line # Marker(mark)
        BY <1>4, <2>4, <3>1 DEF Lines, Marker
      <4>2. ModulesHold
        BY RegistriesInParts DEF RegistriesInv
      <4>3. /\ <<kind, line[2]>> \in DOMAIN files
            /\ Cardinality(Positions(files[<<kind>>], line)) = 1
        BY <3>1, <4>1, <4>2 DEF ModulesHold
      <4>4. CASE <<kind>> = path
        BY <1>4, <2>2, <2>3, <4>1, <4>3, <4>4 DEF s
      <4>5. CASE <<kind>> # path
        BY <1>4, <2>3, <4>1, <4>3, <4>5
      <4> QED
        BY <4>4, <4>5
    <3> QED
      BY <3>1 DEF ModulesHold
  <2>7. BoxesHold' /\ RoutesHold'
    BY <2>4, <2>5, RegistriesInParts DEF RegistriesInv, BoxesHold, RoutesHold
  <2>8. IndexesInv'
    BY <1>4, <2>2, <2>3 DEF RegistriesInv, IndexesInv
  <2>9. WritingInv'
    BY <1>3 DEF WritingInv
  <2>10. RegistriesHold'
    BY <2>6, <2>7, RegistriesInParts, PTL
  <2> QED
    BY <2>8, <2>9, <2>10 DEF RegistriesInv
<1> QED
  BY <1>5, <1>6

\* The plan between two writes, written out.
LEMMA PlanOfWriting ==
    ASSUME CmdOK, WritingInv, cmd.name = "write"
    PROVE  /\ cmd = Writing(Plan(cmd.plan.files, cmd.plan.insertions))
           /\ FilesOK(cmd.plan.files) /\ IsSequence(cmd.plan.files)
           /\ LinesOK(cmd.plan.insertions) /\ IsSequence(cmd.plan.insertions)
BY DEF CmdOK, WritingInv, FilesOK, LinesOK

LEMMA PlanShrinks ==
    ASSUME NEW new, NEW todo, NEW rest, cmd = Writing(Plan(new, todo))
    PROVE  /\ cmd.name = "write" /\ cmd.plan.files = new /\ cmd.plan.insertions = todo
           /\ [cmd EXCEPT !.plan.files = rest] = Writing(Plan(rest, todo))
           /\ [cmd EXCEPT !.plan.insertions = rest] = Writing(Plan(new, rest))
BY DEF Writing, Plan

\* A file is written where there was none: it registers nothing.
LEMMA WriteKeepsRegistries ==
    ASSUME CmdOK, RegistriesInv, WriteFile
    PROVE  RegistriesInv'
<1>0. PICK new, todo : new = cmd.plan.files /\ todo = cmd.plan.insertions
  OBVIOUS
<1> DEFINE f == Head(new)
           p == f.path
<1>1. /\ cmd = Writing(Plan(new, todo)) /\ FilesOK(new) /\ IsSequence(new) /\ LinesOK(todo)
      /\ Paths(new) \cap DOMAIN files = {} /\ new # <<>>
      /\ \A i \in DOMAIN todo :
            /\ <<Owner(todo[i]), Name(todo[i])>> \in DOMAIN files \cup Paths(new)
            /\ todo[i].line \notin Lines(todo[i].path)
            /\ InItsPlace(todo, i) \/ Registered(Owner(todo[i]), Name(todo[i]))
  <2>1. cmd.name = "write" /\ new # <<>>
    BY <1>0 DEF WriteFile
  <2> QED
    BY <1>0, <2>1, PlanOfWriting DEF RegistriesInv, WritingInv
<1>2. /\ files' = [path \in DOMAIN files \cup {p} |-> IF path = p THEN f.contents ELSE files[path]]
  BY <1>0 DEF WriteFile
<1>3. cmd' = Writing(Plan(Tail(new), todo))
  <2>1. cmd' = [cmd EXCEPT !.plan.files = Tail(new)]
    BY <1>0 DEF WriteFile
  <2> QED
    BY <1>1, <2>1, PlanShrinks
<1>4. /\ DOMAIN new = 1 .. Len(new) /\ Len(new) \in Nat \ {0} /\ f = new[1]
      /\ IsSequence(Tail(new)) /\ DOMAIN Tail(new) = 1 .. Len(new) - 1
      /\ \A i \in 1 .. Len(new) - 1 : Tail(new)[i] = new[i + 1]
  BY <1>1, TailSequence
<1> HIDE DEF f
<1>5. /\ p \notin DOMAIN files /\ p \in Paths(new)
      /\ f = NewFile(p, f.contents) /\ IsSequence(f.contents) /\ Plain(f.contents)
  BY <1>1, <1>4 DEF Paths, FilesOK
<1>6. FilesOK(Tail(new)) /\ Paths(new) = Paths(Tail(new)) \cup {p} /\ p \notin Paths(Tail(new))
  <2>1. \A i \in 1 .. Len(new) - 1 : i + 1 \in 1 .. Len(new) /\ i + 1 # 1
    BY <1>4
  <2>2. FilesOK(Tail(new))
    <3>1. ASSUME NEW i \in DOMAIN Tail(new), NEW j \in DOMAIN Tail(new),
                 Tail(new)[i].path = Tail(new)[j].path
          PROVE  i = j
      <4>1. i + 1 = j + 1
        BY <1>1, <1>4, <2>1, <3>1 DEF FilesOK
      <4> QED
        BY <1>4, <4>1
    <3> QED
      BY <1>1, <1>4, <2>1, <3>1 DEF FilesOK
  <2>3. p \notin Paths(Tail(new))
    BY <1>1, <1>4, <2>1 DEF FilesOK, Paths
  <2>4. \A i \in 1 .. Len(new) : i = 1 \/ (i - 1 \in 1 .. Len(new) - 1 /\ (i - 1) + 1 = i)
    BY <1>4
  <2>5. Paths(new) \subseteq Paths(Tail(new)) \cup {p}
    <3>1. ASSUME NEW i \in 1 .. Len(new) PROVE new[i].path \in Paths(Tail(new)) \cup {p}
      <4>1. CASE i = 1
        BY <1>4, <1>5, <4>1 DEF p
      <4>2. CASE i # 1
        <5>1. i - 1 \in DOMAIN Tail(new) /\ Tail(new)[i - 1] = new[i]
          BY <1>4, <2>4, <4>2
        <5> QED
          BY <5>1 DEF Paths
      <4> QED
        BY <4>1, <4>2
    <3> QED
      BY <1>4, <3>1 DEF Paths
  <2>6. Paths(Tail(new)) \cup {p} \subseteq Paths(new)
    BY <1>4, <1>5, <2>1 DEF Paths
  <2> QED
    BY <2>2, <2>3, <2>5, <2>6
<1> HIDE DEF p
<1>7. /\ DOMAIN files' = DOMAIN files \cup {p}
      /\ files'[p] = f.contents /\ \A path \in DOMAIN files : files'[path] = files[path]
  BY <1>2, <1>5
<1>8. \A path : Lines(path)' = IF path = p THEN Range(f.contents) ELSE Lines(path)
  BY <1>5, <1>7 DEF Lines
<1>9. \A line \in Range(f.contents) : line[1] \notin {"mod", "box", "resource"}
  BY <1>5 DEF Plain, Range
<1>10. \A path : path = p => Lines(path) = {}
  BY <1>5 DEF Lines
<1>11. \A kind, name : Registered(kind, name) => Registered(kind, name)'
  BY <1>8, <1>10 DEF Registered
<1>12. ModulesHold'
  <2>1. ASSUME NEW kind \in Kinds, NEW line \in Lines(<<kind>>)', line[1] = "mod"
        PROVE  /\ <<kind, line[2]>> \in DOMAIN files'
               /\ Cardinality(Positions(files'[<<kind>>], line)) = 1
    <3>1. <<kind>> # p /\ line \in Lines(<<kind>>)
      BY <1>8, <1>9, <2>1
    <3>2. <<kind>> \in DOMAIN files
      BY <3>1 DEF Lines
    <3>3. ModulesHold
      BY RegistriesInParts DEF RegistriesInv
    <3> QED
      BY <1>7, <2>1, <3>1, <3>2, <3>3 DEF ModulesHold
  <2> QED
    BY <2>1 DEF ModulesHold
<1>13. BoxesHold' /\ RoutesHold'
  BY <1>8, <1>9, <1>11, RegistriesInParts DEF RegistriesInv, BoxesHold, RoutesHold
<1>14. RegistriesHold'
  BY <1>12, <1>13, RegistriesInParts, PTL
<1>15. IndexesInv'
  BY <1>5, <1>7 DEF RegistriesInv, IndexesInv
<1>16. WritingInv'
  <2>1. \A i \in DOMAIN todo : todo[i].line[1] \in {"mod", "box", "resource"}
    BY <1>1 DEF LinesOK, Form, Insertion, Module, Boxed, Resource
  <2>2. /\ cmd'.plan = Plan(cmd'.plan.files, cmd'.plan.insertions)
        /\ cmd'.plan.files = Tail(new) /\ cmd'.plan.insertions = todo
    BY <1>3 DEF Writing, Plan
  <2>3. Paths(Tail(new)) \cap DOMAIN files' = {}
    BY <1>1, <1>6, <1>7
  <2>4. ASSUME NEW i \in DOMAIN todo
        PROVE  /\ <<Owner(todo[i]), Name(todo[i])>> \in DOMAIN files' \cup Paths(Tail(new))
               /\ todo[i].line \notin Lines(todo[i].path)'
               /\ InItsPlace(todo, i) \/ Registered(Owner(todo[i]), Name(todo[i]))'
    <3>1. <<Owner(todo[i]), Name(todo[i])>> \in DOMAIN files' \cup Paths(Tail(new))
      BY <1>1, <1>6, <1>7
    <3>2. todo[i].line \notin Lines(todo[i].path)'
      <4>1. CASE todo[i].path = p
        BY <1>8, <1>9, <2>1, <4>1
      <4>2. CASE todo[i].path # p
        BY <1>1, <1>8, <4>2
      <4> QED
        BY <4>1, <4>2
    <3>3. InItsPlace(todo, i) \/ Registered(Owner(todo[i]), Name(todo[i]))'
      BY <1>1, <1>11
    <3> QED
      BY <3>1, <3>2, <3>3
  <2> QED
    BY <1>1, <1>6, <2>2, <2>3, <2>4 DEF WritingInv
<1> QED
  BY <1>14, <1>15, <1>16 DEF RegistriesInv

\* Two lines of the same file that read the same are the same insertion.
LEMMA SameInsertion ==
    ASSUME NEW x, NEW y, Form(x), Form(y), x.path = y.path, x.line = y.line
    PROVE  x = y
BY DEF Form, ModuleInsertion, ModuleMark, Insertion, Module, Boxed, Resource, Name

LEMMA FormOfLine ==
    ASSUME NEW x, Form(x)
    PROVE  /\ x.path \in Indexes
           /\ x.line[1] \in {"mod", "box", "resource"}
           /\ x.line[1] = "mod" => /\ x = ModuleInsertion(x.path[1], Name(x))
                                   /\ x.path = <<x.path[1]>> /\ x.path[1] \in Kinds
                                   /\ Owner(x) = x.path[1]
           /\ x.line[1] = "box" => /\ x.path = <<"migration">> /\ Owner(x) = "migration"
                                   /\ x.mark = "migrations" /\ x.line \in Boxes
           /\ x.line[1] = "resource" => x.path = <<"routes">> /\ Owner(x) = "controllers"
<1>1. CASE x.line[1] = "mod" /\ x.path[1] \in Kinds /\ x = ModuleInsertion(x.path[1], Name(x))
  <2>1. x.path = <<x.path[1]>> /\ Owner(x) = x.path[1]
    BY <1>1 DEF ModuleInsertion, Insertion, Owner
  <2> QED
    BY <1>1, <2>1 DEF Indexes
<1>2. CASE x = Insertion(<<"migration">>, "migrations", Boxed(Name(x))) /\ x.line \in Boxes
  <2>1. x.path = <<"migration">> /\ x.line = Boxed(Name(x)) /\ x.mark = "migrations"
    BY <1>2 DEF Insertion
  <2>2. x.line[1] = "box"
    BY <2>1 DEF Boxed
  <2> QED
    BY <1>2, <2>1, <2>2 DEF Indexes, Kinds, Owner
<1>3. CASE x = Insertion(<<"routes">>, "routes", Resource(Name(x)))
  <2>1. x.path = <<"routes">> /\ x.line = Resource(Name(x))
    BY <1>3 DEF Insertion
  <2>2. x.line[1] = "resource"
    BY <2>1 DEF Resource
  <2> QED
    BY <2>1, <2>2 DEF Indexes, Owner
<1> QED
  BY <1>1, <1>2, <1>3 DEF Form

\* What an insertion that finds its place does.
LEMMA InsertedLine ==
    ASSUME CmdOK, RegistriesInv, Insert, cmd'.name = "write",
           NEW todo, todo = cmd.plan.insertions, NEW x, x = Head(todo)
    PROVE  /\ x.path \in DOMAIN files /\ IsSequence(files[x.path])
           /\ Positions(files[x.path], Marker(x.mark)) # {}
           /\ LET i == First(Positions(files[x.path], Marker(x.mark))) IN
              /\ i \in 1 .. Len(files[x.path]) /\ files[x.path][i] = Marker(x.mark)
              /\ files' = [files EXCEPT ![x.path] = InsertAt(files[x.path], i, x.line)]
           /\ cmd.plan.files = <<>> /\ todo # <<>> /\ Form(x)
           /\ x.line \notin Lines(x.path)
           /\ cmd = Writing(Plan(<<>>, todo)) /\ cmd' = Writing(Plan(<<>>, Tail(todo)))
<1> DEFINE updated == IF x.path \in DOMAIN files
                      THEN Apply(files[x.path], x.mark, x.line) ELSE Missing
<1>1. cmd.name = "write" /\ cmd.plan.files = <<>> /\ todo # <<>>
  BY DEF Insert
<1>2. /\ cmd = Writing(Plan(<<>>, todo)) /\ LinesOK(todo) /\ IsSequence(todo)
      /\ \A i \in DOMAIN todo : todo[i].line \notin Lines(todo[i].path)
  BY <1>1, PlanOfWriting DEF RegistriesInv, WritingInv
<1>3. 1 \in DOMAIN todo /\ x = todo[1]
  <2>1. IsSequence(todo) /\ todo # <<>>
    BY <1>1, <1>2
  <2>2. DOMAIN todo = 1 .. Len(todo) /\ Len(todo) \in Nat \ {0} /\ Head(todo) = todo[1]
    BY <2>1, TailSequence
  <2> QED
    BY <2>2
<1>4. Form(x) /\ x.line \notin Lines(x.path) /\ x.path \in Indexes
  BY <1>2, <1>3, FormOfLine DEF LinesOK
<1>5. /\ updated # Missing /\ files' = [files EXCEPT ![x.path] = updated]
      /\ cmd' = [cmd EXCEPT !.plan.insertions = Tail(todo)]
  <2>1. \A outcome : cmd' # Ended(outcome)
    BY DEF Ended
  <2> QED
    BY <2>1 DEF Insert
<1>6. cmd' = Writing(Plan(<<>>, Tail(todo)))
  BY <1>2, <1>5, PlanShrinks
<1>7. x.path \in DOMAIN files
  BY <1>5
<1>8. IsSequence(files[x.path])
  BY <1>4, <1>7 DEF RegistriesInv, IndexesInv
<1>9. Positions(files[x.path], Marker(x.mark)) # {}
  BY <1>5, <1>7 DEF Apply
<1> DEFINE i == First(Positions(files[x.path], Marker(x.mark)))
<1>10. updated = InsertAt(files[x.path], i, x.line)
  BY <1>7, <1>9 DEF Apply
<1>11. i \in 1 .. Len(files[x.path]) /\ files[x.path][i] = Marker(x.mark)
  BY <1>8, <1>9, FirstPosition
<1> QED
  BY <1>1, <1>2, <1>4, <1>5, <1>6, <1>7, <1>8, <1>9, <1>10, <1>11

\* A line is inserted: a module once its file is there, a box or a route once
\* its module is.
LEMMA InsertKeepsRegistries ==
    ASSUME CmdOK, RegistriesInv, Insert, cmd'.name = "write"
    PROVE  RegistriesInv'
<1>0. PICK todo, x : todo = cmd.plan.insertions /\ x = Head(todo)
  OBVIOUS
<1>1. PICK s, i : s = files[x.path] /\ i = First(Positions(files[x.path], Marker(x.mark)))
  OBVIOUS
<1> DEFINE t == InsertAt(s, i, x.line)
<1>2. /\ x.path \in DOMAIN files /\ IsSequence(s) /\ i \in 1 .. Len(s)
      /\ files' = [files EXCEPT ![x.path] = t]
      /\ cmd.plan.files = <<>> /\ todo # <<>> /\ Form(x) /\ x.line \notin Range(s)
      /\ cmd = Writing(Plan(<<>>, todo)) /\ cmd' = Writing(Plan(<<>>, Tail(todo)))
  BY <1>0, <1>1, InsertedLine DEF Lines
<1>3. /\ LinesOK(todo) /\ IsSequence(todo)
      /\ \A k \in DOMAIN todo :
            /\ <<Owner(todo[k]), Name(todo[k])>> \in DOMAIN files
            /\ todo[k].line \notin Lines(todo[k].path)
            /\ InItsPlace(todo, k) \/ Registered(Owner(todo[k]), Name(todo[k]))
  <2>1. Paths(<<>>) = {} /\ cmd.name = "write"
    BY <1>2 DEF Paths, Writing
  <2> QED
    BY <1>0, <1>2, <2>1, PlanOfWriting DEF RegistriesInv, WritingInv
<1>4. /\ DOMAIN todo = 1 .. Len(todo) /\ Len(todo) \in Nat \ {0} /\ x = todo[1]
      /\ IsSequence(Tail(todo)) /\ DOMAIN Tail(todo) = 1 .. Len(todo) - 1
      /\ \A k \in 1 .. Len(todo) - 1 : Tail(todo)[k] = todo[k + 1]
  <2>1. IsSequence(todo) /\ todo # <<>> /\ x = Head(todo)
    BY <1>0, <1>2, <1>3
  <2> QED
    BY <2>1, TailSequence
<1>5. /\ IsSequence(t) /\ Range(t) = Range(s) \cup {x.line}
      /\ \A line : line = x.line \/ Cardinality(Positions(s, line)) = 1
                      => Cardinality(Positions(t, line)) = 1
  BY <1>2, InsertAtSequence, PositionsAfterInsert
<1> HIDE DEF t
<1>6. /\ DOMAIN files' = DOMAIN files /\ files'[x.path] = t
      /\ \A path \in DOMAIN files : path # x.path => files'[path] = files[path]
  BY <1>2
<1>7. \A path : Lines(path)' = IF path = x.path THEN Lines(path) \cup {x.line} ELSE Lines(path)
  BY <1>1, <1>2, <1>5, <1>6 DEF Lines
<1>8. \A kind, name : Registered(kind, name) => Registered(kind, name)'
  BY <1>7 DEF Registered
<1>9. /\ <<Owner(x), Name(x)>> \in DOMAIN files
      /\ x.line[1] # "mod" => Registered(Owner(x), Name(x))
  <2>1. 1 \in DOMAIN todo /\ 1 .. 1 - 1 = {}
    BY <1>4
  <2> QED
    BY <1>3, <1>4, <2>1 DEF InItsPlace
<1>10. ModulesHold'
  <2>1. ModulesHold
    BY RegistriesInParts DEF RegistriesInv
  <2>2. ASSUME NEW kind \in Kinds, NEW line \in Lines(<<kind>>)', line[1] = "mod"
        PROVE  /\ <<kind, line[2]>> \in DOMAIN files'
               /\ Cardinality(Positions(files'[<<kind>>], line)) = 1
    <3>1. CASE line \in Lines(<<kind>>)
      <4>1. <<kind>> \in DOMAIN files
        BY <3>1 DEF Lines
      <4>2. /\ <<kind, line[2]>> \in DOMAIN files
            /\ Cardinality(Positions(files[<<kind>>], line)) = 1
        BY <2>1, <2>2, <3>1 DEF ModulesHold
      <4>3. CASE <<kind>> = x.path
        <5>1. files[<<kind>>] = s /\ files'[<<kind>>] = t
          BY <1>1, <1>6, <4>3
        <5> QED
          BY <1>5, <1>6, <4>2, <5>1
      <4>4. CASE <<kind>> # x.path
        BY <1>6, <4>1, <4>2, <4>4
      <4> QED
        BY <4>3, <4>4
    <3>2. CASE line \notin Lines(<<kind>>)
      <4>1. <<kind>> = x.path /\ line = x.line
        BY <1>7, <2>2, <3>2
      <4>2. Owner(x) = x.path[1] /\ x.path[1] = kind /\ Name(x) = line[2]
        BY <1>2, <2>2, <4>1, FormOfLine DEF Name
      <4> QED
        BY <1>5, <1>6, <1>9, <4>1, <4>2
    <3> QED
      BY <3>1, <3>2
  <2> QED
    BY <2>2 DEF ModulesHold
<1>11. BoxesHold'
  <2>1. BoxesHold
    BY RegistriesInParts DEF RegistriesInv
  <2>2. ASSUME NEW line \in Lines(<<"migration">>)', line[1] = "box"
        PROVE  Registered("migration", line[2])'
    <3>1. CASE line \in Lines(<<"migration">>)
      BY <1>8, <2>1, <2>2, <3>1 DEF BoxesHold
    <3>2. CASE line \notin Lines(<<"migration">>)
      <4>1. line = x.line
        BY <1>7, <2>2, <3>2
      <4>2. Owner(x) = "migration" /\ Name(x) = line[2] /\ x.line[1] # "mod"
        BY <1>2, <2>2, <4>1, FormOfLine DEF Name
      <4> QED
        BY <1>8, <1>9, <4>2
    <3> QED
      BY <3>1, <3>2
  <2> QED
    BY <2>2 DEF BoxesHold
<1>12. RoutesHold'
  <2>1. RoutesHold
    BY RegistriesInParts DEF RegistriesInv
  <2>2. ASSUME NEW line \in Lines(<<"routes">>)', line[1] = "resource"
        PROVE  Registered("controllers", line[2])'
    <3>1. CASE line \in Lines(<<"routes">>)
      BY <1>8, <2>1, <2>2, <3>1 DEF RoutesHold
    <3>2. CASE line \notin Lines(<<"routes">>)
      <4>1. line = x.line
        BY <1>7, <2>2, <3>2
      <4>2. Owner(x) = "controllers" /\ Name(x) = line[2] /\ x.line[1] # "mod"
        BY <1>2, <2>2, <4>1, FormOfLine DEF Name
      <4> QED
        BY <1>8, <1>9, <4>2
    <3> QED
      BY <3>1, <3>2
  <2> QED
    BY <2>2 DEF RoutesHold
<1>13. RegistriesHold'
  BY <1>10, <1>11, <1>12, RegistriesInParts, PTL
<1>14. IndexesInv'
  <2>1. ASSUME NEW path \in Indexes, path \in DOMAIN files' PROVE IsSequence(files'[path])
    BY <1>5, <1>6, <2>1 DEF RegistriesInv, IndexesInv
  <2> QED
    BY <2>1 DEF IndexesInv
<1>15. WritingInv'
  <2>1. /\ cmd'.plan = Plan(cmd'.plan.files, cmd'.plan.insertions)
        /\ cmd'.plan.files = <<>> /\ cmd'.plan.insertions = Tail(todo)
    BY <1>2 DEF Writing, Plan
  <2>2. FilesOK(<<>>) /\ Paths(<<>>) = {}
    BY SequenceOf DEF FilesOK, Paths, IsSequence
  <2>3. \A k \in 1 .. Len(todo) - 1 : k + 1 \in DOMAIN todo /\ k + 1 # 1
    BY <1>4
  <2>4. LinesOK(Tail(todo))
    <3>1. ASSUME NEW k \in DOMAIN Tail(todo), NEW l \in DOMAIN Tail(todo),
                 Tail(todo)[k] = Tail(todo)[l]
          PROVE  k = l
      <4>1. k + 1 = l + 1
        BY <1>3, <1>4, <2>3, <3>1 DEF LinesOK
      <4> QED
        BY <1>4, <4>1
    <3>2. \A k \in DOMAIN Tail(todo) : Form(Tail(todo)[k])
      BY <1>3, <1>4, <2>3 DEF LinesOK
    <3> QED
      BY <1>4, <3>1, <3>2 DEF LinesOK
  <2>5. ASSUME NEW k \in DOMAIN Tail(todo), NEW y, y = Tail(todo)[k]
        PROVE  /\ <<Owner(y), Name(y)>> \in DOMAIN files'
               /\ y.line \notin Lines(y.path)'
               /\ InItsPlace(Tail(todo), k) \/ Registered(Owner(y), Name(y))'
    <3>1. k + 1 \in DOMAIN todo /\ y = todo[k + 1] /\ k + 1 # 1 /\ Form(y) /\ y # x
      BY <1>3, <1>4, <2>3, <2>5 DEF LinesOK
    <3>2. <<Owner(y), Name(y)>> \in DOMAIN files'
      BY <1>3, <1>6, <3>1
    <3>3. y.line \notin Lines(y.path)'
      <4>1. y.line \notin Lines(y.path) /\ (y.path = x.path => y.line # x.line)
        BY <1>2, <1>3, <3>1, SameInsertion
      <4> QED
        BY <1>7, <4>1
    <3>4. y.line[1] = "mod" => InItsPlace(Tail(todo), k)
      BY <2>5 DEF InItsPlace
    <3>5. Registered(Owner(y), Name(y)) => Registered(Owner(y), Name(y))'
      BY <1>8
    <3>6. ASSUME NEW j \in 1 .. (k + 1) - 1, todo[j] = ModuleInsertion(Owner(y), Name(y))
          PROVE  InItsPlace(Tail(todo), k) \/ Registered(Owner(y), Name(y))'
      <4>1. CASE j = 1
        <5>1. x = ModuleInsertion(Owner(y), Name(y))
          BY <1>4, <3>6, <4>1
        <5>2. x.path = <<Owner(y)>> /\ x.line = Module(Name(y))
          BY <5>1 DEF ModuleInsertion, Insertion
        <5> QED
          BY <1>7, <5>2 DEF Registered
      <4>2. CASE j # 1
        <5>1. j - 1 \in 1 .. k - 1 /\ Tail(todo)[j - 1] = todo[j]
          BY <1>4, <3>1, <4>2
        <5> QED
          BY <2>5, <3>6, <5>1 DEF InItsPlace
      <4> QED
        BY <4>1, <4>2
    <3>7. \/ y.line[1] = "mod" \/ Registered(Owner(y), Name(y))
          \/ \E j \in 1 .. (k + 1) - 1 : todo[j] = ModuleInsertion(Owner(y), Name(y))
      BY <1>3, <3>1 DEF InItsPlace
    <3> QED
      BY <3>2, <3>3, <3>4, <3>5, <3>6, <3>7
  <2> QED
    BY <1>4, <2>1, <2>2, <2>4, <2>5 DEF WritingInv
<1> QED
  BY <1>13, <1>14, <1>15 DEF RegistriesInv

\* luxid new starts where there is nothing.
LEMMA NewKeepsRegistries ==
    ASSUME RegistriesInv, StartsNew
    PROVE  RegistriesInv'
<1>1. PICK stack : cmd' = Writing(NewApp(stack))
  BY DEF StartsNew
<1> DEFINE plan == NewApp(stack)
<1>2. /\ plan = Plan(plan.files, <<>>) /\ plan.insertions = <<>>
      /\ FilesOK(plan.files)
  BY NewAppIsGood
<1> HIDE DEF plan
<1>3. cmd'.plan = plan
  BY <1>1 DEF Writing, plan
<1>4. DOMAIN files' = {} /\ files' = files
  BY DEF StartsNew
<1>5. WritingInv'
  <2>1. LinesOK(<<>>) /\ DOMAIN <<>> = {}
    BY SequenceOf DEF LinesOK, IsSequence
  <2> QED
    BY <1>2, <1>3, <1>4, <2>1 DEF WritingInv
<1>6. IndexesInv' /\ RegistriesHold'
  BY <1>4 DEF IndexesInv, RegistriesHold, Lines, RegistriesInv
<1> QED
  BY <1>5, <1>6 DEF RegistriesInv

\* make:model starts where none of the files it writes is, and so where
\* nothing it registers is registered: what is registered is there.
LEMMA ModelKeepsRegistries ==
    ASSUME RegistriesInv, StartsModel
    PROVE  RegistriesInv'
<1>0. PICK word \in Words : \E flags : /\ cmd' = Writing(MakeModel(word, flags))
                                        /\ Clashes(MakeModel(word, flags)) = {}
  BY DEF StartsModel
<1>1. PICK flags : /\ cmd' = Writing(MakeModel(word, flags))
                   /\ Clashes(MakeModel(word, flags)) = {}
  BY <1>0
<1>2. PICK plan : plan = MakeModel(word, flags)
  OBVIOUS
<1>3. PICK kinds : GoodPlan(plan, kinds)
  BY <1>2, MakeModelIsGood
<1> DEFINE todo == plan.insertions
<1>4. files' = files /\ cmd'.plan = plan
  BY <1>1, <1>2 DEF StartsModel, Writing
<1>5. Paths(plan.files) \cap DOMAIN files = {}
  <2>1. Paths(plan.files) = {f.path : f \in Range(plan.files)}
    BY DEF Paths, Range
  <2> QED
    BY <1>1, <1>2, <2>1 DEF Clashes
<1>6. ASSUME NEW i \in DOMAIN todo, NEW x, x = todo[i]
      PROVE  x.line \notin Lines(x.path)
  <2>1. Form(x) /\ <<Owner(x), Name(x)>> \notin DOMAIN files
    BY <1>3, <1>5, <1>6 DEF GoodPlan, LinesOK
  <2>2. ~ Registered(Owner(x), Name(x)) \/ Owner(x) \notin Kinds
    <3>1. ModulesHold
      BY RegistriesInParts DEF RegistriesInv
    <3> QED
      BY <2>1, <3>1 DEF ModulesHold, Registered, Module
  <2>3. {"migration", "controllers"} \subseteq Kinds
    BY DEF Kinds
  <2>4. CASE x.line[1] = "mod"
    <3>1. /\ Owner(x) \in Kinds /\ x.path = <<Owner(x)>>
          /\ x = ModuleInsertion(x.path[1], Name(x))
      BY <2>1, <2>4, FormOfLine
    <3>2. x.line = Module(Name(x))
      BY <3>1 DEF ModuleInsertion, Insertion
    <3> QED
      BY <2>2, <3>1, <3>2 DEF Registered
  <2>5. CASE x.line[1] = "box"
    <3>1. Owner(x) = "migration" /\ x.path = <<"migration">> /\ Name(x) = x.line[2]
      BY <2>1, <2>5, FormOfLine DEF Name
    <3>2. BoxesHold
      BY RegistriesInParts DEF RegistriesInv
    <3> QED
      BY <2>2, <2>3, <2>5, <3>1, <3>2 DEF BoxesHold
  <2>6. CASE x.line[1] = "resource"
    <3>1. Owner(x) = "controllers" /\ x.path = <<"routes">> /\ Name(x) = x.line[2]
      BY <2>1, <2>6, FormOfLine DEF Name
    <3>2. RoutesHold
      BY RegistriesInParts DEF RegistriesInv
    <3> QED
      BY <2>2, <2>3, <2>6, <3>1, <3>2 DEF RoutesHold
  <2> QED
    BY <2>1, <2>4, <2>5, <2>6, FormOfLine
<1>7. WritingInv'
  BY <1>3, <1>4, <1>5, <1>6 DEF WritingInv, GoodPlan, Lines
<1>8. IndexesInv' /\ RegistriesHold'
  BY <1>4 DEF IndexesInv, RegistriesHold, Lines, Registered, RegistriesInv
<1> QED
  BY <1>7, <1>8 DEF RegistriesInv

\* Every step keeps the registries.
LEMMA RegistriesStep ==
    ASSUME CmdOK, AskInv, RegistriesInv, [Next]_vars
    PROVE  AskInv' /\ RegistriesInv'
<1>1. CASE UNCHANGED <<files, cmd>>
  <2>1. AskInv'
    BY <1>1 DEF AskInv
  <2>2. RegistriesInv'
    BY <1>1 DEF RegistriesInv, IndexesInv, WritingInv, RegistriesHold, Lines, Registered
  <2> QED
    BY <2>1, <2>2
<1>2. CASE Quiet
  BY <1>2, SameIndexes DEF Quiet, AskInv
<1>3. CASE StartsNew
  BY <1>3, NewKeepsRegistries DEF StartsNew, Writing, AskInv
<1>4. CASE StartsModel
  BY <1>4, ModelKeepsRegistries DEF StartsModel, Writing, AskInv
<1>5. CASE WriteFile
  <2>1. cmd'.name = "write"
    BY <1>5, PlanOfWriting, PlanShrinks DEF WriteFile, RegistriesInv, Writing
  <2> QED
    BY <1>5, <2>1, WriteKeepsRegistries DEF AskInv
<1>6. CASE Insert /\ cmd'.name = "write"
  BY <1>6, InsertKeepsRegistries DEF AskInv
<1>7. CASE ChangesGenerated /\ cmd.name \in {"sync", "none"} /\ cmd'.name \in {"sync", "none"}
  BY <1>7, SameIndexes DEF ChangesGenerated, AskInv
<1>8. CASE EditsAMarker
  <2>1. cmd'.name = "none"
    BY <1>8 DEF EditsAMarker, RemoveMarker, Edit, Ended
  <2> QED
    BY <1>8, <2>1, RemoveKeepsRegistries DEF AskInv
<1> QED
  BY <1>1, <1>2, <1>3, <1>4, <1>5, <1>6, <1>7, <1>8, StepKinds

\* The application's registries hold in every state.
LEMMA RegistriesInvariant == Spec => [](CmdOK /\ AskInv /\ RegistriesInv)
<1>1. Init => CmdOK /\ AskInv /\ RegistriesInv
  <2>1. ASSUME Init PROVE RegistriesInv
    <3>1. files = <<>> /\ cmd.name = "none" /\ DOMAIN files = {}
      BY <2>1 DEF Init, Ended
    <3> QED
      BY <3>1 DEF RegistriesInv, IndexesInv, WritingInv, RegistriesHold, Lines
  <2>2. ASSUME Init PROVE CmdOK /\ AskInv
    <3>1. files = <<>> /\ cmd.name = "none"
      BY <2>2 DEF Init, Ended
    <3> QED
      BY <3>1 DEF CmdOK, AskInv
  <2> QED
    BY <2>1, <2>2
<1>2. CmdOK /\ AskInv /\ RegistriesInv /\ [Next]_vars => (CmdOK /\ AskInv /\ RegistriesInv)'
  BY CommandStep, RegistriesStep
<1> QED
  BY <1>1, <1>2, PTL DEF Spec

\* A registry names nothing that is not there, at no write of a generator and
\* wherever it is stopped, whatever was generated before, in which order, and
\* whatever the developer edited.  (generate.rs write, scaffold.rs.)
THEOREM RegistriesNameWhatIsThere == Spec => []RegistriesAlwaysHold
<1>1. CmdOK /\ AskInv /\ RegistriesInv => RegistriesAlwaysHold
  BY DEF RegistriesInv, RegistriesAlwaysHold
<1> QED
  BY <1>1, RegistriesInvariant, PTL

-----------------------------------------------------------------------------
(***************************************************************************)
(* A generator only adds                                                   *)
(***************************************************************************)

LEMMA WritingOnlyAdds ==
    ASSUME CmdOK, AskInv, RegistriesInv, [Next]_vars, cmd.name = "write",
           NEW path \in DOMAIN files
    PROVE  /\ path \in DOMAIN files'
           /\ \/ files'[path] = files[path]
              \/ \E i \in DOMAIN files'[path] : RemoveAt(files'[path], i) = files[path]
<1>1. CASE files' = files
  BY <1>1
<1>2. CASE WriteFile
  <2>1. /\ cmd.plan.files # <<>> /\ IsSequence(cmd.plan.files)
        /\ Paths(cmd.plan.files) \cap DOMAIN files = {}
    BY <1>2, PlanOfWriting DEF WriteFile, RegistriesInv, WritingInv
  <2>2. Head(cmd.plan.files).path \in Paths(cmd.plan.files)
    BY <2>1, TailSequence DEF Paths
  <2> QED
    BY <1>2, <2>1, <2>2 DEF WriteFile
<1>3. CASE Insert /\ cmd'.name = "write"
  <2>1. PICK todo, x : todo = cmd.plan.insertions /\ x = Head(todo)
    OBVIOUS
  <2>2. PICK s, i : s = files[x.path] /\ i = First(Positions(files[x.path], Marker(x.mark)))
    OBVIOUS
  <2>3. /\ x.path \in DOMAIN files /\ IsSequence(s) /\ i \in 1 .. Len(s)
        /\ files' = [files EXCEPT ![x.path] = InsertAt(s, i, x.line)]
    BY <1>3, <2>1, <2>2, InsertedLine
  <2>4. CASE path # x.path
    BY <2>3, <2>4
  <2>5. CASE path = x.path
    <3>1. files'[path] = InsertAt(s, i, x.line) /\ path \in DOMAIN files'
      BY <2>3, <2>5
    <3>2. i \in DOMAIN InsertAt(s, i, x.line)
      BY <2>3, InsertAtSequence, SequenceOf DEF IsSequence
    <3>3. RemoveAt(InsertAt(s, i, x.line), i) = s
      BY <2>3, InsertThenRemove
    <3> QED
      BY <2>2, <2>5, <3>1, <3>2, <3>3
  <2> QED
    BY <2>4, <2>5
<1>4. \/ files' = files
      \/ WriteFile
      \/ Insert /\ cmd'.name = "write"
  <2>1. Quiet \/ StartsNew \/ UNCHANGED <<files, cmd>> => files' = files
    BY DEF Quiet, StartsNew
  <2>2. /\ ~ StartsModel /\ ~ EditsAMarker
        /\ ~ (ChangesGenerated /\ cmd.name \in {"sync", "none"} /\ cmd'.name \in {"sync", "none"})
    BY DEF StartsModel, EditsAMarker, Idle
  <2> QED
    BY <2>1, <2>2, StepKinds
<1> QED
  BY <1>1, <1>2, <1>3, <1>4

\* A write of a generator adds a file or one line: whatever is on disk when it
\* starts, the developer's edits included, is there with every line when it
\* ends or is stopped.  (generate.rs write, insertion.rs apply.)
THEOREM GeneratorsKeepWhatIsThere == Spec => GeneratorsOnlyAdd
<1>1. CmdOK /\ AskInv /\ RegistriesInv /\ [Next]_vars
         => (cmd.name = "write" =>
               \A path \in DOMAIN files :
                   /\ path \in DOMAIN files'
                   /\ \/ files'[path] = files[path]
                      \/ \E i \in DOMAIN files'[path] :
                            RemoveAt(files'[path], i) = files[path])
  BY WritingOnlyAdds
<1> QED
  BY <1>1, RegistriesInvariant, PTL DEF Spec, GeneratorsOnlyAdd

-----------------------------------------------------------------------------
(***************************************************************************)
(* The migrations a file declares                                          *)
(***************************************************************************)

MigrationsOf(s) == LET boxed == Among(s, Boxes) IN [i \in DOMAIN boxed |-> boxed[i][2]]

LEMMA DeclaredMigrations ==
    Declared = IF <<"migration">> \in DOMAIN files THEN MigrationsOf(files[<<"migration">>])
               ELSE <<>>
BY DEF Declared, MigrationsOf

\* Naming the elements of a sequence of boxes.
LEMMA NamesOfBoxes ==
    ASSUME NEW b, IsSequence(b), NEW n, n = [i \in DOMAIN b |-> b[i][2]]
    PROVE  /\ IsSequence(n) /\ Len(n) = Len(b) /\ Len(b) \in Nat
           /\ DOMAIN n = 1 .. Len(b) /\ \A i \in 1 .. Len(b) : n[i] = b[i][2]
<1>1. DOMAIN b = 1 .. Len(b) /\ Len(b) \in Nat
  BY SequenceOf DEF IsSequence
<1>2. n = [i \in 1 .. Len(b) |-> b[i][2]]
  BY <1>1
<1>3. \A i \in 1 .. Len(b) : n[i] \in Range(n)
  BY <1>2 DEF Range
<1>4. n \in Seq(Range(n)) /\ Len(n) = Len(b)
  BY <1>1, <1>2, <1>3
<1> QED
  BY <1>1, <1>2, <1>4 DEF IsSequence

LEMMA MigrationsType ==
    ASSUME NEW s, IsSequence(s)
    PROVE  /\ IsSequence(MigrationsOf(s))
           /\ \A name \in Range(MigrationsOf(s)) :
                 \E line \in Range(s) \cap Boxes : name = line[2]
<1> DEFINE b == Among(s, Boxes)
<1>1. b \in Seq(Range(s)) /\ Range(b) = Range(s) \cap Boxes
  BY AmongType DEF IsSequence
<1>2. IsSequence(b) /\ MigrationsOf(s) = [i \in DOMAIN b |-> b[i][2]]
  BY <1>1, SequenceOf DEF MigrationsOf
<1> HIDE DEF b
<1>3. IsSequence(MigrationsOf(s))
  BY <1>2, NamesOfBoxes
<1>4. \A name \in Range(MigrationsOf(s)) : \E i \in DOMAIN b : name = b[i][2]
  BY <1>2 DEF Range
<1>5. \A i \in DOMAIN b : b[i] \in Range(b)
  BY DEF Range
<1> QED
  BY <1>1, <1>3, <1>4, <1>5

\* A line that declares nothing changes nothing; a box below the others
\* declares one more migration, after the others.
LEMMA MigrationsAfterInsert ==
    ASSUME NEW s, IsSequence(s), NEW i \in 1 .. Len(s), NEW x
    PROVE  /\ x \notin Boxes => MigrationsOf(InsertAt(s, i, x)) = MigrationsOf(s)
           /\ x \in Boxes /\ (\A j \in i .. Len(s) : s[j] \notin Boxes)
                 => MigrationsOf(InsertAt(s, i, x)) = Append(MigrationsOf(s), x[2])
<1>1. ASSUME x \notin Boxes PROVE MigrationsOf(InsertAt(s, i, x)) = MigrationsOf(s)
  BY <1>1, AmongInsertAt DEF MigrationsOf
<1>2. ASSUME x \in Boxes, \A j \in i .. Len(s) : s[j] \notin Boxes
      PROVE  MigrationsOf(InsertAt(s, i, x)) = Append(MigrationsOf(s), x[2])
  <2> DEFINE b == Among(s, Boxes)
             c == Append(b, x)
             m == MigrationsOf(s)
             n == MigrationsOf(InsertAt(s, i, x))
             T == Range(s) \cup {x}
  <2>1. Among(InsertAt(s, i, x), Boxes) = c
    BY <1>2, AmongInsertAt
  <2>2. b \in Seq(T) /\ x \in T
    <3>1. s \in Seq(T)
      BY DEF IsSequence
    <3> QED
      BY <3>1, AmongType
  <2>3. m = [j \in DOMAIN b |-> b[j][2]] /\ n = [j \in DOMAIN c |-> c[j][2]]
    BY <2>1 DEF MigrationsOf
  <2> HIDE DEF b, m, n, T
  <2>4. c \in Seq(T) /\ Len(c) = Len(b) + 1 /\ c[Len(b) + 1] = x
        /\ \A j \in 1 .. Len(b) : c[j] = b[j]
    BY <2>2, AppendProperties
  <2> HIDE DEF c
  <2>5. /\ IsSequence(m) /\ Len(m) = Len(b) /\ Len(b) \in Nat
        /\ \A j \in 1 .. Len(b) : m[j] = b[j][2]
    BY <2>2, <2>3, SequenceOf, NamesOfBoxes
  <2>6. IsSequence(n) /\ Len(n) = Len(c) /\ \A j \in 1 .. Len(c) : n[j] = c[j][2]
    BY <2>3, <2>4, SequenceOf, NamesOfBoxes
  <2> DEFINE U == (Range(m) \cup Range(n)) \cup {x[2]}
             a == Append(m, x[2])
  <2>7. m \in Seq(U) /\ n \in Seq(U) /\ x[2] \in U
    BY <2>5, <2>6 DEF IsSequence
  <2> HIDE DEF U
  <2>8. /\ a \in Seq(U) /\ Len(a) = Len(m) + 1 /\ a[Len(m) + 1] = x[2]
        /\ \A j \in 1 .. Len(m) : a[j] = m[j]
    BY <2>7, AppendProperties
  <2> HIDE DEF a
  <2>9. Len(n) = Len(a) /\ \A j \in 1 .. Len(a) : n[j] = a[j]
    BY <2>4, <2>5, <2>6, <2>8
  <2>10. n = a
    BY <2>7, <2>8, <2>9, SeqEqual
  <2> QED
    BY <2>10 DEF n, a, m
<1> QED
  BY <1>1, <1>2

LEMMA MigrationsAfterRemove ==
    ASSUME NEW s, IsSequence(s), NEW i \in 1 .. Len(s), s[i] \notin Boxes
    PROVE  MigrationsOf(RemoveAt(s, i)) = MigrationsOf(s)
BY AmongRemoveAt DEF MigrationsOf

\* A box below the last: boxes are above every marker left for the next, so
\* from the first of those on there is none.
LEMMA BoxesAbove ==
    ASSUME BoxesInv, <<"migration">> \in DOMAIN files, NEW s, s = files[<<"migration">>],
           IsSequence(s), NEW i \in 1 .. Len(s), s[i] = Marker("migrations")
    PROVE  \A j \in i .. Len(s) : s[j] \notin Boxes
<1>1. DOMAIN s = 1 .. Len(s) /\ Len(s) \in Nat
  BY SequenceOf DEF IsSequence
<1>2. ASSUME NEW j \in i .. Len(s), s[j] \in Boxes PROVE FALSE
  <2>1. j \in DOMAIN s /\ i \in DOMAIN s
    BY <1>1
  <2>2. j < i
    BY <1>2, <2>1 DEF BoxesInv
  <2> QED
    BY <1>1, <1>2, <2>2
<1> QED
  BY <1>2

\* What a step does to the migrations that are declared: nothing, or it
\* declares one more, in a file where it was not.
DeclaresMore ==
    \/ Declared' = Declared
    \/ \E name : name \notin Range(Declared) /\ Declared' = Append(Declared, name)

LEMMA SameMigrations ==
    ASSUME BoxesInv,
           <<"migration">> \in DOMAIN files' <=> <<"migration">> \in DOMAIN files,
           <<"migration">> \in DOMAIN files => files'[<<"migration">>] = files[<<"migration">>]
    PROVE  BoxesInv' /\ DeclaresMore
<1>1. BoxesInv'
  BY DEF BoxesInv
<1>2. Declared' = Declared
  BY DEF Declared
<1> QED
  BY <1>1, <1>2 DEF DeclaresMore

LEMMA WriteMigrations ==
    ASSUME CmdOK, RegistriesInv, BoxesInv, WriteFile
    PROVE  BoxesInv' /\ DeclaresMore
<1>1. PICK new, f : new = cmd.plan.files /\ f = Head(new)
  OBVIOUS
<1>2. /\ new # <<>> /\ IsSequence(new) /\ FilesOK(new) /\ Paths(new) \cap DOMAIN files = {}
  BY <1>1, PlanOfWriting DEF WriteFile, RegistriesInv, WritingInv
<1>3. 1 \in DOMAIN new /\ f = new[1]
  <2>1. IsSequence(new) /\ new # <<>>
    BY <1>2
  <2> QED
    BY <1>1, <2>1, TailSequence
<1>4. f.path \notin DOMAIN files /\ IsSequence(f.contents) /\ Plain(f.contents)
  BY <1>2, <1>3 DEF FilesOK, Paths
<1>5. files' = [path \in DOMAIN files \cup {f.path} |->
                   IF path = f.path THEN f.contents ELSE files[path]]
  BY <1>1 DEF WriteFile
<1>6. CASE f.path # <<"migration">>
  <2>1. /\ <<"migration">> \in DOMAIN files' <=> <<"migration">> \in DOMAIN files
        /\ <<"migration">> \in DOMAIN files => files'[<<"migration">>] = files[<<"migration">>]
    BY <1>5, <1>6
  <2> QED
    BY <2>1, SameMigrations
<1>7. CASE f.path = <<"migration">>
  <2>1. /\ <<"migration">> \notin DOMAIN files /\ <<"migration">> \in DOMAIN files'
        /\ files'[<<"migration">>] = f.contents
    BY <1>4, <1>5, <1>7
  <2>2. \A x \in Boxes : x[1] = "box"
    BY DEF Boxes, Boxed
  <2>3. Range(f.contents) \cap Boxes = {}
    BY <1>4, <2>2 DEF Plain, Range
  <2>4. BoxesInv'
    BY <1>4, <2>1, <2>2 DEF BoxesInv, Plain
  <2>5. Among(f.contents, Boxes) = <<>>
    BY <1>4, <2>3, AmongNone DEF IsSequence
  <2>6. Declared = <<>>
    BY <2>1 DEF Declared
  <2>7. Declared' = <<>>
    <3>1. Declared' = LET boxed == Among(f.contents, Boxes) IN [i \in DOMAIN boxed |-> boxed[i][2]]
      BY <2>1 DEF Declared
    <3>2. [i \in DOMAIN <<>> |-> <<>>[i][2]] = <<>>
      OBVIOUS
    <3> QED
      BY <2>5, <3>1, <3>2
  <2> QED
    BY <2>4, <2>6, <2>7 DEF DeclaresMore
<1> QED
  BY <1>6, <1>7

LEMMA InsertMigrations ==
    ASSUME CmdOK, RegistriesInv, BoxesInv, Insert, cmd'.name = "write"
    PROVE  BoxesInv' /\ DeclaresMore
<1>0. PICK todo, x : todo = cmd.plan.insertions /\ x = Head(todo)
  OBVIOUS
<1>1. PICK s, i : s = files[x.path] /\ i = First(Positions(files[x.path], Marker(x.mark)))
  OBVIOUS
<1> DEFINE t == InsertAt(s, i, x.line)
<1>2. /\ x.path \in DOMAIN files /\ IsSequence(s) /\ i \in 1 .. Len(s)
      /\ s[i] = Marker(x.mark) /\ files' = [files EXCEPT ![x.path] = t]
      /\ Form(x) /\ x.line \notin Range(s)
  BY <1>0, <1>1, InsertedLine DEF Lines
<1>3. CASE x.path # <<"migration">>
  <2> HIDE DEF t
  <2>1. /\ <<"migration">> \in DOMAIN files' <=> <<"migration">> \in DOMAIN files
        /\ <<"migration">> \in DOMAIN files => files'[<<"migration">>] = files[<<"migration">>]
    BY <1>2, <1>3
  <2> QED
    BY <2>1, SameMigrations
<1>4. CASE x.path = <<"migration">>
  <2>1. /\ IsSequence(t) /\ Len(t) = Len(s) + 1 /\ Len(s) \in Nat
        /\ DOMAIN t = 1 .. Len(s) + 1 /\ DOMAIN s = 1 .. Len(s)
        /\ \A j \in 1 .. Len(s) + 1 :
              t[j] = IF j < i THEN s[j] ELSE IF j = i THEN x.line ELSE s[j - 1]
    BY <1>2, InsertAtSequence, SequenceOf DEF IsSequence
  <2>2. x.line \in Boxes => \A j \in i .. Len(s) : s[j] \notin Boxes
    <3>1. \A b \in Boxes : b[1] = "box"
      BY DEF Boxes, Boxed
    <3>2. x.line \in Boxes => s[i] = Marker("migrations")
      BY <1>2, <3>1, FormOfLine
    <3> QED
      BY <1>1, <1>2, <1>4, <3>2, BoxesAbove
  <2>3. /\ x.line \notin Boxes => MigrationsOf(t) = MigrationsOf(s)
        /\ x.line \in Boxes => MigrationsOf(t) = Append(MigrationsOf(s), x.line[2])
    BY <1>2, <2>2, MigrationsAfterInsert
  <2> HIDE DEF t
  <2>4. /\ <<"migration">> \in DOMAIN files /\ <<"migration">> \in DOMAIN files'
        /\ files[<<"migration">>] = s /\ files'[<<"migration">>] = t
    BY <1>1, <1>2, <1>4
  <2>5. Declared = MigrationsOf(s) /\ Declared' = MigrationsOf(t)
    BY <2>4 DEF Declared, MigrationsOf
  <2>6. x.line \in Boxes => x.line[2] \notin Range(MigrationsOf(s))
    <3>1. \A a, b \in Boxes : a[2] = b[2] => a = b
      BY DEF Boxes, Boxed
    <3> QED
      BY <1>2, <3>1, MigrationsType
  <2>7. DeclaresMore
    BY <2>3, <2>5, <2>6 DEF DeclaresMore
  <2>8. \A j \in 1 .. Len(s) :
           /\ s[j][1] = "box" => s[j] \in Boxes
           /\ \A k \in 1 .. Len(s) : s[j] \in Boxes /\ s[k] = Marker("migrations") => j < k
    BY <2>1, <2>4 DEF BoxesInv
  <2>9. x.line[1] = "box" => x.line \in Boxes
    BY <1>2, FormOfLine
  <2>10. x.line # Marker("migrations")
    BY <1>2, FormOfLine DEF Marker
  <2>11. ASSUME NEW j \in 1 .. Len(s) + 1
         PROVE  /\ t[j][1] = "box" => t[j] \in Boxes
                /\ \A k \in 1 .. Len(s) + 1 : t[j] \in Boxes /\ t[k] = Marker("migrations") => j < k
    <3>1. \/ j = i /\ t[j] = x.line
          \/ j < i /\ j \in 1 .. Len(s) /\ t[j] = s[j]
          \/ j > i /\ j - 1 \in 1 .. Len(s) /\ t[j] = s[j - 1]
      BY <1>2, <2>1
    <3>2. t[j][1] = "box" => t[j] \in Boxes
      BY <2>8, <2>9, <3>1
    <3>3. ASSUME NEW k \in 1 .. Len(s) + 1, t[j] \in Boxes, t[k] = Marker("migrations")
          PROVE  j < k
      <4>1. \/ k < i /\ k \in 1 .. Len(s) /\ s[k] = Marker("migrations")
            \/ k > i /\ k - 1 \in 1 .. Len(s) /\ s[k - 1] = Marker("migrations")
        BY <1>2, <2>1, <2>10, <3>3
      <4>2. CASE j = i /\ t[j] = x.line
        <5>2. x.line \in Boxes
          BY <3>3, <4>2
        <5>3. x.mark = "migrations"
          <6>1. \A b \in Boxes : b[1] = "box"
            BY DEF Boxes, Boxed
          <6> QED
            BY <1>2, <5>2, <6>1, FormOfLine
        <5>4. \A l \in Positions(s, Marker("migrations")) : i <= l
          <6>1. i \in Positions(s, Marker("migrations"))
            BY <1>2, <2>1, <5>3 DEF Positions
          <6>2. i = First(Positions(s, Marker("migrations")))
            BY <1>1, <5>3
          <6> QED
            BY <1>2, <6>1, <6>2, FirstPosition
        <5>5. CASE k < i
          BY <1>2, <2>1, <4>1, <5>4, <5>5 DEF Positions
        <5> QED
          BY <4>1, <4>2, <5>5
      <4>3. CASE j < i /\ j \in 1 .. Len(s) /\ t[j] = s[j]
        BY <2>8, <3>3, <4>1, <4>3
      <4>4. CASE j > i /\ j - 1 \in 1 .. Len(s) /\ t[j] = s[j - 1]
        <5>1. CASE k < i /\ k \in 1 .. Len(s) /\ s[k] = Marker("migrations")
          <6>1. j - 1 < k
            BY <2>8, <3>3, <4>4, <5>1
          <6> QED
            BY <1>2, <2>1, <4>4, <5>1, <6>1
        <5>2. CASE k > i /\ k - 1 \in 1 .. Len(s) /\ s[k - 1] = Marker("migrations")
          <6>1. j - 1 < k - 1
            BY <2>8, <3>3, <4>4, <5>2
          <6> QED
            BY <4>4, <5>2, <6>1
        <5> QED
          BY <4>1, <5>1, <5>2
      <4> QED
        BY <3>1, <4>2, <4>3, <4>4
    <3> QED
      BY <3>2, <3>3
  <2>12. BoxesInv'
    BY <2>1, <2>4, <2>11 DEF BoxesInv
  <2> QED
    BY <2>7, <2>12
<1> QED
  BY <1>3, <1>4

LEMMA RemoveMigrations ==
    ASSUME RegistriesInv, BoxesInv, EditsAMarker
    PROVE  BoxesInv' /\ DeclaresMore
<1>0. PICK path \in DOMAIN files : \E mark : RemoveMarker(path, mark)
  BY DEF EditsAMarker
<1>1. PICK mark : RemoveMarker(path, mark)
  BY <1>0
<1>2. PICK i \in Positions(files[path], Marker(mark)) : Edit(path, RemoveAt(files[path], i))
  BY <1>1 DEF RemoveMarker
<1>3. PICK s : s = files[path]
  OBVIOUS
<1> DEFINE t == RemoveAt(s, i)
<1>4. files' = [files EXCEPT ![path] = t] /\ s[i] = Marker(mark) /\ i \in DOMAIN s
  BY <1>2, <1>3 DEF Edit, Positions
<1>5. CASE path # <<"migration">>
  <2> HIDE DEF t
  <2>1. /\ <<"migration">> \in DOMAIN files' <=> <<"migration">> \in DOMAIN files
        /\ <<"migration">> \in DOMAIN files => files'[<<"migration">>] = files[<<"migration">>]
    BY <1>4, <1>5
  <2> QED
    BY <2>1, SameMigrations
<1>6. CASE path = <<"migration">>
  <2>1. IsSequence(s) /\ DOMAIN s = 1 .. Len(s) /\ Len(s) \in Nat
    <3>1. <<"migration">> \in Indexes
      BY DEF Indexes, Kinds
    <3>2. IsSequence(s)
      BY <1>3, <1>6, <3>1 DEF RegistriesInv, IndexesInv
    <3> QED
      BY <3>2, SequenceOf DEF IsSequence
  <2>2. s[i] \notin Boxes
    BY <1>4 DEF Boxes, Boxed, Marker
  <2>3. /\ IsSequence(t) /\ Len(t) = Len(s) - 1 /\ DOMAIN t = 1 .. Len(s) - 1
        /\ \A j \in 1 .. Len(s) - 1 : t[j] = IF j < i THEN s[j] ELSE s[j + 1]
    BY <1>4, <2>1, RemoveAtSequence, SequenceOf DEF IsSequence
  <2>4. MigrationsOf(t) = MigrationsOf(s)
    BY <1>4, <2>1, <2>2, MigrationsAfterRemove
  <2> HIDE DEF t
  <2>5. /\ <<"migration">> \in DOMAIN files /\ <<"migration">> \in DOMAIN files'
        /\ files[<<"migration">>] = s /\ files'[<<"migration">>] = t
    BY <1>3, <1>4, <1>6
  <2>6. Declared = MigrationsOf(s) /\ Declared' = MigrationsOf(t)
    BY <2>5 DEF Declared, MigrationsOf
  <2>7. \A j, k \in 1 .. Len(s) :
           /\ s[j][1] = "box" => s[j] \in Boxes
           /\ s[j] \in Boxes /\ s[k] = Marker("migrations") => j < k
    BY <2>1, <2>5 DEF BoxesInv
  <2>8. ASSUME NEW j \in 1 .. Len(s) - 1, NEW k \in 1 .. Len(s) - 1
        PROVE  /\ t[j][1] = "box" => t[j] \in Boxes
               /\ t[j] \in Boxes /\ t[k] = Marker("migrations") => j < k
    <3> DEFINE at(n) == IF n < i THEN n ELSE n + 1
    <3>1. /\ at(j) \in 1 .. Len(s) /\ at(k) \in 1 .. Len(s)
          /\ t[j] = s[at(j)] /\ t[k] = s[at(k)]
          /\ at(j) < at(k) => j < k
      BY <1>4, <2>1, <2>3
    <3> HIDE DEF at
    <3> QED
      BY <2>7, <3>1
  <2>9. BoxesInv'
    BY <2>3, <2>5, <2>8 DEF BoxesInv
  <2> QED
    BY <2>4, <2>6, <2>9 DEF DeclaresMore
<1> QED
  BY <1>5, <1>6

LEMMA MigrationsStep ==
    ASSUME CmdOK, AskInv, RegistriesInv, BoxesInv, [Next]_vars
    PROVE  BoxesInv' /\ DeclaresMore
<1>1. CASE files' = files
  BY <1>1, SameMigrations
<1>2. CASE ChangesGenerated
  BY <1>2, SameMigrations DEF ChangesGenerated
<1>3. \/ files' = files \/ ChangesGenerated \/ WriteFile \/ EditsAMarker
      \/ Insert /\ cmd'.name = "write"
  <2>1. Quiet \/ StartsNew \/ StartsModel \/ UNCHANGED <<files, cmd>> => files' = files
    BY DEF Quiet, StartsNew, StartsModel
  <2> QED
    BY <2>1, StepKinds
<1> QED
  BY <1>1, <1>2, <1>3, WriteMigrations, InsertMigrations, RemoveMigrations

-----------------------------------------------------------------------------
(***************************************************************************)
(* The order of migrations                                                 *)
(***************************************************************************)

LEMMA DeclaredIndexes ==
    ASSUME OrderInv
    PROVE  DOMAIN Declared = 1 .. Len(Declared) /\ Len(Declared) \in Nat
BY SequenceOf DEF OrderInv, IsSequence

\* What is applied are the first ones, what is pending the others.
LEMMA AppliedThenPending ==
    ASSUME OrderInv, NEW k \in 0 .. Len(Declared), applied = {Declared[i] : i \in 1 .. k}
    PROVE  /\ Applied = SubSeq(Declared, 1, k)
           /\ Pending = SubSeq(Declared, k + 1, Len(Declared))
           /\ \A i \in 1 .. Len(Declared) : Declared[i] \in applied <=> i <= k
<1>1. DOMAIN Declared = 1 .. Len(Declared) /\ Len(Declared) \in Nat /\ IsSequence(Declared)
  BY DeclaredIndexes DEF OrderInv
<1>2. ASSUME NEW i \in 1 .. Len(Declared) PROVE Declared[i] \in applied <=> i <= k
  <2>1. ASSUME Declared[i] \in applied PROVE i <= k
    <3>1. PICK j \in 1 .. k : Declared[i] = Declared[j]
      BY <2>1
    <3>2. j \in 1 .. Len(Declared)
      BY <1>1
    <3>3. i = j
      BY <1>1, <3>1, <3>2 DEF OrderInv
    <3> QED
      BY <3>3
  <2>2. ASSUME i <= k PROVE Declared[i] \in applied
    BY <2>2
  <2> QED
    BY <2>1, <2>2
<1>3. /\ Among(Declared, applied) = SubSeq(Declared, 1, k)
      /\ Among(Declared, Range(Declared) \ applied) = SubSeq(Declared, k + 1, Len(Declared))
  BY <1>1, <1>2, AmongPrefix
<1> QED
  BY <1>2, <1>3 DEF Applied, Pending

LEMMA FirstFewOf ==
    ASSUME NEW T, NEW s \in Seq(T), NEW steps \in Nat
    PROVE  /\ IsSequence(FirstFew(s, steps)) /\ Len(FirstFew(s, steps)) <= Len(s)
           /\ \A i \in 1 .. Len(FirstFew(s, steps)) : i \in 1 .. Len(s) /\ FirstFew(s, steps)[i] = s[i]
<1> DEFINE n == IF steps < Len(s) THEN steps ELSE Len(s)
           t == SubSeq(s, 1, n)
<1>1. n \in 0 .. Len(s) /\ Len(s) \in Nat
  OBVIOUS
<1> HIDE DEF n
<1>2. t \in Seq(T) /\ Len(t) = n /\ \A i \in 1 .. n : t[i] = s[i]
  BY <1>1
<1>3. FirstFew(s, steps) = t
  BY DEF FirstFew, n
<1> HIDE DEF t
<1>4. IsSequence(t)
  BY <1>2, SequenceOf
<1> QED
  BY <1>1, <1>2, <1>3, <1>4

\* A step that leaves the migrations and the command's list as they are.
LEMMA OrderStays ==
    ASSUME OrderInv, Declared' = Declared, applied' = applied,
           \/ cmd'.name \notin {"up", "down"}
           \/ cmd'.name = cmd.name /\ cmd'.todo = cmd.todo
    PROVE  OrderInv'
<1>1. PICK k \in 0 .. Len(Declared) : OrderAt(k)
  BY DEF OrderInv
<1>2. OrderAt(k)'
  BY <1>1 DEF OrderAt
<1> QED
  BY <1>1, <1>2 DEF OrderInv

LEMMA OrderOfMore ==
    ASSUME OrderInv, DeclaresMore, applied' = applied, cmd'.name \notin {"up", "down"}
    PROVE  OrderInv'
<1>1. CASE Declared' = Declared
  BY <1>1, OrderStays
<1>2. CASE Declared' # Declared
  <2>1. PICK name : name \notin Range(Declared) /\ Declared' = Append(Declared, name)
    BY <1>2 DEF DeclaresMore
  <2>2. PICK d, e : d = Declared /\ e = Declared'
    OBVIOUS
  <2>3. PICK k \in 0 .. Len(d) : applied = {d[i] : i \in 1 .. k}
    BY <2>2 DEF OrderInv, OrderAt
  <2> DEFINE T == Range(d) \cup {name}
  <2>4. d \in Seq(T) /\ name \in T /\ DOMAIN d = 1 .. Len(d) /\ Len(d) \in Nat
        /\ \A i, j \in DOMAIN d : d[i] = d[j] => i = j
    BY <2>2, DeclaredIndexes DEF OrderInv, IsSequence
  <2>5. \A i \in DOMAIN d : d[i] # name
    BY <2>1, <2>2 DEF Range
  <2> HIDE DEF T
  <2>6. /\ e \in Seq(T) /\ Len(e) = Len(d) + 1 /\ e[Len(d) + 1] = name
        /\ \A i \in 1 .. Len(d) : e[i] = d[i]
    BY <2>1, <2>2, <2>4, AppendProperties
  <2>7. IsSequence(e) /\ DOMAIN e = 1 .. Len(d) + 1
    BY <2>6, SequenceOf
  <2>8. ASSUME NEW i \in DOMAIN e, NEW j \in DOMAIN e, e[i] = e[j] PROVE i = j
    BY <2>4, <2>5, <2>6, <2>7, <2>8
  <2>9. {d[i] : i \in 1 .. k} = {e[i] : i \in 1 .. k} /\ k \in 0 .. Len(e)
    BY <2>4, <2>6
  <2>10. OrderAt(k)'
    <3>1. applied' = {e[i] : i \in 1 .. k}
      BY <2>3, <2>9
    <3> QED
      BY <2>2, <3>1 DEF OrderAt
  <2> QED
    BY <2>2, <2>7, <2>8, <2>9, <2>10 DEF OrderInv
<1> QED
  BY <1>1, <1>2

LEMMA MigrateOrder ==
    ASSUME OrderInv, Declared' = Declared, applied' = applied, NEW steps \in Nat,
           \/ cmd' = Migrating("up", FirstFew(Pending, steps))
           \/ cmd' = Migrating("down", FirstFew(Reverse(Applied), steps))
    PROVE  OrderInv'
<1>1. PICK k \in 0 .. Len(Declared) : OrderAt(k)
  BY DEF OrderInv
<1>2. PICK d : d = Declared
  OBVIOUS
<1>3. applied = {d[i] : i \in 1 .. k} /\ k \in 0 .. Len(d)
  BY <1>1, <1>2 DEF OrderAt
<1>4. d \in Seq(Range(d)) /\ Len(d) \in Nat /\ DOMAIN d = 1 .. Len(d)
  BY <1>2, DeclaredIndexes DEF OrderInv, IsSequence
<1>5. Applied = SubSeq(d, 1, k) /\ Pending = SubSeq(d, k + 1, Len(d))
  BY <1>2, <1>3, AppliedThenPending
<1>6. CASE cmd' = Migrating("up", FirstFew(Pending, steps))
  <2> DEFINE p == SubSeq(d, k + 1, Len(d))
             t == FirstFew(p, steps)
  <2>1. p \in Seq(Range(d)) /\ Len(p) = Len(d) - k /\ \A i \in 1 .. Len(d) - k : p[i] = d[k + i]
    <3>1. PICK T, m : T = Range(d) /\ m = k + 1
      OBVIOUS
    <3>2. m \in 1 .. Len(d) + 1 /\ d \in Seq(T) /\ Len(d) \in Nat
      BY <1>3, <1>4, <3>1
    <3>3. /\ SubSeq(d, m, Len(d)) \in Seq(T) /\ Len(SubSeq(d, m, Len(d))) = (Len(d) - m) + 1
          /\ \A i \in 1 .. (Len(d) - m) + 1 : SubSeq(d, m, Len(d))[i] = d[(m + i) - 1]
      BY <3>2, SubSeqProperties
    <3>4. (Len(d) - m) + 1 = Len(d) - k /\ \A i \in 1 .. Len(d) - k : (m + i) - 1 = k + i
      BY <1>3, <1>4, <3>1
    <3> QED
      BY <3>1, <3>3, <3>4
  <2> HIDE DEF p
  <2>2. /\ IsSequence(t) /\ Len(t) <= Len(d) - k
        /\ \A i \in 1 .. Len(t) : t[i] = d[k + i]
    BY <2>1, FirstFewOf
  <2>3. cmd'.name = "up" /\ cmd'.todo = t
    BY <1>5, <1>6 DEF Migrating, p
  <2> HIDE DEF t
  <2>4. OrderAt(k)'
    BY <1>2, <1>3, <2>2, <2>3 DEF OrderAt
  <2> QED
    BY <1>1, <2>4 DEF OrderInv
<1>7. CASE cmd' = Migrating("down", FirstFew(Reverse(Applied), steps))
  <2> DEFINE a == SubSeq(d, 1, k)
             r == Reverse(a)
             t == FirstFew(r, steps)
  <2>1. a \in Seq(Range(d)) /\ Len(a) = k /\ \A i \in 1 .. k : a[i] = d[i]
    BY <1>3, <1>4, SubSeqProperties
  <2> HIDE DEF a
  <2>2. r = [i \in 1 .. k |-> a[(k - i) + 1]]
    BY <2>1 DEF Reverse
  <2>3. \A i \in 1 .. k : (k - i) + 1 \in 1 .. k
    BY <1>3
  <2>4. r \in Seq(Range(d)) /\ Len(r) = k /\ \A i \in 1 .. k : r[i] = d[(k - i) + 1]
    BY <1>3, <2>1, <2>2, <2>3
  <2> HIDE DEF r
  <2>5. /\ IsSequence(t) /\ Len(t) <= k
        /\ \A i \in 1 .. Len(t) : t[i] = d[(k - i) + 1]
    BY <2>4, FirstFewOf
  <2>6. cmd'.name = "down" /\ cmd'.todo = t
    BY <1>5, <1>7 DEF Migrating, a, r
  <2> HIDE DEF t
  <2>7. OrderAt(k)'
    BY <1>2, <1>3, <2>5, <2>6 DEF OrderAt
  <2> QED
    BY <1>1, <2>7 DEF OrderInv
<1> QED
  BY <1>6, <1>7

LEMMA FreshOrder ==
    ASSUME OrderInv, Fresh
    PROVE  OrderInv'
<1>1. Declared' = Declared
  BY DEF Fresh, Declared
<1>2. PICK d : d = Declared
  OBVIOUS
<1>3. IsSequence(d) /\ Len(d) \in Nat /\ 1 .. 0 = {}
  BY <1>2, DeclaredIndexes DEF OrderInv
<1>4. applied' = {} /\ cmd'.name = "up" /\ cmd'.todo = d
  BY <1>2 DEF Fresh, Migrating
<1>5. OrderAt(0)'
  <2>1. {d[i] : i \in 1 .. 0} = {} /\ Len(d) <= Len(d) - 0 /\ \A i \in 1 .. Len(d) : d[i] = d[0 + i]
    BY <1>3
  <2> QED
    BY <1>1, <1>2, <1>3, <1>4, <2>1 DEF OrderAt
<1> QED
  BY <1>1, <1>2, <1>3, <1>5 DEF OrderInv

LEMMA RecordOrder ==
    ASSUME CmdOK, OrderInv, Record
    PROVE  OrderInv'
<1>1. Declared' = Declared
  BY DEF Record, Declared
<1>2. PICK d, todo : d = Declared /\ todo = cmd.todo
  OBVIOUS
<1>3. PICK k \in 0 .. Len(d) : OrderAt(k)
  BY <1>2 DEF OrderInv
<1>4. /\ DOMAIN d = 1 .. Len(d) /\ Len(d) \in Nat
      /\ applied = {d[i] : i \in 1 .. k} /\ todo # <<>>
      /\ \A i, j \in DOMAIN d : d[i] = d[j] => i = j
  <2>1. DOMAIN d = 1 .. Len(d) /\ Len(d) \in Nat
    BY <1>2, DeclaredIndexes
  <2>2. applied = {d[i] : i \in 1 .. k}
    BY <1>2, <1>3 DEF OrderAt
  <2>3. \A i, j \in DOMAIN d : d[i] = d[j] => i = j
    BY <1>2 DEF OrderInv
  <2>4. todo # <<>>
    BY <1>2 DEF Record
  <2> QED
    BY <2>1, <2>2, <2>3, <2>4
<1>5. CASE cmd.name = "up"
  <2>1. /\ IsSequence(todo) /\ Len(todo) <= Len(d) - k
        /\ \A i \in 1 .. Len(todo) : todo[i] = d[k + i]
    BY <1>2, <1>3, <1>5 DEF OrderAt
  <2>2. /\ Len(todo) \in Nat \ {0} /\ Head(todo) = todo[1] /\ IsSequence(Tail(todo))
        /\ Len(Tail(todo)) = Len(todo) - 1
        /\ \A i \in 1 .. Len(todo) - 1 : Tail(todo)[i] = todo[i + 1]
    BY <1>4, <2>1, TailSequence
  <2>3. applied' = applied \cup {Head(todo)} /\ cmd'.name = "up" /\ cmd'.todo = Tail(todo)
    BY <1>2, <1>5 DEF Record, Migrating
  <2>4. k + 1 \in 0 .. Len(d) /\ Head(todo) = d[k + 1] /\ 1 .. k + 1 = (1 .. k) \cup {k + 1}
    BY <1>4, <2>1, <2>2
  <2>5. applied' = {d[i] : i \in 1 .. k + 1}
    BY <1>4, <2>3, <2>4
  <2>6. \A i \in 1 .. Len(Tail(todo)) : Tail(todo)[i] = d[(k + 1) + i]
    <3>1. \A i \in 1 .. Len(todo) - 1 : i + 1 \in 1 .. Len(todo) /\ (k + 1) + i = k + (i + 1)
      BY <2>2
    <3> QED
      BY <2>1, <2>2, <3>1
  <2>7. Len(Tail(todo)) <= Len(d) - (k + 1)
    BY <1>4, <2>1, <2>2
  <2>8. OrderAt(k + 1)'
    <3>1. PICK m, rest : m = k + 1 /\ rest = Tail(todo)
      OBVIOUS
    <3> QED
      BY <1>1, <1>2, <2>2, <2>3, <2>5, <2>6, <2>7, <3>1 DEF OrderAt
  <2> QED
    BY <1>1, <1>2, <2>4, <2>8 DEF OrderInv
<1>6. CASE cmd.name = "down"
  <2>1. /\ IsSequence(todo) /\ Len(todo) <= k
        /\ \A i \in 1 .. Len(todo) : todo[i] = d[(k - i) + 1]
    BY <1>2, <1>3, <1>6 DEF OrderAt
  <2>2. /\ Len(todo) \in Nat \ {0} /\ Head(todo) = todo[1] /\ IsSequence(Tail(todo))
        /\ Len(Tail(todo)) = Len(todo) - 1
        /\ \A i \in 1 .. Len(todo) - 1 : Tail(todo)[i] = todo[i + 1]
    BY <1>4, <2>1, TailSequence
  <2>3. applied' = applied \ {Head(todo)} /\ cmd'.name = "down" /\ cmd'.todo = Tail(todo)
    BY <1>2, <1>6 DEF Record, Migrating
  <2>4. k - 1 \in 0 .. Len(d) /\ k \in 1 .. Len(d) /\ Head(todo) = d[k]
    <3>1. 1 \in 1 .. Len(todo) /\ (k - 1) + 1 = k
      BY <2>2
    <3> QED
      BY <1>4, <2>1, <2>2, <3>1
  <2>5. applied' = {d[i] : i \in 1 .. k - 1}
    <3>1. \A i \in 1 .. k : d[i] = d[k] <=> i = k
      BY <1>4, <2>4
    <3> QED
      BY <1>4, <2>3, <2>4, <3>1
  <2>6. \A i \in 1 .. Len(Tail(todo)) : Tail(todo)[i] = d[((k - 1) - i) + 1]
    <3>1. \A i \in 1 .. Len(todo) - 1 : i + 1 \in 1 .. Len(todo) /\ (k - (i + 1)) + 1 = ((k - 1) - i) + 1
      BY <2>2
    <3> QED
      BY <2>1, <2>2, <3>1
  <2>7. Len(Tail(todo)) <= k - 1
    BY <1>4, <2>1, <2>2
  <2>8. OrderAt(k - 1)'
    <3>1. PICK m, rest : m = k - 1 /\ rest = Tail(todo)
      OBVIOUS
    <3> QED
      BY <1>1, <1>2, <2>2, <2>3, <2>5, <2>6, <2>7, <3>1 DEF OrderAt
  <2> QED
    BY <1>1, <1>2, <2>4, <2>8 DEF OrderInv
<1> QED
  BY <1>5, <1>6 DEF Record

LEMMA OrderStep ==
    ASSUME CmdOK, AskInv, RegistriesInv, BoxesInv, OrderInv, [Next]_vars
    PROVE  OrderInv'
<1>1. CASE Up \/ Down \/ Record \/ Fresh \/ Migrated
  <2>1. Up \/ Down \/ Migrated => Declared' = Declared /\ applied' = applied
    BY DEF Up, Down, Migrated, Declared, database
  <2>2. CASE Up
    <3>1. cmd'.name = cmd.name /\ cmd'.todo = cmd.todo
      BY <2>2 DEF Up, CmdOK
    <3> QED
      BY <2>1, <2>2, <3>1, OrderStays
  <2>3. CASE Down
    <3>1. \/ cmd'.name = cmd.name /\ cmd'.todo = cmd.todo
          \/ cmd'.name = "none"
      BY <2>3 DEF Down, CmdOK, Ended
    <3> QED
      BY <2>1, <2>3, <3>1, OrderStays
  <2>4. CASE Migrated
    <3>1. cmd'.name = "none"
      BY <2>4 DEF Migrated, Ended
    <3> QED
      BY <2>1, <2>4, <3>1, OrderStays
  <2> QED
    BY <1>1, <2>2, <2>3, <2>4, RecordOrder, FreshOrder
<1>2. CASE ~ (Up \/ Down \/ Record \/ Fresh \/ Migrated)
  <2>1. DeclaresMore
    BY MigrationsStep
  <2>2. CASE StartsMigrating
    <3>1. PICK steps \in Nat : Migrate(steps) \/ MigrateRollback(steps)
      BY <2>2 DEF StartsMigrating
    <3>2. Declared' = Declared /\ applied' = applied
      BY <3>1 DEF Migrate, MigrateRollback, Declared, database
    <3>3. \/ cmd' = Migrating("up", FirstFew(Pending, steps))
          \/ cmd' = Migrating("down", FirstFew(Reverse(Applied), steps))
      BY <3>1 DEF Migrate, MigrateRollback
    <3> QED
      BY <3>2, <3>3, MigrateOrder
  <2>3. CASE applied' = applied /\ cmd'.name \notin {"up", "down"}
    BY <2>1, <2>3, OrderOfMore
  <2>4. CASE UNCHANGED <<applied, cmd>> /\ cmd.name \in {"up", "down"}
    <3>1. files' = files
      <4>1. /\ ~ StartsNew /\ ~ StartsModel /\ ~ WriteFile /\ ~ EditsAMarker
            /\ ~ (Insert /\ cmd'.name = "write")
            /\ ~ (ChangesGenerated /\ cmd.name \in {"sync", "none"}
                                   /\ cmd'.name \in {"sync", "none"})
        BY <2>4 DEF StartsNew, Writing, StartsModel, WriteFile, EditsAMarker, Idle
      <4>2. Quiet \/ UNCHANGED <<files, cmd>> => files' = files
        BY DEF Quiet
      <4> QED
        BY <4>1, <4>2, StepKinds
    <3>2. Declared' = Declared
      BY <3>1 DEF Declared
    <3> QED
      BY <2>4, <3>2, OrderStays
  <2>5. Stop => applied' = applied /\ cmd'.name = "none"
    BY DEF Stop, Ended, database
  <2> QED
    BY <1>2, <2>2, <2>3, <2>4, <2>5, OthersLeaveTables DEF database
<1> QED
  BY <1>1, <1>2

LEMMA OrderInvariant == Spec => [](BoxesInv /\ OrderInv)
<1>1. Init => BoxesInv /\ OrderInv
  <2> SUFFICES ASSUME Init PROVE BoxesInv /\ OrderInv
    OBVIOUS
  <2>1. DOMAIN files = {} /\ applied = {} /\ cmd.name = "none"
    BY DEF Init, Ended
  <2>2. Declared = <<>>
    BY <2>1 DEF Declared
  <2>3. IsSequence(<<>>) /\ Len(<<>>) = 0 /\ 1 .. 0 = {} /\ DOMAIN <<>> = {}
    BY SequenceOf DEF IsSequence
  <2>4. OrderAt(0)
    BY <2>1, <2>2, <2>3 DEF OrderAt
  <2>5. OrderInv
    BY <2>2, <2>3, <2>4 DEF OrderInv
  <2> QED
    BY <2>1, <2>5 DEF BoxesInv
<1>2. CmdOK /\ AskInv /\ RegistriesInv /\ (BoxesInv /\ OrderInv) /\ [Next]_vars
         => (BoxesInv /\ OrderInv)'
  BY MigrationsStep, OrderStep
<1> QED
  BY <1>1, <1>2, RegistriesInvariant, PTL DEF Spec

\* The status table lists the applied migrations, then the pending ones: that
\* is the order of declaration.
LEMMA StatusOfOrder ==
    ASSUME OrderInv
    PROVE  StatusInDeclarationOrder
<1>1. PICK k \in 0 .. Len(Declared) : OrderAt(k)
  BY DEF OrderInv
<1>2. PICK d : d = Declared
  OBVIOUS
<1>3. /\ d \in Seq(Range(d)) /\ Len(d) \in Nat /\ DOMAIN d = 1 .. Len(d) /\ k \in 0 .. Len(d)
      /\ Applied = SubSeq(d, 1, k) /\ Pending = SubSeq(d, k + 1, Len(d))
      /\ \A i \in 1 .. Len(d) : d[i] \in applied <=> i <= k
  BY <1>1, <1>2, DeclaredIndexes, AppliedThenPending DEF OrderInv, OrderAt, IsSequence
<1> DEFINE T == Range(d)
           a == SubSeq(d, 1, k)
           p == SubSeq(d, k + 1, Len(d))
           done == [i \in DOMAIN a |-> <<a[i], "applied">>]
           todo == [i \in DOMAIN p |-> <<p[i], "pending">>]
           all == [i \in DOMAIN d |-> <<d[i], IF d[i] \in applied THEN "applied" ELSE "pending">>]
           U == T \X {"applied", "pending"}
<1>4. a \in Seq(T) /\ Len(a) = k /\ DOMAIN a = 1 .. k /\ \A i \in 1 .. k : a[i] = d[i]
  BY <1>3, SubSeqProperties
<1>5. /\ p \in Seq(T) /\ Len(p) = Len(d) - k /\ DOMAIN p = 1 .. Len(d) - k
      /\ \A i \in 1 .. Len(d) - k : p[i] = d[k + i]
  <2>1. PICK m, n : m = k + 1 /\ n = Len(d)
    OBVIOUS
  <2>2. m \in 1 .. n + 1 /\ n \in Nat
    BY <1>3, <2>1
  <2> HIDE DEF T
  <2>3. d \in Seq(T)
    BY <1>3 DEF T
  <2>4. /\ SubSeq(d, m, n) \in Seq(T) /\ Len(SubSeq(d, m, n)) = (n - m) + 1
        /\ \A i \in 1 .. (n - m) + 1 : SubSeq(d, m, n)[i] = d[(m + i) - 1]
    BY <2>1, <2>2, <2>3, SubSeqProperties
  <2>5. (n - m) + 1 = n - k /\ \A i \in 1 .. n - k : (m + i) - 1 = k + i
    BY <1>3, <2>1
  <2> QED
    BY <2>1, <2>4, <2>5, SequenceOf
<1>6. \A i \in 1 .. Len(d) : d[i] \in T
  BY <1>3 DEF Range
<1> HIDE DEF T, a, p
<1>7. MigrationStatus = done \o todo
  BY <1>3 DEF MigrationStatus, a, p
<1>8. /\ done \in Seq(U) /\ Len(done) = k
      /\ \A i \in 1 .. k : done[i] = <<d[i], "applied">>
  <2>1. done = [i \in 1 .. k |-> <<a[i], "applied">>] /\ \A i \in 1 .. k : a[i] \in T
    BY <1>3, <1>4, <1>6
  <2> QED
    BY <1>3, <1>4, <2>1
<1>9. /\ todo \in Seq(U) /\ Len(todo) = Len(d) - k
      /\ \A i \in 1 .. Len(d) - k : todo[i] = <<d[k + i], "pending">>
  <2>1. todo = [i \in 1 .. Len(d) - k |-> <<p[i], "pending">>]
    BY <1>5
  <2>2. \A i \in 1 .. Len(d) - k : p[i] \in T
    BY <1>3, <1>5, <1>6
  <2> QED
    BY <1>3, <1>5, <2>1, <2>2
<1>10. /\ all \in Seq(U) /\ Len(all) = Len(d)
       /\ \A i \in 1 .. Len(d) : all[i] = <<d[i], IF i <= k THEN "applied" ELSE "pending">>
  <2>1. all = [i \in 1 .. Len(d) |-> <<d[i], IF i <= k THEN "applied" ELSE "pending">>]
    BY <1>3
  <2> HIDE DEF all
  <2> QED
    BY <1>3, <1>6, <2>1
<1> HIDE DEF done, todo, U
<1>11. /\ done \o todo \in Seq(U) /\ Len(done \o todo) = Len(d)
       /\ \A i \in 1 .. Len(d) :
             (done \o todo)[i] = IF i <= k THEN done[i] ELSE todo[i - k]
  <2>1. PICK x, y : x = done /\ y = todo
    OBVIOUS
  <2>2. x \in Seq(U) /\ y \in Seq(U) /\ Len(x) = k /\ Len(y) = Len(d) - k
    BY <1>8, <1>9, <2>1
  <2>3. /\ x \o y \in Seq(U) /\ Len(x \o y) = Len(x) + Len(y)
        /\ \A i \in 1 .. Len(x) + Len(y) :
              (x \o y)[i] = IF i <= Len(x) THEN x[i] ELSE y[i - Len(x)]
    BY <2>2, ConcatProperties
  <2>4. k \in Nat /\ Len(d) \in Nat /\ k + (Len(d) - k) = Len(d)
    BY <1>3
  <2>5. Len(x) + Len(y) = Len(d)
    BY <2>2, <2>4
  <2>6. Len(x \o y) = Len(d)
    BY <2>3, <2>5
  <2>7. \A i \in 1 .. Len(d) : (x \o y)[i] = IF i <= k THEN x[i] ELSE y[i - k]
    BY <2>2, <2>3, <2>5
  <2> QED
    BY <2>1, <2>3, <2>6, <2>7
<1>12. \A i \in 1 .. Len(d) : (done \o todo)[i] = all[i]
  <2> TAKE i \in 1 .. Len(d)
  <2>1. CASE i <= k
    BY <1>3, <1>8, <1>10, <1>11, <2>1
  <2>2. CASE ~ (i <= k)
    <3>1. i - k \in 1 .. Len(d) - k /\ k + (i - k) = i
      BY <1>3, <2>2
    <3>2. todo[i - k] = <<d[i], "pending">>
      BY <1>9, <3>1
    <3>3. all[i] = <<d[i], "pending">>
      BY <1>10, <2>2
    <3> QED
      BY <1>11, <2>2, <3>2, <3>3
  <2> QED
    BY <2>1, <2>2
<1>13. done \o todo = all
  <2> HIDE DEF all
  <2> QED
    BY <1>10, <1>11, <1>12, SeqEqual
<1> QED
  BY <1>2, <1>7, <1>13 DEF StatusInDeclarationOrder

\* migrate:status lists the migrations in declaration order, however many were
\* generated, applied, rolled back and rebuilt.  (migration.rs status,
\* insertion.rs apply.)
THEOREM StatusFollowsDeclarations == Spec => []StatusInDeclarationOrder
<1>1. BoxesInv /\ OrderInv => StatusInDeclarationOrder
  BY StatusOfOrder
<1> QED
  BY <1>1, OrderInvariant, PTL

-----------------------------------------------------------------------------
(***************************************************************************)
(* Every failure has a cause                                               *)
(***************************************************************************)

Failed == {"no marker", "unreadable", "failed"}
EndsWell == cmd'.name = "none" => cmd'.outcome \notin Failed

\* Neither a command line nor an answer makes luxid new fail.
LEMMA NewEndsWell ==
    ASSUME NEW o \in CommandLines,
           cmd' \in {WithClient(o, c) : c \in Clients \cup {"refused", "ask"}}
                \cup {WithKind(o, k) : k \in {"refused", "ask", "api", "inertia"}}
    PROVE  EndsWell
<1> USE DEF EndsWell, Failed
<1>1. ASSUME NEW c \in Clients \cup {"refused", "ask"}, cmd' = WithClient(o, c)
      PROVE  EndsWell
  BY <1>1 DEF WithClient, Ended, Asking, Writing
<1>2. ResolveClient(o) \in Clients \cup {"refused", "ask"}
  BY DEF ResolveClient, CommandLines, Clients
<1>3. ASSUME NEW k \in {"refused", "ask", "api", "inertia"}, cmd' = WithKind(o, k)
      PROVE  EndsWell
  <2>1. CASE k = "inertia"
    BY <1>1, <1>2, <1>3, <2>1 DEF WithKind
  <2>2. CASE k # "inertia"
    BY <1>3, <2>2 DEF WithKind, Ended, Asking, Writing
  <2> QED
    BY <2>1, <2>2
<1> QED
  BY <1>1, <1>3

LEMMA AnswerEndsWell ==
    ASSUME CmdOK, NEW answer, Answer(answer)
    PROVE  UNCHANGED cmd \/ EndsWell
<1>1. cmd.name = "ask" /\ cmd.options \in CommandLines
  BY DEF Answer, CmdOK
<1> DEFINE chosen == Chosen(answer, cmd.choices, cmd.stdin)
<1>2. CASE chosen = "again"
  BY <1>2 DEF Answer
<1>3. CASE chosen \in Clients
  <2>1. chosen # "again"
    BY <1>3 DEF Clients
  <2>2. cmd' = WithClient(cmd.options, chosen)
    BY <1>3, <2>1 DEF Answer
  <2> QED
    BY <1>1, <1>3, <2>2, NewEndsWell
<1>4. CASE chosen \notin Clients /\ chosen # "again"
  <2>1. cmd' = WithKind(cmd.options, chosen)
    BY <1>4 DEF Answer
  <2>2. chosen \in {"api", "inertia"}
    <3>1. CASE cmd.choices = <<"api", "inertia">>
      BY <1>4, <3>1 DEF Chosen, Range
    <3>2. CASE cmd.choices = <<"react", "vue", "svelte">>
      BY <1>4, <3>2 DEF Chosen, Range, Clients
    <3> QED
      BY <1>1, <3>1, <3>2 DEF CmdOK
  <2> QED
    BY <1>1, <2>1, <2>2, NewEndsWell
<1> QED
  BY <1>2, <1>3, <1>4

\* The markers taken out and the commands stopped are only added to; a plan is
\* written to its end, or stopped; and only two steps can fail.
LEMMA StepCauses ==
    ASSUME CmdOK, [Next]_vars
    PROVE  /\ removed \subseteq removed' /\ (Stop \/ stops' = stops)
           /\ cmd.name = "write" => UNCHANGED cmd \/ WriteFile \/ Insert \/ Written \/ Stop
           /\ UNCHANGED cmd \/ EndsWell \/ Insert \/ Down
<1> DEFINE Kept == removed \subseteq removed' /\ stops' = stops
           Other == Kept /\ cmd.name # "write" /\ EndsWell
<1> USE DEF EndsWell, Failed
<1>1. ASSUME NEW o \in Options, New(o) PROVE Other
  <2>1. ResolveKind(o) \in {"refused", "ask", "api", "inertia"} /\ o \in CommandLines
    BY OptionsAssumption DEF ResolveKind, CommandLines
  <2>2. cmd' = WithKind(o, ResolveKind(o)) /\ cmd.name = "none" /\ UNCHANGED <<removed, stops>>
    BY <1>1 DEF New, Idle, developer, faults
  <2>3. EndsWell
    BY <2>1, <2>2, NewEndsWell
  <2> QED
    BY <2>2, <2>3
<1>2. CASE NewAgain
  BY <1>2 DEF NewAgain, Idle, Ended, developer, faults
<1>3. ASSUME NEW word \in Words, NEW flags \in FlagSets, MakeModelCommand(word, flags)
      PROVE  Other
  BY <1>3 DEF MakeModelCommand, Idle, Ended, Writing, developer, faults
<1>4. ASSUME NEW answer, Answer(answer)
      PROVE  Kept /\ cmd.name # "write" /\ (UNCHANGED cmd \/ EndsWell)
  <2>1. cmd.name = "ask" /\ UNCHANGED <<removed, stops>>
    BY <1>4 DEF Answer, developer, faults
  <2>2. UNCHANGED cmd \/ EndsWell
    BY <1>4, AnswerEndsWell
  <2> QED
    BY <2>1, <2>2
<1>5. CASE HangUp
  BY <1>5 DEF HangUp, CmdOK, developer, faults
<1>6. CASE WriteFile
  <2>1. Kept
    BY <1>6 DEF WriteFile, developer, faults
  <2>2. cmd'.name = "write"
    <3>1. cmd = Writing(cmd.plan)
      BY <1>6 DEF WriteFile, Writing, CmdOK
    <3>2. PICK plan : cmd' = [cmd EXCEPT !.plan = plan]
      BY <1>6 DEF WriteFile
    <3> QED
      BY <3>1, <3>2 DEF Writing
  <2> QED
    BY <1>6, <2>1, <2>2
<1>7. CASE Insert
  BY <1>7 DEF Insert, developer
<1>8. CASE Written
  BY <1>8 DEF Written, Ended, developer, faults
<1>9. ASSUME Migrated \/ SyncDone PROVE Other
  <2>1. cmd.name \in {"up", "down", "sync"} /\ UNCHANGED <<removed, stops>>
    BY <1>9 DEF Migrated, SyncDone, developer, faults
  <2>2. PICK outcome : cmd' = Ended(outcome) /\ outcome \in {"done", "synced"}
    BY <1>9 DEF Migrated, SyncDone
  <2>3. cmd'.outcome = outcome
    BY <2>2 DEF Ended
  <2> QED
    BY <2>1, <2>2, <2>3
<1>10. ASSUME NEW steps, Migrate(steps) \/ MigrateRollback(steps), Idle PROVE Other
  BY <1>10, MigratingGoesOn DEF Migrate, MigrateRollback, Idle, developer, faults
<1>11. ASSUME NEW force \in BOOLEAN, MigrateFresh(force), Idle PROVE Other
  <2>1. CASE force
    BY <1>11, <2>1, MigratingGoesOn DEF MigrateFresh, Idle, developer, faults
  <2>2. CASE ~ force
    BY <1>11, <2>2 DEF MigrateFresh, Ended, Idle, developer, faults
  <2> QED
    BY <2>1, <2>2
<1>12. CASE Up
  BY <1>12 DEF Up, CmdOK, developer, faults
<1>13. ASSUME Down PROVE Kept /\ cmd.name # "write"
  BY <1>13 DEF Down, developer, faults
<1>14. ASSUME Record \/ Fresh PROVE Other
  BY <1>14, MigratingGoesOn DEF Record, Fresh, developer, faults
<1>15. ASSUME NEW dry, DbSync(dry), Idle PROVE Other
  BY <1>15 DEF DbSync, Idle, developer, faults
<1>16. ASSUME SyncFile PROVE Other
  BY <1>16 DEF SyncFile, CmdOK, developer, faults
<1>17. ASSUME Edited PROVE Other
  <2>1. ASSUME NEW path, NEW lines, Edit(path, lines)
        PROVE  cmd.name = "none" /\ EndsWell /\ stops' = stops
    BY <2>1 DEF Edit, Idle, Ended, faults
  <2> HIDE DEF EndsWell
  <2> QED
    BY <1>17, <2>1 DEF Edited, FillMigration, Annotate, RemoveMarker
<1>18. ASSUME Stop PROVE removed' = removed /\ EndsWell
  BY <1>18 DEF Stop, Ended, developer
<1>19. UNCHANGED vars => UNCHANGED <<removed, stops, cmd>>
  BY DEF vars, developer, faults
<1> HIDE DEF EndsWell
<1>20. CASE Generate
  BY <1>1, <1>2, <1>3, <1>20 DEF Generate
<1>21. CASE Reply
  BY <1>4, <1>21 DEF Reply
<1>22. CASE RunCommand
  BY <1>10, <1>11, <1>15, <1>22 DEF RunCommand
<1>23. CASE Work
  BY <1>6, <1>7, <1>8, <1>9, <1>12, <1>13, <1>14, <1>16, <1>23 DEF Work
<1> QED
  BY <1>5, <1>17, <1>18, <1>19, <1>20, <1>21, <1>22, <1>23 DEF Next

\* What writing a file does.
LEMMA WrittenFile ==
    ASSUME CmdOK, RegistriesInv, WriteFile
    PROVE  \E new, f :
              /\ new = cmd.plan.files /\ f = new[1]
              /\ DOMAIN new = 1 .. Len(new) /\ 1 \in DOMAIN new
              /\ DOMAIN Tail(new) = 1 .. Len(new) - 1
              /\ \A i \in 1 .. Len(new) - 1 : i + 1 \in 1 .. Len(new) /\ Tail(new)[i] = new[i + 1]
              /\ Paths(new) = Paths(Tail(new)) \cup {f.path}
              /\ f.path \notin DOMAIN files /\ DOMAIN files' = DOMAIN files \cup {f.path}
              /\ files'[f.path] = f.contents
              /\ \A path \in DOMAIN files : files'[path] = files[path]
              /\ cmd'.name = "write" /\ cmd'.plan.files = Tail(new)
<1>0. PICK new, f : new = cmd.plan.files /\ f = Head(new)
  OBVIOUS
<1>1. cmd.name = "write" /\ new # <<>>
  BY <1>0 DEF WriteFile
<1>2. IsSequence(new) /\ cmd = Writing(Plan(new, cmd.plan.insertions))
  BY <1>0, <1>1, PlanOfWriting DEF RegistriesInv
<1>3. Paths(new) \cap DOMAIN files = {}
  BY <1>0, <1>1 DEF RegistriesInv, WritingInv
<1>4. /\ DOMAIN new = 1 .. Len(new) /\ Len(new) \in Nat \ {0} /\ f = new[1]
      /\ DOMAIN Tail(new) = 1 .. Len(new) - 1
      /\ \A i \in 1 .. Len(new) - 1 : Tail(new)[i] = new[i + 1]
  BY <1>0, <1>1, <1>2, TailSequence
<1>5. \A i \in 1 .. Len(new) - 1 : i + 1 \in 1 .. Len(new)
  BY <1>4
<1>6. Paths(new) = Paths(Tail(new)) \cup {f.path}
  <2>1. ASSUME NEW i \in 1 .. Len(new) PROVE new[i].path \in Paths(Tail(new)) \cup {f.path}
    <3>1. CASE i = 1
      BY <1>4, <3>1
    <3>2. CASE i # 1
      <4>1. i - 1 \in DOMAIN Tail(new) /\ Tail(new)[i - 1] = new[i]
        BY <1>4, <3>2
      <4> QED
        BY <4>1 DEF Paths
    <3> QED
      BY <3>1, <3>2
  <2>2. Paths(new) \subseteq Paths(Tail(new)) \cup {f.path}
    BY <1>4, <2>1 DEF Paths
  <2>3. f.path \in Paths(new) /\ Paths(Tail(new)) \subseteq Paths(new)
    BY <1>4, <1>5 DEF Paths
  <2> QED
    BY <2>2, <2>3
<1>7. f.path \notin DOMAIN files
  BY <1>3, <1>6
<1>8. files' = [path \in DOMAIN files \cup {f.path} |->
                   IF path = f.path THEN f.contents ELSE files[path]]
  BY <1>0 DEF WriteFile
<1>9. cmd' = Writing(Plan(Tail(new), cmd.plan.insertions))
  <2>1. cmd' = [cmd EXCEPT !.plan.files = Tail(new)]
    BY <1>0 DEF WriteFile
  <2> QED
    BY <1>2, <2>1, PlanShrinks
<1>10. cmd'.name = "write" /\ cmd'.plan.files = Tail(new)
  BY <1>9 DEF Writing, Plan
<1>11. 1 \in DOMAIN new /\ new = cmd.plan.files
  BY <1>0, <1>4
<1>12. DOMAIN files' = DOMAIN files \cup {f.path} /\ files'[f.path] = f.contents
  BY <1>8
<1>13. \A path \in DOMAIN files : files'[path] = files[path]
  BY <1>7, <1>8
<1> WITNESS new, f
<1> QED
  BY <1>4, <1>5, <1>6, <1>7, <1>10, <1>11, <1>12, <1>13

\* No marker is lost but to the developer.
LEMMA MarkersStep ==
    ASSUME CmdOK, AskInv, RegistriesInv, MarkersInv, [Next]_vars
    PROVE  MarkersInv'
<1> DEFINE Found(n) == n[1] \in DOMAIN files => Marker(n[2]) \in Lines(n[1]) \/ n \in removed
<1>0. /\ removed \subseteq removed'
      /\ \A n \in Needed : Found(n)
      /\ \A n \in Needed : n[1] \in Indexes /\ \E kind : n[1] = <<kind>>
  BY StepCauses DEF MarkersInv, Needed, Indexes, Kinds
<1>1. ASSUME \A n \in Needed : n[1] \in DOMAIN files' /\ n[1] \in DOMAIN files
                                => Lines(n[1]) \subseteq Lines(n[1])',
             \A n \in Needed : n[1] \in DOMAIN files' /\ n[1] \notin DOMAIN files
                                => Marker(n[2]) \in Lines(n[1])'
      PROVE  \A n \in Needed : Found(n)'
  BY <1>0, <1>1
<1>2. CASE UNCHANGED <<files, cmd>>
  BY <1>0, <1>2 DEF MarkersInv, Lines
<1>3. CASE Quiet
  BY <1>0, <1>3 DEF MarkersInv, Quiet, Lines
<1>4. CASE StartsNew
  <2>1. PICK stack : cmd' = Writing(NewApp(stack))
    BY <1>4 DEF StartsNew
  <2>2. Marked(cmd'.plan.files)
    BY <2>1, NewAppIsGood DEF Writing
  <2>3. DOMAIN files' = {}
    BY <1>4 DEF StartsNew
  <2> QED
    BY <2>2, <2>3 DEF MarkersInv, Marked
<1>5. CASE StartsModel
  <2>1. PICK word \in Words : \E flags : cmd' = Writing(MakeModel(word, flags))
    BY <1>5 DEF StartsModel
  <2>2. PICK plan, kinds : cmd' = Writing(plan) /\ GoodPlan(plan, kinds)
    BY <2>1, MakeModelIsGood
  <2>3. cmd'.plan = plan /\ files' = files
    BY <1>5, <2>2 DEF StartsModel, Writing
  <2>4. \A i \in DOMAIN plan.files : \E kind, name : plan.files[i].path = <<kind, name>>
    BY <2>2 DEF GoodPlan
  <2>5. \A n \in Needed : \A i \in DOMAIN plan.files : plan.files[i].path # n[1]
    BY <1>0, <2>4
  <2> QED
    BY <1>0, <2>3, <2>5 DEF MarkersInv, Lines
<1>6. CASE WriteFile
  <2>2. PICK new, f :
           /\ new = cmd.plan.files /\ DOMAIN new = 1 .. Len(new) /\ 1 \in DOMAIN new /\ f = new[1]
           /\ DOMAIN Tail(new) = 1 .. Len(new) - 1
           /\ \A i \in 1 .. Len(new) - 1 : i + 1 \in 1 .. Len(new) /\ Tail(new)[i] = new[i + 1]
           /\ f.path \notin DOMAIN files /\ DOMAIN files' = DOMAIN files \cup {f.path}
           /\ files'[f.path] = f.contents
           /\ \A path \in DOMAIN files : files'[path] = files[path]
           /\ cmd'.name = "write" /\ cmd'.plan.files = Tail(new)
    BY <1>6, WrittenFile
  <2>3. \A n \in Needed : \A i \in DOMAIN new :
           new[i].path = n[1] => Marker(n[2]) \in Range(new[i].contents)
    BY <1>6, <2>2 DEF MarkersInv, WriteFile
  <2>4. ASSUME NEW n \in Needed, n[1] \in DOMAIN files', n[1] \in DOMAIN files
        PROVE  Lines(n[1]) \subseteq Lines(n[1])'
    BY <2>2, <2>4 DEF Lines
  <2>5. ASSUME NEW n \in Needed, n[1] \in DOMAIN files', n[1] \notin DOMAIN files
        PROVE  Marker(n[2]) \in Lines(n[1])'
    <3>1. n[1] = f.path
      BY <2>2, <2>5
    <3>2. Marker(n[2]) \in Range(f.contents)
      BY <2>2, <2>3, <3>1
    <3> QED
      BY <2>2, <2>5, <3>1, <3>2 DEF Lines
  <2>6. \A n \in Needed : Found(n)'
    <3> HIDE DEF Found
    <3> QED
      BY <1>1, <2>4, <2>5
  <2>7. ASSUME NEW n \in Needed, NEW i \in DOMAIN Tail(new), Tail(new)[i].path = n[1]
        PROVE  Marker(n[2]) \in Range(Tail(new)[i].contents)
    <3>1. i + 1 \in DOMAIN new /\ Tail(new)[i] = new[i + 1]
      BY <2>2
    <3> QED
      BY <2>3, <2>7, <3>1
  <2>8. cmd'.plan.files = Tail(new)
    BY <2>2
  <2> QED
    BY <2>6, <2>7, <2>8 DEF MarkersInv
<1>7. CASE Insert /\ cmd'.name = "write"
  <2>1. PICK todo, x, s, i : /\ todo = cmd.plan.insertions /\ x = Head(todo)
                             /\ s = files[x.path]
                             /\ i = First(Positions(files[x.path], Marker(x.mark)))
    OBVIOUS
  <2>2. /\ x.path \in DOMAIN files /\ IsSequence(s) /\ i \in 1 .. Len(s)
        /\ files' = [files EXCEPT ![x.path] = InsertAt(s, i, x.line)]
        /\ cmd' = Writing(Plan(<<>>, Tail(todo)))
    BY <1>7, <2>1, InsertedLine
  <2>3. Range(s) \subseteq Range(InsertAt(s, i, x.line))
    BY <2>2, InsertAtSequence
  <2>4. \A path : Lines(path) \subseteq Lines(path)'
    BY <2>1, <2>2, <2>3 DEF Lines
  <2>5. DOMAIN files' = DOMAIN files
    BY <2>2
  <2>6. cmd'.plan.files = <<>> /\ DOMAIN <<>> = {}
    BY <2>2, SequenceOf DEF Writing, Plan
  <2> QED
    BY <1>1, <2>4, <2>5, <2>6 DEF MarkersInv
<1>8. CASE ChangesGenerated /\ cmd'.name \in {"sync", "none"}
  <2>1. \A n \in Needed : Found(n)'
    BY <1>0, <1>1, <1>8 DEF ChangesGenerated, Lines
  <2> QED
    BY <1>8, <2>1 DEF MarkersInv
<1>9. CASE EditsAMarker
  <2>1. PICK path \in DOMAIN files : \E mark : RemoveMarker(path, mark)
    BY <1>9 DEF EditsAMarker
  <2>2. PICK mark : RemoveMarker(path, mark)
    BY <2>1
  <2>3. PICK i \in Positions(files[path], Marker(mark)) : Edit(path, RemoveAt(files[path], i))
    BY <2>2 DEF RemoveMarker
  <2>4. /\ files' = [files EXCEPT ![path] = RemoveAt(files[path], i)] /\ cmd'.name = "none"
        /\ removed' = removed \cup {<<path, mark>>}
    BY <2>2, <2>3 DEF RemoveMarker, Edit, Ended
  <2>5. ASSUME NEW n \in Needed, n[1] \in DOMAIN files'
        PROVE  Marker(n[2]) \in Lines(n[1])' \/ n \in removed'
    <3>1. CASE n[1] # path \/ n \in removed
      BY <1>0, <2>4, <2>5, <3>1 DEF Lines
    <3>2. CASE n[1] = path /\ n \notin removed
      <4>1. IsSequence(files[path]) /\ Marker(n[2]) \in Range(files[path])
        BY <1>0, <2>1, <3>2 DEF RegistriesInv, IndexesInv, Lines
      <4>2. i \in 1 .. Len(files[path]) /\ files[path][i] = Marker(mark)
        BY <4>1, SequenceOf DEF Positions, IsSequence
      <4>3. CASE n[2] = mark
        <5>1. n = <<n[1], n[2]>>
          BY DEF Needed
        <5> QED
          BY <2>4, <3>2, <4>3, <5>1
      <4>4. CASE n[2] # mark
        <5>1. Marker(n[2]) # Marker(mark)
          BY <4>4 DEF Marker
        <5>2. Marker(n[2]) \in Range(RemoveAt(files[path], i))
          BY <4>1, <4>2, <5>1, PositionsAfterRemove
        <5> QED
          BY <2>1, <2>4, <3>2, <5>2 DEF Lines
      <4> QED
        BY <4>3, <4>4
    <3> QED
      BY <3>1, <3>2
  <2> QED
    BY <2>4, <2>5 DEF MarkersInv
<1> QED
  BY <1>2, <1>3, <1>4, <1>5, <1>6, <1>7, <1>8, <1>9, StepKinds

\* While no command was stopped, what a new application consists of is there,
\* or about to be.
LEMMA IndexesStep ==
    ASSUME CmdOK, AskInv, RegistriesInv, TablesInv, IndexesThere, [Next]_vars
    PROVE  IndexesThere'
<1> DEFINE There == DOMAIN files = {} /\ cmd.name # "write"
           ToWrite == IF cmd.name = "write" THEN Paths(cmd.plan.files) ELSE {}
<1> SUFFICES ASSUME stops' = 0
             PROVE  There' \/ Indexes \subseteq DOMAIN files' \cup ToWrite'
  BY DEF IndexesThere
<1>1. stops = 0 /\ ~ Stop
  <2>1. Stop => stops' = stops + 1
    BY DEF Stop
  <2> QED
    BY <2>1, StepCauses DEF TablesInv
<1>2. There \/ Indexes \subseteq DOMAIN files \cup ToWrite
  BY <1>1 DEF IndexesThere
<1>3. CASE UNCHANGED <<files, cmd>>
  BY <1>2, <1>3
<1>4. CASE Quiet
  <2>1. CASE cmd.name # "write"
    BY <1>2, <1>4, <2>1 DEF Quiet
  <2>2. CASE cmd.name = "write"
    <3>1. WriteFile => cmd'.name = "write"
      BY WrittenFile
    <3>2. Insert \/ Written
      BY <1>1, <1>4, <2>2, <3>1, StepCauses DEF Quiet
    <3>3. cmd.plan.files = <<>>
      BY <3>2 DEF Insert, Written
    <3>4. Paths(<<>>) = {}
      BY DEF Paths
    <3> QED
      BY <1>2, <1>4, <2>2, <3>3, <3>4 DEF Quiet
  <2> QED
    BY <2>1, <2>2
<1>5. CASE StartsNew
  <2>1. PICK stack : cmd' = Writing(NewApp(stack))
    BY <1>5 DEF StartsNew
  <2> QED
    BY <2>1, NewAppIsGood DEF Writing
<1>6. CASE StartsModel
  <2>1. Indexes \subseteq DOMAIN files'
    BY <1>2, <1>6 DEF StartsModel
  <2> QED
    BY <2>1
<1>7. CASE WriteFile
  <2>1. Indexes \subseteq DOMAIN files \cup Paths(cmd.plan.files)
    BY <1>2, <1>7 DEF WriteFile
  <2> QED
    BY <1>7, <2>1, WrittenFile
<1>8. CASE Insert /\ cmd'.name = "write"
  <2>1. PICK todo, x : todo = cmd.plan.insertions /\ x = Head(todo)
    OBVIOUS
  <2>2. DOMAIN files' = DOMAIN files /\ cmd.plan.files = <<>>
    BY <1>8, <2>1, InsertedLine
  <2>3. cmd.name = "write"
    BY <1>8 DEF Insert
  <2>4. Paths(<<>>) = {}
    BY DEF Paths
  <2> QED
    BY <1>2, <2>2, <2>3, <2>4
<1>9. CASE ChangesGenerated /\ cmd.name \in {"sync", "none"} /\ cmd'.name \in {"sync", "none"}
  BY <1>2, <1>9 DEF ChangesGenerated
<1>10. CASE EditsAMarker
  <2>1. DOMAIN files' = DOMAIN files /\ cmd.name = "none" /\ cmd'.name = "none"
    BY <1>10 DEF EditsAMarker, RemoveMarker, Edit, Idle, Ended
  <2> QED
    BY <1>2, <2>1
<1> QED
  BY <1>3, <1>4, <1>5, <1>6, <1>7, <1>8, <1>9, <1>10, StepKinds

\* A line that has nowhere to go.
LEMMA InsertFails ==
    ASSUME CmdOK, RegistriesInv, TablesInv, MarkersInv, IndexesThere, Insert, cmd'.name = "none"
    PROVE  \/ cmd'.outcome = "no marker" /\ removed # {}
           \/ cmd'.outcome = "unreadable" /\ stops > 0
<1>1. PICK todo, x : todo = cmd.plan.insertions /\ x = Head(todo)
  OBVIOUS
<1>2. cmd.name = "write" /\ cmd.plan.files = <<>> /\ todo # <<>>
  BY <1>1 DEF Insert
<1>3. Form(x) /\ cmd = Writing(Plan(<<>>, todo))
  <2>1. LinesOK(todo) /\ IsSequence(todo) /\ cmd = Writing(Plan(<<>>, todo))
    BY <1>1, <1>2, PlanOfWriting DEF RegistriesInv
  <2>2. 1 \in DOMAIN todo /\ x = todo[1]
    BY <1>1, <1>2, <2>1, TailSequence
  <2> QED
    BY <2>1, <2>2 DEF LinesOK
<1>4. <<x.path, x.mark>> \in Needed /\ x.path \in Indexes
  BY <1>3, FormOfLine DEF Form, ModuleInsertion, Insertion, Needed, Kinds
<1> DEFINE updated == IF x.path \in DOMAIN files
                      THEN Apply(files[x.path], x.mark, x.line) ELSE Missing
<1>5. /\ updated = Missing
      /\ cmd' = Ended(IF x.path \in DOMAIN files THEN "no marker" ELSE "unreadable")
  <2>1. cmd' # [cmd EXCEPT !.plan.insertions = Tail(todo)]
    BY <1>3, PlanShrinks DEF Writing
  <2> QED
    BY <1>1, <2>1 DEF Insert
<1>6. CASE x.path \in DOMAIN files
  <2>1. IsSequence(files[x.path])
    BY <1>4, <1>6 DEF RegistriesInv, IndexesInv
  <2>2. PICK s, found : s = files[x.path] /\ found = Positions(s, Marker(x.mark))
    OBVIOUS
  <2>3. found = {}
    <3> SUFFICES ASSUME found # {} PROVE FALSE
      OBVIOUS
    <3>1. First(found) \in 1 .. Len(s) /\ Len(s) \in Nat
      BY <2>1, <2>2, FirstPosition, SequenceOf DEF IsSequence
    <3>2. Len(InsertAt(s, First(found), x.line)) = Len(s) + 1
      BY <2>1, <2>2, <3>1, InsertAtSequence
    <3>3. InsertAt(s, First(found), x.line) = Missing
      BY <1>5, <1>6, <2>2 DEF Apply
    <3>4. Len(Missing) = 1
      BY DEF Missing
    <3>5. Len(s) + 1 = 1
      BY <3>2, <3>3, <3>4
    <3> QED
      BY <3>1, <3>5
  <2>4. Marker(x.mark) \notin Lines(x.path)
    BY <1>6, <2>2, <2>3 DEF Positions, Lines, Range
  <2>5. <<x.path, x.mark>> \in removed
    BY <1>4, <1>6, <2>4 DEF MarkersInv
  <2> QED
    BY <1>5, <1>6, <2>5 DEF Ended
<1>7. CASE x.path \notin DOMAIN files
  <2>1. Paths(<<>>) = {}
    BY DEF Paths
  <2>2. stops # 0
    BY <1>2, <1>4, <1>7, <2>1 DEF IndexesThere
  <2> QED
    BY <1>5, <1>7, <2>2 DEF Ended, TablesInv
<1> QED
  BY <1>6, <1>7

\* A table to be dropped that is not there.
LEMMA DownFails ==
    ASSUME CmdOK, TablesInv, OrderInv, Down, cmd'.name = "none"
    PROVE  stops > 0 /\ cmd'.outcome = "failed"
<1>1. /\ cmd.name = "down" /\ cmd.todo # <<>> /\ cmd.changed = FALSE
      /\ Head(cmd.todo) \notin DOMAIN tables /\ cmd' = Ended("failed")
  BY DEF Down, CmdOK
<1>2. PICK k \in 0 .. Len(Declared) : OrderAt(k)
  BY DEF OrderInv
<1>3. PICK todo, d : todo = cmd.todo /\ d = Declared
  OBVIOUS
<1>4. /\ applied = {d[i] : i \in 1 .. k} /\ IsSequence(todo) /\ Len(todo) <= k
      /\ \A i \in 1 .. Len(todo) : todo[i] = d[(k - i) + 1]
  BY <1>1, <1>2, <1>3 DEF OrderAt
<1>5. Len(todo) \in Nat \ {0} /\ Head(todo) = todo[1] /\ Len(d) \in Nat /\ k \in 0 .. Len(d)
  BY <1>1, <1>2, <1>3, <1>4, TailSequence, SequenceOf DEF OrderInv, IsSequence
<1>6. Head(todo) = d[k] /\ k \in 1 .. k
  <2>1. 1 \in 1 .. Len(todo) /\ (k - 1) + 1 = k /\ k \in 1 .. k
    BY <1>4, <1>5
  <2> QED
    BY <1>4, <1>5, <2>1
<1>7. Recorded = applied
  BY <1>1 DEF Recorded
<1>8. Head(cmd.todo) \in applied
  BY <1>3, <1>4, <1>6
<1>9. stops # 0
  BY <1>1, <1>7, <1>8, NoDrift
<1>10. stops > 0
  BY <1>9 DEF TablesInv
<1> QED
  BY <1>1, <1>10 DEF Ended

LEMMA OutcomeStep ==
    ASSUME CmdOK, AskInv, RegistriesInv, TablesInv, OrderInv, MarkersInv, IndexesThere,
           OutcomeInv, [Next]_vars
    PROVE  OutcomeInv'
<1> SUFFICES ASSUME cmd'.name = "none"
             PROVE  /\ cmd'.outcome = "no marker" => removed' # {}
                    /\ cmd'.outcome \in {"unreadable", "failed"} => stops' > 0
  BY DEF OutcomeInv
<1>1. /\ removed \subseteq removed' /\ (stops > 0 => stops' > 0)
      /\ UNCHANGED cmd \/ EndsWell \/ Insert \/ Down
  <2>1. Stop => stops' = stops + 1
    BY DEF Stop
  <2> QED
    BY <2>1, StepCauses DEF TablesInv
<1>2. CASE UNCHANGED cmd
  BY <1>1, <1>2 DEF OutcomeInv
<1>3. CASE EndsWell
  BY <1>3 DEF EndsWell, Failed
<1>4. CASE Insert
  BY <1>1, <1>4, InsertFails
<1>5. CASE Down
  BY <1>1, <1>5, DownFails
<1> QED
  BY <1>1, <1>2, <1>3, <1>4, <1>5

\* A command fails only for a cause it can name: a marker the developer took
\* out, or a command that was stopped half way and left a file or a table
\* short.  (insertion.rs apply, generate.rs write, migration.rs rollback.)
THEOREM FailuresAreExplained == Spec => []FailuresHaveACause
<1> DEFINE Inv == TablesInv /\ MarkersInv /\ IndexesThere /\ OutcomeInv
<1>1. Init => Inv
  <2> SUFFICES ASSUME Init PROVE Inv
    OBVIOUS
  <2>1. /\ DOMAIN files = {} /\ DOMAIN tables = {} /\ applied = {}
        /\ cmd.name = "none" /\ cmd.outcome = "none" /\ stops = 0
    BY DEF Init, Ended
  <2>2. ~ torn /\ Drift = {}
    BY <2>1 DEF Init, Ended, Recorded, Drift, SymDiff
  <2>3. TablesInv
    BY <2>1, <2>2, FS_EmptySet DEF TablesInv
  <2> QED
    BY <2>1, <2>3 DEF MarkersInv, IndexesThere, OutcomeInv
<1>2. (CmdOK /\ AskInv /\ RegistriesInv) /\ (BoxesInv /\ OrderInv) /\ Inv /\ [Next]_vars => Inv'
  BY InvStep, MarkersStep, IndexesStep, OutcomeStep
<1>3. Inv => FailuresHaveACause
  BY DEF OutcomeInv, FailuresHaveACause, Idle
<1> HIDE DEF Inv
<1> QED
  BY <1>1, <1>2, <1>3, RegistriesInvariant, OrderInvariant, PTL DEF Spec
=============================================================================
