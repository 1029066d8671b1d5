------------------------------ MODULE Scaffold ------------------------------
(***************************************************************************)
(* What the generators write: the plan of a new application, the plan of a *)
(* model, and the two edits made to files that exist already (a line above *)
(* a marker, the lines between the field markers).                         *)
(*                                                                         *)
(* A path is a tuple: <<kind>> for the file that registers a kind           *)
(* (src/<kind>/mod.rs, migration/src/lib.rs, src/routes.rs, ...) and        *)
(* <<kind, name>> for a generated one.  A file is the sequence of its lines *)
(* that the generators read or write back; everything else is Code.        *)
(***************************************************************************)
EXTENDS Naming

Code == <<"code">>
Marker(mark) == <<"marker", mark>>
Module(name) == <<"mod", name>>
Boxed(name) == <<"box", name>>
Resource(name) == <<"resource", name>>
Open == Marker("fields")
Close == Marker("/fields")
Attribute(a) == <<"attr", a>>
Field(name, type, optional) == <<"field", name, type, optional>>
Sample(name, type) == <<"set", name, type>>
Column(name, sql, nullable) == <<"column", name, sql, nullable>>
PrimaryKey == "sea_orm(primary_key)"

NewFile(path, contents) == [path |-> path, contents |-> contents]
Insertion(path, mark, line) == [path |-> path, mark |-> mark, line |-> line]
Plan(new, insertions) == [files |-> new, insertions |-> insertions]

\* A plan is filled part by part.
p ++ q == Plan(p.files \o q.files, p.insertions \o q.insertions)

Clients == {"react", "vue", "svelte"}

(***************************************************************************)
(* luxid new: the files of the application in the order they are written,  *)
(* without those no command reads again (pages, bundler, configuration).   *)
(***************************************************************************)

ApiShell == <<NewFile(<<"app">>, <<Code>>),
              NewFile(<<"routes">>, <<Code, Marker("routes"), Code>>),
              NewFile(<<"controllers">>, <<Code, Marker("modules")>>)>>

\* Mutant: the routes of a page application offer no place to register.
InertiaShellUnmarked == <<NewFile(<<"app">>, <<Code>>), NewFile(<<"routes">>, <<Code>>),
                          NewFile(<<"controllers">>, <<Code, Marker("modules")>>)>>

\* The page group comes before the api group that holds the marker.
InertiaShell == <<NewFile(<<"app">>, <<Code>>),
                  NewFile(<<"routes">>, <<Code, Marker("routes"), Code>>),
                  NewFile(<<"controllers">>, <<Code, Marker("modules")>>)>>

ModuleDirs == <<"models", "entities", "validators", "services", "middleware",
                "policies", "factories", "seeders">>

Manifests == <<NewFile(<<"Cargo.toml">>, <<Code>>),
               NewFile(<<"migration">>, <<Marker("migration-modules"), Code,
                                          Marker("migrations"), Code>>),
               NewFile(<<"main">>, <<Code>>)>>

Registries == [i \in DOMAIN ModuleDirs |-> NewFile(<<ModuleDirs[i]>>, <<Marker("modules")>>)]

NewApp(stack) ==
    Plan(Manifests \o (IF stack = "api" THEN ApiShell ELSE InertiaShell) \o Registries
         \o <<NewFile(<<"README.md">>, <<Code>>)>>,
         <<>>)

(***************************************************************************)
(* luxid make:model: the model and its entity always, the rest by flag.    *)
(***************************************************************************)

Flags == {"migration", "requests", "policy", "factory", "seeder", "controller"}

Generated(kind, name, contents) ==
    Plan(<<NewFile(<<kind, name>>, contents)>>,
         <<Insertion(<<kind>>, "modules", Module(name))>>)

ModelPlan(word) == Generated("models", word, <<Code>>)

EntityPlan(word) ==
    Generated("entities", Pluralize(word),
              <<Code, Open, Attribute(PrimaryKey), Field("id", "i64", FALSE), Close, Code>>)

\* The key is written in; the other columns are the user's to add.
MigrationPlan(word) ==
    LET name == Pluralize(word) IN
    Plan(<<NewFile(<<"migration", name>>, <<Code>>)>>,
         <<Insertion(<<"migration">>, "migration-modules", Module(name)),
           Insertion(<<"migration">>, "migrations", Boxed(name))>>)

RequestsPlan(word) == Generated("validators", word, <<Code>>)
\* Mutant: the policy is written and not registered.
PolicyPlanUnregistered(word) == Plan(<<NewFile(<<"policies", word>>, <<Code>>)>>, <<>>)
PolicyPlan(word) == Generated("policies", word, <<Code>>)
FactoryPlan(word) == Generated("factories", word, <<Code, Open, Close, Code>>)
SeederPlan(word) == Generated("seeders", word, <<Code>>)

\* Mutant: the route before the module it names.
ControllerPlanRouteFirst(word) ==
    LET name == Pluralize(word) IN
    Plan(<<NewFile(<<"controllers", name>>, <<Code>>)>>,
         <<Insertion(<<"routes">>, "routes", Resource(name)),
           Insertion(<<"controllers">>, "modules", Module(name))>>)

ControllerPlan(word) ==
    LET name == Pluralize(word) IN
    Plan(<<NewFile(<<"controllers", name>>, <<Code>>)>>,
         <<Insertion(<<"controllers">>, "modules", Module(name)),
           Insertion(<<"routes">>, "routes", Resource(name))>>)

MakeModel(word, flags) ==
    LET asked(flag, plan) == IF flag \in flags THEN plan ELSE Plan(<<>>, <<>>)
    IN  ModelPlan(word) ++ EntityPlan(word)
        ++ asked("migration", MigrationPlan(word))
        ++ asked("requests", RequestsPlan(word))
        ++ asked("policy", PolicyPlan(word))
        ++ asked("factory", FactoryPlan(word))
        ++ asked("seeder", SeederPlan(word))
        ++ asked("controller", ControllerPlan(word))

(***************************************************************************)
(* The edits.  Missing stands for None.                                    *)
(***************************************************************************)

Missing == <<"missing">>

Positions(source, line) == {i \in DOMAIN source : source[i] = line}
First(positions) == CHOOSE i \in positions : \A j \in positions : i <= j

\* Mutant: the line goes below the marker.
ApplyBelow(source, mark, line) ==
    LET found == Positions(source, Marker(mark)) IN
    IF found = {} THEN Missing ELSE InsertAt(source, First(found) + 1, line)

\* The line goes above the first marker.
Apply(source, mark, line) ==
    LET found == Positions(source, Marker(mark)) IN
    IF found = {} THEN Missing ELSE InsertAt(source, First(found), line)

\* The first opening marker and the first closing one after it.
HasFields(source) ==
    /\ Positions(source, Open) # {}
    /\ \E i \in Positions(source, Close) : i > First(Positions(source, Open))

FieldsFrom(source) == First(Positions(source, Open))
FieldsTo(source) == First({i \in Positions(source, Close) : i > FieldsFrom(source)})

RefreshFields(source, body) ==
    IF ~ HasFields(source) THEN Missing
    ELSE SubSeq(source, 1, FieldsFrom(source)) \o body
         \o SubSeq(source, FieldsTo(source), Len(source))

\* One line of the region read by field_attributes: attributes collect, a
\* field takes them, any other line drops them.
CarryLine(carry, line) ==
    IF line[1] = "attr"
    THEN IF line = Attribute(PrimaryKey) THEN carry
         ELSE [carry EXCEPT !.pending = Append(@, line)]
    ELSE IF line[1] = "field" /\ carry.pending # <<>>
    THEN [found |-> (line[2] :> carry.pending) @@ carry.found, pending |-> <<>>]
    ELSE [carry EXCEPT !.pending = <<>>]

FieldAttributes(source) ==
    IF ~ HasFields(source) THEN <<>>
    ELSE FoldLeft(CarryLine, [found |-> <<>>, pending |-> <<>>],
                  SubSeq(source, FieldsFrom(source), FieldsTo(source) - 1)).found
=============================================================================
