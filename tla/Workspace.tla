----------------------------- MODULE Workspace -----------------------------
(***************************************************************************)
(* A developer's directory: the luxid binary that writes into it, the      *)
(* application's own commands (migrate, rollback, fresh, db:sync) and its  *)
(* database.  A command runs write by write and may stop between any two   *)
(* of them (killed, disk full); the developer edits while none runs.       *)
(***************************************************************************)
EXTENDS Scaffold, Selection, FiniteSets

CONSTANTS Words,         \* the model names the developer uses
          FlagSets,      \* the combinations of make:model flags
          Options,       \* the command lines of luxid new
          ColumnSets,    \* the columns a migration may be filled in with
          Notes,         \* the attributes a developer puts on a field
          Removable,     \* the markers a developer may take out
          MaxDisturbances   \* edits and stopped commands, together

ASSUME WordsAssumption == /\ IsFiniteSet(Words)
                          /\ \A v, w \in Words : Pluralize(v) = Pluralize(w) => v = w
ASSUME BoundsAssumption == MaxDisturbances \in Nat

\* A command line names a stack and a client, or something else, or neither.
CommandLines == [stack : {"none", "api", "inertia", "other"},
                 client : Clients \cup {"none", "other"},
                 yes : BOOLEAN, interactive : BOOLEAN]
ASSUME OptionsAssumption == Options \subseteq CommandLines

VARIABLES files,     \* path -> the lines of the file
          tables,    \* table -> its columns
          applied,   \* the migrations seaql_migrations records
          cmd,       \* the command that runs, or how the last one ended
          removed,   \* the markers the developer took out
          edits,     \* the edits made so far
          stops,     \* the commands that were killed so far
          torn       \* whether a command ever stopped with writes left

database == <<tables, applied>>
developer == <<removed, edits>>
faults == <<stops, torn>>
vars == <<files, database, cmd, developer, faults>>

Ended(outcome) == [name |-> "none", outcome |-> outcome]
Idle == cmd.name = "none"
Writing(plan) == [name |-> "write", plan |-> plan]

Init == /\ files = <<>> /\ tables = <<>> /\ applied = {}
        /\ cmd = Ended("none")
        /\ removed = {} /\ edits = 0 /\ stops = 0 /\ torn = FALSE

(***************************************************************************)
(* luxid new: the flags decide, then the questions, then the files.        *)
(***************************************************************************)

MayAsk(o) == o.interactive /\ ~ o.yes

ResolveKind(o) == CASE o.stack \in {"api", "inertia"} -> o.stack
                    [] o.stack = "other" -> "refused"
                    [] o.stack = "none" -> IF MayAsk(o) THEN "ask" ELSE "api"

ResolveClient(o) == CASE o.client \in Clients -> o.client
                      [] o.client = "other" -> "refused"
                      [] o.client = "none" -> IF MayAsk(o) THEN "ask" ELSE "react"

Asking(o, choices) == [name |-> "ask", options |-> o, choices |-> choices, stdin |-> "open"]

WithClient(o, client) ==
    CASE client = "refused" -> Ended("refused")
      [] client = "ask" -> Asking(o, <<"react", "vue", "svelte">>)
      [] OTHER -> Writing(NewApp(client))

WithKind(o, kind) ==
    CASE kind = "refused" -> Ended("refused")
      [] kind = "ask" -> Asking(o, <<"api", "inertia">>)
      [] kind = "inertia" -> WithClient(o, ResolveClient(o))
      [] kind = "api" -> IF o.client = "none" THEN Writing(NewApp("api"))
                                              ELSE Ended("refused")

New(o) ==
    /\ Idle /\ files = <<>>
    /\ cmd' = WithKind(o, ResolveKind(o))
    /\ UNCHANGED <<files, database, developer, faults>>

NewAgain ==
    /\ Idle /\ files # <<>>
    /\ cmd' = Ended("refused")
    /\ UNCHANGED <<files, database, developer, faults>>

\* Mutant: a closed input is asked again.
ChosenAgain(answer, choices, stdin) ==
    IF stdin = "closed" THEN "again"
    ELSE IF answer = "enter" THEN Head(choices)
    ELSE IF answer \in Range(choices) THEN answer ELSE "again"

\* Enter and a closed input take the first choice; anything that is not an
\* option asks again.
Chosen(answer, choices, stdin) ==
    IF stdin = "closed" \/ answer = "enter" THEN Head(choices)
    ELSE IF answer \in Range(choices) THEN answer
    ELSE "again"

Answer(answer) ==
    LET chosen == Chosen(answer, cmd.choices, cmd.stdin) IN
    /\ cmd.name = "ask"
    /\ cmd' = IF chosen = "again" THEN cmd
              ELSE IF chosen \in Clients THEN WithClient(cmd.options, chosen)
              ELSE WithKind(cmd.options, chosen)
    /\ UNCHANGED <<files, database, developer, faults>>

HangUp ==
    /\ cmd.name = "ask" /\ cmd.stdin = "open"
    /\ cmd' = [cmd EXCEPT !.stdin = "closed"]
    /\ UNCHANGED <<files, database, developer, faults>>

(***************************************************************************)
(* luxid make:model, and the writes of a plan.                             *)
(***************************************************************************)

ProjectRoot == {<<"Cargo.toml">>, <<"main">>} \subseteq DOMAIN files

\* Mutant: only the last file is looked for.
ClashOfLast(plan) == {Last(plan.files).path} \cap DOMAIN files

Clashes(plan) == {f.path : f \in Range(plan.files)} \cap DOMAIN files

MakeModelCommand(word, flags) ==
    LET plan == MakeModel(word, flags) IN
    /\ Idle /\ files # <<>>
    /\ cmd' = CASE ~ ProjectRoot -> Ended("refused")
                [] ProjectRoot /\ Clashes(plan) # {} -> Ended("declined")
                [] OTHER -> Writing(plan)
    /\ UNCHANGED <<files, database, developer, faults>>

WriteFile ==
    /\ cmd.name = "write" /\ cmd.plan.files # <<>>
    /\ LET new == Head(cmd.plan.files) IN
       files' = [path \in DOMAIN files \cup {new.path} |->
                    IF path = new.path THEN new.contents ELSE files[path]]
    /\ cmd' = [cmd EXCEPT !.plan.files = Tail(@)]
    /\ UNCHANGED <<database, developer, faults>>

\* A plan whose line has nowhere to go stops here, its files on disk.
Insert ==
    LET into == Head(cmd.plan.insertions)
        updated == IF into.path \in DOMAIN files
                   THEN Apply(files[into.path], into.mark, into.line) ELSE Missing
    IN
    /\ cmd.name = "write" /\ cmd.plan.files = <<>> /\ cmd.plan.insertions # <<>>
    /\ \/ /\ updated # Missing
          /\ files' = [files EXCEPT ![into.path] = updated]
          /\ cmd' = [cmd EXCEPT !.plan.insertions = Tail(@)]
          /\ UNCHANGED torn
       \/ /\ updated = Missing
          /\ cmd' = Ended(IF into.path \in DOMAIN files THEN "no marker" ELSE "unreadable")
          /\ torn' = TRUE
          /\ UNCHANGED files
    /\ UNCHANGED <<database, developer, stops>>

Written ==
    /\ cmd.name = "write" /\ cmd.plan.files = <<>> /\ cmd.plan.insertions = <<>>
    /\ cmd' = Ended("done")
    /\ UNCHANGED <<files, database, developer, faults>>

(***************************************************************************)
(* The application's own commands need the application to build: cargo     *)
(* resolves every registered module, every name the generated code refers  *)
(* to, and every field a factory sets.                                     *)
(***************************************************************************)

Lines(path) == IF path \in DOMAIN files THEN Range(files[path]) ELSE {}
Registered(kind, name) == Module(name) \in Lines(<<kind>>)

References(word) ==
    LET plural == Pluralize(word) IN
    {<<"models", word, "entities", plural>>,
     <<"policies", word, "models", word>>,
     <<"factories", word, "entities", plural>>,
     <<"seeders", word, "factories", word>>,
     <<"controllers", plural, "models", word>>,
     <<"controllers", plural, "validators", word>>,
     <<"controllers", plural, "policies", word>>}

FieldNames(path) == {line[2] : line \in {l \in Lines(path) : l[1] \in {"field", "set"}}}

FactoryFits(word) ==
    Registered("factories", word) =>
        FieldNames(<<"factories", word>>) \subseteq FieldNames(<<"entities", Pluralize(word)>>)

RegistriesHold ==
    /\ \A kind \in Range(ModuleDirs) \cup {"controllers", "migration"} :
          \A line \in Lines(<<kind>>) :
              line[1] = "mod" => /\ <<kind, line[2]>> \in DOMAIN files
                                 /\ Cardinality(Positions(files[<<kind>>], line)) = 1
    /\ \A line \in Lines(<<"migration">>) : line[1] = "box" => Registered("migration", line[2])
    /\ \A line \in Lines(<<"routes">>) : line[1] = "resource" => Registered("controllers", line[2])

Builds ==
    /\ <<"README.md">> \in DOMAIN files
    /\ RegistriesHold
    /\ \A word \in Words : \A r \in References(word) :
          Registered(r[1], r[2]) => Registered(r[3], r[4])
    /\ \A word \in Words : FactoryFits(word)

(***************************************************************************)
(* Migrations, in the order the migrator lists them.                       *)
(***************************************************************************)

Boxes == {Boxed(Pluralize(word)) : word \in Words}

Declared == IF <<"migration">> \in DOMAIN files
            THEN LET boxed == Among(files[<<"migration">>], Boxes)
                 IN  [i \in DOMAIN boxed |-> boxed[i][2]]
            ELSE <<>>

Pending == Among(Declared, Range(Declared) \ applied)
Applied == Among(Declared, applied)

MigrationStatus == [i \in DOMAIN Applied |-> <<Applied[i], "applied">>]
                   \o [i \in DOMAIN Pending |-> <<Pending[i], "pending">>]

Migrating(name, todo) == [name |-> name, todo |-> todo, changed |-> FALSE]

FirstFew(seq, steps) == SubSeq(seq, 1, IF steps < Len(seq) THEN steps ELSE Len(seq))

Migrate(steps) ==
    /\ cmd' = Migrating("up", FirstFew(Pending, steps))
    /\ UNCHANGED <<files, database, developer, faults>>

MigrateRollback(steps) ==
    /\ cmd' = Migrating("down", FirstFew(Reverse(Applied), steps))
    /\ UNCHANGED <<files, database, developer, faults>>

MigrateFresh(force) ==
    /\ cmd' = IF force THEN Migrating("fresh", <<>>) ELSE Ended("refused")
    /\ UNCHANGED <<files, database, developer, faults>>

\* Mutant: the table takes the model's name.
CreateModelTable(name) == (Singular(name) :> <<Column("id", "integer", FALSE)>>) @@ tables

\* create_table .if_not_exists(): a table left by a killed migrate stays.
CreateTable(name) ==
    LET filled == SelectSeq(files[<<"migration", name>>], LAMBDA l : l[1] = "column") IN
    [t \in DOMAIN tables \cup {name} |->
        IF t \in DOMAIN tables THEN tables[t]
        ELSE <<Column("id", "integer", FALSE)>> \o filled]

Up ==
    /\ cmd.name = "up" /\ cmd.todo # <<>> /\ ~ cmd.changed
    /\ tables' = CreateTable(Head(cmd.todo))
    /\ cmd' = [cmd EXCEPT !.changed = TRUE]
    /\ UNCHANGED <<files, applied, developer, faults>>

\* drop_table has no if_exists: a second attempt at it fails.
Down ==
    /\ cmd.name = "down" /\ cmd.todo # <<>> /\ ~ cmd.changed
    /\ tables' = [t \in DOMAIN tables \ {Head(cmd.todo)} |-> tables[t]]
    /\ cmd' = IF Head(cmd.todo) \in DOMAIN tables
              THEN [cmd EXCEPT !.changed = TRUE] ELSE Ended("failed")
    /\ UNCHANGED <<files, applied, developer, faults>>

Record ==
    /\ cmd.name \in {"up", "down"} /\ cmd.todo # <<>> /\ cmd.changed
    /\ applied' = IF cmd.name = "up" THEN applied \cup {Head(cmd.todo)}
                                     ELSE applied \ {Head(cmd.todo)}
    /\ cmd' = Migrating(cmd.name, Tail(cmd.todo))
    /\ UNCHANGED <<files, tables, developer, faults>>

\* Mutant: the tables are dropped, the records of migrations kept.
FreshKeepsRecords ==
    /\ cmd.name = "fresh"
    /\ tables' = <<>>
    /\ cmd' = Migrating("up", Pending)
    /\ UNCHANGED <<files, applied, developer, faults>>

Fresh ==
    /\ cmd.name = "fresh"
    /\ tables' = <<>> /\ applied' = {}
    /\ cmd' = Migrating("up", Declared)
    /\ UNCHANGED <<files, developer, faults>>

Migrated ==
    /\ cmd.name \in {"up", "down"} /\ cmd.todo = <<>>
    /\ cmd' = Ended("done")
    /\ UNCHANGED <<files, database, developer, faults>>

(***************************************************************************)
(* db:sync: for each table its entity, then the factory its name leads to. *)
(***************************************************************************)

\* The words the database's spelling of a type contains decide.
Keywords(sql) == CASE sql = "integer" -> {"int"}
                   [] sql = "boolean" -> {"bool"}
                   [] sql = "point" -> {"int", "point"}
                   [] sql = "jsonb" -> {"json"}
                   [] sql = "real" -> {"real"}
                   [] sql = "text" -> {}

RustType(sql) == IF "smallint" \in Keywords(sql) THEN "i16"
                 ELSE IF "int" \in Keywords(sql) /\ "point" \notin Keywords(sql) THEN "i64"
                 ELSE IF "bool" \in Keywords(sql) THEN "bool"
                 ELSE IF Keywords(sql) \cap {"real", "double", "float"} # {} THEN "f64"
                 ELSE IF "json" \in Keywords(sql) THEN "json"
                 ELSE "String"

IsKey(column) == column[2] = "id"

\* Columns a factory must supply: neither nullable nor the key.
Required(columns) == SelectSeq(columns, LAMBDA c : ~ c[4] /\ ~ IsKey(c))

\* Mutant: the fields are written anew.
EntityBodyBare(columns, carried) ==
    FlattenSeq([i \in DOMAIN columns |->
        (IF IsKey(columns[i]) THEN <<Attribute(PrimaryKey)>> ELSE <<>>)
        \o <<Field(columns[i][2], RustType(columns[i][3]), columns[i][4])>>])

EntityBody(columns, carried) ==
    LET kept(c) == IF c[2] \in DOMAIN carried THEN carried[c[2]] ELSE <<>>
        key(c) == IF IsKey(c) THEN <<Attribute(PrimaryKey)>> ELSE <<>>
    IN  FlattenSeq([i \in DOMAIN columns |->
            LET c == columns[i] IN
            key(c) \o kept(c) \o <<Field(c[2], RustType(c[3]), c[4])>>])

FactoryBody(columns) ==
    LET required == Required(columns) IN
    [i \in DOMAIN required |-> Sample(required[i][2], RustType(required[i][3]))]

\* Mutant: the factory is looked for under the table's name.
SyncPathPlural(kind, table) == <<kind, table>>

SyncPath(kind, table) ==
    IF kind = "entities" THEN <<kind, table>> ELSE <<kind, Singular(table)>>

Synced(kind, table) ==
    LET source == files[SyncPath(kind, table)] IN
    RefreshFields(source,
        IF kind = "entities" THEN EntityBody(tables[table], FieldAttributes(source))
                             ELSE FactoryBody(tables[table]))

DbSync(dry) ==
    /\ LET names == SetToSeq(DOMAIN tables) IN
       cmd' = [name |-> "sync", dry |-> dry,
               todo |-> FlattenSeq([i \in DOMAIN names |->
                           <<<<"entities", names[i]>>, <<"factories", names[i]>>>>])]
    /\ UNCHANGED <<files, database, developer, faults>>

\* A file that is missing, has no markers or would not change is passed over.
SyncFile ==
    /\ cmd.name = "sync" /\ cmd.todo # <<>>
    /\ LET kind == Head(cmd.todo)[1]
           table == Head(cmd.todo)[2]
           path == SyncPath(kind, table)
           skip == path \notin DOMAIN files \/ cmd.dry \/ Synced(kind, table) = Missing
       IN  files' = IF skip THEN files ELSE [files EXCEPT ![path] = Synced(kind, table)]
    /\ cmd' = [cmd EXCEPT !.todo = Tail(@)]
    /\ UNCHANGED <<database, developer, faults>>

SyncDone ==
    /\ cmd.name = "sync" /\ cmd.todo = <<>>
    /\ cmd' = Ended(IF cmd.dry THEN "done" ELSE "synced")
    /\ UNCHANGED <<files, database, developer, faults>>

(***************************************************************************)
(* The developer's edits between two commands, and the ways to stop one.   *)
(***************************************************************************)

Edit(path, lines) ==
    /\ Idle /\ path \in DOMAIN files /\ edits + stops < MaxDisturbances
    /\ files' = [files EXCEPT ![path] = lines]
    /\ edits' = edits + 1
    /\ cmd' = Ended("edited")
    /\ UNCHANGED <<database, faults>>

FillMigration(name, columns) ==
    /\ name \notin applied
    /\ Edit(<<"migration", name>>, <<Code>> \o columns)
    /\ UNCHANGED removed

\* An attribute goes right above its field, or a comment between the two.
Annotate(table, line) ==
    LET path == <<"entities", table>> IN
    /\ path \in DOMAIN files
    /\ \E i \in DOMAIN files[path] :
          files[path][i][1] = "field" /\ Edit(path, InsertAt(files[path], i, line))
    /\ UNCHANGED removed

RemoveMarker(path, mark) ==
    /\ path \in DOMAIN files
    /\ \E i \in Positions(files[path], Marker(mark)) : Edit(path, RemoveAt(files[path], i))
    /\ removed' = removed \cup {<<path, mark>>}

Stop ==
    /\ cmd.name \notin {"none", "ask"} /\ edits + stops < MaxDisturbances
    /\ cmd' = Ended("stopped")
    /\ stops' = stops + 1 /\ torn' = TRUE
    /\ UNCHANGED <<files, database, developer>>

Generate == \/ \E o \in Options : New(o)
            \/ NewAgain
            \/ \E word \in Words, flags \in FlagSets : MakeModelCommand(word, flags)

RunCommand ==
    /\ Idle /\ Builds
    /\ \/ \E steps \in {1, Cardinality(Words)} : Migrate(steps) \/ MigrateRollback(steps)
       \/ \E force \in BOOLEAN : MigrateFresh(force)
       \/ \E dry \in BOOLEAN : DbSync(dry)

Work == WriteFile \/ Insert \/ Written \/ Up \/ Down \/ Record \/ Fresh \/ Migrated
        \/ SyncFile \/ SyncDone

Reply == \E answer \in {"api", "inertia", "enter", "other"} \cup Clients : Answer(answer)

Edited == \/ \E word \in Words, columns \in ColumnSets :
                FillMigration(Pluralize(word), columns)
          \/ \E word \in Words, line \in {Attribute(a) : a \in Notes} \cup {<<"comment">>} :
                Annotate(Pluralize(word), line)
          \/ \E mark \in Removable :
                \E path \in DOMAIN files : RemoveMarker(path, mark)

Next == Generate \/ Reply \/ HangUp \/ RunCommand \/ Work \/ Edited \/ Stop

\* A running command goes on, and a question is answered in the end or its
\* input closes: an answer that is not an option changes nothing.
Spec == Init /\ [][Next]_vars /\ WF_cmd(Work \/ Reply)
=============================================================================
