------------------------ MODULE WorkspaceProperties ------------------------
(***************************************************************************)
(* What the generators, the migrations and db:sync promise to a developer. *)
(***************************************************************************)
EXTENDS Workspace

\* Every variable has its type; a line is a tuple that starts with its kind.
TypeOK ==
    /\ \A path \in DOMAIN files : \A i \in DOMAIN files[path] : files[path][i][1] \in STRING
    /\ applied \subseteq {Pluralize(w) : w \in Words}
    /\ DOMAIN tables \subseteq {Pluralize(w) : w \in Words}
    /\ cmd.name \in {"none", "ask", "write", "up", "down", "fresh", "sync"}
    /\ edits \in Nat /\ stops \in Nat /\ edits + stops <= MaxDisturbances /\ torn \in BOOLEAN

\* A registry names nothing that is not there yet, at no write of a generator
\* and wherever it is stopped: files come before the lines that register
\* them, a migration's module before its box, a controller's before its route
\* (write and the order of make_model's insertions).
RegistriesAlwaysHold == RegistriesHold

\* The artefacts the developer did ask for: -c alone generates a controller
\* that refers to requests and a policy only -a generates, -s without -f a
\* seeder that refers to a factory, and an entity without its field markers is
\* never refreshed although its factory is.
Complete ==
    \A word \in Words :
        /\ Registered("controllers", Pluralize(word)) =>
              {<<"validators", word>>, <<"policies", word>>} \subseteq DOMAIN files
        /\ Registered("seeders", word) => <<"factories", word>> \in DOMAIN files
        /\ Registered("factories", word) => HasFields(files[<<"entities", Pluralize(word)>>])

\* However commands and edits follow one another, the application builds when
\* no command was cut short and its artefacts are complete: what one generator
\* writes, another refers to, and db:sync keeps the two in step.
ApplicationBuilds ==
    Idle /\ ~ torn /\ <<"README.md">> \in DOMAIN files /\ Complete => Builds

\* A command fails only for a cause it can name: a marker is missing because
\* the developer removed it (every stack of luxid new has each marker
\* make:model needs), a file or a table is missing because a command was
\* stopped half way.
FailuresHaveACause ==
    /\ Idle /\ cmd.outcome = "no marker" => removed # {}
    /\ Idle /\ cmd.outcome \in {"unreadable", "failed"} => stops > 0

\* migrate:status lists the migrations in declaration order although it
\* appends the pending ones to the applied ones: lines go in above the marker,
\* so a new migration is never declared before one that was applied.
StatusInDeclarationOrder ==
    MigrationStatus = [i \in DOMAIN Declared |->
        <<Declared[i], IF Declared[i] \in applied THEN "applied" ELSE "pending">>]

\* Between commands the tables are those of the applied migrations, whatever
\* migrate, rollback and fresh came before, but for at most one migration per
\* command that was killed: the one whose table it had changed and not
\* recorded.  A later command repairs it or leaves it, and adds none.
TablesFollowMigrations == Idle => Cardinality(SymDiff(DOMAIN tables, applied)) <= stops

\* A word the two rules bring back to itself: user, category, branch.  Box,
\* status, cache and movie are not regular.
Regular(word) == Singular(Pluralize(word)) = word

\* After db:sync an entity declares its table's columns, with their types and
\* optionality, and the factory of a regular word sets the required ones.
SyncedFilesAgree ==
    \A word \in Words :
        LET table == Pluralize(word)
            entity == <<"entities", table>>
            factory == <<"factories", word>>
            required == {c \in Range(tables[table]) : c[2] # "id" /\ ~ c[4]}
        IN  Idle /\ cmd.outcome = "synced" /\ table \in DOMAIN tables =>
              /\ entity \in DOMAIN files /\ HasFields(files[entity]) =>
                    {l \in Lines(entity) : l[1] = "field"} =
                    {Field(c[2], RustType(c[3]), c[4]) : c \in Range(tables[table])}
              /\ Regular(word) /\ factory \in DOMAIN files /\ HasFields(files[factory]) =>
                    {l \in Lines(factory) : l[1] = "set"} =
                    {Sample(c[2], RustType(c[3])) : c \in required}

FieldsOf(source) == {i \in DOMAIN source : source[i][1] = "field"}

\* The lines above a field up to the field before it, or to the marker.
Above(source, i) ==
    {j \in 1 .. i - 1 : \A k \in j .. i - 1 : source[k][1] \in {"attr", "comment"}}

\* The attributes a field carries: those Rust gives it, which is every one
\* above it, whatever comments stand among them.
AttributesOf(source, i) ==
    {source[j] : j \in {k \in Above(source, i) : source[k][1] = "attr"}}
    \ {Attribute(PrimaryKey)}

\* No comment stands above the field.
Plainly(source, i) == \A j \in Above(source, i) : source[j][1] = "attr"

\* The same field before and after.
Survivors(old, new) ==
    {s \in FieldsOf(old) \X FieldsOf(new) : old[s[1]][2] = new[s[2]][2]}

\* db:sync keeps every attribute a field carries: a password hash does not
\* become serializable by a sync.
SyncKeepsAttributes ==
    [][cmd.name = "sync" =>
        \A path \in DOMAIN files : path[1] = "entities" =>
            \A s \in Survivors(files[path], files'[path]) :
                AttributesOf(files[path], s[1]) \subseteq AttributesOf(files'[path], s[2])]_vars

OutsideFields(source) ==
    SubSeq(source, 1, FieldsFrom(source)) \o SubSeq(source, FieldsTo(source), Len(source))

\* db:sync changes nothing but the lines between the markers of an entity or
\* a factory; no field comes to carry an attribute of another, and one with
\* no comment above it carries afterwards what it carried.
SyncTouchesOnlyFields ==
    [][cmd.name = "sync" =>
        /\ DOMAIN files' = DOMAIN files
        /\ \A path \in DOMAIN files :
              files'[path] # files[path] =>
                /\ path[1] \in {"entities", "factories"} /\ ~ cmd.dry
                /\ HasFields(files[path]) /\ HasFields(files'[path])
                /\ OutsideFields(files'[path]) = OutsideFields(files[path])
                /\ \A s \in Survivors(files[path], files'[path]) :
                      LET before == AttributesOf(files[path], s[1])
                          after == AttributesOf(files'[path], s[2])
                      IN /\ after \subseteq before
                         /\ Plainly(files[path], s[1]) => after = before]_vars

\* A generator is applied whole or not at all, unless it was killed or the
\* developer took a marker out: every file it writes is registered.
AppliedWhole ==
    Idle /\ stops = 0 /\ removed = {} =>
        \A path \in DOMAIN files : Len(path) = 2 => Registered(path[1], path[2])

\* A generator only adds: whatever is on disk when it starts, the developer's
\* edits included, is there with every line when it ends or is stopped; a write
\* adds a file or one line.
GeneratorsOnlyAdd ==
    [][cmd.name = "write" =>
        \A path \in DOMAIN files :
            /\ path \in DOMAIN files'
            /\ \/ files'[path] = files[path]
               \/ \E i \in DOMAIN files'[path] : RemoveAt(files'[path], i) = files[path]]_vars

\* Every command ends, the questions of luxid new included: a closed input is
\* answered with the default and never asked again.
CommandsEnd == []<>Idle
=============================================================================
