-------------------------- MODULE WorkspaceProofs --------------------------
(***************************************************************************)
(* Proofs about the workspace, for any words, flags, columns and bounds.   *)
(***************************************************************************)
EXTENDS WorkspaceProperties, SequenceLemmas

-----------------------------------------------------------------------------
(***************************************************************************)
(* The command                                                             *)
(***************************************************************************)

\* The record of each command, and what it holds.
CmdOK ==
    /\ cmd.name \in {"none", "ask", "write", "up", "down", "fresh", "sync"}
    /\ cmd.name = "ask" =>
          /\ cmd = [name |-> "ask", options |-> cmd.options, choices |-> cmd.choices,
                    stdin |-> cmd.stdin]
          /\ cmd.options \in CommandLines
          /\ cmd.choices \in {<<"api", "inertia">>, <<"react", "vue", "svelte">>}
    /\ cmd.name = "write" => cmd = Writing(cmd.plan)
    /\ cmd.name = "sync" => cmd = [name |-> "sync", dry |-> cmd.dry, todo |-> cmd.todo]
    /\ cmd.name \in {"up", "down"} =>
          /\ cmd = [name |-> cmd.name, todo |-> cmd.todo, changed |-> cmd.changed]
          /\ cmd.changed \in BOOLEAN
          /\ cmd.changed => cmd.todo # <<>>

\* What luxid new comes to once it knows the client, or the stack.
LEMMA NewGoesOn ==
    ASSUME NEW o \in CommandLines,
           cmd' \in {WithClient(o, c) : c \in Clients \cup {"refused", "ask"}}
                \cup {WithKind(o, k) : k \in {"refused", "ask", "api", "inertia"}}
    PROVE  CmdOK' /\ cmd'.name \in {"none", "ask", "write"}
<1>1. ASSUME NEW c \in Clients \cup {"refused", "ask"}, cmd' = WithClient(o, c)
      PROVE  CmdOK' /\ cmd'.name \in {"none", "ask", "write"}
  <2>1. CASE c = "refused"
    BY <1>1, <2>1 DEF WithClient, Ended, CmdOK
  <2>2. CASE c = "ask"
    BY <1>1, <2>2 DEF WithClient, Asking, CmdOK
  <2>3. CASE c \in Clients
    BY <1>1, <2>3 DEF WithClient, Writing, Clients, CmdOK
  <2> QED
    BY <2>1, <2>2, <2>3
<1>2. ResolveClient(o) \in Clients \cup {"refused", "ask"}
  BY DEF ResolveClient, CommandLines, Clients
<1>3. ASSUME NEW k \in {"refused", "ask", "api", "inertia"}, cmd' = WithKind(o, k)
      PROVE  CmdOK' /\ cmd'.name \in {"none", "ask", "write"}
  <2>1. CASE k = "refused"
    BY <1>3, <2>1 DEF WithKind, Ended, CmdOK
  <2>2. CASE k = "ask"
    BY <1>3, <2>2 DEF WithKind, Asking, CmdOK
  <2>3. CASE k = "inertia"
    BY <1>1, <1>2, <1>3, <2>3 DEF WithKind
  <2>4. CASE k = "api"
    BY <1>3, <2>4 DEF WithKind, Ended, Writing, CmdOK
  <2> QED
    BY <1>3, <2>1, <2>2, <2>3, <2>4
<1> QED
  BY <1>1, <1>3

\* A migration to be run, or the next one of several.
LEMMA MigratingGoesOn ==
    ASSUME NEW name \in {"up", "down", "fresh"}, NEW todo, cmd' = Migrating(name, todo)
    PROVE  CmdOK' /\ cmd'.name = name /\ cmd'.changed = FALSE
BY DEF Migrating, CmdOK

\* An answer leads on, or changes nothing.
LEMMA AnswerGoesOn ==
    ASSUME CmdOK, NEW answer, Answer(answer)
    PROVE  \/ cmd' = cmd
           \/ CmdOK' /\ cmd'.name \in {"none", "ask", "write"}
<1>1. cmd.name = "ask" /\ cmd.options \in CommandLines
  BY DEF Answer, CmdOK
<1> DEFINE chosen == Chosen(answer, cmd.choices, cmd.stdin)
<1>2. CASE chosen = "again"
  BY <1>2 DEF Answer
<1>3. CASE chosen \in Clients
  <2>1. chosen # "again"
    BY <1>3 DEF Clients
  <2>2. cmd' = WithClient(cmd.options, chosen)
    BY <1>3, <2>1 DEF Answer
  <2> QED
    BY <1>1, <1>3, <2>2, NewGoesOn
<1>4. CASE chosen \notin Clients /\ chosen # "again"
  <2>1. cmd' = WithKind(cmd.options, chosen)
    BY <1>4 DEF Answer
  <2>2. chosen \in {"api", "inertia"}
    <3>1. CASE cmd.choices = <<"api", "inertia">>
      BY <1>4, <3>1 DEF Chosen, Range
    <3>2. CASE cmd.choices = <<"react", "vue", "svelte">>
      BY <1>4, <3>2 DEF Chosen, Range, Clients
    <3> QED
      BY <1>1, <3>1, <3>2 DEF CmdOK
  <2> QED
    BY <1>1, <2>1, <2>2, NewGoesOn
<1> QED
  BY <1>2, <1>3, <1>4

\* Every step keeps the record of the command in shape.
LEMMA CommandStep ==
    ASSUME CmdOK, [Next]_vars
    PROVE  CmdOK'
<1>1. ASSUME NEW o \in Options, New(o) PROVE CmdOK'
  <2>1. ResolveKind(o) \in {"refused", "ask", "api", "inertia"}
    BY OptionsAssumption DEF ResolveKind, CommandLines
  <2> QED
    BY <1>1, <2>1, NewGoesOn, OptionsAssumption DEF New
<1>2. CASE NewAgain
  BY <1>2 DEF NewAgain, Ended, CmdOK
<1>3. ASSUME NEW word \in Words, NEW flags \in FlagSets, MakeModelCommand(word, flags)
      PROVE  CmdOK'
  BY <1>3 DEF MakeModelCommand, Ended, Writing, CmdOK
<1>4. ASSUME NEW answer, Answer(answer) PROVE CmdOK'
  BY <1>4, AnswerGoesOn DEF CmdOK
<1>5. CASE HangUp
  BY <1>5 DEF HangUp, CmdOK
<1>6. CASE WriteFile
  <2>1. cmd = [name |-> "write", plan |-> cmd.plan]
    BY <1>6 DEF WriteFile, Writing, CmdOK
  <2>2. PICK plan : cmd' = [cmd EXCEPT !.plan = plan]
    BY <1>6 DEF WriteFile
  <2> QED
    BY <2>1, <2>2 DEF Writing, CmdOK
<1>7. CASE Insert
  <2>1. cmd = [name |-> "write", plan |-> cmd.plan]
    BY <1>7 DEF Insert, Writing, CmdOK
  <2>2. CASE \E outcome : cmd' = Ended(outcome)
    BY <2>2 DEF Ended, CmdOK
  <2>3. CASE \E plan : cmd' = [cmd EXCEPT !.plan = plan]
    BY <2>1, <2>3 DEF Writing, CmdOK
  <2> QED
    BY <1>7, <2>2, <2>3 DEF Insert
<1>8. CASE Written \/ Migrated \/ SyncDone
  BY <1>8 DEF Written, Migrated, SyncDone, Ended, CmdOK
<1>9. ASSUME NEW steps, Migrate(steps) \/ MigrateRollback(steps) PROVE CmdOK'
  BY <1>9, MigratingGoesOn DEF Migrate, MigrateRollback
<1>10. ASSUME NEW force \in BOOLEAN, MigrateFresh(force) PROVE CmdOK'
  <2>1. CASE force
    BY <1>10, <2>1, MigratingGoesOn DEF MigrateFresh
  <2>2. CASE ~ force
    BY <1>10, <2>2 DEF MigrateFresh, Ended, CmdOK
  <2> QED
    BY <2>1, <2>2
<1>11. CASE Up
  BY <1>11 DEF Up, CmdOK
<1>12. CASE Down
  BY <1>12 DEF Down, Ended, CmdOK
<1>13. CASE Record \/ Fresh
  BY <1>13, MigratingGoesOn DEF Record, Fresh
<1>14. ASSUME NEW dry, DbSync(dry) PROVE CmdOK'
  BY <1>14 DEF DbSync, CmdOK
<1>15. CASE SyncFile
  BY <1>15 DEF SyncFile, CmdOK
<1>16. ASSUME NEW path, NEW lines, Edit(path, lines) PROVE CmdOK'
  BY <1>16 DEF Edit, Ended, CmdOK
<1>17. CASE Edited
  BY <1>16, <1>17 DEF Edited, FillMigration, Annotate, RemoveMarker
<1>18. CASE Stop
  BY <1>18 DEF Stop, Ended, CmdOK
<1>19. CASE UNCHANGED vars
  BY <1>19 DEF vars, CmdOK
<1> QED
  BY <1>1, <1>2, <1>3, <1>4, <1>5, <1>6, <1>7, <1>8, <1>9, <1>10, <1>11, <1>12,
     <1>13, <1>14, <1>15, <1>17, <1>18, <1>19 DEF Next, Generate, Reply, RunCommand, Work

-----------------------------------------------------------------------------
(***************************************************************************)
(* Tables and the record of migrations                                     *)
(***************************************************************************)

\* What will be recorded once the step a migration is in has been.
Recorded ==
    CASE cmd.name = "up" /\ cmd.changed -> applied \cup {Head(cmd.todo)}
      [] cmd.name = "down" /\ cmd.changed -> applied \ {Head(cmd.todo)}
      [] OTHER -> applied

\* The tables are those that are recorded or, between a table and its record,
\* about to be, but for one migration at most per command that was stopped.
Drift == SymDiff(DOMAIN tables, Recorded)

TablesInv == /\ stops \in Nat
             /\ IsFiniteSet(Drift) /\ Cardinality(Drift) <= stops
             /\ ~ torn => stops = 0

LEMMA DriftShrinks ==
    ASSUME TablesInv, Drift' \subseteq Drift, stops' = stops, torn => torn'
    PROVE  TablesInv'
<1>1. PICK before, after : before = Drift /\ after = Drift'
  OBVIOUS
<1>2. /\ IsFiniteSet(after) /\ Cardinality(after) <= Cardinality(before)
      /\ Cardinality(before) \in Nat /\ Cardinality(after) \in Nat
  BY <1>1, FS_Subset, FS_CardinalityType DEF TablesInv
<1>3. Cardinality(before) <= stops /\ stops \in Nat
  BY <1>1 DEF TablesInv
<1>4. Cardinality(after) <= stops
  BY <1>2, <1>3
<1> QED
  BY <1>1, <1>2, <1>4 DEF TablesInv

\* With no command stopped they agree.
LEMMA NoDrift ==
    ASSUME TablesInv, stops = 0
    PROVE  DOMAIN tables = Recorded
<1>1. Cardinality(Drift) \in Nat /\ Cardinality(Drift) <= 0
  BY FS_CardinalityType DEF TablesInv
<1>2. Cardinality(Drift) = 0
  BY <1>1
<1>3. Drift = {}
  BY <1>2, FS_EmptySet DEF TablesInv
<1> QED
  BY <1>3 DEF Drift, SymDiff

\* A step of the migrator keeps them together.
LEMMA MigratorKeepsTables ==
    ASSUME CmdOK, TablesInv, Up \/ Down \/ Record \/ Fresh \/ Migrated
    PROVE  TablesInv'
<1> SUFFICES Drift' \subseteq Drift
  BY DriftShrinks DEF Up, Down, Record, Fresh, Migrated, faults
<1>2. CASE Up
  <2>1. /\ cmd.name = "up" /\ cmd.changed = FALSE /\ applied' = applied
        /\ cmd'.name = "up" /\ cmd'.changed = TRUE /\ cmd'.todo = cmd.todo
    BY <1>2 DEF Up, CmdOK
  <2>2. DOMAIN CreateTable(Head(cmd.todo)) = DOMAIN tables \cup {Head(cmd.todo)}
    BY DEF CreateTable
  <2>3. Recorded = applied /\ Recorded' = applied \cup {Head(cmd.todo)}
    BY <2>1 DEF Recorded
  <2> QED
    BY <1>2, <2>2, <2>3 DEF Up, Drift, SymDiff
<1>3. CASE Down
  <2>1. cmd.name = "down" /\ cmd.changed = FALSE /\ applied' = applied
    BY <1>3 DEF Down, CmdOK
  <2>2. Recorded = applied
    BY <2>1 DEF Recorded
  <2>3. DOMAIN tables' = DOMAIN tables \ {Head(cmd.todo)}
    BY <1>3 DEF Down
  <2>4. CASE Head(cmd.todo) \in DOMAIN tables
    <3>1. cmd'.name = "down" /\ cmd'.changed = TRUE /\ cmd'.todo = cmd.todo
      BY <1>3, <2>1, <2>4 DEF Down, CmdOK
    <3>2. Recorded' = applied \ {Head(cmd.todo)}
      BY <2>1, <3>1 DEF Recorded
    <3> QED
      BY <2>2, <2>3, <3>2 DEF Drift, SymDiff
  <2>5. CASE Head(cmd.todo) \notin DOMAIN tables
    <3>1. cmd'.name = "none"
      BY <1>3, <2>5 DEF Down, Ended
    <3>2. Recorded' = applied
      BY <2>1, <3>1 DEF Recorded
    <3> QED
      BY <2>2, <2>3, <2>5, <3>2 DEF Drift, SymDiff
  <2> QED
    BY <2>4, <2>5
<1>4. CASE Record
  <2>1. cmd.name \in {"up", "down"} /\ cmd.changed = TRUE /\ tables' = tables
    BY <1>4 DEF Record, CmdOK
  <2>2. Recorded = applied'
    BY <1>4, <2>1 DEF Recorded, Record
  <2>3. cmd'.changed = FALSE
    BY <1>4, <2>1, MigratingGoesOn DEF Record
  <2>4. Recorded' = applied'
    BY <2>3 DEF Recorded
  <2> QED
    BY <2>1, <2>2, <2>4 DEF Drift
<1>5. CASE Fresh
  <2>1. cmd'.changed = FALSE
    BY <1>5, MigratingGoesOn DEF Fresh
  <2>2. Recorded' = applied'
    BY <2>1 DEF Recorded
  <2> QED
    BY <1>5, <2>2 DEF Fresh, Drift, SymDiff
<1>6. CASE Migrated
  <2>1. cmd.name \in {"up", "down"} /\ cmd.changed = FALSE
    BY <1>6 DEF Migrated, CmdOK
  <2>2. cmd'.name = "none"
    BY <1>6 DEF Migrated, Ended
  <2>3. Recorded = applied /\ Recorded' = applied'
    BY <2>1, <2>2 DEF Recorded
  <2> QED
    BY <1>6, <2>3 DEF Migrated, database, Drift
<1> QED
  BY <1>2, <1>3, <1>4, <1>5, <1>6

StartsMigrating == \E steps \in Nat : Migrate(steps) \/ MigrateRollback(steps)

\* Every other step leaves the database alone and is not, before or after, in
\* the middle of a migration, or it stops a command.
LEMMA OthersLeaveTables ==
    ASSUME CmdOK, [Next]_vars, ~ (Up \/ Down \/ Record \/ Fresh \/ Migrated)
    PROVE  \/ Stop
           \/ /\ UNCHANGED database /\ stops' = stops /\ (torn => torn')
              /\ \/ UNCHANGED cmd
                 \/ /\ cmd.name \notin {"up", "down"}
                    /\ cmd'.name \notin {"up", "down"} \/ StartsMigrating
<1> DEFINE Apart == /\ UNCHANGED database /\ stops' = stops /\ (torn => torn')
                    /\ cmd.name \notin {"up", "down"}
                    /\ cmd'.name \notin {"up", "down"} \/ StartsMigrating
<1> SUFFICES Stop \/ Apart \/ UNCHANGED <<database, faults, cmd>>
  BY DEF faults
<1>1. ASSUME NEW o \in Options, New(o) PROVE Apart
  <2>1. ResolveKind(o) \in {"refused", "ask", "api", "inertia"}
    BY OptionsAssumption DEF ResolveKind, CommandLines
  <2>2. cmd'.name \in {"none", "ask", "write"}
    BY <1>1, <2>1, NewGoesOn, OptionsAssumption DEF New
  <2> QED
    BY <1>1, <2>2 DEF New, Idle, faults
<1>2. CASE NewAgain
  BY <1>2 DEF NewAgain, Idle, Ended, faults
<1>3. ASSUME NEW word \in Words, NEW flags \in FlagSets, MakeModelCommand(word, flags)
      PROVE  Apart
  BY <1>3 DEF MakeModelCommand, Idle, Ended, Writing, faults
<1>4. ASSUME NEW answer, Answer(answer) PROVE Apart \/ UNCHANGED <<database, faults, cmd>>
  <2>1. cmd.name = "ask" /\ cmd.options \in CommandLines
    BY <1>4 DEF Answer, CmdOK
  <2>2. UNCHANGED <<database, faults>>
    BY <1>4 DEF Answer
  <2>3. cmd' = cmd \/ cmd'.name \in {"none", "ask", "write"}
    BY <1>4, AnswerGoesOn
  <2> QED
    BY <2>1, <2>2, <2>3 DEF faults
<1>5. CASE HangUp
  BY <1>5 DEF HangUp, CmdOK, faults
<1>6. CASE WriteFile
  <2>1. cmd = [name |-> "write", plan |-> cmd.plan]
    BY <1>6 DEF WriteFile, Writing, CmdOK
  <2>2. PICK plan : cmd' = [cmd EXCEPT !.plan = plan]
    BY <1>6 DEF WriteFile
  <2> QED
    BY <1>6, <2>1, <2>2 DEF WriteFile, faults
<1>7. CASE Insert
  <2>1. cmd = [name |-> "write", plan |-> cmd.plan]
    BY <1>7 DEF Insert, Writing, CmdOK
  <2>2. CASE \E plan : cmd' = [cmd EXCEPT !.plan = plan] /\ torn' = torn
    <3>1. cmd.name = "write" /\ UNCHANGED database /\ stops' = stops
      BY <1>7 DEF Insert
    <3>2. cmd'.name = "write"
      BY <2>1, <2>2, <3>1
    <3> QED
      BY <2>2, <3>1, <3>2
  <2>3. CASE \E outcome : cmd' = Ended(outcome) /\ torn' = TRUE
    <3>1. cmd.name = "write" /\ UNCHANGED database /\ stops' = stops
      BY <1>7 DEF Insert
    <3>2. cmd'.name = "none"
      BY <2>3 DEF Ended
    <3> QED
      BY <2>3, <3>1, <3>2
  <2>4. \/ \E plan : cmd' = [cmd EXCEPT !.plan = plan] /\ torn' = torn
        \/ \E outcome : cmd' = Ended(outcome) /\ torn' = TRUE
    BY <1>7 DEF Insert
  <2> QED
    BY <2>2, <2>3, <2>4
<1>8. ASSUME Written \/ SyncDone PROVE Apart
  <2>1. /\ cmd.name \in {"write", "sync"} /\ cmd'.name = "none"
        /\ UNCHANGED <<database, faults>>
    BY <1>8 DEF Written, SyncDone, Ended
  <2> QED
    BY <2>1 DEF faults
<1>9. ASSUME NEW steps \in Nat, Migrate(steps) \/ MigrateRollback(steps), Idle PROVE Apart
  <2>1. cmd.name = "none" /\ UNCHANGED <<database, faults>>
    BY <1>9 DEF Migrate, MigrateRollback, Idle
  <2>2. StartsMigrating
    BY <1>9 DEF StartsMigrating
  <2> QED
    BY <2>1, <2>2 DEF faults
<1>10. ASSUME NEW force \in BOOLEAN, MigrateFresh(force), Idle PROVE Apart
  <2>1. CASE force
    BY <1>10, <2>1, MigratingGoesOn DEF MigrateFresh, Idle, faults
  <2>2. CASE ~ force
    BY <1>10, <2>2 DEF MigrateFresh, Ended, Idle, faults
  <2> QED
    BY <2>1, <2>2
<1>11. ASSUME NEW dry, DbSync(dry), Idle PROVE Apart
  BY <1>11 DEF DbSync, Idle, faults
<1>12. CASE SyncFile
  BY <1>12 DEF SyncFile, CmdOK, faults
<1>13. ASSUME NEW path, NEW lines, Edit(path, lines) PROVE Apart
  BY <1>13 DEF Edit, Idle, Ended, faults
<1>14. CASE Edited
  BY <1>13, <1>14 DEF Edited, FillMigration, Annotate, RemoveMarker
<1>15. CASE Stop
  BY <1>15
<1>16. UNCHANGED vars => UNCHANGED <<database, faults, cmd>>
  BY DEF vars
<1> HIDE DEF Apart
<1>17. CASE Generate
  BY <1>1, <1>2, <1>3, <1>17 DEF Generate
<1>18. CASE Reply
  BY <1>4, <1>18 DEF Reply
<1>19. CASE RunCommand
  <2>1. {1, Cardinality(Words)} \subseteq Nat
    BY WordsAssumption, FS_CardinalityType
  <2> QED
    BY <1>9, <1>10, <1>11, <1>19, <2>1 DEF RunCommand
<1>20. CASE Work
  BY <1>6, <1>7, <1>8, <1>12, <1>20 DEF Work
<1> QED
  BY <1>5, <1>14, <1>15, <1>16, <1>17, <1>18, <1>19, <1>20 DEF Next

-----------------------------------------------------------------------------
(***************************************************************************)
(* The theorem                                                             *)
(***************************************************************************)

\* A command that is stopped may leave the migration it was at.
LEMMA StopDrifts ==
    ASSUME TablesInv, Stop
    PROVE  TablesInv'
<1>1. cmd'.name = "none" /\ UNCHANGED database /\ stops' = stops + 1 /\ torn'
  BY DEF Stop, Ended
<1>2. PICK before, after : before = Drift /\ after = Drift'
  OBVIOUS
<1>3. Recorded' = applied
  BY <1>1 DEF Recorded, database
<1>4. PICK h : h = Head(cmd.todo)
  OBVIOUS
<1>5. Recorded \in {applied, applied \cup {h}, applied \ {h}}
  BY <1>4 DEF Recorded
<1>6. after \subseteq before \cup {h}
  BY <1>1, <1>2, <1>3, <1>5 DEF Drift, SymDiff, database
<1>7. /\ IsFiniteSet(before \cup {h})
      /\ Cardinality(before \cup {h}) \in {Cardinality(before), Cardinality(before) + 1}
  BY <1>2, FS_AddElement DEF TablesInv
<1>8. /\ IsFiniteSet(after) /\ Cardinality(after) <= Cardinality(before \cup {h})
      /\ Cardinality(after) \in Nat /\ Cardinality(before) \in Nat
  BY <1>2, <1>6, <1>7, FS_Subset, FS_CardinalityType DEF TablesInv
<1>9. Cardinality(before) <= stops /\ stops \in Nat
  BY <1>2 DEF TablesInv
<1>10. Cardinality(after) <= stops + 1
  BY <1>7, <1>8, <1>9
<1> QED
  BY <1>1, <1>2, <1>8, <1>9, <1>10 DEF TablesInv

LEMMA InvStep ==
    ASSUME CmdOK, TablesInv, [Next]_vars
    PROVE  TablesInv'
<1>1. CASE Up \/ Down \/ Record \/ Fresh \/ Migrated
  BY <1>1, MigratorKeepsTables
<1>2. CASE ~ (Up \/ Down \/ Record \/ Fresh \/ Migrated)
  <2>1. CASE Stop
    BY <2>1, StopDrifts
  <2>2. CASE /\ UNCHANGED <<database, cmd>> /\ stops' = stops /\ (torn => torn')
    <3>1. Drift' = Drift
      BY <2>2 DEF Drift, Recorded, database
    <3> QED
      BY <2>2, <3>1, DriftShrinks
  <2>3. CASE /\ UNCHANGED database /\ stops' = stops /\ (torn => torn')
             /\ cmd.name \notin {"up", "down"}
             /\ cmd'.name \notin {"up", "down"} \/ StartsMigrating
    <3>1. StartsMigrating => cmd'.changed = FALSE
      BY MigratingGoesOn DEF StartsMigrating, Migrate, MigrateRollback
    <3>2. Recorded = applied /\ Recorded' = applied'
      BY <2>3, <3>1 DEF Recorded
    <3> QED
      BY <2>3, <3>2, DriftShrinks DEF Drift, database
  <2> QED
    BY <1>2, <2>1, <2>2, <2>3, OthersLeaveTables
<1> QED
  BY <1>1, <1>2

\* Between commands the tables are those of the applied migrations, but for at
\* most one per command that was killed: whatever was generated, migrated,
\* rolled back and rebuilt, and whatever the developer edited.  (migration.rs,
\* and the commands of lib.rs.)
THEOREM TablesAreTheMigrations == Spec => []TablesFollowMigrations
<1>1. Init => CmdOK /\ TablesInv
  <2>1. Init => CmdOK /\ stops = 0 /\ ~ torn /\ Drift = {}
    BY DEF Init, Ended, CmdOK, Recorded, Drift, SymDiff
  <2> QED
    BY <2>1, FS_EmptySet DEF TablesInv
<1>2. CmdOK /\ TablesInv /\ [Next]_vars => CmdOK' /\ TablesInv'
  BY CommandStep, InvStep
<1>3. TablesInv => TablesFollowMigrations
  BY DEF TablesInv, TablesFollowMigrations, Recorded, Idle, Drift
<1> QED
  BY <1>1, <1>2, <1>3, PTL DEF Spec
=============================================================================
