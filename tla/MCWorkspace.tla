---------------------------- MODULE MCWorkspace ----------------------------
(***************************************************************************)
(* A regular word and one whose plural singular() does not bring back.     *)
(***************************************************************************)
EXTENDS WorkspaceProperties

MCWords == {<<"categor", "y">>, <<"bo", "x">>}

\* Documented combinations: -mfsc and -a.
MCFlagSets == {{"migration", "factory", "seeder", "controller"}, Flags}

MCOptions == [stack : {"none", "api", "inertia", "other"},
              client : {"none", "vue", "other"},
              yes : BOOLEAN, interactive : BOOLEAN]

MCColumnSets == {<<>>,
                 <<Column("password", "text", FALSE), Column("place", "point", TRUE)>>}
=============================================================================
