SPECIFICATION Spec
CONSTANTS
    Words <- MCWords
    FlagSets <- MCFlagSets
    Options <- MCOptions
    ColumnSets <- MCColumnSets
    Notes = {"skip_serializing"}
    Removable = {"migrations", "fields"}
    MaxDisturbances = 2
INVARIANTS
    TypeOK
    RegistriesAlwaysHold
    ApplicationBuilds
    FailuresHaveACause
    AppliedWhole
    StatusInDeclarationOrder
    
    SyncedFilesAgree
PROPERTIES
    SyncTouchesOnlyFields
    GeneratorsOnlyAdd
    CommandsEnd
