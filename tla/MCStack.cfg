SPECIFICATION Spec
CONSTANTS
    None = None
    Malformed = Malformed
    Lists <- BothLists
    Settings <- AllSettings
    Emails <- Addresses
    PerPage = 2
    MaxUsers = 3
    Teams = {1, 2}
INVARIANTS
    TypeOK
    GuardsBeforeActions
    RouteTableIsTrue
    UniqueUnlessOvertaken
    HooksSurroundWrites
    PagesAddUp
    BouncesLand
    ErrorsFollowTheSubmission
    DeploysCostNoInput
    PagesComplete
PROPERTIES
    EagerLoadIsTheJoin
