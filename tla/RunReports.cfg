SPECIFICATION FairSpec
CONSTANTS
    home = home
    work = work
    SetNames <- MCSetNames
    Commands = {"backup", "maintenance"}
    Arguments <- MCArguments
    ConfigSets <- MCConfigSets
    RestGens = {"new"}
    ResticCodes <- MCResticCodes
    Reconfigures = TRUE
INVARIANTS
    TypeOK
    ExitTellsOutcome
    FailureHasACause
PROPERTIES
    StartsAreGated
    RunEnds
    ImplementsBatch
