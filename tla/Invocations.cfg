SPECIFICATION Spec
CONSTANTS
    Procs = {p1, p2}
    Files = {f1, f2, f3, f4}
    NoFile = NoFile
    maxLogSize = 1
    MaxRecords = 4
    Sources <- MCSources
    HostOf <- TwoHosts
    TagsOf <- OwnTags
    Calendar <- MCCalendar
    Policies <- MCPolicies
    MaxTime = 2
    Here = "laptop"
    Installations <- MCInstallations
    MaxCommands = 2
SYMMETRY Symmetry
INVARIANTS
    TypeOK
    LogIsBounded
    RotationKeepsHistory
    FailsInARaceOnly
    FilledTargetIsRefused
    StartedIsRecent
    LatestSurvives
PROPERTIES
    PrunedIndependently
    ImplementsRepository
CHECK_DEADLOCK FALSE
