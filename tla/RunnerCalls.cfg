SPECIFICATION FairSpec
CONSTANTS
    Modes <- AllModes
    Descendants = {"none", "obeys", "ignores"}
    LongLines = TRUE
    WriterFails = TRUE
    CheckVersion = TRUE
    Lines = 3
    PipeCap = 1
    maxTailLines = 3
INVARIANTS
    TypeOK
    SuccessIsComplete
    FatalIsSeen
    CanceledIsNotAFailure
    ChildIsReaped
    NobodyWaitsForEverybody
    CancelUnblocks
PROPERTIES
    ImplementsRunnerCall
    CallReturns
    CancelReturns
    CancelLeavesNoOrphan
    EveryStepCounts
