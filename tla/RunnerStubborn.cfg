SPECIFICATION FairSpec
CONSTANTS
    Modes <- AllModes
    Descendants = {"ignores"}
    LongLines = FALSE
    WriterFails = FALSE
    CheckVersion = FALSE
    Lines = 2
    PipeCap = 1
    maxTailLines = 2
PROPERTY
    CancelAlwaysReturns
