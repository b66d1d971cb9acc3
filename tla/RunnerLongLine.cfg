SPECIFICATION FairSpec
CONSTANTS
    Modes <- AllModes
    Descendants = {"none"}
    LongLines = TRUE
    WriterFails = FALSE
    CheckVersion = FALSE
    Lines = 3
    PipeCap = 1
    maxTailLines = 2
PROPERTY
    CallAlwaysReturns
