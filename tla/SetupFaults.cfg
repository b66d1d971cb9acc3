SPECIFICATION FairSpec
CONSTANTS
    nas = nas
    usb = usb
    p1 = p1
    p2 = p2
    alice = alice
    r1 = r1
    r2 = r2
    home = home
    work = work
    NoConfig = NoConfig
    BadConfig = BadConfig
    NoSecret = NoSecret
    Blank = Blank
    NoRepo = NoRepo
    NoParams = NoParams
    URLs <- MCURLs
    RestURLs <- MCRestURLs
    Passwords <- MCPasswords
    Users <- MCUsers
    RestPasswords <- MCRestPasswords
    Accepts <- MCAccepts
    SetNames <- OneSet
    UserSets = {work}
    Faults = {"crash", "probe", "init", "write", "otherHost"}
    MaxLines = 2
INVARIANTS
    TypeOK
    OnlyVerifiedIsWritten
    UsableUnlessInterrupted
PROPERTIES
    AbortLeavesNothing
    NewRepositoryIsOnDisk
    ImplementsConnection
    SetupTerminates
    EveryStepCounts
