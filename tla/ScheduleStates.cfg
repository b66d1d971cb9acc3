SPECIFICATION Spec
CONSTANTS
    Platforms <- AllPlatforms
    Calendars <- MCCalendars
    ToolFails = TRUE
INVARIANTS
    TypeOK
    ScheduledIsInPlace
    NoOrphanSchedule
    RemovedIsInactive
