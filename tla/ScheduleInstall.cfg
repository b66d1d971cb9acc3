SPECIFICATION Spec
CONSTANTS
    Platforms <- AllPlatforms
    Calendars <- MCCalendars
    ToolFails = FALSE
INVARIANT
    ScheduledIsActive
