SPECIFICATION Spec
CONSTANTS
    Platforms <- AllPlatforms
    Calendars <- MCCalendars
    ToolFails = TRUE
INVARIANT
    UninstallDeactivates
