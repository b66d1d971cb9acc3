SPECIFICATION Spec
CONSTANTS
    Sources <- MCSources
    HostOf <- OneHost
    TagsOf <- NoTags
    Calendar <- MCCalendar
    Policies <- MCPolicies
    MaxTime = 5
PROPERTY
    PrunedIndependently
CHECK_DEADLOCK FALSE
