SPECIFICATION Spec
CONSTANTS
    Directions <- One
    Windows <- ThreeWindows
    MonthStart = 4
    Overlap = 1
    MaxAttempts = 3
    Defer = 2
    MaxBackoff = 1
    Faults = {"rate_limit", "timeout", "disk", "not_found", "authorization"}
    Broken = {}
    Horizon = 6
    MaxFaults = 2
INVARIANT ReportedPeriodsAreRead
CHECK_DEADLOCK FALSE
