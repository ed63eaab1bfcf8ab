SPECIFICATION Spec
CONSTANTS
    Directions <- Both
    Windows <- TwoWindows
    MonthStart = 2
    Overlap = 1
    MaxAttempts = 3
    Defer = 2
    MaxBackoff = 1
    Faults = {"rate_limit", "timeout", "disk", "not_found", "authorization"}
    Broken <- FirstImport
    Horizon = 4
    MaxFaults = 2
PROPERTIES RetriesRest RateLimitsHoldEverything OutagesKeepSensors BrokenWindowsBlockNobody
CHECK_DEADLOCK FALSE
