CONSTANTS
    Directions = {import, export}
    DayLength = 1
    MonthLength = 2
    QueryWindow = 3
    PollOverlap = 1
    EmptyLimit = 3
    GapEmptyLimit = 3
    GapRetryAfter = 4
    HistoryFloor = 0
    HoleScopes = {}
    StartTime = 3
    MaxNow = 4
    MaxEvents = 1
SPECIFICATION Spec
INVARIANTS
    CoverageIsDurable
    BarrierIsDurable
SYMMETRY MCSymmetry
