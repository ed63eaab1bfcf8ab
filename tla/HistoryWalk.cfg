CONSTANTS
    Directions = {import}
    DayLength = 2
    MonthLength = 2
    QueryWindow = 3
    PollOverlap = 1
    EmptyLimit = 3
    GapEmptyLimit = 3
    GapRetryAfter = 4
    HistoryFloor = 4
    HoleScopes = {}
    StartTime = 14
    MaxNow = 14
    MaxEvents = 3
SPECIFICATION FairSpec
INVARIANTS
    WalkLeavesNoGap
PROPERTIES
    QueueDrains
