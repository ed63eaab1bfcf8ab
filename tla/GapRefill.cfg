CONSTANTS
    Directions = {import}
    DayLength = 1
    MonthLength = 2
    QueryWindow = 3
    PollOverlap = 1
    EmptyLimit = 3
    GapEmptyLimit = 2
    GapRetryAfter = 3
    HistoryFloor = 4
    HoleScopes <- MCHole
    StartTime = 14
    MaxNow = 18
    MaxEvents = 0
SPECIFICATION FairSpec
INVARIANTS
    RefillOverrunsOnce
PROPERTIES
    QueueDrains
