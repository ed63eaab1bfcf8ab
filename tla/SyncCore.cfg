CONSTANTS
    Directions = {import}
    DayLength = 2
    MonthLength = 4
    QueryWindow = 3
    PollOverlap = 1
    EmptyLimit = 3
    GapEmptyLimit = 3
    GapRetryAfter = 4
    HistoryFloor = 0
    HoleScopes = {}
    StartTime = 6
    MaxNow = 8
    MaxEvents = 1
SPECIFICATION FairSpec
INVARIANTS
    SyncInv
    CheckpointIsAccepted
    PlansAreCurrent
PROPERTIES
    KeepsPromise
    PlannedWorkSettles
