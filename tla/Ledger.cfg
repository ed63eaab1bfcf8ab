SPECIFICATION Spec
CONSTANTS
    Generic = {"meter"}
    Legacy = {"legacy"}
    Months <- MCMonths
    HotMonths <- MCHotMonths
    SlotsPerMonth = 2
    Values = {v1, v2}
    MaxClock = 1
    MaxChanges = 1
    MaxFaults = 1
SYMMETRY ValueSymmetry
INVARIANTS LedgerTypeOK MemoryIsLatest FlushedMonthsStay
PROPERTIES MonthsAreNeverEmptied AnswersInOrder
CHECK_DEADLOCK FALSE
