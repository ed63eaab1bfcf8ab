CONSTANTS
    Directions = {import}
    Import = import
    LastHour = 2
    Energies = {1}
    Prices = {1}
    StepSize = 1
    PeriodLength = 2
    PartitionLength = 2
    StartHour = 2
    WindowLength = 2
    MaxAnswers = 2
    MaxInputs = 2
    MaxLost = 1
    MaxStopped = 1
    MaxFailed = 1
SPECIFICATION Spec
INVARIANTS
    TypeOK
PROPERTIES
    RebuildRepairs
