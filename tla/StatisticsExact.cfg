CONSTANTS
    Directions = {import}
    Import = import
    LastHour = 4
    Energies = {1}
    Prices = {1}
    StepSize = 1
    PeriodLength = 2
    PartitionLength = 3
    StartHour = 2
    WindowLength = 2
    MaxAnswers = 3
    MaxInputs = 2
    MaxLost = 0
    MaxStopped = 0
    MaxFailed = 0
SPECIFICATION Spec
INVARIANTS
    EnergyIsExact
    CostIsExact
