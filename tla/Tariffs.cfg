SPECIFICATION Spec
CONSTANTS
    Points = {home}
    DayHours = 2
    MonthDays <- MCMonthDays
    Schemes <- MCSchemes
    Offers <- MCOffers
    Rates <- MCRates
    Baseline <- MCBaseline
    Profiles <- MCProfiles
    MaxChanges = 1
    MaxFaults = 2
INVARIANTS TariffTypeOK ObservedRatesArePriced EveryHourIsPriced UnitsAreChargedOnce
PROPERTIES NothingIsForgotten
CHECK_DEADLOCK FALSE
