SPECIFICATION Spec
CHECK_DEADLOCK FALSE
CONSTANTS
    SecondsPerMinute = 2
    MinutesPerHour = 2
    HoursPerDay = 3
    DaysPerWeek = 2
    MonthDays <- MCMonthDays
    MaxDay = 3
    LeapMonth = 2
    LeapEvery = 2
    Years = 4
    LastYear = 9
    Expressions <- MCExpressions
    Zones <- MCZones
    Froms <- MCFroms
    Nows = {1, 9, 30}
INVARIANTS
    TypeOK
    FirstMatch
PROPERTY Answered
