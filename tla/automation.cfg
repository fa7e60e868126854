SPECIFICATION FairSpec
CONSTANTS
    HourUnits = 1
    MinuteUnits = 1
    DayHours = 4
    MinInterval = 2
    MaxInterval = 4
    NoTime = NoTime
    Workers = {w1, w2}
    Forms <- MCForms
    MaxFailures = 2
    RetryLimit = 2
    ThrowLimit = 2
    Faults = {}
    MaxTime = 3
    MaxSaves = 1
    MaxCrashes = 1
    NoKey = NoKey
CHECK_DEADLOCK FALSE
INVARIANTS NeverPausedEarly AttemptsAreBounded SlotsAreSpaced
PROPERTIES DueSlotsAreServed
