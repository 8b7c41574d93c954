SPECIFICATION FairSpec
CONSTANTS
    Items = {a}
    MaxMade = 1
    MaxTries = 1
    MaxRestores = 2
    MaxBackups = 1
    MaxFaults = 1
    MaxReboots = 1
INVARIANTS TypeOK RepeatIsDetectable OriginalSurvives
PROPERTIES NoRepeatOnceReconciled RecoveryEnds
CHECK_DEADLOCK FALSE
