SPECIFICATION Spec
CONSTANTS
    Items = {a}
    MaxMade = 1
    MaxTries = 2
    MaxRestores = 1
    MaxBackups = 1
    MaxFaults = 0
    MaxReboots = 1
INVARIANTS NothingReplayed
CHECK_DEADLOCK FALSE
