SPECIFICATION Spec
CONSTANTS
    Config = {a, b}
    Clean = Clean
    Mixed = Mixed
    Unknown = Unknown
    MaxRev = 2
    MaxFaults = 1
PROPERTIES CleanRollbackRestores
CHECK_DEADLOCK FALSE
