SPECIFICATION FairSpec
CONSTANTS
    Config = {a, b}
    Clean = Clean
    Mixed = Mixed
    Unknown = Unknown
    MaxRev = 2
    MaxFaults = 2
INVARIANTS SettledIsConfirmed RejectedIsNotRendered
PROPERTIES ConfirmRecordsRunning NetworkSettles
CHECK_DEADLOCK FALSE
