SPECIFICATION FairSpec
CONSTANTS
    Rooms = {m1, m2}
    Away = Away
    PackageLife = 2
    GraceLife = 2
    FutureSkew = 1
    NoTime = NoTime
    MaxTime = 2
    MaxHappenings = 3
INVARIANTS OneActiveAtATime RefundedStaysEnded
PROPERTIES MoveKeepsPackage StreamDrains
CHECK_DEADLOCK FALSE
