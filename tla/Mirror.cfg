SPECIFICATION Spec
CONSTANTS
    Reservations = {r1, r2}
    Rooms = {m1, m2}
    StageBatchSize = 2
    InventoryTolerance = 0
    RosterTrustMin = 1
    MaxClosePerRun = 2
    Away = Away
    NoRes = NoRes
    MaxHappenings = 2
    MaxDrops = 1
    MaxGarbled = 1
    MaxBacklog = 1
INVARIANTS TypeOK AppliedInOrder EpisodesAreReal
SYMMETRY HotelSymmetry
CHECK_DEADLOCK FALSE
