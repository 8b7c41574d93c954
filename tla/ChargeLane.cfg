CONSTANTS
    s1 = s1
    r1 = r1
    r2 = r2
    Stay = {s1}
    Room = {r1, r2}
    Away = Away
    NoStay = NoStay
    Unseen = Unseen
    MaxPosting = 2
    MaxAttempt = 3
    Conn = {1, 2, 3}
    ParkAfter = 2
    AnswerCode = {"OK", "NP"}
    NotPosted = {"NP"}
    MaxCarried = 1
    MaxFaults = 1
    ReviewScope = "Any"

SPECIFICATION Spec
SYMMETRY RoomSymmetry
INVARIANTS
    OneTransmissionPerAuthorisation
    DebitedAtMostOnce
    QueuedIsSendable
    NotSentNeverOnWire
    GrantedIsDebited
    Inv
PROPERTIES
    WrittenRoomIsAnnounced
CHECK_DEADLOCK FALSE
