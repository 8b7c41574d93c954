CONSTANTS
    s1 = s1
    r1 = r1
    r2 = r2
    Stay = {s1}
    Room = {r1, r2}
    Away = Away
    NoStay = NoStay
    Unseen = Unseen
    MaxPosting = 1
    MaxAttempt = 3
    Conn = {1, 2, 3}
    ParkAfter = 2
    AnswerCode = {"OK", "NP", "UR"}
    NotPosted = {"NP"}
    MaxCarried = 1
    MaxFaults = 1
    ReviewScope = "AtRest"

SPECIFICATION FairSpec
PROPERTIES
    KeepsContract
    SendingConcludes
    OutcomeReachesSettlement
CHECK_DEADLOCK FALSE
