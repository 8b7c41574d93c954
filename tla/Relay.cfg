CONSTANTS
    s1 = s1
    r1 = r1
    r2 = r2
    c1 = c1
    c2 = c2
    c3 = c3
    Stay = {s1}
    Room = {r1, r2}
    Away = Away
    Unseen = Unseen
    Guest = s1
    HomeRoom = r1
    MaxAttempt = 2
    AnswerCode = {"OK"}
    Conn = {c1, c2, c3}
    MaxCarried = 2

SPECIFICATION Spec
SYMMETRY ConnSymmetry
INVARIANTS
    AnswerIsItsOwn
    WrittenOnce
    HandlerCanAdvance
