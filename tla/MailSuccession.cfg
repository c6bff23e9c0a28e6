SPECIFICATION Spec
CONSTANTS
    MaxMsg = 1
    Seats = {a1, a2, b1}
    Lanes = {a, b}
    LaneOf <- TwoLanes
    Root = root
    Letters <- LaneLetter
    Events = {"ack", "age", "stale", "cert", "return", "release"}
    First = {a1, b1}
    MaxClaims = 3
    Mortals = {a1, a2}
    BATCH = 1
    root = root
    a = a
    b = b
    a1 = a1
    a2 = a2
    b1 = b1
INVARIANTS
    TypeOK
    MarksAreEarned
    DrainedWasRead
CHECK_DEADLOCK FALSE
