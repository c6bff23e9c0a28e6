SPECIFICATION FairSpec
CONSTANTS
    MaxMsg = 1
    Seats = {a1, a2, b1}
    Lanes = {a, b}
    LaneOf <- TwoLanes
    Root = root
    Letters <- OneAsk
    Events = {"climb", "cert", "farewell", "release"}
    First = {a1, b1}
    MaxClaims = 0
    Mortals = {a1}
    BATCH = 1
    root = root
    a = a
    b = b
    a1 = a1
    a2 = a2
    b1 = b1
PROPERTIES
    DeadSeatsAsksClimb
CHECK_DEADLOCK FALSE
