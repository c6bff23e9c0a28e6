SPECIFICATION FairSpec
CONSTANTS
    MaxMsg = 2
    Seats = {a1, a2, b1}
    Lanes = {a, b}
    LaneOf <- TwoLanes
    Root = root
    Letters <- AsksAndChat
    Events = {"reply", "resolve", "archive", "thread", "supersede", "age",
              "stale", "climb", "sweep", "farewell", "release"}
    First = {a1, b1}
    MaxClaims = 0
    Mortals = {a1}
    BATCH = 1
    root = root
    a = a
    b = b
    a1 = a1
    a2 = a2
    b1 = b1
INVARIANTS
    DrainedWasRead
PROPERTIES
    NothingUndone
    AsksRise
CHECK_DEADLOCK FALSE
