SPECIFICATION FairSpec
CONSTANTS
    Watchers = {w1, w2}
    SeatNonce <- Bare
    Occupants = {}
    Msgs = {m1}
    MuteOnes = {w1}
    LoseAt = {}
    CrashAt = {"insert", "answer", "seed", "beat", "poll"}
    Leavers = {w2}
    EXPIRY = 1
    MUTE = 1
    LOOKBACK = 9
    MaxClock = 5
    NoRow = NoRow
    NoNonce = NoNonce
    w1 = w1
    w2 = w2
    n1 = n1
    n2 = n2
PROPERTIES
    Covered
    NotLockedOut
CHECK_DEADLOCK FALSE
