SPECIFICATION Spec
CONSTANTS
    Watchers = {w1, w2}
    SeatNonce <- Restarted
    Occupants = {n1, n2}
    Msgs = {m1}
    MuteOnes = {}
    LoseAt = {"insert", "answer", "seed", "beat", "poll"}
    CrashAt = {"answer", "seed", "beat", "poll"}
    Leavers = {w1}
    EXPIRY = 1
    MUTE = 1
    LOOKBACK = 9
    MaxClock = 5
    NoRow = NoRow
    NoNonce = NoNonce
    w1 = w1
    w2 = w2
    n1 = n1
    n2 = n2
INVARIANTS
    TypeOK
    OneFreshHolder
    TakeoverKeepsWakes
CHECK_DEADLOCK FALSE
