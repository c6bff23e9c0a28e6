SPECIFICATION Spec
CONSTANTS
    Procs = {p1, p2}
    Keys = {k1, k2}
    KeyOf <- PairKeys
    Legacy = {}
    Handlers = {h1, h2}
    MaxOrdinal = 1
    Customs = 0
    Reserved = {}
    Requests <- Plain
    MailSeats = {}
    Releases <- FencedInferred
    Certs = {TRUE, FALSE}
    Overlap = FALSE
    Beaters = {p1, p2}
    Mortals = {p1}
    LIVE = 2
    PRUNE = 1
    GRACE = 3
    MaxSup = 8
    MaxClock = 2
    NoRow = NoRow
    NoNonce = NoNonce
    p1 = p1
    p2 = p2
    p3 = p3
    k1 = k1
    k2 = k2
    h1 = h1
    h2 = h2
SYMMETRY HandlerSymmetry
PROPERTIES
    LiveHolderNotEvicted
    BreathingNotReplaced
CHECK_DEADLOCK FALSE
