SPECIFICATION Spec
CONSTANTS
    Procs = {p1, p2}
    Keys = {k1, k2}
    KeyOf <- PairKeys
    Legacy = {}
    Handlers = {h1, h2}
    MaxOrdinal = 1
    Customs = 1
    Reserved = {}
    Requests <- Moving
    MailSeats = {2}
    Releases <- NoRelease
    Certs = {}
    Overlap = FALSE
    Beaters = {}
    Mortals = {}
    LIVE = 1
    PRUNE = 1
    GRACE = 2
    MaxSup = 8
    MaxClock = 2
    NoRow = NoRow
    NoNonce = NoNonce
    p1 = p1
    p2 = p2
    p3 = p3
    k1 = k1
    k2 = k2
    h1 = h1
    h2 = h2
SYMMETRY PairSymmetry
PROPERTIES
    LiveHolderNotEvicted
    NoStrangerMail
CHECK_DEADLOCK FALSE
