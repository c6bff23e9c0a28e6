SPECIFICATION FairSpec
CONSTANTS
    Procs = {p1, p2, p3}
    Keys = {k1, k2}
    KeyOf <- RestartKeys
    Legacy = {p3}
    Handlers = {h1}
    MaxOrdinal = 3
    Customs = 1
    Reserved <- ReservedName
    Requests <- AnyClaim
    MailSeats = {}
    Releases <- NoRelease
    Certs = {TRUE, FALSE}
    Overlap = FALSE
    Beaters = {}
    Mortals = {p1}
    LIVE = 1
    PRUNE = 1
    GRACE = 2
    MaxSup = 8
    MaxClock = 1
    NoRow = NoRow
    NoNonce = NoNonce
    p1 = p1
    p2 = p2
    p3 = p3
    k1 = k1
    k2 = k2
    h1 = h1
    h2 = h2
INVARIANTS
    TypeOK
PROPERTIES
    LiveHolderNotEvicted
    
    
CHECK_DEADLOCK FALSE
