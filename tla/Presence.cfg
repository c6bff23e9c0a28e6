SPECIFICATION FairSpec
CONSTANTS
    Procs = {p1, p2}
    Watched = {p1}
    WINDOW = 3
    STALE = 3
    MAX_SUPERSEDED_NONCES = 8
    AUTH_REFUSAL_LIMIT = 3
    PAUSE = 1
    Keys <- Rivals
    First = {p1}
    Mortals = {p1}
    Ways = {"kill"}
    Revocable = {p1}
    MaxFaults = 2
    Nobody = Nobody
INVARIANTS
    TypeOK
PROPERTIES
    RivalsLearn
    FlagClears
    
CHECK_DEADLOCK FALSE
