SPECIFICATION FairSpec
CONSTANTS
    Procs = {p1, p2}
    Watched = {p1}
    WINDOW = 2
    STALE = 1
    MAX_SUPERSEDED_NONCES = 1
    AUTH_REFUSAL_LIMIT = 1
    PAUSE = 1
    Keys <- Successors
    First = {p1}
    Mortals = {p1}
    Ways = {"exit", "kill", "bridge"}
    Revocable = {}
    MaxFaults = 1
    Nobody = Nobody
INVARIANTS
    OwnWatcher
PROPERTIES
    
    FarewellHeals
CHECK_DEADLOCK FALSE
