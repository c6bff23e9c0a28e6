SPECIFICATION FairSpec
CONSTANTS
    Users = {u1, u2}
    Principals = {a, b, root}
    Admins = {root}
    Reqs = {r1, r2}
    Jobs <- Mixed
    Ops <- AllOps
    Scope = "project"
    CrashAt <- CrashPoints
    MaxBorn = 2
    NoRow = NoRow
    Null = Null
    a = a
    b = b
    root = root
    r1 = r1
    r2 = r2
    r3 = r3
    u1 = u1
    u2 = u2
INVARIANTS
    TypeOK
    OneLiveRow
PROPERTIES
    WritesAreAtomic
    GateHolds
    RejectRestores
    EveryRequestEnds
CHECK_DEADLOCK FALSE
