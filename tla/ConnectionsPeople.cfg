SPECIFICATION Spec
CONSTANTS
    s1 = s1
    s2 = s2
    People = {e1, e2}
    StoreOrder <- OneStore
    Sessions = {x1, x2}
    Links = {k1, k2}
    Requests = {r1, r2}
    None = None
    SessionTtl = 1
    StateTtl = 1
    TokenTtl = 1
    Grace = 0
    Recent = 1
    Granted = {TRUE}
    Inherited = {}
    MaxKeys = 1
    MaxTime = 1
SYMMETRY Symmetry
INVARIANTS
    OnlyOwnConnections
CHECK_DEADLOCK FALSE
