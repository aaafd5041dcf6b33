SPECIFICATION Spec
CONSTANTS
    s1 = s1
    s2 = s2
    People = {e1}
    StoreOrder <- TwoStores
    Sessions = {x1}
    Links = {k1}
    Requests = {r1, r2}
    None = None
    SessionTtl = 2
    StateTtl = 1
    TokenTtl = 2
    Grace = 1
    Recent = 1
    Granted = {TRUE, FALSE}
    Inherited <- FirstStore
    MaxKeys = 1
    MaxTime = 1
SYMMETRY Symmetry
INVARIANTS
    TypeOK
PROPERTIES
    ChainMovesOn
CHECK_DEADLOCK FALSE
