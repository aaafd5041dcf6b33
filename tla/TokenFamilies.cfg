CONSTANTS
    Requests = {r1, r2}
    Codes = {c1, c2}
    Families = {f1, f2}
    Tokens = {t1, t2, t3, t4}
    None = None
    CodeTtl = 1
    AccessTtl = 1
    RefreshTtl = 2
    SessionMax = 2
    Slack = 1
    MaxTime = 3
SYMMETRY Symmetry
SPECIFICATION Spec
INVARIANTS
    TypeOK
    RotationIsExact
    RevocationIsFinal
    ReuseKillsFamily
    SessionsDoNotSlide
CHECK_DEADLOCK FALSE
