SPECIFICATION Spec
CONSTANTS
    Browsers = {b1, b2}
    Logins = {l1}
    Consents = {k1, k2}
    Stores = {s1, s2}
    Requests = {r1, r2}
    None = None
    PendingTtl = 2
    ConsentTtl = 1
    MaxTime = 2
SYMMETRY Symmetry
INVARIANTS
    TypeOK
    SignedInRightly
    OneCodePerConsent
PROPERTY
    PendingGuarded
CHECK_DEADLOCK FALSE
