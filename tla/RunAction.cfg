SPECIFICATION Spec
CONSTANTS
    Aliases = {a1, a2}
    Shops = {s1, s2}
    Roots = {r1, r2}
    Workers = 1
    None = None
SYMMETRY Symmetry
INVARIANTS
    TypeOK
    CheckedFirst
    
    OncePerShop
CHECK_DEADLOCK FALSE
