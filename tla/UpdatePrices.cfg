SPECIFICATION PricesSpec
CONSTANTS
    Skus = {s1, s2}
    Variants = {v1, v2}
    Products = {p1, p2}
    Values = {x1, x2}
    Stores = {a1, a2}
    ReadBatch = 1
    None = None
SYMMETRY Symmetry
INVARIANTS
    OnlyAsAsked
    ResultIsTrue
    FailuresStayVisible
CHECK_DEADLOCK FALSE
