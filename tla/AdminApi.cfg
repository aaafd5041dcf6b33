SPECIFICATION Spec
CONSTANTS
    Calls = {c1, c2, c3}
    Mutations = {c1, c2}
    MaxSecrets = 2
    None = None
    MaxTokens = 2
    MaxRetries = 1
INVARIANTS
    TypeOK
    ServedInTurn
    SharedToken
    RunsOnce
PROPERTIES
    EveryCallEnds
CHECK_DEADLOCK FALSE
