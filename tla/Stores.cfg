SPECIFICATION StoreSpec
CONSTANTS
    Clients = {c1, c2, c3, c4}
    Sources = {src}
    Requests = {r1, r2}
    None = None
    MaxClients = 2
    MaxPerHour = 2
    MaxHour = 1
    MaxDeaths = 1
    Callers = {a, b, c}
    MaxChanges = 4
    Posts = {post1, post2}
    post1 = post1
    Calls = {call1, call2}
    call1 = call1
    call2 = call2
    RunActions = {call1}
    Of <- MCOf
    MaxKills = 1
INVARIANTS
    StoreTypes
    AckedIsDurable
    RegistryCounts
    
    FailureNotKept
PROPERTIES
    Implements
    NothingWaitsForEver
CHECK_DEADLOCK FALSE
