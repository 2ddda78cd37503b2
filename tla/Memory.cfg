SPECIFICATION Spec
CONSTANTS
    cg = cg
    ca = ca
    m1 = m1
    m2 = m2
    Messages = {m1, m2}
    Chats = {cg, ca}
    ChatOf <- MCChatOf
    BornTo <- MCBornTo
    Keys = {"drink", "trip", "exam"}
    Outputs <- MCOutputs
    Workers = {w1, w2}
    b1 = b1
    b2 = b2
    Browsers = {b1, b2}
    HomeOf <- MCHomeOf
    Queries <- MCQueries
    MaxAttempts = 2
    MaxCandidates = 3
    MaxLifetime = 1
    MaxItems = 2
    MaxBroad = 1
    MaxContext = 2
    Window = 1
    MaxAge = 1
    Horizon = 1
CHECK_DEADLOCK FALSE
INVARIANTS
    
    FollowUpsSpaced
    
PROPERTIES
    
    JobSettles
