SPECIFICATION Spec
CONSTANTS
    s1 = s1
    s2 = s2
    u1 = u1
    g1 = g1
    Requests = {r1, r2}
    Sessions = {s1, s2}
    Owners = {u1, g1}
    OwnerOf <- MCOwnerOf
    Chats = {c1}
    MaxGlobal = 2
    MaxPerSession = 1
    MaxChats = 1
    MaxMessages = 4
    MaxStoredChars = 5
    ContextMessages = 2
    ContextChars = 3
    OutputMax = 2
    Payloads <- MCPayloads
    Prompts = {1}
    MessageMax = 2
    MaxImages = 1
    MaxImageBytes = 1
    ImageUpload = TRUE
    Vision = TRUE
    Chunks = {1, 2}
    Capacity = 1
    MaxCrashes = 1
CHECK_DEADLOCK FALSE
INVARIANTS
    LimiterBalanced
    TurnFollowsItsContext
    DoneMeansStored
PROPERTIES
    PermitReturned
