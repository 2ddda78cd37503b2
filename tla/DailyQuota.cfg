CONSTANTS
    Requests = {r1, r2}
    Sessions = {s1, s2, s3}
    Users = {u1}
    None = None
    MaxDay = 2
    RegisteredLimit = 1
    GuestLimit = 1
    GlobalLimit = 2
    CleanupBatch = 1
SPECIFICATION Spec
SYMMETRY Symmetry
INVARIANTS
    GlobalLedger
    
    RepliesCharged
