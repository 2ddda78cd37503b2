SPECIFICATION Spec
CONSTANTS
    b1 = b1
    b2 = b2
    q1 = q1
    q2 = q2
    a1 = a1
    op1 = op1
    op2 = op2
    Browsers = {b1, b2}
    Requests = {q1, q2}
    Accounts = {a1}
    Nobody = Nobody
    MaxSessions = 4
    MaxRequests = 3
    Operations = {op1, op2}
    Items = {"theme", "draft"}
    PageLimit = 1
    ItemsOf <- MCItemsOf
SYMMETRY Symmetry
CHECK_DEADLOCK FALSE
INVARIANTS
    ProfileErased
