SPECIFICATION FairSpec
CONSTANTS
    None = None
    Players = {p1, p2}
    Conns = {c1, c2}
    Capacity = 2
    TeaLeaves = 2
    TableOrders = 2
    RushMin = 2
    RushMax = 2
    MaxRound = 4
    Deletable = {p1, p2}
    DbMayFail = TRUE
CHECK_DEADLOCK FALSE
INVARIANTS
    RoundConserved
    OnePendingTransition
    DeletionIsFinal
PROPERTIES
    RushMakesWay
