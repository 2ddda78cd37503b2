SPECIFICATION FairSpec
CONSTANTS
    None = None
    Players = {p1, p2}
    Sockets = {c1, c2}
    QueueCapacity = 2
    HistoryLimit = 2
    MaxBody = 1
    MaxPos = 1
    MaxChat = 2
CHECK_DEADLOCK FALSE
INVARIANTS
    MembersConverge
    ChatConverges
PROPERTIES
    MovementFlushed
