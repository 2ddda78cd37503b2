SPECIFICATION Spec
CONSTANTS
    a1 = a1
    a2 = a2
    g = g
    i1 = i1
    i2 = i2
    c1 = c1
    c2 = c2
    pin = pin
    hat = hat
    Account = {a1, a2}
    Guests = {g}
    Ips = {i1, i2}
    IpOf <- MCIpOf
    Conns = {c1, c2}
    Handlers = {h1, h2}
    h1 = h1
    h2 = h2
    NoSession = NoSession
    ROOM_CAPACITY = 1
    MaxPerSession = 2
    MaxPerIp = 2
    MaxGlobal = 2
    CreationsPerSession = 1
    CreationsPerIp = 2
    CreationsGlobal = 2
    CreationWindow = 2
    NeverJoinedTtl = 2
    EmptyTtl = 1
    NoticeCap = 1
    NumCodes = 4
    Seeds = {0}
    Items = {hat}
    Required <- MCRequired
    NoItem = NoItem
    MaxSent = 4
    MaxStars = 1
    Horizon = 2
SYMMETRY MCSymmetry
CHECK_DEADLOCK FALSE
INVARIANTS
    SocketsCounted
    RevocationReaches
    QuickJoinsMeet
    WornIsUnlocked
