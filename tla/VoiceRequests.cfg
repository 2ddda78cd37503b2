SPECIFICATION VoiceSpec
CONSTANTS
    s1 = s1
    s2 = s2
    home = home
    fake = fake
    p1 = p1
    p2 = p2
    Families = {"guest", "chat", "speech", "transcription"}
    SessionIds = {s1, s2}
    Addresses = {home, fake, p1, p2}
    Trusted = {p1, p2}
    TrustProxyHeaders = TRUE
    Limit <- MCLimit
    ProcessLimit <- MCProcessLimit
    Window = 2
    Horizon = 3
    Clients <- MCClients
    Proxies <- MCProxies
    Claimed <- MCClaimed
    Messages <- MCMessages
    Recordings = {"audio", "large"}
    Files <- MCFiles
    Provider = "voicevox"
    Translates = TRUE
    MaxSent = 4
SYMMETRY MCSymmetry
CHECK_DEADLOCK FALSE
INVARIANTS
    LimitKept
    RefusalJustified
    CountedForItsAddress
    AudibleIsPlayed
