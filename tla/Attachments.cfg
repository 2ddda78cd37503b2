SPECIFICATION Spec
CONSTANTS
    Keys = {k1, k2}
    Guests = {g1}
    Accounts = {a1}
    Messages = {m1}
    Replicas = {r1}
    None = None
    Size <- UnitSize
    MaxStorage = 1
    MaxFaults = 1
SYMMETRY Symmetry
CHECK_DEADLOCK FALSE
INVARIANTS
    MessageImagesKept
    FilesTracked
    DiskWithinQuota
    CleanReportTrue
