SPECIFICATION StreamSpec
CONSTANTS
    Letters <- MCLetters
    Replies <- MCReplies
    Guarded = {TRUE, FALSE}
    MaxDelta = 3
    MaxChunk = 3
CHECK_DEADLOCK FALSE
INVARIANTS
    NoMasculineTerm
    StreamedIsGuarded
