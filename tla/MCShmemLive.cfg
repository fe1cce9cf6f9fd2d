SPECIFICATION FairSpec
CONSTANTS
    Client = {c1, c2}
    MaxChild = 2
    MaxStart = 2
    MaxAmiss = 0
    Eager = {}
    Flagged = {}
    Interrupted = {}
PROPERTIES Connects Answered AcceptsAgain ExitHeard
CHECK_DEADLOCK FALSE
