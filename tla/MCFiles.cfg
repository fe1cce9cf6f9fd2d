SPECIFICATION Spec
CONSTANTS
    Client = {c1, c2}
    Talker = {c1}
    Interrupted = {0, 2, c1}
    MaxChild = 2
CHECK_DEADLOCK FALSE
INVARIANTS TypeOK
PROPERTIES RefinesService Answered AcceptsAgain
