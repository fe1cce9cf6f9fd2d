SPECIFICATION Spec
CONSTANTS
    Client = {c1, c2}
    Talker = {c1, c2}
    Interrupted = {0, 1, 2, c1, c2}
    MaxChild = 2
CHECK_DEADLOCK FALSE
INVARIANTS TypeOK
PROPERTIES RefinesService Answered Connected ChildrenEnd
