SPECIFICATION Spec
CONSTANTS
    Client = {c1, c2}
    MaxRun = 2
    Capacity = 2
CHECK_DEADLOCK FALSE
INVARIANT QueueInv
PROPERTIES RefinesService Answered
