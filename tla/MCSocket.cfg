SPECIFICATION Spec
CONSTANTS
    Client = {c1, c2}
    Wild = {c1}
    MaxRun = 2
    Buffer = 4
    Window = 5
    Backlog = 1
CHECK_DEADLOCK FALSE
INVARIANT SocketInv
PROPERTIES RefinesService Answered ChildrenEnd
