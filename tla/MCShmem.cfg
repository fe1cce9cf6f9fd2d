SPECIFICATION Spec
CONSTANTS
    Client = {c1, c2}
    MaxChild = 2
    MaxStart = 2
    MaxAmiss = 1
    Eager = {c1, c2}
    Flagged = {c1, c2, 1}
    Interrupted = {0, 1, c1, c2}
SYMMETRY Symmetry
INVARIANTS AcceptAfterSync QueueHolds SessionsSound
CHECK_DEADLOCK FALSE
