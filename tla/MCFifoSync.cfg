SPECIFICATION Spec
CONSTANTS
    Client = {c1}
    Talker = {}
    Interrupted = {}
    MaxChild = 1
CHECK_DEADLOCK FALSE
INVARIANT AcceptAfterSync
