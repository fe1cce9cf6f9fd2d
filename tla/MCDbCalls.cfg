SPECIFICATION Spec
CONSTANTS
    Times = {1, 3}
    Word = 6
    Room = 2
    MaxRow = 3
\* The process ends.
CHECK_DEADLOCK FALSE
INVARIANTS CallsInv OwnRow RowsAsAdded
