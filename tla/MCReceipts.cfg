SPECIFICATION Spec
CONSTANTS
    Conn = {c1, c2}
    Airport = {1}
    MaxFlight = 1
    MaxTicket = 1
    Filters <- NoFilters
INVARIANT ReceiptsHonoured
