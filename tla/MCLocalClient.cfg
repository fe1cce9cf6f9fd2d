SPECIFICATION LocalFairSpec
CONSTANTS
    Conn = {c1, c2}
    Airport = {1}
    MaxFlight = 1
    MaxTicket = 1
    Filters <- NoFilters
INVARIANTS LocalInv CarefulPromises
PROPERTIES OnlyLeaksFail MutexReturns RequestsEnd
