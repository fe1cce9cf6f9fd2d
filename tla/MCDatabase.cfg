SPECIFICATION Spec
CONSTANTS
    Conn = {c1, c2}
    Airport = {1}
    MaxFlight = 1
    Filters <- NoFilters
    MaxTicket = 2
SYMMETRY ConnSymmetry
INVARIANTS TypeOK AnswersStand TicketsHaveFlights
PROPERTIES NoLostUpdate IdsNeverReused RefinesLedger
