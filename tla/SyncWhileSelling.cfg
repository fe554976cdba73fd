SPECIFICATION Spec
CHECK_DEADLOCK FALSE
CONSTANTS
    Shifts = {1}
    Sales = {1, 2, 3}
    ShiftOf <- MCShiftOf
    Engines = {ui, worker}
    BatchLimit = 1
    Contested = {}
    Malformed = {2}
    Refused = {}
    Printed = {3}
    IdRank <- MCIdRank
    ChangesInFlight = TRUE
    Abandoned = {}
INVARIANT NoSaleVanishes
PROPERTY ServerNeverRegresses
CONSTRAINT DuringOutages
