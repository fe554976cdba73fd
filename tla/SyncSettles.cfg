SPECIFICATION FairSpec
CHECK_DEADLOCK FALSE
CONSTANTS
    Shifts = {1, 2}
    Sales = {1, 2}
    ShiftOf <- MCShiftOf
    Engines = {ui}
    BatchLimit = 2
    Contested = {}
    Malformed = {}
    Refused = {}
    Printed = {1}
    IdRank <- MCIdRank
    ChangesInFlight = FALSE
    Abandoned = {}
PROPERTIES
    EverySaleSettles
    EveryCloseArrives
