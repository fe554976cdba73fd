SPECIFICATION FairSpec
CHECK_DEADLOCK FALSE
CONSTANTS
    Shifts = {1, 2}
    Sales = {1, 2}
    ShiftOf <- MCShiftOf
    Engines = {ui}
    BatchLimit = 1
    Contested = {2}
    Malformed = {}
    Refused = {}
    Printed = {}
    IdRank <- MCIdRank
    ChangesInFlight = FALSE
    Abandoned = {}
PROPERTY EverySaleSettles
