SPECIFICATION Spec
CHECK_DEADLOCK FALSE
CONSTANTS
    Shifts = {1, 2}
    Sales = {1, 2}
    ShiftOf <- MCShiftOf
    Engines = {ui}
    BatchLimit = 1
    Contested = {}
    Malformed = {}
    Refused = {}
    Printed = {}
    IdRank <- MCIdRank
    ChangesInFlight = TRUE
    Abandoned = {}
INVARIANT SyncedRowsAreRecorded
