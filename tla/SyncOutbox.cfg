SPECIFICATION Spec
CHECK_DEADLOCK FALSE
CONSTANTS
    Shifts = {1, 2}
    Sales = {1, 2}
    ShiftOf <- MCShiftOf
    Engines = {ui}
    BatchLimit = 1
    Contested = {}
    Malformed = {}
    Refused = {1}
    Printed = {}
    IdRank <- MCIdRank
    ChangesInFlight = FALSE
    Abandoned = {gone}
INVARIANTS
    TypeOK
    SyncedSaleIsRecorded
    SyncedShiftIsRecorded
    SettledShiftCountsItsSales
CONSTRAINT DuringOutages
