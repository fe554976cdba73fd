SPECIFICATION FairSpec
CHECK_DEADLOCK FALSE
CONSTANTS
    Jobs = {1, 2}
    Runs = {r1, r2}
    MaxAttempts = 2
    DueLimit = 1
    Faults = {"store", "relaunch"}
INVARIANTS
    TypeOK
    AcceptedOnce
    TriesCounted
    StampedWasAccepted
PROPERTIES
    FailedJobsComeBack
    ButtonPrintsAll
