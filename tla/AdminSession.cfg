SPECIFICATION Spec
CONSTANTS
    Tabs = {t1, t2}
    Accounts = {a1, a2}
    NoOne = NoOne
    Stuck = Stuck
    Suspendable = {a1}
    Asking = {t1}
    MaxMessages = 1
INVARIANTS
    TypeOK
    OwnDataOnly
    PagesHaveTokens
    LogoutReachesAll
    RenewalScheduled
