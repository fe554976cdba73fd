SPECIFICATION FairSpec
CONSTANTS
    Workers = {w1, w2}
    Ticker = ticker
    Invoices = {inv1}
    Price = 100
    OpeningBalance = 150
    Month = 1
    OpeningExpiry = 0
    Grace = 1
    HandPicked = {}
    MaxTime = 1
    MaxCredits = 2
    MaxBusy = 2
CHECK_DEADLOCK FALSE
INVARIANTS
    TypeOK
    WalletConserved
    CreditedOnce
    
PROPERTIES
    PaidTimeKept
    
