SPECIFICATION Spec
CONSTANTS
    coffee = coffee  milk = milk
    Materials <- MCMaterials
    PackSize <- MCPackSize
    OpeningStock <- MCOpening
    Admins = {a1, a2}
    Staff = {s1, s2}
    Forms = {f1, f2}
    Scopes <- MCScopes
    Deliveries <- MCDeliveries
    Spoils <- MCSpoils
    Sales <- MCSales
    Counts <- MCCounts
    Collaborative = TRUE
    AutoUnpack = TRUE
    MaxMoves = 2
SYMMETRY Symmetric
CONSTRAINT Small
INVARIANTS
    TypeOK
    PublishedFormsHaveItems
    ClosedSheetAddsUp
PROPERTIES
    ClosedFormsStay
    ApprovedAsShown
    StockFollowsBooks
    OnlySalesOverdraw
