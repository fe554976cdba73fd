SPECIFICATION Spec
CHECK_DEADLOCK FALSE
CONSTANTS
    sale1 = sale1  waste1 = waste1  return1 = return1  return2 = return2
    coffee = coffee  milk = milk
    Workers = {w1, w2}
    Sales = {sale1}
    Wastes = {}
    Returns = {return1}
    Materials <- MCMaterials
    Need <- MCNeed
    LockPath <- MCLockPath
    SaleOf <- MCSaleOf
    ReturnQty <- MCReturnQty
    Restock <- MCRestock
    SoldQty <- MCSoldQty
    PackSize <- MCPackSize
    OpeningStock <- MCOpening
    AutoUnpack = TRUE
    OneInFlightPerRow = FALSE
INVARIANT StockMatchesTables
