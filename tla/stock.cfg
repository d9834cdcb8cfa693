SPECIFICATION StockFairSpec
CONSTANTS
    Items = {i1, i2}
    Boms = {b1}
    Requests = {t1, t2}
    Quantities = {1}
    Deltas <- StockDeltas
    PerUnit = {1}
    Builds <- StockBuilds
    MaxAdjustments = 2
CHECK_DEADLOCK FALSE
INVARIANTS
    TrailExplainsQuantity
PROPERTIES
    BuildsAreWhole
    RequestsEnd
