SPECIFICATION RoutineSpec
CONSTANTS
    Collateral = {"b"}
    AmoVault = {v1}
    User = {u1}
    Holder = holder
    AmoManager = manager
    DUSD = "dusd"
    Unit <- MCUnit
    UsdUnit = 2
    Price <- FixedPrice
    Amount = {1, 2, 3, 4}
    MaxUint = 4
INVARIANT CirculatingBacked
PROPERTY SupplyPromise
CHECK_DEADLOCK FALSE
