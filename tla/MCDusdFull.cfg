SPECIFICATION Spec
CONSTANTS
    Collateral = {"b"}
    AmoVault = {v1}
    User = {u1}
    Holder = holder
    AmoManager = manager
    DUSD = "dusd"
    Unit <- MCUnit
    UsdUnit = 2
    Price <- BothMovingPrice
    Amount = {1, 2, 3}
    MaxUint = 3
INVARIANT TypeOK
PROPERTIES RoutineNeverDeepensShortfall LendingLosesAtMostOne BooksMoveTogether ProfitsLeaveAllocationCovered
CHECK_DEADLOCK FALSE
