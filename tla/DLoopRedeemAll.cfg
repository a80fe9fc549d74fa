SPECIFICATION Spec
CONSTANTS
    Owner = {u1, u2}
    ONE_HUNDRED_PERCENT_BPS = 8
    TARGET_LEVERAGE_BPS = 24
    LtvBps = 7
    AssetUnit = 1
    DusdUnit = 1
    DusdPrice = 1
    Price = {1, 2}
    MaxSubsidyBps = {0, 2}
    BestSwapBps = 8
    SlippageTolerance = {0, 2}
    MinAssets = 1
    MinShares = 1
    Amount = {1, 2}
    MaxPosition = 9
INVARIANT SharesSuffice
CHECK_DEADLOCK FALSE
