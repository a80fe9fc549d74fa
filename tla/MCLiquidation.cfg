SPECIFICATION Spec
CONSTANTS
    Asset <- MCAsset
    Proxy <- MCProxy
    Pool = {"pool"}
    NoAddress = none
    Reported <- MCReported
    PoolPrice = {4, 6}
    Coins <- MCCoins
    StoredRates <- MCRates
    ThresholdConfig <- MCThreshold
    StaleTimeLimit = {0}
    CurveStaleTimeLimit = 1
    API3_HEARTBEAT = 0
    API3_BASE_CURRENCY_UNIT = 4
    CURVE_RATE_PRECISION = 4
    BASE_CURRENCY_UNIT = 2
    pricePeg = 2
    MaxAge = 1
    WrapperUnit <- MCWrapperUnit
    DUSD = "dusd"
    Redeemer4626 = {"minter"}
    share <- MCShare
    asset <- MCAssetOf4626
    AssetsPerShare <- MCAssetsPerShare
    Unit <- MCUnit
    LiquidationBonus = 2
    FlashLoanPremium = 1
    ONE_HUNDRED_PERCENT_BPS = 2
    SlippageTolerance = {1, 3}
    MaxExcess = 1
    Amount = {1, 2}
    MaxBalance = 1
    OracleOf <- MCOracleOf
    ProxyOf <- MCProxyOf
    CompositeOf <- MCCompositeOf
    ConfigOf <- MCConfigOf
    ThresholdOf <- MCThresholdOf
    FirstValue <- MCFirst
    RedeemerOf <- MCRedeemerOf
    Deployed <- MCDeployed
    Managed = {"frax", "sfrax"}
    MaxChanges = 1
INVARIANTS TypeOK PricedByLiveFeeds CapsHold
PROPERTIES PaidOnlyFromGain LoanPaysForItself
