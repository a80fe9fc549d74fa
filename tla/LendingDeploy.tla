--------------------------- MODULE LendingDeploy ---------------------------
(***************************************************************************)
(* deploy/03_lending and utils/lending: the lending market, and the        *)
(* reserves later migrations add to it (08/03, 11/02).                     *)
(***************************************************************************)
EXTENDS DexDeploy

Initialized(contract) == <<"initialized", contract>>
OnProvider(entry)     == <<"provider", entry>>
Role(role)            == <<"role", role>>
AToken(symbol)        == <<"aToken", symbol>>
Collateral(symbol)    == <<"collateral", symbol>>

(* The records of utils/lending/deploy-ids.ts a script looks up. *)
Provider     == "PoolAddressesProvider"
Registry     == "PoolAddressesProviderRegistry"
DataProvider == "PoolDataProvider"
Configurator == "PoolConfigurator-Proxy"
SetupHelper  == "ReservesSetupHelper"
TreasuryProxy == "TreasuryProxy"
RateStrategies ==
    {"HighLiquidityVolatile", "MediumLiquidityVolatile",
     "HighLiquidityStable", "MediumLiquidityStable"}
Core   == <<"before-deploy", "lbp-core", "lbp-periphery-pre">>
Market == Core \o <<"lbp-provider", "lbp-init-pool", "lbp-oracles">>

(* On a local network the reserves are the test tokens deployed before. *)
getReserveTokenAddresses(n) ==
    IF isLocalNetwork(n)
    THEN Get({"DUSD", "FXS", "SFRAX", "vSFRAX", "SFRXETH", "WETH9"})
    ELSE <<>>

(* An initializer that refuses a second call. *)
initialize(contract) ==
    AwaitTx({}, {Initialized(contract)}, {Initialized(contract)}, {})

-----------------------------------------------------------------------------
deployPoolAddressesProviderRegistry ==
    deployContract(Registry, {}) \o Await({<<"registryOwner">>})

marketsRegistry(n) ==
    Script("PoolAddressesProviderRegistry", {"lbp", "lbp-core", "lbp-registry"},
        <<>>, deployPoolAddressesProviderRegistry)

deployLogicLibraries ==
    deployContract("SupplyLogic", {}) \o deployContract("BorrowLogic", {})
      \o deployContract("LiquidationLogic", {})
      \o deployContract("EModeLogic", {})
      \o deployContract("BridgeLogic", {})
      \o deployContract("ConfiguratorLogic", {})
      \o deployContract("FlashLoanLogic", {})
      \o deployContract("PoolLogic", {})

logicLibraries(n) ==
    Script("LogicLibraries", {"lbp", "lbp-core", "lbp-logic"}, <<>>,
        deployLogicLibraries)

(* Neither initialization tells one made before from a failure. *)
deployTreasury ==
    deployContract(TreasuryProxy, {})
      \o deployContract("TreasuryController", {})
      \o deployContract("TreasuryImpl", {})
      \o initialize("TreasuryImpl") \o initialize(TreasuryProxy)

treasury(n) ==
    Script("Treasury", {"lbp", "lbp-periphery-pre", "lbp-TreasuryProxy"}, <<>>,
        deployTreasury)

deployTestPriceAggregator(n) ==
    Script("MockPriceAggregators",
        {"lbp", "lbp-mock", "lbp-price-aggregators-setup"},
        <<"before-deploy", "tokens-setup", "lbp-periphery-pre">>,
        IF isLocalNetwork(n) /\ ~getConfig(n).lending.mocks THEN Throw
        ELSE <<>>)

addMarketToRegistry ==
    Get({Registry})
      \o Unless({OnProvider("registered")}, Await({OnProvider("registered")}))

setupAddressesProvider ==
    deployContract(Provider, {}) \o Await({OnProvider("marketId")})
      \o addMarketToRegistry
      \o deployContract(DataProvider, {})
      \o Unless({OnProvider("poolDataProvider")},
                Await({OnProvider("poolDataProvider")}))

setupAddressesProviderScript(n) ==
    Script("PoolAddressesProvider", {"lbp", "lbp-market", "lbp-provider"},
        Core \o <<"token-setup">>, setupAddressesProvider)

getPoolLibraries ==
    Get({"SupplyLogic", "BorrowLogic", "LiquidationLogic", "EModeLogic",
         "BridgeLogic", "FlashLoanLogic", "PoolLogic"})

deployL2PoolImplementation ==
    Get({Provider}) \o getPoolLibraries
      \o deployContract("CalldataLogic", {})
      \o deployContract("L2Pool-Implementation", {})
      \o initialize("L2Pool-Implementation")

l2PoolImplementation(n) ==
    Script("L2PoolImplementations", {"lbp", "lbp-market"}, <<>>,
        deployL2PoolImplementation)

deployPoolConfigurator ==
    Get({Provider, "ConfiguratorLogic"})
      \o deployContract("PoolConfigurator-Implementation", {})
      \o initialize("PoolConfigurator-Implementation")
      \o deployContract(SetupHelper, {})

poolConfigurator(n) ==
    Script("PoolConfigurator", {"lbp", "lbp-market"}, <<>>,
        deployPoolConfigurator)

(* The ACL manager's constructor makes the provider's ACL admin its own. *)
initACLManager ==
    Get({Provider}) \o Await({OnProvider("ACLAdmin")})
      \o deployContract("ACLManager", {Role("aclAdmin")})
      \o Await({OnProvider("ACLManager")})
      \o AwaitTx({Role("aclAdmin")}, {}, {Role("poolAdmin")}, {})
      \o AwaitTx({Role("aclAdmin")}, {}, {Role("emergencyAdmin")}, {})
      \o Check({Role("aclAdmin"), Role("poolAdmin"),
                Role("emergencyAdmin")})

initACLManagerScript(n) ==
    Script("ACLManager", {"lbp", "lbp-market", "lbp-acl"},
        Core \o <<"lbp-provider">>, initACLManager)

deployOracles == Get({Provider}) \o deployContract("AaveOracle", {})

(* The aggregator is the lending oracle's fallback. *)
deployOraclesScript(n) ==
    Script("Oracles", {"lbp", "lbp-market", "lbp-oracle"}, <<"before-deploy">>,
        Get({"OracleAggregator"}) \o getReserveTokenAddresses(n)
          \o deployOracles)

initOracles ==
    Get({Provider, "AaveOracle"})
      \o Unless({OnProvider("priceOracle")},
                Await({OnProvider("priceOracle")}))

initOraclesScript(n) ==
    Script("InitOracles", {"lbp", "lbp-market", "lbp-oracles"},
        Core \o <<"lbp-provider">>, initOracles)

(* A proxy is made by the provider, then its address is saved. *)
initLendingPool ==
    Get({"L2Pool-Implementation", "PoolConfigurator-Implementation",
         Provider})
      \o Unless({OnProvider("pool")}, Await({OnProvider("pool")}))
      \o Save("Pool-Proxy", {OnProvider("pool")})
      \o Unless({OnProvider("poolConfigurator")},
                Await({OnProvider("poolConfigurator")}))
      \o Save(Configurator, {OnProvider("poolConfigurator")})
      \o AwaitTx({OnProvider("ACLManager"), Role("poolAdmin")}, {},
                 {<<"flashloanPremium", "total">>}, {})
      \o AwaitTx({OnProvider("ACLManager"), Role("poolAdmin")}, {},
                 {<<"flashloanPremium", "protocol">>}, {})

initPoolScript(n) ==
    Script("PoolInitalization", {"lbp", "lbp-market", "lbp-init-pool"},
        Core \o <<"lbp-provider">>, initLendingPool)

(* Here an initialization made before is told apart, and passed over. *)
initializeAnew(contract) == deployContract(contract, {}) \o initialize(contract)
initializeTokenImpl(contract) ==
    deployContract(contract, {})
      \o Unless({Initialized(contract)}, initialize(contract))

deployTokensImplementations ==
    Get({Provider})
      \o initializeTokenImpl("AToken")
      \o initializeTokenImpl("DelegationAwareAToken")
      \o initializeTokenImpl("StableDebtToken")
      \o initializeTokenImpl("VariableDebtToken")

tokenImplementations(n) ==
    Script("TokenImplementations", {"lbp", "lbp-market", "lbp-tokens"}, <<>>,
        deployTokensImplementations)

-----------------------------------------------------------------------------
(* The reserves in transactions of at most size. *)
chunk(S, size) ==
    LET s == FoldSet(LAMBDA x, seq : Append(seq, x), <<>>, S)
        upTo(k) == IF k < Len(s) THEN k ELSE Len(s)
    IN {{s[i] : i \in (k * size + 1)..upTo((k + 1) * size)} :
            k \in 0..((Len(s) - 1) \div size)}

(* Reserves that have their aToken are skipped.  Which of the strategies a *)
(* reserve uses is left out: all of them are looked up.                    *)
initReservesByHelper(reserves) ==
    LET pending(c) == {AToken(s) : s \in c} IN
    Get({Provider}) \o Check({OnProvider("pool")})
      \o Get({"StableDebtToken", "VariableDebtToken", "AToken"})
      \o Unless(pending(reserves), Get(RateStrategies))
      \o Get({Configurator})
      \o ForEach(chunk(reserves, 3), LAMBDA c :
            Unless(pending(c),
                   AwaitTx({OnProvider("ACLManager"), Role("poolAdmin")}, {},
                           pending(c), {})))

(* The helper contract is a risk admin for as long as it configures the    *)
(* reserves; nothing is configured when every reserve is collateral.       *)
removeRiskAdmin ==
    AwaitTx({OnProvider("ACLManager"), Role("aclAdmin")}, {}, {},
            {Role("riskAdmin")})
configureReservesByHelper(reserves) ==
    LET configured == {Collateral(s) : s \in reserves} IN
    Get({Provider, SetupHelper, DataProvider})
      \o Unless(configured,
            AwaitTx({OnProvider("ACLManager"), Role("aclAdmin")}, {},
                    {Role("riskAdmin")}, {})
              \o ForEach(chunk(reserves, 20), LAMBDA c :
                    AwaitTx({Role("riskAdmin")} \union {AToken(s) : s \in c},
                            {}, {Collateral(s) : s \in c}, {}))
              \o removeRiskAdmin)

savePoolTokens(reserves) ==
    ForEach(reserves, LAMBDA s :
        ForEach({"-AToken", "-VariableDebtToken", "-StableDebtToken"},
            LAMBDA token : Save(s \o token, {AToken(s)})))

deployRateStrategies(strategies) ==
    ForEach(strategies, LAMBDA name : deployContract(name, {}))

initReserves(reserves, strategies) ==
    Get({Provider}) \o deployRateStrategies(strategies) \o Get({TreasuryProxy})
      \o initReservesByHelper(reserves) \o configureReservesByHelper(reserves)
      \o Get({DataProvider}) \o savePoolTokens(reserves)

initAllReserves(n) ==
    Script("ReservesInit", {"lbp", "lbp-market", "lbp-init-reserves"}, Market,
        getReserveTokenAddresses(n)
          \o initReserves(getConfig(n).lending.reserves, RateStrategies))

-----------------------------------------------------------------------------
deployMockFlashLoanReceiver ==
    Get({Provider}) \o deployContract("MockFlashLoanReceiver", {})

mockFlashLoanReceiver(n) ==
    Script("PeripheryInit", {"lbp", "lbp-market", "lbp-init-periphery"}, Market,
        Only(isLocalNetwork(n) \/ isTestnetNetwork(n), deployMockFlashLoanReceiver))

deployNativeTokenGateway ==
    Get({"Pool-Proxy"}) \o deployContract("WrappedTokenGatewayV3", {})

nativeTokenGateway(n) ==
    Script("WrappedTokenGateway",
        {"lbp", "lbp-periphery-post", "lbp-WrappedTokenGateway"}, <<>>,
        getWETH9Address(n) \o deployNativeTokenGateway)

deployWalletBalanceProvider ==
    deployContract("WalletBalanceProvider", {})

walletBalanceProvider(n) ==
    Script("WalletBalanceProvider",
        {"lbp", "lbp-periphery-post", "lbp-walletProvider"}, <<>>,
        deployWalletBalanceProvider)

deployUiPoolDataProvider(n) ==
    Only(getConfig(n).lending.ethUsdFeed,
        deployContract("UiIncentiveDataProviderV3", {})
          \o deployContract("UiPoolDataProviderV3", {}))

uiPoolDataProvider(n) ==
    Script("UiPoolDataProvider",
        {"lbp", "lbp-periphery-post", "lbp-ui-helpers"}, <<>>,
        deployUiPoolDataProvider(n))

deployDSwapAdapters ==
    Get({Provider, "SwapRouter"})
      \o deployContract("DSwapLiquiditySwapAdapter", {})
      \o deployContract("DSwapWithdrawSwapAdapter", {})
      \o deployContract("DSwapRepayAdapter", {})

dswapAdapters(n) ==
    Script("DSwapAdapters",
        {"lbp", "lbp-periphery-post", "lbp-dswap-adapters"}, <<>>,
        Only(isLocalNetwork(n), deployDSwapAdapters))

(* The rewards proxy is made by a transaction the script does not wait     *)
(* for, and its address is read and saved at once.  The emission manager    *)
(* takes whatever was saved; on mainnet it ends with somebody else.        *)
EmissionOwner     == <<"emissionManager", "deployer">>
ControllerGiven   == <<"setRewardsController">>
RewardsController == <<"rewardsController">>
setRewardsController ==
    WithAddress("IncentivesProxy",
        SendTx({EmissionOwner}, {}, {ControllerGiven, RewardsController}, {}),
        SendTx({EmissionOwner}, {}, {ControllerGiven}, {RewardsController}))
transferEmissionManager(n) ==
    SendTx({EmissionOwner}, {}, {<<"emissionManager", "final">>},
           IF isMainnetNetwork(n) THEN {EmissionOwner} ELSE {})

deployIncentives(n) ==
    Get({Provider})
      \o deployContract("EmissionManager", {EmissionOwner})
      \o deployContract("RewardsController", {})
      \o Unless({Initialized("RewardsController")},
            SendTx({}, {Initialized("RewardsController")},
                   {Initialized("RewardsController")}, {}))
      \o Unless({OnProvider("rewards")},
            Send({OnProvider("rewards")})
              \o Save("IncentivesProxy", {OnProvider("rewards")}))
      \o Get({"IncentivesProxy"})
      \o setRewardsController
      \o deployContract("PullRewardsTransferStrategy", {})
      \o transferEmissionManager(n)

incentives(n) ==
    Script("Incentives", {"lbp", "lbp-market", "lbp-IncentivesProxy"},
        Core \o <<"lbp-provider">>, deployIncentives(n))

deployCurveAdapters ==
    Get({Provider, "Pool-Proxy"})
      \o deployContract("CurveDebtSwapAdapter", {})
      \o deployContract("CurveLiquiditySwapAdapter", {})
      \o deployContract("CurveRepayAdapter", {})
      \o deployContract("CurveWithdrawSwapAdapter", {})

curveAdapters(n) ==
    Script("CurveAdapters",
        {"lbp", "lbp-periphery-post", "lbp-curve-adapters"}, <<>>,
        deployCurveAdapters)

-----------------------------------------------------------------------------
(* The reserves of the later migrations have no strategies of their own. *)
addFxbReserve(n) ==
    Script("AddFXB20291231Reserve",
        {"lbp", "lbp-market", "lbp-init-reserves", "fxb-reserve"},
        Market \o <<"curve-oracle-wrapper", "point-curve-oracle-wrapper">>,
        getReserveTokenAddresses(n)
          \o (IF "FXB20291231" \in getConfig(n).lending.reserves
              THEN initReserves({"FXB20291231"}, {}) ELSE <<>>))

addReserves202502(n) ==
    Script("AddReserves202502",
        {"lbp", "lbp-market", "lbp-init-reserves", "fxb-reserve", "sdai",
         "usde", "scrvusd", "frax"},
        Market \o <<"api3-oracle-wrapper", "curve-oracle-wrapper",
            "point-curve-oracle-wrapper", "point-api3-oracle-wrapper">>,
        Only(isMainnetNetwork(n),
            initReserves({"FRAX", "scrvUSD", "FXB20551231", "FXB20251231",
                          "sDAI", "USDe"}, {})))

balanceChecker(n) ==
    Script("dLendBalanceChecker", {"dLendBalanceChecker", "fxtl"}, <<Provider>>,
        Get({Provider}) \o Check({OnProvider("pool")})
          \o deployContract("dLendBalanceChecker", {}))

lendingScripts(n) ==
    <<marketsRegistry(n), logicLibraries(n), treasury(n),
      deployTestPriceAggregator(n), setupAddressesProviderScript(n),
      l2PoolImplementation(n), poolConfigurator(n), initACLManagerScript(n),
      deployOraclesScript(n), initOraclesScript(n), initPoolScript(n),
      tokenImplementations(n), initAllReserves(n), mockFlashLoanReceiver(n),
      nativeTokenGateway(n), walletBalanceProvider(n), uiPoolDataProvider(n),
      dswapAdapters(n), incentives(n), curveAdapters(n)>>
=============================================================================
