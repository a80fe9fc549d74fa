----------------------------- MODULE DexDeploy -----------------------------
(***************************************************************************)
(* deploy/00_local, the test tokens of a local network; deploy/01_dex and  *)
(* utils/dex/pool.ts, the exchange, its first pools and the oracle over    *)
(* them.                                                                   *)
(***************************************************************************)
EXTENDS NetworkConfig, Integers

mintTestToken(symbol, to) == Send({<<"minted", symbol, to>>})

(* ERC20Test is deployed and minted, transaction by transaction, by one    *)
(* sender; nothing remembers which mints were made.                        *)
deployTestTokenAndMint(symbol, receivers) ==
    deployContract(symbol, {})
      \o ForEach(receivers, LAMBDA to : mintTestToken(symbol, to))

deployTestTokens(n, mintAmounts) ==
    IF isMainnetNetwork(n) THEN Throw
    ELSE ForEach(DOMAIN mintAmounts,
                 LAMBDA s : deployTestTokenAndMint(s, mintAmounts[s]))

mintTestERC20StablecoinUpgradeableToken(symbol, to) ==
    SendTx({<<"minter", symbol>>}, {}, {<<"minted", symbol, to>>}, {})

(* The minter role is granted by a call nothing awaits. *)
deployTestERC20StablecoinUpgradeableTokenAndMint(symbol, receivers) ==
    deployContract(symbol, {})
      \o Send({<<"minter", symbol>>})
      \o ForEach(receivers,
             LAMBDA to : mintTestERC20StablecoinUpgradeableToken(symbol, to))

deployTestERC20StablecoinUpgradeableTokens(n, mintAmounts) ==
    IF isMainnetNetwork(n) THEN Throw
    ELSE ForEach(DOMAIN mintAmounts,
                 LAMBDA s : deployTestERC20StablecoinUpgradeableTokenAndMint(
                                s, mintAmounts[s]))

Receivers == {"dexDeployer", "testTokenOwner1"}

deployWeth9(n) ==
    Script("WETH9", {"mock"}, <<>>,
        Only(isLocalNetwork(n), deployContract("WETH9", {})))

(* Wraps ether and sends half of it on. *)
mintWeth9(n) ==
    Script("WETH9-mint", {"mock"}, <<>>,
        Only(isLocalNetwork(n),
            UnlessSaved({"WETH9"}, ReturnFalse)
              \o Send({<<"minted", "WETH9", "dexDeployer">>})
              \o SendTx({<<"minted", "WETH9", "dexDeployer">>}, {},
                        {<<"minted", "WETH9", "dexLiquidityAdder">>}, {})))

deployMintDusd(n) ==
    Script("DeployMint-TestDUSD", {"mock", "test-token-mint"}, <<>>,
        Only(isLocalNetwork(n),
            deployTestERC20StablecoinUpgradeableTokens(n,
                [DUSD |-> Receivers, dUSD |-> {}])))

deployMintFxs(n) ==
    Script("DeployMint-TestFXS", {"mock", "test-token-mint"}, <<>>,
        Only(isLocalNetwork(n), deployTestTokens(n, [FXS |-> Receivers])))

deployMintSfrax(n) ==
    Script("DeployMint-TestSFRAX", {"mock", "test-token-mint"}, <<>>,
        Only(isLocalNetwork(n), deployTestTokens(n, [SFRAX |-> Receivers])))

deployMintSfrxeth(n) ==
    Script("DeployMint-TestSFRXETH", {"mock", "test-token-mint"}, <<>>,
        Only(isLocalNetwork(n), deployTestTokens(n, [SFRXETH |-> Receivers])))

(* A vault over an asset, named after it. *)
deployERC4626Token(asset) ==
    LET vault == "v" \o asset IN deployContract(vault, {}) \o Get({vault})

deployMockErc4626(n) ==
    Script("DeployMockERC4626", {"mock", "mock-erc4626"}, <<>>,
        Only(isLocalNetwork(n),
            ForEach({"SFRAX"}, LAMBDA a : Get({a}) \o deployERC4626Token(a))))

localScripts(n) ==
    <<deployWeth9(n), mintWeth9(n), deployMintDusd(n), deployMintFxs(n),
      deployMintSfrax(n), deployMintSfrxeth(n), deployMockErc4626(n)>>

-----------------------------------------------------------------------------
(* The exchange. *)
getWETH9Address(n) ==
    IF isLocalNetwork(n) THEN Get({"WETH9"}) ELSE <<>>

factory(n) ==
    Script("UniswapV3Factory", {"dex", "dex-core"}, <<>>,
        deployContract("UniswapV3Factory", {}))

curveHelper(n) ==
    ByBots(n, Script("CurveHelper", {"dex", "dex-core", "curve-helper"}, <<>>,
        deployContract("CurveHelper", {})))

router(n) ==
    Script("SwapRouter", {"dex", "dex-periphery"}, <<>>,
        getWETH9Address(n) \o Get({"UniswapV3Factory"})
          \o deployContract("SwapRouter", {}))

nftDescriptor(n) ==
    Script("NFTDescriptor", {"dex", "dex-periphery"}, <<>>,
        deployContract("NFTDescriptor", {}))

positionDescriptor(n) ==
    Script("NonfungibleTokenPositionDescriptor", {"dex", "dex-periphery"}, <<>>,
        getWETH9Address(n) \o Get({"NFTDescriptor"})
          \o deployContract("NonfungibleTokenPositionDescriptor", {}))

positionManager(n) ==
    Script("NonfungiblePositionManager", {"dex", "dex-periphery"}, <<>>,
        getWETH9Address(n)
          \o Get({"UniswapV3Factory", "NonfungibleTokenPositionDescriptor"})
          \o deployContract("NonfungiblePositionManager", {}))

multicall2(n) ==
    Script("UniswapInterfaceMulticall", {"dex", "dex-periphery"}, <<>>,
        deployContract("UniswapInterfaceMulticall", {}))

tickLens(n) ==
    Script("TickLens", {"dex", "dex-periphery"}, <<>>,
        deployContract("TickLens", {}))

quoterV2(n) ==
    Script("QuoterV2", {"dex", "dex-periphery"}, <<>>,
        getWETH9Address(n) \o Get({"UniswapV3Factory"})
          \o deployContract("QuoterV2", {}))

proxyAdmin(n) ==
    Script("ProxyAdmin", {"dex", "dex-periphery"}, <<>>,
        Only(~isLocalNetwork(n), deployContract("ProxyAdmin", {})))

transparentProxyDescriptor(n) ==
    Script("TransparentUpgradeableProxy", {"dex", "dex-periphery"}, <<>>,
        Only(~isLocalNetwork(n),
            Get({"NonfungibleTokenPositionDescriptor", "ProxyAdmin"})
              \o deployContract("TransparentUpgradeableProxy", {})))

PoolOf(pair) == <<"pool", {pair[1], pair[2]}>>

(* createAndInitializePoolIfNecessary, then the factory's answer. *)
deployPool(pair) ==
    Get({"NonfungiblePositionManager"}) \o Await({PoolOf(pair)})
      \o Get({"UniswapV3Factory"})

approveTokenAllowance(token) ==
    Await({<<"allowance", token, "NonfungiblePositionManager">>})

(* Mints a position of the liquidity adder's, who must own both tokens; a  *)
(* repeated script mints another one.                                      *)
OwnedBy(n, token) ==
    IF ~isLocalNetwork(n) THEN {}
    ELSE IF token = "WETH9" THEN {<<"minted", "WETH9", "dexLiquidityAdder">>}
    ELSE {<<"minted", token, "testTokenOwner1">>}

addPoolLiquidity(n, pair) ==
    Get({"NonfungiblePositionManager"})
      \o approveTokenAllowance(pair[1]) \o approveTokenAllowance(pair[2])
      \o AwaitTx({PoolOf(pair)} \union OwnedBy(n, pair[1])
                    \union OwnedBy(n, pair[2]),
                 {}, {<<"liquidity", pair[1], pair[2]>>}, {})

deployAndInitializePool(n, pair) ==
    deployPool(pair) \o addPoolLiquidity(n, pair)

initPool(n) ==
    Script("DEXInitializePools", {"dex", "dex-init"}, <<>>,
        ForEach(getConfig(n).dex.initialPools,
                LAMBDA pair : deployAndInitializePool(n, pair)))

(* Every hop of a swap path must have a pool. *)
checkIfSwapPathExists(path) ==
    Get({"UniswapV3Factory"})
      \o ForEach(1..(Len(path) - 1),
                 LAMBDA i : Check({PoolOf(<<path[i], path[i + 1]>>)}))

staticOracle(n) ==
    Script("StaticOracle", {"dex", "dex-oracle"}, <<>>,
        Get({"UniswapV3Factory"}) \o deployContract("StaticOracle", {}))

getBaseTokenAddress(n) ==
    IF isLocalNetwork(n) THEN Get({"DUSD"})
    ELSE IF getConfig(n).dex.baseToken THEN <<>> ELSE Throw

oracleWrapper(n) ==
    Script("StaticOracleWrapper", {"dex", "dex-oracle"}, <<>>,
        getBaseTokenAddress(n) \o Get({"StaticOracle"})
          \o deployContract("StaticOracleWrapper", {}))

permit2(n) ==
    Script("Permit2", {"dex", "dex-ui"}, <<>>,
        IF isLocalNetwork(n) THEN deployContract("Permit2", {}) ELSE <<>>)

getPermit2Address(n) ==
    IF isLocalNetwork(n) THEN Get({"Permit2"}) ELSE <<>>

universalRouter(n) ==
    Script("UniversalRouter", {"dex", "dex-ui"}, <<>>,
        getWETH9Address(n) \o getPermit2Address(n)
          \o Get({"UniswapV3Factory"}) \o deployContract("UniversalRouter", {}))

mockCurveRouter(n) ==
    Script("MockCurveRouterNgPoolsOnlyV1", {"dex-mock", "mock-curve-router"},
        <<>>,
        Only(isLocalNetwork(n),
             deployContract("MockCurveRouterNgPoolsOnlyV1", {})))

dexScripts(n) ==
    <<factory(n), curveHelper(n), router(n), nftDescriptor(n),
      positionDescriptor(n), positionManager(n), multicall2(n), tickLens(n),
      quoterV2(n), proxyAdmin(n), transparentProxyDescriptor(n), initPool(n),
      staticOracle(n), oracleWrapper(n), permit2(n), universalRouter(n),
      mockCurveRouter(n)>>
=============================================================================
