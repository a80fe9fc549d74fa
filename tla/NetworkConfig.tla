--------------------------- MODULE NetworkConfig ---------------------------
(***************************************************************************)
(* config/: what the migration scripts read of a network's configuration.  *)
(* Amounts, addresses and routes are left out; what is kept is which       *)
(* sections exist and which assets they list.                              *)
(***************************************************************************)
EXTENDS DeploySteps

(* The tokens of a live network with a known address. *)
mainnetTokens ==
    {"wfrxETH", "sfrxETH", "dUSD", "frxUSD", "sfrxUSD", "DAI", "sDAI", "USDe",
     "sUSDe", "USDC", "USDT", "FXB20291231", "FRAX", "scrvUSD", "crvUSD",
     "FXB20551231", "FXB20251231"}

testnetTokens ==
    {"wfrxETH", "dUSD", "FXS", "sFRAX", "sfrxETH", "FRAX", "USDe", "DAI",
     "sUSDe", "sDAI"}

(* The price aggregator of a token, where TOKEN_INFO names one. *)
testnetAggregators == {"wfrxETH"}
mainnetAggregators == {}

(* dex: the pools a deployment opens, by their pair. *)
localDex   == [weth9 |-> FALSE, baseToken |-> FALSE,
               initialPools |-> {<<"WETH9", "DUSD">>}]
testnetDex == [weth9 |-> TRUE, baseToken |-> TRUE,
               initialPools |-> {<<"wfrxETH", "dUSD">>}]
mainnetDex == [weth9 |-> TRUE, baseToken |-> TRUE, initialPools |-> {}]

(* lending: the reserves; the mock aggregators; the UI helper's ETH feed. *)
localLending ==
    [reserves    |-> {"WFRXETH", "DUSD", "FXS", "SFRAX", "vSFRAX", "SFRXETH"},
     mocks       |-> TRUE, ethUsdFeed |-> FALSE,
     aggregators |-> {}]
testnetLending ==
    [reserves    |-> {"wfrxETH", "dUSD", "sFRAX", "FXS", "sfrxETH", "sUSDe",
                      "sDAI"},
     mocks       |-> FALSE, ethUsdFeed |-> TRUE,
     aggregators |-> testnetAggregators]
mainnetLending ==
    [reserves    |-> {"dUSD", "wfrxETH", "sfrxETH", "sfrxUSD", "sUSDe",
                      "FXB20291231", "FRAX", "scrvUSD", "FXB20551231",
                      "FXB20251231", "sDAI", "USDe"},
     mocks       |-> FALSE, ethUsdFeed |-> TRUE,
     aggregators |-> mainnetAggregators]

(* The liquidator bots a network configures, each with the flash minter's  *)
(* token and the tokens it swaps through a proxy contract.                 *)
NoBot == [configured |-> FALSE, minter |-> "", proxied |-> {}]
localBotUniswapV3 == [configured |-> TRUE, minter |-> "DUSD", proxied |-> {}]
testnetBotCurve   == [configured |-> TRUE, minter |-> "dUSD", proxied |-> {}]
mainnetBotCurve   == [configured |-> TRUE, minter |-> "dUSD",
                      proxied |-> {"sfrxUSD"}]
mainnetBotOdos    == [configured |-> TRUE, minter |-> "dUSD",
                      proxied |-> {"sfrxUSD"}]

localBots   == [uniswapV3 |-> localBotUniswapV3, curve |-> NoBot,
                odos |-> NoBot]
testnetBots == [uniswapV3 |-> NoBot, curve |-> testnetBotCurve,
                odos |-> NoBot]
mainnetBots == [uniswapV3 |-> NoBot, curve |-> mainnetBotCurve,
                odos |-> mainnetBotOdos]

(* dusd.amoVaults: the external venues an AMO vault is deployed for. *)
localAmoVaults   == {"curveStableSwapNG"}
testnetAmoVaults == {"curveStableSwapNG"}
mainnetAmoVaults == {"curveStableSwapNG"}

(* dLoop: the vaults, by the swap path from dUSD to the underlying asset on *)
(* Uniswap and by the underlying asset on Curve.                           *)
localDLoopUniswapV3   == {<<"DUSD", "SFRAX">>}
testnetDLoopUniswapV3 == {<<"dUSD", "sFRAX">>}
mainnetDLoopUniswapV3 == {}
testnetDLoopCurve     == {"sFRAX"}
mainnetDLoopCurve     == {}

(* oracleAggregator: the assets of each oracle wrapper. *)
localOracles ==
    [dUSD |-> "dUSD", dex |-> {"DUSD", "SFRAX", "WETH9", "FXS"},
     plain |-> {}, thresholding |-> {}, composite |-> {}, curve |-> {}]
testnetOracles ==
    [dUSD |-> "dUSD", dex |-> {"wfrxETH", "FXS", "sfrxETH"},
     plain |-> {"DAI", "USDe"}, thresholding |-> {"FRAX"},
     composite |-> {"sFRAX", "sDAI", "sUSDe"}, curve |-> {}]
mainnetOracles ==
    [dUSD |-> "dUSD", dex |-> {}, plain |-> {"wfrxETH"},
     thresholding |-> {"frxUSD", "DAI", "USDe", "USDC", "USDT", "FRAX",
                       "crvUSD"},
     composite |-> {"sfrxETH", "sfrxUSD", "sDAI", "sUSDe", "scrvUSD"},
     curve |-> {"FXB20291231", "FXB20251231", "FXB20551231"}]

PerNetwork(local, testnet, mainnet) ==
    [n \in Networks |-> IF isLocalNetwork(n) THEN local
                        ELSE IF isTestnetNetwork(n) THEN testnet ELSE mainnet]

(* config.ts: the section of the network at hand. *)
getConfig(n) ==
    [dex            |-> PerNetwork(localDex, testnetDex, mainnetDex)[n],
     lending        |-> PerNetwork(localLending, testnetLending,
                                   mainnetLending)[n],
     bots           |-> PerNetwork(localBots, testnetBots, mainnetBots)[n],
     amoVaults      |-> PerNetwork(localAmoVaults, testnetAmoVaults,
                                   mainnetAmoVaults)[n],
     dLoopUniswapV3 |-> PerNetwork(localDLoopUniswapV3, testnetDLoopUniswapV3,
                                   mainnetDLoopUniswapV3)[n],
     dLoopCurve     |-> PerNetwork({}, testnetDLoopCurve,
                                   mainnetDLoopCurve)[n],
     oracles        |-> PerNetwork(localOracles, testnetOracles,
                                   mainnetOracles)[n]]
=============================================================================
