---------------------------- MODULE DusdDeploy -----------------------------
(***************************************************************************)
(* deploy/05_dusd, 06_dusd_amo_vault and 07_dloop: the issuance contracts, *)
(* the AMO vaults and the leveraged vaults.                                *)
(***************************************************************************)
EXTENDS LendingDeploy

Enabled(vault) == <<"enabledAmoVault", vault>>

collateralVault(n) ==
    Script("dUSD:CollateralHolderVault", {"dusd"}, <<"OracleAggregator">>,
        Get({"OracleAggregator"}) \o deployContract("CollateralHolderVault", {}))

amoManager(n) ==
    Script("dUSD:AmoManager", {"dusd"}, <<"dUSD", "CollateralHolderVault">>,
        Get({"CollateralHolderVault"}) \o Get({"OracleAggregator"})
          \o deployContract("AmoManager", {}))

issuer(n) ==
    Script("dUSD:Issuer", {"dusd"},
        <<"CollateralHolderVault", "dUSD", "OracleAggregator", "AmoManager">>,
        Get({"OracleAggregator"}) \o Get({"CollateralHolderVault"})
          \o Get({"AmoManager"}) \o deployContract("Issuer", {}))

redeemer(n) ==
    Script("dUSD:Redeemer", {"dusd"},
        <<"CollateralHolderVault", "dUSD", "OracleAggregator">>,
        Get({"OracleAggregator"}) \o Get({"CollateralHolderVault"})
          \o deployContract("Redeemer", {})
          \o Send({Role("collateralWithdrawer")}))

(* Enabling a vault that is enabled reverts.  A local network may do       *)
(* without the oracle.                                                     *)
deployAmoVault(n, oracle, vault) ==
    Get({"AmoManager"}) \o (IF isLocalNetwork(n) THEN <<>> ELSE Get({oracle}))
      \o deployContract(vault, {}) \o Get({vault})
      \o SendTx({}, {Enabled(vault)}, {Enabled(vault)}, {})

curveAmoVault(n) ==
    Script("dUSD:CurveStableSwapNGAmoVault",
        {"dusd", "amo_vault", "curve_stableswapng"},
        <<"dUSD", "AmoManager", "OracleAggregator">>,
        IF "curveStableSwapNG" \notin getConfig(n).amoVaults THEN <<>>
        ELSE deployAmoVault(n, "OracleAggregator", "CurveStableSwapNGAmoVault"))

uniswapV3AmoVault(n) ==
    Script("dUSD:UniV3AmoVault", {"dusd", "amo_vault", "uniswap_v3"},
        <<"dUSD", "AmoManager", "AaveOracle", "UniswapV3Pool",
         "NonfungiblePositionManager", "SwapRouter">>,
        IF "uniswapV3" \notin getConfig(n).amoVaults THEN <<>>
        ELSE deployAmoVault(n, "AaveOracle", "UniV3AmoVault"))

-----------------------------------------------------------------------------
(* Off a local network a vault's swap paths must exist, there and back. *)
dloopVaultUniswapV3(n) ==
    Script("DLoopVaultUniswapV3", {"dloop", "vault"}, <<>>,
        Get({"SwapRouter"}) \o Get({Provider})
          \o ForEach(getConfig(n).dLoopUniswapV3, LAMBDA path :
                (IF isLocalNetwork(n) THEN <<>>
                 ELSE checkIfSwapPathExists(path)
                        \o checkIfSwapPathExists(<<path[2], path[1]>>))
                  \o deployContract("DLoopVaultUniswapV3-3X-" \o path[2], {})))

deployDLoopVaultsCurve(underlyings) ==
    Get({Provider})
      \o ForEach(underlyings,
                 LAMBDA u : deployContract("DLoopVaultCurve-3X-" \o u, {}))

deployDLoopVaultsCurveLocal ==
    Get({"DUSD", "SFRAX", "MockCurveRouterNgPoolsOnlyV1"})
      \o deployDLoopVaultsCurve({"SFRAX"})

dloopVaultCurve(n) ==
    Script("DLoopVaultCurve", {"dloop", "vault"}, <<>>,
        IF isLocalNetwork(n) THEN deployDLoopVaultsCurveLocal
        ELSE deployDLoopVaultsCurve(getConfig(n).dLoopCurve))

dusdScripts(n) ==
    <<collateralVault(n), amoManager(n), issuer(n), redeemer(n)>>
amoVaultScripts(n) == <<curveAmoVault(n), uniswapV3AmoVault(n)>>
dloopScripts(n)    == <<dloopVaultUniswapV3(n), dloopVaultCurve(n)>>
=============================================================================
