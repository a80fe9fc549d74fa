---------------------------- MODULE OracleDeploy ---------------------------
(***************************************************************************)
(* deploy/02_oracle_aggregator and the later migrations of the oracles:    *)
(* 08_curve_oracle_fxb, 09_usdt_api3_oracle, 10_api3_migration,            *)
(* 11_add_new_reserves_202502 and 12_update_sfrxUSD_api3_oracle.           *)
(*                                                                         *)
(* A wrapper knows a feed per asset; the aggregator points an asset at a   *)
(* wrapper.                                                                *)
(***************************************************************************)
EXTENDS NetworkConfig

API3         == "API3Wrapper"
Thresholding == "API3WrapperWithThresholding"
Composite    == "API3CompositeWrapperWithThresholding"
Curve        == "CurveAPI3CompositeWrapperWithThresholding"
HardPeg      == "HardPegOracleWrapper"
Dex          == "DexOracleWrapper"
Aggregator   == "OracleAggregator"
Wrappers     == {API3, Thresholding, Composite, Curve, HardPeg, Dex}

Feed(wrapper, asset)   == <<"feed", wrapper, asset>>
Threshold(asset)       == <<"threshold", asset>>
CurvePool(asset)       == <<"curvePool", asset>>
Oracle(asset, wrapper) == <<"oracle", asset, wrapper>>

(* What a wrapper's getAssetPrice needs not to revert. *)
PriceOf(wrapper, asset) ==
    {Feed(wrapper, asset)}
        \union IF wrapper = Curve THEN {CurvePool(asset)} ELSE {}

setProxy(wrapper, asset)   == Send({Feed(wrapper, asset)})
addCompositeFeed(asset)    == Send({Feed(Composite, asset)})
setCurveFeed(asset) ==
    Send({CurvePool(asset)}) \o Send({Feed(Curve, asset)})
setThresholdedProxy(asset) ==
    setProxy(Thresholding, asset) \o Send({Threshold(asset)})

setOracle(asset, wrapper) ==
    SendTx({}, {}, {Oracle(asset, wrapper)},
           {Oracle(asset, w) : w \in Wrappers \ {wrapper}})

(* The price is read first: the script stops at a wrapper with none. *)
setCheckedOracle(asset, wrapper) ==
    Check(PriceOf(wrapper, asset)) \o setOracle(asset, wrapper)

pointAll(assets, wrapper) ==
    Get({wrapper})
      \o ForEach(assets, LAMBDA a : setCheckedOracle(a, wrapper))

-----------------------------------------------------------------------------
dexOracleWrapper(n) ==
    Script("DexOracleWrapper",
        {"oracle-aggregator", "oracle-wrapper", "dex-oracle-wrapper"}, <<>>,
        Only(isLocalNetwork(n),
            Get({"StaticOracleWrapper"}) \o deployContract(Dex, {})
              \o Get({Dex})))

hardPegOracleWrapper(n) ==
    Script("HardPegOracleWrapper",
        {"oracle-aggregator", "oracle-wrapper", "hard-peg-oracle-wrapper"}, <<>>,
        deployContract(HardPeg, {}))

api3OracleWrappers(n) ==
    Script(API3,
        {"oracle-aggregator", "oracle-wrapper", "api3-oracle-wrapper"}, <<>>,
        deployContract(API3, {})
          \o ForEach(getConfig(n).oracles.plain,
                     LAMBDA a : setProxy(API3, a))
          \o deployContract(Composite, {})
          \o ForEach(getConfig(n).oracles.composite, addCompositeFeed))

oracleAggregator(n) ==
    Script(Aggregator, {"oracle-aggregator"}, <<"oracle-wrapper">>,
        deployContract(Aggregator, {}) \o Get({HardPeg})
          \o setOracle(getConfig(n).oracles.dUSD, HardPeg))

pointDexOracleWrappers(n) ==
    Script("POINT_DEX_ORACLE_WRAPPER",
        {"point-dex-oracle-wrapper", "oracle-aggregator"}, <<Aggregator>>,
        Only(isLocalNetwork(n),
            Get({Aggregator, Dex})
              \o ForEach(getConfig(n).oracles.dex, LAMBDA a :
                    IF a = getConfig(n).oracles.dUSD THEN Throw
                    ELSE setOracle(a, Dex))))

pointApi3OracleWrappers(n) ==
    Script("POINT_API3_ORACLE_WRAPPER",
        {"point-api3-oracle-wrapper", "oracle-aggregator"}, <<Aggregator>>,
        Get({Aggregator})
          \o pointAll(getConfig(n).oracles.plain, API3)
          \o pointAll(getConfig(n).oracles.composite, Composite))

-----------------------------------------------------------------------------
curveOracleWrapper(n) ==
    Script(Curve,
        {"oracle-aggregator", "oracle-wrapper", "curve-oracle-wrapper"}, <<>>,
        deployContract(Curve, {})
          \o ForEach(getConfig(n).oracles.curve, setCurveFeed))

pointCurveOracleWrappers(n) ==
    Script("PointCurveOracleWrapper",
        {"point-curve-oracle-wrapper", "oracle-aggregator"}, <<Aggregator>>,
        Get({Aggregator}) \o pointAll(getConfig(n).oracles.curve, Curve))

(* The proxy is set and the price read at once: a proxy that is not mined  *)
(* yet stops the script.  USDT is no plain feed of the configuration.      *)
addUsdt(n) ==
    Script("PointApi3UsdtOracleWrapper",
        {"point-api3-oracle-wrapper", "oracle-aggregator",
         "point-api3-usdt"}, <<API3, Aggregator>>,
        Only(isMainnetNetwork(n),
            (IF "USDT" \in getConfig(n).oracles.plain THEN <<>> ELSE Throw)
              \o Get({API3}) \o setProxy(API3, "USDT")
              \o Check(PriceOf(API3, "USDT")) \o Get({Aggregator})
              \o setOracle("USDT", API3) \o Check({Oracle("USDT", API3)})))

(* The wrappers again, those deployed already being kept. *)
newApi3Wrappers(n) ==
    Script("Api3MigrationSetupNewWrappers",
        {"api3-migration-202501", "api3-wrapper-deployment-202501",
         "oracle-wrapper", "api3-oracle-wrapper"}, <<>>,
        deployContract(API3, {})
          \o ForEach(getConfig(n).oracles.plain,
                     LAMBDA a : setProxy(API3, a))
          \o deployContract(Thresholding, {})
          \o ForEach(getConfig(n).oracles.thresholding, setThresholdedProxy)
          \o deployContract(Composite, {})
          \o ForEach(getConfig(n).oracles.composite, addCompositeFeed)
          \o deployContract(Curve, {})
          \o ForEach(getConfig(n).oracles.curve, setCurveFeed))

pointNewApi3Wrappers(n) ==
    Script("Api3MigrationPointNewWrappers",
        {"api3-migration-202501", "api3-pointing-202501",
         "oracle-aggregator", "point-api3-oracle-wrapper"},
        <<"Api3MigrationSetupNewWrappers", Aggregator>>,
        Get({Aggregator})
          \o pointAll(getConfig(n).oracles.plain, API3)
          \o pointAll(getConfig(n).oracles.thresholding, Thresholding)
          \o pointAll(getConfig(n).oracles.composite, Composite)
          \o pointAll(getConfig(n).oracles.curve, Curve))

(* configureAssetsByOracleType: the feeds added in February 2025. *)
addedThresholding == {"crvUSD", "FRAX"}
addedComposite    == {"scrvUSD", "sDAI"}
addedCurve        == {"FXB20551231", "FXB20251231"}

configureNewReserveWrappers(n) ==
    LET oracles == getConfig(n).oracles IN
    Script("DeployNewOracleWrappers202502",
        {"oracle-wrapper", "api3-oracle-wrapper", "curve-oracle-wrapper"}, <<>>,
        Only(isMainnetNetwork(n),
            Get({Thresholding})
              \o ForEach(oracles.thresholding \intersect addedThresholding,
                         setThresholdedProxy)
              \o Get({Composite})
              \o ForEach(oracles.composite \intersect addedComposite,
                         addCompositeFeed)
              \o Get({Curve})
              \o ForEach(oracles.curve \intersect addedCurve, setCurveFeed)))

pointNewReserveWrappers(n) ==
    LET oracles == getConfig(n).oracles IN
    Script("PointNewOracleWrappers202502",
        {"oracle-aggregator", "point-api3-oracle-wrapper",
         "point-curve-oracle-wrapper"},
        <<"DeployNewOracleWrappers202502", Aggregator>>,
        Only(isMainnetNetwork(n),
            Get({Aggregator})
              \o pointAll(oracles.thresholding \intersect addedThresholding,
                          Thresholding)
              \o pointAll(oracles.composite \intersect addedComposite,
                          Composite)
              \o pointAll(oracles.curve \intersect addedCurve, Curve)))

updateSfrxUSD(n) ==
    Script("UpdateSfrxUSDOracleWrapper",
        {"oracle-wrapper", "api3-oracle-wrapper", "update-sfrax-to-sfrxUSD"},
        <<>>,
        Only(isMainnetNetwork(n),
            Get({Composite})
              \o ForEach(getConfig(n).oracles.composite \intersect {"sfrxUSD"},
                         addCompositeFeed)))

oracleScripts(n) ==
    <<dexOracleWrapper(n), hardPegOracleWrapper(n), api3OracleWrappers(n),
      oracleAggregator(n), pointDexOracleWrappers(n),
      pointApi3OracleWrappers(n)>>
=============================================================================
