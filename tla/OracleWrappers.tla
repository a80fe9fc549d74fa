--------------------------- MODULE OracleWrappers ---------------------------
(***************************************************************************)
(* oracle_aggregator/wrapper: contracts that turn what price feeds report  *)
(* into prices in units of the base currency, and refuse to when a feed    *)
(* has gone silent.  One contract of each kind is deployed:                *)
(*   api3       API3WrapperWithThresholding (API3Wrapper when an asset has *)
(*              no threshold): one feed                                    *)
(*   composite  API3CompositeWrapperWithThresholding: two feeds multiplied *)
(*   curve      CurveAPI3CompositeWrapperWithThresholding: a Curve pool's  *)
(*              price, multiplied by a feed when one is set                *)
(*   peg        HardPegOracleWrapper                                       *)
(* A call that reverts and one that says "not alive" are the same: the     *)
(* aggregator's getAssetPrice reverts on both.                             *)
(***************************************************************************)
EXTENDS Integers, Sequences

CONSTANTS
    Asset,
    Proxy,                     \* API3 feeds
    Pool,                      \* Curve pools
    NoAddress,                 \* address(0)
    Reported,                  \* what each feed may report; 0 for any number <= 0
    PoolPrice,                 \* what a pool's price_oracle may return
    Coins,                     \* a pool's coins
    StoredRates,               \* a pool's stored_rates
    ThresholdConfig,           \* thresholds managers set (bound)
    StaleTimeLimit,            \* limits managers set (bound)
    CurveStaleTimeLimit,       \* the Curve wrapper's, which nobody can set
    API3_HEARTBEAT,
    API3_BASE_CURRENCY_UNIT,   \* also CURVE_BASE_CURRENCY_UNIT
    CURVE_RATE_PRECISION,
    BASE_CURRENCY_UNIT,
    pricePeg,
    MaxAge                     \* ages from here on are not told apart

ASSUME FeedsAssumption ==
    /\ NoAddress \notin Asset \union Proxy \union Pool
    /\ \A p \in Proxy : Reported[p] \subseteq Nat
    /\ PoolPrice \subseteq Nat
    /\ Coins \in [Pool -> Seq(Asset)]
    /\ StoredRates \in [Pool -> Seq(Nat)]
    /\ ThresholdConfig \subseteq [lowerThresholdInBase : Nat, fixedPriceInBase : Nat]
    /\ StaleTimeLimit \union {CurveStaleTimeLimit, API3_HEARTBEAT} \subseteq Nat
    /\ {API3_BASE_CURRENCY_UNIT, CURVE_RATE_PRECISION, BASE_CURRENCY_UNIT}
            \subseteq Nat \ {0}
    /\ pricePeg \in Nat
    /\ MaxAge \in Nat
    /\ \A l \in StaleTimeLimit \union {CurveStaleTimeLimit} :
           API3_HEARTBEAT + l <= MaxAge

VARIABLES
    feed,                      \* [value, age] of each API3 feed
    poolPrice,                 \* price_oracle of each pool
    heartbeatStaleTimeLimit,   \* of the two API3 wrappers
    assetToProxy, assetThresholds,   \* api3
    compositeFeeds,                  \* composite
    assetConfigs, curveFeeds         \* curve; the latter its compositeFeeds

sourceVars  == <<feed, poolPrice>>
api3Vars    == <<assetToProxy, assetThresholds>>
curveVars   == <<assetConfigs, curveFeeds>>
wrapperVars == <<heartbeatStaleTimeLimit, api3Vars, compositeFeeds, curveVars>>

NoThreshold == [lowerThresholdInBase |-> 0, fixedPriceInBase |-> 0]
NoFeed      == [proxy1 |-> NoAddress, proxy2 |-> NoAddress,
                primaryThreshold |-> NoThreshold, secondaryThreshold |-> NoThreshold]
NoConfig    == [pool |-> NoAddress, tokenIndex |-> 0]
NoCurveFeed == [api3Asset |-> NoAddress, api3Proxy |-> NoAddress,
                curveThreshold |-> NoThreshold, api3Threshold |-> NoThreshold]

Threshold == [lowerThresholdInBase : Nat, fixedPriceInBase : Nat]

WrappersTypeOK ==
    /\ feed \in [Proxy -> [value : Nat, age : 0 .. MaxAge]]
    /\ poolPrice \in [Pool -> Nat]
    /\ heartbeatStaleTimeLimit \in [{"api3", "composite"} -> Nat]
    /\ assetToProxy \in [Asset -> Proxy \union {NoAddress}]
    /\ assetThresholds \in [Asset -> Threshold]
    /\ compositeFeeds \in [Asset ->
           [proxy1 : Proxy \union {NoAddress}, proxy2 : Proxy \union {NoAddress},
            primaryThreshold : Threshold, secondaryThreshold : Threshold]]
    /\ assetConfigs \in [Asset -> [pool : Pool \union {NoAddress}, tokenIndex : {0, 1}]]
    /\ curveFeeds \in [Asset ->
           [api3Asset : Asset, api3Proxy : Proxy,
            curveThreshold : Threshold, api3Threshold : Threshold]
           \union {NoCurveFeed}]

CompositeFeed(p1, p2, t1, t2) ==
    [proxy1 |-> p1, proxy2 |-> p2, primaryThreshold |-> t1, secondaryThreshold |-> t2]

-----------------------------------------------------------------------------
(* Feeds and pools *)

Report(p, n) ==
    /\ n \in Reported[p]
    /\ feed' = [feed EXCEPT ![p] = [value |-> n, age |-> 0]]
    /\ UNCHANGED <<poolPrice, wrapperVars>>

PoolMoves(q, n) ==
    /\ poolPrice' = [poolPrice EXCEPT ![q] = n]
    /\ UNCHANGED <<feed, wrapperVars>>

TimePasses ==
    /\ feed' = [p \in Proxy |-> [feed[p] EXCEPT !.age = IF @ < MaxAge THEN @ + 1 ELSE @]]
    /\ UNCHANGED <<poolPrice, wrapperVars>>

-----------------------------------------------------------------------------
(* Prices *)

IsFresh(p, limit) == feed[p].age < API3_HEARTBEAT + limit

_convertToBaseCurrencyUnit(n) == (n * BASE_CURRENCY_UNIT) \div API3_BASE_CURRENCY_UNIT

_applyThreshold(n, config) ==
    IF config.lowerThresholdInBase > 0 /\ n > config.lowerThresholdInBase
    THEN config.fixedPriceInBase ELSE n

\* The price is tested before it is converted: a tiny one is alive at 0.
API3Alive(a) ==
    /\ assetToProxy[a] # NoAddress
    /\ feed[assetToProxy[a]].value > 0
    /\ IsFresh(assetToProxy[a], heartbeatStaleTimeLimit["api3"])

API3Price(a) ==
    _applyThreshold(_convertToBaseCurrencyUnit(feed[assetToProxy[a]].value),
                    assetThresholds[a])

\* Each feed under the other's threshold: a bug the checks must find.
CompositePriceSwapped(a) ==
    LET f == compositeFeeds[a]
        priceInBase1 == _applyThreshold(
            _convertToBaseCurrencyUnit(feed[f.proxy1].value), f.secondaryThreshold)
        priceInBase2 == _applyThreshold(
            _convertToBaseCurrencyUnit(feed[f.proxy2].value), f.primaryThreshold)
    IN  (priceInBase1 * priceInBase2) \div BASE_CURRENCY_UNIT

CompositePrice(a) ==
    LET f == compositeFeeds[a]
        priceInBase1 == _applyThreshold(
            _convertToBaseCurrencyUnit(feed[f.proxy1].value), f.primaryThreshold)
        priceInBase2 == _applyThreshold(
            _convertToBaseCurrencyUnit(feed[f.proxy2].value), f.secondaryThreshold)
    IN  (priceInBase1 * priceInBase2) \div BASE_CURRENCY_UNIT

feedSet(a) == NoAddress \notin {compositeFeeds[a].proxy1, compositeFeeds[a].proxy2}

\* The composite that looks at the first feed's timestamp only: a bug the
\* checks must find.
CompositeAliveByFirst(a) ==
    /\ feedSet(a)
    /\ CompositePrice(a) > 0
    /\ IsFresh(compositeFeeds[a].proxy1, heartbeatStaleTimeLimit["composite"])

CompositeAlive(a) ==
    /\ feedSet(a)
    /\ CompositePrice(a) > 0
    /\ IsFresh(compositeFeeds[a].proxy1, heartbeatStaleTimeLimit["composite"])
    /\ IsFresh(compositeFeeds[a].proxy2, heartbeatStaleTimeLimit["composite"])

\* price_oracle is of the second coin in terms of the first.
poolPriceInBase(a) ==
    LET config   == assetConfigs[a]
        unscaled == IF config.tokenIndex > 0 THEN poolPrice[config.pool]
                    ELSE (API3_BASE_CURRENCY_UNIT * API3_BASE_CURRENCY_UNIT)
                         \div poolPrice[config.pool]
        rates    == StoredRates[config.pool]
    IN  _convertToBaseCurrencyUnit(
            IF Len(rates) <= config.tokenIndex THEN unscaled
            ELSE (rates[config.tokenIndex + 1] * unscaled) \div CURVE_RATE_PRECISION)

\* The product is not tested: it may be alive at 0.  Without a feed of API3 the
\* price is the pool's, in terms of its other coin.
CurveAlive(a) ==
    /\ assetConfigs[a].pool # NoAddress
    /\ assetConfigs[a].tokenIndex = 0 => poolPrice[assetConfigs[a].pool] > 0
    /\ poolPriceInBase(a) > 0
    /\ curveFeeds[a].api3Asset # NoAddress =>
           /\ feed[curveFeeds[a].api3Proxy].value > 0
           /\ IsFresh(curveFeeds[a].api3Proxy, CurveStaleTimeLimit)

CurvePrice(a) ==
    LET f == curveFeeds[a]
        curvePriceInBase == _applyThreshold(poolPriceInBase(a), f.curveThreshold)
    IN  IF f.api3Asset = NoAddress THEN curvePriceInBase
        ELSE (curvePriceInBase * _applyThreshold(
                  _convertToBaseCurrencyUnit(feed[f.api3Proxy].value), f.api3Threshold))
             \div BASE_CURRENCY_UNIT

-----------------------------------------------------------------------------
(* Oracle managers *)

setHeartbeatStaleTimeLimit(wrapper, limit) ==
    /\ heartbeatStaleTimeLimit' = [heartbeatStaleTimeLimit EXCEPT ![wrapper] = limit]
    /\ UNCHANGED <<sourceVars, api3Vars, compositeFeeds, curveVars>>

setProxy(a, p) ==
    /\ assetToProxy' = [assetToProxy EXCEPT ![a] = p]
    /\ UNCHANGED <<sourceVars, heartbeatStaleTimeLimit, assetThresholds, compositeFeeds,
                   curveVars>>

setThresholdConfig(a, t) ==
    /\ assetThresholds' = [assetThresholds EXCEPT ![a] = t]
    /\ UNCHANGED <<sourceVars, heartbeatStaleTimeLimit, assetToProxy, compositeFeeds,
                   curveVars>>

removeThresholdConfig(a) == setThresholdConfig(a, NoThreshold)

addCompositeFeed(a, p1, p2, t1, t2) ==
    /\ compositeFeeds' = [compositeFeeds EXCEPT ![a] = CompositeFeed(p1, p2, t1, t2)]
    /\ UNCHANGED <<sourceVars, heartbeatStaleTimeLimit, api3Vars, curveVars>>

removeCompositeFeed(a) ==
    /\ compositeFeeds' = [compositeFeeds EXCEPT ![a] = NoFeed]
    /\ UNCHANGED <<sourceVars, heartbeatStaleTimeLimit, api3Vars, curveVars>>

updateCompositeFeed(a, t1, t2) ==
    /\ feedSet(a)
    /\ compositeFeeds' = [compositeFeeds EXCEPT ![a].primaryThreshold = t1,
                                                ![a].secondaryThreshold = t2]
    /\ UNCHANGED <<sourceVars, heartbeatStaleTimeLimit, api3Vars, curveVars>>

\* A pool has two coins, one of which is the asset.
setAssetConfig(a, q) ==
    /\ Len(Coins[q]) = 2
    /\ \E i \in 1 .. 2 :
           /\ Coins[q][i] = a
           /\ assetConfigs' = [assetConfigs EXCEPT ![a] = [pool |-> q, tokenIndex |-> i - 1]]
    /\ UNCHANGED <<sourceVars, heartbeatStaleTimeLimit, api3Vars, compositeFeeds, curveFeeds>>

\* The asset's feed of API3 stays and applies to the next pool.
removeAssetConfig(a) ==
    /\ assetConfigs' = [assetConfigs EXCEPT ![a] = NoConfig]
    /\ UNCHANGED <<sourceVars, heartbeatStaleTimeLimit, api3Vars, compositeFeeds, curveFeeds>>

setCurveFeed(a, b, p, t1, t2) ==
    /\ assetConfigs[a].pool # NoAddress
    /\ feed[p].value > 0
    /\ IsFresh(p, CurveStaleTimeLimit)
    /\ curveFeeds' = [curveFeeds EXCEPT ![a] =
           [api3Asset |-> b, api3Proxy |-> p, curveThreshold |-> t1, api3Threshold |-> t2]]
    /\ UNCHANGED <<sourceVars, heartbeatStaleTimeLimit, api3Vars, compositeFeeds, assetConfigs>>

removeCurveFeed(a) ==
    /\ curveFeeds' = [curveFeeds EXCEPT ![a] = NoCurveFeed]
    /\ UNCHANGED <<sourceVars, heartbeatStaleTimeLimit, api3Vars, compositeFeeds, assetConfigs>>
=============================================================================
