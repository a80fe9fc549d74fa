-------------------------- MODULE OracleAggregator --------------------------
(***************************************************************************)
(* OracleAggregator.sol: which wrapper prices an asset.  Everybody else,   *)
(* dLEND and the liquidators here, reads getAssetPrice.                    *)
(***************************************************************************)
EXTENDS OracleWrappers

CONSTANT WrapperUnit    \* BASE_CURRENCY_UNIT of each wrapper

Wrapper == {"api3", "composite", "curve", "peg"}

VARIABLE assetOracles   \* asset -> wrapper, NoAddress for none

oracleVars == <<sourceVars, wrapperVars, assetOracles>>

\* A wrapper that counts in another unit is refused.
setOracle(a, w) ==
    /\ WrapperUnit[w] = BASE_CURRENCY_UNIT
    /\ assetOracles' = [assetOracles EXCEPT ![a] = w]
    /\ UNCHANGED <<sourceVars, wrapperVars>>

removeOracle(a) ==
    /\ assetOracles' = [assetOracles EXCEPT ![a] = NoAddress]
    /\ UNCHANGED <<sourceVars, wrapperVars>>

\* getAssetPrice(a) does not revert.
isAlive(a) ==
    \/ assetOracles[a] = "api3" /\ API3Alive(a)
    \/ assetOracles[a] = "composite" /\ CompositeAlive(a)
    \/ assetOracles[a] = "curve" /\ CurveAlive(a)
    \/ assetOracles[a] = "peg"

getAssetPrice(a) ==
    CASE assetOracles[a] = "api3"      -> API3Price(a)
      [] assetOracles[a] = "composite" -> CompositePrice(a)
      [] assetOracles[a] = "curve"     -> CurvePrice(a)
      [] assetOracles[a] = "peg"       -> pricePeg

-----------------------------------------------------------------------------
(* What a price is made from *)

\* The feeds of API3 behind an asset's price, each with its time limit.
FeedsBehind(a) ==
    CASE assetOracles[a] = "api3" ->
             {<<assetToProxy[a], heartbeatStaleTimeLimit["api3"]>>}
      [] assetOracles[a] = "composite" ->
             {compositeFeeds[a].proxy1, compositeFeeds[a].proxy2}
             \X {heartbeatStaleTimeLimit["composite"]}
      [] assetOracles[a] = "curve" ->
             {<<curveFeeds[a].api3Proxy, CurveStaleTimeLimit>>}
             \ {<<NoAddress, CurveStaleTimeLimit>>}
      [] assetOracles[a] = "peg" -> {}

\* Whatever managers set and however feeds come and go, an asset has a price
\* only while every feed the price is made from has reported a positive number
\* within its time limit: one live feed never carries a silent one.
PricedByLiveFeeds ==
    \A a \in Asset : isAlive(a) =>
        \A f \in FeedsBehind(a) : feed[f[1]].value > 0 /\ IsFresh(f[1], f[2])

\* The most a feed counts for.
Capped(n, config) ==
    IF config.lowerThresholdInBase = 0 THEN n
    ELSE IF config.lowerThresholdInBase > config.fixedPriceInBase
         THEN config.lowerThresholdInBase ELSE config.fixedPriceInBase

\* A composite price never exceeds the product of its feeds' caps, each feed
\* under its own: a depegged or manipulated feed cannot raise an asset above
\* what its thresholds allow, after any updates of the thresholds.
CapsHold ==
    \A a \in Asset : assetOracles[a] = "composite" /\ isAlive(a) =>
        LET f == compositeFeeds[a]
        IN  getAssetPrice(a) * BASE_CURRENCY_UNIT
                <= Capped(_convertToBaseCurrencyUnit(feed[f.proxy1].value), f.primaryThreshold)
                   * Capped(_convertToBaseCurrencyUnit(feed[f.proxy2].value), f.secondaryThreshold)
=============================================================================
