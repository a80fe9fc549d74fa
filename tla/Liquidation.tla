---------------------------- MODULE Liquidation -----------------------------
(***************************************************************************)
(* A liquidator contract, the oracle aggregator it and dLEND read, and the *)
(* feeds behind that: callers liquidate while feeds report or go silent    *)
(* and managers and the owner change settings.                             *)
(***************************************************************************)
EXTENDS Liquidator

CONSTANTS
    OracleOf, ProxyOf, CompositeOf, ConfigOf, ThresholdOf,  \* as deployed
    FirstValue,                                             \* of the feeds
    RedeemerOf,
    Deployed,      \* which of the six contracts
    Managed,       \* assets whose settings change (bound)
    MaxChanges     \* changes of settings in a behaviour (bound)

VARIABLE changes

vars == <<oracleVars, liquidatorVars, lastCall, changes>>

ASSUME DeploymentAssumption ==
    /\ OracleOf \in [Asset -> Wrapper \union {NoAddress}]
    /\ ProxyOf \in [Asset -> Proxy \union {NoAddress}]
    /\ CompositeOf \in [Asset ->
           [proxy1 : Proxy \union {NoAddress}, proxy2 : Proxy \union {NoAddress},
            primaryThreshold : Threshold, secondaryThreshold : Threshold]]
    /\ ConfigOf \in [Asset -> [pool : Pool \union {NoAddress}, tokenIndex : {0, 1}]]
    /\ ThresholdOf \in [Asset -> Threshold]
    /\ FirstValue \in [Proxy -> Nat]
    /\ RedeemerOf \in [Asset -> Redeemer4626 \union {NoAddress}]
    /\ Deployed \subseteq {"mint", "loan"} \X {"uniswap", "odos", "curve"}
    /\ Managed \subseteq Asset
    /\ MaxChanges \in Nat

LiquidatorTypeOK ==
    /\ lender \in {"mint", "loan"}
    /\ venue \in {"uniswap", "odos", "curve"}
    /\ stock \in [Asset -> Balance]
    /\ slippageTolerance \in Nat
    /\ proxyContractMap \in [Asset -> Redeemer4626 \union {NoAddress}]
    /\ swapParams \subseteq (SUBSET Asset) \ {{t} : t \in Asset}
    /\ approved \subseteq Asset
    /\ lastCall \in [borrowed : Asset \union {NoAddress}, paid : BOOLEAN, brought : BOOLEAN]

TypeOK ==
    /\ WrappersTypeOK
    /\ assetOracles \in [Asset -> Wrapper \union {NoAddress}]
    /\ LiquidatorTypeOK
    /\ changes \in 0 .. MaxChanges

Init ==
    /\ feed = [p \in Proxy |-> [value |-> FirstValue[p], age |-> 0]]
    /\ poolPrice \in [Pool -> PoolPrice]
    /\ heartbeatStaleTimeLimit \in [{"api3", "composite"} -> {CurveStaleTimeLimit}]
    /\ assetToProxy = ProxyOf
    /\ assetThresholds = ThresholdOf
    /\ compositeFeeds = CompositeOf
    /\ assetConfigs = ConfigOf
    /\ curveFeeds = [a \in Asset |-> NoCurveFeed]
    /\ assetOracles = OracleOf
    /\ \E d \in Deployed : lender = d[1] /\ venue = d[2]
    /\ stock = [t \in Asset |-> 0]
    /\ slippageTolerance \in SlippageTolerance   \* the constructor takes any
    /\ proxyContractMap = RedeemerOf
    /\ swapParams = {}
    /\ approved = {}
    /\ lastCall = NoLoan
    /\ changes = 0

FeedsMove ==
    /\ \/ \E p \in Proxy : \E n \in Reported[p] : Report(p, n)
       \/ \E q \in Pool, n \in PoolPrice : PoolMoves(q, n)
       \/ TimePasses
    /\ UNCHANGED <<assetOracles, liquidatorVars, changes>>

WrapperSet ==
    \/ \E w \in {"api3", "composite"}, l \in StaleTimeLimit :
           setHeartbeatStaleTimeLimit(w, l)
    \/ \E a \in Managed, p \in Proxy \union {NoAddress} : setProxy(a, p)
    \/ \E a \in Managed, t \in ThresholdConfig : setThresholdConfig(a, t)
    \/ \E a \in Managed : removeThresholdConfig(a)
    \/ \E a \in Managed, p1, p2 \in Proxy, t1, t2 \in ThresholdConfig :
           addCompositeFeed(a, p1, p2, t1, t2)
    \/ \E a \in Managed : removeCompositeFeed(a)
    \/ \E a \in Managed, t1, t2 \in ThresholdConfig \union {NoThreshold} :
           updateCompositeFeed(a, t1, t2)
    \/ \E a \in Managed, q \in Pool : setAssetConfig(a, q)
    \/ \E a \in Managed : removeAssetConfig(a)
    \/ \E a, b \in Managed, p \in Proxy, t1, t2 \in ThresholdConfig :
           setCurveFeed(a, b, p, t1, t2)
    \/ \E a \in Managed : removeCurveFeed(a)

ManagerSets ==
    /\ changes < MaxChanges
    /\ changes' = changes + 1
    /\ \/ WrapperSet /\ UNCHANGED assetOracles
       \/ \E a \in Managed, w \in Wrapper : setOracle(a, w)
       \/ \E a \in Managed : removeOracle(a)
    /\ UNCHANGED liquidatorVars

OwnerSets ==
    /\ changes < MaxChanges
    /\ changes' = changes + 1
    /\ \/ \E n \in SlippageTolerance : setSlippageTolerance(n)
       \/ \E t \in Managed :
              \E v \in {v \in Redeemer4626 : share[v] = t} \union {NoAddress} :
                  setProxyContract(t, v)
       \/ \E t, u \in Asset : t # u /\ setSwapExtraParams(t, u)
    /\ UNCHANGED oracleVars

Liquidate ==
    \E debt, coll \in Asset, n \in Amount : \E paid \in 1 .. n :
        \/ liquidateFromBalance(debt, coll, n, paid)
        \/ \E unstake, stake \in BOOLEAN :
               liquidateWithFlashLoan(debt, coll, n, paid, unstake, stake)

StockMoves ==
    \/ \E v \in Redeemer4626, n \in Amount : redeemERC4626Token(v, n)
    \/ \E t \in Asset, n \in Amount : receive(t, n) \/ withdraw(t, n)

Call ==
    /\ Liquidate \/ StockMoves
    /\ \A t \in Asset : stock'[t] <= MaxBalance
    /\ UNCHANGED <<oracleVars, changes>>

Next ==
    \/ (FeedsMove \/ ManagerSets \/ OwnerSets) /\ lastCall' = NoLoan
    \/ Call

Spec == Init /\ [][Next]_vars

-----------------------------------------------------------------------------

\* A call that pays its caller takes nothing for it from what the contract had,
\* as long as its sale brings what it is to bring for what it is to sell: not the
\* seized collateral's price, nor the loan's premium, nor the shares that lie in
\* the contract are paid for by anybody but that liquidation.  Of a sale at Uniswap
\* or Odos the code makes sure of neither; at Curve the owner's routes do.
PaidOnlyFromGain ==
    [][lastCall'.paid /\ lastCall'.brought =>
           \A t \in Asset : stock'[t] >= stock[t]]_vars

\* A liquidation with a flash loan whose sale brings what it is to bring leaves the
\* contract at least as much of the borrowed token as it had, however little dLEND
\* takes of what is offered and whatever the premium: what the sale is asked for is
\* enough.  (The balance that is checked after it includes what the contract had.)
LoanPaysForItself ==
    [][lastCall'.borrowed # NoAddress /\ lastCall'.brought =>
           stock'[lastCall'.borrowed] >= stock[lastCall'.borrowed]]_vars
=============================================================================
