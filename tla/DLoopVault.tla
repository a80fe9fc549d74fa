----------------------------- MODULE DLoopVault -----------------------------
(***************************************************************************)
(* DLoopVaultBase.sol: an ERC4626 vault that holds a leveraged position in *)
(* dLEND.  A deposit flash-borrows dUSD, swaps it for more of the asset,   *)
(* supplies all of it and borrows the dUSD back; a redemption does the     *)
(* reverse.  Anybody may move the leverage towards its target for a        *)
(* subsidy.                                                                *)
(*                                                                         *)
(* The flash loan is repaid in the transaction that takes it and leaves no *)
(* state; dLEND is what the vault uses of it, one position.  A swap costs  *)
(* anything from the best price to the maximum it is given.  Tokens that   *)
(* the vault itself holds by accident are not tracked.                     *)
(***************************************************************************)
EXTENDS Totals

CONSTANTS
    Owner,                  \* holders of shares
    ONE_HUNDRED_PERCENT_BPS,
    TARGET_LEVERAGE_BPS,
    LtvBps,                 \* what dLEND lends on collateral
    AssetUnit, DusdUnit,    \* 10 ** decimals
    DusdPrice,              \* the lending oracle's price of dUSD
    Price,                  \* prices it may report for the asset
    MaxSubsidyBps,          \* values of the maximum subsidy
    BestSwapBps,            \* the least a swap takes of what the oracle estimates
    SlippageTolerance,      \* tolerances callers pass, defaults included
    MinAssets, MinShares,   \* underlyingAssetMinimumAmount, sharesMinimumAmount
    Amount,                 \* amounts callers pass (bound)
    MaxPosition             \* largest collateral, debt and supply (bound)

Bps == ONE_HUNDRED_PERCENT_BPS
LOWER_BOUND_TARGET_LEVERAGE_BPS == TARGET_LEVERAGE_BPS \div 2
UPPER_BOUND_TARGET_LEVERAGE_BPS == TARGET_LEVERAGE_BPS * 2

ASSUME VaultAssumption ==
    /\ IsFiniteSet(Owner)
    /\ ONE_HUNDRED_PERCENT_BPS \in Nat \ {0}
    /\ TARGET_LEVERAGE_BPS \in Nat
    /\ TARGET_LEVERAGE_BPS >= ONE_HUNDRED_PERCENT_BPS
    /\ LtvBps \in 1 .. ONE_HUNDRED_PERCENT_BPS
    /\ {AssetUnit, DusdUnit, DusdPrice} \cup Price \subseteq Nat \ {0}
    /\ BestSwapBps \in 0 .. ONE_HUNDRED_PERCENT_BPS
    /\ MaxSubsidyBps \cup SlippageTolerance \cup Amount \subseteq Nat
    /\ {MinAssets, MinShares, MaxPosition} \subseteq Nat

VARIABLES
    collateral,   \* the vault's dToken balance
    debt,         \* what it owes in dUSD
    price,        \* the asset's price
    shares,       \* balances of the vault's own token
    maxSubsidy,   \* _defaultMaxSubsidyBps
    outcome       \* the error a redemption just reverted with, if any

position == <<collateral, debt>>
vars     == <<collateral, debt, price, shares, maxSubsidy, outcome>>

Errors == {"InsufficientShareBalanceToRedeem", "NotEnoughAvailableUserBalance"}

supply == Total(shares, Owner)

TypeOK ==
    /\ collateral \in 0 .. MaxPosition
    /\ debt \in 0 .. MaxPosition
    /\ price \in Price
    /\ shares \in [Owner -> 0 .. MaxPosition]
    /\ maxSubsidy \in MaxSubsidyBps
    /\ outcome \in Errors \cup {"none"}

Init ==
    /\ collateral = 0 /\ debt = 0
    /\ price \in Price
    /\ shares = [u \in Owner |-> 0]
    /\ maxSubsidy \in MaxSubsidyBps
    /\ outcome = "none"

-----------------------------------------------------------------------------
(* Values and conversions *)

assetBase(n) == (n * price) \div AssetUnit
dusdBase(n)  == (n * DusdPrice) \div DusdUnit

totalCollateralBase == assetBase(collateral)
totalDebtBase       == dusdBase(debt)
Solvent             == totalCollateralBase >= totalDebtBase

assetToDusd(n) == (n * price * DusdUnit) \div (DusdPrice * AssetUnit)
dusdToAsset(n) == (n * DusdPrice * AssetUnit) \div (price * DusdUnit)

\* What could be withdrawn with d of debt left.
maxWithdraw(d) == ((totalCollateralBase - dusdBase(d)) * AssetUnit) \div price
totalAssets    == maxWithdraw(debt)

convertToShares(assets) ==
    IF supply = 0 THEN assets ELSE (assets * (supply + 1)) \div (totalAssets + 1)

\* A bug the checks must find: the shares are burnt before they are valued.
valuedAfterBurn(n) ==
    IF n > supply THEN 0 ELSE (n * (totalAssets + 1)) \div (supply - n + 1)

convertToAssets(n) == (n * (totalAssets + 1)) \div (supply + 1)

\* type(uint256).max when nothing but debt is left: beyond every bound.
getCurrentLeverageBps ==
    IF totalCollateralBase = 0 THEN 0
    ELSE IF totalCollateralBase = totalDebtBase
    THEN UPPER_BOUND_TARGET_LEVERAGE_BPS + 1
    ELSE (totalCollateralBase * Bps) \div (totalCollateralBase - totalDebtBase)

isTooImbalanced ==
    /\ getCurrentLeverageBps # 0
    /\ \/ getCurrentLeverageBps < LOWER_BOUND_TARGET_LEVERAGE_BPS
       \/ getCurrentLeverageBps > UPPER_BOUND_TARGET_LEVERAGE_BPS

checkIsTooImbalanced == Solvent /\ ~isTooImbalanced

leveraged(assets) == (assets * TARGET_LEVERAGE_BPS) \div Bps

\* The most a swap may take of its input when n is estimated, and what it takes.
maxIn(n, tolerance) == (n * (Bps + tolerance)) \div Bps
_swapExactOutput(n, tolerance) ==
    {spent \in (n * BestSwapBps) \div Bps .. maxIn(n, tolerance) : maxIn(n, tolerance) > 0}

(* dLEND *)

Borrow(c, d, n) ==
    /\ n > 0
    /\ (dusdBase(d) + dusdBase(n)) * Bps <= LtvBps * assetBase(c)
    /\ collateral' = c
    /\ debt' = d + n
    /\ {c, d + n} \subseteq 0 .. MaxPosition

Healthy(c, d) == d = 0 \/ dusdBase(d) * Bps <= LtvBps * assetBase(c)

-----------------------------------------------------------------------------
(* Deposit and mint *)

\* _depositToPoolImplementation and its callback, on a position of c and d.
depositToPool(c, d, assets, tolerance) ==
    LET estimated == assetToDusd(leveraged(assets) - assets)
    IN  \E spent \in _swapExactOutput(estimated, tolerance) :
            Borrow(c + leveraged(assets), d, spent)

_deposit(u, assets, n, tolerance) ==
    /\ assets >= MinAssets
    /\ n >= MinShares
    /\ checkIsTooImbalanced
    /\ depositToPool(collateral, debt, assets, tolerance)
    /\ shares' = [shares EXCEPT ![u] = @ + n]
    /\ supply + n <= MaxPosition
    /\ outcome' = "none"
    /\ UNCHANGED <<price, maxSubsidy>>

deposit(u, assets, tolerance) ==
    /\ Solvent
    /\ supply = 0 \/ totalAssets > 0
    /\ _deposit(u, assets, convertToShares(assets), tolerance)

mint(u, n, tolerance) ==
    /\ Solvent
    /\ _deposit(u, convertToAssets(n), n, tolerance)

-----------------------------------------------------------------------------
(* Redeem and withdraw *)

assetsToRemove(assets) == leveraged(assets)
dusdToRepay(assets)    == assetToDusd(assetsToRemove(assets))

\* A bug the checks must find: the pool takes more than the debt.
repaidUncapped(assets) == dusdToRepay(assets)

repaid(assets) == IF dusdToRepay(assets) < debt THEN dusdToRepay(assets) ELSE debt

\* _getWithdrawAmountThatKeepCurrentLeverage, with everything for the maximum
\* integer, which the pool takes for everything.
withdrawable(assets) ==
    LET difference == maxWithdraw(debt - repaid(assets)) - totalAssets
        leverage   == getCurrentLeverageBps
    IN  IF leverage <= Bps
        THEN collateral
        ELSE (difference * leverage) \div (leverage - Bps)

\* Up to the withdrawal from the pool, which refuses more than there is.
redeemUpToWithdrawal(u, n, assets) ==
    /\ n >= MinShares
    /\ shares[u] >= n
    /\ assets >= MinAssets
    /\ checkIsTooImbalanced
    /\ repaid(assets) > 0
    /\ withdrawable(assets) > 0
    /\ withdrawable(assets) >= assetsToRemove(assets) \/ getCurrentLeverageBps <= Bps

redeemToRest(u, n, assets, tolerance, rest) ==
    LET w == withdrawable(assets)
        estimated == dusdToAsset(repaid(assets))
    IN  /\ redeemUpToWithdrawal(u, n, assets)
        /\ w <= collateral
        /\ Healthy(collateral - w, debt - repaid(assets))
        /\ w >= estimated
        /\ \E spent \in _swapExactOutput(estimated, tolerance) : rest = w - spent

\* The owner's shares are burnt first and their balance is checked after.  What
\* is left over after the swap goes back to the pool, leveraged.
_redeem(u, n, assets, tolerance) ==
    /\ shares[u] - n >= n
    /\ \E rest \in 0 .. MaxPosition :
           /\ redeemToRest(u, n, assets, tolerance, rest)
           /\ LET c == collateral - withdrawable(assets)
                  d == debt - repaid(assets)
              IN  \/ /\ rest <= assets
                     /\ collateral' = c /\ debt' = d
                  \/ /\ rest > assets
                     /\ depositToPool(c, d, rest - assets, tolerance)
    /\ shares' = [shares EXCEPT ![u] = @ - n]
    /\ outcome' = "none"
    /\ UNCHANGED <<price, maxSubsidy>>

\* A redemption that reverts because of the late check of the balance, or
\* because the pool has less than is asked for.
_redeemReverts(u, n, assets, tolerance) ==
    /\ \/ /\ \E rest \in 0 .. MaxPosition :
                 redeemToRest(u, n, assets, tolerance, rest)
          /\ shares[u] - n < n
          /\ outcome' = "InsufficientShareBalanceToRedeem"
       \/ /\ redeemUpToWithdrawal(u, n, assets)
          /\ withdrawable(assets) > collateral
          /\ outcome' = "NotEnoughAvailableUserBalance"
    /\ UNCHANGED <<position, price, shares, maxSubsidy>>

\* redeem returns the assets its shares are worth, whatever it pays.
redeem(u, n, tolerance) ==
    /\ Solvent
    /\ _redeem(u, n, convertToAssets(n), tolerance)

withdraw(u, assets, tolerance) ==
    /\ Solvent
    /\ supply = 0 \/ totalAssets > 0
    /\ _redeem(u, convertToShares(assets), assets, tolerance)

redeemReverts(u, n, tolerance) ==
    /\ Solvent
    /\ _redeemReverts(u, n, convertToAssets(n), tolerance)

-----------------------------------------------------------------------------
(* Moving the leverage towards its target, for a subsidy that grows with the *)
(* distance.  With no equity the subsidy overflows; with no position the new *)
(* leverage divides by zero or underflows.                                   *)

distance ==
    LET leverage == getCurrentLeverageBps
    IN  IF leverage > TARGET_LEVERAGE_BPS
        THEN leverage - TARGET_LEVERAGE_BPS ELSE TARGET_LEVERAGE_BPS - leverage

_getCurrentSubsidyBps ==
    LET subsidyBps == (distance * Bps) \div TARGET_LEVERAGE_BPS
    IN  IF subsidyBps > maxSubsidy THEN maxSubsidy ELSE subsidyBps

subsidised(base) == (base * (Bps + _getCurrentSubsidyBps)) \div Bps

\* A bug the checks must find: the leverage may rise above the target.
increaseUnbounded(n) ==
    /\ totalCollateralBase > totalDebtBase
    /\ Borrow(collateral + n, debt, (subsidised(assetBase(n)) * DusdUnit) \div DusdPrice)
    /\ outcome' = "none"
    /\ UNCHANGED <<price, shares, maxSubsidy>>

\* The caller pays n of the asset and gets the borrowed dUSD.
increaseLeverage(n) ==
    LET supplied == assetBase(n)
        borrowed == subsidised(supplied)
        equity   == totalCollateralBase + supplied - totalDebtBase - borrowed
        newLeverageBps == ((totalCollateralBase + supplied) * Bps) \div equity
    IN  /\ totalCollateralBase > totalDebtBase
        /\ equity > 0
        /\ newLeverageBps <= TARGET_LEVERAGE_BPS
        /\ newLeverageBps > getCurrentLeverageBps
        /\ Borrow(collateral + n, debt, (borrowed * DusdUnit) \div DusdPrice)
        /\ outcome' = "none"
        /\ UNCHANGED <<price, shares, maxSubsidy>>

\* The caller pays n of dUSD, of which the pool takes at most the debt, and gets
\* the asset.
decreaseLeverage(n) ==
    LET repaidBase == dusdBase(n)
        withdrawn  == subsidised(repaidBase)
        equity     == totalCollateralBase - withdrawn - totalDebtBase + repaidBase
        newLeverageBps == ((totalCollateralBase - withdrawn) * Bps) \div equity
        assets == (withdrawn * AssetUnit) \div price
        left   == IF n < debt THEN debt - n ELSE 0
    IN  /\ totalCollateralBase > totalDebtBase
        /\ totalCollateralBase - withdrawn >= totalDebtBase
        /\ equity > 0
        /\ newLeverageBps >= TARGET_LEVERAGE_BPS
        /\ newLeverageBps < getCurrentLeverageBps
        /\ n > 0 /\ debt > 0
        /\ assets \in 1 .. collateral
        /\ Healthy(collateral - assets, left)
        /\ collateral' = collateral - assets
        /\ debt' = left
        /\ outcome' = "none"
        /\ UNCHANGED <<price, shares, maxSubsidy>>

-----------------------------------------------------------------------------
(* The owner *)

setMaxSubsidyBps(bps) ==
    /\ maxSubsidy' = bps
    /\ outcome' = "none"
    /\ UNCHANGED <<position, price, shares>>

\* rescueToken with the dToken: the pool lets the collateral go when there is no
\* debt on it.
rescueToken ==
    /\ debt = 0
    /\ collateral' = 0
    /\ outcome' = "none"
    /\ UNCHANGED <<debt, price, shares, maxSubsidy>>

-----------------------------------------------------------------------------
(* Everybody else: shares are transferred, prices and interest move, anybody *)
(* may supply or repay for the vault, and the pool liquidates.               *)

transfer(u, w, n) ==
    /\ u # w
    /\ shares[u] >= n
    /\ shares' = [shares EXCEPT ![u] = @ - n, ![w] = @ + n]
    /\ outcome' = "none"
    /\ UNCHANGED <<position, price, maxSubsidy>>

setPrice(p) ==
    /\ price' = p
    /\ outcome' = "none"
    /\ UNCHANGED <<position, shares, maxSubsidy>>

movePosition(c, d) ==
    /\ {c, d} \subseteq 0 .. MaxPosition
    /\ collateral' = c
    /\ debt' = d
    /\ outcome' = "none"
    /\ UNCHANGED <<price, shares, maxSubsidy>>

collateralGrows(n) == movePosition(collateral + n, debt)
debtGrows(n)       == debt > 0 /\ movePosition(collateral, debt + n)
debtRepaid(n)      == movePosition(collateral, debt - n)
liquidate(c, d) ==
    /\ ~Healthy(collateral, debt)
    /\ movePosition(collateral - c, debt - d)

-----------------------------------------------------------------------------
UserTolerating(tolerance) ==
    \E u \in Owner, n \in Amount :
        \/ deposit(u, n, tolerance)
        \/ mint(u, n, tolerance)
        \/ redeem(u, n, tolerance)
        \/ withdraw(u, n, tolerance)
        \/ redeemReverts(u, n, tolerance)

User == \E tolerance \in SlippageTolerance : UserTolerating(tolerance)

Rebalancer == \E n \in Amount : increaseLeverage(n) \/ decreaseLeverage(n)

VaultOwner == rescueToken \/ \E bps \in MaxSubsidyBps : setMaxSubsidyBps(bps)

Environment ==
    \/ \E u, w \in Owner, n \in Amount : transfer(u, w, n)
    \/ \E p \in Price : setPrice(p)
    \/ \E n \in Amount : collateralGrows(n) \/ debtGrows(n) \/ debtRepaid(n)
    \/ \E c, d \in Amount : liquidate(c, d)

Next == User \/ Rebalancer \/ VaultOwner \/ Environment

Spec == Init /\ [][Next]_vars

-----------------------------------------------------------------------------
(* Properties *)

quotientUp(n, k) == (n + k - 1) \div k

\* What rounding collateral and debt to the base currency may cost, in assets.
Dust == quotientUp((AssetUnit - 1) * DusdUnit + (DusdUnit - 1) * AssetUnit, price * DusdUnit)

slippage(swapped, tolerance) == quotientUp(swapped * tolerance, Bps)

\* Nobody's deposit, mint, redemption or withdrawal takes from the others' shares
\* more than the swap's cost above the oracle's price, which the caller's own
\* tolerance bounds, and the dust of rounding; a mint or a withdrawal, which
\* round for the caller, takes less than one unit in all on top of it.
ShareValueKept ==
    [][LET loss == (totalAssets + 1) * (supply' + 1) - (totalAssets' + 1) * (supply + 1)
           borne(swapped, tolerance) == (Dust + slippage(swapped, tolerance)) * (supply + 1)
       IN  supply > 0 /\ loss > 0 =>
           \A u \in Owner, n \in Amount, tolerance \in SlippageTolerance :
               LET assets == convertToAssets(n)
               IN  /\ deposit(u, n, tolerance) =>
                          loss <= borne(leveraged(n) - n, tolerance)
                   /\ mint(u, n, tolerance) =>
                          loss < borne(leveraged(assets) - assets, tolerance) + supply + 1
                   /\ redeem(u, n, tolerance) =>
                          loss <= borne(leveraged(withdrawable(assets)), tolerance)
                   /\ withdraw(u, n, tolerance) =>
                          loss < borne(leveraged(withdrawable(n)), tolerance) + totalAssets + 1]_vars

\* A deposit that starts a position is within the bounds whatever its swap costs,
\* the most the tolerance allows or the least there is: at 3x, a tolerance of up
\* to 25 percent.
StaysInBounds(tolerance) ==
    LET supplied    == TARGET_LEVERAGE_BPS * Bps
        equity(bps) == supplied - (TARGET_LEVERAGE_BPS - Bps) * bps
    IN  /\ supplied * Bps <= UPPER_BOUND_TARGET_LEVERAGE_BPS * equity(Bps + tolerance)
        /\ supplied * Bps >= LOWER_BOUND_TARGET_LEVERAGE_BPS * equity(BestSwapBps)

\* Out of the bounds by more than rounding: above them by more than what is cut
\* off a unit of each token and off its value, or below them by more than a whole
\* unit of each.
ClearlyTooImbalanced ==
    LET c == totalCollateralBase
        d == totalDebtBase
        cut  == quotientUp(price + AssetUnit - 2, AssetUnit)
                  + quotientUp(DusdPrice + DusdUnit - 2, DusdUnit)
        unit == quotientUp(price, AssetUnit) + quotientUp(DusdPrice, DusdUnit)
    IN  /\ isTooImbalanced
        /\ \/ (c + cut) * Bps > UPPER_BOUND_TARGET_LEVERAGE_BPS * (c - d + 2 * cut)
           \/ (c - unit) * Bps < LOWER_BOUND_TARGET_LEVERAGE_BPS * (c - d - 2 * unit)

\* From a leverage within the bounds no rebalancer leaves them, and no user whose
\* tolerance alone does not: what is there already, the roundings of a redemption
\* and what it puts back into the pool do not add up to it.  The tolerance is the
\* caller's and has no limit: a caller who allows more may take the vault out of
\* its bounds.
BalanceKept ==
    [][~isTooImbalanced /\ ClearlyTooImbalanced' =>
       ~(\/ Rebalancer
         \/ \E tolerance \in SlippageTolerance :
                StaysInBounds(tolerance) /\ UserTolerating(tolerance))]_vars

\* "Redeem all" (DLoopVaultCurve.ts): an owner whose shares could be burnt is not
\* refused for having too few of them.
SharesSuffice == outcome # "InsufficientShareBalanceToRedeem"
=============================================================================
