----------------------------- MODULE Liquidator -----------------------------
(***************************************************************************)
(* lending_liquidator/aave-v3: a contract that liquidates a dLEND position *)
(* for its caller, out of its own balance if that is enough, else out of a *)
(* flash loan which it repays by selling the seized collateral.  There are *)
(* six of them: two lenders (FlashMint..., dUSD's flash minter, and        *)
(* FlashLoan..., dLEND itself, for a premium) by three venues to sell at.  *)
(* SharedLiquidator and the helpers of the venues are part of them.  Prices *)
(* are the oracle aggregator's, as dLEND's are.                            *)
(*                                                                         *)
(* Whoever calls says how the collateral is sold: the path at Uniswap, the *)
(* whole call of the router at Odos.  So a sale may take any token that    *)
(* the venue is still approved of and bring any token, and lastCall        *)
(* remembers whether it brought what it was to bring.  (One call of the    *)
(* router sells one token for one here.)  Curve's routes are the owner's.  *)
(*                                                                         *)
(* The contract's balances are the state; a loan begins and ends within a  *)
(* call.  Who the borrower is, and what dLEND lets one liquidate of the    *)
(* amount asked for, is dLEND's business: any part of it.                  *)
(***************************************************************************)
EXTENDS OracleAggregator, FiniteSets

CONSTANTS
    DUSD,
    Redeemer4626,        \* ERC4626 contracts that unstake collateral
    share, asset,        \* what each of these takes and gives
    AssetsPerShare,
    Unit,                \* 10 ** decimals of each token
    LiquidationBonus,    \* dLEND's, in basis points
    FlashLoanPremium,    \* dLEND's, in basis points
    ONE_HUNDRED_PERCENT_BPS,
    SlippageTolerance,   \* tolerances the owner sets and deploys with (bound)
    MaxExcess,           \* what a sale reports beyond what is asked (bound)
    Amount,              \* amounts callers pass (bound)
    MaxBalance           \* largest balance of the contract (bound)

Bps == ONE_HUNDRED_PERCENT_BPS

ASSUME LiquidatorAssumption ==
    /\ DUSD \in Asset
    /\ Asset \intersect Redeemer4626 = {}
    /\ NoAddress \notin Redeemer4626
    /\ share \in [Redeemer4626 -> Asset]
    /\ asset \in [Redeemer4626 -> Asset]
    /\ NoAddress \notin Asset
    /\ AssetsPerShare \in [Redeemer4626 -> Nat]
    /\ Unit \in [Asset -> Nat \ {0}]
    /\ LiquidationBonus \in Nat
    /\ FlashLoanPremium \in Nat
    /\ ONE_HUNDRED_PERCENT_BPS \in Nat \ {0}
    /\ SlippageTolerance \subseteq Nat
    /\ MaxExcess \in Nat
    /\ Amount \subseteq Nat \ {0}
    /\ MaxBalance \in Nat

VARIABLES
    lender, venue,       \* which of the six contracts this is
    stock,               \* the contract's own balances
    slippageTolerance,
    proxyContractMap,    \* collateral -> what unstakes it, NoAddress for itself
    swapParams,          \* pairs of tokens a Curve contract has routes for
    approved,            \* tokens the venue may still take something of
    lastCall             \* what the last step, a call of liquidate, borrowed to sell
                         \* collateral for, NoAddress for nothing, whether it paid its
                         \* caller, and whether its sale, if any, brought what it was
                         \* to bring

contract     == <<lender, venue>>
settings     == <<slippageTolerance, proxyContractMap, swapParams>>
liquidatorVars == <<contract, stock, settings, approved>>

Balance == 0 .. MaxBalance

NoLoan == [borrowed |-> NoAddress, paid |-> FALSE, brought |-> TRUE]

Least(m, n) == IF m < n THEN m ELSE n

\* Balances b with n more of token t.
Plus(b, t, n) == [b EXCEPT ![t] = @ + n]

-----------------------------------------------------------------------------
(* dLEND and the ERC4626 contracts *)

\* The collateral dLEND gives for a debt it is paid: its worth and a bonus.
seized(debt, coll, paid) ==
    (((paid * getAssetPrice(debt) * Unit[coll]) \div (getAssetPrice(coll) * Unit[debt]))
        * (Bps + LiquidationBonus)) \div Bps

canLiquidate(debt, coll) ==
    /\ isAlive(debt) /\ isAlive(coll)
    /\ getAssetPrice(coll) > 0

premium(n) ==
    IF lender = "mint" THEN 0 ELSE (n * FlashLoanPremium + Bps \div 2) \div Bps

\* The sale of a contract that forgets the premium: a bug the checks must find.
toRepayWithoutPremium(n) == n

\* What a sale has to bring.
toRepay(n) == n + premium(n)

redeemed(v, n) == n * AssetsPerShare[v]

-----------------------------------------------------------------------------
(* Selling: what is taken of the contract, what it gets for it, and what of  *)
(* the debt token it passes on.                                              *)

Sale == [from : Asset, spent : Nat, to : Asset, got : Nat, left : Nat]

\* A sale of more than there is: a bug the checks must find.
spendableUnlimited(have, maximum) == 1 .. maximum

\* The most is what was approved and what there is.
spendable(have, maximum) == {n \in 1 .. have : n <= maximum}

\* exactOutput of the caller's path: the amount of the token it ends in (0 for one
\* that is none of these), of the token it begins with.
UniswapSales(from, have, amount, maximum) ==
    [from : {from}, spent : spendable(have, maximum), to : Asset, got : {0, amount}, left : {0}]

\* The caller's call of the router brings anything, and the first word of its
\* answer counts as what it brought.  What that is more than the amount goes to
\* the lender, who is the caller then.
OdosSales(from, have, amount, maximum) ==
    [from : {from}, spent : {0} \union spendable(have, maximum),
     to : Asset, got : 0 .. amount + MaxExcess, left : 0 .. MaxExcess]

\* An estimate is sold, with a buffer, and what it brings beyond the amount is
\* sold back, never for more than was sold.
CurveSales(from, to, have, amount, maximum) ==
    {[from |-> from, spent |-> n - back, to |-> to, got |-> amount, left |-> 0] :
        n \in spendable(have, maximum), back \in 0 .. have} \intersect Sale

\* Selling from the balances b.  Nothing but the approval says what is sold.
_swapExactOutput(sold, debt, b, amount, maximum) ==
    CASE venue = "uniswap" ->
            UNION {UniswapSales(t, b[t], amount, maximum) : t \in approved \union {sold}}
      [] venue = "odos" ->
            UNION {OdosSales(t, b[t], amount, IF t = sold THEN maximum ELSE b[t]) :
                       t \in approved \union {sold}}
      [] venue = "curve" ->
            {sale \in CurveSales(sold, debt, b[sold], amount, maximum) :
                {sold, debt} \in swapParams}

-----------------------------------------------------------------------------
(* liquidate *)

getProxyContract(coll) ==
    IF proxyContractMap[coll] # NoAddress THEN proxyContractMap[coll] ELSE coll

\* getActualCollateralToken: what the seized collateral is sold as.
canUnstake(coll)            == getProxyContract(coll) \in Redeemer4626
actualCollateralToken(coll, unstake) ==
    IF unstake THEN asset[getProxyContract(coll)] ELSE coll

\* The most of token `sold` to spend when `amount` of it is there to be sold:
\* that amount, as if it were of the debt, at the oracle's prices.
maxIn(debt, sold, amount) ==
    ((((amount * Unit[sold] * getAssetPrice(debt)) \div getAssetPrice(sold))
        \div Unit[debt]) * (Bps + slippageTolerance)) \div Bps

\* _liquidateInternal with n of the debt at hand, of which dLEND takes `paid`.
seize(b, debt, coll, paid) ==
    Plus(Plus(b, debt, -paid), coll, seized(debt, coll, paid))

\* Out of the contract's own balance.  The token to transfer to the caller is
\* never set on this path, so nothing is: the collateral stays.
liquidateFromBalance(debt, coll, amount, paid) ==
    /\ stock[debt] >= amount
    /\ canLiquidate(debt, coll)
    /\ debt = coll => seized(debt, coll, paid) >= paid
    /\ stock' = seize(stock, debt, coll, paid)
    /\ lastCall' = NoLoan
    /\ UNCHANGED <<contract, settings, approved>>

\* A bug the checks must find: unstaking whatever the contract has.
unstakedAll(b, debt, coll, paid) ==
    LET v == getProxyContract(coll)
    IN  Plus(Plus(b, coll, -b[coll]), asset[v], redeemed(v, b[coll]))

\* redeemERC4626Token, of what was just seized.
unstaked(b, debt, coll, paid) ==
    LET v == getProxyContract(coll)
        n == seized(debt, coll, paid)
    IN  Plus(Plus(b, coll, -n), asset[v], redeemed(v, n))

\* The balances b after a sale.
exchanged(b, debt, sale) ==
    Plus(Plus(Plus(b, sale.from, -sale.spent), sale.to, sale.got), debt, -sale.left)

\* A sale from b to c that brought what it was to bring, of the debt token, for
\* nothing but the token to be sold.
broughtAll(b, c, debt, sold, amount) ==
    /\ c[debt] >= b[debt] + toRepay(amount)
    /\ \A t \in Asset \ {sold} : c[t] >= b[t]

\* The callback: the balances after it, before the loan is taken back, and how the
\* sale went.  (The flash minter lends all it can; what is not needed only goes to
\* and fro.)
afterCallback(debt, coll, amount, paid, unstake) ==
    LET lent  == seize(Plus(stock, debt, amount), debt, coll, paid)
        b     == IF unstake THEN unstaked(lent, debt, coll, paid) ELSE lent
        sold  == actualCollateralToken(coll, unstake)
        n     == IF unstake THEN redeemed(getProxyContract(coll), seized(debt, coll, paid))
                 ELSE seized(debt, coll, paid)
        sales == _swapExactOutput(sold, debt, b, toRepay(amount), maxIn(debt, sold, n))
    IN  IF debt = coll THEN {[balances |-> lent, brought |-> TRUE]}
        ELSE IF ~isAlive(sold) \/ getAssetPrice(sold) = 0 THEN {}
        ELSE {[balances |-> c, brought |-> broughtAll(b, c, debt, sold, amount)] :
                 c \in {exchanged(b, debt, sale) : sale \in sales}}

gain(before, after) == IF after > before THEN after - before ELSE 0

\* Repaying the loan, which the lender takes by itself, and paying the caller what
\* was gained.
settle(after, debt, coll, sold, amount, stake) ==
    LET back == Plus(after.balances, debt, -(amount + premium(amount)))
        pay  == IF stake THEN 0 ELSE gain(stock[sold], back[sold])
    IN  /\ after.balances[debt] >= amount + premium(amount)
        /\ stock' = Plus(back, sold, -pay)
        /\ lastCall' = [borrowed |-> IF debt = coll THEN NoAddress ELSE debt,
                        paid     |-> pay > 0,
                        brought  |-> after.brought]

liquidateWithFlashLoan(debt, coll, amount, paid, unstake, stake) ==
    LET sold == actualCollateralToken(coll, unstake)
    IN  /\ stock[debt] < amount
        /\ lender = "mint" => debt = DUSD
        /\ canLiquidate(debt, coll)
        /\ debt = coll => seized(debt, coll, paid) >= paid
        /\ unstake => canUnstake(coll)
        /\ \E after \in afterCallback(debt, coll, amount, paid, unstake) :
               settle(after, debt, coll, sold, amount, stake)
        /\ approved' = IF venue = "curve" \/ debt = coll THEN approved
                       ELSE approved \union {sold}
        /\ UNCHANGED <<contract, settings>>

-----------------------------------------------------------------------------
(* Anybody and the owner *)

\* redeemERC4626Token is public.
redeemERC4626Token(v, n) ==
    /\ stock[share[v]] >= n
    /\ stock' = Plus(Plus(stock, share[v], -n), asset[v], redeemed(v, n))
    /\ lastCall' = NoLoan
    /\ UNCHANGED <<contract, settings, approved>>

\* Somebody sends the contract tokens.
receive(t, n) ==
    /\ stock' = Plus(stock, t, n)
    /\ lastCall' = NoLoan
    /\ UNCHANGED <<contract, settings, approved>>

withdraw(t, n) ==
    /\ stock' = Plus(stock, t, -Least(n, stock[t]))
    /\ lastCall' = NoLoan
    /\ UNCHANGED <<contract, settings, approved>>

setSlippageTolerance(n) ==
    /\ n <= Bps
    /\ slippageTolerance' = n
    /\ UNCHANGED <<contract, stock, proxyContractMap, swapParams, approved>>

setProxyContract(coll, v) ==
    /\ proxyContractMap' = [proxyContractMap EXCEPT ![coll] = v]
    /\ UNCHANGED <<contract, stock, slippageTolerance, swapParams, approved>>

\* Both directions are set at once.
setSwapExtraParams(t, u) ==
    /\ venue = "curve"
    /\ swapParams' = swapParams \union {{t, u}}
    /\ UNCHANGED <<contract, stock, slippageTolerance, proxyContractMap, approved>>
=============================================================================
