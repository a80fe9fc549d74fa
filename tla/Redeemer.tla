------------------------------ MODULE Redeemer ------------------------------
(***************************************************************************)
(* Redeemer.sol: burns the redemption manager's dUSD and pays collateral   *)
(* for it out of the holder vault, one dollar of value for one dUSD.       *)
(***************************************************************************)
EXTENDS DusdState

\* A bug the checks must find: the payment is rounded up.
collateralRoundedUp(n, c) ==
    (dusdAmountAtPeg(n) * Unit[c] + price[c] - 1) \div price[c]

collateralForDusd(n, c) == assetAmountFromValue(dusdAmountAtPeg(n), c)

\* The dUSD is burnt first; what is paid for it may again be dUSD.
redeem(u, n, c, minCollateral) ==
    LET collateralAmount == collateralForDusd(n, c)
    IN  /\ dusd[u] >= n
        /\ price[c] # 0
        /\ collateralAmount >= minCollateral
        /\ Send(Holder, c, collateralAmount)
        /\ dusd' = [dusd EXCEPT ![u] = @ - n + ofDusd(c, collateralAmount)]
        /\ totalSupply' = totalSupply - n
        /\ UNCHANGED <<price, supported, amoVars>>
=============================================================================
