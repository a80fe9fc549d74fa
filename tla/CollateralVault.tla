-------------------------- MODULE CollateralVault ---------------------------
(***************************************************************************)
(* The operations every collateral vault inherits (CollateralVault.sol),   *)
(* those of the CollateralHolderVault and those AmoVault adds.  The roles  *)
(* are not state: an action is the call of somebody who holds the role.    *)
(***************************************************************************)
EXTENDS DusdState

deposit(u, v, c, n) ==
    /\ c \in supported[v]
    /\ Pay(u, v, c, n)
    /\ UNCHANGED <<price, supported, amoVars>>

\* The direct call of a COLLATERAL_WITHDRAWER that takes a token out; the
\* calls the Redeemer and the AmoManager make are part of their own actions.
withdrawTo(v, u, t, n) ==
    /\ PayOut(v, u, t, n)
    /\ UNCHANGED <<price, supported, amoVars>>

allowCollateral(v, c) ==
    /\ c \notin supported[v]
    /\ price[c] # 0
    /\ supported' = [supported EXCEPT ![v] = @ \cup {c}]
    /\ UNCHANGED <<price, balance, tokenVars, amoVars>>

\* At least one collateral stays supported.
disallowCollateral(v, c) ==
    /\ c \in supported[v]
    /\ supported[v] # {c}
    /\ supported' = [supported EXCEPT ![v] = @ \ {c}]
    /\ UNCHANGED <<price, balance, tokenVars, amoVars>>

\* AmoVault.recoverERC20
recoverERC20(v, t, n) ==
    /\ t # DUSD
    /\ t \notin supported[v]
    /\ Send(v, t, n)
    /\ UNCHANGED <<price, supported, tokenVars, amoVars>>

-----------------------------------------------------------------------------
(* CollateralHolderVault *)

maxExchangeAmount(fromAmount, from, to) ==
    assetAmountFromValue(assetValueFromAmount(fromAmount, from), to)

\* A bug the checks must find: the maximum is not enforced.
exchangeUnlimited(u, fromAmount, from, toAmount, to) ==
    LET paid == [balance EXCEPT ![Holder][from] = @ + fromAmount]
    IN  /\ to \in supported[Holder]
        /\ price[to] # 0
        /\ dusd[u] >= ofDusd(from, fromAmount)
        /\ Fits(from, paid[Holder][from])
        /\ paid[Holder][to] >= toAmount
        /\ balance' = [paid EXCEPT ![Holder][to] = @ - toAmount]
        /\ dusd' = [dusd EXCEPT ![u] = @ - ofDusd(from, fromAmount)
                                        + ofDusd(to, toAmount)]
        /\ UNCHANGED <<price, supported, totalSupply, amoVars>>

\* Only the collateral paid out has to be supported.  The strategist's payment
\* arrives before the vault pays, so it may be paid out of it.
exchangeCollateral(u, fromAmount, from, toAmount, to) ==
    LET paid == [balance EXCEPT ![Holder][from] = @ + fromAmount]
    IN  /\ to \in supported[Holder]
        /\ price[to] # 0
        /\ toAmount <= maxExchangeAmount(fromAmount, from, to)
        /\ dusd[u] >= ofDusd(from, fromAmount)
        /\ Fits(from, paid[Holder][from])
        /\ paid[Holder][to] >= toAmount
        /\ balance' = [paid EXCEPT ![Holder][to] = @ - toAmount]
        /\ dusd' = [dusd EXCEPT ![u] = @ - ofDusd(from, fromAmount)
                                        + ofDusd(to, toAmount)]
        /\ UNCHANGED <<price, supported, totalSupply, amoVars>>

exchangeMaxCollateral(u, fromAmount, from, to, toMin) ==
    /\ price[to] # 0
    /\ maxExchangeAmount(fromAmount, from, to) >= toMin
    /\ exchangeCollateral(u, fromAmount, from,
                          maxExchangeAmount(fromAmount, from, to), to)
=============================================================================
