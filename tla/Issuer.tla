------------------------------- MODULE Issuer -------------------------------
(***************************************************************************)
(* Issuer.sol: mints dUSD against collateral paid into the holder vault,   *)
(* against collateral already there in excess, and for the AMO manager.    *)
(***************************************************************************)
EXTENDS DusdState

\* Nothing asks whether the holder vault supports c, nor whether it is dUSD.
issue(u, n, c, minDUSD) ==
    LET dusdAmount == dusdForCollateral(n, c)
    IN  /\ dusdAmount >= minDUSD
        /\ dusd[u] >= ofDusd(c, n)
        /\ Receive(Holder, c, n)
        /\ totalSupply + dusdAmount \in Uint
        /\ dusd' = [dusd EXCEPT ![u] = @ - ofDusd(c, n) + dusdAmount]
        /\ totalSupply' = totalSupply + dusdAmount
        /\ UNCHANGED <<price, supported, amoVars>>

\* A bug the checks must find: the backing is checked before the mint.
excessCheckedBeforeMint(receiver, n) ==
    /\ circulatingDusd >= 0
    /\ collateralInDusd >= circulatingDusd
    /\ Mint(receiver, n)
    /\ UNCHANGED <<price, vaultVars, amoVars>>

\* The check follows the mint.  Computing the circulating supply reverts when
\* the AMO supply exceeds the total supply.
issueUsingExcessCollateral(receiver, n) ==
    /\ Mint(receiver, n)
    /\ UNCHANGED <<price, vaultVars, amoVars>>
    /\ circulatingDusd' >= 0
    /\ collateralInDusd' >= circulatingDusd'

increaseAmoSupply(n) ==
    /\ circulatingDusd >= 0
    /\ Mint(AmoManager, n)
    /\ UNCHANGED <<price, vaultVars, amoVars>>
    /\ circulatingDusd' = circulatingDusd
=============================================================================
