----------------------------- MODULE AmoManager -----------------------------
(***************************************************************************)
(* AmoManager.sol: lends dUSD to AMO vaults, moves collateral between them *)
(* and the holder vault, and lets profits be taken.  Its books (active,    *)
(* allocation, totalAllocated) say how much dUSD is in the vaults' hands   *)
(* and so does not count as circulating.                                   *)
(***************************************************************************)
EXTENDS DusdState

enableAmoVault(v) ==
    /\ v \notin active
    /\ active' = active \cup {v}
    /\ allocation' = [allocation EXCEPT ![v] = 0]
    /\ UNCHANGED <<price, vaultVars, tokenVars, totalAllocated>>

\* The allocation goes with the key; totalAllocated still counts it.
disableAmoVault(v) ==
    /\ v \in active
    /\ active' = active \ {v}
    /\ allocation' = [allocation EXCEPT ![v] = 0]
    /\ UNCHANGED <<price, vaultVars, tokenVars, totalAllocated>>

\* A bug the checks must find: the new amount replaces the allocation.
allocateOverwriting(v, n) ==
    /\ v \in active
    /\ totalAllocated + n \in Uint
    /\ allocation' = [allocation EXCEPT ![v] = n]
    /\ totalAllocated' = totalAllocated + n
    /\ Pay(AmoManager, v, DUSD, n)
    /\ UNCHANGED <<price, supported, active>>

allocateAmo(v, n) ==
    /\ v \in active
    /\ allocation[v] + n \in Uint
    /\ totalAllocated + n \in Uint
    /\ allocation' = [allocation EXCEPT ![v] = @ + n]
    /\ totalAllocated' = totalAllocated + n
    /\ Pay(AmoManager, v, DUSD, n)
    /\ UNCHANGED <<price, supported, active>>
    /\ totalAmoSupply' = totalAmoSupply

\* A vault without allocation, active or not, returns dUSD all the same and
\* only totalAllocated goes down.
deallocateAmo(v, n) ==
    /\ \/ allocation[v] = 0 /\ UNCHANGED allocation
       \/ /\ allocation[v] > 0
          /\ allocation[v] >= n
          /\ allocation' = [allocation EXCEPT ![v] = @ - n]
    /\ totalAllocated >= n
    /\ totalAllocated' = totalAllocated - n
    /\ PayOut(v, AmoManager, DUSD, n)
    /\ UNCHANGED <<price, supported, active>>
    /\ totalAmoSupply' = totalAmoSupply

decreaseAmoSupply(n) ==
    /\ Burn(AmoManager, n)
    /\ UNCHANGED <<price, vaultVars, amoVars>>

-----------------------------------------------------------------------------
(* Collateral moves change the allocation by the collateral's value: dUSD    *)
(* whose collateral comes back to the holder vault is circulating again.     *)

\* Two bugs the checks must find: a recall that does not ask for the allocation,
\* and a loan that is left out of the total.
recallUnchecked(v, c, n) ==
    LET moved == dusdForCollateral(n, c)
    IN  /\ totalAllocated >= moved
        /\ active' = active \cup {v}
        /\ allocation' = [allocation EXCEPT ![v] = @ - moved]
        /\ totalAllocated' = totalAllocated - moved
        /\ Ship(v, Holder, c, n)
        /\ UNCHANGED <<price, supported, tokenVars>>

lendUncounted(v, c, n) ==
    LET moved == dusdForCollateral(n, c)
    IN  /\ v \in active
        /\ allocation[v] + moved \in Uint
        /\ allocation' = [allocation EXCEPT ![v] = @ + moved]
        /\ Ship(Holder, v, c, n)
        /\ UNCHANGED <<price, supported, tokenVars, active, totalAllocated>>

\* EnumerableMap.set adds the key when it is missing: a worthless amount moved
\* from a disabled vault enables the vault.
transferFromAmoVaultToHoldingVault(v, c, n) ==
    LET moved == dusdForCollateral(n, c)
    IN  /\ allocation[v] >= moved
        /\ totalAllocated >= moved
        /\ active' = active \cup {v}
        /\ allocation' = [allocation EXCEPT ![v] = @ - moved]
        /\ totalAllocated' = totalAllocated - moved
        /\ Ship(v, Holder, c, n)
        /\ UNCHANGED <<price, supported, tokenVars>>

transferFromHoldingVaultToAmoVault(v, c, n) ==
    LET moved == dusdForCollateral(n, c)
    IN  /\ v \in active
        /\ allocation[v] + moved \in Uint
        /\ totalAllocated + moved \in Uint
        /\ allocation' = [allocation EXCEPT ![v] = @ + moved]
        /\ totalAllocated' = totalAllocated + moved
        /\ Ship(Holder, v, c, n)
        /\ UNCHANGED <<price, supported, tokenVars, active>>

-----------------------------------------------------------------------------
(* Profits *)

availableVaultProfitsInUsd(v) ==
    amoVaultTotalValue(v) - dusdAmountToUsdValue(allocation[v])

\* A bug the checks must find: any amount may be taken once there is a profit.
withdrawAnyAmount(v, recipient, t, n) ==
    /\ availableVaultProfitsInUsd(v) > 0
    /\ PayOut(v, recipient, t, n)
    /\ UNCHANGED <<price, supported, amoVars>>

\* The token is dUSD or any collateral the vault holds, supported or not.
withdrawProfits(v, recipient, t, n) ==
    /\ availableVaultProfitsInUsd(v) > 0
    /\ assetValueFromAmount(n, t) <= availableVaultProfitsInUsd(v)
    /\ PayOut(v, recipient, t, n)
    /\ UNCHANGED <<price, supported, amoVars>>
=============================================================================
