-------------------------------- MODULE Dusd --------------------------------
(***************************************************************************)
(* The dUSD stablecoin: the Issuer, the Redeemer, the CollateralHolder-    *)
(* Vault, the AmoManager and its AMO vaults over one dUSD token and one    *)
(* oracle.  Transactions of all the actors interleave freely.              *)
(***************************************************************************)
EXTENDS CollateralVault, Issuer, Redeemer, AmoManager

\* As deployed: no collateral allowed yet, no vault enabled, no dUSD.
Init ==
    /\ price \in { f \in [Token -> UNION { Price[a] : a \in Token }] :
                     \A a \in Token : f[a] \in Price[a] }
    /\ supported = [v \in Vault |-> {}]
    /\ balance = [v \in Vault |-> [t \in Token |-> 0]]
    /\ dusd = [a \in Wallet |-> 0]
    /\ totalSupply = 0
    /\ active = {}
    /\ allocation = [v \in AmoVault |-> 0]
    /\ totalAllocated = 0

\* The oracle reports a new price.
setPrice(a, p) ==
    /\ price' = [price EXCEPT ![a] = p]
    /\ UNCHANGED <<tokenVars, vaultVars, amoVars>>

\* ERC20 transfer of dUSD to a vault or to the AmoManager.
transfer(u, to, n) ==
    /\ \/ to \in Vault /\ Pay(u, to, DUSD, n)
       \/ /\ to = AmoManager
          /\ dusd[u] >= n
          /\ dusd' = [dusd EXCEPT ![u] = @ - n, ![AmoManager] = @ + n]
          /\ UNCHANGED <<balance, totalSupply>>
    /\ UNCHANGED <<price, supported, amoVars>>

-----------------------------------------------------------------------------
(* The calls, by who makes them.  A call is routine when it takes into the   *)
(* holder vault only tokens that vault counts.                               *)

Counted   == supported[Holder]
Uncounted == Token \ Counted

AnyoneCalls ==
    \/ \E u \in User, c \in Counted, n, m \in Amount : issue(u, n, c, m)
    \/ \E u \in User, v \in Vault, c \in Token, n \in Amount : deposit(u, v, c, n)
    \/ \E u \in User, a \in Vault \cup {AmoManager}, n \in Amount :
           transfer(u, a, n)

IssuanceCalls ==
    \/ \E u \in User, n \in Amount : issueUsingExcessCollateral(u, n)
    \/ \E n \in Amount : increaseAmoSupply(n)
    \/ \E u \in User, c \in Token, n, m \in Amount : redeem(u, n, c, m)

StrategistCalls ==
    \E u \in User, from \in Counted, to \in Token, n, m \in Amount :
        \/ exchangeCollateral(u, n, from, m, to)
        \/ exchangeMaxCollateral(u, n, from, to, m)

\* Collateral managers, withdrawers, recoverers and fee collectors.
VaultCalls ==
    \/ \E v \in Vault, c \in Token : allowCollateral(v, c)
    \/ \E v \in AmoVault, c \in Token : disallowCollateral(v, c)
    \/ \E v \in AmoVault, t \in Token, n \in Amount : recoverERC20(v, t, n)
    \/ \E v \in AmoVault, u \in User, t \in Token, n \in Amount :
           withdrawTo(v, u, t, n) \/ withdrawProfits(v, u, t, n)

AllocatorCalls ==
    \/ \E v \in AmoVault : enableAmoVault(v) \/ disableAmoVault(v)
    \/ \E v \in AmoVault, n \in Amount : allocateAmo(v, n) \/ deallocateAmo(v, n)
    \/ \E n \in Amount : decreaseAmoSupply(n)
    \/ \E v \in AmoVault, c \in Counted, n \in Amount :
           transferFromAmoVaultToHoldingVault(v, c, n)

Routine == \/ AnyoneCalls \/ IssuanceCalls \/ StrategistCalls
           \/ VaultCalls \/ AllocatorCalls

\* Collateral lent to an AMO vault.
Lending ==
    \E v \in AmoVault, c \in Token, n \in Amount :
        transferFromHoldingVaultToAmoVault(v, c, n)

\* What the contracts also allow and the backing does not survive.
Exceptional ==
    \/ \E a \in Token : \E p \in Price[a] \ {price[a]} : setPrice(a, p)
    \/ \E c \in Token : disallowCollateral(Holder, c)
    \/ \E u \in User, t \in Token, n \in Amount : withdrawTo(Holder, u, t, n)
    \/ \E u \in User, c \in Uncounted, n, m \in Amount : issue(u, n, c, m)
    \/ \E u \in User, from \in Uncounted, to \in Token, n, m \in Amount :
           \/ exchangeCollateral(u, n, from, m, to)
           \/ exchangeMaxCollateral(u, n, from, to, m)
    \/ \E v \in AmoVault, c \in Uncounted, n \in Amount :
           transferFromAmoVaultToHoldingVault(v, c, n)

Next == Routine \/ Lending \/ Exceptional

Spec        == Init /\ [][Next]_vars
SteadySpec  == Init /\ [][Routine \/ Lending]_vars
RoutineSpec == Init /\ [][Routine]_vars

-----------------------------------------------------------------------------
(* Properties *)

VaultDusd == [v \in Vault |-> balance[v][DUSD]]

\* The dUSD total supply is what wallets and vaults hold: an unchecked addition
\* to a balance cannot wrap.  (Every mint, burn and transfer.)
SupplyIsHeld == totalSupply = Total(dusd, Wallet) + Total(VaultDusd, Vault)

\* At unchanged prices, routine operation keeps every circulating dUSD backed
\* by a dollar of collateral in the holder vault: whatever the decimals and
\* the prices, Issuer, Redeemer and exchangeCollateral round in its favour.
CirculatingBacked == circulatingDusd <= collateralInDusd

Backing == collateralInDusd - circulatingDusd

\* Whatever happened before (prices fell, a collateral was disallowed, uncounted
\* collateral was taken in), a routine call never deepens a shortfall: it
\* leaves the circulating dUSD backed, or no worse backed than it was.
RoutineNeverDeepensShortfall ==
    [][Backing' < Backing /\ Backing' < 0 => ~Routine]_vars

\* Lending collateral to an AMO vault is not routine: the value leaves rounded
\* up and is booked rounded down, but a call loses at most one unit of dUSD
\* when the collateral counts.
LendingLosesAtMostOne == [][Backing' < Backing - 1 => ~Lending]_vars

\* totalAllocated moves with the vaults' allocations, except that disabling a
\* vault leaves its allocation in the total, and that a vault without
\* allocation returns dUSD at the total's expense.  (AmoManager's books.)
Booked == Total(allocation, AmoVault)

BooksMoveTogether ==
    [][ \/ totalAllocated' - totalAllocated = Booked' - Booked
        \/ /\ UNCHANGED totalAllocated
           /\ \E v \in active : /\ active' = active \ {v}
                                /\ Booked - Booked' = allocation[v]
        \/ /\ UNCHANGED allocation
           /\ \E v \in AmoVault :
                  /\ allocation[v] = 0
                  /\ VaultDusd[v] - VaultDusd'[v] = totalAllocated - totalAllocated'
      ]_vars

\* Taking profits leaves an enabled vault worth its allocation, up to the one
\* unit of value by which the vault's own sum may round, as long as the vault
\* does not also support dUSD as collateral: its totalValue would count its
\* dUSD twice, and half of such a profit does not exist. (withdrawProfits)
ProfitsLeaveAllocationCovered ==
    [][ \A v \in active :
          /\ DUSD \notin supported[v]
          /\ amoVaultTotalValue(v)' < dusdAmountToUsdValue(allocation[v]) - 1
          => ~ \E u \in User, t \in Token, n \in Amount :
                   withdrawProfits(v, u, t, n)
      ]_vars

\* At unchanged prices the contracts together implement BackedSupply: each of
\* their calls issues, redeems, lends or recalls dUSD on its terms.
Supply == INSTANCE BackedSupply
              WITH circulating <- circulatingDusd, amo <- totalAmoSupply,
                   backed <- collateralInDusd

SupplyPromise == Supply!Spec
=============================================================================
