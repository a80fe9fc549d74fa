----------------------------- MODULE DusdState ------------------------------
(***************************************************************************)
(* What the dUSD contracts (contracts/dusd) share: the dUSD token, the     *)
(* balances of the collateral vaults, the AMO manager's books, the oracle  *)
(* prices, and the conversions between token amounts, oracle value (USD)   *)
(* and dUSD.  Each contract's operations are a module that extends this    *)
(* one; Dusd composes them.  No contract keeps dUSD from being allowed as  *)
(* collateral, so a vault's balances are of every token, dUSD included.    *)
(*                                                                         *)
(* A transaction is one step.  A call that reverts changes nothing, so a   *)
(* revert is a guard that is false.                                        *)
(***************************************************************************)
EXTENDS Totals

CONSTANTS
    Collateral,   \* ERC20 tokens other than dUSD that the oracle prices
    AmoVault,     \* addresses that may be used as AMO vaults
    User,         \* everybody else who may hold dUSD, roles included
    Holder,       \* the CollateralHolderVault
    AmoManager,   \* the AmoManager contract, as a holder of dUSD
    DUSD,         \* the dUSD token
    Unit,         \* Unit[c] = 10 ** decimals of token c
    UsdUnit,      \* the oracle's BASE_CURRENCY_UNIT (10 ** 8)
    Price,        \* Price[a]: the prices the oracle may report for token a
    Amount,       \* amounts callers pass (bound)
    MaxUint       \* largest stored integer, standing for 2 ** 256 - 1 (bound)

Token  == Collateral \cup {DUSD}
Vault  == AmoVault \cup {Holder}
Wallet == User \cup {AmoManager}
Uint   == 0 .. MaxUint

DusdUnit == Unit[DUSD]

ASSUME ParametersAssumption ==
    /\ IsFiniteSet(Collateral) /\ IsFiniteSet(AmoVault) /\ IsFiniteSet(User)
    /\ DUSD \notin Collateral
    /\ Holder \notin AmoVault
    /\ AmoManager \notin Vault \cup User
    /\ User \cap Vault = {}

\* dUSD has 6 decimals and oracle values 8, so one unit of dUSD is a whole
\* number of units of value.
ASSUME UnitsAssumption ==
    /\ Unit \in [Token -> Nat \ {0}]
    /\ UsdUnit \in Nat \ {0}
    /\ UsdUnit % DusdUnit = 0

ASSUME InputsAssumption ==
    /\ Price \in [Token -> SUBSET Nat]
    /\ \A a \in Token : Price[a] # {}
    /\ Amount \subseteq Nat
    /\ MaxUint \in Nat

VARIABLES
    price,           \* oracle.getAssetPrice, per token
    supported,       \* CollateralVault._supportedCollaterals, per vault
    balance,         \* balance[v][t]: vault v's balance of token t
    dusd,            \* dUSD balances outside the vaults
    totalSupply,     \* dUSD total supply
    active,          \* the keys of AmoManager._amoVaults
    allocation,      \* its values; 0 for an absent key, as tryGet returns
    totalAllocated   \* AmoManager.totalAllocated

tokenVars == <<dusd, totalSupply>>
vaultVars == <<supported, balance>>
amoVars   == <<active, allocation, totalAllocated>>
vars      == <<price, tokenVars, vaultVars, amoVars>>

TypeOK ==
    /\ price \in [Token -> Nat]
    /\ supported \in [Vault -> SUBSET Token]
    /\ balance \in [Vault -> [Token -> Uint]]
    /\ dusd \in [Wallet -> Uint]
    /\ totalSupply \in Uint
    /\ active \subseteq AmoVault
    /\ allocation \in [AmoVault -> Uint]
    /\ \A v \in AmoVault \ active : allocation[v] = 0
    /\ totalAllocated \in Uint

-----------------------------------------------------------------------------
(* Conversions.  Solidity's division of unsigned integers rounds down. *)

assetValueFromAmount(n, a) == (price[a] * n) \div Unit[a]

assetAmountFromValue(value, a) == (value * Unit[a]) \div price[a]

usdValueToDusdAmount(value) == (value * DusdUnit) \div UsdUnit

dusdForCollateral(n, c) == usdValueToDusdAmount(assetValueFromAmount(n, c))

\* The Redeemer values dUSD at one dollar, the AmoManager at its oracle price.
dusdAmountAtPeg(n) == (n * UsdUnit) \div DusdUnit
dusdAmountToUsdValue(n) == (n * price[DUSD]) \div DusdUnit

(* Views. *)

totalValueOfSupportedCollaterals(v) ==
    Total([t \in Token |-> assetValueFromAmount(balance[v][t], t)],
          supported[v])

\* dUSD that the vault supports as collateral counts twice.
amoVaultTotalValue(v) ==
    totalValueOfSupportedCollaterals(v)
      + assetValueFromAmount(balance[v][DUSD], DUSD)

totalAmoSupply  == dusd[AmoManager] + totalAllocated
circulatingDusd == totalSupply - totalAmoSupply
collateralInDusd ==
    usdValueToDusdAmount(totalValueOfSupportedCollaterals(Holder))

-----------------------------------------------------------------------------
(* The tokens' own operations. *)

Mint(to, n) ==
    /\ totalSupply + n \in Uint
    /\ dusd' = [dusd EXCEPT ![to] = @ + n]
    /\ totalSupply' = totalSupply + n

Burn(from, n) ==
    /\ dusd[from] >= n
    /\ dusd' = [dusd EXCEPT ![from] = @ - n]
    /\ totalSupply' = totalSupply - n

\* Balances of the vaults.  The supply of dUSD bounds a vault's balance of it;
\* of other tokens there is enough outside the vaults, where it is not tracked.
Fits(t, n) == t # DUSD => n \in Uint

Receive(v, t, n) ==
    /\ Fits(t, balance[v][t] + n)
    /\ balance' = [balance EXCEPT ![v][t] = @ + n]

Send(v, t, n) ==
    /\ balance[v][t] >= n
    /\ balance' = [balance EXCEPT ![v][t] = @ - n]

Ship(from, to, t, n) ==
    /\ balance[from][t] >= n
    /\ Fits(t, balance[to][t] + n)
    /\ balance' = [balance EXCEPT ![from][t] = @ - n, ![to][t] = @ + n]

\* The other side of a payment is tracked when the payment is in dUSD.
ofDusd(t, n) == IF t = DUSD THEN n ELSE 0

Pay(u, v, t, n) ==
    /\ dusd[u] >= ofDusd(t, n)
    /\ dusd' = [dusd EXCEPT ![u] = @ - ofDusd(t, n)]
    /\ Receive(v, t, n)
    /\ UNCHANGED totalSupply

PayOut(v, u, t, n) ==
    /\ Send(v, t, n)
    /\ dusd' = [dusd EXCEPT ![u] = @ + ofDusd(t, n)]
    /\ UNCHANGED totalSupply
=============================================================================
