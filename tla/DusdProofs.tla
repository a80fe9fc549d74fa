----------------------------- MODULE DusdProofs -----------------------------
(***************************************************************************)
(* Theorems about Dusd, for all tokens, vaults, users, decimals and prices.*)
(***************************************************************************)
EXTENDS Dusd, ArithmeticTheorems

(* The token's books: balances and supply fit, and the supply is held.  The *)
(* token adds to a balance without checking, so that the sum fits has to be *)
(* derived from the supply: this is what makes TypeOK inductive.            *)
TokensOK ==
    /\ dusd \in [Wallet -> Uint]
    /\ totalSupply \in Uint
    /\ SupplyIsHeld

BalancesOK == balance \in [Vault -> [Token -> Uint]]

LEMMA Parameters ==
  /\ MaxUint \in Nat
  /\ IsFiniteSet(Token) /\ IsFiniteSet(AmoVault)
  /\ IsFiniteSet(Wallet) /\ IsFiniteSet(Vault)
<1>1. /\ MaxUint \in Nat
      /\ IsFiniteSet(Collateral) /\ IsFiniteSet(AmoVault) /\ IsFiniteSet(User)
  BY ParametersAssumption, InputsAssumption
<1>2. IsFiniteSet(Wallet)
  BY <1>1, FS_AddElement DEF Wallet
<1>3. IsFiniteSet(Vault)
  BY <1>1, FS_AddElement DEF Vault
<1>4. IsFiniteSet(Token)
  BY <1>1, FS_AddElement DEF Token
<1>5. QED BY <1>1, <1>2, <1>3, <1>4

LEMMA Addresses ==
  /\ DUSD \in Token /\ Collateral \subseteq Token
  /\ Holder \in Vault /\ AmoVault \subseteq Vault /\ Holder \notin AmoVault
  /\ AmoManager \in Wallet /\ User \subseteq Wallet /\ AmoManager \notin User
  /\ AmoManager \notin Vault
BY ParametersAssumption DEF Token, Vault, Wallet

-----------------------------------------------------------------------------
(* The token *)

LEMMA LedgerTypes ==
  ASSUME TokensOK, BalancesOK
  PROVE  /\ dusd \in [Wallet -> Nat]
         /\ balance \in [Vault -> [Token -> Nat]]
         /\ VaultDusd \in [Vault -> Nat]
         /\ totalSupply \in Nat
         /\ Total(dusd, Wallet) \in Nat /\ Total(VaultDusd, Vault) \in Nat
         /\ totalSupply = Total(dusd, Wallet) + Total(VaultDusd, Vault)
<1>1. /\ dusd \in [Wallet -> Nat]
      /\ balance \in [Vault -> [Token -> Nat]]
      /\ totalSupply \in Nat
  BY Parameters DEF TokensOK, BalancesOK, Uint
<1>2. VaultDusd \in [Vault -> Nat]
  BY <1>1, Addresses DEF VaultDusd
<1>3. Total(dusd, Wallet) \in Nat
  <2>1. \A a \in Wallet : dusd[a] \in Nat
    BY <1>1
  <2>2. QED BY <2>1, TotalNat, Parameters
<1>4. Total(VaultDusd, Vault) \in Nat
  <2>1. \A v \in Vault : VaultDusd[v] \in Nat
    BY <1>2
  <2>2. QED BY <2>1, TotalNat, Parameters
<1>5. QED BY <1>1, <1>2, <1>3, <1>4 DEF TokensOK, SupplyIsHeld

(* Balances that add up to a supply that fits fit themselves. *)
LEMMA HeldFits ==
  ASSUME dusd' \in [Wallet -> Nat], balance' \in [Vault -> [Token -> Nat]],
         \A v \in Vault, c \in Collateral : balance'[v][c] \in Uint,
         totalSupply' \in Uint, SupplyIsHeld'
  PROVE  TokensOK' /\ BalancesOK'
<1> DEFINE f == VaultDusd'
<1>1. /\ f \in [Vault -> Nat]
      /\ \A v \in Vault : f[v] = balance'[v][DUSD]
  BY Addresses DEF VaultDusd
<1>2. totalSupply' = Total(dusd', Wallet) + Total(f, Vault)
  BY DEF SupplyIsHeld
<1> HIDE DEF f
<1>3. /\ Total(dusd', Wallet) \in Nat
      /\ \A a \in Wallet : dusd'[a] <= Total(dusd', Wallet)
  <2>1. \A a \in Wallet : dusd'[a] \in Nat
    OBVIOUS
  <2>2. QED BY <2>1, TotalNat, TotalBounds, Parameters
<1>4. /\ Total(f, Vault) \in Nat
      /\ \A v \in Vault : f[v] <= Total(f, Vault)
  <2>1. \A v \in Vault : f[v] \in Nat
    BY <1>1
  <2>2. QED BY <2>1, TotalNat, TotalBounds, Parameters
<1>5. totalSupply' \in Nat /\ totalSupply' <= MaxUint
  BY Parameters DEF Uint
<1>6. \A a \in Wallet : dusd'[a] \in Uint
  BY <1>2, <1>3, <1>4, <1>5, Parameters DEF Uint
<1>7. \A v \in Vault : f[v] \in Uint
  BY <1>1, <1>2, <1>3, <1>4, <1>5, Parameters DEF Uint
<1>8. \A v \in Vault, t \in Token : balance'[v][t] \in Uint
  BY <1>1, <1>7 DEF Token
<1>9. QED BY <1>6, <1>8 DEF TokensOK, BalancesOK

(* One wallet and one vault change, and the supply by as much. *)
LEMMA SupplyFollows ==
  ASSUME TokensOK, BalancesOK, NEW u \in Wallet, NEW v \in Vault,
         dusd' \in [Wallet -> Nat], balance' \in [Vault -> [Token -> Nat]],
         \A a \in Wallet \ {u} : dusd[a] = dusd'[a],
         \A w \in Vault \ {v} : balance[w][DUSD] = balance'[w][DUSD],
         totalSupply' \in Nat,
         totalSupply' + dusd[u] + balance[v][DUSD]
           = totalSupply + dusd'[u] + balance'[v][DUSD]
  PROVE  SupplyIsHeld'
<1> DEFINE f == VaultDusd
           g == VaultDusd'
<1>1. /\ f \in [Vault -> Nat] /\ g \in [Vault -> Nat]
      /\ f[v] = balance[v][DUSD] /\ g[v] = balance'[v][DUSD]
      /\ \A w \in Vault \ {v} : f[w] = g[w]
  BY LedgerTypes, Addresses DEF VaultDusd
<1>2. totalSupply = Total(dusd, Wallet) + Total(f, Vault)
  BY LedgerTypes
<1>3. Total(dusd, Wallet) \in Nat /\ Total(f, Vault) \in Nat /\ dusd \in [Wallet -> Nat]
  BY LedgerTypes
<1> HIDE DEF f, g
<1>4. Total(dusd', Wallet) = Total(dusd, Wallet) - dusd[u] + dusd'[u]
  <2>1. \A a \in Wallet : dusd[a] \in Nat
    BY <1>3
  <2>2. \A a \in Wallet : dusd'[a] \in Nat
    OBVIOUS
  <2>3. IsFiniteSet(Wallet)
    BY Parameters
  <2>4. QED BY <2>1, <2>2, <2>3, TotalChange
<1>5. Total(g, Vault) = Total(f, Vault) - f[v] + g[v]
  <2>1. \A w \in Vault : f[w] \in Nat
    BY <1>1
  <2>2. \A w \in Vault : g[w] \in Nat
    BY <1>1
  <2>3. \A w \in Vault \ {v} : f[w] = g[w]
    BY <1>1
  <2>4. IsFiniteSet(Vault)
    BY Parameters
  <2>5. QED BY <2>1, <2>2, <2>3, <2>4, TotalChange
<1>6. /\ dusd[u] \in Nat /\ dusd'[u] \in Nat /\ f[v] \in Nat /\ g[v] \in Nat
      /\ totalSupply \in Nat
  BY <1>1, <1>3, LedgerTypes
<1>7. totalSupply' + dusd[u] + f[v] = totalSupply + dusd'[u] + g[v]
  BY <1>1
<1>8. totalSupply' = Total(dusd', Wallet) + Total(g, Vault)
  BY <1>2, <1>3, <1>4, <1>5, <1>6, <1>7
<1>9. QED BY <1>8 DEF SupplyIsHeld, g

LEMMA MintKeepsTokens ==
  ASSUME TokensOK, BalancesOK, NEW to \in Wallet, NEW n \in Nat, Mint(to, n),
         UNCHANGED balance
  PROVE  TokensOK' /\ BalancesOK'
<1>1. /\ totalSupply' \in Uint /\ totalSupply' \in Nat
      /\ totalSupply' = totalSupply + n
  BY Parameters DEF Mint, Uint
<1>2. /\ dusd' \in [Wallet -> Nat] /\ dusd'[to] = dusd[to] + n
      /\ \A a \in Wallet \ {to} : dusd[a] = dusd'[a]
  BY LedgerTypes DEF Mint
<1>3. balance' \in [Vault -> [Token -> Nat]] /\ balance'[Holder][DUSD] \in Nat
  BY LedgerTypes, Addresses
<1>4. SupplyIsHeld'
  <2>1. totalSupply' + dusd[to] + balance[Holder][DUSD]
          = totalSupply + dusd'[to] + balance'[Holder][DUSD]
    BY <1>1, <1>2, <1>3, LedgerTypes
  <2>2. QED BY <1>1, <1>2, <1>3, <2>1, Addresses, SupplyFollows
<1>5. \A v \in Vault, c \in Collateral : balance'[v][c] \in Uint
  BY Addresses DEF BalancesOK
<1>6. QED BY <1>1, <1>2, <1>3, <1>4, <1>5, HeldFits

LEMMA BurnKeepsTokens ==
  ASSUME TokensOK, BalancesOK, NEW from \in Wallet, NEW n \in Nat, Burn(from, n),
         UNCHANGED balance
  PROVE  TokensOK' /\ BalancesOK'
<1>1. /\ n <= dusd[from] /\ dusd[from] <= totalSupply
      /\ totalSupply' = totalSupply - n
  <2>1. \A a \in Wallet : dusd[a] \in Nat
    BY LedgerTypes
  <2>2. dusd[from] <= Total(dusd, Wallet)
    BY <2>1, TotalBounds, Parameters
  <2>3. QED BY <2>1, <2>2, LedgerTypes DEF Burn
<1>2. totalSupply' \in Nat /\ totalSupply' \in Uint
  BY <1>1, LedgerTypes, Parameters DEF TokensOK, Uint
<1>3. /\ dusd' \in [Wallet -> Nat] /\ dusd'[from] = dusd[from] - n
      /\ \A a \in Wallet \ {from} : dusd[a] = dusd'[a]
  BY <1>1, LedgerTypes DEF Burn
<1>4. balance' \in [Vault -> [Token -> Nat]] /\ balance'[Holder][DUSD] \in Nat
  BY LedgerTypes, Addresses
<1>5. SupplyIsHeld'
  <2>1. totalSupply' + dusd[from] + balance[Holder][DUSD]
          = totalSupply + dusd'[from] + balance'[Holder][DUSD]
    BY <1>1, <1>3, <1>4, LedgerTypes
  <2>2. QED BY <1>2, <1>3, <1>4, <2>1, Addresses, SupplyFollows
<1>6. \A v \in Vault, c \in Collateral : balance'[v][c] \in Uint
  BY Addresses DEF BalancesOK
<1>7. QED BY <1>2, <1>3, <1>4, <1>5, <1>6, HeldFits

-----------------------------------------------------------------------------
(* Payments between wallets and vaults *)

LEMMA OfDusdType ==
  ASSUME NEW t \in Token, NEW n \in Nat
  PROVE  ofDusd(t, n) \in Nat
BY DEF ofDusd

LEMMA PaymentKeepsTokens ==
  ASSUME TokensOK, BalancesOK, NEW u \in Wallet, NEW v \in Vault, NEW t \in Token,
         NEW n \in Nat, Pay(u, v, t, n) \/ PayOut(v, u, t, n)
  PROVE  TokensOK' /\ BalancesOK'
<1> DEFINE d == ofDusd(t, n)
<1>1. /\ d \in Nat /\ (t = DUSD => d = n) /\ (t # DUSD => d = 0)
  BY DEF ofDusd
<1>2. CASE Pay(u, v, t, n)
  <2>1. /\ d <= dusd[u] /\ dusd' = [dusd EXCEPT ![u] = @ - d]
        /\ totalSupply' = totalSupply
        /\ balance' = [balance EXCEPT ![v][t] = @ + n]
        /\ t # DUSD => balance[v][t] + n \in Uint
    BY <1>2, LedgerTypes DEF Pay, Receive, Fits
  <2> HIDE DEF d
  <2>2. /\ dusd' \in [Wallet -> Nat] /\ dusd'[u] = dusd[u] - d
        /\ \A a \in Wallet \ {u} : dusd[a] = dusd'[a]
    BY <1>1, <2>1, LedgerTypes
  <2>3. /\ balance' \in [Vault -> [Token -> Nat]]
        /\ balance'[v][DUSD] = balance[v][DUSD] + d
        /\ \A w \in Vault \ {v} : balance[w][DUSD] = balance'[w][DUSD]
    BY <1>1, <2>1, LedgerTypes, Addresses
  <2>4. \A w \in Vault, c \in Collateral : balance'[w][c] \in Uint
    BY <2>1, Addresses, ParametersAssumption DEF BalancesOK
  <2>5. totalSupply' \in Uint /\ totalSupply' \in Nat
    BY <2>1, LedgerTypes DEF TokensOK
  <2>6. totalSupply' + dusd[u] + balance[v][DUSD]
          = totalSupply + dusd'[u] + balance'[v][DUSD]
    BY <1>1, <2>1, <2>2, <2>3, LedgerTypes, Addresses
  <2>7. SupplyIsHeld'
    BY <2>2, <2>3, <2>5, <2>6, SupplyFollows
  <2>8. QED BY <2>2, <2>3, <2>4, <2>5, <2>7, HeldFits
<1>3. CASE PayOut(v, u, t, n)
  <2>1. /\ dusd' = [dusd EXCEPT ![u] = @ + d]
        /\ totalSupply' = totalSupply
        /\ balance[v][t] >= n
        /\ balance' = [balance EXCEPT ![v][t] = @ - n]
    BY <1>3 DEF PayOut, Send
  <2> HIDE DEF d
  <2>2. /\ dusd' \in [Wallet -> Nat] /\ dusd'[u] = dusd[u] + d
        /\ \A a \in Wallet \ {u} : dusd[a] = dusd'[a]
    BY <1>1, <2>1, LedgerTypes
  <2>3. /\ balance' \in [Vault -> [Token -> Nat]]
        /\ balance'[v][DUSD] = balance[v][DUSD] - d
        /\ \A w \in Vault \ {v} : balance[w][DUSD] = balance'[w][DUSD]
    BY <1>1, <2>1, LedgerTypes, Addresses
  <2>4. \A w \in Vault, c \in Collateral : balance'[w][c] \in Uint
    BY <2>1, Addresses, ParametersAssumption, Parameters DEF BalancesOK, Uint
  <2>5. totalSupply' \in Uint /\ totalSupply' \in Nat
    BY <2>1, LedgerTypes DEF TokensOK
  <2>6. totalSupply' + dusd[u] + balance[v][DUSD]
          = totalSupply + dusd'[u] + balance'[v][DUSD]
    BY <1>1, <2>1, <2>2, <2>3, LedgerTypes, Addresses
  <2>7. SupplyIsHeld'
    BY <2>2, <2>3, <2>5, <2>6, SupplyFollows
  <2>8. QED BY <2>2, <2>3, <2>4, <2>5, <2>7, HeldFits
<1>4. QED BY <1>2, <1>3

(* A transfer between two wallets. *)
LEMMA HandingOverKeepsTokens ==
  ASSUME TokensOK, BalancesOK, NEW from \in Wallet, NEW to \in Wallet, from # to,
         NEW n \in Nat, n <= dusd[from], UNCHANGED <<balance, totalSupply>>,
         dusd' = [dusd EXCEPT ![from] = @ - n, ![to] = @ + n]
  PROVE  TokensOK' /\ BalancesOK'
<1> DEFINE less == [dusd EXCEPT ![from] = @ - n]
<1>1. /\ less \in [Wallet -> Nat] /\ less[from] = dusd[from] - n
      /\ less[to] = dusd[to]
      /\ \A a \in Wallet \ {from} : dusd[a] = less[a]
  BY LedgerTypes
<1>1a. dusd' = [less EXCEPT ![to] = @ + n]
  OBVIOUS
<1> HIDE DEF less
<1>2. /\ dusd' \in [Wallet -> Nat] /\ dusd'[to] = less[to] + n
      /\ \A a \in Wallet \ {to} : less[a] = dusd'[a]
  BY <1>1, <1>1a
<1>3. Total(less, Wallet) = Total(dusd, Wallet) - dusd[from] + less[from]
  <2>1. \A a \in Wallet : dusd[a] \in Nat
    BY LedgerTypes
  <2>2. \A a \in Wallet : less[a] \in Nat
    BY <1>1
  <2>3. QED BY <1>1, <2>1, <2>2, Parameters, TotalChange
<1> DEFINE more == dusd'
<1>3a. more \in [Wallet -> Nat] /\ more[to] = less[to] + n
  BY <1>2
<1>3b. \A a \in Wallet \ {to} : less[a] = more[a]
  BY <1>2
<1> HIDE DEF more
<1>4. Total(more, Wallet) = Total(less, Wallet) - less[to] + more[to]
  <2>1. \A a \in Wallet : less[a] \in Nat
    BY <1>1
  <2>2. \A a \in Wallet : more[a] \in Nat
    BY <1>3a
  <2>3. IsFiniteSet(Wallet)
    BY Parameters
  <2>4. QED BY <1>3b, <2>1, <2>2, <2>3, TotalChange
<1>5. VaultDusd' = VaultDusd
  BY DEF VaultDusd
<1>6. dusd[from] \in Nat /\ dusd[to] \in Nat /\ Total(dusd, Wallet) \in Nat
  BY LedgerTypes
<1>7. Total(dusd', Wallet) = Total(dusd, Wallet)
  <2>1. less[from] = dusd[from] - n /\ less[to] = dusd[to] /\ more[to] = less[to] + n
    BY <1>1, <1>3a
  <2>2. Total(less, Wallet) = Total(dusd, Wallet) - n
    BY <1>3, <1>6, <2>1
  <2>3. Total(more, Wallet) = Total(dusd, Wallet)
    BY <1>4, <1>6, <2>1, <2>2
  <2>4. QED BY <2>3 DEF more
<1>8. SupplyIsHeld'
  BY <1>5, <1>7, LedgerTypes DEF SupplyIsHeld
<1>9. \A v \in Vault, c \in Collateral : balance'[v][c] \in Uint
  BY Addresses DEF BalancesOK
<1>10. totalSupply' \in Uint /\ balance' \in [Vault -> [Token -> Nat]]
  BY LedgerTypes DEF TokensOK
<1>11. QED BY <1>2, <1>8, <1>9, <1>10, HeldFits

(* A move of any token between two vaults. *)
LEMMA ShipKeepsTokens ==
  ASSUME TokensOK, BalancesOK, NEW v \in Vault, NEW w \in Vault \ {v},
         NEW t \in Token, NEW n \in Nat, Ship(v, w, t, n), UNCHANGED tokenVars
  PROVE  TokensOK' /\ BalancesOK'
<1> DEFINE sent == [balance EXCEPT ![v][t] = @ - n]
<1>1. n <= balance[v][t] /\ (t # DUSD => balance[w][t] + n \in Uint)
  BY LedgerTypes DEF Ship, Fits
<1>2. /\ sent \in [Vault -> [Token -> Nat]]
      /\ sent[v][t] = balance[v][t] - n
      /\ sent[w] = balance[w]
      /\ \A x \in Vault, e \in Token : x # v \/ e # t => sent[x][e] = balance[x][e]
  BY <1>1, LedgerTypes
<1>3. balance' = [sent EXCEPT ![w][t] = @ + n]
  BY DEF Ship
<1> HIDE DEF sent
<1>4. /\ balance' \in [Vault -> [Token -> Nat]]
      /\ balance'[w][t] = balance[w][t] + n
      /\ \A x \in Vault, e \in Token : x # w \/ e # t => balance'[x][e] = sent[x][e]
  BY <1>2, <1>3
<1>5. \A x \in Vault, c \in Collateral : balance'[x][c] \in Uint
  <2> SUFFICES ASSUME NEW x \in Vault, NEW c \in Collateral PROVE balance'[x][c] \in Uint
    OBVIOUS
  <2>1. c \in Token /\ c # DUSD /\ balance[x][c] \in Uint
    BY Addresses, ParametersAssumption DEF BalancesOK
  <2>2. CASE x = w /\ c = t
    BY <1>1, <1>4, <2>1, <2>2
  <2>3. CASE x = v /\ c = t
    BY <1>1, <1>2, <1>4, <2>1, <2>3, LedgerTypes, Parameters DEF Uint
  <2>4. CASE c # t \/ (x # v /\ x # w)
    BY <1>2, <1>4, <2>1, <2>4
  <2>5. QED BY <2>2, <2>3, <2>4
<1>6. totalSupply' \in Uint /\ dusd' \in [Wallet -> Nat]
  BY LedgerTypes DEF TokensOK, tokenVars
<1>7. Total(VaultDusd', Vault) = Total(VaultDusd, Vault)
  <2> DEFINE f == VaultDusd
             g == [x \in Vault |-> sent[x][DUSD]]
             h == VaultDusd'
  <2>1. /\ f \in [Vault -> Nat] /\ g \in [Vault -> Nat] /\ h \in [Vault -> Nat]
        /\ \A x \in Vault : /\ f[x] = balance[x][DUSD] /\ g[x] = sent[x][DUSD]
                            /\ h[x] = balance'[x][DUSD]
    BY <1>2, <1>4, LedgerTypes, Addresses DEF VaultDusd
  <2>2. /\ \A x \in Vault \ {v} : f[x] = g[x]
        /\ \A x \in Vault \ {w} : g[x] = h[x]
    BY <1>2, <1>4, <2>1, Addresses
  <2>3. f[v] - g[v] = h[w] - g[w]
    <3>1. CASE t = DUSD
      <4>1. f[v] - g[v] = n
        BY <1>2, <2>1, <3>1, LedgerTypes
      <4>2. h[w] - g[w] = n
        BY <1>2, <1>4, <2>1, <3>1, LedgerTypes
      <4>3. QED BY <4>1, <4>2
    <3>2. CASE t # DUSD
      <4>1. f[v] = g[v] /\ h[w] = g[w]
        BY <1>2, <1>4, <2>1, <3>2, Addresses
      <4>2. g[v] \in Nat /\ g[w] \in Nat
        BY <2>1
      <4>3. QED BY <4>1, <4>2
    <3>3. QED BY <3>1, <3>2
  <2>4. /\ \A x \in Vault : f[x] \in Nat
        /\ \A x \in Vault : g[x] \in Nat
        /\ \A x \in Vault : h[x] \in Nat
    BY <2>1
  <2> HIDE DEF f, g, h
  <2>5. Total(g, Vault) = Total(f, Vault) - f[v] + g[v]
    BY <2>2, <2>4, Parameters, TotalChange
  <2>6. Total(h, Vault) = Total(g, Vault) - g[w] + h[w]
    BY <2>2, <2>4, Parameters, TotalChange
  <2>7. Total(f, Vault) \in Nat
    BY <2>4, Parameters, TotalNat
  <2>8. Total(h, Vault) = Total(f, Vault)
    BY <2>3, <2>4, <2>5, <2>6, <2>7
  <2>9. QED BY <2>8 DEF f, h
<1>8. SupplyIsHeld'
  BY <1>7, LedgerTypes DEF SupplyIsHeld, tokenVars
<1>9. QED BY <1>4, <1>5, <1>6, <1>8, HeldFits

-----------------------------------------------------------------------------
(* Type correctness: one step per operation. *)

BooksOK ==
    /\ active \subseteq AmoVault
    /\ allocation \in [AmoVault -> Uint]
    /\ \A v \in AmoVault \ active : allocation[v] = 0
    /\ totalAllocated \in Uint

PriceOK     == price \in [Token -> Nat]
SupportedOK == supported \in [Vault -> SUBSET Token]

\* The inductive invariant: TypeOK and SupplyIsHeld, part by part.
IInv == PriceOK /\ SupportedOK /\ BalancesOK /\ TokensOK /\ BooksOK

LEMMA InvariantParts == IInv <=> TypeOK /\ SupplyIsHeld
BY DEF IInv, TypeOK, PriceOK, SupportedOK, BalancesOK, TokensOK, BooksOK

LEMMA ConversionTypes ==
  ASSUME PriceOK, NEW n \in Nat, NEW a \in Token
  PROVE  /\ assetValueFromAmount(n, a) \in Nat
         /\ dusdForCollateral(n, a) \in Nat
<1>1. /\ price[a] \in Nat /\ Unit[a] \in Nat \ {0}
      /\ DusdUnit \in Nat \ {0} /\ UsdUnit \in Nat \ {0}
  BY UnitsAssumption, Addresses DEF PriceOK, DusdUnit
<1>2. price[a] * n \in Nat
  BY <1>1
<1>3. assetValueFromAmount(n, a) \in Nat
  BY <1>1, <1>2, DivDef DEF assetValueFromAmount
<1>4. assetValueFromAmount(n, a) * DusdUnit \in Nat
  BY <1>1, <1>3
<1>5. QED BY <1>1, <1>3, <1>4, DivDef DEF dusdForCollateral, usdValueToDusdAmount

(* What issue, redeem and exchangeCollateral do to the token's books: a user  *)
(* pays and is paid, and so is the holder vault.                              *)

LEMMA IssueKeepsTokens ==
  ASSUME TokensOK, BalancesOK, PriceOK, NEW u \in User, NEW c \in Token,
         NEW n \in Nat, NEW m \in Nat, issue(u, n, c, m)
  PROVE  TokensOK' /\ BalancesOK'
<1> DEFINE d == ofDusd(c, n)
           a == dusdForCollateral(n, c)
<1>1. /\ a \in Nat /\ d \in Nat /\ u \in Wallet /\ Holder \in Vault
      /\ (c = DUSD => d = n) /\ (c # DUSD => d = 0)
  BY ConversionTypes, Addresses DEF ofDusd
<1>2. /\ d <= dusd[u] /\ dusd' = [dusd EXCEPT ![u] = @ - d + a]
      /\ totalSupply' = totalSupply + a /\ totalSupply + a \in Uint
      /\ balance' = [balance EXCEPT ![Holder][c] = @ + n]
      /\ c # DUSD => balance[Holder][c] + n \in Uint
  BY <1>1, LedgerTypes DEF issue, Receive, Fits
<1> HIDE DEF d, a
<1>3. /\ dusd' \in [Wallet -> Nat] /\ dusd'[u] = dusd[u] - d + a
      /\ \A x \in Wallet \ {u} : dusd[x] = dusd'[x]
  BY <1>1, <1>2, LedgerTypes
<1>4. /\ balance' \in [Vault -> [Token -> Nat]]
      /\ balance'[Holder][DUSD] = balance[Holder][DUSD] + d
      /\ \A w \in Vault \ {Holder} : balance[w][DUSD] = balance'[w][DUSD]
  BY <1>1, <1>2, LedgerTypes, Addresses
<1>5. \A w \in Vault, e \in Collateral : balance'[w][e] \in Uint
  BY <1>1, <1>2, Addresses, ParametersAssumption DEF BalancesOK
<1>6. totalSupply' \in Uint /\ totalSupply' \in Nat
  BY <1>1, <1>2, LedgerTypes
<1>7. totalSupply' + dusd[u] + balance[Holder][DUSD]
        = totalSupply + dusd'[u] + balance'[Holder][DUSD]
  <2>1. /\ dusd[u] \in Nat /\ balance[Holder][DUSD] \in Nat /\ totalSupply \in Nat
    BY <1>1, LedgerTypes, Addresses
  <2>2. QED BY <1>1, <1>2, <1>3, <1>4, <2>1
<1>8. SupplyIsHeld'
  BY <1>1, <1>3, <1>4, <1>6, <1>7, SupplyFollows
<1>9. QED BY <1>3, <1>4, <1>5, <1>6, <1>8, HeldFits

LEMMA CollateralOutType ==
  ASSUME PriceOK, NEW n \in Nat, NEW c \in Token, price[c] # 0
  PROVE  collateralForDusd(n, c) \in Nat
<1>1. /\ price[c] \in Nat \ {0} /\ Unit[c] \in Nat \ {0}
      /\ DusdUnit \in Nat \ {0} /\ UsdUnit \in Nat \ {0}
  BY UnitsAssumption, Addresses DEF DusdUnit, PriceOK
<1>2. n * UsdUnit \in Nat
  BY <1>1
<1>3. dusdAmountAtPeg(n) \in Nat
  BY <1>1, <1>2, DivDef DEF dusdAmountAtPeg
<1>4. dusdAmountAtPeg(n) * Unit[c] \in Nat
  BY <1>1, <1>3
<1>5. QED BY <1>1, <1>4, DivDef DEF collateralForDusd, assetAmountFromValue

LEMMA RedeemKeepsTokens ==
  ASSUME TokensOK, BalancesOK, PriceOK, NEW u \in User, NEW c \in Token,
         NEW n \in Nat, NEW m \in Nat, redeem(u, n, c, m)
  PROVE  TokensOK' /\ BalancesOK'
<1> DEFINE a == collateralForDusd(n, c)
           d == ofDusd(c, a)
<1>1. a \in Nat
  BY CollateralOutType DEF redeem
<1>2. /\ n <= dusd[u] /\ dusd' = [dusd EXCEPT ![u] = @ - n + d]
      /\ totalSupply' = totalSupply - n
      /\ a <= balance[Holder][c]
      /\ balance' = [balance EXCEPT ![Holder][c] = @ - a]
  BY <1>1, LedgerTypes, Addresses DEF redeem, Send
<1> HIDE DEF a
<1>3. /\ d \in Nat /\ u \in Wallet /\ Holder \in Vault
      /\ (c = DUSD => d = a) /\ (c # DUSD => d = 0)
  BY <1>1, Addresses DEF ofDusd
<1> HIDE DEF d
<1>4. /\ dusd' \in [Wallet -> Nat] /\ dusd'[u] = dusd[u] - n + d
      /\ \A x \in Wallet \ {u} : dusd[x] = dusd'[x]
  BY <1>2, <1>3, LedgerTypes
<1>5. /\ balance' \in [Vault -> [Token -> Nat]]
      /\ balance'[Holder][DUSD] = balance[Holder][DUSD] - d
      /\ \A w \in Vault \ {Holder} : balance[w][DUSD] = balance'[w][DUSD]
  BY <1>1, <1>2, <1>3, LedgerTypes, Addresses
<1>6. \A w \in Vault, e \in Collateral : balance'[w][e] \in Uint
  BY <1>1, <1>2, <1>3, Addresses, ParametersAssumption, Parameters DEF BalancesOK, Uint
<1>7. totalSupply' \in Nat /\ totalSupply' \in Uint
  <2>1. \A x \in Wallet : dusd[x] \in Nat
    BY LedgerTypes
  <2>2. dusd[u] <= Total(dusd, Wallet)
    BY <1>3, <2>1, TotalBounds, Parameters
  <2>3. n <= totalSupply
    BY <1>2, <1>3, <2>1, <2>2, LedgerTypes
  <2>4. QED BY <1>2, <2>3, LedgerTypes, Parameters DEF TokensOK, Uint
<1>8. totalSupply' + dusd[u] + balance[Holder][DUSD]
        = totalSupply + dusd'[u] + balance'[Holder][DUSD]
  <2>1. /\ dusd[u] \in Nat /\ balance[Holder][DUSD] \in Nat /\ totalSupply \in Nat
    BY <1>3, LedgerTypes, Addresses
  <2>2. QED BY <1>2, <1>3, <1>4, <1>5, <2>1
<1>9. SupplyIsHeld'
  BY <1>3, <1>4, <1>5, <1>7, <1>8, SupplyFollows
<1>10. QED BY <1>4, <1>5, <1>6, <1>7, <1>9, HeldFits

LEMMA ExchangeKeepsTokens ==
  ASSUME TokensOK, BalancesOK, NEW u \in User, NEW from \in Token, NEW to \in Token,
         NEW n \in Nat, NEW m \in Nat, exchangeCollateral(u, n, from, m, to)
  PROVE  TokensOK' /\ BalancesOK'
<1> DEFINE d    == ofDusd(from, n)
           e    == ofDusd(to, m)
           paid == [balance EXCEPT ![Holder][from] = @ + n]
<1>1. /\ d \in Nat /\ e \in Nat /\ u \in Wallet /\ Holder \in Vault
      /\ (from = DUSD => d = n) /\ (from # DUSD => d = 0)
      /\ (to = DUSD => e = m) /\ (to # DUSD => e = 0)
  BY Addresses DEF ofDusd
<1>2. /\ d <= dusd[u] /\ dusd' = [dusd EXCEPT ![u] = @ - d + e]
      /\ from # DUSD => paid[Holder][from] \in Uint
      /\ m <= paid[Holder][to]
      /\ balance' = [paid EXCEPT ![Holder][to] = @ - m]
      /\ totalSupply' = totalSupply
  BY <1>1, LedgerTypes DEF exchangeCollateral, Fits
<1>3. /\ paid \in [Vault -> [Token -> Nat]]
      /\ paid[Holder][from] = balance[Holder][from] + n
      /\ paid[Holder][DUSD] = balance[Holder][DUSD] + d
      /\ \A w \in Vault \ {Holder} : paid[w] = balance[w]
      /\ \A t \in Token \ {from} : paid[Holder][t] = balance[Holder][t]
  BY <1>1, LedgerTypes, Addresses
<1>4. \A w \in Vault, t \in Collateral : paid[w][t] \in Uint
  BY <1>1, <1>2, <1>3, Addresses, ParametersAssumption DEF BalancesOK
<1> HIDE DEF d, e, paid
<1>5. /\ dusd' \in [Wallet -> Nat] /\ dusd'[u] = dusd[u] - d + e
      /\ \A x \in Wallet \ {u} : dusd[x] = dusd'[x]
  BY <1>1, <1>2, LedgerTypes
<1>6. /\ balance' \in [Vault -> [Token -> Nat]]
      /\ balance'[Holder][DUSD] = paid[Holder][DUSD] - e
      /\ \A w \in Vault \ {Holder} : balance'[w] = paid[w]
  BY <1>1, <1>2, <1>3, Addresses
<1>7. \A w \in Vault, t \in Collateral : balance'[w][t] \in Uint
  BY <1>1, <1>2, <1>3, <1>4, Addresses, Parameters DEF Uint
<1>8. totalSupply' \in Uint /\ totalSupply' \in Nat
  BY <1>2, LedgerTypes DEF TokensOK
<1>9. totalSupply' + dusd[u] + balance[Holder][DUSD]
        = totalSupply + dusd'[u] + balance'[Holder][DUSD]
  <2>1. /\ dusd[u] \in Nat /\ balance[Holder][DUSD] \in Nat /\ totalSupply \in Nat
    BY <1>1, LedgerTypes, Addresses
  <2>2. QED BY <1>1, <1>2, <1>3, <1>5, <1>6, <2>1
<1>10. SupplyIsHeld'
  BY <1>1, <1>3, <1>5, <1>6, <1>8, <1>9, SupplyFollows
<1>11. QED BY <1>5, <1>6, <1>7, <1>8, <1>10, HeldFits

(* The strategist's choice of the maximum is an exchange of some amount. *)
LEMMA ExchangesSomeAmount ==
  ASSUME PriceOK, NEW u \in User, NEW from \in Token, NEW to \in Token,
         NEW n \in Nat, NEW m \in Nat,
         \/ exchangeCollateral(u, n, from, m, to)
         \/ exchangeMaxCollateral(u, n, from, to, m)
  PROVE  \E k \in Nat : exchangeCollateral(u, n, from, k, to)
<1>1. CASE exchangeCollateral(u, n, from, m, to)
  BY <1>1
<1>2. CASE exchangeMaxCollateral(u, n, from, to, m)
  <2>1. price[to] \in Nat \ {0} /\ Unit[to] \in Nat \ {0}
    BY <1>2, UnitsAssumption DEF exchangeMaxCollateral, PriceOK
  <2>2. assetValueFromAmount(n, from) \in Nat
    BY ConversionTypes
  <2>3. assetValueFromAmount(n, from) * Unit[to] \in Nat
    BY <2>1, <2>2
  <2>4. maxExchangeAmount(n, from, to) \in Nat
    BY <2>1, <2>3, DivDef DEF maxExchangeAmount, assetAmountFromValue
  <2>5. QED BY <1>2, <2>4 DEF exchangeMaxCollateral
<1>3. QED BY <1>1, <1>2

LEMMA AnyoneKeeps ==
  ASSUME IInv, NEW u \in User, NEW n \in Nat
  PROVE  /\ \A c \in Token, m \in Nat : issue(u, n, c, m) => IInv'
         /\ \A v \in Vault, c \in Token : deposit(u, v, c, n) => IInv'
         /\ \A a \in Vault \cup {AmoManager} : transfer(u, a, n) => IInv'
<1> USE DEF IInv, BooksOK, PriceOK, SupportedOK
<1>1. ASSUME NEW c \in Token, NEW m \in Nat, issue(u, n, c, m)
      PROVE  IInv'
  <2>1. TokensOK' /\ BalancesOK'
    BY <1>1, IssueKeepsTokens
  <2>2. QED BY <1>1, <2>1 DEF issue, amoVars
<1>2. ASSUME NEW v \in Vault, NEW c \in Token, deposit(u, v, c, n)
      PROVE  IInv'
  <2>1. TokensOK' /\ BalancesOK'
    BY <1>2, Addresses, PaymentKeepsTokens DEF deposit
  <2>2. QED BY <1>2, <2>1 DEF deposit, amoVars
<1>3. ASSUME NEW a \in Vault \cup {AmoManager}, transfer(u, a, n)
      PROVE  IInv'
  <2>1. u \in Wallet /\ AmoManager \in Wallet /\ u # AmoManager /\ DUSD \in Token
    BY Addresses
  <2>2. CASE a \in Vault /\ Pay(u, a, DUSD, n)
    <3>1. TokensOK' /\ BalancesOK'
      BY <2>1, <2>2, PaymentKeepsTokens
    <3>2. QED BY <1>3, <3>1 DEF transfer, amoVars
  <2>3. CASE ~(a \in Vault /\ Pay(u, a, DUSD, n))
    <3>1. /\ n <= dusd[u] /\ UNCHANGED <<balance, totalSupply>>
          /\ dusd' = [dusd EXCEPT ![u] = @ - n, ![AmoManager] = @ + n]
      BY <1>3, <2>1, <2>3, LedgerTypes DEF transfer
    <3>2. TokensOK' /\ BalancesOK'
      BY <2>1, <3>1, HandingOverKeepsTokens
    <3>3. QED BY <1>3, <3>2 DEF transfer, amoVars
  <2>4. QED BY <2>2, <2>3
<1>4. QED BY <1>1, <1>2, <1>3

LEMMA MintingKeeps ==
  ASSUME IInv, NEW n \in Nat,
         \/ \E u \in User : issueUsingExcessCollateral(u, n)
         \/ increaseAmoSupply(n)
  PROVE  IInv'
<1> USE DEF IInv, BooksOK, PriceOK, SupportedOK
<1>1. TokensOK' /\ BalancesOK'
  BY Addresses, MintKeepsTokens
  DEF issueUsingExcessCollateral, increaseAmoSupply, vaultVars
<1>2. QED
  BY <1>1 DEF issueUsingExcessCollateral, increaseAmoSupply, amoVars, vaultVars

LEMMA RedeemKeeps ==
  ASSUME IInv, NEW u \in User, NEW c \in Token, NEW n \in Nat, NEW m \in Nat,
         redeem(u, n, c, m)
  PROVE  IInv'
<1>1. TokensOK' /\ BalancesOK'
  BY RedeemKeepsTokens DEF IInv
<1>2. QED BY <1>1 DEF redeem, amoVars, IInv, BooksOK, PriceOK, SupportedOK

LEMMA ExchangeKeeps ==
  ASSUME IInv, NEW u \in User, NEW from \in Token, NEW to \in Token,
         NEW n \in Nat, NEW m \in Nat,
         \/ exchangeCollateral(u, n, from, m, to)
         \/ exchangeMaxCollateral(u, n, from, to, m)
  PROVE  IInv'
<1>1. PICK k \in Nat : exchangeCollateral(u, n, from, k, to)
  BY ExchangesSomeAmount DEF IInv
<1>2. TokensOK' /\ BalancesOK'
  BY <1>1, ExchangeKeepsTokens DEF IInv
<1>3. QED
  BY <1>1, <1>2 DEF exchangeCollateral, amoVars, IInv, BooksOK, PriceOK, SupportedOK

LEMMA RecoverKeepsTokens ==
  ASSUME TokensOK, BalancesOK, NEW v \in Vault, NEW t \in Token \ {DUSD}, NEW n \in Nat,
         Send(v, t, n), UNCHANGED tokenVars
  PROVE  TokensOK' /\ BalancesOK'
<1>1. n <= balance[v][t] /\ balance' = [balance EXCEPT ![v][t] = @ - n]
  BY LedgerTypes DEF Send
<1>2. /\ balance' \in [Vault -> [Token -> Nat]]
      /\ \A w \in Vault : balance'[w][DUSD] = balance[w][DUSD]
  BY <1>1, LedgerTypes, Addresses
<1>3. \A w \in Vault, e \in Collateral : balance'[w][e] \in Uint
  BY <1>1, Addresses, Parameters DEF BalancesOK, Uint
<1>4. VaultDusd' = VaultDusd
  BY <1>2 DEF VaultDusd
<1>5. SupplyIsHeld' /\ totalSupply' \in Uint /\ dusd' \in [Wallet -> Nat]
  BY <1>4, LedgerTypes DEF TokensOK, SupplyIsHeld, tokenVars
<1>6. QED BY <1>2, <1>3, <1>5, HeldFits

LEMMA VaultKeeps ==
  ASSUME IInv, NEW v \in Vault, NEW c \in Token, NEW n \in Nat,
         \/ recoverERC20(v, c, n)
         \/ allowCollateral(v, c)
         \/ disallowCollateral(v, c)
  PROVE  IInv'
<1> USE DEF IInv, BooksOK, PriceOK, SupportedOK, amoVars
<1>1. CASE recoverERC20(v, c, n)
  <2>1. TokensOK' /\ BalancesOK'
    BY <1>1, RecoverKeepsTokens DEF recoverERC20
  <2>2. QED BY <1>1, <2>1 DEF recoverERC20
<1>2. CASE allowCollateral(v, c) \/ disallowCollateral(v, c)
  BY <1>2 DEF allowCollateral, disallowCollateral, BalancesOK, tokenVars, TokensOK,
              SupplyIsHeld, VaultDusd
<1>3. QED BY <1>1, <1>2

LEMMA PayoutKeeps ==
  ASSUME IInv, NEW v \in Vault, NEW u \in User, NEW t \in Token, NEW n \in Nat,
         withdrawTo(v, u, t, n) \/ withdrawProfits(v, u, t, n)
  PROVE  IInv'
<1>1. PayOut(v, u, t, n) /\ UNCHANGED <<price, supported, amoVars>>
  BY DEF withdrawTo, withdrawProfits
<1>2. TokensOK' /\ BalancesOK'
  BY <1>1, Addresses, PaymentKeepsTokens DEF IInv
<1>3. QED BY <1>1, <1>2 DEF IInv, BooksOK, PriceOK, SupportedOK, amoVars

LEMMA AllocatorKeeps ==
  ASSUME IInv, NEW v \in AmoVault, NEW n \in Nat,
         \/ enableAmoVault(v)
         \/ disableAmoVault(v)
         \/ allocateAmo(v, n)
         \/ deallocateAmo(v, n)
  PROVE  IInv'
<1> USE DEF IInv, PriceOK, SupportedOK
<1>1. v \in Vault /\ AmoManager \in Wallet /\ DUSD \in Token
  BY Addresses
<1>2. BooksOK'
  <2>1. CASE enableAmoVault(v) \/ disableAmoVault(v)
    BY <2>1, Parameters DEF enableAmoVault, disableAmoVault, BooksOK, Uint
  <2>2. CASE allocateAmo(v, n)
    BY <2>2, Parameters DEF allocateAmo, BooksOK, Uint
  <2>3. CASE deallocateAmo(v, n)
    BY <2>3, Parameters DEF deallocateAmo, BooksOK, Uint
  <2>4. QED BY <2>1, <2>2, <2>3
<1>3. CASE enableAmoVault(v) \/ disableAmoVault(v)
  BY <1>2, <1>3 DEF enableAmoVault, disableAmoVault, tokenVars, vaultVars, TokensOK,
                    SupplyIsHeld, VaultDusd, BalancesOK
<1>4. CASE allocateAmo(v, n) \/ deallocateAmo(v, n)
  <2>1. TokensOK' /\ BalancesOK'
    BY <1>1, <1>4, PaymentKeepsTokens DEF allocateAmo, deallocateAmo
  <2>2. QED BY <1>2, <1>4, <2>1 DEF allocateAmo, deallocateAmo
<1>5. QED BY <1>3, <1>4

LEMMA DecreaseKeeps ==
  ASSUME IInv, NEW n \in Nat, decreaseAmoSupply(n)
  PROVE  IInv'
<1>1. TokensOK' /\ BalancesOK'
  BY Addresses, BurnKeepsTokens DEF decreaseAmoSupply, IInv, vaultVars
<1>2. QED
  BY <1>1 DEF decreaseAmoSupply, IInv, PriceOK, SupportedOK, vaultVars, amoVars,
              BooksOK

LEMMA CollateralMovesKeep ==
  ASSUME IInv, NEW v \in AmoVault, NEW c \in Token, NEW n \in Nat,
         \/ transferFromAmoVaultToHoldingVault(v, c, n)
         \/ transferFromHoldingVaultToAmoVault(v, c, n)
  PROVE  IInv'
<1> USE DEF IInv, PriceOK, SupportedOK
<1>1. v \in Vault /\ Holder \in Vault /\ v # Holder
  BY Addresses
<1>2. dusdForCollateral(n, c) \in Nat
  BY ConversionTypes
<1>3. TokensOK' /\ BalancesOK'
  <2>1. UNCHANGED tokenVars /\ (Ship(v, Holder, c, n) \/ Ship(Holder, v, c, n))
    BY DEF transferFromAmoVaultToHoldingVault, transferFromHoldingVaultToAmoVault
  <2>2. QED BY <1>1, <2>1, ShipKeepsTokens
<1>4. BooksOK'
  BY <1>2, Parameters DEF transferFromAmoVaultToHoldingVault,
                          transferFromHoldingVaultToAmoVault, BooksOK, Uint
<1>5. QED
  BY <1>3, <1>4 DEF transferFromAmoVaultToHoldingVault,
                    transferFromHoldingVaultToAmoVault

LEMMA SetPriceKeeps ==
  ASSUME IInv, NEW a \in Token, NEW p \in Nat, setPrice(a, p)
  PROVE  IInv'
BY DEF setPrice, IInv, PriceOK, SupportedOK, BalancesOK, TokensOK, BooksOK,
       SupplyIsHeld, VaultDusd, tokenVars, vaultVars, amoVars

LEMMA InputTypes ==
  /\ Amount \subseteq Nat
  /\ \A a \in Token : Price[a] \subseteq Nat
  /\ AmoVault \subseteq Vault /\ Holder \in Vault
BY InputsAssumption, Addresses

LEMMA NextKeeps ==
  ASSUME IInv, Next
  PROVE  IInv'
<1>1. Counted \subseteq Token
  BY InputTypes DEF Counted, IInv, SupportedOK
<1> USE InputTypes
<1>2. CASE \/ \E u \in User, c \in Token, n, m \in Amount : issue(u, n, c, m)
           \/ \E u \in User, v \in Vault, c \in Token, n \in Amount : deposit(u, v, c, n)
           \/ \E u \in User, a \in Vault \cup {AmoManager}, n \in Amount :
                  transfer(u, a, n)
  BY <1>2, AnyoneKeeps
<1>3. CASE \/ \E u \in User, n \in Amount : issueUsingExcessCollateral(u, n)
           \/ \E n \in Amount : increaseAmoSupply(n)
  BY <1>3, MintingKeeps
<1>4. CASE \E u \in User, c \in Token, n, m \in Amount : redeem(u, n, c, m)
  BY <1>4, RedeemKeeps
<1>5. CASE \E u \in User, from \in Token, to \in Token, n, m \in Amount :
               \/ exchangeCollateral(u, n, from, m, to)
               \/ exchangeMaxCollateral(u, n, from, to, m)
  BY <1>5, ExchangeKeeps
<1>6. CASE \E v \in Vault, c \in Token : \/ allowCollateral(v, c)
                                              \/ disallowCollateral(v, c)
  <2>1. 0 \in Nat
    OBVIOUS
  <2>2. QED BY <1>6, <2>1, VaultKeeps
<1>7. CASE \E v \in Vault, c \in Token, n \in Amount : recoverERC20(v, c, n)
  BY <1>7, VaultKeeps
<1>8. CASE \E v \in Vault, u \in User, t \in Token, n \in Amount :
               withdrawTo(v, u, t, n) \/ withdrawProfits(v, u, t, n)
  BY <1>8, PayoutKeeps
<1>9. CASE \E v \in AmoVault : enableAmoVault(v) \/ disableAmoVault(v)
  <2>1. 0 \in Nat
    OBVIOUS
  <2>2. QED BY <1>9, <2>1, AllocatorKeeps
<1>10. CASE \E v \in AmoVault, n \in Amount : allocateAmo(v, n) \/ deallocateAmo(v, n)
  BY <1>10, AllocatorKeeps
<1>11. CASE \E n \in Amount : decreaseAmoSupply(n)
  BY <1>11, DecreaseKeeps
<1>12. CASE \E v \in AmoVault, c \in Token, n \in Amount :
                \/ transferFromAmoVaultToHoldingVault(v, c, n)
                \/ transferFromHoldingVaultToAmoVault(v, c, n)
  BY <1>12, CollateralMovesKeep
<1>13. CASE \E a \in Token : \E p \in Price[a] \ {price[a]} : setPrice(a, p)
  BY <1>13, SetPriceKeeps
<1>14. QED
  BY <1>1, <1>2, <1>3, <1>4, <1>5, <1>6, <1>7, <1>8, <1>9, <1>10, <1>11, <1>12, <1>13
  DEF Next, Routine, Lending, Exceptional, AnyoneCalls, IssuanceCalls,
      StrategistCalls, VaultCalls, AllocatorCalls, Uncounted

LEMMA InitHolds == Init => IInv
<1> SUFFICES ASSUME Init PROVE IInv
  OBVIOUS
<1>1. PriceOK
  BY InputTypes DEF Init, PriceOK
<1>2. SupplyIsHeld
  <2>1. Total(dusd, Wallet) = 0
    BY TotalOfNothing DEF Init
  <2>2. \A v \in Vault : VaultDusd[v] = 0
    BY Addresses DEF Init, VaultDusd
  <2>3. Total(VaultDusd, Vault) = 0
    BY <2>2, TotalOfNothing
  <2>4. QED BY <2>1, <2>3 DEF Init, SupplyIsHeld
<1>3. SupportedOK /\ BalancesOK /\ BooksOK /\ TokensOK
  BY <1>2, Parameters DEF Init, SupportedOK, BalancesOK, BooksOK, TokensOK, Uint
<1>4. QED BY <1>1, <1>3 DEF IInv

LEMMA StutterKeeps ==
  ASSUME IInv, UNCHANGED vars
  PROVE  IInv'
BY DEF vars, tokenVars, vaultVars, amoVars, IInv, PriceOK, SupportedOK, BalancesOK,
       TokensOK, BooksOK, SupplyIsHeld, VaultDusd

(* In every reachable state the balances, the books and the supply have      *)
(* their types, and the supply is exactly what its holders have: the token's *)
(* unchecked additions cannot wrap.                                          *)
THEOREM SupplyAlwaysHeld == Spec => [](TypeOK /\ SupplyIsHeld)
<1>1. IInv /\ [Next]_vars => IInv'
  BY NextKeeps, StutterKeeps
<1>2. IInv => TypeOK /\ SupplyIsHeld
  BY InvariantParts
<1>3. QED BY InitHolds, <1>1, <1>2, PTL DEF Spec

-----------------------------------------------------------------------------
(* The AmoManager's books. *)

\* What BooksMoveTogether says of a step.
Together == totalAllocated' - totalAllocated = Booked' - Booked

BooksStep ==
    \/ Together
    \/ /\ UNCHANGED totalAllocated
       /\ \E v \in active : /\ active' = active \ {v}
                            /\ Booked - Booked' = allocation[v]
    \/ /\ UNCHANGED allocation
       /\ \E v \in AmoVault :
              /\ allocation[v] = 0
              /\ VaultDusd[v] - VaultDusd'[v] = totalAllocated - totalAllocated'

LEMMA BookedTypes ==
  ASSUME BooksOK, BooksOK'
  PROVE  /\ Booked \in Nat /\ Booked' \in Nat
         /\ totalAllocated \in Nat /\ totalAllocated' \in Nat
<1>1. /\ \A w \in AmoVault : allocation[w] \in Nat
      /\ \A w \in AmoVault : allocation'[w] \in Nat
  BY Parameters DEF BooksOK, Uint
<1>2. Total(allocation, AmoVault) \in Nat /\ Total(allocation', AmoVault) \in Nat
  BY <1>1, TotalNat, Parameters
<1>3. QED BY <1>2, Parameters DEF Booked, BooksOK, Uint

(* One vault's allocation changes, and the sum by as much. *)
LEMMA BookedChange ==
  ASSUME BooksOK, BooksOK', NEW v \in AmoVault,
         \A w \in AmoVault \ {v} : allocation'[w] = allocation[w]
  PROVE  Booked' = Booked - allocation[v] + allocation'[v]
<1>1. /\ \A w \in AmoVault : allocation[w] \in Nat
      /\ \A w \in AmoVault : allocation'[w] \in Nat
  BY Parameters DEF BooksOK, Uint
<1>2. IsFiniteSet(AmoVault) /\ \A w \in AmoVault \ {v} : allocation[w] = allocation'[w]
  BY Parameters
<1>3. Total(allocation', AmoVault)
        = Total(allocation, AmoVault) - allocation[v] + allocation'[v]
  BY <1>1, <1>2, TotalChange
<1>4. QED BY <1>3 DEF Booked

LEMMA SameBooks ==
  ASSUME BooksOK, UNCHANGED <<allocation, totalAllocated>>
  PROVE  Together
<1>1. totalAllocated \in Nat /\ totalAllocated' = totalAllocated
  BY Parameters DEF BooksOK, Uint
<1>2. Booked' = Booked
  BY DEF Booked
<1>3. Booked \in Nat
  <2>1. \A w \in AmoVault : allocation[w] \in Nat
    BY Parameters DEF BooksOK, Uint
  <2>2. QED BY <2>1, TotalNat, Parameters DEF Booked
<1>4. QED BY <1>1, <1>2, <1>3 DEF Together

(* A vault's allocation and the total change by the same amount. *)
LEMMA BothMove ==
  ASSUME BooksOK, BooksOK', NEW v \in AmoVault, NEW d \in Int,
         \A w \in AmoVault \ {v} : allocation'[w] = allocation[w],
         allocation'[v] = allocation[v] + d,
         totalAllocated' = totalAllocated + d
  PROVE  Together
<1>1. allocation[v] \in Nat
  BY Parameters DEF BooksOK, Uint
<1>2. Booked' = Booked - allocation[v] + allocation'[v]
  BY BookedChange
<1>3. QED BY <1>1, <1>2, BookedTypes DEF Together

LEMMA AllocatorBooks ==
  ASSUME IInv, IInv', NEW v \in AmoVault, NEW n \in Nat,
         \/ enableAmoVault(v)
         \/ disableAmoVault(v)
         \/ allocateAmo(v, n)
         \/ deallocateAmo(v, n)
  PROVE  BooksStep
<1> USE DEF IInv
<1>1. CASE enableAmoVault(v)
  <2>1. allocation' = allocation
    BY <1>1 DEF enableAmoVault, BooksOK
  <2>2. QED BY <1>1, <2>1, SameBooks DEF enableAmoVault, BooksStep
<1>2. CASE disableAmoVault(v)
  <2>1. /\ \A w \in AmoVault \ {v} : allocation'[w] = allocation[w]
        /\ allocation'[v] = 0
        /\ allocation[v] \in Nat
    BY <1>2, Parameters DEF disableAmoVault, BooksOK, Uint
  <2>2. Booked' = Booked - allocation[v] + allocation'[v]
    BY <2>1, BookedChange
  <2>3. Booked - Booked' = allocation[v]
    BY <2>1, <2>2, BookedTypes
  <2>4. QED BY <1>2, <2>3 DEF disableAmoVault, BooksStep
<1>3. CASE allocateAmo(v, n)
  <2>1. /\ \A w \in AmoVault \ {v} : allocation'[w] = allocation[w]
        /\ allocation'[v] = allocation[v] + n
        /\ totalAllocated' = totalAllocated + n
    BY <1>3 DEF allocateAmo, BooksOK
  <2>2. QED BY <2>1, BothMove DEF BooksStep
<1>4. CASE deallocateAmo(v, n)
  <2>1. /\ totalAllocated' = totalAllocated - n
        /\ totalAllocated' = totalAllocated + (-n)
        /\ PayOut(v, AmoManager, DUSD, n)
    BY <1>4, BookedTypes DEF deallocateAmo
  <2>2. CASE allocation[v] = 0 /\ UNCHANGED allocation
    <3>1. balance'[v][DUSD] = balance[v][DUSD] - n /\ balance[v][DUSD] \in Nat
      BY <2>1, LedgerTypes, Addresses DEF PayOut, Send
    <3>2. VaultDusd[v] = balance[v][DUSD] /\ VaultDusd'[v] = balance'[v][DUSD]
      BY Addresses DEF VaultDusd
    <3>3. VaultDusd[v] - VaultDusd'[v] = totalAllocated - totalAllocated'
      BY <2>1, <3>1, <3>2, BookedTypes
    <3>4. QED BY <2>2, <3>3 DEF BooksStep
  <2>3. CASE allocation' = [allocation EXCEPT ![v] = @ - n]
    <3>1. /\ \A w \in AmoVault \ {v} : allocation'[w] = allocation[w]
          /\ allocation'[v] = allocation[v] + (-n)
      BY <2>3, Parameters DEF BooksOK, Uint
    <3>2. Together
      BY <2>1, <3>1, BothMove
    <3>3. QED BY <3>2 DEF BooksStep
  <2>4. QED BY <1>4, <2>2, <2>3 DEF deallocateAmo
<1>5. QED BY <1>1, <1>2, <1>3, <1>4

LEMMA CollateralMoveBooks ==
  ASSUME IInv, IInv', NEW v \in AmoVault, NEW c \in Token, NEW n \in Nat,
         \/ transferFromAmoVaultToHoldingVault(v, c, n)
         \/ transferFromHoldingVaultToAmoVault(v, c, n)
  PROVE  BooksStep
<1> DEFINE moved == dusdForCollateral(n, c)
<1> USE DEF IInv
<1>1. moved \in Nat /\ -moved \in Int
  BY ConversionTypes
<1>2. CASE transferFromAmoVaultToHoldingVault(v, c, n)
  <2>1. /\ allocation' = [allocation EXCEPT ![v] = @ - moved]
        /\ totalAllocated' = totalAllocated - moved
    BY <1>2 DEF transferFromAmoVaultToHoldingVault
  <2> HIDE DEF moved
  <2>2. /\ \A w \in AmoVault \ {v} : allocation'[w] = allocation[w]
        /\ allocation'[v] = allocation[v] + (-moved)
        /\ totalAllocated' = totalAllocated + (-moved)
    BY <1>1, <2>1, Parameters DEF BooksOK, Uint
  <2>3. QED BY <1>1, <2>2, BothMove DEF BooksStep
<1>3. CASE transferFromHoldingVaultToAmoVault(v, c, n)
  <2>1. /\ allocation' = [allocation EXCEPT ![v] = @ + moved]
        /\ totalAllocated' = totalAllocated + moved
    BY <1>3 DEF transferFromHoldingVaultToAmoVault
  <2> HIDE DEF moved
  <2>2. /\ \A w \in AmoVault \ {v} : allocation'[w] = allocation[w]
        /\ allocation'[v] = allocation[v] + moved
        /\ totalAllocated' = totalAllocated + moved
    BY <1>1, <2>1 DEF BooksOK
  <2>3. QED BY <1>1, <2>2, BothMove DEF BooksStep
<1>4. QED BY <1>2, <1>3

(* Every other call leaves the books alone. *)
LEMMA OthersLeaveBooks ==
  ASSUME NEW v \in Vault, NEW u, NEW a, NEW c, NEW d, NEW t, NEW n, NEW m,
         \/ issue(u, n, c, m) \/ deposit(u, v, c, n) \/ transfer(u, a, n)
         \/ issueUsingExcessCollateral(u, n) \/ increaseAmoSupply(n)
         \/ redeem(u, n, c, m) \/ exchangeCollateral(u, n, c, m, d)
         \/ exchangeMaxCollateral(u, n, c, d, m)
         \/ allowCollateral(v, c) \/ disallowCollateral(v, c)
         \/ withdrawTo(v, u, c, n) \/ recoverERC20(v, c, n)
         \/ withdrawProfits(v, u, t, n) \/ decreaseAmoSupply(n) \/ setPrice(a, t)
  PROVE  UNCHANGED <<allocation, totalAllocated>>
BY DEF issue, deposit, transfer, issueUsingExcessCollateral, increaseAmoSupply, redeem,
       exchangeCollateral, exchangeMaxCollateral, allowCollateral, disallowCollateral,
       withdrawTo, recoverERC20, withdrawProfits, decreaseAmoSupply,
       setPrice, amoVars

LEMMA BooksKept ==
  ASSUME IInv, IInv', Next
  PROVE  BooksStep
<1>1. Counted \subseteq Token /\ Uncounted \subseteq Token
  BY Addresses DEF Counted, Uncounted, IInv, SupportedOK
<1> USE InputTypes
<1>2. CASE \/ \E v \in AmoVault : enableAmoVault(v) \/ disableAmoVault(v)
           \/ \E v \in AmoVault, n \in Amount : allocateAmo(v, n) \/ deallocateAmo(v, n)
  <2>1. 0 \in Nat
    OBVIOUS
  <2>2. QED BY <1>2, <2>1, AllocatorBooks
<1>3. CASE \E v \in AmoVault, c \in Token, n \in Amount :
               \/ transferFromAmoVaultToHoldingVault(v, c, n)
               \/ transferFromHoldingVaultToAmoVault(v, c, n)
  BY <1>3, CollateralMoveBooks
<1>4. CASE UNCHANGED <<allocation, totalAllocated>>
  BY <1>4, SameBooks DEF IInv, BooksStep
<1>5. AnyoneCalls \/ IssuanceCalls \/ StrategistCalls \/ VaultCalls
        => UNCHANGED <<allocation, totalAllocated>>
  BY OthersLeaveBooks DEF AnyoneCalls, IssuanceCalls, StrategistCalls, VaultCalls
<1>6. ASSUME AllocatorCalls PROVE BooksStep
  BY <1>1, <1>2, <1>3, <1>4, <1>6, OthersLeaveBooks DEF AllocatorCalls
<1>7. ASSUME Exceptional PROVE BooksStep
  BY <1>1, <1>3, <1>4, <1>7, OthersLeaveBooks DEF Exceptional
<1>8. Lending => BooksStep
  BY <1>3 DEF Lending
<1>9. QED BY <1>4, <1>5, <1>6, <1>7, <1>8 DEF Next, Routine

(* For any vaults and any history, the AmoManager's total moves with the     *)
(* vaults' allocations, but for what disabling and an unallocated vault's    *)
(* return of dUSD do to it.                                                  *)
THEOREM BooksStayTogether == Spec => BooksMoveTogether
<1>1. IInv /\ [Next]_vars => IInv'
  BY NextKeeps, StutterKeeps
<1>2. IInv /\ IInv' /\ [Next]_vars => [BooksStep]_vars
  BY BooksKept
<1>3. Spec => [][BooksStep]_vars
  BY InitHolds, <1>1, <1>2, PTL DEF Spec
<1>4. QED BY <1>3 DEF BooksStep, Together, BooksMoveTogether

-----------------------------------------------------------------------------
(* Backing: the backing of circulating dUSD, for all prices, decimals and  *)
(* amounts. No routine call deepens a shortfall, and at unchanged prices   *)
(* the dUSD contracts implement BackedSupply.                              *)

(* Worth is the value of the holder vault; a value's dUSD is worth no more.  *)
Worth == totalValueOfSupportedCollaterals(Holder)

\* The same value as a function of prices, balances and the counted tokens.
Values(p, b)     == [c \in Token |-> (p[c] * b[c]) \div Unit[c]]
ValueOf(p, b, S) == Total(Values(p, b), S)

LEMMA WorthIsValueOf ==
  /\ Worth = ValueOf(price, balance[Holder], supported[Holder])
  /\ Worth' = ValueOf(price', balance'[Holder], supported'[Holder])
BY DEF Worth, ValueOf, Values, totalValueOfSupportedCollaterals, assetValueFromAmount

LEMMA ValuesType ==
  ASSUME NEW p \in [Token -> Nat], NEW b \in [Token -> Nat]
  PROVE  Values(p, b) \in [Token -> Nat]
<1>1. ASSUME NEW c \in Token PROVE (p[c] * b[c]) \div Unit[c] \in Nat
  <2>1. p[c] \in Nat /\ b[c] \in Nat /\ Unit[c] \in Nat \ {0}
    BY UnitsAssumption
  <2>2. p[c] * b[c] \in Nat
    BY <2>1
  <2>3. QED BY <2>1, <2>2, DivDef
<1>2. QED BY <1>1 DEF Values

LEMMA CountedFinite ==
  ASSUME NEW S \in SUBSET Token
  PROVE  IsFiniteSet(S)
BY Parameters, FS_Subset

LEMMA ValueOfType ==
  ASSUME NEW p \in [Token -> Nat], NEW b \in [Token -> Nat],
         NEW S \in SUBSET Token
  PROVE  ValueOf(p, b, S) \in Nat
<1>1. \A c \in S : Values(p, b)[c] \in Nat
  BY ValuesType
<1>2. IsFiniteSet(S)
  BY CountedFinite
<1>3. QED BY <1>1, <1>2, TotalNat DEF ValueOf

(* One balance changes: the vault's worth changes with that token's value if *)
(* the token counts, and not at all otherwise.                               *)
LEMMA ValueOfChange ==
  ASSUME NEW p \in [Token -> Nat], NEW S \in SUBSET Token,
         NEW b \in [Token -> Nat], NEW d \in [Token -> Nat],
         NEW c \in Token, \A e \in Token \ {c} : b[e] = d[e]
  PROVE  /\ c \in S => ValueOf(p, d, S)
                         = ValueOf(p, b, S) - (p[c] * b[c]) \div Unit[c]
                                            + (p[c] * d[c]) \div Unit[c]
         /\ c \notin S => ValueOf(p, d, S) = ValueOf(p, b, S)
<1> DEFINE f == Values(p, b)
           g == Values(p, d)
<1>1. f \in [Token -> Nat] /\ g \in [Token -> Nat]
  BY ValuesType
<1>2. \A e \in Token \ {c} : f[e] = g[e]
  BY DEF Values
<1>3. f[c] = (p[c] * b[c]) \div Unit[c] /\ g[c] = (p[c] * d[c]) \div Unit[c]
  BY DEF Values
<1> HIDE DEF f, g
<1>4. IsFiniteSet(S)
  BY CountedFinite
<1>5. ASSUME c \in S PROVE Total(g, S) = Total(f, S) - f[c] + g[c]
  <2>1. \A e \in S : f[e] \in Nat
    BY <1>1
  <2>2. \A e \in S : g[e] \in Nat
    BY <1>1
  <2>3. \A e \in S \ {c} : f[e] = g[e]
    BY <1>2
  <2>4. QED BY <1>4, <1>5, <2>1, <2>2, <2>3, TotalChange
<1>6. ASSUME c \notin S PROVE Total(g, S) = Total(f, S)
  <2>1. \A e \in S : g[e] = f[e]
    BY <1>2, <1>6
  <2>2. QED BY <2>1, TotalSame
<1>7. QED BY <1>3, <1>5, <1>6 DEF ValueOf, f, g

(* Counting one more token loses no value. *)
LEMMA ValueOfMoreTokens ==
  ASSUME NEW p \in [Token -> Nat], NEW S \in SUBSET Token,
         NEW b \in [Token -> Nat], NEW c \in Token \ S
  PROVE  ValueOf(p, b, S) <= ValueOf(p, b, S \cup {c})
<1> DEFINE f == Values(p, b)
           T == S \cup {c}
<1>1. \A e \in T : f[e] \in Nat
  BY ValuesType
<1>2. T \in SUBSET Token /\ c \in T /\ T \ {c} = S
  OBVIOUS
<1>3. IsFiniteSet(T)
  BY <1>2, CountedFinite
<1> HIDE DEF f, T
<1>4. /\ Total(f, T \ {c}) \in Nat
      /\ Total(f, T) = Total(f, T \ {c}) + f[c]
  BY <1>1, <1>2, <1>3, TotalSplit
<1>5. f[c] \in Nat
  BY <1>1, <1>2
<1>6. /\ Total(f, S) \in Nat
      /\ Total(f, T) = Total(f, S) + f[c]
  <2>1. T \ {c} = S
    BY <1>2
  <2>2. QED BY <1>4, <2>1, Zenon
<1>7. Total(f, S) <= Total(f, T)
  BY <1>5, <1>6
<1>8. QED BY <1>7 DEF ValueOf, f, T

-----------------------------------------------------------------------------
(* Rounding: paid in, an amount adds its value or more; paid out against a   *)
(* value it does not exceed, it takes no more than that value.               *)

LEMMA ValueOfReceive ==
  ASSUME NEW p \in [Token -> Nat], NEW S \in SUBSET Token,
         NEW b \in [Token -> Nat], NEW c \in S, NEW n \in Nat
  PROVE  ValueOf(p, b, S) + (p[c] * n) \div Unit[c]
           <= ValueOf(p, [b EXCEPT ![c] = @ + n], S)
<1> DEFINE d == [b EXCEPT ![c] = @ + n]
<1>1. /\ d \in [Token -> Nat] /\ d[c] = b[c] + n
      /\ \A e \in Token \ {c} : b[e] = d[e]
  OBVIOUS
<1> HIDE DEF d
<1>2. /\ p[c] \in Nat /\ b[c] \in Nat /\ Unit[c] \in Nat \ {0}
  BY UnitsAssumption
<1>3. ValueOf(p, d, S) = ValueOf(p, b, S) - (p[c] * b[c]) \div Unit[c]
                                          + (p[c] * d[c]) \div Unit[c]
  BY <1>1, ValueOfChange
<1>4. p[c] * d[c] = p[c] * b[c] + p[c] * n
  BY <1>1, <1>2
<1>5. p[c] * b[c] \in Nat /\ p[c] * n \in Nat
  BY <1>2
<1>6. (p[c] * b[c]) \div Unit[c] + (p[c] * n) \div Unit[c]
        <= (p[c] * d[c]) \div Unit[c]
  BY <1>2, <1>4, <1>5, DivOfSum
<1>7. ValueOf(p, b, S) \in Nat
  BY ValueOfType
<1>8. /\ (p[c] * b[c]) \div Unit[c] \in Nat /\ (p[c] * n) \div Unit[c] \in Nat
      /\ (p[c] * d[c]) \div Unit[c] \in Nat
  <2>1. p[c] * d[c] \in Nat
    BY <1>4, <1>5
  <2>2. QED BY <1>2, <1>5, <2>1, DivDef
<1>9. QED BY <1>3, <1>6, <1>7, <1>8 DEF d

LEMMA ValueOfSend ==
  ASSUME NEW p \in [Token -> Nat], NEW S \in SUBSET Token,
         NEW b \in [Token -> Nat], NEW c \in Token,
         NEW n \in Nat, n <= b[c], NEW v \in Nat, p[c] * n <= Unit[c] * v
  PROVE  ValueOf(p, b, S) <= ValueOf(p, [b EXCEPT ![c] = @ - n], S) + v
<1> DEFINE d == [b EXCEPT ![c] = @ - n]
<1>1. /\ d \in [Token -> Nat] /\ d[c] = b[c] - n
      /\ \A e \in Token \ {c} : b[e] = d[e]
  OBVIOUS
<1> HIDE DEF d
<1>2. /\ p[c] \in Nat /\ b[c] \in Nat /\ d[c] \in Nat /\ Unit[c] \in Nat \ {0}
  BY <1>1, UnitsAssumption
<1>3. ValueOf(p, b, S) \in Nat /\ ValueOf(p, d, S) \in Nat
  BY <1>1, ValueOfType
<1>4. CASE c \notin S
  <2>1. ValueOf(p, d, S) = ValueOf(p, b, S)
    BY <1>1, <1>4, ValueOfChange
  <2>2. QED BY <1>3, <2>1 DEF d
<1>5. CASE c \in S
  <2>1. ValueOf(p, d, S) = ValueOf(p, b, S) - (p[c] * b[c]) \div Unit[c]
                                            + (p[c] * d[c]) \div Unit[c]
    BY <1>1, <1>5, ValueOfChange
  <2>2. p[c] * b[c] = p[c] * d[c] + p[c] * n
    BY <1>1, <1>2
  <2>3. /\ p[c] * d[c] \in Nat /\ p[c] * b[c] \in Nat /\ Unit[c] * v \in Nat
        /\ p[c] * n \in Nat
    BY <1>2
  <2>4. p[c] * b[c] <= p[c] * d[c] + Unit[c] * v
    BY <2>2, <2>3
  <2>5. (p[c] * b[c]) \div Unit[c] <= (p[c] * d[c] + Unit[c] * v) \div Unit[c]
    <3>1. p[c] * d[c] + Unit[c] * v \in Nat
      BY <2>3
    <3>2. QED BY <1>2, <2>3, <2>4, <3>1, DivMonotone
  <2>6. (p[c] * d[c] + Unit[c] * v) \div Unit[c] = (p[c] * d[c]) \div Unit[c] + v
    BY <1>2, <2>3, DivOfMultiple
  <2>7. (p[c] * b[c]) \div Unit[c] \in Nat /\ (p[c] * d[c]) \div Unit[c] \in Nat
    BY <1>2, <2>3, DivDef
  <2>8. QED BY <1>3, <2>1, <2>5, <2>6, <2>7 DEF d
<1>6. QED BY <1>4, <1>5

(* In dUSD: a gain in worth backs the dUSD its value issues; a loss of worth *)
(* no greater than d dUSD are worth at the peg costs at most d of backing.   *)

LEMMA UnitTypes == DusdUnit \in Nat \ {0} /\ UsdUnit \in Nat \ {0}
BY UnitsAssumption, Addresses DEF DusdUnit

LEMMA DusdAmountType ==
  ASSUME NEW x \in Nat
  PROVE  usdValueToDusdAmount(x) \in Nat
<1>1. x * DusdUnit \in Nat
  BY UnitTypes
<1>2. QED BY <1>1, UnitTypes, DivDef DEF usdValueToDusdAmount

LEMMA DusdOfGain ==
  ASSUME NEW x \in Nat, NEW y \in Nat, NEW v \in Nat, x + v <= y
  PROVE  usdValueToDusdAmount(x) + usdValueToDusdAmount(v)
           <= usdValueToDusdAmount(y)
<1>1. x * DusdUnit \in Nat /\ v * DusdUnit \in Nat /\ y * DusdUnit \in Nat
  BY UnitTypes
<1>2. x * DusdUnit + v * DusdUnit <= y * DusdUnit
  <2>1. (x + v) * DusdUnit <= y * DusdUnit
    BY UnitTypes
  <2>2. QED BY <2>1, UnitTypes
<1>3. (x * DusdUnit + v * DusdUnit) \div UsdUnit <= (y * DusdUnit) \div UsdUnit
  BY <1>1, <1>2, UnitTypes, DivMonotone
<1>4. (x * DusdUnit) \div UsdUnit + (v * DusdUnit) \div UsdUnit
        <= (x * DusdUnit + v * DusdUnit) \div UsdUnit
  BY <1>1, UnitTypes, DivOfSum
<1>5. /\ (x * DusdUnit) \div UsdUnit \in Nat /\ (v * DusdUnit) \div UsdUnit \in Nat
      /\ (y * DusdUnit) \div UsdUnit \in Nat
      /\ (x * DusdUnit + v * DusdUnit) \div UsdUnit \in Nat
  BY <1>1, UnitTypes, DivDef
<1>6. QED BY <1>3, <1>4, <1>5 DEF usdValueToDusdAmount

LEMMA DusdOfLoss ==
  ASSUME NEW x \in Nat, NEW y \in Nat, NEW d \in Nat,
         x <= y + dusdAmountAtPeg(d)
  PROVE  usdValueToDusdAmount(x) <= usdValueToDusdAmount(y) + d
<1> DEFINE v == dusdAmountAtPeg(d)
<1>1. d * UsdUnit \in Nat
  BY UnitTypes
<1>2. v \in Nat /\ DusdUnit * v <= d * UsdUnit
  BY <1>1, UnitTypes, DivDef DEF dusdAmountAtPeg
<1>3. x <= y + v
  OBVIOUS
<1> HIDE DEF v
<1>4. x * DusdUnit \in Nat /\ y * DusdUnit \in Nat /\ UsdUnit * d \in Nat
  BY UnitTypes
<1>5. x * DusdUnit <= y * DusdUnit + UsdUnit * d
  <2>1. x * DusdUnit <= (y + v) * DusdUnit
    BY <1>2, <1>3, UnitTypes
  <2>2. (y + v) * DusdUnit = y * DusdUnit + DusdUnit * v
    BY <1>2, UnitTypes
  <2>3. DusdUnit * v \in Nat /\ UsdUnit * d = d * UsdUnit
    BY <1>2, UnitTypes
  <2>4. QED BY <1>1, <1>2, <1>4, <2>1, <2>2, <2>3
<1>6. (x * DusdUnit) \div UsdUnit <= (y * DusdUnit + UsdUnit * d) \div UsdUnit
  BY <1>4, <1>5, UnitTypes, DivMonotone
<1>7. (y * DusdUnit + UsdUnit * d) \div UsdUnit = (y * DusdUnit) \div UsdUnit + d
  BY <1>4, UnitTypes, DivOfMultiple
<1>8. QED BY <1>6, <1>7 DEF usdValueToDusdAmount

-----------------------------------------------------------------------------
(* What an operation does to the worth of the holder vault. *)

LEMMA HolderTypes ==
  ASSUME IInv
  PROVE  /\ price \in [Token -> Nat]
         /\ balance[Holder] \in [Token -> Nat]
         /\ supported[Holder] \in SUBSET Token
         /\ Worth \in Nat
<1>1. /\ price \in [Token -> Nat]
      /\ balance[Holder] \in [Token -> Nat]
      /\ supported[Holder] \in SUBSET Token
  BY Parameters DEF IInv, PriceOK, BalancesOK, SupportedOK, Vault, Uint
<1>2. QED BY <1>1, WorthIsValueOf, ValueOfType

LEMMA HolderReceives ==
  ASSUME IInv, NEW c \in Counted, NEW n \in Nat,
         balance'[Holder] = [balance[Holder] EXCEPT ![c] = @ + n],
         UNCHANGED <<price, supported>>
  PROVE  Worth + assetValueFromAmount(n, c) <= Worth'
BY HolderTypes, WorthIsValueOf, ValueOfReceive DEF Counted, assetValueFromAmount

LEMMA HolderSends ==
  ASSUME IInv, NEW c \in Token, NEW n \in Nat, n <= balance[Holder][c],
         NEW v \in Nat, price[c] * n <= Unit[c] * v,
         balance'[Holder] = [balance[Holder] EXCEPT ![c] = @ - n],
         UNCHANGED <<price, supported>>
  PROVE  Worth <= Worth' + v
BY HolderTypes, WorthIsValueOf, ValueOfSend

(* What the vault pays for a value is worth no more than that value. *)
LEMMA AmountWithinValue ==
  ASSUME PriceOK, NEW v \in Nat, NEW c \in Token, price[c] # 0
  PROVE  /\ assetAmountFromValue(v, c) \in Nat
         /\ price[c] * assetAmountFromValue(v, c) <= Unit[c] * v
<1>1. price[c] \in Nat \ {0} /\ Unit[c] \in Nat \ {0}
  BY UnitsAssumption DEF PriceOK
<1>2. v * Unit[c] \in Nat /\ v * Unit[c] = Unit[c] * v
  BY <1>1
<1>3. QED BY <1>1, <1>2, DivDef DEF assetAmountFromValue

LEMMA HolderExchanges ==
  ASSUME IInv, NEW u \in User, NEW from \in Counted, NEW to \in Token,
         NEW n \in Nat, NEW m \in Nat, exchangeCollateral(u, n, from, m, to)
  PROVE  Worth <= Worth'
<1> DEFINE b    == balance[Holder]
           paid == [b EXCEPT ![from] = @ + n]
           v    == assetValueFromAmount(n, from)
<1>1. /\ price \in [Token -> Nat] /\ b \in [Token -> Nat]
      /\ supported[Holder] \in SUBSET Token /\ from \in supported[Holder]
  BY HolderTypes DEF Counted
<1>2. paid \in [Token -> Nat]
  BY <1>1
<1>3. balance'[Holder] = [paid EXCEPT ![to] = @ - m] /\ m <= paid[to]
  BY <1>1, <1>2, Parameters
  DEF exchangeCollateral, IInv, BalancesOK, Vault, Uint
<1>4. v \in Nat
  BY <1>1, ConversionTypes DEF IInv
<1>5. price[to] * m <= Unit[to] * v
  <2>1. /\ assetAmountFromValue(v, to) \in Nat
        /\ price[to] * assetAmountFromValue(v, to) <= Unit[to] * v
    BY <1>4, AmountWithinValue DEF exchangeCollateral, IInv
  <2>2. m <= assetAmountFromValue(v, to)
    BY DEF exchangeCollateral, maxExchangeAmount
  <2>3. price[to] \in Nat /\ Unit[to] \in Nat
    BY <1>1, UnitsAssumption
  <2>4. price[to] * m <= price[to] * assetAmountFromValue(v, to)
    BY <2>1, <2>2, <2>3
  <2>5. QED BY <1>4, <2>1, <2>3, <2>4
<1>6. ValueOf(price, b, supported[Holder]) + v
        <= ValueOf(price, paid, supported[Holder])
  BY <1>1, ValueOfReceive DEF assetValueFromAmount
<1> HIDE DEF paid, v
<1>7. ValueOf(price, paid, supported[Holder])
        <= ValueOf(price, balance'[Holder], supported[Holder]) + v
  <2>1. m <= paid[to]
    BY <1>3
  <2>2. ValueOf(price, paid, supported[Holder])
          <= ValueOf(price, [paid EXCEPT ![to] = @ - m], supported[Holder]) + v
    BY <1>1, <1>2, <1>4, <1>5, <2>1, ValueOfSend
  <2>3. QED BY <1>3, <2>2
<1>8. /\ Worth = ValueOf(price, b, supported[Holder])
      /\ Worth' = ValueOf(price, balance'[Holder], supported[Holder])
  BY WorthIsValueOf DEF exchangeCollateral
<1>9. balance'[Holder] \in [Token -> Nat]
  BY <1>2, <1>3
<1>10. /\ ValueOf(price, b, supported[Holder]) \in Nat
       /\ ValueOf(price, paid, supported[Holder]) \in Nat
       /\ ValueOf(price, balance'[Holder], supported[Holder]) \in Nat
  BY <1>1, <1>2, <1>9, ValueOfType
<1>11. QED BY <1>4, <1>6, <1>7, <1>8, <1>10

-----------------------------------------------------------------------------
(* What an operation does to the backing. *)

LEMMA BackingParts ==
  ASSUME IInv
  PROVE  /\ collateralInDusd = usdValueToDusdAmount(Worth)
         /\ collateralInDusd' = usdValueToDusdAmount(Worth')
         /\ collateralInDusd \in Nat
         /\ circulatingDusd \in Int
<1>1. Worth * DusdUnit \in Nat
  BY HolderTypes, UnitTypes
<1>2. usdValueToDusdAmount(Worth) \in Nat
  BY <1>1, UnitTypes, DivDef DEF usdValueToDusdAmount
<1>3. circulatingDusd \in Int
  BY Parameters DEF circulatingDusd, totalAmoSupply, IInv, TokensOK, BooksOK, Uint,
                    Wallet
<1>4. QED BY <1>2, <1>3 DEF collateralInDusd, Worth, usdValueToDusdAmount

\* A step may use this whenever it keeps IInv: both states are then typed.
LEMMA MoreBacking ==
  ASSUME IInv, IInv', NEW v \in Nat, Worth + v <= Worth',
         circulatingDusd' <= circulatingDusd + usdValueToDusdAmount(v)
  PROVE  Backing' >= Backing
<1>1. Worth \in Nat /\ Worth' \in Nat
  <2>1. Worth \in Nat
    BY HolderTypes
  <2>2. price' \in [Token -> Nat] /\ balance'[Holder] \in [Token -> Nat]
        /\ supported'[Holder] \in SUBSET Token
    BY Parameters DEF IInv, PriceOK, BalancesOK, SupportedOK, Vault, Uint
  <2>3. Worth' \in Nat
    BY <2>2, WorthIsValueOf, ValueOfType
  <2>4. QED BY <2>1, <2>3
<1>2. usdValueToDusdAmount(Worth) + usdValueToDusdAmount(v)
        <= usdValueToDusdAmount(Worth')
  BY <1>1, DusdOfGain
<1>3. \A x \in Nat : usdValueToDusdAmount(x) \in Nat
  BY DusdAmountType
<1>4. circulatingDusd \in Int /\ circulatingDusd' \in Int
  BY Parameters DEF circulatingDusd, totalAmoSupply, IInv, TokensOK, BooksOK, Uint,
                    Wallet
<1>5. /\ collateralInDusd = usdValueToDusdAmount(Worth)
      /\ collateralInDusd' = usdValueToDusdAmount(Worth')
  BY BackingParts
<1>6. QED BY <1>1, <1>2, <1>3, <1>4, <1>5 DEF Backing

LEMMA NothingIsWorthNothing == usdValueToDusdAmount(0) = 0
<1>1. 0 * DusdUnit = 0
  BY UnitTypes
<1>2. 0 \div UsdUnit \in Nat /\ UsdUnit * (0 \div UsdUnit) <= 0
  BY UnitTypes, DivDef
<1>3. 0 \div UsdUnit = 0
  BY <1>2, UnitTypes
<1>4. QED BY <1>1, <1>3 DEF usdValueToDusdAmount

LEMMA NoLessBacking ==
  ASSUME IInv, IInv', Worth <= Worth', circulatingDusd' <= circulatingDusd
  PROVE  Backing' >= Backing
<1>1. usdValueToDusdAmount(0) = 0
  BY NothingIsWorthNothing
<1>2. Worth \in Nat
  BY HolderTypes
<1>3. circulatingDusd \in Int
  BY BackingParts
<1>4. Worth + 0 <= Worth' /\ circulatingDusd' <= circulatingDusd + 0
  BY <1>2, <1>3
<1>5. QED BY <1>1, <1>4, MoreBacking

LEMMA SameWorth ==
  ASSUME balance'[Holder] = balance[Holder], supported'[Holder] = supported[Holder],
         price' = price
  PROVE  Worth' = Worth
BY WorthIsValueOf

LEMMA CirculatingTypes ==
  ASSUME IInv
  PROVE  /\ totalSupply \in Nat /\ totalAllocated \in Nat
         /\ dusd[AmoManager] \in Nat
         /\ circulatingDusd = totalSupply - dusd[AmoManager] - totalAllocated
BY Parameters DEF IInv, TokensOK, BooksOK, Uint, Wallet, circulatingDusd,
                  totalAmoSupply

LEMMA CirculatingIsInt == IInv => circulatingDusd \in Int /\ circulatingDusd <= circulatingDusd
<1>1. ASSUME IInv PROVE circulatingDusd \in Int
  BY <1>1, BackingParts
<1>2. \A x \in Int : x <= x
  OBVIOUS
<1>3. QED BY <1>1, <1>2

LEMMA ManagerDistinct ==
  /\ AmoManager \in Wallet
  /\ \A a \in User : a \in Wallet /\ a # AmoManager
BY Addresses

(* A user's payment, in or out, leaves the circulating supply alone. *)
LEMMA SameCirculating ==
  ASSUME UNCHANGED <<totalSupply, totalAllocated>>, dusd'[AmoManager] = dusd[AmoManager]
  PROVE  circulatingDusd' = circulatingDusd /\ totalAmoSupply' = totalAmoSupply
BY DEF circulatingDusd, totalAmoSupply

LEMMA PaymentKeepsCirculating ==
  ASSUME IInv, NEW u \in User, NEW v \in Vault, NEW t \in Token, NEW n \in Nat,
         Pay(u, v, t, n) \/ PayOut(v, u, t, n), UNCHANGED totalAllocated
  PROVE  circulatingDusd' = circulatingDusd
<1>1. dusd'[AmoManager] = dusd[AmoManager] /\ totalSupply' = totalSupply
  BY ManagerDistinct DEF Pay, PayOut, IInv, TokensOK
<1>2. QED BY <1>1, SameCirculating

LEMMA IssueKeepsBacking ==
  ASSUME IInv, IInv', NEW u \in User, NEW c \in Counted, NEW n \in Nat, NEW m \in Nat,
         issue(u, n, c, m)
  PROVE  Backing' >= Backing
<1>1. c \in Token
  BY HolderTypes DEF Counted
<1>2. balance'[Holder] = [balance[Holder] EXCEPT ![c] = @ + n]
  BY <1>1, Addresses DEF issue, Receive, IInv, BalancesOK
<1>3. Worth + assetValueFromAmount(n, c) <= Worth'
  BY <1>2, HolderReceives DEF issue
<1>4. assetValueFromAmount(n, c) \in Nat /\ dusdForCollateral(n, c) \in Nat
  BY <1>1, ConversionTypes DEF IInv
<1>5. /\ totalSupply' = totalSupply + dusdForCollateral(n, c)
      /\ totalAllocated' = totalAllocated
      /\ dusd'[AmoManager] = dusd[AmoManager]
  BY ManagerDistinct DEF issue, amoVars, IInv, TokensOK
<1>6. circulatingDusd' <= circulatingDusd + dusdForCollateral(n, c)
  BY <1>4, <1>5, CirculatingTypes DEF circulatingDusd, totalAmoSupply
<1>7. QED BY <1>3, <1>4, <1>6, MoreBacking DEF dusdForCollateral

(* Recalling collateral makes dUSD circulate again, and brings its backing. *)
LEMMA RecallKeepsBacking ==
  ASSUME IInv, IInv', NEW v \in AmoVault, NEW c \in Counted, NEW n \in Nat,
         transferFromAmoVaultToHoldingVault(v, c, n)
  PROVE  Backing' >= Backing
<1>1. c \in Token
  BY HolderTypes DEF Counted
<1>2. v # Holder /\ v \in Vault /\ Holder \in Vault
  BY ParametersAssumption DEF Vault
<1>3. balance'[Holder] = [balance[Holder] EXCEPT ![c] = @ + n]
  BY <1>1, <1>2 DEF transferFromAmoVaultToHoldingVault, Ship, IInv, BalancesOK
<1>4. Worth + assetValueFromAmount(n, c) <= Worth'
  BY <1>3, HolderReceives DEF transferFromAmoVaultToHoldingVault
<1>5. assetValueFromAmount(n, c) \in Nat /\ dusdForCollateral(n, c) \in Nat
  BY <1>1, ConversionTypes DEF IInv
<1>6. /\ totalSupply' = totalSupply /\ dusd' = dusd
      /\ totalAllocated' = totalAllocated - dusdForCollateral(n, c)
  BY DEF transferFromAmoVaultToHoldingVault, tokenVars
<1>7. circulatingDusd' <= circulatingDusd + dusdForCollateral(n, c)
  BY <1>5, <1>6, CirculatingTypes DEF circulatingDusd, totalAmoSupply
<1>8. QED BY <1>4, <1>5, <1>7, MoreBacking DEF dusdForCollateral

LEMMA RedeemKeepsBacking ==
  ASSUME IInv, IInv', NEW u \in User, NEW c \in Token, NEW n \in Nat, NEW m \in Nat,
         redeem(u, n, c, m)
  PROVE  Backing' >= Backing
<1> DEFINE v   == dusdAmountAtPeg(n)
           out == collateralForDusd(n, c)
<1>1. v \in Nat
  <2>1. n * UsdUnit \in Nat
    BY UnitTypes
  <2>2. QED BY <2>1, UnitTypes, DivDef DEF dusdAmountAtPeg
<1>2. out \in Nat /\ price[c] * out <= Unit[c] * v
  BY <1>1, AmountWithinValue DEF redeem, collateralForDusd, IInv
<1>3. /\ balance'[Holder] = [balance[Holder] EXCEPT ![c] = @ - out]
      /\ out <= balance[Holder][c]
  BY <1>2, HolderTypes DEF redeem, Send, IInv, BalancesOK, Vault
<1> HIDE DEF out
<1>4. Worth <= Worth' + v
  <2>1. UNCHANGED <<price, supported>>
    BY DEF redeem
  <2> HIDE DEF v
  <2>2. QED BY <1>1, <1>2, <1>3, <2>1, HolderSends
<1>5. Worth \in Nat
  BY HolderTypes
<1>6. Worth' \in Nat
  <2>1. price' \in [Token -> Nat] /\ balance'[Holder] \in [Token -> Nat]
        /\ supported'[Holder] \in SUBSET Token
    BY Parameters DEF IInv, PriceOK, BalancesOK, SupportedOK, Vault, Uint
  <2>2. QED BY <2>1, WorthIsValueOf, ValueOfType
<1>7. usdValueToDusdAmount(Worth) <= usdValueToDusdAmount(Worth') + n
  BY <1>4, <1>5, <1>6, DusdOfLoss
<1>8. /\ totalSupply' = totalSupply - n /\ totalAllocated' = totalAllocated
      /\ dusd'[AmoManager] = dusd[AmoManager]
  BY ManagerDistinct DEF redeem, amoVars, IInv, TokensOK
<1>9. circulatingDusd' = circulatingDusd - n
  BY <1>8, CirculatingTypes DEF circulatingDusd, totalAmoSupply
<1>10. usdValueToDusdAmount(Worth') \in Nat
  BY <1>6, DusdAmountType
<1>11. QED BY <1>7, <1>9, <1>10, BackingParts DEF Backing

(* The remaining routine operations neither lower the vault's worth nor      *)
(* raise the circulating supply.                                             *)
Quiet == Worth <= Worth' /\ circulatingDusd' <= circulatingDusd

LEMMA AllowKeepsWorth ==
  ASSUME IInv, NEW v \in Vault, NEW c \in Token, allowCollateral(v, c)
  PROVE  Worth <= Worth'
<1>1. /\ price' = price /\ balance' = balance
      /\ \/ supported'[Holder] = supported[Holder]
         \/ /\ c \notin supported[Holder]
            /\ supported'[Holder] = supported[Holder] \cup {c}
  BY DEF allowCollateral, IInv, SupportedOK, Vault
<1>2. CASE supported'[Holder] = supported[Holder]
  BY <1>1, <1>2, SameWorth, HolderTypes
<1>3. CASE /\ c \notin supported[Holder]
           /\ supported'[Holder] = supported[Holder] \cup {c}
  BY <1>1, <1>3, HolderTypes, ValueOfMoreTokens, WorthIsValueOf
<1>4. QED BY <1>1, <1>2, <1>3

LEMMA ReceivingKeepsWorth ==
  ASSUME IInv, NEW v \in Vault, NEW c \in Token, NEW n \in Nat, Receive(v, c, n),
         UNCHANGED <<price, supported>>
  PROVE  Worth <= Worth'
<1>1. balance' = [balance EXCEPT ![v][c] = @ + n] /\ Holder \in Vault
  BY Addresses DEF Receive
<1>2. CASE v # Holder
  BY <1>1, <1>2, SameWorth, HolderTypes DEF IInv, BalancesOK
<1>3. CASE v = Holder
  <2>1. balance'[Holder] = [balance[Holder] EXCEPT ![c] = @ + n]
    BY <1>1, <1>3 DEF IInv, BalancesOK
  <2>2. balance'[Holder] \in [Token -> Nat]
    BY <2>1, HolderTypes
  <2>3. Worth' \in Nat
    BY <2>2, HolderTypes, WorthIsValueOf, ValueOfType
  <2>4. CASE c \in Counted
    <3>1. Worth + assetValueFromAmount(n, c) <= Worth'
      BY <2>1, <2>4, HolderReceives
    <3>2. assetValueFromAmount(n, c) \in Nat /\ Worth \in Nat
      BY ConversionTypes, HolderTypes DEF IInv
    <3>3. QED BY <2>3, <3>1, <3>2
  <2>5. CASE c \notin Counted
    <3>1. \A e \in Token \ {c} : balance[Holder][e] = balance'[Holder][e]
      BY <2>1, HolderTypes
    <3>2. Worth' = Worth
      BY <2>2, <2>5, <3>1, HolderTypes, WorthIsValueOf, ValueOfChange DEF Counted
    <3>3. QED BY <3>2, HolderTypes
  <2>6. QED BY <2>4, <2>5
<1>4. QED BY <1>2, <1>3

LEMMA DepositIsQuiet ==
  ASSUME IInv, NEW u \in User, NEW v \in Vault, NEW c \in Token, NEW n \in Nat,
         deposit(u, v, c, n)
  PROVE  Quiet
<1>1. /\ Pay(u, v, c, n) /\ Receive(v, c, n)
      /\ UNCHANGED <<price, supported, totalAllocated>>
  BY DEF deposit, Pay, amoVars
<1>2. Worth <= Worth'
  BY <1>1, ReceivingKeepsWorth
<1>3. circulatingDusd' = circulatingDusd
  BY <1>1, PaymentKeepsCirculating
<1>4. QED BY <1>2, <1>3, CirculatingIsInt DEF Quiet

LEMMA SendElsewhere ==
  ASSUME IInv, NEW v \in Vault, NEW c \in Token, NEW n \in Nat,
         v # Holder, Send(v, c, n)
  PROVE  balance'[Holder] = balance[Holder]
<1>1. balance \in [Vault -> [Token -> Uint]] /\ Holder \in Vault
  BY Addresses DEF IInv, BalancesOK
<1>2. balance' = [balance EXCEPT ![v][c] = @ - n]
  BY DEF Send
<1>3. QED BY <1>1, <1>2

(* Nothing an AMO vault does with its own tokens touches the holder vault. *)
LEMMA AmoVaultIsQuiet ==
  ASSUME IInv, NEW v \in AmoVault, NEW c \in Token, NEW n \in Nat,
         recoverERC20(v, c, n) \/ disallowCollateral(v, c)
  PROVE  Quiet
<1>1. v # Holder /\ v \in Vault /\ Holder \in Vault
  BY Addresses
<1>2. /\ price' = price /\ supported'[Holder] = supported[Holder]
      /\ balance'[Holder] = balance[Holder] /\ UNCHANGED <<tokenVars, amoVars>>
  <2>1. CASE recoverERC20(v, c, n)
    <3>1. /\ Send(v, c, n) /\ UNCHANGED <<price, supported, tokenVars, amoVars>>
      BY <2>1 DEF recoverERC20
    <3>2. balance'[Holder] = balance[Holder]
      BY <1>1, <3>1, SendElsewhere
    <3>3. QED BY <3>1, <3>2
  <2>2. CASE disallowCollateral(v, c)
    BY <1>1, <2>2 DEF disallowCollateral, IInv, SupportedOK
  <2>3. QED BY <2>1, <2>2
<1>3. Worth <= Worth'
  BY <1>2, SameWorth, HolderTypes
<1>4. circulatingDusd' = circulatingDusd
  BY <1>2, SameCirculating DEF tokenVars, amoVars
<1>5. QED BY <1>3, <1>4, CirculatingIsInt DEF Quiet

LEMMA PayoutIsQuiet ==
  ASSUME IInv, NEW v \in AmoVault, NEW u \in User, NEW t \in Token, NEW n \in Nat,
         withdrawTo(v, u, t, n) \/ withdrawProfits(v, u, t, n)
  PROVE  Quiet
<1>1. v # Holder /\ v \in Vault
  BY Addresses
<1>2. /\ PayOut(v, u, t, n) /\ Send(v, t, n)
      /\ UNCHANGED <<price, supported, totalAllocated>>
  BY DEF withdrawTo, withdrawProfits, PayOut, amoVars
<1>3. balance'[Holder] = balance[Holder]
  BY <1>1, <1>2, SendElsewhere
<1>4. Worth <= Worth'
  BY <1>2, <1>3, SameWorth, HolderTypes
<1>5. circulatingDusd' = circulatingDusd
  BY <1>1, <1>2, PaymentKeepsCirculating
<1>6. QED BY <1>4, <1>5, CirculatingIsInt DEF Quiet

(* Allocating moves dUSD from the manager's balance to its books and back,   *)
(* and the AMO supply is minted and burnt outside circulation.               *)
LEMMA AmoSupplyIsQuiet ==
  ASSUME IInv, NEW n \in Nat,
         \/ increaseAmoSupply(n)
         \/ decreaseAmoSupply(n)
         \/ \E v \in AmoVault : \/ enableAmoVault(v) \/ disableAmoVault(v)
                                \/ allocateAmo(v, n) \/ deallocateAmo(v, n)
  PROVE  Quiet
<1>1. Worth <= Worth'
  <2>1. UNCHANGED <<price, supported>> /\ balance'[Holder] = balance[Holder]
    <3>1. CASE UNCHANGED <<price, vaultVars>>
      BY <3>1 DEF vaultVars
    <3>2. CASE \E v \in AmoVault : allocateAmo(v, n) \/ deallocateAmo(v, n)
      <4>1. PICK v \in AmoVault : allocateAmo(v, n) \/ deallocateAmo(v, n)
        BY <3>2
      <4>2. v # Holder /\ v \in Vault /\ Holder \in Vault
        BY Addresses
      <4>3. /\ UNCHANGED <<price, supported>>
            /\ \/ balance' = [balance EXCEPT ![v][DUSD] = @ + n]
               \/ balance' = [balance EXCEPT ![v][DUSD] = @ - n]
        BY <4>1 DEF allocateAmo, deallocateAmo, Pay, PayOut, Receive, Send
      <4>4. QED BY <4>2, <4>3 DEF IInv, BalancesOK
    <3>3. QED BY <3>1, <3>2 DEF increaseAmoSupply, decreaseAmoSupply, enableAmoVault,
                                disableAmoVault
  <2>2. QED BY <2>1, SameWorth, HolderTypes
<1>2. circulatingDusd' <= circulatingDusd
  <2>1. CASE increaseAmoSupply(n)
    BY <2>1, CirculatingIsInt DEF increaseAmoSupply
  <2>2. CASE decreaseAmoSupply(n)
    BY <2>2, CirculatingTypes, ManagerDistinct
    DEF decreaseAmoSupply, Burn, amoVars, IInv, TokensOK, circulatingDusd, totalAmoSupply
  <2>3. CASE \E v \in AmoVault : enableAmoVault(v) \/ disableAmoVault(v)
    BY <2>3, SameCirculating, CirculatingIsInt DEF enableAmoVault, disableAmoVault, tokenVars
  <2>4. CASE \E v \in AmoVault : allocateAmo(v, n) \/ deallocateAmo(v, n)
    <3>1. totalSupply' = totalSupply /\ totalAmoSupply' = totalAmoSupply
      BY <2>4 DEF allocateAmo, deallocateAmo, Pay, PayOut
    <3>2. circulatingDusd' = circulatingDusd
      BY <3>1 DEF circulatingDusd
    <3>3. QED BY <3>2, CirculatingIsInt
  <2>5. QED BY <2>1, <2>2, <2>3, <2>4
<1>3. QED BY <1>1, <1>2 DEF Quiet

LEMMA TransferIsQuiet ==
  ASSUME IInv, NEW u \in User, NEW a \in Vault \cup {AmoManager}, NEW n \in Nat,
         transfer(u, a, n)
  PROVE  Quiet
<1>1. UNCHANGED <<price, supported, totalSupply, totalAllocated>>
  BY DEF transfer, Pay, amoVars
<1>2. CASE a \in Vault /\ Pay(u, a, DUSD, n)
  <2>1. Receive(a, DUSD, n) /\ DUSD \in Token
    BY <1>2, Addresses DEF Pay
  <2>2. Worth <= Worth'
    BY <1>1, <1>2, <2>1, ReceivingKeepsWorth
  <2>3. circulatingDusd' = circulatingDusd
    BY <1>1, <1>2, <2>1, PaymentKeepsCirculating
  <2>4. QED BY <2>2, <2>3, CirculatingIsInt DEF Quiet
<1>3. CASE ~(a \in Vault /\ Pay(u, a, DUSD, n))
  <2>1. balance' = balance /\ dusd' = [dusd EXCEPT ![u] = @ - n, ![AmoManager] = @ + n]
    BY <1>3 DEF transfer
  <2>2. Worth <= Worth'
    BY <1>1, <2>1, SameWorth, HolderTypes
  <2>3. dusd'[AmoManager] = dusd[AmoManager] + n
    BY <2>1, ManagerDistinct DEF IInv, TokensOK
  <2>4. circulatingDusd' <= circulatingDusd
    BY <1>1, <2>3, CirculatingTypes DEF circulatingDusd, totalAmoSupply
  <2>5. QED BY <2>2, <2>4 DEF Quiet
<1>4. QED BY <1>2, <1>3

LEMMA QuietKeepsBacking ==
  ASSUME IInv, IInv', Quiet
  PROVE  Backing' >= Backing
BY NoLessBacking DEF Quiet

LEMMA ExchangeKeepsBacking ==
  ASSUME IInv, IInv', NEW u \in User, NEW from \in Counted, NEW to \in Token,
         NEW n \in Nat, NEW m \in Nat,
         \/ exchangeCollateral(u, n, from, m, to)
         \/ exchangeMaxCollateral(u, n, from, to, m)
  PROVE  Backing' >= Backing
<1>1. from \in Token
  BY HolderTypes DEF Counted
<1>2. PICK k \in Nat : exchangeCollateral(u, n, from, k, to)
  BY <1>1, ExchangesSomeAmount DEF IInv
<1>3. Worth <= Worth'
  BY <1>2, HolderExchanges
<1>4. circulatingDusd' = circulatingDusd
  <2>1. /\ dusd'[AmoManager] = dusd[AmoManager]
        /\ UNCHANGED <<totalSupply, totalAllocated>>
    BY <1>2, ManagerDistinct DEF exchangeCollateral, amoVars, IInv, TokensOK
  <2>2. QED BY <2>1, SameCirculating
<1>5. QED BY <1>3, <1>4, CirculatingIsInt, NoLessBacking

\* The Issuer checks the backing after the mint.
LEMMA ExcessIsChecked ==
  ASSUME IInv, IInv', NEW u \in User, NEW n \in Nat, issueUsingExcessCollateral(u, n)
  PROVE  Backing' >= 0
<1>1. circulatingDusd' \in Int
  BY Parameters DEF circulatingDusd, totalAmoSupply, IInv, TokensOK, BooksOK, Uint,
                    Wallet
<1>2. collateralInDusd' \in Nat
  <2>1. price' \in [Token -> Nat] /\ balance'[Holder] \in [Token -> Nat]
        /\ supported'[Holder] \in SUBSET Token
    BY Parameters DEF IInv, PriceOK, BalancesOK, SupportedOK, Vault, Uint
  <2>2. Worth' \in Nat
    BY <2>1, WorthIsValueOf, ValueOfType
  <2>3. QED BY <2>2, DusdAmountType, BackingParts
<1>3. collateralInDusd' >= circulatingDusd'
  BY DEF issueUsingExcessCollateral
<1>4. Backing' = collateralInDusd' - circulatingDusd'
  BY DEF Backing
<1>5. \A x, y \in Int : x >= y => x - y >= 0
  OBVIOUS
<1>6. collateralInDusd' \in Int
  BY <1>2
<1>7. collateralInDusd' - circulatingDusd' >= 0
  BY <1>1, <1>3, <1>5, <1>6
<1>8. QED BY <1>4, <1>7

-----------------------------------------------------------------------------
(* Lending.  The value that leaves may round up and the booked value rounds  *)
(* down: one unit of value, and so at most one unit of dUSD, is lost.        *)

LEMMA ValueOfLend ==
  ASSUME NEW p \in [Token -> Nat], NEW S \in SUBSET Token,
         NEW b \in [Token -> Nat], NEW c \in Token,
         NEW n \in Nat, n <= b[c]
  PROVE  ValueOf(p, b, S)
           <= ValueOf(p, [b EXCEPT ![c] = @ - n], S) + (p[c] * n) \div Unit[c] + 1
<1> DEFINE d == [b EXCEPT ![c] = @ - n]
           v == (p[c] * n) \div Unit[c]
<1>1. /\ d \in [Token -> Nat] /\ d[c] = b[c] - n
      /\ \A e \in Token \ {c} : b[e] = d[e]
  OBVIOUS
<1> HIDE DEF d
<1>2. /\ p[c] \in Nat /\ b[c] \in Nat /\ d[c] \in Nat /\ Unit[c] \in Nat \ {0}
  BY <1>1, UnitsAssumption
<1>3. p[c] * n \in Nat /\ p[c] * d[c] \in Nat /\ p[c] * b[c] \in Nat
  BY <1>2
<1>4. /\ v \in Nat
      /\ (p[c] * b[c]) \div Unit[c] \in Nat /\ (p[c] * d[c]) \div Unit[c] \in Nat
  BY <1>2, <1>3, DivDef
<1>5. ValueOf(p, b, S) \in Nat /\ ValueOf(p, d, S) \in Nat
  BY <1>1, ValueOfType
<1>6. CASE c \notin S
  <2>1. ValueOf(p, d, S) = ValueOf(p, b, S)
    BY <1>1, <1>6, ValueOfChange
  <2> HIDE DEF v
  <2>2. ValueOf(p, b, S) <= ValueOf(p, d, S) + v + 1
    BY <1>4, <1>5, <2>1
  <2>3. QED BY <2>2 DEF d, v
<1>7. CASE c \in S
  <2>1. ValueOf(p, d, S) = ValueOf(p, b, S) - (p[c] * b[c]) \div Unit[c]
                                            + (p[c] * d[c]) \div Unit[c]
    BY <1>1, <1>7, ValueOfChange
  <2>2. p[c] * b[c] = p[c] * d[c] + p[c] * n
    BY <1>1, <1>2
  <2>3. (p[c] * b[c]) \div Unit[c] <= (p[c] * d[c]) \div Unit[c] + v + 1
    BY <1>2, <1>3, <2>2, DivOfSum
  <2> HIDE DEF v
  <2>4. ValueOf(p, b, S) <= ValueOf(p, d, S) + v + 1
    BY <1>4, <1>5, <2>1, <2>3
  <2>5. QED BY <2>4 DEF d, v
<1>8. QED BY <1>6, <1>7

\* One unit of dUSD is a whole number of units of value.
LEMMA WholeDollars == \E m \in Nat \ {0} : UsdUnit = DusdUnit * m
<1> DEFINE q == UsdUnit \div DusdUnit
<1>1. /\ q \in Nat /\ UsdUnit = DusdUnit * q
  BY UnitTypes, UnitsAssumption
<1> HIDE DEF q
<1>2. q # 0
  BY <1>1, UnitTypes
<1>3. QED BY <1>1, <1>2

LEMMA DusdOfLend ==
  ASSUME NEW x \in Nat, NEW y \in Nat, NEW v \in Nat, x <= y + v + 1
  PROVE  usdValueToDusdAmount(x)
           <= usdValueToDusdAmount(y) + usdValueToDusdAmount(v) + 1
<1>1. PICK m \in Nat \ {0} : UsdUnit = DusdUnit * m
  BY WholeDollars
<1>2. \A z \in Nat : usdValueToDusdAmount(z) = z \div m
  BY <1>1, UnitTypes, DivCancel DEF usdValueToDusdAmount
<1>3. y + v + 1 \in Nat
  OBVIOUS
<1>4. x \div m <= (y + v + 1) \div m
  BY <1>3, DivMonotone
<1>5. (y + v + 1) \div m <= y \div m + v \div m + 1
  BY DivOfSumAndOne
<1>6. /\ x \div m \in Nat /\ y \div m \in Nat /\ v \div m \in Nat
      /\ (y + v + 1) \div m \in Nat
  BY <1>3, DivDef
<1>7. QED BY <1>2, <1>4, <1>5, <1>6

LEMMA LendLosesAtMostOne ==
  ASSUME IInv, IInv', NEW v \in AmoVault, NEW c \in Token, NEW n \in Nat,
         transferFromHoldingVaultToAmoVault(v, c, n)
  PROVE  Backing' >= Backing - 1
<1> DEFINE value == assetValueFromAmount(n, c)
           moved == dusdForCollateral(n, c)
<1>1. c \in Token /\ v # Holder /\ v \in Vault /\ Holder \in Vault
  BY Addresses
<1>2. /\ balance'[Holder] = [balance[Holder] EXCEPT ![c] = @ - n]
      /\ n <= balance[Holder][c]
  BY <1>1, HolderTypes DEF transferFromHoldingVaultToAmoVault, Ship, IInv, BalancesOK
<1>3. value \in Nat /\ moved \in Nat /\ moved = usdValueToDusdAmount(value)
  BY <1>1, ConversionTypes DEF IInv, dusdForCollateral
<1>4. Worth <= Worth' + value + 1
  <2>1. UNCHANGED <<price, supported>>
    BY DEF transferFromHoldingVaultToAmoVault
  <2>2. QED BY <1>2, <2>1, HolderTypes, WorthIsValueOf, ValueOfLend
        DEF assetValueFromAmount
<1>5. Worth \in Nat
  BY HolderTypes
<1>6. Worth' \in Nat
  <2>1. price' \in [Token -> Nat] /\ balance'[Holder] \in [Token -> Nat]
        /\ supported'[Holder] \in SUBSET Token
    BY Parameters DEF IInv, PriceOK, BalancesOK, SupportedOK, Vault, Uint
  <2>2. QED BY <2>1, WorthIsValueOf, ValueOfType
<1>7. /\ totalSupply' = totalSupply /\ dusd' = dusd
      /\ totalAllocated' = totalAllocated + moved
  BY DEF transferFromHoldingVaultToAmoVault, tokenVars
<1> HIDE DEF value, moved
<1>8. circulatingDusd' = circulatingDusd - moved
  BY <1>3, <1>7, CirculatingTypes DEF circulatingDusd, totalAmoSupply
<1>9. usdValueToDusdAmount(Worth) <= usdValueToDusdAmount(Worth') + moved + 1
  BY <1>3, <1>4, <1>5, <1>6, DusdOfLend
<1>10. usdValueToDusdAmount(Worth') \in Nat
  BY <1>6, DusdAmountType
<1>11. QED BY <1>3, <1>8, <1>9, <1>10, BackingParts DEF Backing

-----------------------------------------------------------------------------
(* The theorems *)

LEMMA AnyoneKeepsBacking ==
  ASSUME IInv, IInv', AnyoneCalls
  PROVE  Backing' >= Backing
<1> USE InputTypes
<1>1. CASE \E u \in User, c \in Counted, n, m \in Amount : issue(u, n, c, m)
  BY <1>1, IssueKeepsBacking
<1>2. CASE \E u \in User, v \in Vault, c \in Token, n \in Amount : deposit(u, v, c, n)
  BY <1>2, DepositIsQuiet, QuietKeepsBacking
<1>3. CASE \E u \in User, a \in Vault \cup {AmoManager}, n \in Amount :
               transfer(u, a, n)
  BY <1>3, TransferIsQuiet, QuietKeepsBacking
<1>4. QED BY <1>1, <1>2, <1>3 DEF AnyoneCalls

LEMMA IssuanceKeepsBacking ==
  ASSUME IInv, IInv', IssuanceCalls
  PROVE  Backing' >= Backing \/ Backing' >= 0
<1> USE InputTypes
<1>1. CASE \E u \in User, n \in Amount : issueUsingExcessCollateral(u, n)
  BY <1>1, ExcessIsChecked
<1>2. CASE \E n \in Amount : increaseAmoSupply(n)
  BY <1>2, AmoSupplyIsQuiet, QuietKeepsBacking
<1>3. CASE \E u \in User, c \in Token, n, m \in Amount : redeem(u, n, c, m)
  BY <1>3, RedeemKeepsBacking
<1>4. QED BY <1>1, <1>2, <1>3 DEF IssuanceCalls

LEMMA VaultCallsKeepBacking ==
  ASSUME IInv, IInv', VaultCalls
  PROVE  Backing' >= Backing
<1> USE InputTypes
<1>1. CASE \E v \in Vault, c \in Token : allowCollateral(v, c)
  <2>1. PICK v \in Vault, c \in Token : allowCollateral(v, c)
    BY <1>1
  <2>2. Worth <= Worth'
    BY <2>1, AllowKeepsWorth
  <2>3. circulatingDusd' <= circulatingDusd
    BY <2>1, CirculatingTypes
    DEF allowCollateral, tokenVars, amoVars, circulatingDusd, totalAmoSupply
  <2>4. QED BY <2>2, <2>3, NoLessBacking
<1>2. CASE \E v \in AmoVault, c \in Token : disallowCollateral(v, c)
  <2>1. 0 \in Nat
    OBVIOUS
  <2>2. QED BY <1>2, <2>1, AmoVaultIsQuiet, QuietKeepsBacking
<1>3. CASE \E v \in AmoVault, t \in Token, n \in Amount : recoverERC20(v, t, n)
  BY <1>3, AmoVaultIsQuiet, QuietKeepsBacking
<1>4. CASE \E v \in AmoVault, u \in User, t \in Token, n \in Amount :
               withdrawTo(v, u, t, n) \/ withdrawProfits(v, u, t, n)
  BY <1>4, PayoutIsQuiet, QuietKeepsBacking
<1>5. QED BY <1>1, <1>2, <1>3, <1>4 DEF VaultCalls

LEMMA AllocatorKeepsBacking ==
  ASSUME IInv, IInv', AllocatorCalls
  PROVE  Backing' >= Backing
<1> USE InputTypes
<1>1. CASE \E v \in AmoVault : enableAmoVault(v) \/ disableAmoVault(v)
  <2>1. 0 \in Nat
    OBVIOUS
  <2>2. QED BY <1>1, <2>1, AmoSupplyIsQuiet, QuietKeepsBacking
<1>2. CASE \E v \in AmoVault, n \in Amount : allocateAmo(v, n) \/ deallocateAmo(v, n)
  BY <1>2, AmoSupplyIsQuiet, QuietKeepsBacking
<1>3. CASE \E n \in Amount : decreaseAmoSupply(n)
  BY <1>3, AmoSupplyIsQuiet, QuietKeepsBacking
<1>4. CASE \E v \in AmoVault, c \in Counted, n \in Amount :
               transferFromAmoVaultToHoldingVault(v, c, n)
  BY <1>4, RecallKeepsBacking
<1>5. QED BY <1>1, <1>2, <1>3, <1>4 DEF AllocatorCalls

LEMMA StrategistKeepsBacking ==
  ASSUME IInv, IInv', StrategistCalls
  PROVE  Backing' >= Backing
BY InputTypes, ExchangeKeepsBacking DEF StrategistCalls

LEMMA RoutineKeepsBacking ==
  ASSUME IInv, IInv', Routine
  PROVE  Backing' >= Backing \/ Backing' >= 0
<1>1. CASE AnyoneCalls
  BY <1>1, AnyoneKeepsBacking
<1>2. CASE IssuanceCalls
  BY <1>2, IssuanceKeepsBacking
<1>3. CASE StrategistCalls
  BY <1>3, StrategistKeepsBacking
<1>4. CASE VaultCalls
  BY <1>4, VaultCallsKeepBacking
<1>5. CASE AllocatorCalls
  BY <1>5, AllocatorKeepsBacking
<1>6. QED BY <1>1, <1>2, <1>3, <1>4, <1>5 DEF Routine

LEMMA BackingTypes ==
  /\ IInv => Backing \in Int
  /\ IInv' => Backing' \in Int
<1>1. ASSUME IInv PROVE Backing \in Int
  BY <1>1, BackingParts DEF Backing
<1>2. ASSUME IInv' PROVE Backing' \in Int
  <2>1. price' \in [Token -> Nat] /\ balance'[Holder] \in [Token -> Nat]
        /\ supported'[Holder] \in SUBSET Token
    BY <1>2, Parameters DEF IInv, PriceOK, BalancesOK, SupportedOK, Vault, Uint
  <2>2. Worth' \in Nat
    BY <2>1, WorthIsValueOf, ValueOfType
  <2>3. collateralInDusd' \in Nat
    BY <2>2, DusdAmountType DEF collateralInDusd, Worth, usdValueToDusdAmount
  <2>4. circulatingDusd' \in Int
    BY <1>2, Parameters DEF circulatingDusd, totalAmoSupply, IInv, TokensOK, BooksOK,
                            Uint, Wallet
  <2>5. QED BY <2>3, <2>4 DEF Backing
<1>3. QED BY <1>1, <1>2

(* Whatever prices, decimals, collateral lists and books the calls before it *)
(* left behind, a routine call leaves the circulating dUSD backed or no      *)
(* worse backed than it found it: all of the rounding in issue, redeem,      *)
(* exchangeCollateral and the recall of collateral favours the vault.        *)
THEOREM ShortfallNeverDeepens == Spec => RoutineNeverDeepensShortfall
<1>1. IInv /\ [Next]_vars => IInv'
  BY NextKeeps, StutterKeeps
<1>2. IInv /\ IInv' /\ [Next]_vars
        => [Backing' < Backing /\ Backing' < 0 => ~Routine]_vars
  BY RoutineKeepsBacking, BackingTypes
<1>3. QED BY InitHolds, <1>1, <1>2, PTL DEF Spec, RoutineNeverDeepensShortfall

(* Lending collateral costs the backing one unit of dUSD a call at the most. *)
THEOREM LendingLosesLittle == Spec => LendingLosesAtMostOne
<1>1. IInv /\ [Next]_vars => IInv'
  BY NextKeeps, StutterKeeps
<1>2. IInv /\ IInv' /\ Lending => Backing' >= Backing - 1
  BY LendLosesAtMostOne, InputTypes DEF Lending
<1>3. IInv /\ IInv' /\ [Next]_vars => [Backing' < Backing - 1 => ~Lending]_vars
  BY <1>2, BackingTypes
<1>4. QED BY InitHolds, <1>1, <1>3, PTL DEF Spec, LendingLosesAtMostOne

LEMMA BackedMeansNoShortfall ==
  ASSUME IInv
  PROVE  CirculatingBacked <=> Backing >= 0
BY BackingParts DEF CirculatingBacked, Backing

(* From deployment on, at unchanged prices and with no collateral lent, every *)
(* circulating dUSD is backed by a dollar of collateral in the holder vault.  *)
THEOREM RoutineStaysBacked == RoutineSpec => []CirculatingBacked
<1>1. Init => IInv /\ Backing >= 0
  <2> SUFFICES ASSUME Init PROVE IInv /\ Backing >= 0
    OBVIOUS
  <2>1. IInv
    BY InitHolds
  <2>2. circulatingDusd = 0
    BY ManagerDistinct DEF Init, circulatingDusd, totalAmoSupply
  <2>3. QED BY <2>1, <2>2, BackingParts DEF Backing
<1>2. IInv /\ Backing >= 0 /\ [Routine]_vars => (IInv /\ Backing >= 0)'
  <2> SUFFICES ASSUME IInv, Backing >= 0, [Routine]_vars
               PROVE  IInv' /\ Backing' >= 0
    OBVIOUS
  <2>1. CASE Routine
    <3>1. IInv'
      BY <2>1, NextKeeps DEF Next
    <3>2. QED BY <2>1, <3>1, RoutineKeepsBacking, BackingTypes
  <2>2. CASE UNCHANGED vars
    <3>1. IInv'
      BY <2>2, StutterKeeps
    <3>2. Backing' = Backing
      BY <2>2, SameWorth, BackingParts
      DEF vars, tokenVars, vaultVars, amoVars, Backing, circulatingDusd, totalAmoSupply
    <3>3. QED BY <3>1, <3>2
  <2>3. QED BY <2>1, <2>2
<1>3. IInv /\ Backing >= 0 => CirculatingBacked
  BY BackedMeansNoShortfall
<1>4. QED BY <1>1, <1>2, <1>3, PTL DEF RoutineSpec

-----------------------------------------------------------------------------
(* Profits.  What leaves is valued apart from what stays, so the vault may   *)
(* lose one unit of value more than the profit it was allowed to pay.        *)

LEMMA VaultValueParts ==
  ASSUME IInv, IInv', UNCHANGED <<price, supported>>, NEW v \in AmoVault
  PROVE  /\ amoVaultTotalValue(v) = ValueOf(price, balance[v], supported[v])
                                      + (price[DUSD] * balance[v][DUSD]) \div Unit[DUSD]
         /\ amoVaultTotalValue(v)' = ValueOf(price, balance'[v], supported[v])
                                      + (price[DUSD] * balance'[v][DUSD]) \div Unit[DUSD]
BY DEF amoVaultTotalValue, totalValueOfSupportedCollaterals, assetValueFromAmount,
       ValueOf, Values

LEMMA VaultTypes ==
  ASSUME IInv, NEW v \in AmoVault
  PROVE  /\ price \in [Token -> Nat] /\ price[DUSD] \in Nat /\ v \in Vault
         /\ balance[v] \in [Token -> Nat] /\ supported[v] \in SUBSET Token
         /\ balance[v][DUSD] \in Nat
         /\ dusdAmountToUsdValue(allocation[v]) \in Nat
         /\ ValueOf(price, balance[v], supported[v]) \in Nat
         /\ (price[DUSD] * balance[v][DUSD]) \div Unit[DUSD] \in Nat
<1>1. /\ price \in [Token -> Nat] /\ price[DUSD] \in Nat /\ v \in Vault
      /\ balance[v] \in [Token -> Nat] /\ supported[v] \in SUBSET Token
      /\ balance[v][DUSD] \in Nat /\ allocation[v] \in Nat
  BY Parameters, Addresses DEF IInv, PriceOK, SupportedOK, BalancesOK, BooksOK, Uint
<1>2. /\ allocation[v] * price[DUSD] \in Nat /\ price[DUSD] * balance[v][DUSD] \in Nat
      /\ DusdUnit \in Nat \ {0} /\ Unit[DUSD] = DusdUnit
  BY <1>1, UnitTypes DEF DusdUnit
<1>3. dusdAmountToUsdValue(allocation[v]) \in Nat
  BY <1>2, DivDef DEF dusdAmountToUsdValue
<1>4. (price[DUSD] * balance[v][DUSD]) \div Unit[DUSD] \in Nat
  BY <1>2, DivDef
<1>5. ValueOf(price, balance[v], supported[v]) \in Nat
  BY <1>1, ValueOfType
<1>6. QED BY <1>1, <1>3, <1>4, <1>5

LEMMA VaultTypesAfter ==
  ASSUME IInv, IInv', NEW v \in AmoVault
  PROVE  /\ balance'[v] \in [Token -> Nat] /\ balance'[v][DUSD] \in Nat
         /\ ValueOf(price, balance'[v], supported[v]) \in Nat
         /\ (price[DUSD] * balance'[v][DUSD]) \div Unit[DUSD] \in Nat
<1>1. balance'[v] \in [Token -> Nat] /\ balance'[v][DUSD] \in Nat
  BY Parameters, Addresses DEF IInv, BalancesOK, Uint
<1>2. price[DUSD] * balance'[v][DUSD] \in Nat /\ Unit[DUSD] \in Nat \ {0}
  BY <1>1, VaultTypes, UnitTypes DEF DusdUnit
<1>3. QED BY <1>1, <1>2, VaultTypes, ValueOfType, DivDef

(* What leaves is no collateral of the vault when it is dUSD. *)
LEMMA ProfitsLoseAtMostOne ==
  ASSUME IInv, IInv', NEW v \in AmoVault, NEW u \in User, NEW t \in Token,
         NEW n \in Nat, withdrawProfits(v, u, t, n), DUSD \notin supported[v]
  PROVE  amoVaultTotalValue(v) <= amoVaultTotalValue(v)' + assetValueFromAmount(n, t) + 1
<1> DEFINE worth  == ValueOf(price, balance[v], supported[v])
           worth1 == ValueOf(price, balance'[v], supported[v])
           own    == (price[DUSD] * balance[v][DUSD]) \div Unit[DUSD]
           own1   == (price[DUSD] * balance'[v][DUSD]) \div Unit[DUSD]
           value  == assetValueFromAmount(n, t)
<1>1. UNCHANGED <<price, supported>>
  BY DEF withdrawProfits
<1>2. /\ amoVaultTotalValue(v) = worth + own
      /\ amoVaultTotalValue(v)' = worth1 + own1
  BY <1>1, VaultValueParts
<1>3. /\ worth \in Nat /\ worth1 \in Nat /\ own \in Nat /\ own1 \in Nat /\ value \in Nat
  BY VaultTypes, VaultTypesAfter, ConversionTypes DEF IInv
<1>4. balance'[v] = [balance[v] EXCEPT ![t] = @ - n] /\ n <= balance[v][t]
  BY VaultTypes DEF withdrawProfits, PayOut, Send, IInv, BalancesOK
<1>5. CASE t = DUSD
  <2>1. worth1 = worth
    <3>1. \A e \in Token \ {DUSD} : balance[v][e] = balance'[v][e]
      BY <1>4, <1>5, VaultTypes
    <3>2. QED BY <3>1, VaultTypes, VaultTypesAfter, Addresses, ValueOfChange
  <2>2. balance'[v][DUSD] = balance[v][DUSD] - n
    BY <1>4, <1>5, VaultTypes
  <2>3. /\ price[DUSD] * balance[v][DUSD]
             = price[DUSD] * balance'[v][DUSD] + price[DUSD] * n
        /\ price[DUSD] * balance'[v][DUSD] \in Nat /\ price[DUSD] * n \in Nat
        /\ Unit[DUSD] \in Nat \ {0}
    BY <2>2, VaultTypes, VaultTypesAfter, UnitTypes DEF DusdUnit
  <2>4. own <= own1 + (price[DUSD] * n) \div Unit[DUSD] + 1
    BY <2>3, DivOfSum
  <2>5. value = (price[DUSD] * n) \div Unit[DUSD]
    BY <1>5 DEF assetValueFromAmount
  <2> HIDE DEF worth, worth1, own, own1, value
  <2>6. worth + own <= worth1 + own1 + value + 1
    BY <1>3, <2>1, <2>4, <2>5
  <2>7. QED BY <1>2, <2>6 DEF value
<1>6. CASE t # DUSD
  <2>1. own1 = own
    BY <1>4, <1>6, VaultTypes, Addresses
  <2>2. worth <= ValueOf(price, [balance[v] EXCEPT ![t] = @ - n], supported[v])
                   + (price[t] * n) \div Unit[t] + 1
    BY <1>4, VaultTypes, ValueOfLend
  <2>3. worth <= worth1 + value + 1
    BY <1>4, <2>2 DEF assetValueFromAmount
  <2> HIDE DEF worth, worth1, own, own1, value
  <2>4. worth + own <= worth1 + own1 + value + 1
    BY <1>3, <2>1, <2>3
  <2>5. QED BY <1>2, <2>4 DEF value
<1>7. QED BY <1>5, <1>6

LEMMA ProfitsKeepCover ==
  ASSUME IInv, IInv', NEW v \in AmoVault, NEW u \in User, NEW t \in Token,
         NEW n \in Nat, withdrawProfits(v, u, t, n), DUSD \notin supported[v]
  PROVE  ~(amoVaultTotalValue(v)' < dusdAmountToUsdValue(allocation[v]) - 1)
<1> DEFINE before == amoVaultTotalValue(v)
           after  == amoVaultTotalValue(v)'
           value  == assetValueFromAmount(n, t)
           booked == dusdAmountToUsdValue(allocation[v])
<1>1. before <= after + value + 1
  BY ProfitsLoseAtMostOne
<1>2. value <= before - booked
  BY DEF withdrawProfits, availableVaultProfitsInUsd
<1>3. before \in Int /\ after \in Int /\ value \in Int /\ booked \in Int
  <2>1. UNCHANGED <<price, supported>>
    BY DEF withdrawProfits
  <2>2. before \in Int
    BY <2>1, VaultValueParts, VaultTypes
  <2>3. after \in Int
    BY <2>1, VaultValueParts, VaultTypesAfter
  <2>4. value \in Int
    BY ConversionTypes DEF IInv
  <2>5. booked \in Int
    BY VaultTypes
  <2>6. QED BY <2>2, <2>3, <2>4, <2>5
<1> HIDE DEF before, after, value, booked
<1>4. ~(after < booked - 1)
  BY <1>1, <1>2, <1>3
<1>5. QED BY <1>4 DEF after, booked

\* What ProfitsLeaveAllocationCovered says of a step.
ProfitsStep ==
    \A v \in active :
        /\ DUSD \notin supported[v]
        /\ amoVaultTotalValue(v)' < dusdAmountToUsdValue(allocation[v]) - 1
        => ~ \E u \in User, t \in Token, n \in Amount : withdrawProfits(v, u, t, n)

(* For any vaults, collateral, prices and decimals, a vault whose profits are *)
(* taken stays worth its allocation but for one unit of value, unless it also *)
(* supports dUSD as collateral and so counts its dUSD twice.                  *)
THEOREM ProfitsLeaveCover == Spec => ProfitsLeaveAllocationCovered
<1>1. IInv /\ [Next]_vars => IInv'
  BY NextKeeps, StutterKeeps
<1>2. IInv /\ IInv' => ProfitsStep
  <2>1. IInv => active \subseteq AmoVault
    BY DEF IInv, BooksOK
  <2>2. QED BY <2>1, ProfitsKeepCover, InputTypes DEF ProfitsStep
<1>3. Spec => [][ProfitsStep]_vars
  BY InitHolds, <1>1, <1>2, PTL DEF Spec
<1>4. QED BY <1>3 DEF ProfitsStep, ProfitsLeaveAllocationCovered

-----------------------------------------------------------------------------
(* BackedSupply.  Total supply is circulating supply plus AMO supply, so a   *)
(* call that keeps the AMO supply issues or redeems, and one that keeps the  *)
(* total supply lends or recalls; the lemmas above say on what terms.        *)

LEMMA SupplyTypes ==
  ASSUME IInv, IInv'
  PROVE  /\ collateralInDusd \in Int /\ collateralInDusd' \in Int
         /\ circulatingDusd \in Int /\ circulatingDusd' \in Int
         /\ totalAmoSupply \in Int /\ totalAmoSupply' \in Int
         /\ totalSupply = circulatingDusd + totalAmoSupply
         /\ totalSupply' = circulatingDusd' + totalAmoSupply'
<1>1. /\ totalSupply \in Int /\ dusd[AmoManager] \in Int /\ totalAllocated \in Int
      /\ totalSupply' \in Int /\ dusd'[AmoManager] \in Int /\ totalAllocated' \in Int
  BY Parameters DEF IInv, TokensOK, BooksOK, Uint, Wallet
<1>2. /\ totalAmoSupply \in Int /\ totalAmoSupply' \in Int
      /\ circulatingDusd = totalSupply - totalAmoSupply
      /\ circulatingDusd' = totalSupply' - totalAmoSupply'
  BY <1>1 DEF totalAmoSupply, circulatingDusd
<1>3. circulatingDusd \in Int /\ circulatingDusd' \in Int
  BY <1>1, <1>2
<1>4. collateralInDusd \in Int
  BY BackingParts
<1>5. collateralInDusd' \in Int
  <2>1. Backing' \in Int /\ Backing' = collateralInDusd' - circulatingDusd'
    BY BackingTypes DEF Backing
  <2>2. price' \in [Token -> Nat] /\ balance'[Holder] \in [Token -> Nat]
        /\ supported'[Holder] \in SUBSET Token
    BY Parameters DEF IInv, PriceOK, BalancesOK, SupportedOK, Vault, Uint
  <2>3. Worth' \in Nat
    BY <2>2, WorthIsValueOf, ValueOfType
  <2>4. \A x \in Nat : usdValueToDusdAmount(x) \in Int
    BY DusdAmountType
  <2>5. collateralInDusd' = usdValueToDusdAmount(Worth')
    BY BackingParts
  <2>6. usdValueToDusdAmount(Worth') \in Int
    BY <2>3, <2>4
  <2>7. QED BY <2>5, <2>6, Zenon
<1>6. \A x, y \in Int : x = (x - y) + y
  OBVIOUS
<1>7. totalSupply = circulatingDusd + totalAmoSupply
  BY <1>1, <1>2, <1>6
<1>8. totalSupply' = circulatingDusd' + totalAmoSupply'
  BY <1>1, <1>2, <1>6
<1>9. QED BY <1>2, <1>3, <1>4, <1>5, <1>7, <1>8

(* The same AMO supply and no less backing: an issue or a redemption. *)
LEMMA IssuesOrRedeems ==
  ASSUME IInv, IInv', Backing' >= Backing, UNCHANGED totalAmoSupply
  PROVE  Supply!Issue \/ Supply!Redeem
<1>1. collateralInDusd' - collateralInDusd >= circulatingDusd' - circulatingDusd
  BY SupplyTypes DEF Backing
<1>2. \/ circulatingDusd' - circulatingDusd >= 0
      \/ circulatingDusd' - circulatingDusd <= 0
  BY SupplyTypes
<1>3. QED BY <1>1, <1>2
      DEF Supply!Issue, Supply!Redeem, Supply!Issued, Supply!Paid

(* The same total supply and, but for one unit of a lent amount, no less     *)
(* backing: dUSD changes hands between the AMO and circulation.              *)
LEMMA LendsOrRecalls ==
  ASSUME IInv, IInv', UNCHANGED totalSupply,
         \/ Backing' >= Backing
         \/ Backing' >= Backing - 1 /\ circulatingDusd' <= circulatingDusd
  PROVE  Supply!Lend \/ Supply!Recall
<1>1. totalAmoSupply - totalAmoSupply' = circulatingDusd' - circulatingDusd
  BY SupplyTypes
<1>2. \/ /\ circulatingDusd' - circulatingDusd >= 0
         /\ collateralInDusd' - collateralInDusd >= circulatingDusd' - circulatingDusd
      \/ /\ circulatingDusd' - circulatingDusd <= 0
         /\ collateralInDusd' - collateralInDusd
              >= circulatingDusd' - circulatingDusd - 1
  BY SupplyTypes DEF Backing
<1>3. QED BY <1>1, <1>2
      DEF Supply!Lend, Supply!Recall, Supply!Reclassified, Supply!Issued, Supply!Paid

-----------------------------------------------------------------------------
(* Which calls keep which supply. *)

LEMMA AnyoneKeepsASupply ==
  ASSUME IInv, AnyoneCalls
  PROVE  UNCHANGED totalAmoSupply \/ UNCHANGED totalSupply
<1>1. CASE \E u \in User, c \in Counted, n, m \in Amount : issue(u, n, c, m)
  BY <1>1, ManagerDistinct DEF issue, amoVars, totalAmoSupply, IInv, TokensOK
<1>2. CASE \E u \in User, v \in Vault, c \in Token, n \in Amount : deposit(u, v, c, n)
  BY <1>2 DEF deposit, Pay
<1>3. CASE \E u \in User, a \in Vault \cup {AmoManager}, n \in Amount :
               transfer(u, a, n)
  BY <1>3 DEF transfer, Pay
<1>4. QED BY <1>1, <1>2, <1>3 DEF AnyoneCalls

LEMMA StrategistKeepsSupply ==
  ASSUME StrategistCalls
  PROVE  UNCHANGED totalSupply
BY DEF StrategistCalls, exchangeCollateral, exchangeMaxCollateral

LEMMA VaultCallsKeepSupply ==
  ASSUME VaultCalls
  PROVE  UNCHANGED totalSupply
BY DEF VaultCalls, allowCollateral, disallowCollateral, withdrawTo, recoverERC20,
       withdrawProfits, PayOut, tokenVars

LEMMA RedeemKeepsAmoSupply ==
  ASSUME IInv, NEW u \in User, NEW c \in Token, NEW n \in Nat, NEW m \in Nat,
         redeem(u, n, c, m)
  PROVE  UNCHANGED totalAmoSupply
BY ManagerDistinct DEF redeem, amoVars, totalAmoSupply, IInv, TokensOK

LEMMA ExcessIsIssued ==
  ASSUME IInv, IInv', NEW u \in User, NEW n \in Nat, issueUsingExcessCollateral(u, n)
  PROVE  Supply!IssueExcess
<1>1. UNCHANGED totalAmoSupply
  BY ManagerDistinct DEF issueUsingExcessCollateral, Mint, amoVars, totalAmoSupply,
                         IInv, TokensOK
<1>2. collateralInDusd' = collateralInDusd
  BY SameWorth, BackingParts DEF issueUsingExcessCollateral, vaultVars
<1>3. totalSupply' >= totalSupply
  BY CirculatingTypes DEF issueUsingExcessCollateral, Mint
<1>4. circulatingDusd' - circulatingDusd >= 0
  BY <1>1, <1>3, SupplyTypes
<1>5. circulatingDusd' <= collateralInDusd'
  <2>1. collateralInDusd' >= circulatingDusd'
    BY DEF issueUsingExcessCollateral
  <2>2. QED BY <2>1, SupplyTypes
<1>6. QED BY <1>1, <1>2, <1>4, <1>5 DEF Supply!IssueExcess, Supply!Issued

(* The AMO's own supply changes and nothing else. *)
LEMMA AmoSupplyChanges ==
  ASSUME IInv, NEW n \in Nat, increaseAmoSupply(n) \/ decreaseAmoSupply(n)
  PROVE  Supply!ChangeAmoSupply
<1>1. collateralInDusd' = collateralInDusd
  BY SameWorth, BackingParts DEF increaseAmoSupply, decreaseAmoSupply, vaultVars
<1>2. circulatingDusd' = circulatingDusd
  <2>1. CASE increaseAmoSupply(n)
    BY <2>1 DEF increaseAmoSupply
  <2>2. CASE decreaseAmoSupply(n)
    BY <2>2, CirculatingTypes, ManagerDistinct
    DEF decreaseAmoSupply, Burn, amoVars, IInv, TokensOK, circulatingDusd, totalAmoSupply
  <2>3. QED BY <2>1, <2>2
<1>3. QED BY <1>1, <1>2 DEF Supply!ChangeAmoSupply

-----------------------------------------------------------------------------
(* The refinement *)

LEMMA RoutineOnTerms ==
  ASSUME IInv, IInv', Routine
  PROVE  Supply!Next
<1> USE InputTypes
<1>1. CASE AnyoneCalls
  BY <1>1, AnyoneKeepsASupply, AnyoneKeepsBacking, IssuesOrRedeems, LendsOrRecalls
  DEF Supply!Next
<1>2. CASE StrategistCalls
  BY <1>2, StrategistKeepsSupply, StrategistKeepsBacking, LendsOrRecalls DEF Supply!Next
<1>3. CASE VaultCalls
  BY <1>3, VaultCallsKeepSupply, VaultCallsKeepBacking, LendsOrRecalls DEF Supply!Next
<1>4. CASE IssuanceCalls
  <2>1. CASE \E u \in User, n \in Amount : issueUsingExcessCollateral(u, n)
    BY <2>1, ExcessIsIssued DEF Supply!Next
  <2>2. CASE \E n \in Amount : increaseAmoSupply(n)
    BY <2>2, AmoSupplyChanges DEF Supply!Next
  <2>3. CASE \E u \in User, c \in Token, n, m \in Amount : redeem(u, n, c, m)
    BY <2>3, RedeemKeepsAmoSupply, RedeemKeepsBacking, IssuesOrRedeems DEF Supply!Next
  <2>4. QED BY <1>4, <2>1, <2>2, <2>3 DEF IssuanceCalls
<1>5. CASE AllocatorCalls
  <2>1. CASE \E n \in Amount : decreaseAmoSupply(n)
    BY <2>1, AmoSupplyChanges DEF Supply!Next
  <2>2. CASE UNCHANGED totalSupply
    BY <1>5, <2>2, AllocatorKeepsBacking, LendsOrRecalls DEF Supply!Next
  <2>3. QED BY <1>5, <2>1, <2>2
        DEF AllocatorCalls, enableAmoVault, disableAmoVault, allocateAmo, deallocateAmo,
            transferFromAmoVaultToHoldingVault, Pay, PayOut, tokenVars
<1>6. QED BY <1>1, <1>2, <1>3, <1>4, <1>5 DEF Routine

LEMMA LendingOnTerms ==
  ASSUME IInv, IInv', Lending
  PROVE  Supply!Next
<1>1. PICK v \in AmoVault, c \in Token, n \in Amount :
               transferFromHoldingVaultToAmoVault(v, c, n)
  BY DEF Lending
<1>2. n \in Nat /\ c \in Token
  BY InputTypes
<1>3. Backing' >= Backing - 1
  BY <1>1, <1>2, LendLosesAtMostOne
<1>4. UNCHANGED <<totalSupply, dusd>>
  BY <1>1 DEF transferFromHoldingVaultToAmoVault, tokenVars
<1>5. totalAllocated' >= totalAllocated
  <2>1. dusdForCollateral(n, c) \in Nat
    BY <1>2, ConversionTypes DEF IInv
  <2>2. QED BY <1>1, <2>1, CirculatingTypes DEF transferFromHoldingVaultToAmoVault
<1>6. circulatingDusd' <= circulatingDusd
  <2>1. totalAllocated' \in Nat
    BY Parameters DEF IInv, BooksOK, Uint
  <2>2. QED BY <1>4, <1>5, <2>1, CirculatingTypes DEF circulatingDusd, totalAmoSupply
<1>7. QED BY <1>3, <1>4, <1>6, LendsOrRecalls DEF Supply!Next

(* At unchanged prices the Issuer, the Redeemer, the vaults and the          *)
(* AmoManager together keep BackedSupply's promise, whatever the decimals,   *)
(* the prices, the amounts and the order of the calls.                       *)
THEOREM SupplyPromiseKept == SteadySpec => SupplyPromise
<1>1. Init => IInv /\ Supply!Init
  <2> SUFFICES ASSUME Init PROVE IInv /\ Supply!Init
    OBVIOUS
  <2>1. IInv
    BY InitHolds
  <2>2. totalAmoSupply = 0 /\ circulatingDusd = 0
    BY ManagerDistinct DEF Init, circulatingDusd, totalAmoSupply
  <2>3. collateralInDusd = 0
    <3>1. supported[Holder] = {}
      BY DEF Init, Vault
    <3>2. Worth = 0
      BY <3>1, TotalOfNothing DEF Worth, totalValueOfSupportedCollaterals
    <3>3. collateralInDusd = usdValueToDusdAmount(0)
      BY <2>1, <3>2, BackingParts
    <3>4. QED BY <3>3, NothingIsWorthNothing
  <2>4. QED BY <2>1, <2>2, <2>3 DEF Supply!Init
<1>2. IInv /\ [Routine \/ Lending]_vars => IInv'
  BY NextKeeps, StutterKeeps DEF Next
<1>3. IInv /\ IInv' /\ [Routine \/ Lending]_vars => [Supply!Next]_(Supply!supplyVars)
  <2> SUFFICES ASSUME IInv, IInv', [Routine \/ Lending]_vars
               PROVE  Supply!Next \/ UNCHANGED Supply!supplyVars
    OBVIOUS
  <2>1. CASE Routine
    BY <2>1, RoutineOnTerms
  <2>2. CASE Lending
    BY <2>2, LendingOnTerms
  <2>3. CASE UNCHANGED vars
    <3>1. totalAmoSupply' = totalAmoSupply /\ circulatingDusd' = circulatingDusd
      BY <2>3 DEF vars, tokenVars, amoVars, circulatingDusd, totalAmoSupply
    <3>2. collateralInDusd' = collateralInDusd
      BY <2>3, SameWorth, BackingParts DEF vars, vaultVars
    <3>3. QED BY <3>1, <3>2 DEF Supply!supplyVars
  <2>4. QED BY <2>1, <2>2, <2>3
<1>4. QED BY <1>1, <1>2, <1>3, PTL DEF SteadySpec, SupplyPromise, Supply!Spec
=============================================================================
