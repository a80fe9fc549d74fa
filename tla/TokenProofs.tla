----------------------------- MODULE TokenProofs -----------------------------
(***************************************************************************)
(* Theorems about the tokens and their TokenSupplyManager, for all holders *)
(* and amounts and for every two decimals.                                 *)
(***************************************************************************)
EXTENDS TokenSupplyManager, ArithmeticTheorems

LEMMA Accounts ==
  /\ MaxUint \in Nat /\ Amount \subseteq Nat
  /\ IsFiniteSet(Account)
  /\ Manager \in Account /\ Manager \notin User
  /\ User \subseteq Account
  /\ Token = {Collateral, Receipt} /\ Collateral # Receipt
<1>1. IsFiniteSet(User \cup Contract)
  BY StablecoinAssumption, FS_Union
<1>2. QED BY <1>1, StablecoinAssumption, ManagerAssumption DEF Account

-----------------------------------------------------------------------------
(* One token's books *)

Sound(held, supply) ==
    /\ held \in [Account -> Uint]
    /\ supply \in Uint
    /\ supply = Total(held, Account)

LEMMA AccountChange ==
  ASSUME NEW f \in [Account -> Nat], NEW g \in [Account -> Nat],
         NEW x \in Account, \A a \in Account \ {x} : f[a] = g[a]
  PROVE  Total(g, Account) = Total(f, Account) - f[x] + g[x]
<1>1. \A a \in Account : f[a] \in Nat
  OBVIOUS
<1>2. \A a \in Account : g[a] \in Nat
  OBVIOUS
<1>3. IsFiniteSet(Account)
  BY Accounts
<1>4. QED BY <1>1, <1>2, <1>3, TotalChange, SMTT(60)

(* Minting adds to one balance what it adds to the supply. *)
LEMMA MintSound ==
  ASSUME NEW f, NEW s, Sound(f, s), NEW to \in Account, NEW n \in Nat, s + n \in Uint
  PROVE  Sound([f EXCEPT ![to] = @ + n], s + n)
<1> DEFINE g == [f EXCEPT ![to] = @ + n]
<1>1. f \in [Account -> Nat] /\ s \in Nat /\ s = Total(f, Account)
  BY Accounts DEF Sound, Uint
<1>2. /\ g \in [Account -> Nat] /\ g[to] = f[to] + n
      /\ \A a \in Account \ {to} : f[a] = g[a]
  BY <1>1
<1> HIDE DEF g
<1>3. Total(g, Account) = Total(f, Account) - f[to] + g[to]
  BY <1>1, <1>2, AccountChange
<1>4. Total(g, Account) = s + n
  BY <1>1, <1>2, <1>3
<1>5. \A a \in Account : g[a] <= Total(g, Account)
  BY <1>2, TotalBounds, Accounts
<1>6. g \in [Account -> Uint]
  BY <1>2, <1>4, <1>5, Accounts DEF Uint
<1>7. QED BY <1>4, <1>6 DEF Sound, g

(* Burning takes from one balance what it takes from the supply. *)
LEMMA BurnSound ==
  ASSUME NEW f, NEW s, Sound(f, s), NEW from \in Account, NEW n \in Nat, f[from] >= n
  PROVE  Sound([f EXCEPT ![from] = @ - n], s - n)
<1> DEFINE g == [f EXCEPT ![from] = @ - n]
<1>1. f \in [Account -> Nat] /\ s \in Nat /\ s = Total(f, Account) /\ s <= MaxUint
  BY Accounts DEF Sound, Uint
<1>2. /\ g \in [Account -> Nat] /\ g[from] = f[from] - n
      /\ \A a \in Account \ {from} : f[a] = g[a]
  BY <1>1
<1> HIDE DEF g
<1>3. Total(g, Account) = Total(f, Account) - f[from] + g[from]
  BY <1>1, <1>2, AccountChange
<1>4. Total(g, Account) = s - n
  BY <1>1, <1>2, <1>3
<1>5. \A a \in Account : g[a] <= Total(g, Account)
  BY <1>2, TotalBounds, Accounts
<1>6. Total(g, Account) \in Nat
  BY <1>2, TotalNat, Accounts
<1>7. g \in [Account -> Uint] /\ s - n \in Uint
  BY <1>1, <1>2, <1>4, <1>5, <1>6, Accounts DEF Uint
<1>8. QED BY <1>4, <1>7 DEF Sound, g

(* A transfer is a burn and a mint: the receiver's balance fits because the *)
(* supply does.                                                             *)
LEMMA MoveSound ==
  ASSUME NEW f, NEW s, Sound(f, s), NEW from \in Account, NEW to \in Account,
         NEW n \in Nat, f[from] >= n
  PROVE  Sound([[f EXCEPT ![from] = @ - n] EXCEPT ![to] = @ + n], s)
<1> DEFINE less == [f EXCEPT ![from] = @ - n]
<1>1. s \in Uint /\ s \in Int /\ s - n + n = s
  BY Accounts DEF Sound, Uint
<1>2. Sound(less, s - n)
  BY BurnSound
<1> HIDE DEF less
<1>3. Sound([less EXCEPT ![to] = @ + n], s - n + n)
  BY <1>1, <1>2, MintSound
<1>4. QED BY <1>1, <1>3 DEF less

-----------------------------------------------------------------------------
(* Conversions and values *)

LEMMA Exact ==
  ASSUME NEW a \in Nat, NEW k \in Nat \ {0}, a % k = 0
  PROVE  a = k * (a \div k)
OBVIOUS

UnitsOK == unit \in [Token -> Units]

LEMMA UnitTypes ==
  ASSUME UnitsOK
  PROVE  /\ unit[Collateral] \in Nat \ {0} /\ unit[Receipt] \in Nat \ {0}
         /\ \A t, r \in Token : unit[t] <= unit[r] => unit[r] % unit[t] = 0
BY Accounts, ManagerAssumption DEF UnitsOK

(* A conversion rounds down, by less than one unit of the coarser token. *)
LEMMA ConvertedBounds ==
  ASSUME UnitsOK, NEW from \in Token, NEW to \in Token, NEW n \in Nat
  PROVE  /\ Converted(n, from, to) \in Nat
         /\ Converted(n, from, to) * unit[from] <= n * unit[to]
         /\ \E t \in Token :
               n * unit[to] - Converted(n, from, to) * unit[from] < unit[t]
<1>1. /\ unit[from] \in Nat \ {0} /\ unit[to] \in Nat \ {0}
      /\ unit[from] <= unit[to] => unit[to] % unit[from] = 0
      /\ unit[to] <= unit[from] => unit[from] % unit[to] = 0
  BY UnitTypes, Accounts
<1> DEFINE f == unit[from]  t == unit[to]  m == Converted(n, from, to)
<1>2. CASE t >= f
  <2> DEFINE k == t \div f
  <2>1. k \in Nat /\ t = f * k
    BY <1>1, <1>2, DivDef, Exact
  <2>2. m = n * k
    BY <1>2 DEF Converted
  <2> HIDE DEF k, f, t, m
  <2>3. f \in Nat /\ f > 0 /\ m \in Nat
    BY <1>1, <2>1, <2>2 DEF f
  <2>4. m * f = n * t
    BY <2>1, <2>2, <2>3
  <2>5. n * t - m * f = 0
    BY <2>1, <2>3, <2>4
  <2>6. QED BY <2>3, <2>4, <2>5, <1>1 DEF f, t, m
<1>3. CASE ~(t >= f)
  <2> DEFINE k == f \div t
  <2>1. k \in Nat /\ f = t * k
    BY <1>1, <1>3, DivDef, Exact
  <2>2. k # 0
    BY <2>1, <1>1
  <2>3. m = n \div k
    BY <1>3 DEF Converted
  <2>4. m \in Nat /\ k * m <= n /\ n < k * m + k
    BY <2>1, <2>2, <2>3, DivDef
  <2> HIDE DEF k, f, t, m
  <2>5. t \in Nat /\ t > 0 /\ f \in Nat
    BY <1>1 DEF f, t
  <2>6. t * (k * m) <= t * n /\ t * n < t * (k * m + k)
    BY <2>1, <2>4, <2>5
  <2>7. m * f = t * (k * m) /\ n * t = t * n /\ t * (k * m + k) = t * (k * m) + f
    BY <2>1, <2>4, <2>5
  <2>8. m * f \in Nat /\ n * t \in Nat
    BY <2>4, <2>5
  <2>9. m * f <= n * t /\ n * t - m * f < f
    BY <2>5, <2>6, <2>7, <2>8
  <2>10. QED BY <2>4, <2>9 DEF f, t, m
<1>4. QED BY <1>2, <1>3, <1>1

(* Value is linear, and not negative where its parts are not. *)
LEMMA ValueNat ==
  ASSUME UnitsOK, NEW a \in Nat, NEW b \in Nat
  PROVE  Value(a, b) \in Nat
<1> DEFINE p == unit[Receipt]  q == unit[Collateral]
<1>1. p \in Nat /\ q \in Nat /\ Value(a, b) = a * p + b * q
  BY UnitTypes DEF Value
<1> HIDE DEF p, q
<1>2. a * p \in Nat /\ b * q \in Nat
  BY <1>1
<1>3. QED BY <1>1, <1>2

(* What a conversion is paid is worth what it pays, and less than a unit of *)
(* the coarser token more.                                                  *)
LEMMA ConversionValue ==
  ASSUME UnitsOK, NEW n \in Nat
  PROVE  /\ Converted(n, Collateral, Receipt) \in Nat
         /\ Value(n, -Converted(n, Collateral, Receipt)) \in Nat
         /\ \E t \in Token : Value(n, -Converted(n, Collateral, Receipt)) < unit[t]
         /\ Converted(n, Receipt, Collateral) \in Nat
         /\ Value(-Converted(n, Receipt, Collateral), n) \in Nat
         /\ \E t \in Token : Value(-Converted(n, Receipt, Collateral), n) < unit[t]
<1> DEFINE p == unit[Receipt]  q == unit[Collateral]
           r == Converted(n, Collateral, Receipt)
           c == Converted(n, Receipt, Collateral)
<1>1. p \in Nat /\ q \in Nat
  BY UnitTypes
<1>2. r \in Nat /\ r * q <= n * p /\ \E t \in Token : n * p - r * q < unit[t]
  BY ConvertedBounds, Accounts
<1>3. c \in Nat /\ c * p <= n * q /\ \E t \in Token : n * q - c * p < unit[t]
  BY ConvertedBounds, Accounts
<1>4. Value(n, -r) = n * p + (-r) * q /\ Value(-c, n) = (-c) * p + n * q
  BY DEF Value
<1> HIDE DEF p, q, r, c
<1>5. /\ n * p \in Nat /\ r * q \in Nat /\ n * q \in Nat /\ c * p \in Nat
      /\ (-r) * q = -(r * q) /\ (-c) * p = -(c * p)
  BY <1>1, <1>2, <1>3
<1>6. Value(n, -r) = n * p - r * q /\ Value(-c, n) = n * q - c * p
  BY <1>4, <1>5
<1>7. Value(n, -r) \in Nat /\ Value(-c, n) \in Nat
  BY <1>2, <1>3, <1>5, <1>6
<1>8. QED BY <1>2, <1>3, <1>6, <1>7 DEF r, c

-----------------------------------------------------------------------------
(* The calls *)

LEMMA SoundBooks ==
  ASSUME NEW held, NEW supply,
         held = [t \in Token |-> held[t]], supply = [t \in Token |-> supply[t]],
         \A t \in Token : Sound(held[t], supply[t])
  PROVE  SupplyIsHeld(held, supply)
BY DEF SupplyIsHeld, Sound

(* The books a call reads are sound token by token. *)
LEMMA Books ==
  ASSUME TypeOK
  PROVE  /\ UnitsOK
         /\ balance \in [Token -> [Account -> Uint]] /\ totalSupply \in [Token -> Uint]
         /\ \A t \in Token : Sound(balance[t], totalSupply[t])
         /\ \A t \in Token : totalSupply[t] \in Nat /\ Lent(t) \in Nat
         /\ \A t \in Token, a \in Account : balance[t][a] \in Nat
<1>1. \A t \in Token : Lent(t) \in Nat
  BY DEF Lent, TypeOK, StablecoinTypeOK, Loans
<1>2. QED BY <1>1, Accounts
      DEF TypeOK, StablecoinTypeOK, SupplyIsHeld, Sound, UnitsOK, Uint

LEMMA SurplusChange ==
  ASSUME TypeOK, UNCHANGED unit, NEW x \in Int, NEW y \in Int,
         balance'[Collateral][Manager] = balance[Collateral][Manager] + x,
         Lent(Receipt)' - totalSupply'[Receipt] = Lent(Receipt) - totalSupply[Receipt] + y
  PROVE  Surplus \in Int /\ Surplus' = Surplus + Value(x, y)
<1> DEFINE b == balance[Collateral][Manager]
           d == Lent(Receipt) - totalSupply[Receipt]
           p == unit[Receipt]
           q == unit[Collateral]
<1>1. b \in Int /\ d \in Int /\ p \in Nat /\ q \in Nat
  BY Books, Accounts, UnitTypes
<1>2. Surplus = b * p + d * q
  BY DEF Surplus, Value
<1>3. Surplus' = (b + x) * p + (d + y) * q
  BY DEF Surplus, Value
<1>4. Value(x, y) = x * p + y * q
  BY DEF Value
<1> HIDE DEF b, d, p, q
<1>5. /\ (b + x) * p + (d + y) * q = (b * p + d * q) + (x * p + y * q)
      /\ b * p + d * q \in Int
  BY <1>1
<1>6. QED BY <1>2, <1>3, <1>4, <1>5

LEMMA WealthChange ==
  ASSUME TypeOK, NEW u \in Account, NEW x \in Int, NEW y \in Int,
         balance'[Collateral][u] = balance[Collateral][u] - x,
         balance'[Receipt][u] = balance[Receipt][u] - y
  PROVE  /\ Wealth(balance, u) \in Int /\ Value(x, y) \in Int
         /\ Wealth(balance', u) = Wealth(balance, u) - Value(x, y)
<1> DEFINE b == balance[Collateral][u]
           d == balance[Receipt][u]
           p == unit[Receipt]
           q == unit[Collateral]
<1>1. b \in Int /\ d \in Int /\ p \in Nat /\ q \in Nat
  BY Books, Accounts, UnitTypes
<1>2. Wealth(balance, u) = b * p + d * q
  BY DEF Wealth, Value
<1>3. Wealth(balance', u) = (b - x) * p + (d - y) * q
  BY DEF Wealth, Value
<1>4. Value(x, y) = x * p + y * q
  BY DEF Value
<1> HIDE DEF b, d, p, q
<1>5. /\ (b - x) * p + (d - y) * q = (b * p + d * q) - (x * p + y * q)
      /\ b * p + d * q \in Int /\ x * p + y * q \in Int
  BY <1>1
<1>6. QED BY <1>2, <1>3, <1>4, <1>5

(* The tokens' own calls, one token at a time. *)
LEMMA MintKeeps ==
  ASSUME TypeOK, NEW t \in Token, NEW to \in Account, NEW n \in Nat, mint(t, to, n)
  PROVE  SupplyIsHeld(balance', totalSupply')
<1>1. balance'[t] = Minted(t, to, n) /\ totalSupply'[t] = totalSupply[t] + n
  BY Books DEF mint
<1>2. \A x \in Token \ {t} : balance'[x] = balance[x] /\ totalSupply'[x] = totalSupply[x]
  BY Books DEF mint
<1>3. Sound(balance'[t], totalSupply'[t])
  BY <1>1, Books, MintSound DEF Minted, mint, MayMint
<1>4. \A x \in Token : Sound(balance'[x], totalSupply'[x])
  BY <1>2, <1>3, Books
<1>5. /\ balance' = [x \in Token |-> balance'[x]]
      /\ totalSupply' = [x \in Token |-> totalSupply'[x]]
  BY Books DEF mint
<1>6. QED BY <1>4, <1>5, SoundBooks

LEMMA BurnKeeps ==
  ASSUME TypeOK, NEW t \in Token, NEW from \in Account, NEW n \in Nat, burn(t, from, n)
  PROVE  SupplyIsHeld(balance', totalSupply')
<1>1. balance'[t] = Burned(t, from, n) /\ totalSupply'[t] = totalSupply[t] - n
  BY Books DEF burn
<1>2. \A x \in Token \ {t} : balance'[x] = balance[x] /\ totalSupply'[x] = totalSupply[x]
  BY Books DEF burn
<1>3. Sound(balance'[t], totalSupply'[t])
  BY <1>1, Books, BurnSound DEF Burned, burn, MayPay
<1>4. \A x \in Token : Sound(balance'[x], totalSupply'[x])
  BY <1>2, <1>3, Books
<1>5. /\ balance' = [x \in Token |-> balance'[x]]
      /\ totalSupply' = [x \in Token |-> totalSupply'[x]]
  BY Books DEF burn
<1>6. QED BY <1>4, <1>5, SoundBooks

LEMMA TransferKeeps ==
  ASSUME TypeOK, NEW t \in Token, NEW from \in Account, NEW to \in Account,
         NEW n \in Nat, transfer(t, from, to, n)
  PROVE  SupplyIsHeld(balance', totalSupply')
<1>1. balance'[t] = Moved(t, from, to, n) /\ totalSupply' = totalSupply
  BY Books DEF transfer
<1>2. \A x \in Token \ {t} : balance'[x] = balance[x]
  BY Books DEF transfer
<1>3. Sound(balance'[t], totalSupply[t])
  BY <1>1, Books, MoveSound DEF Moved, Burned, transfer, MayPay
<1>4. \A x \in Token : Sound(balance'[x], totalSupply'[x])
  BY <1>1, <1>2, <1>3, Books
<1>5. /\ balance' = [x \in Token |-> balance'[x]]
      /\ totalSupply' = [x \in Token |-> totalSupply'[x]]
  BY <1>1, Books DEF transfer
<1>6. QED BY <1>4, <1>5, SoundBooks

(* What every call of a holder does: the books stay sound, no collateral is  *)
(* created, the surplus does not fall and the caller gets no richer.         *)
Harmless(u) ==
    /\ SupplyIsHeld(balance', totalSupply')
    /\ UNCHANGED <<complianceVars, loan, unit>>
    /\ totalSupply'[Collateral] <= totalSupply[Collateral]
    /\ Surplus' >= Surplus
    /\ Wealth(balance', u) <= Wealth(balance, u)

LEMMA IssueHarmless ==
  ASSUME TypeOK, NEW u \in User, NEW to \in Account, NEW n \in Nat, issue(u, to, n)
  PROVE  /\ Harmless(u)
         /\ Surplus' = Surplus + Value(n, -Converted(n, Collateral, Receipt))
<1> DEFINE r == Converted(n, Collateral, Receipt)
<1>1. /\ UnitsOK /\ r \in Nat /\ Value(n, -r) \in Nat
      /\ u \in Account /\ u # Manager /\ Manager \in Account
  BY Books, ConversionValue, Accounts
<1>2. /\ balance' = [balance EXCEPT ![Collateral] = Moved(Collateral, u, Manager, n),
                                    ![Receipt] = Minted(Receipt, to, r)]
      /\ totalSupply' = [totalSupply EXCEPT ![Receipt] = @ + r]
      /\ balance[Collateral][u] >= n /\ totalSupply[Receipt] + r \in Uint
      /\ UNCHANGED <<complianceVars, loan, unit>>
  BY DEF issue, MayPay, MayMint
<1> HIDE DEF r
<1>3. /\ balance'[Collateral] = Moved(Collateral, u, Manager, n)
      /\ balance'[Receipt] = Minted(Receipt, to, r)
      /\ totalSupply'[Collateral] = totalSupply[Collateral]
      /\ totalSupply'[Receipt] = totalSupply[Receipt] + r
      /\ balance' = [t \in Token |-> balance'[t]]
      /\ totalSupply' = [t \in Token |-> totalSupply'[t]]
  BY <1>2, Books, Accounts
<1>4. SupplyIsHeld(balance', totalSupply')
  <2>1. Sound(balance'[Collateral], totalSupply'[Collateral])
    BY <1>1, <1>2, <1>3, Books, Accounts, MoveSound DEF Moved, Burned
  <2>2. Sound(balance'[Receipt], totalSupply'[Receipt])
    BY <1>1, <1>2, <1>3, Books, Accounts, MintSound DEF Minted
  <2>3. QED BY <1>3, <2>1, <2>2, Accounts, SoundBooks
<1>5. /\ balance'[Collateral][Manager] = balance[Collateral][Manager] + n
      /\ balance'[Collateral][u] = balance[Collateral][u] - n
      /\ balance'[Receipt][u] = IF to = u THEN balance[Receipt][u] + r
                                          ELSE balance[Receipt][u]
  BY <1>1, <1>3, Books, Accounts DEF Moved, Burned, Minted
<1>6. Surplus \in Int /\ Surplus' = Surplus + Value(n, -r)
  <2>1. Lent(Receipt)' = Lent(Receipt)
    BY <1>2 DEF Lent
  <2>2. Lent(Receipt)' - totalSupply'[Receipt] = Lent(Receipt) - totalSupply[Receipt] + (-r)
    BY <2>1, <1>1, <1>3, Books, Accounts
  <2>3. n \in Int /\ -r \in Int /\ UNCHANGED unit
    BY <1>1, <1>2
  <2>4. QED BY <1>5, <2>2, <2>3, SurplusChange
<1>7. Wealth(balance', u) <= Wealth(balance, u)
  <2> DEFINE y == IF to = u THEN -r ELSE 0
  <2>1. n \in Int /\ y \in Int
    BY <1>1
  <2>2. balance'[Receipt][u] = balance[Receipt][u] - y
    BY <1>1, <1>5, Books, Accounts
  <2>3. Value(n, y) >= 0
    <3>1. CASE to = u
      BY <1>1, <3>1
    <3>2. CASE to # u
      <4>1. Value(n, 0) \in Nat
        BY <1>1, ValueNat
      <4>2. QED BY <3>2, <4>1
    <3>3. QED BY <3>1, <3>2
  <2> HIDE DEF y
  <2>4. /\ Wealth(balance, u) \in Int /\ Value(n, y) \in Int
        /\ Wealth(balance', u) = Wealth(balance, u) - Value(n, y)
    BY <1>1, <1>5, <2>1, <2>2, WealthChange
  <2>5. QED BY <2>3, <2>4
<1>8. totalSupply'[Collateral] <= totalSupply[Collateral]
  BY <1>3, Books, Accounts
<1>9. QED BY <1>1, <1>2, <1>4, <1>6, <1>7, <1>8 DEF Harmless, r

LEMMA RedeemHarmless ==
  ASSUME TypeOK, NEW u \in User, NEW to \in Account, NEW n \in Nat, redeem(u, to, n)
  PROVE  /\ Harmless(u)
         /\ to # Manager =>
              Surplus' = Surplus + Value(-Converted(n, Receipt, Collateral), n)
<1> DEFINE c == Converted(n, Receipt, Collateral)
<1>1. /\ UnitsOK /\ c \in Nat /\ Value(-c, n) \in Nat
      /\ u \in Account /\ u # Manager /\ Manager \in Account
  BY Books, ConversionValue, Accounts
<1>2. /\ balance' = [balance EXCEPT ![Receipt] = Burned(Receipt, u, n),
                                    ![Collateral] = Moved(Collateral, Manager, to, c)]
      /\ totalSupply' = [totalSupply EXCEPT ![Receipt] = @ - n]
      /\ balance[Receipt][u] >= n /\ balance[Collateral][Manager] >= c
      /\ UNCHANGED <<complianceVars, loan, unit>>
  BY DEF redeem, MayPay
<1> HIDE DEF c
<1>3. /\ balance'[Collateral] = Moved(Collateral, Manager, to, c)
      /\ balance'[Receipt] = Burned(Receipt, u, n)
      /\ totalSupply'[Collateral] = totalSupply[Collateral]
      /\ totalSupply'[Receipt] = totalSupply[Receipt] - n
      /\ balance' = [t \in Token |-> balance'[t]]
      /\ totalSupply' = [t \in Token |-> totalSupply'[t]]
  BY <1>2, Books, Accounts
<1>4. SupplyIsHeld(balance', totalSupply')
  <2>1. Sound(balance'[Collateral], totalSupply'[Collateral])
    BY <1>1, <1>2, <1>3, Books, Accounts, MoveSound DEF Moved, Burned
  <2>2. Sound(balance'[Receipt], totalSupply'[Receipt])
    BY <1>1, <1>2, <1>3, Books, Accounts, BurnSound DEF Burned
  <2>3. QED BY <1>3, <2>1, <2>2, Accounts, SoundBooks
<1>5. /\ balance'[Collateral][Manager] = IF to = Manager
                                        THEN balance[Collateral][Manager]
                                        ELSE balance[Collateral][Manager] - c
      /\ balance'[Collateral][u] = IF to = u THEN balance[Collateral][u] + c
                                            ELSE balance[Collateral][u]
      /\ balance'[Receipt][u] = balance[Receipt][u] - n
  BY <1>1, <1>3, Books, Accounts DEF Moved, Burned
<1>6. Value(0, n) \in Nat
  BY <1>1, ValueNat
<1>7. /\ Surplus \in Int /\ Surplus' >= Surplus
      /\ to # Manager => Surplus' = Surplus + Value(-c, n)
  <2> DEFINE x == IF to = Manager THEN 0 ELSE -c
  <2>1. x \in Int /\ n \in Int /\ UNCHANGED unit
    BY <1>1, <1>2
  <2>2. Lent(Receipt)' = Lent(Receipt)
    BY <1>2 DEF Lent
  <2>3. Lent(Receipt)' - totalSupply'[Receipt] = Lent(Receipt) - totalSupply[Receipt] + n
    BY <2>2, <1>3, Books, Accounts
  <2>4. balance'[Collateral][Manager] = balance[Collateral][Manager] + x
    BY <1>1, <1>5, Books, Accounts
  <2>5. Value(x, n) \in Nat
    <3>1. CASE to = Manager
      BY <1>6, <3>1
    <3>2. CASE to # Manager
      BY <1>1, <3>2
    <3>3. QED BY <3>1, <3>2
  <2>6. to # Manager => Value(x, n) = Value(-c, n)
    OBVIOUS
  <2> HIDE DEF x
  <2>7. Surplus \in Int /\ Surplus' = Surplus + Value(x, n)
    BY <2>1, <2>3, <2>4, SurplusChange
  <2>8. QED BY <2>5, <2>6, <2>7
<1>8. Wealth(balance', u) <= Wealth(balance, u)
  <2> DEFINE x == IF to = u THEN -c ELSE 0
  <2>1. x \in Int /\ n \in Int
    BY <1>1
  <2>2. balance'[Collateral][u] = balance[Collateral][u] - x
    BY <1>1, <1>5, Books, Accounts
  <2>3. Value(x, n) \in Nat
    <3>1. CASE to = u
      BY <1>1, <3>1
    <3>2. CASE to # u
      BY <1>6, <3>2
    <3>3. QED BY <3>1, <3>2
  <2> HIDE DEF x
  <2>4. /\ Wealth(balance, u) \in Int
        /\ Wealth(balance', u) = Wealth(balance, u) - Value(x, n)
    BY <1>1, <1>5, <2>1, <2>2, WealthChange
  <2>5. QED BY <2>3, <2>4
<1>9. totalSupply'[Collateral] <= totalSupply[Collateral]
  BY <1>3, Books, Accounts
<1>10. QED BY <1>2, <1>4, <1>7, <1>8, <1>9 DEF Harmless, c

LEMMA BurnHarmless ==
  ASSUME TypeOK, NEW t \in Token, NEW u \in User, NEW n \in Nat,
         burn(t, u, n), UNCHANGED unit
  PROVE  Harmless(u)
<1> DEFINE x == IF t = Collateral THEN n ELSE 0
           y == IF t = Receipt THEN n ELSE 0
<1>1. /\ UnitsOK /\ x \in Nat /\ y \in Nat /\ u \in Account /\ u # Manager
      /\ Manager \in Account /\ UNCHANGED <<complianceVars, loan, unit>>
  BY Books, Accounts DEF burn
<1>2. SupplyIsHeld(balance', totalSupply')
  BY <1>1, BurnKeeps
<1>3. /\ balance'[Collateral][Manager] = balance[Collateral][Manager]
      /\ balance'[Collateral][u] = balance[Collateral][u] - x
      /\ balance'[Receipt][u] = balance[Receipt][u] - y
      /\ totalSupply'[Collateral] = totalSupply[Collateral] - x
      /\ totalSupply'[Receipt] = totalSupply[Receipt] - y
  BY <1>1, Books, Accounts DEF burn, Burned
<1> HIDE DEF x, y
<1>4. Value(0, y) \in Nat /\ Value(x, y) \in Nat
  BY <1>1, ValueNat
<1>5. Surplus' >= Surplus
  <2>1. Lent(Receipt)' = Lent(Receipt)
    BY <1>1 DEF Lent
  <2>2. Lent(Receipt)' - totalSupply'[Receipt] = Lent(Receipt) - totalSupply[Receipt] + y
    BY <1>1, <1>3, <2>1, Books, Accounts
  <2>3. balance'[Collateral][Manager] = balance[Collateral][Manager] + 0
    BY <1>1, <1>3, Books, Accounts
  <2>4. Surplus \in Int /\ Surplus' = Surplus + Value(0, y)
    BY <1>1, <2>2, <2>3, SurplusChange
  <2>5. QED BY <1>4, <2>4
<1>6. Wealth(balance', u) <= Wealth(balance, u)
  <2>1. /\ Wealth(balance, u) \in Int
        /\ Wealth(balance', u) = Wealth(balance, u) - Value(x, y)
    BY <1>1, <1>3, WealthChange
  <2>2. QED BY <1>4, <2>1
<1>7. totalSupply'[Collateral] <= totalSupply[Collateral]
  BY <1>1, <1>3, Books, Accounts
<1>8. QED BY <1>1, <1>2, <1>5, <1>6, <1>7 DEF Harmless

LEMMA TransferHarmless ==
  ASSUME TypeOK, NEW t \in Token, NEW u \in User, NEW to \in Account, NEW n \in Nat,
         transfer(t, u, to, n), UNCHANGED unit
  PROVE  Harmless(u)
<1> DEFINE z == IF to = Manager /\ t = Collateral THEN n ELSE 0
           x == IF to # u /\ t = Collateral THEN n ELSE 0
           y == IF to # u /\ t = Receipt THEN n ELSE 0
<1>1. /\ UnitsOK /\ x \in Nat /\ y \in Nat /\ z \in Nat
      /\ u \in Account /\ u # Manager /\ Manager \in Account
      /\ UNCHANGED <<totalSupply, complianceVars, loan, unit>>
  BY Books, Accounts DEF transfer
<1>2. SupplyIsHeld(balance', totalSupply')
  BY <1>1, TransferKeeps
<1>3. balance'[t] = Moved(t, u, to, n) /\ \A r \in Token \ {t} : balance'[r] = balance[r]
  BY Books DEF transfer
<1> DEFINE paid == IF to = u THEN 0 ELSE n
<1>4. /\ balance'[t][u] = balance[t][u] - paid
      /\ balance'[t][Manager] = IF to = Manager THEN balance[t][Manager] + n
                                                ELSE balance[t][Manager]
  <2>1. balance[t] \in [Account -> Uint] /\ balance[t][u] \in Nat /\ balance[t][Manager] \in Nat
    BY <1>1, Books
  <2>2. CASE to = u
    BY <1>1, <1>3, <2>1, <2>2 DEF Moved, Burned
  <2>3. CASE to # u
    BY <1>1, <1>3, <2>1, <2>3 DEF Moved, Burned
  <2>4. QED BY <2>2, <2>3
<1>5. /\ balance'[Collateral][Manager] = balance[Collateral][Manager] + z
      /\ balance'[Collateral][u] = balance[Collateral][u] - x
      /\ balance'[Receipt][u] = balance[Receipt][u] - y
  <2>1. \A r \in Token, a \in Account : balance[r][a] \in Nat
    BY Books
  <2>2. CASE t = Collateral
    BY <1>1, <1>3, <1>4, <2>1, <2>2, Accounts
  <2>3. CASE t = Receipt
    BY <1>1, <1>3, <1>4, <2>1, <2>3, Accounts
  <2>4. QED BY <2>2, <2>3, Accounts
<1> HIDE DEF x, y, z
<1>6. Value(z, 0) \in Nat /\ Value(x, y) \in Nat
  BY <1>1, ValueNat
<1>7. Surplus' >= Surplus
  <2>1. Lent(Receipt)' = Lent(Receipt)
    BY <1>1 DEF Lent
  <2>2. Lent(Receipt)' - totalSupply'[Receipt] = Lent(Receipt) - totalSupply[Receipt] + 0
    BY <1>1, <2>1, Books, Accounts
  <2>3. Surplus \in Int /\ Surplus' = Surplus + Value(z, 0)
    BY <1>1, <1>5, <2>2, SurplusChange
  <2>4. QED BY <1>6, <2>3
<1>8. Wealth(balance', u) <= Wealth(balance, u)
  <2>1. /\ Wealth(balance, u) \in Int
        /\ Wealth(balance', u) = Wealth(balance, u) - Value(x, y)
    BY <1>1, <1>5, WealthChange
  <2>2. QED BY <1>6, <2>1
<1>9. totalSupply'[Collateral] <= totalSupply[Collateral]
  BY <1>1, Books, Accounts
<1>10. QED BY <1>1, <1>2, <1>7, <1>8, <1>9 DEF Harmless

LEMMA HoldersHarmless ==
  ASSUME TypeOK, NEW u \in User, HolderCalls(u)
  PROVE  Harmless(u) /\ (loan # NoLoan => loan.borrower = u)
<1>1. Amount \subseteq Nat /\ User \subseteq Account
  BY Accounts
<1>2. QED BY <1>1, IssueHarmless, RedeemHarmless, BurnHarmless, TransferHarmless
      DEF HolderCalls

-----------------------------------------------------------------------------
(* The inductive invariant: inside a loan, what the loan itself added left   *)
(* out, no collateral has appeared, the surplus has not fallen and the       *)
(* borrower is no richer than on the books the transaction found.            *)
LoanOK ==
    loan # NoLoan =>
      /\ totalSupply[Collateral] - Lent(Collateral) <= loan.totalSupply[Collateral]
      /\ Surplus >= Value(loan.balance[Collateral][Manager], -loan.totalSupply[Receipt])
      /\ Wealth(balance, loan.borrower) - Value(Lent(Collateral), Lent(Receipt))
           <= Wealth(loan.balance, loan.borrower)

IInv == TypeOK /\ LoanOK

LEMMA LoanBooks ==
  ASSUME TypeOK, loan # NoLoan
  PROVE  /\ loan.token \in Token /\ loan.borrower \in User /\ loan.amount \in Nat
         /\ SupplyIsHeld(loan.balance, loan.totalSupply)
         /\ loan.totalSupply[Collateral] \in Int /\ loan.totalSupply[Receipt] \in Int
         /\ loan.balance[Collateral][Manager] \in Int
         /\ Value(loan.balance[Collateral][Manager], -loan.totalSupply[Receipt]) \in Int
         /\ Wealth(loan.balance, loan.borrower) \in Int
<1>1. /\ loan.token \in Token /\ loan.borrower \in User /\ loan.amount \in Nat
      /\ SupplyIsHeld(loan.balance, loan.totalSupply)
      /\ loan.balance \in [Token -> [Account -> Uint]] /\ loan.totalSupply \in [Token -> Uint]
  BY DEF TypeOK, StablecoinTypeOK, Loans
<1>2. /\ \A t \in Token : loan.totalSupply[t] \in Int
      /\ \A t \in Token, a \in Account : loan.balance[t][a] \in Int
  BY <1>1, Accounts DEF Uint
<1>3. unit[Collateral] \in Nat /\ unit[Receipt] \in Nat
  BY Books, UnitTypes
<1>4. \A x, y \in Int : Value(x, y) \in Int
  BY <1>3 DEF Value
<1>5. -loan.totalSupply[Receipt] \in Int
  BY <1>2, Accounts
<1>6. /\ Value(loan.balance[Collateral][Manager], -loan.totalSupply[Receipt]) \in Int
      /\ Wealth(loan.balance, loan.borrower) \in Int
  BY <1>1, <1>2, <1>4, <1>5, Accounts DEF Wealth
<1>7. QED BY <1>1, <1>2, <1>6, Accounts

LEMMA Numbers ==
  ASSUME TypeOK
  PROVE  /\ Surplus \in Int
         /\ \A a \in Account : Wealth(balance, a) \in Int
         /\ Value(Lent(Collateral), Lent(Receipt)) \in Nat
<1>1. unit[Collateral] \in Nat /\ unit[Receipt] \in Nat
  BY Books, UnitTypes
<1>2. \A x, y \in Int : Value(x, y) \in Int
  BY <1>1 DEF Value
<1>3. Lent(Receipt) - totalSupply[Receipt] \in Int /\ balance[Collateral][Manager] \in Int
  BY Books, Accounts
<1>4. \A a \in Account : balance[Collateral][a] \in Int /\ balance[Receipt][a] \in Int
  BY Books, Accounts
<1>5. Lent(Collateral) \in Nat /\ Lent(Receipt) \in Nat /\ UnitsOK
  BY Books, Accounts
<1>6. QED BY <1>2, <1>3, <1>4, <1>5, ValueNat DEF Surplus, Wealth

LEMMA NumbersOf ==
  ASSUME TypeOK, NEW held, NEW supply, SupplyIsHeld(held, supply), NEW lent \in Int
  PROVE  /\ supply[Collateral] \in Int
         /\ Value(held[Collateral][Manager], lent - supply[Receipt]) \in Int
         /\ \A a \in Account : Wealth(held, a) \in Int
<1>1. unit[Collateral] \in Nat /\ unit[Receipt] \in Nat
  BY Books, UnitTypes
<1>2. \A x, y \in Int : Value(x, y) \in Int
  BY <1>1 DEF Value
<1>3. held \in [Token -> [Account -> Uint]] /\ supply \in [Token -> Uint]
  BY DEF SupplyIsHeld
<1>4. /\ \A t \in Token : supply[t] \in Int
      /\ \A t \in Token, a \in Account : held[t][a] \in Int
  BY <1>3, Accounts DEF Uint
<1>5. supply[Collateral] \in Int /\ lent - supply[Receipt] \in Int
  BY <1>4, Accounts
<1>6. QED BY <1>2, <1>4, <1>5, Accounts DEF Wealth

LEMMA InitHolds == Init => IInv
<1> SUFFICES ASSUME Init PROVE IInv
  OBVIOUS
<1>1. loan = NoLoan /\ unit \in [Token -> Units]
  BY DEF Init, InitStablecoin
<1>2. \A t \in Token : Sound(balance[t], totalSupply[t])
  <2> SUFFICES ASSUME NEW t \in Token PROVE Sound(balance[t], totalSupply[t])
    OBVIOUS
  <2>1. balance[t] = [a \in Account |-> 0] /\ totalSupply[t] = 0
    BY DEF Init, InitStablecoin
  <2>2. \A a \in Account : balance[t][a] = 0
    BY <2>1
  <2>3. Total(balance[t], Account) = 0
    BY <2>2, TotalOfNothing
  <2>4. QED BY <2>1, <2>3, Accounts DEF Sound, Uint
<1>3. SupplyIsHeld(balance, totalSupply)
  <2>1. /\ balance = [t \in Token |-> balance[t]]
        /\ totalSupply = [t \in Token |-> totalSupply[t]]
    BY DEF Init, InitStablecoin
  <2>2. QED BY <1>2, <2>1, SoundBooks
<1>4. paused \subseteq Token /\ frozen \in [Token -> SUBSET (Account \cup {Zero})]
  BY DEF Init, InitStablecoin
<1>5. QED BY <1>1, <1>3, <1>4 DEF IInv, TypeOK, StablecoinTypeOK, LoanOK

LEMMA HolderKeeps ==
  ASSUME IInv, NEW u \in User, HolderCalls(u)
  PROVE  IInv'
<1>1. TypeOK /\ Harmless(u) /\ (loan # NoLoan => loan.borrower = u) /\ u \in Account
  BY HoldersHarmless, Accounts DEF IInv
<1>2. /\ SupplyIsHeld(balance', totalSupply')
      /\ UNCHANGED <<paused, frozen, loan, unit>>
      /\ totalSupply'[Collateral] <= totalSupply[Collateral]
      /\ Surplus' >= Surplus
      /\ Wealth(balance', u) <= Wealth(balance, u)
  BY <1>1 DEF Harmless, complianceVars
<1>3. TypeOK'
  BY <1>1, <1>2 DEF TypeOK, StablecoinTypeOK, SupplyIsHeld, Loans
<1>4. LoanOK'
  <2> SUFFICES ASSUME loan # NoLoan PROVE LoanOK'
    BY <1>2 DEF LoanOK
  <2>1. loan.borrower = u /\ LoanOK
    BY <1>1 DEF IInv
  <2>2. /\ Lent(Collateral)' = Lent(Collateral) /\ Lent(Receipt)' = Lent(Receipt)
        /\ Lent(Collateral) \in Int
    BY <1>1, <1>2, Books, Accounts DEF Lent
  <2>3. /\ Wealth(balance, u)' = Wealth(balance', u)
        /\ Wealth(loan.balance, u)' = Wealth(loan.balance, u)
        /\ Value(Lent(Collateral), Lent(Receipt))' = Value(Lent(Collateral), Lent(Receipt))
        /\ Value(loan.balance[Collateral][Manager], -loan.totalSupply[Receipt])'
             = Value(loan.balance[Collateral][Manager], -loan.totalSupply[Receipt])
    BY <1>2, <2>2 DEF Wealth, Value
  <2>4. /\ totalSupply[Collateral] \in Int /\ totalSupply'[Collateral] \in Int
        /\ Surplus' \in Int /\ Wealth(balance', u) \in Int
    <3>1. Lent(Receipt) \in Int
      BY <1>1, Books, Accounts
    <3>2. /\ totalSupply'[Collateral] \in Int /\ Wealth(balance', u) \in Int
          /\ Value(balance'[Collateral][Manager], Lent(Receipt) - totalSupply'[Receipt]) \in Int
      BY <1>1, <1>2, <3>1, NumbersOf
    <3>3. Surplus' = Value(balance'[Collateral][Manager], Lent(Receipt) - totalSupply'[Receipt])
      BY <1>2, <2>2 DEF Surplus, Value
    <3>4. totalSupply[Collateral] \in Int
      BY <1>1, Books, Accounts
    <3>5. QED BY <3>2, <3>3, <3>4
  <2>5. totalSupply'[Collateral] - Lent(Collateral)' <= loan.totalSupply[Collateral]
    BY <1>1, <1>2, <2>1, <2>2, <2>4, LoanBooks DEF LoanOK
  <2>6. Surplus' >= Value(loan.balance[Collateral][Manager], -loan.totalSupply[Receipt])'
    BY <1>1, <1>2, <2>1, <2>3, <2>4, LoanBooks, Numbers DEF LoanOK
  <2>7. Wealth(balance', u) - Value(Lent(Collateral), Lent(Receipt))
          <= Wealth(loan.balance, u)
    BY <1>1, <1>2, <2>1, <2>3, <2>4, LoanBooks, Numbers DEF LoanOK
  <2>8. QED BY <1>2, <2>1, <2>3, <2>5, <2>6, <2>7 DEF LoanOK
<1>5. QED BY <1>3, <1>4 DEF IInv

(* Taking a loan changes neither the surplus nor, the loan left out, what     *)
(* the borrower has.                                                          *)
LEMMA FlashLoanKeeps ==
  ASSUME IInv, NEW t \in Token, NEW u \in User, NEW n \in Nat,
         flashLoan(t, u, n), UNCHANGED unit
  PROVE  IInv' /\ Surplus' = Surplus
<1> DEFINE x == IF t = Collateral THEN n ELSE 0
           y == IF t = Receipt THEN n ELSE 0
           before == [token |-> t, borrower |-> u, amount |-> n,
                      balance |-> balance, totalSupply |-> totalSupply]
<1>1. /\ TypeOK /\ UnitsOK /\ x \in Nat /\ y \in Nat
      /\ u \in Account /\ u # Manager /\ Manager \in Account
      /\ loan = NoLoan /\ UNCHANGED <<paused, frozen, unit>>
  BY Books, Accounts DEF flashLoan, IInv, complianceVars
<1>2. loan' = before
  BY DEF flashLoan
<1>3. before \in Loans /\ before # NoLoan
  BY <1>1, Books, LoanAssumption DEF Loans
<1>4. SupplyIsHeld(balance', totalSupply')
  <2>1. balance'[t] = Minted(t, u, n) /\ totalSupply'[t] = totalSupply[t] + n
    BY <1>1, Books DEF flashLoan
  <2>2. \A r \in Token \ {t} : balance'[r] = balance[r] /\ totalSupply'[r] = totalSupply[r]
    BY <1>1, Books DEF flashLoan
  <2>3. Sound(balance'[t], totalSupply'[t])
    BY <1>1, <2>1, Books, MintSound DEF Minted, flashLoan, MayMint
  <2>4. \A r \in Token : Sound(balance'[r], totalSupply'[r])
    BY <1>1, <2>2, <2>3, Books
  <2>5. /\ balance' = [r \in Token |-> balance'[r]]
        /\ totalSupply' = [r \in Token |-> totalSupply'[r]]
    BY <1>1, Books DEF flashLoan
  <2>6. QED BY <2>4, <2>5, SoundBooks
<1>5. /\ balance'[Collateral][Manager] = balance[Collateral][Manager]
      /\ balance'[Collateral][u] = balance[Collateral][u] + x
      /\ balance'[Receipt][u] = balance[Receipt][u] + y
      /\ totalSupply'[Collateral] = totalSupply[Collateral] + x
      /\ totalSupply'[Receipt] = totalSupply[Receipt] + y
  BY <1>1, Books, Accounts DEF flashLoan, Minted
<1>6. /\ Lent(Collateral) = 0 /\ Lent(Receipt) = 0
      /\ Lent(Collateral)' = x /\ Lent(Receipt)' = y
  BY <1>1, <1>2, <1>3 DEF Lent
<1>7. TypeOK'
  <2>1. SupplyIsHeld(balance, totalSupply)
    BY <1>1 DEF TypeOK, StablecoinTypeOK
  <2>2. loan' \in Loans /\ SupplyIsHeld(loan'.balance, loan'.totalSupply)
    BY <1>2, <1>3, <2>1
  <2>3. QED BY <1>1, <1>4, <2>2 DEF TypeOK, StablecoinTypeOK, SupplyIsHeld, Loans
<1>8. Surplus \in Int /\ Surplus' = Surplus
      /\ Surplus = Value(balance[Collateral][Manager], -totalSupply[Receipt])
  <2>1. totalSupply[Receipt] \in Int
    BY <1>1, Books, Accounts
  <2>2. Lent(Receipt)' - totalSupply'[Receipt] = Lent(Receipt) - totalSupply[Receipt]
    BY <1>1, <1>5, <1>6, <2>1
  <2>3. 0 - totalSupply[Receipt] = -totalSupply[Receipt]
    BY <2>1
  <2>4. QED BY <1>1, <1>5, <1>6, <2>2, <2>3, Numbers DEF Surplus, Value
<1>9. LoanOK'
  <2>1. totalSupply'[Collateral] - Lent(Collateral)' <= loan'.totalSupply[Collateral]
    BY <1>1, <1>2, <1>5, <1>6, Books, Accounts
  <2>2. Value(loan.balance[Collateral][Manager], -loan.totalSupply[Receipt])' = Surplus
    BY <1>1, <1>2, <1>8 DEF Value
  <2>3. /\ Wealth(balance, u) \in Int /\ Value(x, y) \in Int
        /\ Wealth(balance', u) = Wealth(balance, u) + Value(x, y)
    <3> DEFINE a == -x  b == -y
    <3>1. a \in Int /\ b \in Int /\ UNCHANGED unit
      BY <1>1
    <3> DEFINE p == unit[Receipt]  q == unit[Collateral]
               c == balance[Collateral][u]  d == balance[Receipt][u]
    <3>2. c \in Int /\ d \in Int /\ p \in Nat /\ q \in Nat /\ x \in Int /\ y \in Int
      BY <1>1, Books, Accounts, UnitTypes
    <3>3. /\ Wealth(balance, u) = c * p + d * q
          /\ Wealth(balance', u) = (c + x) * p + (d + y) * q
          /\ Value(x, y) = x * p + y * q
      BY <1>5 DEF Wealth, Value
    <3> HIDE DEF c, d, p, q, x, y
    <3>4. /\ (c + x) * p + (d + y) * q = (c * p + d * q) + (x * p + y * q)
          /\ c * p + d * q \in Int /\ x * p + y * q \in Int
      BY <3>2
    <3>5. QED BY <3>3, <3>4
  <2>4. /\ (Wealth(balance, loan.borrower) - Value(Lent(Collateral), Lent(Receipt)))'
             = Wealth(balance', u) - Value(x, y)
        /\ Wealth(loan.balance, loan.borrower)' = Wealth(balance, u)
    BY <1>1, <1>2, <1>6 DEF Wealth, Value
  <2>5. QED BY <1>8, <2>1, <2>2, <2>3, <2>4 DEF LoanOK
<1>10. QED BY <1>7, <1>8, <1>9 DEF IInv

(* Repaying it takes from the borrower and the supply what was lent. *)
LEMMA RepayKeeps ==
  ASSUME IInv, repay, UNCHANGED unit
  PROVE  /\ IInv' /\ Surplus' = Surplus
         /\ totalSupply'[Collateral] = totalSupply[Collateral] - Lent(Collateral)
         /\ Wealth(balance', loan.borrower)
              = Wealth(balance, loan.borrower) - Value(Lent(Collateral), Lent(Receipt))
<1> DEFINE t == loan.token
           u == loan.borrower
           n == loan.amount
           x == Lent(Collateral)
           y == Lent(Receipt)
<1>1. /\ TypeOK /\ UnitsOK /\ loan # NoLoan /\ loan' = NoLoan
      /\ t \in Token /\ u \in User /\ n \in Nat
      /\ u \in Account /\ u # Manager /\ Manager \in Account
      /\ UNCHANGED <<paused, frozen, unit>>
  BY Books, Accounts, LoanBooks DEF repay, IInv, complianceVars
<1>2. /\ x \in Nat /\ y \in Nat
      /\ x = (IF t = Collateral THEN n ELSE 0) /\ y = (IF t = Receipt THEN n ELSE 0)
  BY <1>1, Books, Accounts DEF Lent
<1>3. SupplyIsHeld(balance', totalSupply')
  <2>1. balance'[t] = Burned(t, u, n) /\ totalSupply'[t] = totalSupply[t] - n
    BY <1>1, Books DEF repay
  <2>2. \A r \in Token \ {t} : balance'[r] = balance[r] /\ totalSupply'[r] = totalSupply[r]
    BY <1>1, Books DEF repay
  <2>3. Sound(balance'[t], totalSupply'[t])
    BY <1>1, <2>1, Books, BurnSound DEF Burned, repay, MayPay
  <2>4. \A r \in Token : Sound(balance'[r], totalSupply'[r])
    BY <1>1, <2>2, <2>3, Books
  <2>5. /\ balance' = [r \in Token |-> balance'[r]]
        /\ totalSupply' = [r \in Token |-> totalSupply'[r]]
    BY <1>1, Books DEF repay
  <2>6. QED BY <2>4, <2>5, SoundBooks
<1>4. /\ balance'[Collateral][Manager] = balance[Collateral][Manager]
      /\ balance'[Collateral][u] = balance[Collateral][u] - x
      /\ balance'[Receipt][u] = balance[Receipt][u] - y
      /\ totalSupply'[Collateral] = totalSupply[Collateral] - x
      /\ totalSupply'[Receipt] = totalSupply[Receipt] - y
  <2>1. /\ balance'[t] = Burned(t, u, n) /\ totalSupply'[t] = totalSupply[t] - n
        /\ \A r \in Token \ {t} : balance'[r] = balance[r] /\ totalSupply'[r] = totalSupply[r]
        /\ \A a \in Account \ {u} : Burned(t, u, n)[a] = balance[t][a]
        /\ Burned(t, u, n)[u] = balance[t][u] - n
    BY <1>1, Books DEF repay, Burned
  <2>2. \A r \in Token : /\ totalSupply[r] \in Nat
                         /\ \A a \in Account : balance[r][a] \in Nat
    BY <1>1, Books
  <2>3. QED BY <1>1, <1>2, <2>1, <2>2, Accounts
<1>5. TypeOK'
  BY <1>1, <1>3 DEF TypeOK, StablecoinTypeOK, SupplyIsHeld
<1>6. Surplus' = Surplus
  <2>1. Lent(Receipt)' = 0
    BY <1>1 DEF Lent
  <2>2. Lent(Receipt)' - totalSupply'[Receipt] = Lent(Receipt) - totalSupply[Receipt]
    BY <1>1, <1>2, <1>4, <2>1, Books, Accounts
  <2>3. QED BY <1>1, <1>4, <2>2 DEF Surplus, Value
<1>7. Wealth(balance', u) = Wealth(balance, u) - Value(x, y)
  <2>1. x \in Int /\ y \in Int
    BY <1>2
  <2>2. QED BY <1>1, <1>4, <2>1, WealthChange
<1>8. LoanOK'
  BY <1>1 DEF LoanOK
<1>9. QED BY <1>4, <1>5, <1>6, <1>7, <1>8 DEF IInv

(* A revert restores sound books. *)
LEMMA RevertKeeps ==
  ASSUME IInv, revert, UNCHANGED unit
  PROVE  /\ IInv'
         /\ Surplus' = Value(loan.balance[Collateral][Manager], -loan.totalSupply[Receipt])
<1>1. /\ TypeOK /\ loan # NoLoan /\ loan' = NoLoan
      /\ balance' = loan.balance /\ totalSupply' = loan.totalSupply
      /\ UNCHANGED <<paused, frozen, unit>>
      /\ SupplyIsHeld(loan.balance, loan.totalSupply) /\ loan.totalSupply[Receipt] \in Int
  BY LoanBooks DEF revert, IInv, complianceVars
<1>2. TypeOK'
  BY <1>1 DEF TypeOK, StablecoinTypeOK, SupplyIsHeld
<1>3. Lent(Receipt)' = 0 /\ 0 - loan.totalSupply[Receipt] = -loan.totalSupply[Receipt]
  BY <1>1 DEF Lent
<1>4. Surplus' = Value(loan.balance[Collateral][Manager], -loan.totalSupply[Receipt])
  BY <1>1, <1>3 DEF Surplus, Value
<1>5. QED BY <1>1, <1>2, <1>4 DEF IInv, LoanOK

-----------------------------------------------------------------------------
(* Minters, officers and the owner *)

LEMMA SurplusSame ==
  ASSUME TypeOK, UNCHANGED <<bookVars, loan, unit>>
  PROVE  Surplus' = Surplus
<1>1. Lent(Receipt)' = Lent(Receipt)
  BY DEF Lent
<1>2. QED BY <1>1 DEF Surplus, Value, bookVars

LEMMA MintCovers ==
  ASSUME TypeOK, NEW a \in Account, NEW n \in Nat, mint(Collateral, a, n), UNCHANGED unit
  PROVE  Surplus \in Int /\ Surplus' >= Surplus
<1> DEFINE z == IF a = Manager THEN n ELSE 0
<1>1. UnitsOK /\ z \in Nat /\ Manager \in Account /\ UNCHANGED loan
  BY Books, Accounts DEF mint
<1>2. /\ balance'[Collateral][Manager] = balance[Collateral][Manager] + z
      /\ totalSupply'[Receipt] = totalSupply[Receipt]
  BY <1>1, Books, Accounts DEF mint, Minted
<1> HIDE DEF z
<1>3. Lent(Receipt)' = Lent(Receipt)
  BY <1>1 DEF Lent
<1>4. Lent(Receipt)' - totalSupply'[Receipt] = Lent(Receipt) - totalSupply[Receipt] + 0
  BY <1>2, <1>3, Books, Accounts
<1>5. Surplus \in Int /\ Surplus' = Surplus + Value(z, 0)
  BY <1>1, <1>2, <1>4, SurplusChange
<1>6. Value(z, 0) \in Nat
  BY <1>1, ValueNat
<1>7. QED BY <1>5, <1>6

LEMMA SeizureCovers ==
  ASSUME TypeOK, NEW t \in Token, NEW a \in Account, NEW n \in Nat,
         burn(t, a, n), UNCHANGED unit, t = Receipt \/ a # Manager
  PROVE  Surplus \in Int /\ Surplus' >= Surplus
<1> DEFINE y == IF t = Receipt THEN n ELSE 0
<1>1. UnitsOK /\ y \in Nat /\ Manager \in Account /\ UNCHANGED loan
  BY Books, Accounts DEF burn
<1>2. /\ balance'[Collateral][Manager] = balance[Collateral][Manager]
      /\ totalSupply'[Receipt] = totalSupply[Receipt] - y
  BY <1>1, Books, Accounts DEF burn, Burned
<1> HIDE DEF y
<1>3. Lent(Receipt)' = Lent(Receipt)
  BY <1>1 DEF Lent
<1>4. /\ Lent(Receipt)' - totalSupply'[Receipt] = Lent(Receipt) - totalSupply[Receipt] + y
      /\ balance'[Collateral][Manager] = balance[Collateral][Manager] + 0
  BY <1>1, <1>2, <1>3, Books, Accounts
<1>5. Surplus \in Int /\ Surplus' = Surplus + Value(0, y)
  BY <1>1, <1>4, SurplusChange
<1>6. Value(0, y) \in Nat
  BY <1>1, ValueNat
<1>7. QED BY <1>5, <1>6

LEMMA OfficerKeeps ==
  ASSUME IInv, OfficerCalls
  PROVE  /\ IInv' /\ loan = NoLoan /\ loan' = NoLoan
         /\ Surplus' < Surplus => Uncovers
<1>1. /\ TypeOK /\ loan = NoLoan /\ UNCHANGED unit /\ Amount \subseteq Nat
      /\ Manager \in Account
      /\ paused \subseteq Token /\ frozen \in [Token -> SUBSET (Account \cup {Zero})]
      /\ SupplyIsHeld(balance, totalSupply) /\ Surplus \in Int
  BY Accounts, Numbers DEF OfficerCalls, IInv, TypeOK, StablecoinTypeOK
<1>2. ASSUME NEW t \in Token, NEW a \in Account, NEW n \in Amount, mint(t, a, n)
      PROVE  /\ SupplyIsHeld(balance', totalSupply') /\ UNCHANGED <<paused, frozen, loan>>
             /\ Surplus' < Surplus => Uncovers
  <2>1. SupplyIsHeld(balance', totalSupply') /\ UNCHANGED <<paused, frozen, loan>>
    BY <1>1, <1>2, MintKeeps DEF mint, complianceVars
  <2>2. CASE t = Receipt
    BY <1>2, <2>1, <2>2 DEF Uncovers
  <2>3. CASE t = Collateral
    <3>1. n \in Nat
      BY <1>1
    <3>2. Surplus' >= Surplus
      BY <1>1, <1>2, <2>3, <3>1, MintCovers
    <3>3. Surplus' \in Int
      <4>1. Lent(Receipt)' \in Int /\ Lent(Receipt)' = 0
        BY <1>1, <2>1 DEF Lent
      <4>2. Value(balance'[Collateral][Manager], 0 - totalSupply'[Receipt]) \in Int
        BY <1>1, <2>1, NumbersOf
      <4>3. QED BY <1>1, <4>1, <4>2 DEF Surplus, Value
    <3>4. QED BY <1>1, <2>1, <3>2, <3>3
  <2>4. QED BY <2>2, <2>3, Accounts
<1>3. ASSUME NEW t \in Token, NEW a \in Account, NEW n \in Amount, seize(t, a, n)
      PROVE  /\ SupplyIsHeld(balance', totalSupply') /\ UNCHANGED <<paused, frozen, loan>>
             /\ Surplus' < Surplus => Uncovers
  <2>1. burn(t, a, n) /\ n \in Nat
    BY <1>1, <1>3 DEF seize
  <2>2. SupplyIsHeld(balance', totalSupply') /\ UNCHANGED <<paused, frozen, loan>>
    BY <1>1, <2>1, BurnKeeps DEF burn, complianceVars
  <2>3. CASE t = Receipt \/ a # Manager
    <3>1. Surplus' >= Surplus
      BY <1>1, <2>1, <2>3, SeizureCovers
    <3>2. Surplus' \in Int
      <4>1. Lent(Receipt)' \in Int /\ Lent(Receipt)' = 0
        BY <1>1, <2>2 DEF Lent
      <4>2. Value(balance'[Collateral][Manager], 0 - totalSupply'[Receipt]) \in Int
        BY <1>1, <2>2, NumbersOf
      <4>3. QED BY <1>1, <4>1, <4>2 DEF Surplus, Value
    <3>3. QED BY <1>1, <2>2, <3>1, <3>2
  <2>4. CASE t = Collateral /\ a = Manager
    BY <1>3, <2>2, <2>4 DEF Uncovers
  <2>5. QED BY <2>3, <2>4, Accounts
<1>4. ASSUME NEW a \in Account, NEW n \in Amount, migrateCollateral(a, n)
      PROVE  /\ SupplyIsHeld(balance', totalSupply') /\ UNCHANGED <<paused, frozen, loan>>
             /\ Surplus' < Surplus => Uncovers
  <2>1. transfer(Collateral, Manager, a, n) /\ n \in Nat /\ Collateral \in Token
    BY <1>1, <1>4, Accounts DEF migrateCollateral
  <2>2. SupplyIsHeld(balance', totalSupply') /\ UNCHANGED <<paused, frozen, loan>>
    BY <1>1, <2>1, TransferKeeps DEF transfer, complianceVars
  <2>3. QED BY <1>4, <2>2 DEF Uncovers
<1>5. ASSUME NEW t \in Token, pause(t) \/ unpause(t)
      PROVE  UNCHANGED <<bookVars, frozen, loan>> /\ paused' \subseteq Token
  BY <1>1, <1>5 DEF pause, unpause
<1>6. ASSUME NEW t \in Token, NEW a \in Account \cup {Zero}, freeze(t, a) \/ unfreeze(t, a)
      PROVE  /\ UNCHANGED <<bookVars, paused, loan>>
             /\ frozen' \in [Token -> SUBSET (Account \cup {Zero})]
  BY <1>1, <1>6 DEF freeze, unfreeze
<1>7. /\ SupplyIsHeld(balance', totalSupply') /\ UNCHANGED loan
      /\ paused' \subseteq Token /\ frozen' \in [Token -> SUBSET (Account \cup {Zero})]
      /\ Surplus' < Surplus => Uncovers
  <2>1. ASSUME UNCHANGED <<bookVars, loan>>
        PROVE  SupplyIsHeld(balance', totalSupply') /\ ~(Surplus' < Surplus)
    BY <1>1, <2>1, SurplusSame DEF bookVars
  <2>2. CASE \E t \in Token, a \in Account, n \in Amount : mint(t, a, n) \/ seize(t, a, n)
    BY <1>1, <1>2, <1>3, <2>2
  <2>3. CASE \E t \in Token : pause(t) \/ unpause(t)
    BY <1>1, <1>5, <2>1, <2>3
  <2>4. CASE \E t \in Token, a \in Account \cup {Zero} : freeze(t, a) \/ unfreeze(t, a)
    BY <1>1, <1>6, <2>1, <2>4
  <2>5. CASE \E a \in Account, n \in Amount : migrateCollateral(a, n)
    BY <1>1, <1>4, <2>5
  <2>6. QED BY <2>2, <2>3, <2>4, <2>5 DEF OfficerCalls
<1>8. TypeOK'
  BY <1>1, <1>7 DEF TypeOK, StablecoinTypeOK, SupplyIsHeld
<1>9. QED BY <1>1, <1>7, <1>8 DEF IInv, LoanOK

-----------------------------------------------------------------------------
(* The system *)

LEMMA NextKeeps == IInv /\ Next => IInv'
<1> SUFFICES ASSUME IInv, Next PROVE IInv'
  OBVIOUS
<1>1. ASSUME NEW u \in User, HolderCalls(u) PROVE IInv'
  BY <1>1, HolderKeeps
<1>2. CASE LoanCalls
  <2>1. CASE \E t \in Token, u \in User, n \in Amount : flashLoan(t, u, n)
    BY <1>2, <2>1, FlashLoanKeeps, Accounts DEF LoanCalls
  <2>2. CASE repay
    BY <1>2, <2>2, RepayKeeps DEF LoanCalls
  <2>3. CASE revert
    BY <1>2, <2>3, RevertKeeps DEF LoanCalls
  <2>4. QED BY <1>2, <2>1, <2>2, <2>3 DEF LoanCalls
<1>3. CASE OfficerCalls
  BY <1>3, OfficerKeeps
<1>4. QED BY <1>1, <1>2, <1>3 DEF Next

LEMMA StutterKeeps == IInv /\ UNCHANGED vars => IInv'
BY DEF IInv, TypeOK, StablecoinTypeOK, SupplyIsHeld, Loans, LoanOK, Surplus, Wealth, Value, Lent, vars, bookVars,
       complianceVars

(* Balances, supplies and the books a revert would restore fit and agree, for *)
(* every integer width: no unchecked addition to a balance wraps.             *)
THEOREM TokenBooksSound == Spec => []TypeOK
<1>1. IInv /\ [Next]_vars => IInv'
  BY NextKeeps, StutterKeeps
<1>2. IInv => TypeOK
  BY DEF IInv
<1>3. QED BY InitHolds, <1>1, <1>2, PTL DEF Spec

LEMMA SurplusInt ==
  ASSUME IInv'
  PROVE  Surplus' \in Int
<1>1. /\ SupplyIsHeld(balance, totalSupply)' /\ unit' \in [Token -> Units]
      /\ (loan # NoLoan => loan \in Loans)'
  BY DEF IInv, TypeOK, StablecoinTypeOK
<1>2. /\ balance' \in [Token -> [Account -> Uint]] /\ totalSupply' \in [Token -> Uint]
  BY <1>1 DEF SupplyIsHeld
<1>3. /\ unit'[Collateral] \in Int /\ unit'[Receipt] \in Int
      /\ balance'[Collateral][Manager] \in Int /\ totalSupply'[Receipt] \in Int
  <2>1. Collateral \in Token /\ Receipt \in Token /\ Manager \in Account /\ MaxUint \in Nat
    BY Accounts
  <2>2. unit'[Collateral] \in Units /\ unit'[Receipt] \in Units
    BY <1>1, <2>1
  <2>3. \A k \in Units : k \in Int
    BY ManagerAssumption
  <2>4. balance'[Collateral][Manager] \in Uint /\ totalSupply'[Receipt] \in Uint
    BY <1>2, <2>1
  <2>5. unit'[Collateral] \in Int /\ unit'[Receipt] \in Int
    BY <2>2, <2>3
  <2>6. balance'[Collateral][Manager] \in Int /\ totalSupply'[Receipt] \in Int
    BY <2>1, <2>4 DEF Uint
  <2>7. QED BY <2>5, <2>6
<1>4. Lent(Receipt)' \in Int
  BY <1>1 DEF Lent, Loans
<1>5. Lent(Receipt)' - totalSupply'[Receipt] \in Int
  BY <1>3, <1>4
<1>6. QED BY <1>3, <1>5 DEF Surplus, Value

LEMMA SurplusFalls ==
  ASSUME IInv, IInv', [Next]_vars, Surplus' < Surplus
  PROVE  IF loan = NoLoan THEN Uncovers ELSE revert
<1>1. TypeOK /\ Surplus \in Int /\ Surplus' \in Int
  BY Numbers, SurplusInt DEF IInv
<1>2. ASSUME NEW u \in User, HolderCalls(u) PROVE FALSE
  <2>1. Surplus' >= Surplus
    BY <1>1, <1>2, HoldersHarmless DEF Harmless
  <2>2. QED BY <1>1, <2>1
<1>3. CASE LoanCalls
  <2>1. CASE \E t \in Token, u \in User, n \in Amount : flashLoan(t, u, n)
    <3>1. Surplus' = Surplus
      BY <1>3, <2>1, FlashLoanKeeps, Accounts DEF LoanCalls
    <3>2. QED BY <1>1, <3>1
  <2>2. CASE repay
    <3>1. Surplus' = Surplus
      BY <1>3, <2>2, RepayKeeps DEF LoanCalls
    <3>2. QED BY <1>1, <3>1
  <2>3. CASE revert
    BY <2>3 DEF revert
  <2>4. QED BY <1>3, <2>1, <2>2, <2>3 DEF LoanCalls
<1>4. CASE OfficerCalls
  BY <1>4, OfficerKeeps
<1>5. CASE UNCHANGED vars
  <2>1. Surplus' = Surplus
    BY <1>1, <1>5, SurplusSame DEF vars
  <2>2. QED BY <1>1, <2>1
<1>6. QED BY <1>2, <1>3, <1>4, <1>5 DEF Next

(* Whatever holders do, flash loans included and in whatever order, receipts   *)
(* lose cover only to other minters, seizures and migrations.                  *)
THEOREM ReceiptsKeepCover == Spec => HoldersNeverUncover
<1>1. IInv /\ [Next]_vars => IInv'
  BY NextKeeps, StutterKeeps
<1>2. IInv /\ IInv' /\ [Next]_vars
        => [Surplus' < Surplus => IF loan = NoLoan THEN Uncovers ELSE revert]_vars
  BY SurplusFalls
<1>3. QED BY InitHolds, <1>1, <1>2, PTL DEF Spec, HoldersNeverUncover

(* For every two decimals, an issue or a redemption keeps less than one unit   *)
(* of the coarser token of what it is paid.                                    *)
THEOREM ConversionsKeepLittle == Spec => ConversionKeepsUnderAUnit
<1>1. IInv /\ [Next]_vars => IInv'
  BY NextKeeps, StutterKeeps
<1>2. ASSUME IInv, NEW u \in User, NEW to \in Account \ {Manager}, NEW n \in Amount,
             issue(u, to, n) \/ redeem(u, to, n)
      PROVE  \E t \in Token : Surplus' - Surplus < unit[t]
  <2>1. TypeOK /\ UnitsOK /\ n \in Nat /\ to \in Account /\ Surplus \in Int
    BY <1>2, Books, Accounts, Numbers DEF IInv
  <2>2. CASE issue(u, to, n)
    <3> DEFINE v == Value(n, -Converted(n, Collateral, Receipt))
    <3>1. Surplus' = Surplus + v /\ v \in Nat /\ \E t \in Token : v < unit[t]
      BY <2>1, <2>2, IssueHarmless, ConversionValue
    <3> HIDE DEF v
    <3>2. Surplus' - Surplus = v
      BY <2>1, <3>1
    <3>3. QED BY <3>1, <3>2
  <2>3. CASE redeem(u, to, n)
    <3> DEFINE v == Value(-Converted(n, Receipt, Collateral), n)
    <3>1. Surplus' = Surplus + v /\ v \in Nat /\ \E t \in Token : v < unit[t]
      BY <1>2, <2>1, <2>3, RedeemHarmless, ConversionValue
    <3> HIDE DEF v
    <3>2. Surplus' - Surplus = v
      BY <2>1, <3>1
    <3>3. QED BY <3>1, <3>2
  <2>4. QED BY <1>2, <2>2, <2>3
<1>3. IInv => [\A u \in User, to \in Account \ {Manager}, n \in Amount :
                 issue(u, to, n) \/ redeem(u, to, n) =>
                   \E t \in Token : Surplus' - Surplus < unit[t]]_vars
  BY <1>2
<1>4. QED BY InitHolds, <1>1, <1>3, PTL DEF Spec, ConversionKeepsUnderAUnit

LEMMA LoanEnds ==
  ASSUME IInv, [Next]_vars, loan # NoLoan, loan' = NoLoan
  PROVE  /\ totalSupply'[Collateral] <= loan.totalSupply[Collateral]
         /\ Surplus' >= Value(loan.balance[Collateral][Manager], -loan.totalSupply[Receipt])
         /\ Wealth(balance', loan.borrower) <= Wealth(loan.balance, loan.borrower)
<1>1. /\ TypeOK /\ LoanOK
      /\ Value(loan.balance[Collateral][Manager], -loan.totalSupply[Receipt]) \in Int
      /\ loan.totalSupply[Collateral] \in Int
      /\ Wealth(loan.balance, loan.borrower) \in Int
  BY LoanBooks DEF IInv
<1>2. CASE repay /\ UNCHANGED unit
  BY <1>1, <1>2, RepayKeeps DEF LoanOK
<1>3. CASE revert /\ UNCHANGED unit
  <2>1. /\ Surplus' = Value(loan.balance[Collateral][Manager], -loan.totalSupply[Receipt])
        /\ balance' = loan.balance /\ totalSupply' = loan.totalSupply
    BY <1>3, RevertKeeps DEF revert
  <2>2. QED BY <1>1, <2>1
<1>4. ASSUME NEW u \in User, HolderCalls(u) PROVE FALSE
  BY <1>1, <1>4, HoldersHarmless DEF Harmless
<1>5. ~OfficerCalls
  BY DEF OfficerCalls
<1>6. ~ \E t \in Token, u \in User, n \in Amount : flashLoan(t, u, n)
  BY DEF flashLoan
<1>7. ~UNCHANGED vars
  BY DEF vars
<1>8. QED BY <1>2, <1>3, <1>4, <1>5, <1>6, <1>7 DEF Next, LoanCalls

(* Whatever its borrower calls in between, a transaction with a flash loan     *)
(* leaves no more collateral, no less cover and no richer borrower.            *)
THEOREM LoansLeaveNoMark == Spec => LoanLeavesNoMark
<1>1. IInv /\ [Next]_vars => IInv'
  BY NextKeeps, StutterKeeps
<1>2. IInv /\ [Next]_vars =>
        [loan # NoLoan /\ loan' = NoLoan =>
          /\ totalSupply'[Collateral] <= loan.totalSupply[Collateral]
          /\ Surplus' >= Value(loan.balance[Collateral][Manager], -loan.totalSupply[Receipt])
          /\ Wealth(balance', loan.borrower) <= Wealth(loan.balance, loan.borrower)]_vars
  BY LoanEnds
<1>3. QED BY InitHolds, <1>1, <1>2, PTL DEF Spec, LoanLeavesNoMark

-----------------------------------------------------------------------------
(* The hook *)

Hooked ==
    \A t \in Token :
        /\ totalSupply'[t] > totalSupply[t] => mayMove(t, Zero)
        /\ \A a \in Account : balance'[t][a] < balance[t][a] => mayMove(t, a)

LEMMA MintHooked ==
  ASSUME TypeOK, NEW t \in Token, NEW to \in Account, NEW n \in Nat, MayMint(t, n),
         balance' = [balance EXCEPT ![t] = Minted(t, to, n)],
         totalSupply' = [totalSupply EXCEPT ![t] = @ + n]
  PROVE  Hooked
<1>1. mayMove(t, Zero)
  BY DEF MayMint
<1>2. \A r \in Token \ {t} : balance'[r] = balance[r] /\ totalSupply'[r] = totalSupply[r]
  BY Books
<1>3. \A a \in Account : ~(balance'[t][a] < balance[t][a])
  BY Books DEF Minted
<1>4. \A r \in Token, a \in Account : balance[r][a] \in Nat /\ totalSupply[r] \in Nat
  BY Books
<1>5. QED BY <1>1, <1>2, <1>3, <1>4, Accounts DEF Hooked

LEMMA BurnHooked ==
  ASSUME TypeOK, NEW t \in Token, NEW from \in Account, NEW n \in Nat, MayPay(t, from, n),
         balance' = [balance EXCEPT ![t] = Burned(t, from, n)],
         totalSupply' = [totalSupply EXCEPT ![t] = @ - n]
  PROVE  Hooked
<1>1. mayMove(t, from)
  BY DEF MayPay
<1>2. \A r \in Token \ {t} : balance'[r] = balance[r] /\ totalSupply'[r] = totalSupply[r]
  BY Books
<1>3. /\ \A a \in Account \ {from} : balance'[t][a] = balance[t][a]
      /\ totalSupply'[t] = totalSupply[t] - n
  BY Books DEF Burned
<1>4. \A r \in Token, a \in Account : balance[r][a] \in Nat /\ totalSupply[r] \in Nat
  BY Books
<1>5. QED BY <1>1, <1>2, <1>3, <1>4, Accounts DEF Hooked

LEMMA TransferHooked ==
  ASSUME TypeOK, NEW t \in Token, NEW from \in Account, NEW to \in Account, NEW n \in Nat,
         transfer(t, from, to, n)
  PROVE  Hooked
<1>1. mayMove(t, from) /\ totalSupply' = totalSupply
  BY DEF MayPay, transfer
<1>2. \A r \in Token \ {t} : balance'[r] = balance[r]
  BY Books DEF transfer
<1>3. \A a \in Account \ {from} : balance'[t][a] = balance[t][a] \/ balance'[t][a] = balance[t][a] + n
  BY Books DEF transfer, Moved, Burned
<1>4. \A r \in Token, a \in Account : balance[r][a] \in Nat /\ totalSupply[r] \in Nat
  BY Books
<1>5. QED BY <1>1, <1>2, <1>3, <1>4, Accounts DEF Hooked

LEMMA IssueHooked ==
  ASSUME TypeOK, NEW u \in User, NEW to \in Account, NEW n \in Nat, issue(u, to, n)
  PROVE  Hooked
<1> DEFINE r == Converted(n, Collateral, Receipt)
<1>1. mayMove(Collateral, u) /\ mayMove(Receipt, Zero) /\ u \in Account /\ r \in Nat
  BY Books, ConversionValue, Accounts DEF issue, MayPay, MayMint
<1>2. /\ balance'[Collateral] = Moved(Collateral, u, Manager, n)
      /\ balance'[Receipt] = Minted(Receipt, to, r)
      /\ totalSupply'[Collateral] = totalSupply[Collateral]
  BY Books, Accounts DEF issue
<1> HIDE DEF r
<1>3. \A r1 \in Token, a \in Account : balance[r1][a] \in Nat /\ totalSupply[r1] \in Nat
  BY Books
<1>4. /\ balance[Collateral] \in [Account -> Uint] /\ balance[Receipt] \in [Account -> Uint]
      /\ Manager \in Account
  BY Books, Accounts
<1>5. \A a \in Account \ {u} : /\ balance'[Collateral][a] \in Int
                                /\ balance'[Collateral][a] >= balance[Collateral][a]
  BY <1>1, <1>2, <1>3, <1>4, Accounts DEF Moved, Burned
<1>6. \A a \in Account : /\ balance'[Receipt][a] \in Int
                         /\ balance'[Receipt][a] >= balance[Receipt][a]
  BY <1>1, <1>2, <1>3, <1>4, Accounts DEF Minted
<1>7. QED BY <1>1, <1>2, <1>3, <1>5, <1>6, Accounts DEF Hooked

LEMMA RedeemHooked ==
  ASSUME TypeOK, NEW u \in User, NEW to \in Account, NEW n \in Nat, redeem(u, to, n)
  PROVE  Hooked
<1> DEFINE c == Converted(n, Receipt, Collateral)
<1>1. mayMove(Receipt, u) /\ mayMove(Collateral, Manager) /\ u \in Account /\ c \in Nat
  BY Books, ConversionValue, Accounts DEF redeem, MayPay
<1>2. /\ balance'[Collateral] = Moved(Collateral, Manager, to, c)
      /\ balance'[Receipt] = Burned(Receipt, u, n)
      /\ totalSupply'[Collateral] = totalSupply[Collateral]
      /\ totalSupply'[Receipt] = totalSupply[Receipt] - n
  BY Books, Accounts DEF redeem
<1> HIDE DEF c
<1>3. \A r \in Token, a \in Account : balance[r][a] \in Nat /\ totalSupply[r] \in Nat
  BY Books
<1>4. /\ balance[Collateral] \in [Account -> Uint] /\ balance[Receipt] \in [Account -> Uint]
      /\ Manager \in Account
  BY Books, Accounts
<1>5. \A a \in Account \ {Manager} : /\ balance'[Collateral][a] \in Int
                                      /\ balance'[Collateral][a] >= balance[Collateral][a]
  BY <1>1, <1>2, <1>3, <1>4, Accounts DEF Moved, Burned
<1>6. \A a \in Account \ {u} : balance'[Receipt][a] = balance[Receipt][a]
  BY <1>1, <1>2, <1>3, <1>4, Accounts DEF Burned
<1>7. QED BY <1>1, <1>2, <1>3, <1>5, <1>6, Accounts DEF Hooked

(* A frozen account keeps what it has, a paused token stays where it is and no *)
(* token is minted while paused or while its zero address is frozen, through   *)
(* every call of either contract, seizures included.                           *)
THEOREM FrozenStays == Spec => FrozenOrPausedStays
<1>1. IInv /\ [Next]_vars => IInv'
  BY NextKeeps, StutterKeeps
<1>2. ASSUME IInv, Next PROVE Hooked \/ (loan # NoLoan /\ revert)
  <2>1. TypeOK /\ Amount \subseteq Nat /\ User \subseteq Account /\ Token = {Collateral, Receipt}
        /\ Manager \in Account
    BY <1>2, Accounts DEF IInv
  <2>2. ASSUME NEW u \in User, HolderCalls(u) PROVE Hooked
    <3>1. PICK n \in Amount :
            \/ \E to \in Account : issue(u, to, n) \/ redeem(u, to, n)
            \/ \E t \in Token : burn(t, u, n)
            \/ \E t \in Token, to \in Account : transfer(t, u, to, n)
      BY <2>2 DEF HolderCalls
    <3>2. n \in Nat /\ u \in Account
      BY <2>1
    <3>3. ASSUME NEW t \in Token, burn(t, u, n) PROVE Hooked
      BY <2>1, <3>2, <3>3, BurnHooked DEF burn
    <3>4. QED BY <2>1, <3>1, <3>2, <3>3, IssueHooked, RedeemHooked, TransferHooked
  <2>3. ASSUME NEW t \in Token, NEW u \in User, NEW n \in Amount, flashLoan(t, u, n) PROVE Hooked
    BY <2>1, <2>3, MintHooked DEF flashLoan
  <2>4. CASE repay
    BY <2>1, <2>4, LoanBooks, BurnHooked DEF repay
  <2>5. CASE revert
    BY <2>5 DEF revert
  <2>6. ASSUME NEW t \in Token, NEW a \in Account, NEW n \in Amount, mint(t, a, n) PROVE Hooked
    BY <2>1, <2>6, MintHooked DEF mint
  <2>7. ASSUME NEW t \in Token, NEW a \in Account, NEW n \in Amount, seize(t, a, n) PROVE Hooked
    BY <2>1, <2>7, BurnHooked DEF seize, burn
  <2>8. ASSUME NEW a \in Account, NEW n \in Amount, migrateCollateral(a, n) PROVE Hooked
    BY <2>1, <2>8, TransferHooked DEF migrateCollateral
  <2>9. ASSUME UNCHANGED bookVars PROVE Hooked
    <3>1. \A t \in Token : /\ totalSupply[t] \in Nat
                           /\ \A a \in Account : balance[t][a] \in Nat
      BY <2>1, Books
    <3>2. QED BY <2>9, <3>1 DEF Hooked, bookVars
  <2>10. CASE OfficerCalls
    <3>1. ASSUME NEW t \in Token, pause(t) \/ unpause(t) PROVE UNCHANGED bookVars
      BY <3>1 DEF pause, unpause
    <3>2. ASSUME NEW t \in Token, NEW a \in Account \cup {Zero}, freeze(t, a) \/ unfreeze(t, a)
          PROVE  UNCHANGED bookVars
      BY <3>2 DEF freeze, unfreeze
    <3>3. QED BY <2>6, <2>7, <2>8, <2>9, <2>10, <3>1, <3>2 DEF OfficerCalls
  <2>11. QED BY <1>2, <2>2, <2>3, <2>4, <2>5, <2>10 DEF Next, LoanCalls
<1>3. IInv /\ [Next]_vars =>
        [ \/ loan # NoLoan /\ revert
          \/ \A t \in Token :
                /\ totalSupply'[t] > totalSupply[t] => mayMove(t, Zero)
                /\ \A a \in Account : balance'[t][a] < balance[t][a] => mayMove(t, a) ]_vars
  BY <1>2 DEF Hooked
<1>4. QED BY InitHolds, <1>1, <1>3, PTL DEF Spec, FrozenOrPausedStays
=============================================================================
