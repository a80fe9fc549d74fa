---------------------------- MODULE DLoopProofs -----------------------------
(* Theorems about DLoopVault, for any leverage, units, prices, limits and      *)
(* tolerances: the types, and that a call takes from the owners of shares no   *)
(* more than roundings of single units and the slippage its caller allowed.    *)
EXTENDS DLoopVault, ArithmeticTheorems

LEMMA Parameters ==
  /\ Bps \in Nat \ {0}
  /\ TARGET_LEVERAGE_BPS \in Nat /\ TARGET_LEVERAGE_BPS >= Bps
  /\ LtvBps \in Nat /\ LtvBps <= Bps
  /\ AssetUnit \in Nat \ {0} /\ DusdUnit \in Nat \ {0} /\ DusdPrice \in Nat \ {0}
  /\ Price \subseteq Nat \ {0}
  /\ BestSwapBps \in Nat
  /\ MaxSubsidyBps \subseteq Nat /\ SlippageTolerance \subseteq Nat /\ Amount \subseteq Nat
  /\ MinAssets \in Nat /\ MinShares \in Nat /\ MaxPosition \in Nat
  /\ IsFiniteSet(Owner)
BY VaultAssumption DEF VaultAssumption, Bps

(* Division of a value that may have become negative. *)
LEMMA IntDivDef ==
  ASSUME NEW a \in Int, NEW k \in Nat \ {0}
  PROVE  /\ a \div k \in Int
         /\ k * (a \div k) <= a
         /\ a < k * (a \div k) + k
OBVIOUS

LEMMA IntDivAtLeast ==
  ASSUME NEW a \in Int, NEW k \in Nat \ {0}, NEW q \in Int, k * q <= a
  PROVE  q <= a \div k
<1> DEFINE d == a \div k
<1>1. d \in Int /\ a < k * d + k
  BY IntDivDef
<1>2. SUFFICES ASSUME q >= d + 1 PROVE FALSE
  BY <1>1
<1> HIDE DEF d
<1>3. k * q >= k * (d + 1)
  BY <1>1, <1>2
<1>4. k * (d + 1) = k * d + k
  BY <1>1
<1>5. QED BY <1>1, <1>3, <1>4

LEMMA QuotientUp ==
  ASSUME NEW n \in Nat, NEW k \in Nat \ {0}
  PROVE  quotientUp(n, k) \in Nat /\ n <= k * quotientUp(n, k)
<1>1. n + k - 1 \in Nat
  OBVIOUS
<1> DEFINE d == (n + k - 1) \div k
<1>2. d \in Nat /\ n + k - 1 < k * d + k
  BY <1>1, DivDef
<1> HIDE DEF d
<1>3. k * d \in Nat
  BY <1>2
<1>4. d \in Nat /\ n <= k * d
  BY <1>2, <1>3
<1>5. QED BY <1>4 DEF quotientUp, d

(* A product with a positive number keeps the order, and gives it back. *)
LEMMA Cancels ==
  ASSUME NEW a \in Int, NEW b \in Int, NEW k \in Nat \ {0}, k * a <= k * b
  PROVE  a <= b
<1>1. SUFFICES ASSUME a >= b + 1 PROVE FALSE
  OBVIOUS
<1>2. k * a >= k * (b + 1)
  BY <1>1
<1>3. k * (b + 1) = k * b + k
  OBVIOUS
<1>4. k * a \in Int /\ k * b \in Int
  OBVIOUS
<1>5. QED BY <1>2, <1>3, <1>4

LEMMA Scales ==
  ASSUME NEW a \in Int, NEW b \in Int, NEW k \in Nat, a <= b
  PROVE  k * a <= k * b
OBVIOUS

-----------------------------------------------------------------------------
(* What a position is worth *)

\* Without rounding, times the units of the asset's value.
Scale(p)     == p * DusdUnit
Net(c, d, p) == c * Scale(p) - d * (DusdPrice * AssetUnit)

\* What totalAssets makes of it.
Base(c, d, p)   == (c * p) \div AssetUnit - (d * DusdPrice) \div DusdUnit
Equity(c, d, p) == (Base(c, d, p) * AssetUnit) \div p

LEMMA TotalAssetsIsEquity ==
  /\ totalAssets = Equity(collateral, debt, price)
  /\ totalAssets' = Equity(collateral', debt', price')
BY DEF totalAssets, maxWithdraw, totalCollateralBase, assetBase, dusdBase, Equity, Base

Rounded == (AssetUnit - 1) * DusdUnit + (DusdUnit - 1) * AssetUnit

(* The base currency's units hide less than one of each kind. *)
LEMMA BaseOfNet ==
  ASSUME NEW c \in Nat, NEW d \in Nat, NEW p \in Nat \ {0}
  PROVE  /\ Base(c, d, p) \in Int /\ Net(c, d, p) \in Int
         /\ DusdUnit * (Base(c, d, p) * AssetUnit) <= Net(c, d, p) + (DusdUnit - 1) * AssetUnit
         /\ Net(c, d, p) - (AssetUnit - 1) * DusdUnit <= DusdUnit * (Base(c, d, p) * AssetUnit)
<1> DEFINE x == c * p
           y == d * DusdPrice
           e == x \div AssetUnit
           f == y \div DusdUnit
           A == AssetUnit
           D == DusdUnit
<1>1. A \in Nat \ {0} /\ D \in Nat \ {0} /\ x \in Nat /\ y \in Nat
  BY Parameters
<1>2. e \in Nat /\ A * e <= x /\ x <= A * e + (A - 1)
  BY <1>1, DivDef
<1>3. f \in Nat /\ D * f <= y /\ y <= D * f + (D - 1)
  BY <1>1, DivDef
<1>4. Base(c, d, p) = e - f
  BY DEF Base
<1>5. Net(c, d, p) = x * D - y * A
  <2>1. c * (p * D) = (c * p) * D /\ d * (DusdPrice * A) = (d * DusdPrice) * A
    BY Parameters
  <2>2. QED BY <2>1 DEF Net, Scale
<1> HIDE DEF x, y, e, f, A, D
<1>6. /\ D * (A * e) <= D * x /\ D * x <= D * (A * e + (A - 1))
      /\ A * (D * f) <= A * y /\ A * y <= A * (D * f + (D - 1))
  BY <1>1, <1>2, <1>3, Scales
<1>7. /\ D * (A * e + (A - 1)) = D * (A * e) + (A - 1) * D
      /\ A * (D * f + (D - 1)) = A * (D * f) + (D - 1) * A
      /\ D * x = x * D /\ A * y = y * A
  BY <1>1, <1>2, <1>3
<1>8. D * ((e - f) * A) = D * (A * e) - A * (D * f)
  BY <1>1, <1>2, <1>3
<1>9. /\ D * (A * e) \in Int /\ A * (D * f) \in Int /\ x * D \in Int /\ y * A \in Int
      /\ (A - 1) * D \in Int /\ (D - 1) * A \in Int
  BY <1>1, <1>2, <1>3
<1>10. /\ D * ((e - f) * A) <= (x * D - y * A) + (D - 1) * A
       /\ (x * D - y * A) - (A - 1) * D <= D * ((e - f) * A)
  BY <1>6, <1>7, <1>8, <1>9
<1>11. e - f \in Int /\ x * D - y * A \in Int
  BY <1>2, <1>3, <1>9
<1>12. QED BY <1>4, <1>5, <1>10, <1>11 DEF A, D

(* A position that gains a in worth gains a in total assets, up to a loss s  *)
(* that makes up for the rounding.                                           *)
LEMMA EquityMoves ==
  ASSUME NEW c \in Nat, NEW d \in Nat, NEW c2 \in Nat, NEW d2 \in Nat,
         NEW p \in Nat \ {0}, NEW a \in Int, NEW s \in Int,
         Rounded <= Scale(p) * s,
         Net(c, d, p) + Scale(p) * a <= Net(c2, d2, p)
  PROVE  /\ Equity(c, d, p) \in Int /\ Equity(c2, d2, p) \in Int
         /\ Equity(c, d, p) + a - s <= Equity(c2, d2, p)
<1> DEFINE A == AssetUnit
           D == DusdUnit
           b == Base(c, d, p) * A
           b2 == Base(c2, d2, p) * A
           t == b \div p
           ra == (A - 1) * D
           rd == (D - 1) * A
           n == Net(c, d, p)
           n2 == Net(c2, d2, p)
           ps == Scale(p)
<1>1. /\ A \in Nat \ {0} /\ D \in Nat \ {0} /\ ra \in Int /\ rd \in Int
      /\ ps \in Nat \ {0}
  BY Parameters DEF Scale
<1>2. b \in Int /\ b2 \in Int /\ n \in Int /\ n2 \in Int
  <2>1. /\ Base(c, d, p) \in Int /\ Base(c2, d2, p) \in Int
        /\ n \in Int /\ n2 \in Int
    BY BaseOfNet
  <2>2. QED BY <1>1, <2>1
<1>3. D * b <= n + rd /\ n2 - ra <= D * b2
  BY BaseOfNet
<1>4. ra + rd <= ps * s
  BY DEF Rounded
<1>5. n + ps * a <= n2
  OBVIOUS
<1>6. t \in Int /\ p * t <= b
  BY <1>2, IntDivDef
<1>7. Equity(c, d, p) = t /\ Equity(c2, d2, p) = b2 \div p
  BY DEF Equity
<1>8. ps = p * D
  BY DEF Scale
<1> HIDE DEF A, D, b, b2, t, ra, rd, n, n2, ps
<1>9. D * (p * t) <= D * b
  <2>1. p * t \in Int
    BY <1>6
  <2>2. QED BY <1>1, <1>2, <1>6, <2>1, Scales
<1>10. D * (p * (t + a - s)) = D * (p * t) + ps * a - ps * s
  <2>1. p * (t + a - s) = p * t + p * a - p * s
    BY <1>6
  <2>2. D * (p * t + p * a - p * s) = D * (p * t) + D * (p * a) - D * (p * s)
    BY <1>1, <1>6
  <2>3. D * (p * a) = (p * D) * a /\ D * (p * s) = (p * D) * s
    BY <1>1
  <2>4. QED BY <2>1, <2>2, <2>3, <1>8
<1>11. /\ D * (p * t) \in Int /\ ps * a \in Int /\ ps * s \in Int /\ D * b \in Int
       /\ D * b2 \in Int
  BY <1>1, <1>2, <1>6
<1>12. D * (p * (t + a - s)) <= D * b2
  BY <1>1, <1>2, <1>3, <1>4, <1>5, <1>9, <1>10, <1>11
<1>13. p * (t + a - s) <= b2
  <2>1. p * (t + a - s) \in Int
    BY <1>6
  <2>2. QED BY <1>1, <1>2, <1>12, <2>1, Cancels
<1>14. t + a - s <= b2 \div p
  BY <1>2, <1>6, <1>13, IntDivAtLeast
<1>15. b2 \div p \in Int
  BY <1>2, IntDivDef
<1>16. QED BY <1>6, <1>7, <1>14, <1>15

-----------------------------------------------------------------------------
(* What a swap costs *)

\* What a deposit of n must buy to be leveraged.
Bought(n) == leveraged(n) - n

LEMMA BoughtIs ==
  ASSUME NEW n \in Nat
  PROVE  /\ leveraged(n) \in Nat /\ Bought(n) \in Nat
         /\ n * (TARGET_LEVERAGE_BPS - Bps) \in Nat
         /\ Bought(n) = (n * (TARGET_LEVERAGE_BPS - Bps)) \div Bps
<1> DEFINE x == TARGET_LEVERAGE_BPS - Bps
           y == n * x
<1>1. Bps \in Nat \ {0} /\ x \in Nat /\ TARGET_LEVERAGE_BPS = x + Bps
  BY Parameters
<1>2. y \in Nat /\ n * TARGET_LEVERAGE_BPS = y + Bps * n
  <2> HIDE DEF x
  <2>1. y \in Nat
    BY <1>1
  <2>2. n * (x + Bps) = n * x + Bps * n
    BY <1>1
  <2>3. QED BY <1>1, <2>1, <2>2
<1>3. y \div Bps \in Nat
  BY <1>1, <1>2, DivDef
<1>4. (y + Bps * n) \div Bps = y \div Bps + n
  BY <1>1, <1>2, DivOfMultiple
<1>5. leveraged(n) = y \div Bps + n
  BY <1>2, <1>4 DEF leveraged
<1> HIDE DEF y
<1>6. leveraged(n) \in Nat /\ Bought(n) = y \div Bps
  BY <1>3, <1>5 DEF Bought
<1>7. QED BY <1>2, <1>3, <1>6 DEF y

LEMMA BoughtGrows ==
  ASSUME NEW m \in Nat, NEW n \in Nat, m <= n
  PROVE  Bought(m) <= Bought(n)
<1> DEFINE x == TARGET_LEVERAGE_BPS - Bps
<1>1. x \in Nat /\ Bps \in Nat \ {0}
  BY Parameters
<1>2. /\ m * x \in Nat /\ Bought(m) = (m * x) \div Bps
      /\ n * x \in Nat /\ Bought(n) = (n * x) \div Bps
  BY BoughtIs
<1> HIDE DEF x
<1>3. m * x <= n * x
  BY <1>1
<1>4. QED BY <1>1, <1>2, <1>3, DivMonotone

(* A swap takes no more than its estimate and the tolerance on it. *)
LEMMA SwapBound ==
  ASSUME NEW n \in Nat, NEW tolerance \in Nat, NEW spent \in _swapExactOutput(n, tolerance)
  PROVE  spent \in Nat /\ Bps * spent <= n * (Bps + tolerance)
<1> DEFINE x == n * (Bps + tolerance)
           y == n * BestSwapBps
<1>1. Bps \in Nat \ {0} /\ BestSwapBps \in Nat
  BY Parameters
<1>2. x \in Nat /\ y \in Nat
  BY <1>1
<1>3. spent \in y \div Bps .. x \div Bps
  BY DEF _swapExactOutput, maxIn
<1> HIDE DEF x, y
<1>4. x \div Bps \in Nat /\ Bps * (x \div Bps) <= x /\ y \div Bps \in Nat
  BY <1>1, <1>2, DivDef
<1>5. spent \in Nat /\ spent <= x \div Bps
  BY <1>3, <1>4
<1>6. Bps * spent <= Bps * (x \div Bps)
  BY <1>1, <1>4, <1>5, Scales
<1>7. Bps * spent \in Nat /\ Bps * (x \div Bps) \in Nat
  BY <1>1, <1>4, <1>5
<1>8. Bps * spent <= x
  BY <1>2, <1>4, <1>6, <1>7
<1>9. QED BY <1>5, <1>8 DEF x

(* A deposit adds its assets, less the tolerance on what it buys. *)
LEMMA DepositNet ==
  ASSUME price \in Nat \ {0},
         NEW c \in Int, NEW d \in Int, NEW n \in Nat, NEW tolerance \in Nat,
         NEW spent \in _swapExactOutput(assetToDusd(Bought(n)), tolerance)
  PROVE  Bps * Net(c, d, price) + Scale(price) * (Bps * n - Bought(n) * tolerance)
           <= Bps * Net(c + leveraged(n), d + spent, price)
<1> DEFINE B == Bps
           K == DusdPrice * AssetUnit
           S == Scale(price)
           m == Bought(n)
           L == leveraged(n)
           e == assetToDusd(m)
<1>1. B \in Nat \ {0} /\ K \in Nat \ {0} /\ S \in Nat \ {0}
  BY Parameters DEF Scale
<1>2. m \in Nat /\ L \in Nat /\ L = n + m
  BY BoughtIs DEF Bought
<1>3. m * S \in Nat /\ e = (m * S) \div K
  <2>1. m * price * DusdUnit = m * (price * DusdUnit)
    BY <1>2, Parameters
  <2>2. m * S \in Nat
    BY <1>1, <1>2
  <2>3. QED BY <2>1, <2>2 DEF assetToDusd, Scale
<1>4. e \in Nat /\ K * e <= m * S
  BY <1>1, <1>3, DivDef
<1>5. spent \in Nat /\ B * spent <= e * (B + tolerance)
  BY <1>4, SwapBound
<1>6. Net(c + L, d + spent, price) = (c + L) * S - (d + spent) * K /\ Net(c, d, price) = c * S - d * K
  BY DEF Net
<1> HIDE DEF B, K, S, m, L, e
<1>7. K * (B * spent) <= K * (e * (B + tolerance))
  <2>1. B * spent \in Int /\ e * (B + tolerance) \in Int
    BY <1>1, <1>4, <1>5
  <2>2. QED BY <1>1, <1>5, <2>1, Scales
<1>8. (B + tolerance) * (K * e) <= (B + tolerance) * (m * S)
  <2>1. K * e \in Int /\ m * S \in Int /\ B + tolerance \in Nat
    BY <1>1, <1>2, <1>4
  <2>2. QED BY <1>4, <2>1, Scales
<1>9. K * (e * (B + tolerance)) = (B + tolerance) * (K * e)
  BY <1>1, <1>4
<1>10. K * (B * spent) = B * (spent * K)
  BY <1>1, <1>5
<1>11. (B + tolerance) * (m * S) = B * (m * S) + S * (m * tolerance)
  BY <1>1, <1>2
<1>12. B * (spent * K) <= B * (m * S) + S * (m * tolerance)
  <2>1. /\ K * (B * spent) \in Int /\ K * (e * (B + tolerance)) \in Int
        /\ (B + tolerance) * (m * S) \in Int
    BY <1>1, <1>2, <1>4, <1>5
  <2> QED BY <1>7, <1>8, <1>9, <1>10, <1>11, <2>1
<1>13. B * ((c + L) * S - (d + spent) * K) = B * (c * S - d * K) + B * (L * S) - B * (spent * K)
  BY <1>1, <1>2, <1>5
<1>14. B * (L * S) = B * (m * S) + S * (B * n)
  BY <1>1, <1>2
<1>15. S * (B * n - m * tolerance) = S * (B * n) - S * (m * tolerance)
  BY <1>1, <1>2
<1>16. /\ B * (c * S - d * K) \in Int /\ B * (spent * K) \in Int /\ B * (m * S) \in Int
       /\ S * (B * n) \in Int /\ S * (m * tolerance) \in Int
  BY <1>1, <1>2, <1>5
<1>17. B * (c * S - d * K) + S * (B * n - m * tolerance)
         <= B * ((c + L) * S - (d + spent) * K)
  BY <1>12, <1>13, <1>14, <1>15, <1>16
<1>18. QED BY <1>6, <1>17 DEF B, S, m, L

(* Repaying r and withdrawing w takes what is left of w after the swap, and  *)
(* the tolerance on the estimate.                                            *)
LEMMA RedeemNet ==
  ASSUME price \in Nat \ {0},
         NEW c \in Int, NEW d \in Int, NEW w \in Int, NEW r \in Nat, NEW tolerance \in Nat,
         NEW spent \in _swapExactOutput(dusdToAsset(r), tolerance)
  PROVE  Bps * Net(c, d, price) - Scale(price) * (Bps * (w - spent) + dusdToAsset(r) * tolerance)
           <= Bps * Net(c - w, d - r, price)
<1> DEFINE B == Bps
           K == DusdPrice * AssetUnit
           S == Scale(price)
           e == dusdToAsset(r)
<1>1. B \in Nat \ {0} /\ K \in Nat \ {0} /\ S \in Nat \ {0}
  BY Parameters DEF Scale
<1>2. r * K \in Nat /\ e = (r * K) \div S
  <2>1. r * DusdPrice * AssetUnit = r * (DusdPrice * AssetUnit)
    BY Parameters
  <2>2. r * K \in Nat
    BY <1>1
  <2>3. QED BY <2>1, <2>2 DEF dusdToAsset, Scale
<1>3. e \in Nat /\ S * e <= r * K
  BY <1>1, <1>2, DivDef
<1>4. spent \in Nat /\ B * spent <= e * (B + tolerance)
  BY <1>3, SwapBound
<1>5. Net(c - w, d - r, price) = (c - w) * S - (d - r) * K /\ Net(c, d, price) = c * S - d * K
  BY DEF Net
<1> HIDE DEF B, K, S, e
<1>6. S * (B * spent) <= S * (e * (B + tolerance))
  <2>1. B * spent \in Int /\ e * (B + tolerance) \in Int
    BY <1>1, <1>3, <1>4
  <2>2. QED BY <1>1, <1>4, <2>1, Scales
<1>7. B * (S * e) <= B * (r * K)
  <2>1. S * e \in Int /\ r * K \in Int
    BY <1>1, <1>3
  <2>2. QED BY <1>1, <1>3, <2>1, Scales
<1>8. S * (e * (B + tolerance)) = B * (S * e) + S * (e * tolerance)
  BY <1>1, <1>3
<1>9. S * (B * (w - spent) + e * tolerance) = S * (B * w) - S * (B * spent) + S * (e * tolerance)
  BY <1>1, <1>3, <1>4
<1>10. B * ((c - w) * S - (d - r) * K) = B * (c * S - d * K) - S * (B * w) + B * (r * K)
  BY <1>1
<1>11. /\ S * (B * spent) \in Int /\ S * (e * tolerance) \in Int /\ B * (S * e) \in Int
       /\ B * (r * K) \in Int /\ S * (B * w) \in Int /\ B * (c * S - d * K) \in Int
  BY <1>1, <1>3, <1>4
<1>12. B * (c * S - d * K) - S * (B * (w - spent) + e * tolerance)
         <= B * ((c - w) * S - (d - r) * K)
  BY <1>6, <1>7, <1>8, <1>9, <1>10, <1>11
<1>13. QED BY <1>5, <1>12 DEF B, S, e

-----------------------------------------------------------------------------
(* What a call does to the total assets *)

LEMMA StateTypes ==
  ASSUME TypeOK
  PROVE  /\ collateral \in Nat /\ debt \in Nat /\ price \in Nat \ {0}
         /\ \A u \in Owner : shares[u] \in Nat
         /\ supply \in Nat
<1>1. /\ collateral \in Nat /\ debt \in Nat /\ price \in Nat \ {0}
      /\ \A u \in Owner : shares[u] \in Nat
  BY Parameters DEF TypeOK
<1>2. supply \in Nat
  BY <1>1, Parameters, TotalNat DEF supply
<1>3. QED BY <1>1, <1>2

LEMMA BaseTypes ==
  ASSUME price \in Nat \ {0}, NEW n \in Nat
  PROVE  /\ assetBase(n) \in Nat /\ dusdBase(n) \in Nat
         /\ assetToDusd(n) \in Nat /\ dusdToAsset(n) \in Nat
<1>1. AssetUnit \in Nat \ {0} /\ DusdUnit \in Nat \ {0} /\ DusdPrice \in Nat \ {0}
  BY Parameters
<1>2. /\ n * price \in Nat /\ n * DusdPrice \in Nat
      /\ n * price * DusdUnit \in Nat /\ n * DusdPrice * AssetUnit \in Nat
      /\ DusdPrice * AssetUnit \in Nat \ {0} /\ price * DusdUnit \in Nat \ {0}
  BY <1>1
<1>3. QED
  BY <1>1, <1>2, DivDef DEF assetBase, dusdBase, assetToDusd, dusdToAsset

LEMMA SolventTypes ==
  ASSUME TypeOK, Solvent
  PROVE  /\ totalCollateralBase \in Nat /\ totalDebtBase \in Nat
         /\ totalAssets \in Nat /\ getCurrentLeverageBps \in Int
<1>1. totalCollateralBase \in Nat /\ totalDebtBase \in Nat
  BY StateTypes, BaseTypes DEF totalCollateralBase, totalDebtBase
<1>2. totalCollateralBase - totalDebtBase \in Nat
  BY <1>1 DEF Solvent
<1>3. (totalCollateralBase - totalDebtBase) * AssetUnit \in Nat
  BY <1>2, Parameters
<1>4. totalAssets \in Nat
  BY <1>3, StateTypes, DivDef DEF totalAssets, maxWithdraw, totalDebtBase
<1>5. getCurrentLeverageBps \in Int
  <2>1. CASE totalCollateralBase = 0
    BY <2>1 DEF getCurrentLeverageBps
  <2>2. CASE totalCollateralBase = totalDebtBase
    BY <2>2, Parameters DEF getCurrentLeverageBps, UPPER_BOUND_TARGET_LEVERAGE_BPS
  <2>3. CASE totalCollateralBase # 0 /\ totalCollateralBase # totalDebtBase
    <3>1. totalCollateralBase * Bps \in Nat
      BY <1>1, Parameters
    <3>2. totalCollateralBase - totalDebtBase \in Nat \ {0}
      BY <1>1, <1>2, <2>3
    <3>3. (totalCollateralBase * Bps) \div (totalCollateralBase - totalDebtBase) \in Nat
      BY <3>1, <3>2, DivDef
    <3>4. QED BY <2>3, <3>3 DEF getCurrentLeverageBps
  <2>4. QED BY <2>1, <2>2, <2>3
<1>6. QED BY <1>1, <1>4, <1>5

LEMMA ConversionTypes ==
  ASSUME TypeOK, Solvent, NEW n \in Nat
  PROVE  convertToAssets(n) \in Nat /\ convertToShares(n) \in Nat
<1>1. totalAssets + 1 \in Nat \ {0} /\ supply + 1 \in Nat \ {0}
  BY StateTypes, SolventTypes
<1>2. n * (totalAssets + 1) \in Nat /\ n * (supply + 1) \in Nat
  BY <1>1
<1>3. /\ (n * (totalAssets + 1)) \div (supply + 1) \in Nat
      /\ (n * (supply + 1)) \div (totalAssets + 1) \in Nat
  BY <1>1, <1>2, DivDef
<1>4. QED BY <1>3 DEF convertToAssets, convertToShares

LEMMA RedeemTypes ==
  ASSUME TypeOK, NEW n \in Nat, checkIsTooImbalanced
  PROVE  /\ repaid(n) \in Nat /\ repaid(n) <= debt
         /\ withdrawable(n) \in Int
<1>1. repaid(n) \in Nat /\ repaid(n) <= debt
  <2>1. dusdToRepay(n) \in Nat
    BY StateTypes, BoughtIs, BaseTypes DEF dusdToRepay, assetsToRemove
  <2>2. QED BY <2>1, StateTypes DEF repaid
<1>2. Solvent
  BY DEF checkIsTooImbalanced
<1>3. /\ totalAssets \in Nat /\ getCurrentLeverageBps \in Int /\ totalCollateralBase \in Nat
  BY <1>2, SolventTypes
<1>4. maxWithdraw(debt - repaid(n)) \in Int
  <2>1. dusdBase(debt - repaid(n)) \in Nat
    BY <1>1, StateTypes, BaseTypes
  <2>2. (totalCollateralBase - dusdBase(debt - repaid(n))) * AssetUnit \in Int
    BY <1>3, <2>1, Parameters
  <2>3. QED BY <2>2, StateTypes, IntDivDef DEF maxWithdraw
<1>5. ASSUME getCurrentLeverageBps <= Bps PROVE withdrawable(n) \in Int
  BY <1>5, StateTypes DEF withdrawable
<1>6. ASSUME ~(getCurrentLeverageBps <= Bps) PROVE withdrawable(n) \in Int
  <2> DEFINE difference == maxWithdraw(debt - repaid(n)) - totalAssets
             leverage   == getCurrentLeverageBps
  <2>1. difference * leverage \in Int /\ leverage - Bps \in Nat \ {0}
    BY <1>3, <1>4, <1>6, Parameters
  <2>2. (difference * leverage) \div (leverage - Bps) \in Int
    BY <2>1, IntDivDef
  <2>3. QED BY <1>6, <2>2 DEF withdrawable
<1>7. QED BY <1>1, <1>5, <1>6

LEMMA DustCovers ==
  ASSUME price \in Nat \ {0}
  PROVE  Dust \in Nat /\ Rounded <= Scale(price) * Dust
<1>1. Rounded \in Nat /\ Scale(price) \in Nat \ {0}
  <2>1. /\ (AssetUnit - 1) * DusdUnit \in Nat /\ (DusdUnit - 1) * AssetUnit \in Nat
        /\ price * DusdUnit \in Nat \ {0}
    BY Parameters
  <2>2. QED BY <2>1 DEF Rounded, Scale
<1>2. Dust = quotientUp(Rounded, Scale(price))
  BY DEF Dust, Rounded, Scale
<1>3. QED BY <1>1, <1>2, QuotientUp

(* A position that gains a, less the tolerance on what is swapped, gains as   *)
(* much in total assets, less the slippage and the dust.                      *)
LEMMA AssetsMove ==
  ASSUME price \in Nat \ {0},
         NEW c \in Nat, NEW d \in Nat, NEW c2 \in Nat, NEW d2 \in Nat, NEW a \in Int,
         NEW swapped \in Nat, NEW tolerance \in Nat,
         Bps * Net(c, d, price) + Scale(price) * (Bps * a - swapped * tolerance)
           <= Bps * Net(c2, d2, price)
  PROVE  /\ Dust \in Nat /\ slippage(swapped, tolerance) \in Nat
         /\ Equity(c, d, price) \in Int /\ Equity(c2, d2, price) \in Int
         /\ Equity(c, d, price) + a - Dust - slippage(swapped, tolerance)
              <= Equity(c2, d2, price)
<1> DEFINE B == Bps
           S == Scale(price)
           n == Net(c, d, price)
           n2 == Net(c2, d2, price)
           sl == slippage(swapped, tolerance)
           st == swapped * tolerance
<1>1. B \in Nat \ {0} /\ S \in Nat \ {0} /\ n \in Int /\ n2 \in Int
  BY Parameters, BaseOfNet DEF Scale
<1>2. st \in Nat
  OBVIOUS
<1>3. sl \in Nat /\ st <= B * sl
  BY <1>1, <1>2, QuotientUp DEF slippage
<1>4. B * n + S * (B * a - st) <= B * n2
  OBVIOUS
<1>5. Dust \in Nat /\ Rounded <= S * Dust
  BY DustCovers
<1> HIDE DEF B, S, n, n2, sl, st
<1>6. S * (B * (a - sl)) <= S * (B * a - st)
  <2>1. B * (a - sl) = B * a - B * sl /\ B * a \in Int /\ B * sl \in Int
    BY <1>1, <1>3
  <2>2. B * (a - sl) <= B * a - st
    BY <1>2, <1>3, <2>1
  <2>3. B * (a - sl) \in Int /\ B * a - st \in Int
    BY <1>2, <2>1
  <2>4. QED BY <1>1, <2>2, <2>3, Scales
<1>7. B * (n + S * (a - sl)) = B * n + S * (B * (a - sl))
  BY <1>1, <1>3
<1>8. /\ B * n \in Int /\ B * n2 \in Int
      /\ S * (B * (a - sl)) \in Int /\ S * (B * a - st) \in Int
      /\ n + S * (a - sl) \in Int
  BY <1>1, <1>2, <1>3
<1>9. B * (n + S * (a - sl)) <= B * n2
  BY <1>4, <1>6, <1>7, <1>8
<1>10. n + S * (a - sl) <= n2
  BY <1>1, <1>8, <1>9, Cancels
<1>11. /\ Net(c, d, price) + Scale(price) * (a - sl) <= Net(c2, d2, price)
       /\ Rounded <= Scale(price) * Dust
  BY <1>5, <1>10 DEF S, n, n2
<1>12. PICK gain \in Int : gain = a - sl
  BY <1>3
<1>13. /\ Equity(c, d, price) \in Int /\ Equity(c2, d2, price) \in Int
       /\ Equity(c, d, price) + gain - Dust <= Equity(c2, d2, price)
  <2>1. Net(c, d, price) + Scale(price) * gain <= Net(c2, d2, price)
    BY <1>11, <1>12
  <2>2. Dust \in Int /\ Rounded <= Scale(price) * Dust
    BY <1>5, <1>11
  <2> HIDE DEF S, sl
  <2>3. QED BY <2>1, <2>2, EquityMoves
<1>14. Equity(c, d, price) + a - Dust - sl <= Equity(c2, d2, price)
  BY <1>3, <1>5, <1>12, <1>13
<1>15. QED BY <1>3, <1>5, <1>13, <1>14 DEF sl

LEMMA DepositKeeps ==
  ASSUME TypeOK, price' = price, NEW n \in Nat, NEW tolerance \in Nat,
         depositToPool(collateral, debt, n, tolerance)
  PROVE  /\ Dust \in Nat /\ slippage(Bought(n), tolerance) \in Nat
         /\ totalAssets \in Int /\ totalAssets' \in Int
         /\ totalAssets + n - Dust - slippage(Bought(n), tolerance) <= totalAssets'
<1>1. collateral \in Nat /\ debt \in Nat /\ price \in Nat \ {0}
  BY StateTypes
<1>2. PICK spent \in _swapExactOutput(assetToDusd(Bought(n)), tolerance) :
         Borrow(collateral + leveraged(n), debt, spent)
  BY DEF depositToPool, Bought
<1>3. leveraged(n) \in Nat /\ Bought(n) \in Nat
  BY BoughtIs
<1>4. spent \in Nat
  <2>1. assetToDusd(Bought(n)) \in Nat
    BY <1>1, <1>3, BaseTypes
  <2>2. QED BY <2>1, SwapBound
<1>5. collateral' = collateral + leveraged(n) /\ debt' = debt + spent
  BY <1>2 DEF Borrow
<1>6. collateral' \in Nat /\ debt' \in Nat
  BY <1>1, <1>3, <1>4, <1>5
<1>7. Bps * Net(collateral, debt, price) + Scale(price) * (Bps * n - Bought(n) * tolerance)
        <= Bps * Net(collateral', debt', price)
  BY <1>1, <1>5, DepositNet
<1>8. /\ Dust \in Nat /\ slippage(Bought(n), tolerance) \in Nat
      /\ Equity(collateral, debt, price) \in Int /\ Equity(collateral', debt', price) \in Int
      /\ Equity(collateral, debt, price) + n - Dust - slippage(Bought(n), tolerance)
           <= Equity(collateral', debt', price)
  <2>1. PICK c \in Nat, d \in Nat, gain \in Int, swapped \in Nat :
            c = collateral' /\ d = debt' /\ gain = n /\ swapped = Bought(n)
    BY <1>3, <1>6
  <2>2. Bps * Net(collateral, debt, price) + Scale(price) * (Bps * gain - swapped * tolerance)
          <= Bps * Net(c, d, price)
    BY <1>7, <2>1
  <2>3. /\ Dust \in Nat /\ slippage(swapped, tolerance) \in Nat
        /\ Equity(collateral, debt, price) \in Int /\ Equity(c, d, price) \in Int
        /\ Equity(collateral, debt, price) + gain - Dust - slippage(swapped, tolerance)
             <= Equity(c, d, price)
    BY <1>1, <2>2, AssetsMove
  <2>4. QED BY <2>1, <2>3
<1>9. QED BY <1>8, TotalAssetsIsEquity

(* What a redemption swaps, and swaps again when it deposits what is left,   *)
(* is no more than what it withdrew, leveraged.                              *)
LEMMA SwappedBound ==
  ASSUME NEW w \in Nat, NEW e \in Nat, e <= w, NEW x \in Nat, x <= w,
         NEW tolerance \in Nat
  PROVE  /\ e * tolerance <= leveraged(w) * tolerance
         /\ e * tolerance + Bought(x) * tolerance <= leveraged(w) * tolerance
<1>1. Bought(x) \in Nat /\ Bought(w) \in Nat /\ leveraged(w) \in Nat
  BY BoughtIs
<1>2. Bought(x) <= Bought(w)
  BY BoughtGrows
<1>3. leveraged(w) = Bought(w) + w
  BY <1>1 DEF Bought
<1> DEFINE b == Bought(x)
           l == leveraged(w)
<1>4. b \in Nat /\ l \in Nat /\ e + b <= l
  BY <1>1, <1>2, <1>3
<1> HIDE DEF b, l
<1>5. tolerance * (e + b) <= tolerance * l
  BY <1>4
<1>6. tolerance * (e + b) = e * tolerance + b * tolerance /\ tolerance * l = l * tolerance
  BY <1>4
<1>7. b * tolerance \in Nat /\ e * tolerance \in Nat /\ l * tolerance \in Nat
  BY <1>4
<1>8. /\ e * tolerance <= l * tolerance
      /\ e * tolerance + b * tolerance <= l * tolerance
  BY <1>5, <1>6, <1>7
<1>9. QED BY <1>8 DEF b, l

(* A redemption that pays n, without or with a deposit of what is left.      *)
LEMMA RedeemNetMoves ==
  ASSUME NEW B \in Nat \ {0}, NEW S \in Nat \ {0},
         NEW before \in Int, NEW between \in Int, NEW after \in Int,
         NEW rest \in Int, NEW n \in Int, NEW x \in Int,
         NEW first \in Int, NEW second \in Int, NEW all \in Int,
         B * before - S * (B * rest + first) <= B * between,
         B * between + S * (B * x - second) <= B * after,
         rest - x <= n, first + second <= all
  PROVE  B * before + S * (B * (- n) - all) <= B * after
<1>1. B * (rest - x) <= B * n
  BY Scales
<1>2. B * (rest - x) = B * rest - B * x
  OBVIOUS
<1>3. B * (- n) = - (B * n) /\ B * n \in Int /\ B * rest \in Int /\ B * x \in Int
  OBVIOUS
<1> DEFINE m == B * (- n) - all
           k == (B * x - second) - (B * rest + first)
<1>4. m \in Int /\ k \in Int /\ m <= k
  BY <1>1, <1>2, <1>3
<1>5. S * k = S * (B * x - second) - S * (B * rest + first)
  BY <1>3
<1> HIDE DEF m, k
<1>6. S * m <= S * k
  BY <1>4, Scales
<1>7. /\ S * (B * x - second) \in Int /\ S * (B * rest + first) \in Int
      /\ S * m \in Int /\ B * before \in Int /\ B * between \in Int /\ B * after \in Int
  BY <1>3, <1>4
<1>8. B * before + S * m <= B * after
  BY <1>5, <1>6, <1>7
<1>9. QED BY <1>8 DEF m

LEMMA RedeemKeeps ==
  ASSUME TypeOK, price' = price, NEW u, NEW n, NEW assets \in Nat, NEW tolerance \in Nat,
         _redeem(u, n, assets, tolerance)
  PROVE  /\ withdrawable(assets) \in Nat
         /\ Dust \in Nat /\ slippage(leveraged(withdrawable(assets)), tolerance) \in Nat
         /\ totalAssets \in Int /\ totalAssets' \in Int
         /\ totalAssets - assets - Dust - slippage(leveraged(withdrawable(assets)), tolerance)
              <= totalAssets'
<1> DEFINE w == withdrawable(assets)
           r == repaid(assets)
           e == dusdToAsset(r)
           c == collateral - w
           d == debt - r
           S == Scale(price)
<1>1. collateral \in Nat /\ debt \in Nat /\ price \in Nat \ {0}
  BY StateTypes
<1>2. PICK rest \in 0 .. MaxPosition :
        /\ redeemToRest(u, n, assets, tolerance, rest)
        /\ \/ rest <= assets /\ collateral' = c /\ debt' = d
           \/ rest > assets /\ depositToPool(c, d, rest - assets, tolerance)
  BY DEF _redeem
<1>3. w \in Nat /\ w <= collateral /\ r \in Nat /\ r <= debt /\ e \in Nat /\ e <= w
  <2>1. checkIsTooImbalanced /\ w > 0 /\ w <= collateral /\ w >= e
    BY <1>2 DEF redeemToRest, redeemUpToWithdrawal
  <2>2. w \in Int /\ r \in Nat /\ r <= debt
    BY <2>1, RedeemTypes
  <2>3. e \in Nat
    BY <2>2, <1>1, BaseTypes
  <2>4. QED BY <2>1, <2>2, <2>3, <1>1
<1>4. PICK spent \in _swapExactOutput(e, tolerance) : rest = w - spent
  BY <1>2 DEF redeemToRest
<1>5. spent \in Nat /\ rest \in Nat /\ rest <= w
  <2>1. spent \in Nat
    BY <1>3, SwapBound
  <2>2. rest \in Nat
    BY <1>2
  <2>3. QED BY <1>3, <1>4, <2>1, <2>2
<1>6. c \in Nat /\ d \in Nat
  BY <1>1, <1>3
<1>7. Bps * Net(collateral, debt, price) - S * (Bps * rest + e * tolerance)
        <= Bps * Net(c, d, price)
  BY <1>1, <1>3, <1>4, RedeemNet
<1>8. Bps \in Nat \ {0} /\ S \in Nat \ {0}
  BY <1>1, Parameters DEF Scale
<1>9. Net(collateral, debt, price) \in Int /\ Net(c, d, price) \in Int
  BY <1>1, <1>6, BaseOfNet
<1>10. /\ leveraged(w) \in Nat /\ leveraged(w) * tolerance \in Nat /\ e * tolerance \in Nat
  <2>1. leveraged(w) \in Nat
    BY <1>3, BoughtIs
  <2>2. QED BY <2>1, <1>3
<1>11. /\ collateral' \in Nat /\ debt' \in Nat
       /\ Bps * Net(collateral, debt, price)
            + S * (Bps * (- assets) - leveraged(w) * tolerance)
            <= Bps * Net(collateral', debt', price)
  <2>1. CASE rest <= assets /\ collateral' = c /\ debt' = d
    <3>1. e * tolerance <= leveraged(w) * tolerance
      BY <1>3, SwappedBound
    <3>2. Bps * Net(c, d, price) + S * (Bps * 0 - 0) <= Bps * Net(c, d, price)
      BY <1>8, <1>9
    <3> HIDE DEF w, r, e, c, d, S
    <3>3. Bps * Net(collateral, debt, price)
            + S * (Bps * (- assets) - leveraged(w) * tolerance)
            <= Bps * Net(c, d, price)
      BY <1>5, <1>7, <1>8, <1>9, <1>10, <2>1, <3>1, <3>2, RedeemNetMoves
    <3>4. QED BY <1>6, <2>1, <3>3
  <2>2. CASE rest > assets /\ depositToPool(c, d, rest - assets, tolerance)
    <3> DEFINE x == rest - assets
    <3>1. x \in Nat /\ x <= w
      <4> HIDE DEF w
      <4>1. QED BY <1>3, <1>5, <2>2
    <3>2. PICK paid \in _swapExactOutput(assetToDusd(Bought(x)), tolerance) :
            Borrow(c + leveraged(x), d, paid)
      BY <2>2 DEF depositToPool, Bought
    <3>3. leveraged(x) \in Nat /\ Bought(x) \in Nat
      BY <3>1, BoughtIs
    <3>4. paid \in Nat
      <4>1. assetToDusd(Bought(x)) \in Nat
        BY <1>1, <3>3, BaseTypes
      <4>2. QED BY <4>1, SwapBound
    <3>5. collateral' = c + leveraged(x) /\ debt' = d + paid
      BY <3>2 DEF Borrow
    <3>6. collateral' \in Nat /\ debt' \in Nat
      BY <1>6, <3>3, <3>4, <3>5
    <3> HIDE DEF x
    <3>7. Bps * Net(c, d, price) + S * (Bps * x - Bought(x) * tolerance)
            <= Bps * Net(collateral', debt', price)
      BY <1>1, <1>6, <3>1, <3>5, DepositNet
    <3>8. e * tolerance + Bought(x) * tolerance <= leveraged(w) * tolerance
      BY <1>3, <3>1, SwappedBound
    <3>9. Net(collateral', debt', price) \in Int /\ Bought(x) * tolerance \in Int
      BY <1>1, <3>3, <3>6, BaseOfNet
    <3>10. rest - x <= assets
      BY <1>5 DEF x
    <3> HIDE DEF w, r, e, c, d, S
    <3>11. Bps * Net(collateral, debt, price)
             + S * (Bps * (- assets) - leveraged(w) * tolerance)
             <= Bps * Net(collateral', debt', price)
      BY <1>5, <1>7, <1>8, <1>9, <1>10, <3>1, <3>7, <3>8, <3>9, <3>10, RedeemNetMoves
    <3>12. QED BY <3>6, <3>11
  <2>3. QED BY <1>2, <2>1, <2>2
<1>12. PICK paid \in Int : paid = - assets
  OBVIOUS
<1>13. /\ Dust \in Nat /\ slippage(leveraged(w), tolerance) \in Nat
       /\ Equity(collateral, debt, price) \in Int /\ Equity(collateral', debt', price) \in Int
       /\ Equity(collateral, debt, price) + paid - Dust - slippage(leveraged(w), tolerance)
            <= Equity(collateral', debt', price)
  <2>1. Bps * Net(collateral, debt, price)
            + Scale(price) * (Bps * paid - leveraged(w) * tolerance)
            <= Bps * Net(collateral', debt', price)
    BY <1>11, <1>12
  <2> HIDE DEF w
  <2>2. QED BY <1>1, <1>10, <1>11, <2>1, AssetsMove
<1>14. /\ totalAssets = Equity(collateral, debt, price)
       /\ totalAssets' = Equity(collateral', debt', price)
  BY TotalAssetsIsEquity
<1>15. totalAssets - assets - Dust - slippage(leveraged(w), tolerance) <= totalAssets'
  BY <1>12, <1>13, <1>14
<1>16. QED BY <1>3, <1>13, <1>14, <1>15

-----------------------------------------------------------------------------
(* Types *)

\* A transfer keeps its receiver within the bound because all shares are.
IInv == TypeOK /\ supply <= MaxPosition

LEMMA SharesSet ==
  ASSUME TypeOK, NEW u \in Owner, NEW m \in Nat, shares' = [shares EXCEPT ![u] = m]
  PROVE  /\ shares' \in [Owner -> Nat]
         /\ supply' = supply - shares[u] + m
<1>1. shares \in [Owner -> Nat]
  BY Parameters DEF TypeOK
<1>2. /\ shares' \in [Owner -> Nat]
      /\ shares'[u] = m
      /\ \A w \in Owner \ {u} : shares[w] = shares'[w]
  BY <1>1
<1>3. Total(shares', Owner) = Total(shares, Owner) - shares[u] + shares'[u]
  <2>1. IsFiniteSet(Owner)
    BY Parameters
  <2>2. PICK after : after = shares'
    OBVIOUS
  <2>3. /\ \A w \in Owner : shares[w] \in Nat
        /\ \A w \in Owner : after[w] \in Nat
        /\ \A w \in Owner \ {u} : shares[w] = after[w]
    BY <1>1, <1>2, <2>2
  <2>4. Total(after, Owner) = Total(shares, Owner) - shares[u] + after[u]
    BY <2>1, <2>3, TotalChange
  <2>5. QED BY <2>2, <2>4
<1>4. QED BY <1>2, <1>3 DEF supply

LEMMA SharesWithin ==
  ASSUME shares' \in [Owner -> Nat], supply' <= MaxPosition
  PROVE  shares' \in [Owner -> 0 .. MaxPosition]
<1>1. ASSUME NEW u \in Owner PROVE shares'[u] \in 0 .. MaxPosition
  <2>1. shares'[u] <= supply' /\ supply' \in Nat
    BY Parameters, TotalBounds, TotalNat DEF supply
  <2>2. QED BY <2>1, Parameters
<1>2. QED BY <1>1

LEMMA InitIInv == Init => IInv
<1> SUFFICES ASSUME Init PROVE IInv
  OBVIOUS
<1>1. TypeOK
  BY Parameters DEF Init, TypeOK
<1>2. supply = 0
  BY TotalOfNothing DEF Init, supply
<1>3. QED BY <1>1, <1>2, Parameters DEF IInv

LEMMA BorrowTypes ==
  ASSUME NEW c, NEW d, NEW n, Borrow(c, d, n)
  PROVE  collateral' \in 0 .. MaxPosition /\ debt' \in 0 .. MaxPosition
BY DEF Borrow

LEMMA DepositTypes ==
  ASSUME NEW c, NEW d, NEW n, NEW tolerance, depositToPool(c, d, n, tolerance)
  PROVE  collateral' \in 0 .. MaxPosition /\ debt' \in 0 .. MaxPosition
BY BorrowTypes DEF depositToPool

(* Shares are issued up to the bound. *)
LEMMA DepositMoves ==
  ASSUME IInv, NEW u \in Owner, NEW n \in Nat, NEW assets, NEW tolerance,
         _deposit(u, assets, n, tolerance)
  PROVE  IInv' /\ supply' = supply + n
<1>1. TypeOK
  BY DEF IInv
<1>2. shares[u] \in Nat /\ supply \in Nat
  BY <1>1, StateTypes
<1>3. shares[u] + n \in Nat /\ shares' = [shares EXCEPT ![u] = shares[u] + n]
  BY <1>2 DEF _deposit
<1>4. shares' \in [Owner -> Nat] /\ supply' = supply - shares[u] + (shares[u] + n)
  BY <1>1, <1>3, SharesSet
<1>5. supply' = supply + n /\ supply' <= MaxPosition
  BY <1>2, <1>4 DEF _deposit
<1>6. shares' \in [Owner -> 0 .. MaxPosition]
  BY <1>4, <1>5, SharesWithin
<1>7. collateral' \in 0 .. MaxPosition /\ debt' \in 0 .. MaxPosition
  BY DepositTypes DEF _deposit
<1>8. QED BY <1>1, <1>5, <1>6, <1>7 DEF IInv, TypeOK, _deposit

LEMMA RedeemMoves ==
  ASSUME IInv, NEW u \in Owner, NEW n \in Nat, NEW assets \in Nat, NEW tolerance,
         _redeem(u, n, assets, tolerance)
  PROVE  IInv' /\ supply' = supply - n
<1>1. TypeOK
  BY DEF IInv
<1>2. shares[u] \in Nat /\ supply \in Nat /\ collateral \in Nat /\ debt \in Nat
  BY <1>1, StateTypes
<1>3. shares[u] - n \in Nat /\ shares' = [shares EXCEPT ![u] = shares[u] - n]
  BY <1>2 DEF _redeem
<1>4. shares' \in [Owner -> Nat] /\ supply' = supply - shares[u] + (shares[u] - n)
  <2>1. PICK m \in Nat : m = shares[u] - n
    BY <1>3
  <2>2. shares' \in [Owner -> Nat] /\ supply' = supply - shares[u] + m
    BY <1>1, <1>3, <2>1, SharesSet
  <2>3. QED BY <2>1, <2>2
<1>5. supply' = supply - n /\ supply' <= MaxPosition
  BY <1>2, <1>4, Parameters DEF IInv
<1>6. shares' \in [Owner -> 0 .. MaxPosition]
  BY <1>4, <1>5, SharesWithin
<1>7. collateral' \in 0 .. MaxPosition /\ debt' \in 0 .. MaxPosition
  <2> DEFINE w == withdrawable(assets)
             r == repaid(assets)
  <2>1. PICK rest \in 0 .. MaxPosition :
          /\ redeemToRest(u, n, assets, tolerance, rest)
          /\ \/ collateral' = collateral - w /\ debt' = debt - r
             \/ depositToPool(collateral - w, debt - r, rest - assets, tolerance)
    BY DEF _redeem
  <2>2. checkIsTooImbalanced /\ w > 0 /\ w <= collateral
    BY <2>1 DEF redeemToRest, redeemUpToWithdrawal
  <2>3. w \in Int /\ r \in Nat /\ r <= debt
    BY <1>1, <2>2, RedeemTypes
  <2>4. collateral \in 0 .. MaxPosition /\ debt \in 0 .. MaxPosition
    BY <1>1 DEF TypeOK
  <2> HIDE DEF w, r
  <2>5. CASE collateral' = collateral - w /\ debt' = debt - r
    BY <2>2, <2>3, <2>4, <2>5, Parameters
  <2>6. CASE depositToPool(collateral - w, debt - r, rest - assets, tolerance)
    BY <2>6, DepositTypes
  <2>7. QED BY <2>1, <2>5, <2>6
<1>8. QED BY <1>1, <1>5, <1>6, <1>7 DEF IInv, TypeOK, _redeem

LEMMA UserIInv == IInv /\ User => IInv'
<1> SUFFICES ASSUME IInv, User PROVE IInv'
  OBVIOUS
<1>1. PICK u \in Owner, n \in Amount, tolerance \in SlippageTolerance :
        \/ deposit(u, n, tolerance)
        \/ mint(u, n, tolerance)
        \/ redeem(u, n, tolerance)
        \/ withdraw(u, n, tolerance)
        \/ redeemReverts(u, n, tolerance)
  BY DEF User, UserTolerating
<1>2. n \in Nat /\ TypeOK
  BY Parameters DEF IInv
<1>3. CASE deposit(u, n, tolerance)
  BY <1>2, <1>3, ConversionTypes, DepositMoves DEF deposit
<1>4. CASE mint(u, n, tolerance)
  BY <1>2, <1>4, DepositMoves DEF mint
<1>5. CASE redeem(u, n, tolerance)
  BY <1>2, <1>5, ConversionTypes, RedeemMoves DEF redeem
<1>6. CASE withdraw(u, n, tolerance)
  BY <1>2, <1>6, ConversionTypes, RedeemMoves DEF withdraw
<1>7. CASE redeemReverts(u, n, tolerance)
  <2>1. /\ UNCHANGED <<collateral, debt, price, shares, maxSubsidy>>
        /\ outcome' \in Errors
    BY <1>7 DEF redeemReverts, _redeemReverts, position, Errors
  <2>2. QED BY <2>1 DEF IInv, TypeOK, supply
<1>8. QED BY <1>1, <1>3, <1>4, <1>5, <1>6, <1>7

(* Steps that leave the shares alone. *)
LEMMA SharesKept ==
  ASSUME IInv, UNCHANGED shares, price' \in Price, maxSubsidy' \in MaxSubsidyBps,
         outcome' = "none", collateral' \in 0 .. MaxPosition, debt' \in 0 .. MaxPosition
  PROVE  IInv'
BY DEF IInv, TypeOK, supply

LEMMA RebalancerIInv == IInv /\ Rebalancer => IInv'
<1> SUFFICES ASSUME IInv, NEW n \in Amount, increaseLeverage(n) \/ decreaseLeverage(n)
             PROVE  IInv'
  BY DEF Rebalancer
<1>1. /\ collateral \in 0 .. MaxPosition /\ debt \in 0 .. MaxPosition
      /\ price \in Price /\ maxSubsidy \in MaxSubsidyBps /\ n \in Nat
  BY Parameters DEF IInv, TypeOK
<1>2. CASE increaseLeverage(n)
  <2>1. collateral' \in 0 .. MaxPosition /\ debt' \in 0 .. MaxPosition
    BY <1>2, BorrowTypes DEF increaseLeverage
  <2>2. outcome' = "none" /\ UNCHANGED <<price, shares, maxSubsidy>>
    BY <1>2 DEF increaseLeverage
  <2>3. QED BY <1>1, <2>1, <2>2, SharesKept
<1>3. CASE decreaseLeverage(n)
  <2>1. PICK assets \in 1 .. collateral :
          /\ collateral' = collateral - assets
          /\ debt' = IF n < debt THEN debt - n ELSE 0
    BY <1>3 DEF decreaseLeverage
  <2>2. collateral' \in 0 .. MaxPosition /\ debt' \in 0 .. MaxPosition
    BY <1>1, <2>1, Parameters
  <2>3. outcome' = "none" /\ UNCHANGED <<price, shares, maxSubsidy>>
    BY <1>3 DEF decreaseLeverage
  <2>4. QED BY <1>1, <2>2, <2>3, SharesKept
<1>4. QED BY <1>2, <1>3

LEMMA OwnerIInv == IInv /\ VaultOwner => IInv'
<1> SUFFICES ASSUME IInv, VaultOwner PROVE IInv'
  OBVIOUS
<1>1. /\ collateral \in 0 .. MaxPosition /\ debt \in 0 .. MaxPosition
      /\ price \in Price /\ maxSubsidy \in MaxSubsidyBps
  BY DEF IInv, TypeOK
<1>2. CASE rescueToken
  BY <1>1, <1>2, Parameters, SharesKept DEF rescueToken
<1>3. ASSUME NEW bps \in MaxSubsidyBps, setMaxSubsidyBps(bps) PROVE IInv'
  BY <1>1, <1>3, SharesKept DEF setMaxSubsidyBps, position
<1>4. QED BY <1>2, <1>3 DEF VaultOwner

LEMMA TransferIInv ==
  ASSUME IInv, NEW u \in Owner, NEW w \in Owner, NEW n \in Amount, transfer(u, w, n)
  PROVE  IInv'
<1>1. TypeOK /\ shares \in [Owner -> Nat] /\ n \in Nat /\ supply \in Nat
  BY Parameters, StateTypes DEF IInv, TypeOK
<1>2. /\ u # w /\ shares[u] >= n
      /\ shares' = [shares EXCEPT ![u] = shares[u] - n, ![w] = shares[w] + n]
      /\ UNCHANGED <<collateral, debt, price, maxSubsidy>> /\ outcome' = "none"
  BY <1>1 DEF transfer, position
<1> DEFINE paid == [shares EXCEPT ![u] = shares[u] - n]
<1>3. /\ paid \in [Owner -> Nat] /\ paid[u] = shares[u] - n /\ paid[w] = shares[w]
      /\ \A y \in Owner \ {u} : shares[y] = paid[y]
  BY <1>1, <1>2
<1>4. /\ shares' \in [Owner -> Nat] /\ shares'[w] = shares[w] + n
      /\ \A y \in Owner \ {w} : paid[y] = shares'[y]
  BY <1>1, <1>2
<1> HIDE DEF paid
<1>5. Total(paid, Owner) = Total(shares, Owner) - shares[u] + paid[u]
  BY <1>1, <1>3, Parameters, TotalChange
<1>6. Total(shares', Owner) = Total(paid, Owner) - paid[w] + shares'[w]
  BY <1>3, <1>4, Parameters, TotalChange
<1>7. supply' = supply
  <2>1. /\ shares[u] \in Nat /\ shares[w] \in Nat /\ Total(shares, Owner) \in Nat
    BY <1>1 DEF supply
  <2>2. QED BY <1>1, <1>3, <1>4, <1>5, <1>6, <2>1 DEF supply
<1>8. supply' <= MaxPosition
  BY <1>7 DEF IInv
<1>9. shares' \in [Owner -> 0 .. MaxPosition]
  BY <1>4, <1>8, SharesWithin
<1>10. QED BY <1>2, <1>8, <1>9 DEF IInv, TypeOK

LEMMA EnvironmentIInv == IInv /\ Environment => IInv'
<1> SUFFICES ASSUME IInv, Environment PROVE IInv'
  OBVIOUS
<1>1. /\ collateral \in 0 .. MaxPosition /\ debt \in 0 .. MaxPosition
      /\ price \in Price /\ maxSubsidy \in MaxSubsidyBps
  BY DEF IInv, TypeOK
<1>2. ASSUME NEW c, NEW d, movePosition(c, d) PROVE IInv'
  BY <1>1, <1>2, SharesKept DEF movePosition
<1>3. ASSUME NEW p \in Price, setPrice(p) PROVE IInv'
  BY <1>1, <1>3, SharesKept DEF setPrice, position
<1>4. ASSUME NEW n \in Amount, collateralGrows(n) \/ debtGrows(n) \/ debtRepaid(n)
      PROVE  IInv'
  BY <1>2, <1>4 DEF collateralGrows, debtGrows, debtRepaid
<1>5. ASSUME NEW c \in Amount, NEW d \in Amount, liquidate(c, d) PROVE IInv'
  BY <1>2, <1>5 DEF liquidate
<1>6. QED BY <1>3, <1>4, <1>5, TransferIInv DEF Environment

LEMMA NextIInv == IInv /\ [Next]_vars => IInv'
<1>1. IInv /\ UNCHANGED vars => IInv'
  BY DEF IInv, TypeOK, supply, vars
<1>2. QED
  BY <1>1, UserIInv, RebalancerIInv, OwnerIInv, EnvironmentIInv DEF Next

(* The vault's position, debt and shares stay natural numbers within their   *)
(* bounds: above all, no redemption withdraws more than there is.            *)
THEOREM VaultTypes == Spec => []TypeOK
<1>1. IInv => TypeOK
  BY DEF IInv
<1>2. QED BY <1>1, InitIInv, NextIInv, PTL DEF Spec

LEMMA Inductive == Spec => []IInv
BY InitIInv, NextIInv, PTL DEF Spec

-----------------------------------------------------------------------------
(* The value of the shares *)

(* Shares issued (or burnt) for a gain (or loss) of assets. *)
LEMMA LossIs ==
  ASSUME NEW T \in Int, NEW S \in Int, NEW T2 \in Int, NEW S2 \in Int,
         NEW a \in Int, NEW n \in Int, NEW k \in Int,
         0 <= S, S2 = S + n, T + a - k <= T2
  PROVE  (T + 1) * (S2 + 1) - (T2 + 1) * (S + 1)
           <= n * (T + 1) - a * (S + 1) + k * (S + 1)
<1>1. (S + 1) * (T + a - k + 1) <= (S + 1) * (T2 + 1)
  <2>1. S + 1 \in Nat /\ T + a - k + 1 \in Int /\ T2 + 1 \in Int /\ T + a - k + 1 <= T2 + 1
    OBVIOUS
  <2>2. QED BY <2>1, Scales
<1>2. (S + 1) * (T + a - k + 1) = (T + 1) * (S + 1) + a * (S + 1) - k * (S + 1)
  OBVIOUS
<1>3. (T + 1) * (S2 + 1) = (T + 1) * (S + 1) + n * (T + 1)
  OBVIOUS
<1>4. (S + 1) * (T2 + 1) = (T2 + 1) * (S + 1)
  OBVIOUS
<1>5. /\ (T + 1) * (S + 1) \in Int /\ a * (S + 1) \in Int /\ k * (S + 1) \in Int
      /\ n * (T + 1) \in Int /\ (T2 + 1) * (S + 1) \in Int
  OBVIOUS
<1>6. QED BY <1>1, <1>2, <1>3, <1>4, <1>5

(* What n units are worth when t of one kind stand for s of the other.       *)
LEMMA Converted ==
  ASSUME NEW n \in Nat, NEW s \in Nat, NEW t \in Nat
  PROVE  LET m == (n * (s + 1)) \div (t + 1)
         IN  /\ m \in Nat
             /\ m * (t + 1) <= n * (s + 1)
             /\ n * (s + 1) < m * (t + 1) + t + 1
<1> DEFINE x == n * (s + 1)
           m == x \div (t + 1)
<1>1. x \in Nat /\ t + 1 \in Nat \ {0}
  OBVIOUS
<1>2. m \in Nat /\ (t + 1) * m <= x /\ x < (t + 1) * m + (t + 1)
  BY <1>1, DivDef
<1> HIDE DEF x, m
<1>3. (t + 1) * m = m * (t + 1)
  BY <1>2
<1>4. m \in Nat /\ m * (t + 1) <= x /\ x < m * (t + 1) + t + 1
  <2>1. m * (t + 1) \in Nat
    BY <1>2
  <2>2. QED BY <1>1, <1>2, <1>3, <2>1
<1>5. QED BY <1>4 DEF x, m

Loss == (totalAssets + 1) * (supply' + 1) - (totalAssets' + 1) * (supply + 1)

Borne(swapped, tolerance) == (Dust + slippage(swapped, tolerance)) * (supply + 1)

LEMMA DepositLoss ==
  ASSUME IInv, supply > 0, NEW u \in Owner, NEW n \in Nat, NEW tolerance \in Nat,
         deposit(u, n, tolerance)
  PROVE  Loss <= Borne(Bought(n), tolerance)
<1> DEFINE T == totalAssets
           T2 == totalAssets'
           S == supply
           S2 == supply'
           m == convertToShares(n)
           k == Dust + slippage(Bought(n), tolerance)
<1>1. TypeOK /\ Solvent
  BY DEF IInv, deposit
<1>2. T \in Nat /\ S \in Nat
  BY <1>1, StateTypes, SolventTypes
<1>3. m \in Nat /\ m * (T + 1) <= n * (S + 1)
  <2>1. m = (n * (S + 1)) \div (T + 1)
    BY DEF convertToShares
  <2> HIDE DEF T, S, m
  <2>2. QED BY <1>2, <2>1, Converted
<1>4. price' = price /\ depositToPool(collateral, debt, n, tolerance)
  BY DEF deposit, _deposit
<1>5. k \in Nat /\ T2 \in Int /\ T + n - k <= T2
  <2>1. /\ Dust \in Nat /\ slippage(Bought(n), tolerance) \in Nat /\ T \in Int /\ T2 \in Int
        /\ T + n - Dust - slippage(Bought(n), tolerance) <= T2
    BY <1>1, <1>4, DepositKeeps
  <2> HIDE DEF T, T2
  <2>2. QED BY <2>1
<1>6. S2 = S + m
  BY <1>3, DepositMoves DEF deposit
<1> HIDE DEF T, T2, S, S2, m, k
<1>7. (T + 1) * (S2 + 1) - (T2 + 1) * (S + 1) <= m * (T + 1) - n * (S + 1) + k * (S + 1)
  <2>1. S2 \in Int /\ 0 <= S
    BY <1>2, <1>3, <1>6
  <2>2. QED BY <1>2, <1>3, <1>5, <1>6, <2>1, LossIs
<1>8. /\ m * (T + 1) \in Int /\ n * (S + 1) \in Int /\ k * (S + 1) \in Int
      /\ (T + 1) * (S2 + 1) \in Int /\ (T2 + 1) * (S + 1) \in Int
  BY <1>2, <1>3, <1>5, <1>6
<1>9. (T + 1) * (S2 + 1) - (T2 + 1) * (S + 1) <= k * (S + 1)
  BY <1>3, <1>7, <1>8
<1>10. QED BY <1>9 DEF T, T2, S, S2, k, Loss, Borne

LEMMA MintLoss ==
  ASSUME IInv, supply > 0, NEW u \in Owner, NEW n \in Nat, NEW tolerance \in Nat,
         mint(u, n, tolerance)
  PROVE  Loss < Borne(Bought(convertToAssets(n)), tolerance) + supply + 1
<1> DEFINE T == totalAssets
           T2 == totalAssets'
           S == supply
           S2 == supply'
           m == convertToAssets(n)
           k == Dust + slippage(Bought(m), tolerance)
<1>1. TypeOK /\ Solvent
  BY DEF IInv, mint
<1>2. T \in Nat /\ S \in Nat
  BY <1>1, StateTypes, SolventTypes
<1>3. m \in Nat /\ n * (T + 1) < m * (S + 1) + S + 1
  <2>1. m = (n * (T + 1)) \div (S + 1)
    BY DEF convertToAssets
  <2> HIDE DEF T, S, m
  <2>2. QED BY <1>2, <2>1, Converted
<1>4. price' = price /\ depositToPool(collateral, debt, m, tolerance)
  BY DEF mint, _deposit
<1>5. k \in Nat /\ T2 \in Int /\ T + m - k <= T2
  <2>1. /\ Dust \in Nat /\ slippage(Bought(m), tolerance) \in Nat /\ T \in Int /\ T2 \in Int
        /\ T + m - Dust - slippage(Bought(m), tolerance) <= T2
    BY <1>1, <1>3, <1>4, DepositKeeps
  <2> HIDE DEF T, T2, m
  <2>2. QED BY <1>3, <2>1
<1>6. S2 = S + n
  BY DepositMoves DEF mint
<1> HIDE DEF T, T2, S, S2, m, k
<1>7. (T + 1) * (S2 + 1) - (T2 + 1) * (S + 1) <= n * (T + 1) - m * (S + 1) + k * (S + 1)
  <2>1. S2 \in Int /\ 0 <= S
    BY <1>2, <1>6
  <2>2. QED BY <1>2, <1>3, <1>5, <1>6, <2>1, LossIs
<1>8. /\ n * (T + 1) \in Int /\ m * (S + 1) \in Int /\ k * (S + 1) \in Int
      /\ (T + 1) * (S2 + 1) \in Int /\ (T2 + 1) * (S + 1) \in Int
  BY <1>2, <1>3, <1>5, <1>6
<1>9. (T + 1) * (S2 + 1) - (T2 + 1) * (S + 1) < k * (S + 1) + S + 1
  BY <1>2, <1>3, <1>7, <1>8
<1>10. QED BY <1>9 DEF T, T2, S, S2, k, m, Loss, Borne

LEMMA RedeemLoss ==
  ASSUME IInv, supply > 0, NEW u \in Owner, NEW n \in Nat, NEW tolerance \in Nat,
         redeem(u, n, tolerance)
  PROVE  Loss <= Borne(leveraged(withdrawable(convertToAssets(n))), tolerance)
<1> DEFINE T == totalAssets
           T2 == totalAssets'
           S == supply
           S2 == supply'
           m == convertToAssets(n)
           moved == leveraged(withdrawable(m))
           k == Dust + slippage(moved, tolerance)
<1>1. TypeOK /\ Solvent
  BY DEF IInv, redeem
<1>2. T \in Nat /\ S \in Nat
  BY <1>1, StateTypes, SolventTypes
<1>3. m \in Nat /\ m * (S + 1) <= n * (T + 1)
  <2>1. m = (n * (T + 1)) \div (S + 1)
    BY DEF convertToAssets
  <2> HIDE DEF T, S, m
  <2>2. QED BY <1>2, <2>1, Converted
<1>4. price' = price /\ _redeem(u, n, m, tolerance)
  BY DEF redeem, _redeem
<1>5. k \in Nat /\ T2 \in Int /\ T - m - k <= T2
  <2>1. /\ Dust \in Nat /\ slippage(moved, tolerance) \in Nat /\ T \in Int /\ T2 \in Int
        /\ T - m - Dust - slippage(moved, tolerance) <= T2
    BY <1>1, <1>3, <1>4, RedeemKeeps
  <2> HIDE DEF T, T2, m, moved
  <2>2. QED BY <1>3, <2>1
<1>6. S2 = S - n
  BY <1>3, RedeemMoves DEF redeem
<1> HIDE DEF T, T2, S, S2, m, k, moved
<1>7. (T + 1) * (S2 + 1) - (T2 + 1) * (S + 1)
        <= (- n) * (T + 1) - (- m) * (S + 1) + k * (S + 1)
  <2>1. PICK burnt \in Int, paid \in Int : burnt = - n /\ paid = - m
    BY <1>3
  <2>2. S2 \in Int /\ 0 <= S /\ S2 = S + burnt /\ T + paid - k <= T2
    BY <1>2, <1>3, <1>5, <1>6, <2>1
  <2>3. (T + 1) * (S2 + 1) - (T2 + 1) * (S + 1)
          <= burnt * (T + 1) - paid * (S + 1) + k * (S + 1)
    BY <1>2, <1>5, <2>2, LossIs
  <2>4. QED BY <2>1, <2>3
<1>8. /\ n * (T + 1) \in Int /\ m * (S + 1) \in Int /\ k * (S + 1) \in Int
      /\ (T + 1) * (S2 + 1) \in Int /\ (T2 + 1) * (S + 1) \in Int
      /\ (- n) * (T + 1) = - (n * (T + 1)) /\ (- m) * (S + 1) = - (m * (S + 1))
  BY <1>2, <1>3, <1>5, <1>6
<1>9. (T + 1) * (S2 + 1) - (T2 + 1) * (S + 1) <= k * (S + 1)
  BY <1>3, <1>7, <1>8
<1>10. QED BY <1>9 DEF T, T2, S, S2, k, m, moved, Loss, Borne

LEMMA WithdrawLoss ==
  ASSUME IInv, supply > 0, NEW u \in Owner, NEW n \in Nat, NEW tolerance \in Nat,
         withdraw(u, n, tolerance)
  PROVE  Loss < Borne(leveraged(withdrawable(n)), tolerance) + totalAssets + 1
<1> DEFINE T == totalAssets
           T2 == totalAssets'
           S == supply
           S2 == supply'
           m == convertToShares(n)
           moved == leveraged(withdrawable(n))
           k == Dust + slippage(moved, tolerance)
<1>1. TypeOK /\ Solvent
  BY DEF IInv, withdraw
<1>2. T \in Nat /\ S \in Nat
  BY <1>1, StateTypes, SolventTypes
<1>3. m \in Nat /\ n * (S + 1) < m * (T + 1) + T + 1
  <2>1. m = (n * (S + 1)) \div (T + 1)
    BY DEF convertToShares
  <2> HIDE DEF T, S, m
  <2>2. QED BY <1>2, <2>1, Converted
<1>4. price' = price /\ _redeem(u, m, n, tolerance)
  BY DEF withdraw, _redeem
<1>5. k \in Nat /\ T2 \in Int /\ T - n - k <= T2
  <2>1. /\ Dust \in Nat /\ slippage(moved, tolerance) \in Nat /\ T \in Int /\ T2 \in Int
        /\ T - n - Dust - slippage(moved, tolerance) <= T2
    BY <1>1, <1>4, RedeemKeeps
  <2> HIDE DEF T, T2, moved
  <2>2. QED BY <2>1
<1>6. S2 = S - m
  BY <1>3, RedeemMoves DEF withdraw
<1> HIDE DEF T, T2, S, S2, m, k, moved
<1>7. (T + 1) * (S2 + 1) - (T2 + 1) * (S + 1)
        <= (- m) * (T + 1) - (- n) * (S + 1) + k * (S + 1)
  <2>1. PICK burnt \in Int, paid \in Int : burnt = - m /\ paid = - n
    BY <1>3
  <2>2. S2 \in Int /\ 0 <= S /\ S2 = S + burnt /\ T + paid - k <= T2
    BY <1>2, <1>3, <1>5, <1>6, <2>1
  <2>3. (T + 1) * (S2 + 1) - (T2 + 1) * (S + 1)
          <= burnt * (T + 1) - paid * (S + 1) + k * (S + 1)
    BY <1>2, <1>5, <2>2, LossIs
  <2>4. QED BY <2>1, <2>3
<1>8. /\ m * (T + 1) \in Int /\ n * (S + 1) \in Int /\ k * (S + 1) \in Int
      /\ (T + 1) * (S2 + 1) \in Int /\ (T2 + 1) * (S + 1) \in Int
      /\ (- m) * (T + 1) = - (m * (T + 1)) /\ (- n) * (S + 1) = - (n * (S + 1))
  BY <1>2, <1>3, <1>5, <1>6
<1>9. (T + 1) * (S2 + 1) - (T2 + 1) * (S + 1) < k * (S + 1) + T + 1
  BY <1>2, <1>3, <1>7, <1>8
<1>10. QED BY <1>9 DEF T, T2, S, S2, k, moved, Loss, Borne

(* Whatever the units, prices, leverage and tolerances, a user's call takes   *)
(* from the other holders no more than ShareValueKept allows.                 *)
THEOREM ShareValueSafe == Spec => ShareValueKept
<1>1. ASSUME IInv
      PROVE  [LET loss == (totalAssets + 1) * (supply' + 1) - (totalAssets' + 1) * (supply + 1)
                  borne(swapped, tolerance) == (Dust + slippage(swapped, tolerance)) * (supply + 1)
              IN  supply > 0 /\ loss > 0 =>
                  \A u \in Owner, n \in Amount, tolerance \in SlippageTolerance :
                      LET assets == convertToAssets(n)
                      IN  /\ deposit(u, n, tolerance) =>
                                 loss <= borne(leveraged(n) - n, tolerance)
                          /\ mint(u, n, tolerance) =>
                                 loss < borne(leveraged(assets) - assets, tolerance) + supply + 1
                          /\ redeem(u, n, tolerance) =>
                                 loss <= borne(leveraged(withdrawable(assets)), tolerance)
                          /\ withdraw(u, n, tolerance) =>
                                 loss < borne(leveraged(withdrawable(n)), tolerance)
                                          + totalAssets + 1]_vars
  <2>1. SUFFICES ASSUME supply > 0, NEW u \in Owner, NEW n \in Amount,
                        NEW tolerance \in SlippageTolerance
                 PROVE  /\ deposit(u, n, tolerance) => Loss <= Borne(Bought(n), tolerance)
                        /\ mint(u, n, tolerance) =>
                             Loss < Borne(Bought(convertToAssets(n)), tolerance) + supply + 1
                        /\ redeem(u, n, tolerance) =>
                             Loss <= Borne(leveraged(withdrawable(convertToAssets(n))), tolerance)
                        /\ withdraw(u, n, tolerance) =>
                             Loss < Borne(leveraged(withdrawable(n)), tolerance) + totalAssets + 1
    BY DEF Loss, Borne, Bought
  <2>2. n \in Nat /\ tolerance \in Nat
    BY Parameters
  <2>3. QED BY <1>1, <2>1, <2>2, DepositLoss, MintLoss, RedeemLoss, WithdrawLoss
<1>2. QED BY <1>1, Inductive, PTL DEF ShareValueKept
=============================================================================
