------------------------- MODULE LiquidationProofs --------------------------
(***************************************************************************)
(* What the oracle's wrappers and a liquidator contract keep, for all      *)
(* feeds, tokens, prices, thresholds, premiums and amounts.                *)
(***************************************************************************)
EXTENDS Liquidation, ArithmeticTheorems

USE DEF Bps

LEMMA Parameters ==
  /\ NoAddress \notin Asset /\ NoAddress \notin Proxy /\ NoAddress \notin Pool
  /\ NoAddress \notin Redeemer4626
  /\ \A p \in Proxy : Reported[p] \subseteq Nat
  /\ PoolPrice \subseteq Nat
  /\ ThresholdConfig \subseteq Threshold
  /\ StaleTimeLimit \subseteq Nat /\ CurveStaleTimeLimit \in Nat /\ API3_HEARTBEAT \in Nat
  /\ API3_BASE_CURRENCY_UNIT \in Nat \ {0}
  /\ CURVE_RATE_PRECISION \in Nat \ {0}
  /\ BASE_CURRENCY_UNIT \in Nat \ {0}
  /\ pricePeg \in Nat
  /\ MaxAge \in Nat
BY FeedsAssumption, LiquidatorAssumption DEF Threshold

-----------------------------------------------------------------------------
(* Prices *)

LEMMA ConvertedType ==
  ASSUME NEW n \in Nat
  PROVE  _convertToBaseCurrencyUnit(n) \in Nat
<1>1. n * BASE_CURRENCY_UNIT \in Nat
  BY Parameters
<1>2. QED BY <1>1, Parameters, DivDef DEF _convertToBaseCurrencyUnit

LEMMA ConvertedZero == _convertToBaseCurrencyUnit(0) = 0
<1>1. 0 * BASE_CURRENCY_UNIT = 0
  BY Parameters
<1>2. 0 \div API3_BASE_CURRENCY_UNIT = 0
  BY Parameters
<1>3. QED BY <1>1, <1>2 DEF _convertToBaseCurrencyUnit

LEMMA ThresholdType ==
  ASSUME NEW n \in Nat, NEW t \in Threshold
  PROVE  /\ _applyThreshold(n, t) \in Nat
         /\ n = 0 => _applyThreshold(n, t) = 0
BY DEF _applyThreshold, Threshold

LEMMA API3PriceType ==
  ASSUME WrappersTypeOK, NEW a \in Asset, API3Alive(a)
  PROVE  API3Price(a) \in Nat
<1>1. assetToProxy[a] \in Proxy
  BY DEF WrappersTypeOK, API3Alive
<1>2. feed[assetToProxy[a]].value \in Nat
  BY <1>1 DEF WrappersTypeOK
<1>3. assetThresholds[a] \in Threshold
  BY DEF WrappersTypeOK
<1>4. QED BY <1>2, <1>3, ConvertedType, ThresholdType DEF API3Price

(* A composite price is a natural, and positive only if both feeds are. *)
LEMMA CompositePriceType ==
  ASSUME WrappersTypeOK, NEW a \in Asset, feedSet(a)
  PROVE  /\ compositeFeeds[a].proxy1 \in Proxy
         /\ compositeFeeds[a].proxy2 \in Proxy
         /\ CompositePrice(a) \in Nat
         /\ CompositePrice(a) > 0 =>
                /\ feed[compositeFeeds[a].proxy1].value > 0
                /\ feed[compositeFeeds[a].proxy2].value > 0
<1> DEFINE f == compositeFeeds[a]
           v1 == feed[f.proxy1].value
           v2 == feed[f.proxy2].value
           n1 == _applyThreshold(_convertToBaseCurrencyUnit(v1), f.primaryThreshold)
           n2 == _applyThreshold(_convertToBaseCurrencyUnit(v2), f.secondaryThreshold)
<1>1. /\ f.proxy1 \in Proxy /\ f.proxy2 \in Proxy
      /\ f.primaryThreshold \in Threshold /\ f.secondaryThreshold \in Threshold
  BY DEF WrappersTypeOK, feedSet
<1>2. v1 \in Nat /\ v2 \in Nat
  BY <1>1 DEF WrappersTypeOK
<1>3. /\ _convertToBaseCurrencyUnit(v1) \in Nat
      /\ _convertToBaseCurrencyUnit(v2) \in Nat
  BY <1>2, ConvertedType
<1>4. n1 \in Nat /\ n2 \in Nat
  BY <1>1, <1>3, ThresholdType
<1>5. v1 = 0 => n1 = 0
  BY <1>1, <1>3, ConvertedZero, ThresholdType
<1>6. v2 = 0 => n2 = 0
  BY <1>1, <1>3, ConvertedZero, ThresholdType
<1>7. CompositePrice(a) = (n1 * n2) \div BASE_CURRENCY_UNIT
  BY DEF CompositePrice
<1> HIDE DEF n1, n2
<1>8. n1 * n2 \in Nat /\ (n1 = 0 \/ n2 = 0 => n1 * n2 = 0)
  BY <1>4
<1>9. CompositePrice(a) \in Nat
  BY <1>7, <1>8, Parameters, DivDef
<1>10. n1 * n2 = 0 => CompositePrice(a) = 0
  BY <1>7, Parameters
<1>11. QED BY <1>1, <1>2, <1>5, <1>6, <1>8, <1>9, <1>10

LEMMA PoolPriceType ==
  ASSUME WrappersTypeOK, NEW a \in Asset, assetConfigs[a].pool # NoAddress,
         assetConfigs[a].tokenIndex = 0 => poolPrice[assetConfigs[a].pool] > 0
  PROVE  poolPriceInBase(a) \in Nat
<1> DEFINE c == assetConfigs[a]
           u == IF c.tokenIndex > 0 THEN poolPrice[c.pool]
                ELSE (API3_BASE_CURRENCY_UNIT * API3_BASE_CURRENCY_UNIT)
                     \div poolPrice[c.pool]
           r == StoredRates[c.pool]
           s == IF Len(r) <= c.tokenIndex THEN u
                ELSE (r[c.tokenIndex + 1] * u) \div CURVE_RATE_PRECISION
<1>1. c.pool \in Pool /\ c.tokenIndex \in {0, 1}
  BY DEF WrappersTypeOK
<1>2. poolPrice[c.pool] \in Nat
  BY <1>1 DEF WrappersTypeOK
<1>3. API3_BASE_CURRENCY_UNIT * API3_BASE_CURRENCY_UNIT \in Nat
  BY Parameters
<1>4. u \in Nat
  <2>1. CASE c.tokenIndex = 0
    BY <2>1, <1>2, <1>3, DivDef
  <2>2. CASE c.tokenIndex = 1
    BY <2>2, <1>2
  <2>3. QED BY <1>1, <2>1, <2>2
<1>5. r \in Seq(Nat)
  BY <1>1, FeedsAssumption
<1>6. poolPriceInBase(a) = _convertToBaseCurrencyUnit(s)
  BY DEF poolPriceInBase
<1> HIDE DEF u
<1>7. s \in Nat
  <2>1. CASE Len(r) <= c.tokenIndex
    BY <2>1, <1>4
  <2>2. CASE ~(Len(r) <= c.tokenIndex)
    <3>1. c.tokenIndex + 1 \in 1 .. Len(r)
      BY <1>1, <1>5, <2>2
    <3>2. r[c.tokenIndex + 1] \in Nat
      BY <1>5, <3>1
    <3>3. r[c.tokenIndex + 1] * u \in Nat
      BY <1>4, <3>2
    <3>4. QED BY <2>2, <3>3, Parameters, DivDef
  <2>3. QED BY <2>1, <2>2
<1> HIDE DEF s
<1>8. QED BY <1>6, <1>7, ConvertedType

LEMMA CurvePriceType ==
  ASSUME WrappersTypeOK, NEW a \in Asset, CurveAlive(a)
  PROVE  CurvePrice(a) \in Nat
<1> DEFINE f == curveFeeds[a]
           p == _applyThreshold(poolPriceInBase(a), f.curveThreshold)
           q == _applyThreshold(_convertToBaseCurrencyUnit(feed[f.api3Proxy].value),
                                f.api3Threshold)
<1>1. poolPriceInBase(a) \in Nat
  BY PoolPriceType DEF CurveAlive
<1>2. f.curveThreshold \in Threshold
  BY DEF WrappersTypeOK, NoCurveFeed, NoThreshold, Threshold
<1>3. p \in Nat
  BY <1>1, <1>2, ThresholdType
<1>4. CASE f.api3Asset = NoAddress
  BY <1>3, <1>4 DEF CurvePrice
<1>5. CASE f.api3Asset # NoAddress
  <2>1. f.api3Proxy \in Proxy /\ f.api3Threshold \in Threshold
    BY <1>5 DEF WrappersTypeOK, NoCurveFeed
  <2>2. feed[f.api3Proxy].value \in Nat
    BY <2>1 DEF WrappersTypeOK
  <2>3. q \in Nat
    BY <2>1, <2>2, ConvertedType, ThresholdType
  <2>4. CurvePrice(a) = (p * q) \div BASE_CURRENCY_UNIT
    BY <1>5 DEF CurvePrice
  <2> HIDE DEF p, q
  <2>5. p * q \in Nat
    BY <1>3, <2>3
  <2>6. QED BY <2>4, <2>5, Parameters, DivDef
<1>6. QED BY <1>4, <1>5

LEMMA PriceType ==
  ASSUME WrappersTypeOK, NEW a \in Asset, isAlive(a)
  PROVE  getAssetPrice(a) \in Nat
<1>1. CASE assetOracles[a] = "api3" /\ API3Alive(a)
  BY <1>1, API3PriceType DEF getAssetPrice
<1>2. CASE assetOracles[a] = "composite" /\ CompositeAlive(a)
  BY <1>2, CompositePriceType DEF getAssetPrice, CompositeAlive
<1>3. CASE assetOracles[a] = "curve" /\ CurveAlive(a)
  BY <1>3, CurvePriceType DEF getAssetPrice
<1>4. CASE assetOracles[a] = "peg"
  BY <1>4, Parameters DEF getAssetPrice
<1>5. QED BY <1>1, <1>2, <1>3, <1>4 DEF isAlive

LEMMA LiveFeeds == WrappersTypeOK => PricedByLiveFeeds
<1> SUFFICES ASSUME WrappersTypeOK, NEW a \in Asset, isAlive(a), NEW f \in FeedsBehind(a)
             PROVE  feed[f[1]].value > 0 /\ IsFresh(f[1], f[2])
  BY DEF PricedByLiveFeeds
<1>1. CASE assetOracles[a] = "api3" /\ API3Alive(a)
  <2>1. f = <<assetToProxy[a], heartbeatStaleTimeLimit["api3"]>>
    BY <1>1 DEF FeedsBehind
  <2>2. QED BY <1>1, <2>1 DEF API3Alive
<1>2. CASE assetOracles[a] = "composite" /\ CompositeAlive(a)
  <2>1. /\ f[1] \in {compositeFeeds[a].proxy1, compositeFeeds[a].proxy2}
        /\ f[2] = heartbeatStaleTimeLimit["composite"]
    BY <1>2 DEF FeedsBehind
  <2>2. QED BY <1>2, <2>1, CompositePriceType DEF CompositeAlive
<1>3. CASE assetOracles[a] = "curve" /\ CurveAlive(a)
  <2>1. /\ f = <<curveFeeds[a].api3Proxy, CurveStaleTimeLimit>>
        /\ f # <<NoAddress, CurveStaleTimeLimit>>
    BY <1>3 DEF FeedsBehind
  <2>2. curveFeeds[a].api3Proxy # NoAddress
    BY <2>1
  <2>3. curveFeeds[a].api3Asset # NoAddress
    BY <2>2, Parameters DEF WrappersTypeOK, NoCurveFeed
  <2>4. QED BY <1>3, <2>1, <2>3 DEF CurveAlive
<1>4. CASE assetOracles[a] = "peg"
  BY <1>4 DEF FeedsBehind
<1>5. QED BY <1>1, <1>2, <1>3, <1>4 DEF isAlive

LEMMA ThresholdCaps ==
  ASSUME NEW n \in Nat, NEW t \in Threshold
  PROVE  Capped(n, t) \in Nat /\ _applyThreshold(n, t) <= Capped(n, t)
BY DEF Capped, _applyThreshold, Threshold

LEMMA ProductMonotone ==
  ASSUME NEW a \in Nat, NEW b \in Nat, NEW c \in Nat, NEW d \in Nat, a <= c, b <= d
  PROVE  a * b <= c * d
<1>1. PICK x \in Nat, y \in Nat : c = a + x /\ d = b + y
  <2>1. c - a \in Nat /\ d - b \in Nat /\ c = a + (c - a) /\ d = b + (d - b)
    OBVIOUS
  <2>2. QED BY <2>1
<1>2. a * b \in Nat /\ a * y \in Nat /\ x * b \in Nat /\ x * y \in Nat
  OBVIOUS
<1>3. (a + x) * (b + y) = a * b + a * y + x * b + x * y
  OBVIOUS
<1>4. QED BY <1>1, <1>2, <1>3

LEMMA CappedFeeds == WrappersTypeOK => CapsHold
<1> SUFFICES ASSUME WrappersTypeOK, NEW a \in Asset, assetOracles[a] = "composite", isAlive(a)
             PROVE  LET f == compositeFeeds[a]
                    IN  getAssetPrice(a) * BASE_CURRENCY_UNIT
                            <= Capped(_convertToBaseCurrencyUnit(feed[f.proxy1].value),
                                      f.primaryThreshold)
                               * Capped(_convertToBaseCurrencyUnit(feed[f.proxy2].value),
                                        f.secondaryThreshold)
  BY DEF CapsHold
<1> DEFINE f  == compositeFeeds[a]
           v1 == _convertToBaseCurrencyUnit(feed[f.proxy1].value)
           v2 == _convertToBaseCurrencyUnit(feed[f.proxy2].value)
           n1 == _applyThreshold(v1, f.primaryThreshold)
           n2 == _applyThreshold(v2, f.secondaryThreshold)
           c1 == Capped(v1, f.primaryThreshold)
           c2 == Capped(v2, f.secondaryThreshold)
           p  == (n1 * n2) \div BASE_CURRENCY_UNIT
<1>1. feedSet(a) /\ getAssetPrice(a) = p
  BY DEF isAlive, CompositeAlive, getAssetPrice, CompositePrice
<1>2. /\ f.proxy1 \in Proxy /\ f.proxy2 \in Proxy
      /\ f.primaryThreshold \in Threshold /\ f.secondaryThreshold \in Threshold
  BY <1>1, CompositePriceType DEF WrappersTypeOK
<1>3. feed[f.proxy1].value \in Nat /\ feed[f.proxy2].value \in Nat
  BY <1>2 DEF WrappersTypeOK
<1>4. v1 \in Nat /\ v2 \in Nat
  BY <1>3, ConvertedType
<1>5. n1 \in Nat /\ n2 \in Nat
  BY <1>2, <1>4, ThresholdType
<1>6. c1 \in Nat /\ c2 \in Nat /\ n1 <= c1 /\ n2 <= c2
  BY <1>2, <1>4, ThresholdCaps
<1> HIDE DEF n1, n2, c1, c2
<1>7. n1 * n2 <= c1 * c2 /\ n1 * n2 \in Nat /\ c1 * c2 \in Nat
  BY <1>5, <1>6, ProductMonotone
<1>8. p \in Nat /\ BASE_CURRENCY_UNIT * p <= n1 * n2
  BY <1>7, Parameters, DivDef
<1> HIDE DEF p
<1>9. p * BASE_CURRENCY_UNIT <= c1 * c2
  BY <1>7, <1>8, Parameters
<1>10. QED BY <1>1, <1>9 DEF c1, c2

-----------------------------------------------------------------------------
(* Balances *)

LEMMA PlusKeepsOthers ==
  ASSUME NEW b \in [Asset -> Int], NEW t \in Asset, NEW n \in Int
  PROVE  /\ Plus(b, t, n) \in [Asset -> Int]
         /\ Plus(b, t, n)[t] = b[t] + n
         /\ \A u \in Asset \ {t} : Plus(b, t, n)[u] = b[u]
BY DEF Plus

LEMMA SeizedType ==
  ASSUME WrappersTypeOK, NEW debt \in Asset, NEW coll \in Asset, NEW paid \in Nat,
         canLiquidate(debt, coll)
  PROVE  seized(debt, coll, paid) \in Nat
<1> DEFINE p == getAssetPrice(debt)
           q == getAssetPrice(coll)
           m == (paid * p * Unit[coll]) \div (q * Unit[debt])
<1>1. p \in Nat /\ q \in Nat \ {0}
  BY PriceType DEF canLiquidate
<1>2. Unit[coll] \in Nat /\ Unit[debt] \in Nat \ {0}
  BY LiquidatorAssumption
<1> HIDE DEF p, q
<1>3. paid * p * Unit[coll] \in Nat /\ q * Unit[debt] \in Nat \ {0}
  <2>1. paid * p \in Nat
    BY <1>1
  <2>2. QED BY <1>1, <1>2, <2>1
<1>4. m \in Nat
  BY <1>3, DivDef
<1>5. LiquidationBonus \in Nat /\ ONE_HUNDRED_PERCENT_BPS \in Nat \ {0}
  BY LiquidatorAssumption
<1>6. seized(debt, coll, paid) =
        (m * (ONE_HUNDRED_PERCENT_BPS + LiquidationBonus)) \div ONE_HUNDRED_PERCENT_BPS
  BY DEF seized, p, q
<1> HIDE DEF m
<1>7. m * (ONE_HUNDRED_PERCENT_BPS + LiquidationBonus) \in Nat
  BY <1>4, <1>5
<1>8. QED BY <1>5, <1>6, <1>7, DivDef

LEMMA PremiumType ==
  ASSUME NEW n \in Nat
  PROVE  premium(n) \in Nat
<1>1. FlashLoanPremium \in Nat /\ ONE_HUNDRED_PERCENT_BPS \in Nat \ {0}
  BY LiquidatorAssumption
<1>2. ONE_HUNDRED_PERCENT_BPS \div 2 \in Nat
  BY <1>1
<1>3. n * FlashLoanPremium + ONE_HUNDRED_PERCENT_BPS \div 2 \in Nat
  BY <1>1, <1>2
<1>4. QED BY <1>1, <1>3, DivDef DEF premium

LEMMA RedeemedType ==
  ASSUME NEW v \in Redeemer4626, NEW n \in Nat
  PROVE  share[v] \in Asset /\ asset[v] \in Asset /\ redeemed(v, n) \in Nat
BY LiquidatorAssumption DEF redeemed

(* No sale spends more of a token than there is; a sale at Curve is of the    *)
(* token to be sold, for exactly what is asked of the debt token.            *)
LEMMA SaleOutcome ==
  ASSUME LiquidatorTypeOK, NEW sold \in Asset, NEW debt \in Asset,
         NEW b \in [Asset -> Nat], NEW amount \in Nat, NEW maximum,
         NEW sale \in _swapExactOutput(sold, debt, b, amount, maximum)
  PROVE  /\ sale.from \in Asset /\ sale.to \in Asset
         /\ sale.spent \in Nat /\ sale.got \in Nat /\ sale.left \in Nat
         /\ sale.spent <= b[sale.from]
         /\ venue = "curve" =>
                /\ sold # debt /\ sale.from = sold /\ sale.to = debt
                /\ sale.got = amount /\ sale.left = 0
<1>1. approved \union {sold} \subseteq Asset /\ MaxExcess \in Nat
  BY LiquidatorAssumption DEF LiquidatorTypeOK
<1>2. CASE venue = "uniswap"
  <2>1. PICK t \in approved \union {sold} : sale \in UniswapSales(t, b[t], amount, maximum)
    BY <1>2 DEF _swapExactOutput
  <2>2. t \in Asset /\ b[t] \in Nat
    BY <1>1, <2>1
  <2>3. /\ sale.from = t /\ sale.spent \in spendable(b[t], maximum)
        /\ sale.to \in Asset /\ sale.got \in {0, amount} /\ sale.left = 0
    BY <2>1 DEF UniswapSales
  <2>4. QED BY <1>2, <2>2, <2>3 DEF spendable
<1>3. CASE venue = "odos"
  <2>1. PICK t \in approved \union {sold} :
            sale \in OdosSales(t, b[t], amount, IF t = sold THEN maximum ELSE b[t])
    BY <1>3 DEF _swapExactOutput
  <2>2. t \in Asset /\ b[t] \in Nat
    BY <1>1, <2>1
  <2>3. /\ sale.from = t
        /\ sale.spent \in {0} \union
               spendable(b[t], IF t = sold THEN maximum ELSE b[t])
        /\ sale.to \in Asset /\ sale.got \in 0 .. amount + MaxExcess
        /\ sale.left \in 0 .. MaxExcess
    BY <2>1 DEF OdosSales
  <2>4. sale.spent \in 0 .. b[t]
    BY <2>2, <2>3 DEF spendable
  <2>5. QED BY <1>1, <1>3, <2>2, <2>3, <2>4
<1>4. CASE venue = "curve"
  <2>1. /\ sale \in CurveSales(sold, debt, b[sold], amount, maximum)
        /\ {sold, debt} \in swapParams
    BY <1>4 DEF _swapExactOutput
  <2>2. PICK n \in 1 .. b[sold], back \in 0 .. b[sold] :
            sale = [from |-> sold, spent |-> n - back, to |-> debt, got |-> amount, left |-> 0]
    BY <2>1 DEF CurveSales, spendable
  <2>3. sale.spent \in Nat
    BY <2>1 DEF CurveSales, Sale
  <2>4. sold # debt
    <3>1. swapParams \intersect {{t} : t \in Asset} = {}
      BY DEF LiquidatorTypeOK
    <3>2. SUFFICES ASSUME sold = debt  PROVE {sold, debt} \in {{t} : t \in Asset}
      BY <2>1, <3>1
    <3>3. {sold, debt} = {sold}
      BY <3>2
    <3>4. QED BY <3>3
  <2>5. QED BY <2>2, <2>3, <2>4
<1>5. QED BY <1>2, <1>3, <1>4 DEF LiquidatorTypeOK

LEMMA ExchangedOutcome ==
  ASSUME NEW b \in [Asset -> Nat], NEW debt \in Asset, NEW sale,
         sale.from \in Asset, sale.to \in Asset,
         sale.spent \in Nat, sale.got \in Nat, sale.left \in Nat,
         sale.spent <= b[sale.from]
  PROVE  /\ exchanged(b, debt, sale) \in [Asset -> Int]
         /\ \A t \in Asset \ {debt} : exchanged(b, debt, sale)[t] \in Nat
         /\ sale.to = debt /\ sale.from # debt /\ sale.left = 0 =>
                /\ exchanged(b, debt, sale)[debt] = b[debt] + sale.got
                /\ \A t \in Asset \ {debt, sale.from} : exchanged(b, debt, sale)[t] = b[t]
<1> DEFINE from == sale.from
           to   == sale.to
           out  == -sale.spent
           in   == sale.got
           left == -sale.left
           c    == Plus(b, from, out)
           d    == Plus(c, to, in)
           e    == Plus(d, debt, left)
<1>1. /\ from \in Asset /\ to \in Asset
      /\ out \in Int /\ in \in Nat /\ left \in Int
      /\ b[from] + out >= 0 /\ (sale.left = 0 => left = 0)
  OBVIOUS
<1>2. exchanged(b, debt, sale) = e
  BY DEF exchanged
<1> HIDE DEF out, in, left, from, to
<1>3. /\ c \in [Asset -> Int] /\ c[from] = b[from] + out
      /\ \A t \in Asset \ {from} : c[t] = b[t]
  <2>1. b \in [Asset -> Int]
    OBVIOUS
  <2>2. QED BY <1>1, <2>1, PlusKeepsOthers
<1>4. \A t \in Asset : c[t] \in Nat
  <2> TAKE t \in Asset
  <2>1. CASE t = from
    BY <1>1, <1>3, <2>1
  <2>2. CASE t # from
    BY <1>3, <2>2
  <2>3. QED BY <2>1, <2>2
<1> HIDE DEF c
<1>5. /\ d \in [Asset -> Int] /\ d[to] = c[to] + in
      /\ \A t \in Asset \ {to} : d[t] = c[t]
  <2>1. in \in Int
    BY <1>1
  <2>2. QED BY <1>1, <1>3, <2>1, PlusKeepsOthers
<1>6. \A t \in Asset : d[t] \in Nat
  <2> TAKE t \in Asset
  <2>1. CASE t = to
    BY <1>1, <1>4, <1>5, <2>1
  <2>2. CASE t # to
    BY <1>4, <1>5, <2>2
  <2>3. QED BY <2>1, <2>2
<1> HIDE DEF d
<1>7. /\ e \in [Asset -> Int] /\ e[debt] = d[debt] + left
      /\ \A t \in Asset \ {debt} : e[t] = d[t]
  BY <1>1, <1>5, PlusKeepsOthers
<1> HIDE DEF e
<1>8. \A t \in Asset \ {debt} : e[t] \in Nat
  BY <1>6, <1>7
<1>9. ASSUME to = debt, from # debt, sale.left = 0
      PROVE  e[debt] = b[debt] + in /\ \A t \in Asset \ {debt, from} : e[t] = b[t]
  <2>1. left = 0
    BY <1>1, <1>9
  <2>2. e[debt] = b[debt] + in
    BY <1>1, <1>3, <1>5, <1>6, <1>7, <1>9, <2>1
  <2>3. \A t \in Asset \ {debt, from} : e[t] = b[t]
    BY <1>3, <1>5, <1>7, <1>9
  <2>4. QED BY <2>2, <2>3
<1>10. QED BY <1>2, <1>7, <1>8, <1>9 DEF from, to, in

-----------------------------------------------------------------------------
(* A liquidation with a flash loan *)

LEMMA SeizeOutcome ==
  ASSUME NEW b \in [Asset -> Int], NEW debt \in Asset, NEW coll \in Asset,
         NEW paid \in Int, seized(debt, coll, paid) \in Int
  PROVE  /\ seize(b, debt, coll, paid) \in [Asset -> Int]
         /\ \A t \in Asset \ {debt, coll} : seize(b, debt, coll, paid)[t] = b[t]
         /\ debt # coll =>
                /\ seize(b, debt, coll, paid)[debt] = b[debt] - paid
                /\ seize(b, debt, coll, paid)[coll] = b[coll] + seized(debt, coll, paid)
         /\ debt = coll =>
                seize(b, debt, coll, paid)[debt] = b[debt] - paid + seized(debt, coll, paid)
<1> DEFINE n == seized(debt, coll, paid)
           c == Plus(b, debt, -paid)
<1>1. seize(b, debt, coll, paid) = Plus(c, coll, n)
  BY DEF seize
<1>2. /\ c \in [Asset -> Int] /\ c[debt] = b[debt] - paid
      /\ \A u \in Asset \ {debt} : c[u] = b[u]
  <2> DEFINE out == -paid
  <2>1. out \in Int /\ b[debt] + out = b[debt] - paid
    OBVIOUS
  <2> HIDE DEF out
  <2>2. /\ Plus(b, debt, out) \in [Asset -> Int] /\ Plus(b, debt, out)[debt] = b[debt] + out
        /\ \A u \in Asset \ {debt} : Plus(b, debt, out)[u] = b[u]
    BY <2>1, PlusKeepsOthers
  <2>3. QED BY <2>1, <2>2 DEF out
<1> HIDE DEF c, n
<1>3. n \in Int
  BY DEF n
<1>4. /\ Plus(c, coll, n) \in [Asset -> Int] /\ Plus(c, coll, n)[coll] = c[coll] + n
      /\ \A u \in Asset \ {coll} : Plus(c, coll, n)[u] = c[u]
  BY <1>2, <1>3, PlusKeepsOthers
<1>5. QED BY <1>1, <1>2, <1>3, <1>4 DEF n

LEMMA CallbackOutcome ==
  ASSUME WrappersTypeOK, LiquidatorTypeOK,
         NEW debt \in Asset, NEW coll \in Asset, NEW amount \in Nat,
         NEW paid \in 1 .. amount, NEW unstake \in BOOLEAN,
         canLiquidate(debt, coll),
         debt = coll => seized(debt, coll, paid) >= paid,
         unstake => canUnstake(coll),
         NEW after \in afterCallback(debt, coll, amount, paid, unstake)
  PROVE  /\ after.balances \in [Asset -> Int] /\ after.brought \in BOOLEAN
         /\ actualCollateralToken(coll, unstake) \in Asset
         /\ \A t \in Asset \ {debt} : after.balances[t] \in Nat
         /\ debt = coll => \A t \in Asset \ {debt} : after.balances[t] = stock[t]
         /\ debt # coll /\ after.brought =>
                /\ after.balances[debt] >= stock[debt] + amount - paid + amount + premium(amount)
                /\ \A t \in Asset \ {debt, actualCollateralToken(coll, unstake)} :
                       after.balances[t] >= stock[t]
         /\ debt = coll \/ venue = "curve" => after.brought
<1> DEFINE sold == actualCollateralToken(coll, unstake)
           v    == getProxyContract(coll)
           n    == seized(debt, coll, paid)
           m    == redeemed(v, n)
           held == Plus(stock, debt, amount)
           lent == seize(held, debt, coll, paid)
           b    == IF unstake THEN unstaked(lent, debt, coll, paid) ELSE lent
<1>1. n \in Nat
  BY SeizedType
<1>2. stock \in [Asset -> Nat]
  BY LiquidatorAssumption DEF LiquidatorTypeOK, Balance
<1>3. sold \in Asset /\ (unstake => v \in Redeemer4626 /\ sold = asset[v] /\ m \in Nat)
      /\ (~unstake => sold = coll)
  BY <1>1, RedeemedType DEF canUnstake, actualCollateralToken
<1>4. /\ held \in [Asset -> Int] /\ held[debt] = stock[debt] + amount
      /\ \A t \in Asset \ {debt} : held[t] = stock[t]
  BY <1>2, PlusKeepsOthers
<1> HIDE DEF held
<1>5. paid \in Int /\ seized(debt, coll, paid) \in Int
  BY <1>1
<1>6. /\ lent \in [Asset -> Int]
      /\ \A t \in Asset \ {debt, coll} : lent[t] = held[t]
      /\ debt # coll => /\ lent[debt] = held[debt] - paid
                        /\ lent[coll] = held[coll] + n
      /\ debt = coll => lent[debt] = held[debt] - paid + n
  BY <1>4, <1>5, SeizeOutcome
<1>7. debt = coll => after = [balances |-> lent, brought |-> TRUE]
  BY DEF afterCallback, held
<1>8. debt = coll => n >= paid
  OBVIOUS
<1> HIDE DEF lent, n
<1>9. /\ lent \in [Asset -> Int]
      /\ \A t \in Asset \ {debt, coll} : lent[t] = stock[t]
      /\ debt # coll => /\ lent[debt] = stock[debt] + amount - paid
                        /\ lent[coll] = stock[coll] + n
      /\ debt = coll => lent[debt] = stock[debt] + amount - paid + n
  BY <1>1, <1>2, <1>4, <1>6
<1>10. CASE debt = coll
  <2>1. after.balances = lent /\ after.brought
    BY <1>7, <1>10
  <2>2. \A t \in Asset \ {debt} : lent[t] = stock[t] /\ lent[t] \in Nat
    BY <1>2, <1>9, <1>10
  <2>3. QED BY <1>3, <1>9, <1>10, <2>1, <2>2
<1>11. CASE debt # coll
  <2>1. /\ stock[debt] + amount - paid \in Nat
        /\ \A t \in Asset : stock[t] \in Nat
    BY <1>2
  <2>2. /\ b \in [Asset -> Nat]
        /\ b[debt] >= stock[debt] + amount - paid
        /\ \A t \in Asset \ {debt, sold} : b[t] = stock[t]
    <3>1. CASE ~unstake
      <4>1. b = lent /\ sold = coll
        BY <1>3, <3>1
      <4>2. lent[coll] \in Nat /\ lent[debt] \in Nat
        BY <1>1, <1>9, <1>11, <2>1
      <4>3. \A t \in Asset : lent[t] \in Nat
        BY <1>9, <2>1, <4>2
      <4>4. QED BY <1>9, <1>11, <2>1, <4>1, <4>3
    <3>2. CASE unstake
      <4> DEFINE c == Plus(lent, coll, -n)
      <4>1. -n \in Int /\ lent[coll] + (-n) = stock[coll]
        BY <1>1, <1>2, <1>9, <1>11
      <4>2. /\ c \in [Asset -> Int] /\ c[coll] = lent[coll] + (-n)
            /\ \A t \in Asset \ {coll} : c[t] = lent[t]
        BY <1>9, <4>1, PlusKeepsOthers
      <4>3. b = Plus(c, sold, m)
        BY <1>3, <3>2 DEF unstaked, n
      <4>4. sold \in Asset /\ m \in Nat
        BY <1>3, <3>2, Zenon
      <4> HIDE DEF c, b, m, sold
      <4>5. m \in Int
        BY <4>4
      <4>6. /\ b \in [Asset -> Int] /\ b[sold] = c[sold] + m
            /\ \A t \in Asset \ {sold} : b[t] = c[t]
        <5>1. /\ Plus(c, sold, m) \in [Asset -> Int]
              /\ Plus(c, sold, m)[sold] = c[sold] + m
              /\ \A t \in Asset \ {sold} : Plus(c, sold, m)[t] = c[t]
          BY <4>2, <4>4, <4>5, PlusKeepsOthers
        <5>2. QED BY <4>3, <5>1
      <4>7. /\ c[debt] = stock[debt] + amount - paid
            /\ \A t \in Asset \ {debt} : c[t] = stock[t]
        BY <1>9, <1>11, <4>1, <4>2
      <4>8. \A t \in Asset : c[t] \in Nat
        BY <2>1, <4>7
      <4>9. \A t \in Asset : b[t] \in Nat
        <5> TAKE t \in Asset
        <5>1. CASE t = sold
          BY <4>4, <4>6, <4>8, <5>1
        <5>2. CASE t # sold
          BY <4>6, <4>8, <5>2
        <5>3. QED BY <5>1, <5>2
      <4>10. b[debt] >= c[debt]
        BY <4>4, <4>6, <4>8
      <4>11. \A t \in Asset \ {debt, sold} : b[t] = stock[t]
        BY <4>6, <4>7
      <4>12. QED BY <4>6, <4>7, <4>9, <4>10, <4>11
    <3>3. QED BY <3>1, <3>2
  <2>3. PICK maximum :
        \E sale \in _swapExactOutput(sold, debt, b, toRepay(amount), maximum) :
            after = [balances |-> exchanged(b, debt, sale),
                     brought  |-> broughtAll(b, exchanged(b, debt, sale), debt, sold, amount)]
    BY <1>11 DEF afterCallback, lent, held
  <2>4. PICK sale \in _swapExactOutput(sold, debt, b, toRepay(amount), maximum) :
            after = [balances |-> exchanged(b, debt, sale),
                     brought  |-> broughtAll(b, exchanged(b, debt, sale), debt, sold, amount)]
    BY <2>3
  <2>5. premium(amount) \in Nat /\ toRepay(amount) = amount + premium(amount)
    BY PremiumType DEF toRepay
  <2> HIDE DEF b, sold
  <2> DEFINE c == exchanged(b, debt, sale)
  <2>6. sold \in Asset /\ toRepay(amount) \in Nat
    BY <1>3, <2>5 DEF sold
  <2>7. /\ sale.from \in Asset /\ sale.to \in Asset
        /\ sale.spent \in Nat /\ sale.got \in Nat /\ sale.left \in Nat
        /\ sale.spent <= b[sale.from]
        /\ venue = "curve" =>
               /\ sold # debt /\ sale.from = sold /\ sale.to = debt
               /\ sale.got = toRepay(amount) /\ sale.left = 0
    BY <2>2, <2>4, <2>6, SaleOutcome
  <2>8. /\ c \in [Asset -> Int]
        /\ \A t \in Asset \ {debt} : c[t] \in Nat
        /\ venue = "curve" =>
               /\ c[debt] = b[debt] + toRepay(amount)
               /\ \A t \in Asset \ {debt, sold} : c[t] = b[t]
    BY <2>2, <2>7, ExchangedOutcome
  <2>9. after.balances = c /\ after.brought = broughtAll(b, c, debt, sold, amount)
    BY <2>4
  <2> HIDE DEF c
  <2>10. ASSUME after.brought
         PROVE  /\ c[debt] >= stock[debt] + amount - paid + amount + premium(amount)
                /\ \A t \in Asset \ {debt, sold} : c[t] >= stock[t]
    <3>1. c[debt] >= b[debt] + toRepay(amount) /\ \A t \in Asset \ {sold} : c[t] >= b[t]
      BY <2>9, <2>10 DEF broughtAll
    <3>2. \A t \in Asset \ {debt, sold} : c[t] >= stock[t]
      BY <2>2, <3>1
    <3>3. c[debt] \in Int /\ b[debt] \in Int /\ stock[debt] \in Int
      BY <1>2, <2>2, <2>8
    <3>4. c[debt] >= stock[debt] + amount - paid + amount + premium(amount)
      BY <2>2, <2>5, <3>1, <3>3
    <3>5. QED BY <3>2, <3>4
  <2>11. venue = "curve" => after.brought
    <3>1. SUFFICES ASSUME venue = "curve"  PROVE broughtAll(b, c, debt, sold, amount)
      BY <2>9
    <3>2. c[debt] = b[debt] + toRepay(amount) /\ b[debt] \in Nat
      BY <2>2, <2>8, <3>1
    <3>3. \A t \in Asset \ {debt, sold} : c[t] = b[t] /\ b[t] \in Nat
      BY <2>2, <2>8, <3>1
    <3>4. c[debt] >= b[debt] + toRepay(amount) /\ c[debt] >= b[debt]
      BY <2>6, <3>2
    <3>5. \A t \in Asset \ {sold} : c[t] >= b[t]
      <4> TAKE t \in Asset \ {sold}
      <4>1. CASE t = debt
        BY <3>4, <4>1
      <4>2. CASE t # debt
        BY <3>3, <4>2
      <4>3. QED BY <4>1, <4>2
    <3>6. QED BY <3>4, <3>5 DEF broughtAll
  <2>12. after.brought \in BOOLEAN
    BY <2>9 DEF broughtAll
  <2>13. QED BY <1>11, <2>6, <2>8, <2>9, <2>10, <2>11, <2>12 DEF sold
<1>12. QED BY <1>10, <1>11

LEMMA GainType ==
  ASSUME NEW m \in Nat, NEW n \in Nat
  PROVE  gain(m, n) \in Nat /\ gain(m, n) <= n /\ (gain(m, n) > 0 => n - gain(m, n) = m)
BY DEF gain

(* What a call of liquidate, or any other, leaves behind in lastCall and the *)
(* balances; with a sale that brought everything nothing is below what it    *)
(* was if the caller was paid, nor the borrowed token if there was a sale.   *)
CallType ==
    /\ stock' \in [Asset -> Nat]
    /\ approved' \subseteq Asset
    /\ lastCall' \in [borrowed : Asset \union {NoAddress}, paid : BOOLEAN, brought : BOOLEAN]

CallKeeps ==
    /\ lastCall'.paid /\ lastCall'.brought => \A t \in Asset : stock'[t] >= stock[t]
    /\ lastCall'.borrowed # NoAddress /\ lastCall'.brought =>
           stock'[lastCall'.borrowed] >= stock[lastCall'.borrowed]
    /\ venue = "curve" => lastCall'.brought

LEMMA FlashOutcome ==
  ASSUME WrappersTypeOK, LiquidatorTypeOK,
         NEW debt \in Asset, NEW coll \in Asset, NEW amount \in Nat,
         NEW paid \in 1 .. amount, NEW unstake \in BOOLEAN, NEW stake \in BOOLEAN,
         liquidateWithFlashLoan(debt, coll, amount, paid, unstake, stake)
  PROVE  CallType /\ CallKeeps
<1> DEFINE sold == actualCollateralToken(coll, unstake)
           owed == amount + premium(amount)
<1>1. PICK after \in afterCallback(debt, coll, amount, paid, unstake) :
          settle(after, debt, coll, sold, amount, stake)
  BY DEF liquidateWithFlashLoan
<1> DEFINE c == after.balances
<1>2. /\ c \in [Asset -> Int] /\ after.brought \in BOOLEAN /\ sold \in Asset
      /\ \A t \in Asset \ {debt} : c[t] \in Nat
      /\ debt = coll => \A t \in Asset \ {debt} : c[t] = stock[t]
      /\ debt # coll /\ after.brought =>
             /\ c[debt] >= stock[debt] + amount - paid + amount + premium(amount)
             /\ \A t \in Asset \ {debt, sold} : c[t] >= stock[t]
      /\ debt = coll \/ venue = "curve" => after.brought
  BY CallbackOutcome DEF liquidateWithFlashLoan
<1>3. owed \in Nat /\ premium(amount) \in Nat
  BY PremiumType
<1>4. stock \in [Asset -> Nat]
  BY LiquidatorAssumption DEF LiquidatorTypeOK, Balance
<1> DEFINE back == Plus(c, debt, -owed)
           pay  == IF stake THEN 0 ELSE gain(stock[sold], back[sold])
<1>5. /\ c[debt] >= owed
      /\ stock' = Plus(back, sold, -pay)
      /\ lastCall' = [borrowed |-> IF debt = coll THEN NoAddress ELSE debt,
                      paid |-> pay > 0, brought |-> after.brought]
  BY <1>1 DEF settle
<1>6. approved' \subseteq Asset
  BY <1>2 DEF liquidateWithFlashLoan, LiquidatorTypeOK
<1> HIDE DEF sold, c
<1>7. -owed \in Int /\ c[debt] + (-owed) = c[debt] - owed
  BY <1>2, <1>3
<1>8. /\ back \in [Asset -> Int] /\ back[debt] = c[debt] - owed
      /\ \A t \in Asset \ {debt} : back[t] = c[t]
  <2> HIDE DEF owed
  <2>1. QED BY <1>2, <1>7, PlusKeepsOthers
<1>9. debt # coll /\ after.brought => back[debt] >= stock[debt] + amount - paid
  BY <1>2, <1>3, <1>4, <1>8
<1> HIDE DEF owed, back
<1>10. \A t \in Asset : back[t] \in Nat
  <2> TAKE t \in Asset
  <2>1. CASE t = debt
    BY <1>2, <1>3, <1>5, <1>8, <2>1
  <2>2. CASE t # debt
    BY <1>2, <1>8, <2>2
  <2>3. QED BY <2>1, <2>2
<1>11. /\ pay \in Nat /\ pay <= back[sold]
       /\ pay > 0 => back[sold] - pay = stock[sold]
  <2>1. stock[sold] \in Nat /\ back[sold] \in Nat
    BY <1>2, <1>4, <1>10
  <2> DEFINE g == gain(stock[sold], back[sold])
  <2>2. g \in Nat /\ g <= back[sold] /\ (g > 0 => back[sold] - g = stock[sold])
    BY <2>1, GainType
  <2> HIDE DEF g
  <2>3. pay = IF stake THEN 0 ELSE g
    BY DEF g
  <2> HIDE DEF pay
  <2>4. QED BY <2>1, <2>2, <2>3
<1> HIDE DEF pay
<1>12. -pay \in Int /\ back[sold] + (-pay) = back[sold] - pay
  BY <1>2, <1>10, <1>11
<1>13. /\ stock' \in [Asset -> Int] /\ stock'[sold] = back[sold] - pay
       /\ \A t \in Asset \ {sold} : stock'[t] = back[t]
  <2>1. /\ Plus(back, sold, -pay) \in [Asset -> Int]
        /\ Plus(back, sold, -pay)[sold] = back[sold] - pay
        /\ \A t \in Asset \ {sold} : Plus(back, sold, -pay)[t] = back[t]
    BY <1>2, <1>8, <1>12, PlusKeepsOthers
  <2>2. QED BY <1>5, <2>1
<1>14. stock' \in [Asset -> Nat]
  <2>1. \A t \in Asset : stock'[t] \in Nat
    <3> TAKE t \in Asset
    <3>1. CASE t = sold
      BY <1>2, <1>10, <1>11, <1>13, <3>1
    <3>2. CASE t # sold
      BY <1>10, <1>13, <3>2
    <3>3. QED BY <3>1, <3>2
  <2>2. QED BY <1>13, <2>1
<1>15. ASSUME pay > 0, after.brought, NEW t \in Asset  PROVE stock'[t] >= stock[t]
  <2>1. stock[t] \in Nat /\ back[t] \in Nat
    BY <1>4, <1>10
  <2>2. CASE t = sold
    BY <1>11, <1>13, <1>15, <2>1, <2>2
  <2>3. CASE t # sold /\ t # debt
    <3>1. c[t] >= stock[t]
      BY <1>2, <1>15, <2>1, <2>3
    <3>2. QED BY <1>8, <1>13, <2>3, <3>1
  <2>4. CASE t # sold /\ t = debt /\ debt # coll
    BY <1>9, <1>13, <1>15, <2>1, <2>4
  <2>5. CASE t # sold /\ t = debt /\ debt = coll
    <3>1. back[sold] = stock[sold]
      BY <1>2, <1>8, <2>5
    <3>2. QED BY <1>2, <1>4, <1>11, <1>15, <3>1
  <2>6. QED BY <2>2, <2>3, <2>4, <2>5
<1>16. ASSUME debt # coll, after.brought  PROVE stock'[debt] >= stock[debt]
  <2>1. back[debt] >= stock[debt] /\ stock[debt] \in Nat /\ back[debt] \in Nat
    BY <1>4, <1>9, <1>10, <1>16
  <2>2. CASE debt = sold
    BY <1>11, <1>13, <2>1, <2>2
  <2>3. CASE debt # sold
    BY <1>13, <2>1, <2>3
  <2>4. QED BY <2>2, <2>3
<1>17. lastCall' \in [borrowed : Asset \union {NoAddress}, paid : BOOLEAN, brought : BOOLEAN]
  BY <1>2, <1>5
<1>18. lastCall'.paid /\ lastCall'.brought => \A t \in Asset : stock'[t] >= stock[t]
  BY <1>5, <1>15
<1>19. lastCall'.borrowed # NoAddress => lastCall'.borrowed = debt /\ debt # coll
  BY <1>5
<1>20. lastCall'.brought = after.brought
  BY <1>5
<1>21. QED BY <1>2, <1>6, <1>14, <1>16, <1>17, <1>18, <1>19, <1>20 DEF CallType, CallKeeps

-----------------------------------------------------------------------------
(* Every call leaves the contract with what it can hold *)

LEMMA MovedType ==
  ASSUME NEW b \in [Asset -> Nat], NEW t \in Asset, NEW u \in Asset,
         NEW n \in Nat, NEW m \in Nat, n <= b[t]
  PROVE  Plus(Plus(b, t, -n), u, m) \in [Asset -> Nat]
<1> DEFINE c == Plus(b, t, -n)
<1>1. -n \in Int /\ b[t] + (-n) \in Nat
  OBVIOUS
<1>2. c \in [Asset -> Int] /\ c[t] = b[t] + (-n) /\ \A w \in Asset \ {t} : c[w] = b[w]
  <2>1. b \in [Asset -> Int]
    OBVIOUS
  <2>2. QED BY <1>1, <2>1, PlusKeepsOthers
<1> HIDE DEF c
<1>3. \A w \in Asset : c[w] \in Nat
  BY <1>1, <1>2
<1>4. /\ Plus(c, u, m) \in [Asset -> Int] /\ Plus(c, u, m)[u] = c[u] + m
      /\ \A w \in Asset \ {u} : Plus(c, u, m)[w] = c[w]
  <2>1. m \in Int /\ c \in [Asset -> Int]
    BY <1>2
  <2>2. QED BY <2>1, PlusKeepsOthers
<1>5. \A w \in Asset : Plus(c, u, m)[w] \in Nat
  <2> TAKE w \in Asset
  <2>1. CASE w = u
    BY <1>3, <1>4, <2>1
  <2>2. CASE w # u
    BY <1>3, <1>4, <2>2
  <2>3. QED BY <2>1, <2>2
<1>6. QED BY <1>4, <1>5 DEF c

LEMMA StockType == LiquidatorTypeOK => stock \in [Asset -> Nat]
BY LiquidatorAssumption DEF LiquidatorTypeOK, Balance

(* A call that is no liquidation with a loan ends without one to account for. *)
LEMMA PlainCallOutcome ==
  ASSUME WrappersTypeOK, LiquidatorTypeOK,
         \/ \E debt, coll \in Asset, n \in Amount : \E paid \in 1 .. n :
                liquidateFromBalance(debt, coll, n, paid)
         \/ StockMoves
  PROVE  stock' \in [Asset -> Nat] /\ approved' = approved /\ lastCall' = NoLoan
<1>1. stock \in [Asset -> Nat] /\ Amount \subseteq Nat \ {0}
  BY StockType, LiquidatorAssumption
<1>2. ASSUME NEW debt \in Asset, NEW coll \in Asset, NEW n \in Amount, NEW paid \in 1 .. n,
             liquidateFromBalance(debt, coll, n, paid)
      PROVE  stock' \in [Asset -> Nat] /\ approved' = approved /\ lastCall' = NoLoan
  <2>1. paid \in Nat /\ paid <= stock[debt]
    BY <1>1, <1>2 DEF liquidateFromBalance
  <2>2. seized(debt, coll, paid) \in Nat
    BY <1>2, <2>1, SeizedType DEF liquidateFromBalance
  <2>3. seize(stock, debt, coll, paid) \in [Asset -> Nat]
    BY <1>1, <2>1, <2>2, MovedType DEF seize
  <2>4. QED BY <1>2, <2>3 DEF liquidateFromBalance
<1>3. ASSUME NEW v \in Redeemer4626, NEW n \in Amount, redeemERC4626Token(v, n)
      PROVE  stock' \in [Asset -> Nat] /\ approved' = approved /\ lastCall' = NoLoan
  <2>1. n \in Nat /\ share[v] \in Asset /\ asset[v] \in Asset /\ redeemed(v, n) \in Nat
    BY <1>1, RedeemedType
  <2>2. n <= stock[share[v]]
    BY <1>1, <1>3, <2>1 DEF redeemERC4626Token
  <2>3. Plus(Plus(stock, share[v], -n), asset[v], redeemed(v, n)) \in [Asset -> Nat]
    BY <1>1, <2>1, <2>2, MovedType
  <2>4. QED BY <1>3, <2>3 DEF redeemERC4626Token
<1>4. ASSUME NEW t \in Asset, NEW n \in Amount, receive(t, n)
      PROVE  stock' \in [Asset -> Nat] /\ approved' = approved /\ lastCall' = NoLoan
  BY <1>1, <1>4 DEF receive, Plus
<1>5. ASSUME NEW t \in Asset, NEW n \in Amount, withdraw(t, n)
      PROVE  stock' \in [Asset -> Nat] /\ approved' = approved /\ lastCall' = NoLoan
  BY <1>1, <1>5 DEF withdraw, Plus, Least
<1>6. QED BY <1>2, <1>3, <1>4, <1>5 DEF StockMoves

LEMMA CallOutcome ==
  ASSUME WrappersTypeOK, LiquidatorTypeOK, Liquidate \/ StockMoves
  PROVE  CallType /\ CallKeeps /\ UNCHANGED <<contract, settings>>
<1>1. Amount \subseteq Nat
  BY LiquidatorAssumption
<1>2. ASSUME NEW debt \in Asset, NEW coll \in Asset, NEW n \in Amount, NEW paid \in 1 .. n,
             NEW unstake \in BOOLEAN, NEW stake \in BOOLEAN,
             liquidateWithFlashLoan(debt, coll, n, paid, unstake, stake)
      PROVE  CallType /\ CallKeeps
  BY <1>1, <1>2, FlashOutcome
<1>3. UNCHANGED <<contract, settings>>
  BY DEF Liquidate, StockMoves, liquidateFromBalance, liquidateWithFlashLoan,
         redeemERC4626Token, receive, withdraw
<1>4. CASE StockMoves \/ \E debt, coll \in Asset, n \in Amount : \E paid \in 1 .. n :
               liquidateFromBalance(debt, coll, n, paid)
  <2>1. stock' \in [Asset -> Nat] /\ approved' = approved /\ lastCall' = NoLoan
    BY <1>4, PlainCallOutcome
  <2>2. approved' \subseteq Asset
    BY <2>1 DEF LiquidatorTypeOK
  <2>3. QED BY <1>3, <2>1, <2>2 DEF NoLoan, CallType, CallKeeps
<1>5. CASE \E debt, coll \in Asset, n \in Amount : \E paid \in 1 .. n :
               \E unstake, stake \in BOOLEAN :
                   liquidateWithFlashLoan(debt, coll, n, paid, unstake, stake)
  BY <1>2, <1>3, <1>5
<1>6. QED BY <1>4, <1>5 DEF Liquidate

-----------------------------------------------------------------------------
(* Steps *)

LEMMA NoThresholdType == NoThreshold \in Threshold
BY DEF NoThreshold, Threshold

LEMMA FeedsMoveType ==
  ASSUME WrappersTypeOK, FeedsMove
  PROVE  WrappersTypeOK'
<1>1. ASSUME NEW p \in Proxy, NEW n \in Reported[p], Report(p, n)
      PROVE  WrappersTypeOK'
  <2>1. n \in Nat /\ 0 \in 0 .. MaxAge
    BY Parameters
  <2>2. feed' \in [Proxy -> [value : Nat, age : 0 .. MaxAge]]
    BY <1>1, <2>1 DEF Report, WrappersTypeOK
  <2>3. QED BY <1>1, <2>2 DEF Report, WrappersTypeOK, wrapperVars, api3Vars, curveVars
<1>2. ASSUME NEW q \in Pool, NEW n \in PoolPrice, PoolMoves(q, n)
      PROVE  WrappersTypeOK'
  <2>1. n \in Nat
    BY Parameters
  <2>2. poolPrice' \in [Pool -> Nat]
    BY <1>2, <2>1 DEF PoolMoves, WrappersTypeOK
  <2>3. QED BY <1>2, <2>2 DEF PoolMoves, WrappersTypeOK, wrapperVars, api3Vars, curveVars
<1>3. ASSUME TimePasses  PROVE WrappersTypeOK'
  <2>1. MaxAge \in Nat
    BY Parameters
  <2>2. \A p \in Proxy : [feed[p] EXCEPT !.age = IF @ < MaxAge THEN @ + 1 ELSE @]
                         \in [value : Nat, age : 0 .. MaxAge]
    BY <2>1 DEF WrappersTypeOK
  <2>3. feed' \in [Proxy -> [value : Nat, age : 0 .. MaxAge]]
    BY <1>3, <2>2 DEF TimePasses
  <2>4. QED BY <1>3, <2>3 DEF TimePasses, WrappersTypeOK, wrapperVars, api3Vars, curveVars
<1>4. QED BY <1>1, <1>2, <1>3 DEF FeedsMove

LEMMA WrapperSetType ==
  ASSUME WrappersTypeOK, WrapperSet
  PROVE  WrappersTypeOK'
<1> USE DEF sourceVars, api3Vars, curveVars
<1>0. /\ Managed \subseteq Asset /\ ThresholdConfig \subseteq Threshold
      /\ ThresholdConfig \union {NoThreshold} \subseteq Threshold
      /\ StaleTimeLimit \subseteq Nat
  BY DeploymentAssumption, Parameters, NoThresholdType
<1>1. ASSUME NEW w \in {"api3", "composite"}, NEW l \in StaleTimeLimit,
             setHeartbeatStaleTimeLimit(w, l)
      PROVE  WrappersTypeOK'
  BY <1>0, <1>1 DEF setHeartbeatStaleTimeLimit, WrappersTypeOK
<1>2. ASSUME NEW a \in Managed, NEW p \in Proxy \union {NoAddress}, setProxy(a, p)
      PROVE  WrappersTypeOK'
  BY <1>0, <1>2 DEF setProxy, WrappersTypeOK
<1>3. ASSUME NEW a \in Managed, NEW t \in Threshold, setThresholdConfig(a, t)
      PROVE  WrappersTypeOK'
  BY <1>0, <1>3 DEF setThresholdConfig, WrappersTypeOK
<1>4. ASSUME NEW a \in Managed, NEW p1 \in Proxy, NEW p2 \in Proxy,
             NEW t1 \in ThresholdConfig, NEW t2 \in ThresholdConfig,
             addCompositeFeed(a, p1, p2, t1, t2)
      PROVE  WrappersTypeOK'
  BY <1>0, <1>4 DEF addCompositeFeed, CompositeFeed, WrappersTypeOK
<1>5. ASSUME NEW a \in Managed, removeCompositeFeed(a)
      PROVE  WrappersTypeOK'
  BY <1>0, <1>5, NoThresholdType DEF removeCompositeFeed, NoFeed, WrappersTypeOK
<1>6. ASSUME NEW a \in Managed, NEW t1 \in Threshold, NEW t2 \in Threshold,
             updateCompositeFeed(a, t1, t2)
      PROVE  WrappersTypeOK'
  <2> DEFINE Feed == [proxy1 : Proxy \union {NoAddress}, proxy2 : Proxy \union {NoAddress},
                      primaryThreshold : Threshold, secondaryThreshold : Threshold]
             once == [compositeFeeds EXCEPT ![a].primaryThreshold = t1]
  <2>1. a \in Asset /\ compositeFeeds \in [Asset -> Feed]
    BY <1>0 DEF WrappersTypeOK
  <2>2. once \in [Asset -> Feed]
    <3>1. [compositeFeeds[a] EXCEPT !.primaryThreshold = t1] \in Feed
      BY <2>1
    <3> HIDE DEF Feed
    <3>2. QED BY <2>1, <3>1
  <2>3. compositeFeeds' = [once EXCEPT ![a].secondaryThreshold = t2]
    BY <1>6 DEF updateCompositeFeed
  <2> HIDE DEF once
  <2>4. compositeFeeds' \in [Asset -> Feed]
    <3>1. [once[a] EXCEPT !.secondaryThreshold = t2] \in Feed
      BY <2>1, <2>2
    <3> HIDE DEF Feed
    <3>2. QED BY <2>1, <2>2, <2>3, <3>1
  <2>5. QED BY <1>6, <2>4 DEF updateCompositeFeed, WrappersTypeOK
<1>7. ASSUME NEW a \in Managed, NEW q \in Pool, setAssetConfig(a, q)
      PROVE  WrappersTypeOK'
  BY <1>0, <1>7 DEF setAssetConfig, WrappersTypeOK
<1>8. ASSUME NEW a \in Managed, removeAssetConfig(a)
      PROVE  WrappersTypeOK'
  BY <1>0, <1>8 DEF removeAssetConfig, NoConfig, WrappersTypeOK
<1>9. ASSUME NEW a \in Managed, NEW b \in Managed, NEW p \in Proxy,
             NEW t1 \in ThresholdConfig, NEW t2 \in ThresholdConfig,
             setCurveFeed(a, b, p, t1, t2)
      PROVE  WrappersTypeOK'
  BY <1>0, <1>9 DEF setCurveFeed, WrappersTypeOK
<1>10. ASSUME NEW a \in Managed, removeCurveFeed(a)
       PROVE  WrappersTypeOK'
  BY <1>0, <1>10 DEF removeCurveFeed, WrappersTypeOK
<1>11. QED
  BY <1>0, <1>1, <1>2, <1>3, <1>4, <1>5, <1>6, <1>7, <1>8, <1>9, <1>10, NoThresholdType
     DEF WrapperSet, removeThresholdConfig

LEMMA InitType == Init => TypeOK
<1> SUFFICES ASSUME Init  PROVE TypeOK
  OBVIOUS
<1> USE DEF Init
<1>1. WrappersTypeOK
  <2>1. feed \in [Proxy -> [value : Nat, age : 0 .. MaxAge]]
    <3>1. \A p \in Proxy : FirstValue[p] \in Nat /\ 0 \in 0 .. MaxAge
      BY DeploymentAssumption, Parameters
    <3>2. QED BY <3>1
  <2>2. /\ poolPrice \in [Pool -> Nat]
        /\ heartbeatStaleTimeLimit \in [{"api3", "composite"} -> Nat]
    BY Parameters
  <2>3. \A a \in Asset : curveFeeds[a] = NoCurveFeed
    BY DEF NoCurveFeed
  <2>4. QED BY <2>1, <2>2, <2>3, DeploymentAssumption DEF WrappersTypeOK
<1>2. LiquidatorTypeOK
  BY DeploymentAssumption, LiquidatorAssumption DEF LiquidatorTypeOK, NoLoan, Balance
<1>3. QED BY <1>1, <1>2, DeploymentAssumption DEF TypeOK

(* What a step keeps, and what it may do to the contract's balances. *)
LEMMA StepOutcome ==
  ASSUME TypeOK, [Next]_vars
  PROVE  TypeOK' /\ [CallKeeps]_vars
<1> USE DEF oracleVars, liquidatorVars
<1>1. WrappersTypeOK /\ LiquidatorTypeOK /\ stock \in [Asset -> Nat]
  BY StockType DEF TypeOK
<1>2. ASSUME UNCHANGED stock, lastCall' = NoLoan  PROVE CallKeeps
  BY <1>2 DEF NoLoan, CallKeeps
<1>3. ASSUME UNCHANGED liquidatorVars, lastCall' \in {NoLoan, lastCall}
      PROVE  LiquidatorTypeOK'
  <2>1. lastCall' \in [borrowed : Asset \union {NoAddress}, paid : BOOLEAN, brought : BOOLEAN]
    <3>1. CASE lastCall' = NoLoan
      BY <3>1 DEF NoLoan
    <3>2. CASE lastCall' = lastCall
      BY <1>1, <3>2 DEF LiquidatorTypeOK
    <3>3. QED BY <1>3, <3>1, <3>2
  <2>2. UNCHANGED <<lender, venue, stock, approved, slippageTolerance, proxyContractMap, swapParams>>
    BY <1>3 DEF contract, settings
  <2>3. QED BY <1>1, <2>1, <2>2 DEF LiquidatorTypeOK
<1>4. ASSUME UNCHANGED <<sourceVars, wrapperVars>>  PROVE WrappersTypeOK'
  BY <1>1, <1>4 DEF WrappersTypeOK, sourceVars, wrapperVars, api3Vars, curveVars
<1>5. CASE FeedsMove /\ lastCall' = NoLoan
  <2>1. WrappersTypeOK'
    BY <1>1, <1>5, FeedsMoveType
  <2>2. UNCHANGED <<assetOracles, liquidatorVars, changes>>
    BY <1>5 DEF FeedsMove
  <2>3. QED BY <1>2, <1>3, <1>5, <2>1, <2>2 DEF TypeOK
<1>6. CASE ManagerSets /\ lastCall' = NoLoan
  <2>1. UNCHANGED liquidatorVars /\ changes' \in 0 .. MaxChanges
    BY <1>6, DeploymentAssumption DEF ManagerSets, TypeOK
  <2>2. LiquidatorTypeOK' /\ CallKeeps
    BY <1>2, <1>3, <1>6, <2>1
  <2>3. CASE WrapperSet /\ UNCHANGED assetOracles
    BY <1>1, <2>1, <2>2, <2>3, WrapperSetType DEF TypeOK
  <2>4. ASSUME NEW a \in Managed, NEW w \in Wrapper, setOracle(a, w)
        PROVE  UNCHANGED <<sourceVars, wrapperVars>>
                   /\ assetOracles' \in [Asset -> Wrapper \union {NoAddress}]
    BY <2>4, DeploymentAssumption DEF setOracle, TypeOK
  <2>5. ASSUME NEW a \in Managed, removeOracle(a)
        PROVE  UNCHANGED <<sourceVars, wrapperVars>>
                   /\ assetOracles' \in [Asset -> Wrapper \union {NoAddress}]
    BY <2>5, DeploymentAssumption DEF removeOracle, TypeOK
  <2>6. CASE \/ \E a \in Managed, w \in Wrapper : setOracle(a, w)
             \/ \E a \in Managed : removeOracle(a)
    BY <1>4, <2>1, <2>2, <2>4, <2>5, <2>6 DEF TypeOK
  <2>7. QED BY <1>6, <2>3, <2>6 DEF ManagerSets
<1>7. CASE OwnerSets /\ lastCall' = NoLoan
  <2>1. UNCHANGED oracleVars /\ changes' \in 0 .. MaxChanges
    BY <1>7, DeploymentAssumption DEF OwnerSets, TypeOK
  <2>2. stock' = stock
    BY <1>7 DEF OwnerSets, setSlippageTolerance, setProxyContract, setSwapExtraParams
  <2>3. lastCall' \in [borrowed : Asset \union {NoAddress}, paid : BOOLEAN, brought : BOOLEAN]
    BY <1>7 DEF NoLoan
  <2>4. ASSUME NEW n \in SlippageTolerance, setSlippageTolerance(n)
        PROVE  LiquidatorTypeOK'
    BY <1>1, <2>3, <2>4, LiquidatorAssumption
       DEF setSlippageTolerance, LiquidatorTypeOK, contract
  <2>5. ASSUME NEW t \in Managed, NEW v \in Redeemer4626 \union {NoAddress},
               setProxyContract(t, v)
        PROVE  LiquidatorTypeOK'
    BY <1>1, <2>3, <2>5, DeploymentAssumption DEF setProxyContract, LiquidatorTypeOK, contract
  <2>6. ASSUME NEW t \in Asset, NEW u \in Asset, t # u, setSwapExtraParams(t, u)
        PROVE  LiquidatorTypeOK'
    <3>1. {t, u} \in (SUBSET Asset) \ {{w} : w \in Asset}
      <4>1. ASSUME NEW w \in Asset, {t, u} = {w}  PROVE FALSE
        <5>1. t \in {w} /\ u \in {w}
          BY <4>1
        <5>2. QED BY <2>6, <5>1
      <4>2. QED BY <4>1
    <3>2. QED BY <1>1, <2>3, <2>6, <3>1 DEF setSwapExtraParams, LiquidatorTypeOK, contract
  <2>7. LiquidatorTypeOK'
    BY <1>7, <2>4, <2>5, <2>6 DEF OwnerSets
  <2>8. QED BY <1>2, <1>4, <1>7, <2>1, <2>2, <2>7 DEF TypeOK
<1>8. CASE Call
  <2>1. UNCHANGED <<oracleVars, changes>> /\ \A t \in Asset : stock'[t] <= MaxBalance
    BY <1>8 DEF Call
  <2>2. CallType /\ CallKeeps /\ UNCHANGED <<contract, settings>>
    BY <1>1, <1>8, CallOutcome DEF Call
  <2>3. stock' \in [Asset -> Balance]
    BY <2>1, <2>2, LiquidatorAssumption DEF Balance, CallType
  <2>4. LiquidatorTypeOK'
    BY <1>1, <2>2, <2>3 DEF LiquidatorTypeOK, CallType, contract, settings
  <2>5. QED BY <1>4, <2>1, <2>2, <2>4 DEF TypeOK
<1>9. CASE UNCHANGED vars
  BY <1>3, <1>4, <1>9 DEF vars, TypeOK
<1>10. QED BY <1>5, <1>6, <1>7, <1>8, <1>9 DEF Next

-----------------------------------------------------------------------------
(* Theorems *)

\* However feeds, pools, managers, the owner, callers and sales act, the wrappers
\* hold what setters can put there and the liquidator's balances are never below
\* zero (all of its transfers succeed).
THEOREM LiquidationTypes == Spec => []TypeOK
<1>1. TypeOK /\ [Next]_vars => TypeOK'
  BY StepOutcome
<1>2. QED BY InitType, <1>1, PTL DEF Spec

\* No asset has a price while a feed behind it is silent or reports nothing
\* positive, for all feeds, thresholds, limits and units.
THEOREM LivePrices == Spec => []PricedByLiveFeeds
<1>1. TypeOK => PricedByLiveFeeds
  BY LiveFeeds DEF TypeOK
<1>2. QED BY LiquidationTypes, <1>1, PTL

\* No thresholds, feeds and units let a composite price exceed the product of
\* its feeds' caps.
THEOREM CappedPrices == Spec => []CapsHold
<1>1. TypeOK => CapsHold
  BY CappedFeeds DEF TypeOK
<1>2. QED BY LiquidationTypes, <1>1, PTL

\* No caller is paid out of what the contract had before the call if the call's
\* sale brought what it was to bring for what it was to sell, for all prices,
\* bonuses, premiums, rates of unstaking and parts of the debt that dLEND takes.
THEOREM CallersPaidFromGain == Spec => PaidOnlyFromGain
<1>1. TypeOK /\ [Next]_vars =>
          [lastCall'.paid /\ lastCall'.brought => \A t \in Asset : stock'[t] >= stock[t]]_vars
  BY StepOutcome DEF CallKeeps
<1>2. QED BY LiquidationTypes, <1>1, PTL DEF Spec, PaidOnlyFromGain

\* A loan costs the contract none of the borrowed token if the sale brought what
\* it was to bring, whatever part of the offered debt dLEND takes.
THEOREM LoansPayForThemselves == Spec => LoanPaysForItself
<1>1. TypeOK /\ [Next]_vars =>
          [lastCall'.borrowed # NoAddress /\ lastCall'.brought =>
               stock'[lastCall'.borrowed] >= stock[lastCall'.borrowed]]_vars
  BY StepOutcome DEF CallKeeps
<1>2. QED BY LiquidationTypes, <1>1, PTL DEF Spec, LoanPaysForItself

\* The contracts that sell at Curve need no such condition: whatever a caller
\* passes, their sales bring what they are to bring for what they are to sell, so
\* that no call with a loan costs them any of the borrowed token and no caller is
\* paid out of what they had.
THEOREM CurveSalesBring ==
  Spec => [][venue = "curve" =>
                /\ lastCall'.paid => \A t \in Asset : stock'[t] >= stock[t]
                /\ lastCall'.borrowed # NoAddress =>
                       stock'[lastCall'.borrowed] >= stock[lastCall'.borrowed]]_vars
<1>1. TypeOK /\ [Next]_vars =>
          [venue = "curve" =>
               /\ lastCall'.paid => \A t \in Asset : stock'[t] >= stock[t]
               /\ lastCall'.borrowed # NoAddress =>
                      stock'[lastCall'.borrowed] >= stock[lastCall'.borrowed]]_vars
  BY StepOutcome DEF CallKeeps
<1>2. QED BY LiquidationTypes, <1>1, PTL DEF Spec
=============================================================================
