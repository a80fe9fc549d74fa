-------------------------- MODULE ArithmeticTheorems ------------------------
(***************************************************************************)
(* The arithmetic the contracts' proofs rest on.                           *)
(*                                                                         *)
(* What Total promises: it is a natural number, it depends on f only       *)
(* through the values at S, changing one value changes it by as much, and  *)
(* holders that stand for others with more have less in all.               *)
(*                                                                         *)
(* What unsigned division, which rounds down, means for the sums, products *)
(* and differences the contracts' conversions are made of.                 *)
(***************************************************************************)
EXTENDS Totals, FiniteSetTheorems, FunctionTheorems, TLAPS

(* The coins of finitely many holders are finitely many. *)
LEMMA NumberedFinite ==
  ASSUME NEW S, IsFiniteSet(S), NEW f, \A x \in S : f[x] \in Nat
  PROVE  IsFiniteSet(Numbered(f, S))
<1> DEFINE g    == [x \in S |-> {x} \X (1 .. f[x])]
           heap == {g[x] : x \in S}
<1>1. g \in Surjection(S, heap)
  BY DEF Surjection
<1>2. IsFiniteSet(heap)
  BY <1>1, FS_Surjection
<1>3. ASSUME NEW T \in heap PROVE IsFiniteSet(T)
  <2>1. PICK x \in S : T = {x} \X (1 .. f[x])
    OBVIOUS
  <2>2. IsFiniteSet({x})
    BY FS_Singleton
  <2>3. IsFiniteSet(1 .. f[x])
    BY FS_Interval
  <2>4. QED BY <2>1, <2>2, <2>3, FS_Product
<1>4. IsFiniteSet(UNION heap)
  BY <1>2, <1>3, FS_UNION
<1>5. heap = { {x} \X (1 .. f[x]) : x \in S }
  OBVIOUS
<1>6. QED BY <1>4, <1>5 DEF Numbered

(* One holder's coins can be counted apart. *)
LEMMA TotalSplit ==
  ASSUME NEW S, IsFiniteSet(S), NEW f, \A y \in S : f[y] \in Nat, NEW x \in S
  PROVE  /\ Total(f, S \ {x}) \in Nat
         /\ Total(f, S) = Total(f, S \ {x}) + f[x]
<1> DEFINE rest == Numbered(f, S \ {x})
           own  == {x} \X (1 .. f[x])
<1>1. IsFiniteSet(S \ {x})
  BY FS_RemoveElement
<1>2. IsFiniteSet(rest)
  BY <1>1, NumberedFinite
<1>3. /\ IsFiniteSet({x}) /\ Cardinality({x}) = 1
      /\ IsFiniteSet(1 .. f[x]) /\ Cardinality(1 .. f[x]) = f[x]
  <2>1. IsFiniteSet({x}) /\ Cardinality({x}) = 1
    BY FS_Singleton
  <2>2. f[x] \in Nat
    OBVIOUS
  <2>3. IsFiniteSet(1 .. f[x]) /\ Cardinality(1 .. f[x]) = f[x]
    <3> DEFINE n == f[x]
    <3>1. n \in Nat /\ n \in Int /\ 1 \in Int
      BY <2>2
    <3> HIDE DEF n
    <3>2. /\ IsFiniteSet(1 .. n)
          /\ Cardinality(1 .. n) = IF 1 > n THEN 0 ELSE n - 1 + 1
      BY <3>1, FS_Interval, SMTT(30)
    <3>3. IsFiniteSet(1 .. n) /\ Cardinality(1 .. n) = n
      BY <3>1, <3>2, SMTT(30)
    <3>4. QED BY <3>3 DEF n
  <2>4. QED BY <2>1, <2>3
<1>4. IsFiniteSet(own) /\ Cardinality(own) = f[x]
  BY <1>3, FS_Product
<1>5. Numbered(f, S) = rest \cup own
  BY DEF Numbered
<1>6. rest \cap own = {}
  BY DEF Numbered
<1>7. Cardinality(rest \cap own) = 0
  BY <1>6, FS_EmptySet
<1>8. Cardinality(rest \cup own) = Cardinality(rest) + f[x]
  <2>1. Cardinality(rest) \in Nat
    BY <1>2, FS_CardinalityType
  <2>2. Cardinality(rest \cup own)
          = Cardinality(rest) + Cardinality(own) - Cardinality(rest \cap own)
    BY <1>2, <1>4, FS_Union
  <2>3. QED BY <2>1, <2>2, <1>4, <1>7
<1>9. Cardinality(rest) \in Nat
  BY <1>2, FS_CardinalityType
<1>10. QED BY <1>5, <1>8, <1>9 DEF Total

LEMMA TotalNat ==
  ASSUME NEW S, IsFiniteSet(S), NEW f, \A x \in S : f[x] \in Nat
  PROVE  Total(f, S) \in Nat
BY NumberedFinite, FS_CardinalityType DEF Total

LEMMA TotalSame ==
  ASSUME NEW S, NEW f, NEW g, \A x \in S : f[x] = g[x]
  PROVE  Total(f, S) = Total(g, S)
<1>1. { {x} \X (1 .. f[x]) : x \in S } = { {x} \X (1 .. g[x]) : x \in S }
  OBVIOUS
<1>2. QED BY <1>1 DEF Total, Numbered

(* Changing the value at one holder changes the total by the difference. *)
LEMMA TotalChange ==
  ASSUME NEW S, IsFiniteSet(S), NEW x \in S,
         NEW f, \A y \in S : f[y] \in Nat,
         NEW g, \A y \in S : g[y] \in Nat,
         \A y \in S \ {x} : f[y] = g[y]
  PROVE  Total(g, S) = Total(f, S) - f[x] + g[x]
<1>1. Total(f, S \ {x}) = Total(g, S \ {x})
  BY TotalSame
<1>2. /\ Total(f, S \ {x}) \in Nat
      /\ Total(f, S) = Total(f, S \ {x}) + f[x]
  BY TotalSplit
<1>3. Total(g, S) = Total(g, S \ {x}) + g[x]
  BY TotalSplit
<1>4. QED BY <1>1, <1>2, <1>3

(* No holder has more than the total. *)
LEMMA TotalBounds ==
  ASSUME NEW S, IsFiniteSet(S), NEW f, \A y \in S : f[y] \in Nat, NEW x \in S
  PROVE  f[x] <= Total(f, S)
<1>1. /\ Total(f, S \ {x}) \in Nat
      /\ Total(f, S) = Total(f, S \ {x}) + f[x]
  BY TotalSplit
<1>2. QED BY <1>1

LEMMA TotalOfNothing ==
  ASSUME NEW S, NEW f, \A x \in S : f[x] = 0
  PROVE  Total(f, S) = 0
<1>1. Numbered(f, S) = {}
  BY DEF Numbered
<1>2. QED BY <1>1, FS_EmptySet DEF Total

(* Holders that each stand for another, with no more than it has, have no  *)
(* more together than the others.                                          *)
LEMMA TotalInjects ==
  ASSUME NEW S, NEW f, \A x \in S : f[x] \in Nat,
         NEW T, IsFiniteSet(T), NEW g, \A y \in T : g[y] \in Nat,
         NEW at \in [S -> T], \A x, y \in S : at[x] = at[y] => x = y,
         \A x \in S : f[x] <= g[at[x]]
  PROVE  Total(f, S) <= Total(g, T)
<1> DEFINE move == [c \in Numbered(f, S) |-> <<at[c[1]], c[2]>>]
<1>1. \A c \in Numbered(f, S) : /\ c = <<c[1], c[2]>> /\ c[1] \in S
                             /\ c[2] \in 1 .. f[c[1]]
  BY DEF Numbered
<1>2. ASSUME NEW c \in Numbered(f, S) PROVE <<at[c[1]], c[2]>> \in Numbered(g, T)
  <2>1. at[c[1]] \in T /\ c[2] \in 1 .. g[at[c[1]]]
    BY <1>1
  <2>2. QED BY <2>1 DEF Numbered
<1>3. move \in [Numbered(f, S) -> Numbered(g, T)]
  BY <1>2
<1>4. ASSUME NEW c \in Numbered(f, S), NEW d \in Numbered(f, S), move[c] = move[d]
      PROVE  c = d
  <2>1. at[c[1]] = at[d[1]] /\ c[2] = d[2]
    BY <1>4
  <2>2. QED BY <1>1, <2>1
<1> HIDE DEF move
<1>5. move \in Injection(Numbered(f, S), Numbered(g, T))
  BY <1>3, <1>4, Fun_IsInj
<1>6. QED BY <1>5, NumberedFinite, FS_Injection DEF Total

-----------------------------------------------------------------------------
(* Quotients *)

(* The quotient is the natural q with q * k <= a < (q + 1) * k. *)
LEMMA DivDef ==
  ASSUME NEW a \in Nat, NEW k \in Nat \ {0}
  PROVE  /\ a \div k \in Nat
         /\ k * (a \div k) <= a
         /\ a < k * (a \div k) + k
OBVIOUS

(* A natural below which the quotient must stay. *)
LEMMA DivAtMost ==
  ASSUME NEW a \in Nat, NEW k \in Nat \ {0}, NEW q \in Nat, a < k * q + k
  PROVE  a \div k <= q
<1> DEFINE d == a \div k
<1>1. d \in Nat /\ k * d <= a
  BY DivDef
<1>2. SUFFICES ASSUME d >= q + 1 PROVE FALSE
  BY <1>1
<1> HIDE DEF d
<1>3. k * d >= k * (q + 1)
  BY <1>1, <1>2
<1>4. k * (q + 1) = k * q + k
  OBVIOUS
<1>5. QED BY <1>1, <1>3, <1>4

(* A natural the quotient reaches. *)
LEMMA DivAtLeast ==
  ASSUME NEW a \in Nat, NEW k \in Nat \ {0}, NEW q \in Nat, k * q <= a
  PROVE  q <= a \div k
<1> DEFINE d == a \div k
<1>1. d \in Nat /\ a < k * d + k
  BY DivDef
<1>2. SUFFICES ASSUME q >= d + 1 PROVE FALSE
  BY <1>1
<1> HIDE DEF d
<1>3. k * q >= k * (d + 1)
  BY <1>1, <1>2
<1>4. k * (d + 1) = k * d + k
  BY <1>1
<1>5. QED BY <1>1, <1>3, <1>4

LEMMA DivMonotone ==
  ASSUME NEW a \in Nat, NEW b \in Nat, a <= b, NEW k \in Nat \ {0}
  PROVE  a \div k <= b \div k
<1>1. a \div k \in Nat /\ k * (a \div k) <= b
  BY DivDef
<1>2. QED BY <1>1, DivAtLeast

(* Two parts valued apart are worth no more than their sum, and at most one *)
(* unit less.                                                               *)
LEMMA DivOfSum ==
  ASSUME NEW a \in Nat, NEW b \in Nat, NEW k \in Nat \ {0}
  PROVE  /\ a \div k + b \div k <= (a + b) \div k
         /\ (a + b) \div k <= a \div k + b \div k + 1
<1> DEFINE p == a \div k
           q == b \div k
<1>1. p \in Nat /\ k * p <= a /\ a < k * p + k
  BY DivDef
<1>2. q \in Nat /\ k * q <= b /\ b < k * q + k
  BY DivDef
<1> HIDE DEF p, q
<1>3. k * (p + q) = k * p + k * q /\ k * (p + q + 1) = k * p + k * q + k
  BY <1>1, <1>2
<1>4. k * (p + q) <= a + b /\ a + b < k * (p + q + 1) + k
  BY <1>1, <1>2, <1>3
<1>5. p + q <= (a + b) \div k
  BY <1>1, <1>2, <1>4, DivAtLeast
<1>6. (a + b) \div k <= p + q + 1
  BY <1>1, <1>2, <1>4, DivAtMost
<1>7. QED BY <1>5, <1>6 DEF p, q

(* A whole number of units comes out of a quotient. *)
LEMMA DivOfMultiple ==
  ASSUME NEW a \in Nat, NEW q \in Nat, NEW k \in Nat \ {0}
  PROVE  (a + k * q) \div k = a \div k + q
<1> DEFINE d == a \div k
<1>1. d \in Nat /\ k * d <= a /\ a < k * d + k
  BY DivDef
<1> HIDE DEF d
<1>2. k * (d + q) = k * d + k * q
  BY <1>1
<1>3. k * (d + q) <= a + k * q /\ a + k * q < k * (d + q) + k
  BY <1>1, <1>2
<1>4. k * q \in Nat
  OBVIOUS
<1>5. d + q <= (a + k * q) \div k
  BY <1>1, <1>3, <1>4, DivAtLeast
<1>6. (a + k * q) \div k <= d + q
  BY <1>1, <1>3, <1>4, DivAtMost
<1>7. (a + k * q) \div k \in Nat
  BY <1>4, DivDef
<1>8. QED BY <1>1, <1>5, <1>6, <1>7 DEF d

(* A factor the two share cancels. *)
LEMMA DivCancel ==
  ASSUME NEW a \in Nat, NEW m \in Nat \ {0}, NEW f \in Nat \ {0}
  PROVE  (a * f) \div (f * m) = a \div m
<1> DEFINE d == a \div m
<1>1. d \in Nat /\ m * d <= a /\ a + 1 <= m * d + m
  BY DivDef
<1> HIDE DEF d
<1>2. f * m \in Nat \ {0} /\ a * f \in Nat /\ m * d \in Nat
  BY <1>1
<1>3. f * (m * d) <= f * a /\ f * (a + 1) <= f * (m * d + m)
  BY <1>1, <1>2
<1>4. (f * m) * d = f * (m * d) /\ a * f = f * a
  BY <1>1
<1>5. f * (a + 1) = f * a + f /\ f * (m * d + m) = f * (m * d) + f * m
  BY <1>2
<1>6. f * (m * d) \in Nat /\ f * a \in Nat
  BY <1>2
<1>7. (f * m) * d <= a * f /\ a * f < (f * m) * d + f * m
  BY <1>2, <1>3, <1>4, <1>5, <1>6
<1>8. d <= (a * f) \div (f * m)
  BY <1>1, <1>2, <1>7, DivAtLeast
<1>9. (a * f) \div (f * m) <= d
  BY <1>1, <1>2, <1>7, DivAtMost
<1>10. (a * f) \div (f * m) \in Nat
  BY <1>2, DivDef
<1>11. QED BY <1>1, <1>8, <1>9, <1>10 DEF d

(* One unit more than a sum fills at most one more quotient unit than its    *)
(* parts do.                                                                 *)
LEMMA DivOfSumAndOne ==
  ASSUME NEW a \in Nat, NEW b \in Nat, NEW m \in Nat \ {0}
  PROVE  (a + b + 1) \div m <= a \div m + b \div m + 1
<1> DEFINE p == a \div m
           q == b \div m
<1>1. p \in Nat /\ a + 1 <= m * p + m
  BY DivDef
<1>2. q \in Nat /\ b + 1 <= m * q + m
  BY DivDef
<1> HIDE DEF p, q
<1>3. m * (p + q + 1) = m * p + m * q + m /\ m * p \in Nat /\ m * q \in Nat
  BY <1>1, <1>2
<1>4. a + b + 1 < m * (p + q + 1) + m
  BY <1>1, <1>2, <1>3
<1>5. a + b + 1 \in Nat /\ p + q + 1 \in Nat
  BY <1>1, <1>2
<1>6. (a + b + 1) \div m <= p + q + 1
  BY <1>4, <1>5, DivAtMost
<1>7. QED BY <1>6 DEF p, q
=============================================================================
