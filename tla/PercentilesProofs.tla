-------------------------- MODULE PercentilesProofs -------------------------
(***************************************************************************)
(* The estimates made from any number of lists of any length: the levels   *)
(* are ordered, and each is worth what its percentile says.                *)
(***************************************************************************)
EXTENDS Percentiles, WellFoundedInduction, TLAPS

(***************************************************************************)
(* A nonempty set of naturals none of which is above a bound has a         *)
(* greatest element, so Max is what it says (the least bound is in the     *)
(* set).                                                                   *)
(***************************************************************************)
LEMMA MaxOfBounded ==
  ASSUME NEW S \in SUBSET Nat, S # {}, NEW m \in Nat, \A x \in S : x <= m
  PROVE  Max(S) \in S /\ \A x \in S : x <= Max(S)
<1> DEFINE Bounds == {b \in Nat : \A x \in S : x <= b}
<1>1. PICK b \in Bounds : \A c \in Bounds : <<c, b>> \notin OpToRel(<, Nat)
  <2>1. Bounds # {} /\ Bounds \subseteq Nat
    BY SMT
  <2> QED BY <2>1, WFMin, NatLessThanWellFounded, Zenon
<1>2. \A c \in Bounds : ~ (c < b)
  BY <1>1, Zenon DEF OpToRel
<1>3. b \in S
  <2> SUFFICES ASSUME b \notin S PROVE FALSE
    OBVIOUS
  <2>1. b \in Nat /\ \A x \in S : x \in Nat /\ x < b
    BY SMT
  <2>2. PICK x \in S : x \in Nat /\ x < b
    BY <2>1
  <2>3. b - 1 \in Nat /\ \A y \in S : y <= b - 1
    BY <2>1, <2>2, SMT
  <2>4. b - 1 \in Bounds
    BY <2>3
  <2>5. b - 1 < b
    BY <2>1, SMT
  <2> QED BY <2>4, <2>5, <1>2
<1>4. \A x \in S : b >= x
  BY SMT
<1>5. Max(S) \in S /\ \A x \in S : Max(S) >= x
  <2> HIDE DEF Bounds
  <2> QED BY <1>3, <1>4, Zenon DEF Max
<1> QED BY <1>5, SMT

-----------------------------------------------------------------------------
Percents == 0..100

\* How a position is split, and what lies between two fees there.
IsSplit(x, h, r) == h \in Nat /\ r \in 0..299 /\ x = 300 * h + r
Between(a, b, r) == Round(300 * a + r * (b - a))

(***************************************************************************)
(* Rounding keeps order, and what lies between two integers lies between   *)
(* them when rounded.                                                      *)
(***************************************************************************)
LEMMA RoundMonotone ==
  ASSUME NEW x \in Nat, NEW y \in Nat, x <= y
  PROVE  Round(x) <= Round(y)
BY SMT DEF Round

LEMMA RoundBetween ==
  ASSUME NEW a \in Nat, NEW d \in Nat, NEW x \in Nat,
         300 * a <= x, x <= 300 * a + 300 * d
  PROVE  Round(x) \in Nat /\ a <= Round(x) /\ Round(x) <= a + d
BY SMT DEF Round

LEMMA PartTimes ==
  ASSUME NEW r \in 0..299, NEW d \in Nat
  PROVE  r * d \in Nat /\ r * d <= 300 * d
<1>1. r * d \in Nat
  BY SMT
<1>2. (300 - r) * d >= 0
  BY SMT
<1> QED BY <1>1, <1>2, SMT

LEMMA BetweenMonotone ==
  ASSUME NEW a \in Nat, NEW b \in Nat, a <= b,
         NEW r \in 0..299, NEW t \in 0..299, r <= t
  PROVE  Between(a, b, r) <= Between(a, b, t)
<1> DEFINE d == b - a
<1>1. d \in Nat
  BY SMT
<1> HIDE DEF d
<1>2. (t - r) * d >= 0 /\ r * d \in Nat /\ t * d \in Nat
  BY <1>1, SMT
<1>3. (t - r) * d = t * d - r * d
  BY <1>1, SMT
<1>4. /\ 300 * a + r * d \in Nat /\ 300 * a + t * d \in Nat
      /\ 300 * a + r * d <= 300 * a + t * d
  BY <1>2, <1>3, SMT
<1>5. Round(300 * a + r * d) <= Round(300 * a + t * d)
  BY <1>4, RoundMonotone
<1> QED BY <1>5, Zenon DEF Between, d

(***************************************************************************)
(* The position of a percentile in a list of n fees.                       *)
(***************************************************************************)
LEMMA PositionType ==
  ASSUME NEW n \in Nat, NEW p \in Percents
  PROVE  /\ Position(n, p) \in Nat
         /\ Whole(n, p) \in Nat
         /\ IsSplit(Position(n, p), Whole(n, p), Part(n, p))
<1>1. Position(n, p) \in Nat
  BY SMT DEF Position, Percents
<1> QED BY <1>1, SMT DEF Whole, Part, IsSplit

LEMMA PositionMonotone ==
  ASSUME NEW n \in Nat, NEW p \in Percents, NEW q \in Percents, p <= q
  PROVE  Position(n, p) <= Position(n, q)
<1>1. (3 * n + 1) * (q - p) >= 0
  BY SMT DEF Percents
<1> QED BY <1>1, SMT DEF Position, Percents

-----------------------------------------------------------------------------
LEMMA FeeIsNat == \A x \in Fee : x \in Nat /\ x <= MaxFee
BY PercentilesAssumption, SMT

(***************************************************************************)
(* The lists of fees, and what of them the percentiles rest on: naturals   *)
(* in ascending order.                                                     *)
(***************************************************************************)
Lists == {fees \in Seq(Fee) : Sorted(fees)}

Ascending == {fees \in Seq(Nat) : Sorted(fees)}

LEMMA ListsAscend ==
  ASSUME NEW fees \in Lists
  PROVE  /\ fees \in Ascending
         /\ \A i \in 1..Len(fees) : fees[i] \in Fee /\ fees[i] <= MaxFee
<1>1. fees \in Seq(Fee) /\ Sorted(fees)
  BY DEF Lists
<1>2. \A i \in 1..Len(fees) : fees[i] \in Fee
  BY <1>1, SMT
<1>3. fees \in Seq(Nat)
  BY <1>1, FeeIsNat, SMT
<1> QED BY <1>1, <1>2, <1>3, FeeIsNat, Zenon DEF Ascending

LEMMA ListType ==
  ASSUME NEW fees \in Ascending
  PROVE  /\ Len(fees) \in Nat
         /\ fees # <<>> => Len(fees) >= 1
         /\ \A i \in 1..Len(fees) : fees[i] \in Nat
         /\ \A i, j \in 1..Len(fees) : i <= j => fees[i] <= fees[j]
<1>1. fees \in Seq(Nat) /\ Sorted(fees)
  BY DEF Ascending
<1>2. Len(fees) \in Nat /\ (fees # <<>> => Len(fees) >= 1)
  BY <1>1, SMT
<1>3. \A i \in 1..Len(fees) : fees[i] \in Nat
  BY <1>1, SMT
<1> QED BY <1>1, <1>2, <1>3, Zenon DEF Sorted

(***************************************************************************)
(* The three ways a percentile is found.                                   *)
(***************************************************************************)
AtBottom(n, p) == Whole(n, p) <= 0 \/ p = 0
AtTop(n, p) == ~ AtBottom(n, p) /\ (Whole(n, p) >= n \/ p = 100)
Inside(n, p) == ~ AtBottom(n, p) /\ ~ AtTop(n, p)

LEMMA QuantileInside ==
  ASSUME NEW fees \in Ascending, NEW p \in Percents, Inside(Len(fees), p)
  PROVE  LET h == Whole(Len(fees), p)
         IN /\ h \in 1..(Len(fees) - 1)
            /\ Quantile(fees, p) \in Nat
            /\ fees[h] <= Quantile(fees, p)
            /\ Quantile(fees, p) <= fees[h + 1]
            /\ Quantile(fees, p) = Between(fees[h], fees[h + 1], Part(Len(fees), p))
<1> DEFINE n == Len(fees)
           h == Whole(n, p)
           r == Part(n, p)
           d == fees[h + 1] - fees[h]
<1>1. n \in Nat /\ h \in Nat /\ r \in 0..299
  <2>1. n \in Nat
    BY ListType, Zenon
  <2>2. IsSplit(Position(n, p), h, r)
    BY <2>1, PositionType, Zenon
  <2> HIDE DEF n, h, r
  <2> QED BY <2>1, <2>2, Zenon DEF IsSplit
<1>2. h \in 1..(n - 1) /\ ~ AtBottom(n, p) /\ ~ (h >= n \/ p = 100)
  <2>1. ~ (h <= 0 \/ p = 0) /\ ~ (h >= n \/ p = 100)
    BY Zenon DEF Inside, AtBottom, AtTop
  <2> HIDE DEF n, h
  <2> QED BY <1>1, <2>1, SMT DEF AtBottom, h
<1>3. fees[h] \in Nat /\ fees[h + 1] \in Nat /\ fees[h] <= fees[h + 1]
  <2>1. h \in 1..n /\ h + 1 \in 1..n /\ h <= h + 1
    <3> HIDE DEF n, h
    <3> QED BY <1>1, <1>2, SMT
  <2> QED BY <2>1, ListType, Zenon
<1>4. d \in Nat /\ fees[h] + d = fees[h + 1]
  <2> HIDE DEF n, h
  <2> QED BY <1>3, SMT
<1>5. r * d \in Nat /\ r * d <= 300 * d
  <2> HIDE DEF r, d
  <2> QED BY <1>1, <1>4, PartTimes, Zenon
<1>6. Quantile(fees, p) = Round(300 * fees[h] + r * d)
  BY <1>2, Zenon DEF Quantile, AtBottom
<1> DEFINE x == 300 * fees[h] + r * d
<1>7. x \in Nat /\ 300 * fees[h] <= x /\ x <= 300 * fees[h] + 300 * d
  <2> HIDE DEF d, r, h
  <2> QED BY <1>3, <1>4, <1>5, SMT
<1>8. Round(x) \in Nat /\ fees[h] <= Round(x) /\ Round(x) <= fees[h] + d
  <2> HIDE DEF d, x
  <2> QED BY <1>3, <1>4, <1>7, RoundBetween
<1>9. Quantile(fees, p) = Between(fees[h], fees[h + 1], r)
  BY <1>6, Zenon DEF Between
<1>10. /\ Quantile(fees, p) \in Nat /\ fees[h] <= Quantile(fees, p)
       /\ Quantile(fees, p) <= fees[h + 1]
  <2> HIDE DEF d, x, h, r
  <2> QED BY <1>4, <1>6, <1>8, Zenon DEF x
<1> QED BY <1>2, <1>9, <1>10, Zenon

LEMMA QuantileAtEnds ==
  ASSUME NEW fees \in Ascending, NEW p \in Percents
  PROVE  /\ AtBottom(Len(fees), p) => Quantile(fees, p) = fees[1]
         /\ AtTop(Len(fees), p) => Quantile(fees, p) = fees[Len(fees)]
BY SMT DEF Quantile, AtBottom, AtTop

(***************************************************************************)
(* A percentile lies between the least and the greatest fee.               *)
(***************************************************************************)
LEMMA QuantileBounds ==
  ASSUME NEW fees \in Ascending, fees # <<>>, NEW p \in Percents
  PROVE  /\ Quantile(fees, p) \in Nat
         /\ fees[1] <= Quantile(fees, p)
         /\ Quantile(fees, p) <= fees[Len(fees)]
<1> DEFINE n == Len(fees)
           h == Whole(n, p)
<1>1. n \in Nat \ {0} /\ h \in Nat
  <2>1. n \in Nat /\ n >= 1
    BY ListType, Zenon
  <2>2. h \in Nat
    BY <2>1, PositionType, Zenon
  <2> QED BY <2>1, <2>2, SMT
<1>2. \A i \in 1..n : fees[i] \in Nat /\ fees[1] <= fees[i] /\ fees[i] <= fees[n]
  BY <1>1, ListType, SMT
<1>3. 1 \in 1..n /\ n \in 1..n
  BY <1>1, SMT
<1>4. CASE AtBottom(n, p)
  <2>1. Quantile(fees, p) = fees[1]
    BY <1>4, QuantileAtEnds
  <2>2. fees[1] \in Nat /\ fees[1] <= fees[n]
    BY <1>2, <1>3
  <2> QED BY <2>1, <2>2, SMT
<1>5. CASE AtTop(n, p)
  <2>1. Quantile(fees, p) = fees[n]
    BY <1>5, QuantileAtEnds
  <2>2. fees[n] \in Nat /\ fees[1] <= fees[n]
    BY <1>2, <1>3
  <2> QED BY <2>1, <2>2, SMT
<1>6. CASE Inside(n, p)
  <2>1. /\ h \in 1..(n - 1) /\ Quantile(fees, p) \in Nat
        /\ fees[h] <= Quantile(fees, p) /\ Quantile(fees, p) <= fees[h + 1]
    BY <1>6, QuantileInside
  <2>2. h \in 1..n /\ h + 1 \in 1..n
    BY <2>1, <1>1, SMT
  <2>3. /\ fees[h] \in Nat /\ fees[1] <= fees[h] /\ fees[1] \in Nat
        /\ fees[h + 1] \in Nat /\ fees[h + 1] <= fees[n] /\ fees[n] \in Nat
    BY <1>1, <1>2, <2>2, SMT
  <2> HIDE DEF h, n
  <2> QED BY <2>1, <2>3, SMT DEF n
<1> QED BY <1>4, <1>5, <1>6 DEF Inside

(***************************************************************************)
(* A higher percentile of the same list is not a lower fee.                *)
(***************************************************************************)
LEMMA QuantileMonotone ==
  ASSUME NEW fees \in Ascending, fees # <<>>,
         NEW p \in Percents, NEW q \in Percents, p <= q
  PROVE  Quantile(fees, p) <= Quantile(fees, q)
<1> DEFINE n == Len(fees)
           h == Whole(n, p)
           g == Whole(n, q)
<1>1. n \in Nat \ {0}
  BY ListType, SMT
<1>2. n \in Nat
  BY <1>1, Zenon
<1>3. /\ h \in Nat /\ g \in Nat
      /\ Part(n, p) \in 0..299 /\ Part(n, q) \in 0..299
      /\ h <= g /\ (h = g => Part(n, p) <= Part(n, q))
  <2>1. IsSplit(Position(n, p), h, Part(n, p))
    BY <1>2, PositionType, Zenon
  <2>2. IsSplit(Position(n, q), g, Part(n, q))
    BY <1>2, PositionType, Zenon
  <2>3. Position(n, p) <= Position(n, q)
    BY <1>2, PositionMonotone, Zenon
  <2>4. h <= g /\ (h = g => Part(n, p) <= Part(n, q))
    <3> DEFINE x == Position(n, p)
               y == Position(n, q)
               r == Part(n, p)
               t == Part(n, q)
    <3>1. IsSplit(x, h, r) /\ IsSplit(y, g, t) /\ x <= y
      BY <2>1, <2>2, <2>3, Zenon
    <3> HIDE DEF n, h, g, x, y, r, t
    <3>2. h <= g /\ (h = g => r <= t)
      BY <3>1, SMT DEF IsSplit
    <3> QED BY <3>2, Zenon DEF r, t
  <2> HIDE DEF n, h, g
  <2> QED BY <2>1, <2>2, <2>4, Zenon DEF IsSplit
<1>4. CASE AtBottom(n, p)
  <2>1. Quantile(fees, p) = fees[1]
    BY <1>4, QuantileAtEnds, Zenon
  <2>2. fees[1] <= Quantile(fees, q)
    BY QuantileBounds, Zenon
  <2> QED BY <2>1, <2>2, Zenon
<1>5. CASE AtTop(n, q)
  <2>1. Quantile(fees, q) = fees[n]
    BY <1>5, QuantileAtEnds, Zenon
  <2>2. Quantile(fees, p) <= fees[n]
    BY QuantileBounds, Zenon
  <2> QED BY <2>1, <2>2, Zenon
<1>6. CASE ~ AtBottom(n, p) /\ ~ AtTop(n, q)
  <2>1. Inside(n, p) /\ Inside(n, q)
    <3> HIDE DEF n
    <3> QED BY <1>1, <1>3, <1>6, SMT DEF Inside, AtBottom, AtTop, Percents, h, g
  <2>2. /\ h \in 1..(n - 1) /\ Quantile(fees, p) \in Nat
        /\ Quantile(fees, p) <= fees[h + 1]
        /\ Quantile(fees, p) = Between(fees[h], fees[h + 1], Part(n, p))
    BY <2>1, QuantileInside, Zenon
  <2>3. /\ g \in 1..(n - 1) /\ Quantile(fees, q) \in Nat
        /\ fees[g] <= Quantile(fees, q)
        /\ Quantile(fees, q) = Between(fees[g], fees[g + 1], Part(n, q))
    BY <2>1, QuantileInside, Zenon
  <2>4. \A i, j \in 1..n :
          fees[i] \in Nat /\ fees[j] \in Nat /\ (i <= j => fees[i] <= fees[j])
    BY ListType, Zenon
  <2>5. CASE h = g
    <3>1. fees[h] \in Nat /\ fees[h + 1] \in Nat /\ fees[h] <= fees[h + 1]
      <4>1. h \in 1..n /\ h + 1 \in 1..n /\ h <= h + 1
        <5> HIDE DEF n, h
        <5> QED BY <1>2, <2>2, SMT
      <4> QED BY <2>4, <4>1, Zenon
    <3>2. Between(fees[h], fees[h + 1], Part(n, p))
            <= Between(fees[h], fees[h + 1], Part(n, q))
      BY <1>3, <2>5, <3>1, BetweenMonotone, Zenon
    <3> QED BY <3>2, <2>2, <2>3, <2>5, Zenon
  <2>6. CASE h < g
    <3>1. h + 1 \in 1..n /\ g \in 1..n /\ h + 1 <= g
      <4> HIDE DEF n, h, g
      <4> QED BY <1>2, <2>2, <2>3, <2>6, SMT
    <3>2. /\ fees[h + 1] \in Nat /\ fees[g] \in Nat /\ fees[h + 1] <= fees[g]
      BY <2>4, <3>1, Zenon
    <3> HIDE DEF h, g, n
    <3> QED BY <3>2, <2>2, <2>3, SMT
  <2> HIDE DEF h, g
  <2> QED BY <2>5, <2>6, <1>3, SMT
<1> QED BY <1>4, <1>5, <1>6

(***************************************************************************)
(* Product and quotient of a percentile, as linear facts.                  *)
(***************************************************************************)
\* N is n times p.
IsPercentOf(N, n, p) ==
  /\ N \in Nat /\ N <= 100 * n
  /\ n * (100 - p) = 100 * n - N
  /\ Position(n, p) = 3 * N + p + 100
  /\ p = 0 => N = 0
  /\ p = 100 => N = 100 * n

LEMMA PercentOf ==
  ASSUME NEW n \in Nat, NEW p \in Percents
  PROVE  IsPercentOf(n * p, n, p)
<1>1. n * p \in Nat /\ n * (100 - p) \in Nat
  BY SMT DEF Percents
<1>2. n * (100 - p) = 100 * n - n * p
  BY SMT DEF Percents
<1>3. (3 * n + 1) * p = 3 * (n * p) + p
  BY SMT DEF Percents
<1>4. (p = 0 => n * p = 0) /\ (p = 100 => n * p = 100 * n)
  BY SMT
<1> QED BY <1>1, <1>2, <1>3, <1>4, SMT DEF Position, IsPercentOf

(***************************************************************************)
(* The p-th percentile is not below p percent of the list, rounded down,   *)
(* and not above 100 - p percent of it, rounded down, nor above all of it. *)
(***************************************************************************)
LEMMA QuantileOutbids ==
  ASSUME NEW fees \in Ascending, NEW p \in Percents,
         NEW i \in 1..((Len(fees) * p) \div 100)
  PROVE  fees[i] <= Quantile(fees, p)
<1> DEFINE n == Len(fees)
           h == Whole(n, p)
           N == n * p
<1>1. n \in Nat
  BY ListType, Zenon
<1>2. IsSplit(Position(n, p), h, Part(n, p)) /\ IsPercentOf(N, n, p)
  BY <1>1, PositionType, PercentOf, Zenon
<1>3. i \in 1..n /\ i <= h /\ p # 0
  <2>1. i \in 1..(N \div 100)
    OBVIOUS
  <2> DEFINE r == Part(n, p)
  <2> HIDE DEF n, h, N
  <2>2. /\ N \in Nat /\ N <= 100 * n /\ Position(n, p) = 3 * N + p + 100
        /\ p = 0 => N = 0
    BY <1>2, Zenon DEF IsPercentOf
  <2>3. h \in Nat /\ r \in 0..299 /\ Position(n, p) = 300 * h + r
    BY <1>2, Zenon DEF IsSplit
  <2> HIDE DEF r
  <2>4. 3 * N + p + 100 = 300 * h + r /\ p \in 0..100
    BY <2>2, <2>3, Zenon DEF Percents
  <2> QED BY <1>1, <2>1, <2>2, <2>3, <2>4, SMT
<1>4. h \in Nat /\ n \in 1..n
  <2> HIDE DEF n, h, N
  <2> QED BY <1>1, <1>2, <1>3, SMT DEF IsSplit
<1>5. \A j, k \in 1..n : fees[j] \in Nat /\ (j <= k => fees[j] <= fees[k])
  BY ListType, Zenon
<1>6. CASE AtTop(n, p)
  <2>1. Quantile(fees, p) = fees[n]
    BY <1>6, QuantileAtEnds, Zenon
  <2>2. i <= n
    <3> HIDE DEF n
    <3> QED BY <1>1, <1>3, SMT
  <2>3. fees[i] <= fees[n]
    BY <2>2, <1>3, <1>4, <1>5, Zenon
  <2> QED BY <2>1, <2>3, Zenon
<1>7. CASE Inside(n, p)
  <2>1. /\ h \in 1..(n - 1) /\ Quantile(fees, p) \in Nat
        /\ fees[h] <= Quantile(fees, p)
    BY <1>7, QuantileInside, Zenon
  <2>2. h \in 1..n
    <3> HIDE DEF n, h
    <3> QED BY <1>1, <2>1, SMT
  <2>3. fees[i] \in Nat /\ fees[h] \in Nat /\ fees[i] <= fees[h]
    BY <1>3, <1>5, <2>2, Zenon
  <2> HIDE DEF h
  <2> QED BY <2>1, <2>3, SMT
<1>8. ~ AtBottom(n, p)
  <2>1. ~ (h <= 0)
    <3> HIDE DEF n, h, N
    <3> QED BY <1>3, <1>4, SMT
  <2> QED BY <1>3, <2>1, Zenon DEF AtBottom
<1> QED BY <1>6, <1>7, <1>8 DEF Inside

LEMMA QuantileNeeded ==
  ASSUME NEW fees \in Ascending, fees # <<>>, NEW p \in Percents,
         NEW i \in (Len(fees) - Share(Len(fees), p) + 1)..Len(fees)
  PROVE  Quantile(fees, p) <= fees[i]
<1> DEFINE n == Len(fees)
           h == Whole(n, p)
           N == n * p
           k == Share(n, p)
<1>1. n \in Nat /\ n >= 1
  BY ListType, Zenon
<1>2. IsSplit(Position(n, p), h, Part(n, p)) /\ IsPercentOf(N, n, p)
  BY <1>1, PositionType, PercentOf, Zenon
<1>3. k = IF 100 * n - N < 100 THEN 1 ELSE (100 * n - N) \div 100
  <2> HIDE DEF n, N
  <2> QED BY <1>2, SMT DEF Share, IsPercentOf, k
<1>4. i \in (n - k + 1)..n
  OBVIOUS
<1>5. /\ i \in 1..n /\ h \in Nat
      /\ h < n => i >= h + 1
      /\ h >= n \/ p = 100 => i = n
  <2> HIDE DEF n, h, N, k
  <2>1. k \in 1..n /\ (h < n => k <= n - h) /\ (h >= n \/ p = 100 => k = 1)
    <3> DEFINE r == Part(n, p)
    <3>1. /\ N \in Nat /\ N <= 100 * n /\ Position(n, p) = 3 * N + p + 100
          /\ p = 100 => N = 100 * n
      BY <1>2, Zenon DEF IsPercentOf
    <3>2. h \in Nat /\ r \in 0..299 /\ Position(n, p) = 300 * h + r
      BY <1>2, Zenon DEF IsSplit
    <3> HIDE DEF r
    <3>3. 3 * N + p + 100 = 300 * h + r /\ p \in 0..100
      BY <3>1, <3>2, Zenon DEF Percents
    <3> QED BY <1>1, <1>3, <3>1, <3>2, <3>3, SMT
  <2> QED BY <1>1, <1>2, <1>4, <2>1, SMT DEF IsSplit
<1>6. \A j, m \in 1..n : fees[j] \in Nat /\ (j <= m => fees[j] <= fees[m])
  BY ListType, Zenon
<1>7. CASE AtBottom(n, p)
  <2>1. Quantile(fees, p) = fees[1]
    BY <1>7, QuantileAtEnds, Zenon
  <2>2. 1 \in 1..n /\ 1 <= i
    <3> HIDE DEF n, h
    <3> QED BY <1>1, <1>5, SMT
  <2>3. fees[1] <= fees[i]
    BY <2>2, <1>5, <1>6, Zenon
  <2> QED BY <2>1, <2>3, Zenon
<1>8. CASE AtTop(n, p)
  <2>1. Quantile(fees, p) = fees[n] /\ i = n
    BY <1>5, <1>8, QuantileAtEnds, Zenon DEF AtTop
  <2>2. fees[n] \in Nat
    BY <1>5, <1>6, <2>1, Zenon
  <2> QED BY <2>1, <2>2, SMT
<1>9. CASE Inside(n, p)
  <2>1. /\ h \in 1..(n - 1) /\ Quantile(fees, p) \in Nat
        /\ Quantile(fees, p) <= fees[h + 1]
    BY <1>9, QuantileInside, Zenon
  <2>2. h + 1 \in 1..n /\ h + 1 <= i
    <3> HIDE DEF n, h
    <3> QED BY <1>1, <1>5, <2>1, SMT
  <2>3. fees[i] \in Nat /\ fees[h + 1] \in Nat /\ fees[h + 1] <= fees[i]
    BY <1>5, <1>6, <2>2, Zenon
  <2> HIDE DEF h
  <2> QED BY <2>1, <2>3, SMT
<1> QED BY <1>7, <1>8, <1>9 DEF Inside

(***************************************************************************)
(* A zero in front of a list moves every fee up by one place and the       *)
(* position of a percentile by at most one.                                *)
(***************************************************************************)
LEMMA ZeroInFront ==
  ASSUME NEW fees \in Ascending
  PROVE  /\ << 0 >> \o fees \in Ascending
         /\ Len(<< 0 >> \o fees) = Len(fees) + 1
         /\ (<< 0 >> \o fees)[1] = 0
         /\ \A i \in 1..Len(fees) : (<< 0 >> \o fees)[i + 1] = fees[i]
<1> DEFINE new == << 0 >> \o fees
           n == Len(fees)
<1>1. fees \in Seq(Nat) /\ n \in Nat
  BY ListType DEF Ascending
<1>2. /\ new \in Seq(Nat) /\ Len(new) = n + 1 /\ new[1] = 0
      /\ \A i \in 1..n : new[i + 1] = fees[i]
  BY <1>1, SMT
<1>3. \A i, j \in 1..n : fees[i] \in Nat /\ (i <= j => fees[i] <= fees[j])
  BY ListType
<1> HIDE DEF new, n
<1>4. ASSUME NEW i \in 1..(n + 1), NEW j \in 1..(n + 1), i <= j
      PROVE  new[i] <= new[j]
  <2>1. CASE i = 1 /\ j = 1
    BY <1>2, <2>1, SMT
  <2>2. CASE i = 1 /\ j # 1
    <3>1. j - 1 \in 1..n /\ (j - 1) + 1 = j
      BY <1>1, <2>2, SMT
    <3>2. new[j] = fees[j - 1] /\ fees[j - 1] \in Nat
      BY <1>2, <1>3, <3>1
    <3> QED BY <1>2, <2>2, <3>2, SMT
  <2>3. CASE i # 1
    <3>1. /\ i - 1 \in 1..n /\ (i - 1) + 1 = i
          /\ j - 1 \in 1..n /\ (j - 1) + 1 = j /\ i - 1 <= j - 1
      BY <1>1, <1>4, <2>3, SMT
    <3>2. new[i] = fees[i - 1] /\ new[j] = fees[j - 1]
      BY <1>2, <3>1
    <3> QED BY <1>3, <3>1, <3>2
  <2> QED BY <2>1, <2>2, <2>3
<1>5. Sorted(new)
  BY <1>2, <1>4, Zenon DEF Sorted
<1> QED BY <1>2, <1>5, Zenon DEF Ascending, new, n

LEMMA PositionOfLonger ==
  ASSUME NEW n \in Nat, NEW p \in Percents
  PROVE  /\ Whole(n + 1, p) = Whole(n, p) \/ /\ Whole(n + 1, p) = Whole(n, p) + 1
                                             /\ Part(n + 1, p) <= Part(n, p)
         /\ p = 100 => Whole(n, p) = n
<1> DEFINE x == Position(n, p)
           y == Position(n + 1, p)
           h == Whole(n, p)
           g == Whole(n + 1, p)
           r == Part(n, p)
           t == Part(n + 1, p)
<1>1. IsSplit(x, h, r) /\ IsSplit(y, g, t)
  <2>1. n + 1 \in Nat
    BY SMT
  <2> QED BY <2>1, PositionType, Zenon
<1>2. x \in Nat /\ y = x + 3 * p
  BY SMT DEF Position, Percents
<1>3. p = 100 => x = 300 * n + 200
  BY SMT DEF Position
<1> HIDE DEF x, y, h, g, r, t
<1>4. (g = h \/ (g = h + 1 /\ t <= r)) /\ (p = 100 => h = n)
  BY <1>1, <1>2, <1>3, SMT DEF IsSplit, Percents
<1> QED BY <1>4, Zenon DEF h, g, r, t

(***************************************************************************)
(* So it raises no percentile of the list.                                 *)
(***************************************************************************)
LEMMA QuantileWithZero ==
  ASSUME NEW fees \in Ascending, fees # <<>>, NEW p \in Percents,
         NEW new, new = << 0 >> \o fees
  PROVE  Quantile(new, p) <= Quantile(fees, p)
<1> DEFINE n == Len(fees)
           h == Whole(n, p)
           g == Whole(n + 1, p)
           r == Part(n, p)
           t == Part(n + 1, p)
<1>1. n \in Nat \ {0} /\ n \in Nat /\ n + 1 \in Nat
  BY ListType, SMT
<1>2. /\ new \in Ascending /\ new # <<>> /\ Len(new) = n + 1 /\ new[1] = 0
      /\ \A i \in 1..n : new[i + 1] = fees[i]
  <2>1. /\ new \in Ascending /\ Len(new) = n + 1 /\ new[1] = 0
        /\ \A i \in 1..n : new[i + 1] = fees[i]
    BY ZeroInFront, Zenon
  <2>2. Len(<<>>) = 0 /\ n + 1 # 0
    BY <1>1, SMT
  <2> QED BY <2>1, <2>2, Zenon
<1>3. \A i, j \in 1..n : fees[i] \in Nat /\ (i <= j => fees[i] <= fees[j])
  BY ListType, Zenon
<1>4. /\ g = h \/ (g = h + 1 /\ t <= r)
      /\ p = 100 => h = n
  BY <1>1, PositionOfLonger, Zenon
<1>5. h \in Nat /\ g \in Nat /\ r \in 0..299 /\ t \in 0..299
  BY <1>1, PositionType, ZenonT(30) DEF IsSplit
<1>6. /\ Quantile(fees, p) \in Nat /\ fees[1] <= Quantile(fees, p)
      /\ Quantile(new, p) \in Nat
  BY <1>2, QuantileBounds, Zenon
<1>7. CASE AtBottom(n + 1, p)
  <2>1. Quantile(new, p) = 0
    BY <1>2, <1>7, QuantileAtEnds, Zenon
  <2> QED BY <1>6, <2>1, SMT
<1>8. CASE AtTop(n + 1, p)
  <2>1. Quantile(new, p) = new[n + 1] /\ n \in 1..n
    <3>1. n \in 1..n
      <4> HIDE DEF n
      <4> QED BY <1>1, SMT
    <3> QED BY <1>2, <1>8, <3>1, QuantileAtEnds, Zenon
  <2>2. AtTop(n, p)
    <3>1. (g >= n + 1 \/ p = 100) /\ p # 0
      BY <1>8, Zenon DEF AtTop, AtBottom
    <3>2. ~ (h <= 0) /\ h >= n
      <4> HIDE DEF n, h, g, r, t
      <4> QED BY <1>1, <1>4, <1>5, <3>1, SMT
    <3> QED BY <3>1, <3>2, Zenon DEF AtTop, AtBottom
  <2>3. Quantile(fees, p) = fees[n] /\ new[n + 1] = fees[n] /\ fees[n] \in Nat
    BY <1>2, <1>3, <2>1, <2>2, QuantileAtEnds, Zenon
  <2> QED BY <1>6, <2>1, <2>3, SMT
<1>9. CASE Inside(n + 1, p)
  <2>1. /\ g \in 1..((n + 1) - 1)
        /\ Quantile(new, p) <= new[g + 1]
        /\ Quantile(new, p) = Between(new[g], new[g + 1], t)
    BY <1>2, <1>9, QuantileInside, Zenon
  <2>2. g \in 1..n /\ ~ (p = 0 \/ p = 100)
    <3>1. g \in 1..n
      <4> HIDE DEF n, g
      <4> QED BY <1>1, <2>1, SMT
    <3> QED BY <1>9, <3>1, Zenon DEF Inside, AtTop, AtBottom
  <2>3. new[g + 1] = fees[g] /\ fees[g] \in Nat
    BY <1>2, <1>3, <2>2, Zenon
  <2>4. Quantile(new, p) <= fees[g]
    BY <2>1, <2>3, Zenon
  <2>5. CASE g = h
    <3>1. fees[h] <= Quantile(fees, p)
      <4>1. ~ AtBottom(n, p)
        <5>1. ~ (h <= 0)
          <6> HIDE DEF n, h, g
          <6> QED BY <1>1, <2>2, <2>5, SMT
        <5> QED BY <2>2, <5>1, Zenon DEF AtBottom
      <4>2. CASE AtTop(n, p)
        <5>1. Quantile(fees, p) = fees[n]
          BY <4>2, QuantileAtEnds, Zenon
        <5>2. n \in 1..n /\ h <= n
          <6> HIDE DEF n, h, g
          <6> QED BY <1>1, <2>2, <2>5, SMT
        <5> QED BY <1>3, <2>2, <2>5, <5>1, <5>2, Zenon
      <4>3. CASE Inside(n, p)
        BY <4>3, QuantileInside, Zenon
      <4> QED BY <4>1, <4>2, <4>3, Zenon DEF Inside
    <3>2. Quantile(new, p) <= fees[h] /\ fees[h] \in Nat
      BY <2>3, <2>4, <2>5, Zenon
    <3> HIDE DEF h
    <3> QED BY <1>6, <3>1, <3>2, SMT
  <2>6. CASE g = h + 1 /\ h = 0
    <3>1. g = 1
      <4> HIDE DEF h, g
      <4> QED BY <2>6, SMT
    <3>2. Quantile(new, p) <= fees[1] /\ fees[1] \in Nat
      BY <2>3, <2>4, <3>1, Zenon
    <3> QED BY <1>6, <3>2, SMT
  <2>7. CASE g = h + 1 /\ h # 0 /\ t <= r
    <3>1. /\ h \in 1..n /\ h + 1 \in 1..n /\ h <= h + 1
          /\ ~ (h <= 0) /\ ~ (h >= n)
      <4> HIDE DEF n, h, g, r, t
      <4> QED BY <1>1, <1>5, <2>2, <2>7, SMT
    <3>2. Inside(n, p)
      BY <2>2, <3>1, Zenon DEF Inside, AtTop, AtBottom
    <3>3. Quantile(fees, p) = Between(fees[h], fees[h + 1], r)
      BY <3>2, QuantileInside, Zenon
    <3>4. new[g] = fees[h] /\ new[g + 1] = fees[h + 1]
      BY <1>2, <2>3, <2>7, <3>1, Zenon
    <3>5. fees[h] \in Nat /\ fees[h + 1] \in Nat /\ fees[h] <= fees[h + 1]
      BY <1>3, <3>1, Zenon
    <3>6. Between(fees[h], fees[h + 1], t) <= Between(fees[h], fees[h + 1], r)
      BY <1>5, <2>7, <3>5, BetweenMonotone, Zenon
    <3> QED BY <2>1, <3>3, <3>4, <3>6, Zenon
  <2> QED BY <1>4, <2>5, <2>6, <2>7, Zenon
<1> QED BY <1>7, <1>8, <1>9, Zenon DEF Inside

-----------------------------------------------------------------------------
LEMMA PercentileType ==
  ASSUME NEW l \in PriorityLevel
  PROVE  Percentile[l] \in Percents
BY SMT DEF PriorityLevel, Percentile, Percents

LEMMA DataLists ==
  ASSUME TypeOK, NEW k \in DataType
  PROVE  data[k] \in Ascending
<1>1. data[k] \in Lists
  BY Zenon DEF TypeOK, Lists
<1> QED BY <1>1, ListsAscend, Zenon

(***************************************************************************)
(* An estimate is the highest of its lists' percentiles, or 0.             *)
(***************************************************************************)
FilledIn(d) == {k \in DataType : d[k] # <<>>}
EstimateFrom(d, l) ==
  Max({0} \cup {Quantile(d[k], Percentile[l]) : k \in FilledIn(d)})

LEMMA EstimateFromIsMax ==
  ASSUME NEW d \in [DataType -> Lists], NEW l \in PriorityLevel
  PROVE  /\ EstimateFrom(d, l) \in Nat
         /\ \A k \in FilledIn(d) : Quantile(d[k], Percentile[l]) <= EstimateFrom(d, l)
         /\ \/ EstimateFrom(d, l) = 0
            \/ \E k \in FilledIn(d) : EstimateFrom(d, l) = Quantile(d[k], Percentile[l])
<1> DEFINE Q(k) == Quantile(d[k], Percentile[l])
           S == {0} \cup {Q(k) : k \in FilledIn(d)}
<1>1. \A k \in FilledIn(d) : Q(k) \in Nat /\ Q(k) <= MaxFee
  <2> SUFFICES ASSUME NEW k \in FilledIn(d) PROVE Q(k) \in Nat /\ Q(k) <= MaxFee
    OBVIOUS
  <2>1. d[k] \in Lists /\ d[k] \in Ascending /\ d[k] # <<>>
    BY ListsAscend, Zenon DEF FilledIn
  <2>2. Q(k) \in Nat /\ Q(k) <= d[k][Len(d[k])]
    BY <2>1, PercentileType, QuantileBounds
  <2>3. d[k][Len(d[k])] \in Nat /\ d[k][Len(d[k])] <= MaxFee
    <3>1. Len(d[k]) \in 1..Len(d[k])
      BY <2>1, ListType, SMT
    <3> QED BY <2>1, <3>1, ListsAscend, ListType, Zenon
  <2> HIDE DEF Q
  <2> QED BY <2>2, <2>3, PercentilesAssumption, SMT
<1>2. S \in SUBSET Nat /\ S # {} /\ \A x \in S : x <= MaxFee
  <2> HIDE DEF Q
  <2> QED BY <1>1, PercentilesAssumption, SMT
<1>3. Max(S) \in S /\ \A x \in S : x <= Max(S)
  <2> HIDE DEF S
  <2> QED BY <1>2, MaxOfBounded, PercentilesAssumption
<1>4. EstimateFrom(d, l) = Max(S)
  BY DEF EstimateFrom
<1> HIDE DEF Q
<1>5. EstimateFrom(d, l) \in S /\ \A x \in S : x <= EstimateFrom(d, l)
  BY <1>3, <1>4
<1> QED BY <1>2, <1>5 DEF Q

LEMMA EstimateIsMax ==
  ASSUME TypeOK, NEW l \in PriorityLevel
  PROVE  /\ Estimate(l) \in Nat
         /\ \A k \in Filled : Quantile(data[k], Percentile[l]) <= Estimate(l)
         /\ \/ Estimate(l) = 0
            \/ \E k \in Filled : Estimate(l) = Quantile(data[k], Percentile[l])
<1>1. data \in [DataType -> Lists]
  BY DEF TypeOK, Lists
<1>2. Filled = FilledIn(data) /\ Estimate(l) = EstimateFrom(data, l)
  BY DEF Filled, FilledIn, Estimate, EstimateFrom
<1> QED BY <1>1, <1>2, EstimateFromIsMax, Zenon

-----------------------------------------------------------------------------
(* What two lists make when one follows the other. *)
LEMMA JoinedType ==
  ASSUME NEW S, NEW a \in Seq(S), NEW b \in Seq(S)
  PROVE  a \o b \in Seq(S) /\ Len(a \o b) = Len(a) + Len(b)
OBVIOUS

(***************************************************************************)
(* A fee that takes its place in a sorted list leaves it sorted.           *)
(***************************************************************************)
LEMMA InsertType ==
  ASSUME NEW fees \in Lists, NEW x \in Fee,
         NEW i \in 1..(Len(fees) + 1), IsPlace(fees, i, x)
  PROVE  InsertAt(fees, i, x) \in Lists
<1> DEFINE n == Len(fees)
           new == InsertAt(fees, i, x)
<1>0. fees \in Ascending
  BY ListsAscend
<1>1. fees \in Seq(Fee) /\ n \in Nat
  BY <1>0, ListType DEF Lists
<1>2. /\ new \in Seq(Fee) /\ Len(new) = n + 1
      /\ \A j \in 1..(n + 1) :
           new[j] = IF j < i THEN fees[j] ELSE IF j = i THEN x ELSE fees[j - 1]
  <2> DEFINE front == SubSeq(fees, 1, i - 1)
             back == SubSeq(fees, i, n)
  <2>1. /\ front \in Seq(Fee) /\ Len(front) = i - 1
        /\ \A j \in 1..(i - 1) : front[j] = fees[j]
    BY <1>1, SMT
  <2>2. /\ back \in Seq(Fee) /\ Len(back) = n - i + 1
        /\ \A j \in 1..(n - i + 1) : back[j] = fees[j + i - 1]
    BY <1>1, SMT
  <2>3. new = front \o <<x>> \o back
    BY DEF InsertAt
  <2>0. n \in Nat /\ i \in 1..(n + 1)
    BY <1>1
  <2> HIDE DEF front, back, new, n
  <2> DEFINE upto == front \o <<x>>
  <2>4. /\ upto \in Seq(Fee) /\ Len(upto) = i
        /\ \A j \in 1..i : upto[j] = IF j < i THEN fees[j] ELSE x
    BY <1>1, <2>1, SMT
  <2>5. new = upto \o back
    BY <2>3
  <2> HIDE DEF upto
  <2>6. /\ new \in Seq(Fee) /\ Len(new) = n + 1
        /\ \A j \in 1..i : new[j] = upto[j]
        /\ \A j \in (i + 1)..(n + 1) : new[j] = back[j - i]
    <3>1. upto \in Seq(Fee) /\ Len(upto) = i /\ back \in Seq(Fee) /\ Len(back) = n - i + 1
      BY <2>2, <2>4
    <3>2. new \in Seq(Fee) /\ Len(new) = n + 1
      <4>1. new \in Seq(Fee) /\ Len(new) = Len(upto) + Len(back)
        BY <2>5, <3>1, JoinedType
      <4> QED BY <2>0, <3>1, <4>1
    <3>3. \A j \in 1..i : new[j] = upto[j]
      BY <2>0, <2>5, <3>1, SMT
    <3>4. \A j \in (i + 1)..(n + 1) : new[j] = back[j - i]
      BY <2>0, <2>5, <3>1, SMT
    <3> QED BY <3>2, <3>3, <3>4
  <2>7. ASSUME NEW j \in 1..(n + 1)
        PROVE  new[j] = IF j < i THEN fees[j] ELSE IF j = i THEN x ELSE fees[j - 1]
    <3>1. CASE j \in 1..i
      BY <2>0, <2>4, <2>6, <3>1
    <3>2. CASE j \in (i + 1)..(n + 1)
      <4>1. j - i \in 1..(n - i + 1)
        BY <2>0, <3>2
      <4> QED BY <2>0, <2>2, <2>6, <3>2, <4>1
    <3> QED BY <2>0, <3>1, <3>2
  <2> QED BY <2>6, <2>7
<1>3. \A j \in 1..n : fees[j] \in Nat
  BY <1>0, ListType
<1>4. \A j, k \in 1..n : j <= k => fees[j] <= fees[k]
  BY <1>0, ListType
<1>5. x \in Nat
  BY FeeIsNat
<1>6. i \in 1..(n + 1)
  OBVIOUS
<1>7. \A j, k \in 1..(n + 1) : j <= k => new[j] <= new[k]
  <2> SUFFICES ASSUME NEW j \in 1..(n + 1), NEW k \in 1..(n + 1), j <= k
               PROVE  new[j] <= new[k]
    OBVIOUS
  <2> HIDE DEF new, n
  <2>1. CASE k < i
    <3>1. j \in 1..n /\ k \in 1..n
      BY <1>1, <1>6, <2>1, SMT
    <3>2. new[j] = fees[j] /\ new[k] = fees[k]
      BY <1>1, <1>2, <2>1, SMT
    <3> QED BY <1>4, <3>1, <3>2
  <2>2. CASE k = i
    <3>1. \A m \in 1..(i - 1) : fees[m] <= x
      BY DEF IsPlace
    <3> QED BY <1>1, <1>2, <1>5, <2>2, <3>1, SMT
  <2>3. CASE k > i /\ j = i
    <3>1. k - 1 \in i..n
      BY <1>1, <2>3, SMT
    <3>2. x < fees[k - 1] /\ fees[k - 1] \in Nat
      BY <1>1, <1>3, <3>1, SMT DEF IsPlace, n
    <3>3. new[j] = x /\ new[k] = fees[k - 1]
      BY <1>1, <1>2, <2>3, SMT
    <3> QED BY <1>5, <3>2, <3>3, SMT
  <2>4. CASE k > i /\ j < i
    <3>1. j \in 1..n /\ k - 1 \in 1..n /\ j <= k - 1
      BY <1>1, <2>4, SMT
    <3>2. fees[j] <= fees[k - 1]
      BY <1>4, <3>1
    <3>3. new[j] = fees[j] /\ new[k] = fees[k - 1]
      BY <1>1, <1>2, <2>4, SMT
    <3> QED BY <3>2, <3>3
  <2>5. CASE k > i /\ j > i
    <3>1. j - 1 \in 1..n /\ k - 1 \in 1..n /\ j - 1 <= k - 1
      BY <1>1, <2>5, SMT
    <3>2. fees[j - 1] <= fees[k - 1]
      BY <1>4, <3>1
    <3>3. new[j] = fees[j - 1] /\ new[k] = fees[k - 1]
      BY <1>1, <1>2, <2>5, SMT
    <3> QED BY <3>2, <3>3
  <2> QED BY <1>1, <2>1, <2>2, <2>3, <2>4, <2>5, SMT
<1> HIDE DEF new
<1> QED BY <1>2, <1>7 DEF Lists, Sorted, new

(***************************************************************************)
(* The lists stay in the form of the model: fees, in order.                *)
(***************************************************************************)
LEMMA TypeCorrect == Spec => []TypeOK
<1>1. <<>> \in Lists
  BY SMT DEF Lists, Sorted
<1>2. Init => TypeOK
  BY <1>1 DEF Init, TypeOK, Lists
<1>3. TypeOK /\ [Next]_data => TypeOK'
  <2> SUFFICES ASSUME TypeOK, [Next]_data PROVE TypeOK'
    OBVIOUS
  <2> USE DEF TypeOK
  <2>1. data \in [DataType -> Lists]
    BY DEF Lists
  <2>2. ASSUME NEW k \in DataType, NEW x \in Fee, Extend(k, x)
        PROVE  data' \in [DataType -> Lists]
    <3>1. PICK i \in 1..(Len(data[k]) + 1) :
            /\ IsPlace(data[k], i, x)
            /\ data' = [data EXCEPT ![k] = InsertAt(data[k], i, x)]
      BY <2>2 DEF Extend
    <3>2. InsertAt(data[k], i, x) \in Lists
      BY <2>1, <3>1, InsertType
    <3> QED BY <2>1, <3>1, <3>2
  <2>3. CASE Answer
    BY <1>1, <2>3 DEF Answer, Lists
  <2>4. CASE UNCHANGED data
    BY <2>4
  <2> QED BY <2>2, <2>3, <2>4 DEF Next, Lists
<1> QED BY <1>2, <1>3, PTL DEF Spec

(***************************************************************************)
(* The levels of every answer are in the order of their names: each list's *)
(* percentiles are, and so are the maxima over the lists.                  *)
(***************************************************************************)
THEOREM LevelsAreOrdered == Spec => []LevelsOrdered
<1>1. TypeOK => LevelsOrdered
  <2> SUFFICES ASSUME TypeOK, NEW l \in PriorityLevel, NEW m \in PriorityLevel,
                      Percentile[l] <= Percentile[m]
               PROVE  Estimate(l) <= Estimate(m)
    BY DEF LevelsOrdered
  <2>1. Estimate(l) \in Nat /\ Estimate(m) \in Nat
    BY EstimateIsMax
  <2>2. CASE Estimate(l) = 0
    BY <2>1, <2>2, SMT
  <2>3. ASSUME NEW k \in Filled, Estimate(l) = Quantile(data[k], Percentile[l])
        PROVE  Estimate(l) <= Estimate(m)
    <3>1. data[k] \in Ascending /\ data[k] # <<>>
      BY DataLists DEF Filled
    <3>2. Estimate(l) <= Quantile(data[k], Percentile[m])
      BY <2>3, <3>1, PercentileType, QuantileMonotone
    <3>3. Quantile(data[k], Percentile[m]) \in Nat
      BY <3>1, PercentileType, QuantileBounds
    <3>4. Quantile(data[k], Percentile[m]) <= Estimate(m)
      BY EstimateIsMax
    <3> QED BY <2>1, <3>2, <3>3, <3>4, SMT
  <2> QED BY <2>2, <2>3, EstimateIsMax
<1> QED BY <1>1, TypeCorrect, PTL

(***************************************************************************)
(* The p-th level pays at least what p percent of the transactions of      *)
(* every list paid.                                                        *)
(***************************************************************************)
THEOREM LevelsOutbid == Spec => []OutbidsItsShare
<1>1. TypeOK => OutbidsItsShare
  <2> SUFFICES ASSUME TypeOK, NEW l \in PriorityLevel, NEW k \in DataType,
                      NEW i \in 1..((Len(data[k]) * Percentile[l]) \div 100)
               PROVE  data[k][i] <= Estimate(l)
    BY DEF OutbidsItsShare
  <2> DEFINE p == Percentile[l]
             q == Quantile(data[k], p)
  <2>1. data[k] \in Ascending /\ p \in Percents
    BY DataLists, PercentileType
  <2>2. data[k][i] <= q
    BY <2>1, QuantileOutbids
  <2>3. data[k] # <<>> /\ i \in 1..Len(data[k])
    <3>1. Len(data[k]) \in Nat /\ IsPercentOf(Len(data[k]) * p, Len(data[k]), p)
      BY <2>1, ListType, PercentOf, Zenon
    <3>2. i \in 1..Len(data[k])
      <4> HIDE DEF p
      <4>1. i \in 1..((Len(data[k]) * p) \div 100)
        BY DEF p
      <4> QED BY <3>1, <4>1, SMT DEF IsPercentOf
    <3>3. Len(data[k]) # 0
      BY <3>1, <3>2, SMT
    <3> QED BY <3>2, <3>3
  <2>4. k \in Filled /\ q <= Estimate(l)
    BY <2>3, EstimateIsMax DEF Filled
  <2>5. data[k][i] \in Nat /\ q \in Nat /\ Estimate(l) \in Nat
    BY <2>1, <2>3, ListType, QuantileBounds, EstimateIsMax
  <2> HIDE DEF q
  <2> QED BY <2>2, <2>4, <2>5, SMT
<1> QED BY <1>1, TypeCorrect, PTL

(***************************************************************************)
(* And no more than what 100 - p percent of one of them paid.              *)
(***************************************************************************)
THEOREM LevelsNotOverpriced == Spec => []NotOverpriced
<1>1. TypeOK => NotOverpriced
  <2> SUFFICES ASSUME TypeOK, NEW l \in PriorityLevel, Filled # {}
               PROVE  \E k \in Filled :
                        \A i \in (Len(data[k]) - Share(Len(data[k]), Percentile[l]) + 1)
                                  ..Len(data[k]) :
                          Estimate(l) <= data[k][i]
    BY DEF NotOverpriced
  <2> DEFINE p == Percentile[l]
             Needed(k) == (Len(data[k]) - Share(Len(data[k]), p) + 1)..Len(data[k])
  <2>1. p \in Percents
    BY PercentileType
  <2>2. \A k \in Filled : data[k] \in Ascending /\ data[k] # <<>>
    BY DataLists DEF Filled
  <2>3. \A k \in Filled : \A i \in Needed(k) : Quantile(data[k], p) <= data[k][i]
    BY <2>1, <2>2, QuantileNeeded
  <2>4. PICK k \in Filled : Estimate(l) = Quantile(data[k], p)
    <3>1. CASE Estimate(l) = 0
      <4>1. PICK k \in Filled : TRUE
        OBVIOUS
      <4>2. Quantile(data[k], p) \in Nat /\ Quantile(data[k], p) <= Estimate(l)
        BY <2>1, <2>2, QuantileBounds, EstimateIsMax
      <4>3. Estimate(l) = Quantile(data[k], p)
        BY <3>1, <4>2, SMT
      <4> QED BY <4>3
    <3> QED BY <3>1, EstimateIsMax
  <2> QED BY <2>3, <2>4
<1> QED BY <1>1, TypeCorrect, PTL

(***************************************************************************)
(* A zero that an empty slot adds to a list (include_empty_slots) raises   *)
(* no level of the estimate: it lowers each percentile of that list or     *)
(* leaves it, and is itself the percentile of a list that had no fee.      *)
(***************************************************************************)
THEOREM ZerosRaiseNothing == Spec => ZerosNeverRaise
<1>1. ASSUME TypeOK, TypeOK', NEW k \in DataType,
             data' = [data EXCEPT ![k] = << 0 >> \o @],
             NEW l \in PriorityLevel
      PROVE  Estimate(l)' <= Estimate(l)
  <2> DEFINE p == Percentile[l]
             old == EstimateFrom(data, l)
             new == EstimateFrom(data', l)
  <2>1. data \in [DataType -> Lists] /\ data' \in [DataType -> Lists]
    BY <1>1 DEF TypeOK, Lists
  <2>2. Estimate(l) = old /\ Estimate(l)' = new
    BY DEF Estimate, EstimateFrom, Filled, FilledIn
  <2>3. old \in Nat /\ new \in Nat /\ p \in Percents
    BY <2>1, EstimateFromIsMax, PercentileType, Zenon
  <2>4. ASSUME NEW m \in FilledIn(data')
        PROVE  Quantile(data'[m], p) <= old
    <3>1. m \in DataType /\ data[m] \in Ascending /\ data'[m] \in Ascending
      BY <2>1, ListsAscend, Zenon DEF FilledIn
    <3>2. CASE data[m] # <<>>
      <4>1. m \in FilledIn(data) /\ Quantile(data[m], p) <= old
        BY <2>1, <3>1, <3>2, EstimateFromIsMax, Zenon DEF FilledIn
      <4>2. Quantile(data[m], p) \in Nat
        BY <2>3, <3>1, <3>2, QuantileBounds, Zenon
      <4>3. CASE m = k
        <5>1. data'[m] = << 0 >> \o data[m]
          BY <1>1, <2>1, <4>3
        <5>2. Quantile(data'[m], p) <= Quantile(data[m], p)
          BY <2>3, <3>1, <3>2, <5>1, QuantileWithZero, Zenon
        <5>3. Quantile(data'[m], p) \in Nat
          BY <2>3, <3>1, QuantileBounds, Zenon DEF FilledIn
        <5> HIDE DEF p, old
        <5> QED BY <2>3, <4>1, <4>2, <5>2, <5>3, SMT
      <4>4. CASE m # k
        <5>1. data'[m] = data[m]
          BY <1>1, <2>1, <3>1, <4>4
        <5> QED BY <4>1, <5>1, Zenon
      <4> QED BY <4>3, <4>4
    <3>3. CASE data[m] = <<>>
      <4>1. m = k
        <5>1. m # k => data'[m] = data[m]
          BY <1>1, <2>1, <3>1
        <5> QED BY <3>3, <5>1 DEF FilledIn
      <4>2. data'[m] = << 0 >> \o <<>>
        BY <1>1, <2>1, <3>3, <4>1
      <4>3. Len(data'[m]) = 1 /\ data'[m][1] = 0
        BY <4>2, SMT
      <4>4. /\ Quantile(data'[m], p) \in Nat
            /\ Quantile(data'[m], p) <= data'[m][Len(data'[m])]
        BY <2>3, <3>1, QuantileBounds, Zenon DEF FilledIn
      <4>5. Quantile(data'[m], p) = 0
        BY <4>3, <4>4, SMT
      <4> HIDE DEF old, p
      <4> QED BY <2>3, <4>5, SMT
    <3> QED BY <3>2, <3>3
  <2>5. new = 0 \/ \E m \in FilledIn(data') : new = Quantile(data'[m], p)
    BY <2>1, EstimateFromIsMax, Zenon
  <2>6. new <= old
    <3>1. CASE new = 0
      <4> HIDE DEF new, old
      <4> QED BY <2>3, <3>1, SMT
    <3> QED BY <2>4, <2>5, <3>1, Zenon
  <2> QED BY <2>2, <2>6, Zenon
<1>2. TypeOK /\ TypeOK' =>
        [\A k \in DataType :
           data' = [data EXCEPT ![k] = << 0 >> \o @] =>
             \A l \in PriorityLevel : Estimate(l)' <= Estimate(l)]_data
  BY <1>1
<1> QED BY <1>2, TypeCorrect, PTL DEF ZerosNeverRaise
=============================================================================
