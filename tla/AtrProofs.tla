----------------------------- MODULE AtrProofs -----------------------------
(***************************************************************************)
(* The average true range, for candle series of any length: Wilder's       *)
(* recursion is well defined and depends on no later candle, and the chase *)
(* price keeps its distance.                                               *)
(*                                                                         *)
(* The induction is the least-element principle of WellFoundedInduction,   *)
(* which speaks of sets.                                                   *)
(***************************************************************************)
EXTENDS Prices, SequenceTheorems, FiniteSetTheorems, WellFoundedInduction, TLAPS

-----------------------------------------------------------------------------
(* Arithmetic                                                              *)

\* Division by a positive number, in the three facts the rounding needs.
LEMMA DivBounds ==
    ASSUME NEW a \in Nat, NEW b \in Nat \ {0}
    PROVE  /\ a \div b \in Nat
           /\ (a \div b) * b \in Nat
           /\ (a \div b) * b <= a
           /\ a - (a \div b) * b \in 0 .. b - 1
  <1>1. a \div b \in Int /\ a \div b >= 0
    BY SMTT(30)
  <1>2. (a \div b) * b <= a /\ a < (a \div b) * b + b
    BY SMTT(30)
  <1>3. (a \div b) * b \in Nat
    BY <1>1, SMTT(30)
  <1> QED
    BY <1>1, <1>2, <1>3

\* Multiplication keeps an order, and division by a factor restores it.
LEMMA TimesMonotone ==
    ASSUME NEW a \in Nat, NEW b \in Nat, a <= b, NEW c \in Nat
    PROVE  a * c <= b * c
  BY SMTT(30)

LEMMA TimesCancel ==
    ASSUME NEW a \in Nat, NEW b \in Nat, NEW c \in Nat \ {0}, a * c <= b * c
    PROVE  a <= b
  BY SMTT(30)

\* The factors of a product of naturals.
LEMMA TimesNat ==
    ASSUME NEW a \in Nat, NEW b \in Nat
    PROVE  a * b \in Nat
  BY SMTT(30)

LEMMA TimesPos ==
    ASSUME NEW a \in Nat \ {0}, NEW b \in Nat \ {0}
    PROVE  a * b \in Nat \ {0}
  BY SMTT(30)

-----------------------------------------------------------------------------
(* Induction over sets of naturals                                         *)

Below == {pair \in Nat \X Nat : pair[1] < pair[2]}

LEMMA LeastNatural ==
    ASSUME NEW S \in SUBSET Nat, S # {}
    PROVE  \E x \in S : \A y \in S : ~(y < x)
  <1>1. IsWellFoundedOn(Below, Nat)
    BY NatLessThanWellFounded DEF OpToRel, Below
  <1>2. \E x \in S : \A y \in S : ~(<<y, x>> \in Below)
    BY <1>1, WFMin
  <1> QED
    BY <1>2 DEF Below

LEMMA Induct ==
    ASSUME NEW S \in SUBSET Nat, 0 \in S, \A n \in S : n + 1 \in S
    PROVE  S = Nat
  <1> SUFFICES ASSUME Nat \ S # {} PROVE FALSE
    OBVIOUS
  <1>1. PICK x \in Nat \ S : \A y \in Nat \ S : ~(y < x)
    BY LeastNatural
  <1>2. x - 1 \in Nat /\ x - 1 < x
    BY <1>1
  <1>3. (x - 1) + 1 \in S
    BY <1>1, <1>2
  <1> QED
    BY <1>1, <1>3

-----------------------------------------------------------------------------
(* Wilder's recursion                                                      *)

Ratio == [num : Nat, den : Nat \ {0}]

\* a is the smoothing of the first n ranges.
IsSmoothed(a, trs, n) ==
    a = [k \in 1 .. n |-> Smooth(IF k = 1 THEN NoAtr ELSE a[k - 1], trs[k], k)]

LEMMA SmoothingExists ==
    ASSUME NEW trs
    PROVE  \A n \in Nat : \E a : IsSmoothed(a, trs, n)
  <1> DEFINE S == {n \in Nat : \E a : IsSmoothed(a, trs, n)}
  <1>1. 0 \in S
    <2> DEFINE a == [k \in 1 .. 0 |-> NoAtr]
    <2>1. IsSmoothed(a, trs, 0)
      BY DEF IsSmoothed
    <2> QED
      BY <2>1
  <1>2. ASSUME NEW n \in S PROVE n + 1 \in S
    <2>1. PICK a : IsSmoothed(a, trs, n)
      BY <1>2
    <2> DEFINE next == Smooth(IF n + 1 = 1 THEN NoAtr ELSE a[n], trs[n + 1], n + 1)
               b == [k \in 1 .. n + 1 |-> IF k <= n THEN a[k] ELSE next]
    <2>2. \A k \in 1 .. n + 1 :
             b[k] = Smooth(IF k = 1 THEN NoAtr ELSE b[k - 1], trs[k], k)
      <3> SUFFICES ASSUME NEW k \in 1 .. n + 1
                   PROVE  b[k] = Smooth(IF k = 1 THEN NoAtr ELSE b[k - 1], trs[k], k)
        OBVIOUS
      <3>1. k # 1 => k - 1 \in 1 .. n /\ b[k - 1] = a[k - 1]
        OBVIOUS
      <3>2. CASE k <= n
        <4>1. b[k] = a[k] /\ k \in 1 .. n
          BY <3>2
        <4>2. a[k] = Smooth(IF k = 1 THEN NoAtr ELSE a[k - 1], trs[k], k)
          BY <2>1, <4>1 DEF IsSmoothed
        <4> QED
          BY <3>1, <4>1, <4>2
      <3>3. CASE k = n + 1
        <4>1. b[k] = next
          BY <3>3
        <4> QED
          BY <3>1, <3>3, <4>1
      <3> QED
        BY <3>2, <3>3
    <2> HIDE DEF next
    <2>3. IsSmoothed(b, trs, n + 1)
      BY <2>2 DEF IsSmoothed
    <2> QED
      BY <2>3
  <1> HIDE DEF S
  <1>3. S = Nat
    BY <1>1, <1>2, Induct DEF S
  <1> QED
    BY <1>3 DEF S

\* Smoothed satisfies its recursion.
LEMMA SmoothedStep ==
    ASSUME NEW trs, Len(trs) \in Nat
    PROVE  IsSmoothed(Smoothed(trs), trs, Len(trs))
  <1>1. Smoothed(trs) = CHOOSE a : IsSmoothed(a, trs, Len(trs))
    BY DEF Smoothed, IsSmoothed
  <1>2. \E a : IsSmoothed(a, trs, Len(trs))
    BY SmoothingExists
  <1> QED
    BY <1>1, <1>2

\* Every smoothed range is a fraction.
LEMMA SmoothedTypes ==
    ASSUME NEW trs, Len(trs) \in Nat, \A k \in 1 .. Len(trs) : trs[k] \in Nat
    PROVE  \A k \in 1 .. Len(trs) : Smoothed(trs)[k] \in Ratio
  <1> DEFINE a == Smoothed(trs)
             S == {n \in Nat : n \in 1 .. Len(trs) => a[n] \in Ratio}
  <1>0. AtrPeriod \in Nat \ {0}
    BY PricesAssumption
  <1>1. 0 \in S
    OBVIOUS
  <1>2. ASSUME NEW n \in S PROVE n + 1 \in S
    <2> SUFFICES ASSUME n + 1 \in 1 .. Len(trs) PROVE a[n + 1] \in Ratio
      OBVIOUS
    <2> DEFINE prev == IF n + 1 = 1 THEN NoAtr ELSE a[n]
    <2>1. a[n + 1] = Smooth(prev, trs[n + 1], n + 1)
      <3>1. IsSmoothed(a, trs, Len(trs))
        BY SmoothedStep
      <3> HIDE DEF a
      <3> QED
        BY <3>1 DEF IsSmoothed
    <2>2. prev \in Ratio
      <3>1. n + 1 # 1 => n \in 1 .. Len(trs)
        OBVIOUS
      <3> HIDE DEF a
      <3> QED
        BY <3>1 DEF NoAtr, Ratio, S
    <2>3. trs[n + 1] \in Nat
      OBVIOUS
    <2> HIDE DEF a, prev
    <2> DEFINE r == trs[n + 1]
    <2> HIDE DEF r
    <2>4. CASE n + 1 <= AtrPeriod
      <3>1. Smooth(prev, r, n + 1) = [num |-> prev.num + r, den |-> AtrPeriod]
        BY <2>4 DEF Smooth
      <3>2. prev.num + r \in Nat
        BY <2>2, <2>3 DEF Ratio, r
      <3> QED
        BY <1>0, <2>1, <3>1, <3>2 DEF Ratio, r
    <2>5. CASE ~(n + 1 <= AtrPeriod)
      <3> DEFINE num == prev.num * (AtrPeriod - 1) + r * prev.den
                 den == prev.den * AtrPeriod
      <3>1. Smooth(prev, r, n + 1) = [num |-> num, den |-> den]
        BY <2>5 DEF Smooth
      <3>2. /\ prev.num \in Nat /\ prev.den \in Nat \ {0} /\ r \in Nat
            /\ AtrPeriod - 1 \in Nat
        BY <1>0, <2>2, <2>3 DEF Ratio, r
      <3>3. /\ prev.num * (AtrPeriod - 1) \in Nat /\ r * prev.den \in Nat
            /\ den \in Nat \ {0}
        BY <1>0, <3>2, TimesNat, TimesPos
      <3>4. num \in Nat
        BY <3>3
      <3> HIDE DEF num, den
      <3> QED
        BY <2>1, <3>1, <3>3, <3>4 DEF Ratio, r
    <2> QED
      BY <2>4, <2>5
  <1> HIDE DEF a, S
  <1>3. S = Nat
    BY <1>1, <1>2, Induct DEF S
  <1> QED
    BY <1>3 DEF S, a

\* An ATR knows the ranges up to its own and no later one.
LEMMA SmoothedPrefix ==
    ASSUME NEW trs, NEW past, Len(trs) \in Nat, Len(past) \in Nat,
           Len(past) <= Len(trs), \A k \in 1 .. Len(past) : past[k] = trs[k]
    PROVE  \A k \in 1 .. Len(past) : Smoothed(past)[k] = Smoothed(trs)[k]
  <1> DEFINE a == Smoothed(past)
             b == Smoothed(trs)
             S == {n \in Nat : n \in 1 .. Len(past) => a[n] = b[n]}
  <1>1. 0 \in S
    OBVIOUS
  <1>2. IsSmoothed(a, past, Len(past)) /\ IsSmoothed(b, trs, Len(trs))
    BY SmoothedStep
  <1> HIDE DEF a, b
  <1>3. ASSUME NEW n \in S PROVE n + 1 \in S
    <2> SUFFICES ASSUME n + 1 \in 1 .. Len(past) PROVE a[n + 1] = b[n + 1]
      OBVIOUS
    <2>1. n + 1 \in 1 .. Len(trs) /\ past[n + 1] = trs[n + 1]
      OBVIOUS
    <2>2. /\ a[n + 1] = Smooth(IF n + 1 = 1 THEN NoAtr ELSE a[n], past[n + 1], n + 1)
          /\ b[n + 1] = Smooth(IF n + 1 = 1 THEN NoAtr ELSE b[n], trs[n + 1], n + 1)
      BY <1>2, <2>1 DEF IsSmoothed
    <2>3. n + 1 # 1 => a[n] = b[n]
      OBVIOUS
    <2> QED
      BY <2>1, <2>2, <2>3
  <1> HIDE DEF S
  <1>4. S = Nat
    BY <1>1, <1>3, Induct DEF S
  <1> QED
    BY <1>4 DEF S, a, b

-----------------------------------------------------------------------------
(* True ranges                                                             *)

LEMMA MaxOfFive ==
    ASSUME NEW a \in Int, NEW b \in Int, NEW c \in Int, NEW d \in Int, NEW e \in Int
    PROVE  LET m == Max({a, b, c, d, e})
           IN  m \in {a, b, c, d, e} /\ (\A y \in {a, b, c, d, e} : m >= y)
  <1> DEFINE S == {a, b, c, d, e}
  <1>1. \E x \in S : \A y \in S : x >= y
    <2> DEFINE p == IF a >= b THEN a ELSE b
               q == IF p >= c THEN p ELSE c
               r == IF q >= d THEN q ELSE d
               t == IF r >= e THEN r ELSE e
    <2>1. p \in Int /\ p \in S /\ p >= a /\ p >= b
      OBVIOUS
    <2> HIDE DEF p
    <2>2. q \in Int /\ q \in S /\ q >= p /\ q >= c
      BY <2>1
    <2> HIDE DEF q
    <2>3. r \in Int /\ r \in S /\ r >= q /\ r >= d
      BY <2>2
    <2> HIDE DEF r
    <2>4. t \in Int /\ t \in S /\ t >= r /\ t >= e
      BY <2>3
    <2> HIDE DEF t
    <2>5. t >= a /\ t >= b /\ t >= c /\ t >= d /\ t >= e
      BY <2>1, <2>2, <2>3, <2>4
    <2> QED
      BY <2>4, <2>5
  <1>2. Max(S) = CHOOSE x \in S : \A y \in S : x >= y
    BY DEF Max
  <1> HIDE DEF S
  <1>3. Max(S) \in S /\ \A y \in S : Max(S) >= y
    BY <1>1, <1>2
  <1> QED
    BY <1>3 DEF S

\* One range less than candles, none of them negative.
LEMMA TrueRanges ==
    ASSUME NEW candles \in Seq(Candle)
    PROVE  LET trs == true_ranges(candles)
           IN  /\ trs \in Seq(Nat)
               /\ Len(trs) = IF Len(candles) = 0 THEN 0 ELSE Len(candles) - 1
  <1> DEFINE trs == true_ranges(candles)
             n == IF Len(candles) = 0 THEN 0 ELSE Len(candles) - 1
  <1>1. Len(candles) \in Nat /\ n \in Nat /\ 1 .. n = 1 .. Len(candles) - 1
    OBVIOUS
  <1>2. ASSUME NEW i \in 1 .. n
        PROVE  Max({candles[i + 1].high - candles[i + 1].low,
                    candles[i + 1].high - candles[i].close,
                    candles[i].close - candles[i + 1].high,
                    candles[i + 1].low - candles[i].close,
                    candles[i].close - candles[i + 1].low}) \in Nat
    <2> DEFINE x == candles[i]
               y == candles[i + 1]
               a == y.high - y.low
               b == y.high - x.close
               c == x.close - y.high
               d == y.low - x.close
               e == x.close - y.low
    <2>1. x \in Candle /\ y \in Candle
      BY <1>1
    <2> HIDE DEF x, y
    <2>2. x.close \in Int /\ y.high \in Int /\ y.low \in Int
      BY <2>1 DEF Candle
    <2>3. /\ a \in Int /\ b \in Int /\ c \in Int /\ d \in Int /\ e \in Int
          /\ (b >= 0 \/ c >= 0)
      BY <2>2
    <2> HIDE DEF a, b, c, d, e
    <2>4. /\ Max({a, b, c, d, e}) \in {a, b, c, d, e}
          /\ Max({a, b, c, d, e}) >= b /\ Max({a, b, c, d, e}) >= c
      BY <2>3, MaxOfFive
    <2>5. Max({a, b, c, d, e}) \in Int /\ Max({a, b, c, d, e}) >= 0
      BY <2>3, <2>4
    <2> QED
      BY <2>5 DEF a, b, c, d, e, x, y
  <1>3. trs \in [1 .. n -> Nat]
    BY <1>1, <1>2 DEF true_ranges
  <1> HIDE DEF trs
  <1>4. trs \in Seq(Nat)
    BY <1>1, <1>3, SeqDef
  <1>5. 1 .. Len(trs) = 1 .. n /\ Len(trs) \in Nat
    BY <1>3, <1>4, LenProperties
  <1>6. Len(trs) = n
    BY <1>1, <1>5
  <1> QED
    BY <1>4, <1>6 DEF trs

-----------------------------------------------------------------------------
(* The chase                                                               *)

\* Division of any integer, and an order of integers and a positive factor.
LEMMA FloorBound ==
    ASSUME NEW a \in Int, NEW b \in Nat \ {0}
    PROVE  a \div b \in Int /\ (a \div b) * b <= a
  BY SMTT(30)

LEMMA FactorOrder ==
    ASSUME NEW a \in Int, NEW b \in Int, NEW c \in Nat \ {0}
    PROVE  a <= b <=> a * c <= b * c
  BY SMTT(30)

\* The width of the chase is a fraction that is no smaller than the floor.
LEMMA WidthAboveFloor ==
    ASSUME NEW atr \in Ratio, NEW p \in Nat \ {0}
    PROVE  LET x == compute_x(atr, p)
           IN  x.num \in Nat /\ x.den \in Nat \ {0} /\ x.num * XFloorDen >= x.den
  <1> DEFINE x == compute_x(atr, p)
             num == XMult * atr.num
             den == atr.den * p
  <1>1. /\ atr.num \in Nat /\ atr.den \in Nat \ {0}
        /\ XMult \in Nat \ {0} /\ XFloorDen \in Nat \ {0}
    BY PricesAssumption DEF Ratio
  <1>2. num \in Nat /\ den \in Nat \ {0}
    BY <1>1, TimesNat, TimesPos
  <1>3. x = IF num * XFloorDen >= den THEN [num |-> num, den |-> den]
            ELSE [num |-> 1, den |-> XFloorDen]
    BY DEF compute_x
  <1> HIDE DEF num, den, x
  <1>4. CASE num * XFloorDen >= den
    BY <1>2, <1>3, <1>4 DEF x
  <1>5. CASE ~(num * XFloorDen >= den)
    <2>1. x = [num |-> 1, den |-> XFloorDen]
      BY <1>3, <1>5
    <2>2. 1 * XFloorDen = XFloorDen
      BY <1>1
    <2> QED
      BY <1>1, <2>1, <2>2 DEF x
  <1> QED
    BY <1>4, <1>5

\* So a limit is at least the floor width below its reference, up to half a tick.
LEMMA LimitBelowFloor ==
    ASSUME NEW ref \in Nat, NEW atr \in Ratio, NEW p \in Nat \ {0}
    PROVE  LET limit == LimitPrice(ref, compute_x(atr, p))
           IN  2 * XFloorDen * limit <= 2 * (XFloorDen - 1) * ref + XFloorDen * Tick
  <1> DEFINE n == compute_x(atr, p).num
             d == compute_x(atr, p).den
             F == XFloorDen
             m == ref * (d - n)
             q == (2 * m + d * Tick) \div (2 * d * Tick)
             limit == Tick * q
  <1>1. n \in Nat /\ d \in Nat \ {0} /\ n * F >= d
    BY WidthAboveFloor
  <1>2. F \in Nat \ {0} /\ F - 1 \in Nat /\ Tick \in Nat \ {0}
    BY PricesAssumption
  <1>3. LimitPrice(ref, compute_x(atr, p)) = limit
    BY DEF LimitPrice, round_price
  <1> HIDE DEF n, d, F
  <1>4. m \in Int /\ d * Tick \in Nat \ {0} /\ 2 * d * Tick \in Nat \ {0}
    <2>1. m \in Int /\ d * Tick \in Nat \ {0}
      BY <1>1, <1>2, TimesPos, SMTT(30)
    <2>2. 2 * d * Tick = 2 * (d * Tick)
      BY <1>1, <1>2, SMTT(30)
    <2> QED
      BY <2>1, <2>2
  <1>5. q \in Int /\ q * (2 * d * Tick) <= 2 * m + d * Tick
    <2>1. 2 * m + d * Tick \in Int
      BY <1>4
    <2> QED
      BY <1>4, <2>1, FloorBound
  <1>6. F * m <= (ref * (F - 1)) * d
    <2>1. F * m = (ref * F) * d - ref * (n * F)
      BY <1>1, <1>2, SMTT(30)
    <2>2. (ref * (F - 1)) * d = (ref * F) * d - ref * d
      BY <1>1, <1>2, SMTT(30)
    <2>3. ref * (n * F) >= ref * d
      <3>1. d * ref <= (n * F) * ref
        BY <1>1, <1>2, TimesNat, TimesMonotone
      <3>2. d * ref = ref * d /\ (n * F) * ref = ref * (n * F)
        BY <1>1, <1>2, SMTT(30)
      <3> QED
        BY <3>1, <3>2
    <2>4. /\ (ref * F) * d \in Int /\ ref * (n * F) \in Int /\ ref * d \in Int
      BY <1>1, <1>2, TimesNat
    <2> QED
      BY <2>1, <2>2, <2>3, <2>4
  <1> HIDE DEF m, q
  <1> DEFINE left == 2 * F * limit
             right == 2 * (F - 1) * ref + F * Tick
  <1>7. left * d <= right * d
    <2>1. left * d = F * (q * (2 * d * Tick))
      BY <1>1, <1>2, <1>5, SMTT(30)
    <2>2. F * (q * (2 * d * Tick)) <= F * (2 * m + d * Tick)
      <3> DEFINE y == q * (2 * d * Tick)
                 z == 2 * m + d * Tick
      <3>1. y \in Int /\ z \in Int /\ y <= z
        BY <1>4, <1>5, SMTT(30)
      <3> HIDE DEF y, z
      <3>2. y * F <= z * F /\ y * F = F * y /\ z * F = F * z
        BY <1>2, <3>1, FactorOrder
      <3> QED
        BY <3>2 DEF y, z
    <2>3. F * (2 * m + d * Tick) = 2 * (F * m) + F * (d * Tick)
      BY <1>1, <1>2, <1>4, SMTT(30)
    <2>4. right * d = 2 * ((ref * (F - 1)) * d) + F * (d * Tick)
      BY <1>1, <1>2, SMTT(30)
    <2>5. /\ F * m \in Int /\ (ref * (F - 1)) * d \in Int /\ F * (d * Tick) \in Int
          /\ F * (q * (2 * d * Tick)) \in Int
      BY <1>1, <1>2, <1>4, <1>5, SMTT(30)
    <2> QED
      BY <1>6, <2>1, <2>2, <2>3, <2>4, <2>5
  <1>8. left \in Int /\ right \in Int
    BY <1>1, <1>2, <1>5, SMTT(30)
  <1> HIDE DEF left, right
  <1>9. left <= right
    BY <1>1, <1>7, <1>8, FactorOrder
  <1> QED
    BY <1>3, <1>9 DEF left, right, F
=============================================================================
