----------------------------- MODULE ScoreProofs -----------------------------
(* What holds of the bite score for every reading, and of the advice for   *)
(* every history, proved with TLAPS.                                       *)
EXTENDS BiteScore, LureAdvice, FiniteSetTheorems, TLAPS

(* Whatever Retro gathers falls under one of the names dag.go knows, so    *)
(* that no default of its switches is ever taken for want of a name.       *)
THEOREM ContextIsKnown == \A q \in Queries : Context(q) \in Contexts
<1> SUFFICES ASSUME NEW q \in Queries PROVE Context(q) \in Contexts
  OBVIOUS
<1>1. ClassifyPressure(q.delta) \in Trends
  BY DEF Queries, ClassifyPressure, Trends, Abs
<1>2. ClassifyTide(q.phase, q.slope) \in Windows
  BY DEF Queries, ClassifyTide, Windows, Abs
<1>3. ShoreAspect(q.wind, q.bearing) \in Aspects
  BY DEF ShoreAspect, Aspects
<1>4. DayPeriod(q.hour) \in Periods
  BY DEF Queries, DayPeriod, Periods
<1>5. "HALF" \in Windows
  BY DEF Windows
<1> QED
  BY <1>1, <1>2, <1>3, <1>4, <1>5 DEF Context, Contexts, Queries

(* The bases and the bonuses of every context.                             *)
LEMMA Bases ==
    ASSUME NEW x \in Contexts
    PROVE  /\ Base(x, "pressure") = PressureBase(x.trend)
           /\ Base(x, "tide") = TideBase(x.tide)
           /\ Base(x, "wind") = WindBase(x.beaufort, x.aspect)
           /\ Base(x, "moon") = MoonBase(x.moon)
           /\ Base(x, "temp") = TempBase(x.temp)
           /\ Base(x, "period") = PeriodBase(x.period)
           /\ Bonus(x, "pressure") = 0
           /\ Bonus(x, "tide") = TideBonus(x)
           /\ Bonus(x, "wind") = WindBonus(x)
           /\ Bonus(x, "moon") = 0
           /\ Bonus(x, "temp") = TempBonus(x)
           /\ Bonus(x, "period") = PeriodBonus(x)
  BY DEF Base, Bonus

LEMMA PressureRange ==
    ASSUME NEW x \in Contexts
    PROVE  PressureBase(x.trend) \in 24 .. 90
  BY DEF Contexts, Trends, PressureBase

LEMMA TideRange ==
    ASSUME NEW x \in Contexts
    PROVE  TideBase(x.tide) \in 42 .. 88 /\ TideBase(x.tide) + TideBonus(x) \in 42 .. 100
  BY DEF Contexts, Windows, TideBase, TideBonus

LEMMA WindRange ==
    ASSUME NEW x \in Contexts
    PROVE  /\ WindBase(x.beaufort, x.aspect) \in 24 .. 80
           /\ WindBase(x.beaufort, x.aspect) + WindBonus(x) \in 24 .. 86
  BY DEF Contexts, Aspects, WindBase, WindBonus

LEMMA MoonRange ==
    ASSUME NEW x \in Contexts
    PROVE  MoonBase(x.moon) \in 50 .. 78
  BY DEF Contexts, Moons, MoonBase

LEMMA TempRange ==
    ASSUME NEW x \in Contexts
    PROVE  /\ TempBase(x.temp) \in 38 .. 80
           /\ TempBase(x.temp) + TempBonus(x) \in 30 .. 80
  BY DEF Contexts, TempBase, TempBonus

LEMMA PeriodRange ==
    ASSUME NEW x \in Contexts
    PROVE  /\ PeriodBase(x.period) \in 42 .. 86
           /\ PeriodBase(x.period) + PeriodBonus(x) \in 42 .. 99
  BY DEF Contexts, Periods, PeriodBase, PeriodBonus, Twilight

(* ScoreBite clamps every contribution to 0 .. 100, and never needs to: a  *)
(* contribution is always the sum of the base and the bonus shown with it. *)
THEOREM ContributionsAddUp ==
    \A x \in Contexts, n \in Nodes : Contribution(x, n) = Base(x, n) + Bonus(x, n)
<1> SUFFICES ASSUME NEW x \in Contexts, NEW n \in Nodes
             PROVE  Contribution(x, n) = Base(x, n) + Bonus(x, n)
  OBVIOUS
<1>1. Base(x, n) + Bonus(x, n) \in 0 .. 100
  <2>1. CASE n = "pressure"  BY <2>1, Bases, PressureRange
  <2>2. CASE n = "tide"      BY <2>2, Bases, TideRange
  <2>3. CASE n = "wind"      BY <2>3, Bases, WindRange
  <2>4. CASE n = "moon"      BY <2>4, Bases, MoonRange
  <2>5. CASE n = "temp"      BY <2>5, Bases, TempRange
  <2>6. CASE n = "period"    BY <2>6, Bases, PeriodRange
  <2> QED
    BY <2>1, <2>2, <2>3, <2>4, <2>5, <2>6 DEF Nodes
<1> QED
  BY <1>1 DEF Contribution, Clamp

(* The weighed sum without the clamps.                                     *)
Plain(x) ==
      24 * PressureBase(x.trend) + 22 * (TideBase(x.tide) + TideBonus(x))
    + 14 * (WindBase(x.beaufort, x.aspect) + WindBonus(x)) + 12 * MoonBase(x.moon)
    + 14 * (TempBase(x.temp) + TempBonus(x))
    + 14 * (PeriodBase(x.period) + PeriodBonus(x))

(* Arithmetic alone: rounding to tenths, the turn an angle belongs to.     *)
LEMMA Tenths ==
    ASSUME NEW s \in Int
    PROVE  /\ (s + 5) \div 10 \in Int
           /\ 10 * ((s + 5) \div 10) <= s + 5
           /\ s + 5 < 10 * ((s + 5) \div 10) + 10
  OBVIOUS

LEMMA Turn ==
    ASSUME NEW t \in Nat
    PROVE  /\ t % 3600 \in 0 .. 3599 /\ t \div 3600 \in Int
           /\ t = 3600 * (t \div 3600) + (t % 3600)
  OBVIOUS

LEMMA WeighedIsPlain ==
    ASSUME NEW x \in Contexts
    PROVE  Weighed(x) = Plain(x)
<1>1. /\ Contribution(x, "pressure") = PressureBase(x.trend) + 0
      /\ Contribution(x, "tide") = TideBase(x.tide) + TideBonus(x)
      /\ Contribution(x, "wind") = WindBase(x.beaufort, x.aspect) + WindBonus(x)
      /\ Contribution(x, "moon") = MoonBase(x.moon) + 0
      /\ Contribution(x, "temp") = TempBase(x.temp) + TempBonus(x)
      /\ Contribution(x, "period") = PeriodBase(x.period) + PeriodBonus(x)
  BY ContributionsAddUp, Bases DEF Nodes
<1>2. PressureBase(x.trend) \in Int /\ MoonBase(x.moon) \in Int
  BY PressureRange, MoonRange
<1> QED
  BY <1>1, <1>2 DEF Weighed, Plain

(* math.Round(sum*10)/10 never meets a tie, where the error of the float   *)
(* sum would decide: the score is the exact sum to the nearest tenth.      *)
THEOREM NoTies == \A x \in Contexts : Weighed(x) % 10 # 5
<1> SUFFICES ASSUME NEW x \in Contexts PROVE Weighed(x) % 10 # 5
  OBVIOUS
<1> DEFINE t == TideBase(x.tide) + TideBonus(x)
           w == WindBase(x.beaufort, x.aspect) + WindBonus(x)
           c == TempBase(x.temp) + TempBonus(x)
           d == PeriodBase(x.period) + PeriodBonus(x)
           p == PressureBase(x.trend)
           m == MoonBase(x.moon)
<1>1. p \in Int /\ t \in Int /\ w \in Int /\ m \in Int /\ c \in Int /\ d \in Int
  BY PressureRange, TideRange, WindRange, MoonRange, TempRange, PeriodRange
<1>2. Weighed(x) = 24 * p + 22 * t + 14 * w + 12 * m + 14 * c + 14 * d
  BY WeighedIsPlain DEF Plain
<1> HIDE DEF p, t, w, m, c, d
<1>3. (2 * (12 * p + 11 * t + 7 * w + 6 * m + 7 * c + 7 * d)) % 10 # 5
  BY <1>1
<1> QED
  BY <1>1, <1>2, <1>3

(* engine_test.go asserts a score in 0 .. 100 of one snapshot.  Every one  *)
(* lies in 34.4 .. 90.1: neither the worst nor the best mark is given.     *)
THEOREM ScoreBounds == \A q \in Queries : Score(Context(q)) \in 344 .. 901
<1> SUFFICES ASSUME NEW x \in Contexts PROVE Score(x) \in 344 .. 901
  BY ContextIsKnown
<1> DEFINE p == PressureBase(x.trend)
           t == TideBase(x.tide) + TideBonus(x)
           w == WindBase(x.beaufort, x.aspect) + WindBonus(x)
           m == MoonBase(x.moon)
           c == TempBase(x.temp) + TempBonus(x)
           d == PeriodBase(x.period) + PeriodBonus(x)
<1>1. /\ p \in 24 .. 90 /\ t \in 42 .. 100 /\ w \in 24 .. 86
      /\ m \in 50 .. 78 /\ c \in 30 .. 80 /\ d \in 42 .. 99
  BY PressureRange, TideRange, WindRange, MoonRange, TempRange, PeriodRange
<1>2. Weighed(x) = 24 * p + 22 * t + 14 * w + 12 * m + 14 * c + 14 * d
  BY WeighedIsPlain DEF Plain
<1> HIDE DEF p, t, w, m, c, d
<1> DEFINE sum == 24 * p + 22 * t + 14 * w + 12 * m + 14 * c + 14 * d
<1>3. sum \in 3444 .. 9006
  BY <1>1
<1>4. Score(x) = (sum + 5) \div 10
  BY <1>2 DEF Score
<1> HIDE DEF sum
<1>5. (sum + 5) \div 10 \in 344 .. 901
  BY <1>3
<1> QED
  BY <1>4, <1>5

(* With a rising barometer, by half a hectopascal in three hours or more,  *)
(* no snapshot is flagged a frenzy, whatever else speaks for it.           *)
THEOREM NoFrenzyWhenRising ==
    \A q \in Queries : Frenzy(Context(q)) => q.delta < 50
<1> SUFFICES ASSUME NEW q \in Queries, q.delta >= 50
             PROVE  ~Frenzy(Context(q))
  BY DEF Queries
<1> DEFINE x == Context(q)
<1>1. x \in Contexts
  BY ContextIsKnown
<1>2. x.trend \in {"RISE", "CRASH_UP"}
  BY DEF Context, ClassifyPressure, Abs, Queries
<1> HIDE DEF x
<1>3. PressureBase(x.trend) \in 24 .. 40
  BY <1>2 DEF PressureBase
<1>4. TideBase(x.tide) \in 42 .. 88 /\ TideBonus(x) = 0
  BY <1>1, <1>2, TideRange DEF TideBonus
<1>5. PeriodBase(x.period) + PeriodBonus(x) \in 42 .. 91
  BY <1>1, <1>2 DEF Contexts, Periods, PeriodBase, PeriodBonus, Twilight
<1> DEFINE p == PressureBase(x.trend)
           t == TideBase(x.tide) + TideBonus(x)
           w == WindBase(x.beaufort, x.aspect) + WindBonus(x)
           m == MoonBase(x.moon)
           c == TempBase(x.temp) + TempBonus(x)
           d == PeriodBase(x.period) + PeriodBonus(x)
<1>6. /\ p \in 24 .. 40 /\ t \in 42 .. 88 /\ w \in 24 .. 86
      /\ m \in 50 .. 78 /\ c \in 30 .. 80 /\ d \in 42 .. 91
  BY <1>1, <1>3, <1>4, <1>5, WindRange, MoonRange, TempRange
<1>7. Weighed(x) = 24 * p + 22 * t + 14 * w + 12 * m + 14 * c + 14 * d
  BY <1>1, WeighedIsPlain DEF Plain
<1> HIDE DEF p, t, w, m, c, d
<1> DEFINE sum == 24 * p + 22 * t + 14 * w + 12 * m + 14 * c + 14 * d
<1>8. sum \in 3444 .. 7430
  BY <1>6
<1>9. Score(x) = (sum + 5) \div 10
  BY <1>7 DEF Score
<1> HIDE DEF sum
<1>10. (sum + 5) \div 10 < 750
  BY <1>8
<1>11. (sum + 5) \div 10 \in Int
  BY <1>8
<1>12. ~Frenzy(x)
  BY <1>9, <1>10, <1>11 DEF Frenzy
<1> QED
  BY <1>12 DEF x

(* All else equal, a barometer that fell further never scores lower.       *)
THEOREM FallNeverHurts ==
    \A q \in Queries, d \in Int :
        d <= q.delta => Score(Context([q EXCEPT !.delta = d])) >= Score(Context(q))
<1> SUFFICES ASSUME NEW q \in Queries, NEW d \in Int, d <= q.delta
             PROVE  Score(Context([q EXCEPT !.delta = d])) >= Score(Context(q))
  OBVIOUS
<1> DEFINE p == [q EXCEPT !.delta = d]
           x == Context(q)
           y == Context(p)
<1>1. p \in Queries
  BY DEF Queries
<1>2. x \in Contexts /\ y \in Contexts
  BY <1>1, ContextIsKnown
<1>3. /\ y.tide = x.tide /\ y.aspect = x.aspect /\ y.beaufort = x.beaufort
      /\ y.moon = x.moon /\ y.period = x.period /\ y.temp = x.temp
  BY DEF Context, Queries
<1>4. x.trend = ClassifyPressure(q.delta) /\ y.trend = ClassifyPressure(d)
  BY DEF Context, Queries
<1> DEFINE e == q.delta
<1>a. e \in Int /\ d <= e /\ x.trend = ClassifyPressure(e)
  BY <1>4 DEF Queries
<1> HIDE DEF x, y, e
<1>b. /\ PressureBase(x.trend) = CASE e <= -300 -> 90 [] e \in -299 .. -50 -> 72
                                    [] Abs(e) < 50 -> 52 [] e \in 50 .. 299 -> 40
                                    [] OTHER -> 24
      /\ x.trend = "CRASH_DOWN" <=> e <= -300
      /\ x.trend = "CRASH_UP" <=> e >= 300
  BY <1>a DEF ClassifyPressure, PressureBase, Abs
<1>c. /\ PressureBase(y.trend) = CASE d <= -300 -> 90 [] d \in -299 .. -50 -> 72
                                    [] Abs(d) < 50 -> 52 [] d \in 50 .. 299 -> 40
                                    [] OTHER -> 24
      /\ y.trend = "CRASH_DOWN" <=> d <= -300
      /\ y.trend = "CRASH_UP" <=> d >= 300
  BY <1>4 DEF ClassifyPressure, PressureBase, Abs
<1>5. PressureBase(y.trend) >= PressureBase(x.trend)
  BY <1>a, <1>b, <1>c DEF Abs
<1>6. (x.trend = "CRASH_DOWN" => y.trend = "CRASH_DOWN")
      /\ (y.trend = "CRASH_UP" => x.trend = "CRASH_UP")
  BY <1>a, <1>b, <1>c
<1>7. TideBonus(y) >= TideBonus(x)
  BY <1>3, <1>6 DEF TideBonus
<1>8. TempBonus(y) >= TempBonus(x)
  BY <1>2, <1>3, <1>6 DEF TempBonus, Contexts
<1>9. PeriodBonus(y) >= PeriodBonus(x)
  BY <1>2, <1>3, <1>6 DEF PeriodBonus, Twilight, Contexts
<1>10. WindBonus(y) = WindBonus(x)
  BY <1>3 DEF WindBonus
<1>11. /\ PressureBase(x.trend) \in Int /\ PressureBase(y.trend) \in Int
       /\ TideBase(x.tide) \in Int /\ TideBonus(x) \in Int /\ TideBonus(y) \in Int
       /\ WindBase(x.beaufort, x.aspect) + WindBonus(x) \in Int /\ MoonBase(x.moon) \in Int
       /\ TempBase(x.temp) \in Int /\ TempBonus(x) \in Int /\ TempBonus(y) \in Int
       /\ PeriodBase(x.period) \in Int /\ PeriodBonus(x) \in Int /\ PeriodBonus(y) \in Int
  BY <1>2, PressureRange, TideRange, WindRange, MoonRange, TempRange, PeriodRange
     DEF TideBonus, TempBonus, PeriodBonus
<1>12. Plain(y) >= Plain(x) /\ Plain(x) \in Int /\ Plain(y) \in Int
  BY <1>3, <1>5, <1>7, <1>8, <1>9, <1>10, <1>11 DEF Plain
<1>13. Weighed(y) >= Weighed(x) /\ Weighed(x) \in Int /\ Weighed(y) \in Int
  BY <1>2, <1>12, WeighedIsPlain
<1>14. Score(y) >= Score(x)
  BY <1>13, Tenths DEF Score
<1> QED
  BY <1>14 DEF x, y

(* The aspect of a shore depends on the angle between wind and shore only, *)
(* counted the short way round, as long as the bearing of the spot, which  *)
(* CreateSpot stores as it comes, is at most one and a half turns.         *)
Within45(angle) == \E k \in Int : Abs(angle - 3600 * k) <= 450

THEOREM AspectIsTheAngle ==
    ASSUME NEW wind \in 0 .. 3599, NEW bearing \in Int, bearing <= 5400
    PROVE  /\ ShoreAspect(wind, bearing) = "ONSHORE" <=> Within45(wind - bearing)
           /\ ShoreAspect(wind, bearing) = "OFFSHORE" <=> Within45(wind - bearing - 1800)
<1> DEFINE t == wind - bearing + 5400
           m == t % 3600
           n == t \div 3600
           diff == Abs(m - 1800)
<1>1. t \in Nat
  OBVIOUS
<1>2. ShoreAspect(wind, bearing) = CASE diff <= 450 -> "ONSHORE"
                                     [] diff >= 1350 -> "OFFSHORE"
                                     [] OTHER -> "CROSS"
  BY <1>1 DEF ShoreAspect, TruncMod
<1>3. wind - bearing = t - 5400
  OBVIOUS
<1> HIDE DEF t
<1>4. m \in 0 .. 3599 /\ n \in Int /\ t = 3600 * n + m
  BY <1>1, Turn
<1> HIDE DEF m, n
<1>5. diff \in Int /\ (diff <= 450 <=> 1350 <= m /\ m <= 2250)
      /\ (diff >= 1350 <=> m <= 450 \/ m >= 3150)
  BY <1>4 DEF Abs
<1> HIDE DEF diff
<1>6. ShoreAspect(wind, bearing) = "ONSHORE" <=> 1350 <= m /\ m <= 2250
  BY <1>2, <1>5
<1>7. ShoreAspect(wind, bearing) = "OFFSHORE" <=> m <= 450 \/ m >= 3150
  BY <1>2, <1>4, <1>5
<1>8. (1350 <= m /\ m <= 2250) <=> Within45(t - 5400)
  <2>1. ASSUME 1350 <= m, m <= 2250
        PROVE  Within45(t - 5400)
    <3>1. n - 1 \in Int /\ Abs(t - 5400 - 3600 * (n - 1)) <= 450
      BY <1>4, <2>1 DEF Abs
    <3> QED  BY <3>1 DEF Within45
  <2>2. ASSUME NEW k \in Int, Abs(t - 5400 - 3600 * k) <= 450
        PROVE  1350 <= m /\ m <= 2250
    <3> DEFINE j == n - k
    <3>1. j \in Int /\ 4950 <= 3600 * j + m /\ 3600 * j + m <= 5850
      BY <1>4, <2>2 DEF Abs
    <3> HIDE DEF j
    <3>2. m \in Int /\ 0 <= m /\ m <= 3599
      BY <1>4
    <3>3. j = 1
      BY <3>1, <3>2
    <3> QED  BY <3>1, <3>2, <3>3
  <2> QED  BY <2>1, <2>2 DEF Within45
<1>9. (m <= 450 \/ m >= 3150) <=> Within45(t - 5400 - 1800)
  <2>1. ASSUME m <= 450
        PROVE  Within45(t - 5400 - 1800)
    <3>1. n - 2 \in Int /\ Abs(t - 5400 - 1800 - 3600 * (n - 2)) <= 450
      BY <1>4, <2>1 DEF Abs
    <3> QED  BY <3>1 DEF Within45
  <2>2. ASSUME m >= 3150
        PROVE  Within45(t - 5400 - 1800)
    <3>1. n - 1 \in Int /\ Abs(t - 5400 - 1800 - 3600 * (n - 1)) <= 450
      BY <1>4, <2>2 DEF Abs
    <3> QED  BY <3>1 DEF Within45
  <2>3. ASSUME NEW k \in Int, Abs(t - 5400 - 1800 - 3600 * k) <= 450
        PROVE  m <= 450 \/ m >= 3150
    <3> DEFINE j == n - k
    <3>1. j \in Int /\ 6750 <= 3600 * j + m /\ 3600 * j + m <= 7650
      BY <1>4, <2>3 DEF Abs
    <3> HIDE DEF j
    <3>2. m \in Int /\ 0 <= m /\ m <= 3599
      BY <1>4
    <3>3. j = 1 \/ j = 2
      BY <3>1, <3>2
    <3> QED  BY <3>1, <3>2, <3>3
  <2> QED  BY <2>1, <2>2, <2>3 DEF Within45
<1> QED
  BY <1>3, <1>6, <1>7, <1>8, <1>9

(* A flood is never called an ebb nor an ebb a flood, and what is called   *)
(* neither low nor high water slack really moves or lies between.          *)
THEOREM TideRunsItsWay ==
    \A phase \in 0 .. 1000, slope \in Int :
        LET window == ClassifyTide(phase, slope)
        IN  /\ window \in {"EARLY_FLOOD", "THIRD", "SEVENTH"} => slope > 80
            /\ window \in {"EARLY_EBB", "RAPID_EBB"} => slope < -80
            /\ window = "HALF" => phase \in 81 .. 919 \/ slope >= 120
  BY DEF ClassifyTide, Abs

-----------------------------------------------------------------------------
(* The advice.                                                             *)

LEMMA PriorRange ==
    ASSUME NEW species, NEW l \in LureTypes
    PROVE  Prior(species, l) \in 56 .. 88
  BY DEF LureTypes, Prior, RulePrior, Boost

(* The score is a fraction between 30 and 100 points: the clamp of         *)
(* recommender.go never takes effect, so that no two lures are level       *)
(* because both are cut off at 100.                                        *)
THEOREM NothingCapped ==
    ASSUME NEW species, NEW l \in LureTypes, NEW h \in Hints, NEW t \in Tallies
    PROVE  LET num == Num(Prior(species, l), FrenzyBonus(l, h), t)
           IN  300 * Den(t) <= num /\ num < 1000 * Den(t) /\ Capped(num, Den(t)) = num
<1> DEFINE p == Prior(species, l)  b == FrenzyBonus(l, h)  num == Num(p, b, t)
<1>1. p \in 56 .. 88
  BY PriorRange
<1>2. b \in {0, 6}
  BY DEF FrenzyBonus
<1>3. t.n \in Nat /\ t.s \in Nat /\ t.s <= t.n
  BY DEF Tallies
<1> HIDE DEF p, b
<1>4. (11 * p + 20 * b) \in 616 .. 1088
  BY <1>1, <1>2
<1>5. PICK a \in 616 .. 1088 : a = 11 * p + 20 * b
  BY <1>4
<1>6. num = a * (t.n + 2) + 900 * t.s + 18 * p
  BY <1>5 DEF num, Num
<1>7. 616 * (t.n + 2) <= a * (t.n + 2) /\ a * (t.n + 2) <= 1088 * (t.n + 2)
  BY <1>3
<1>8. num \in Int /\ Den(t) \in Int
  BY <1>1, <1>3, <1>6 DEF Den
<1>9. 300 * Den(t) <= num
  BY <1>1, <1>3, <1>6, <1>7 DEF Den
<1>10. num < 1000 * Den(t)
  BY <1>1, <1>3, <1>6, <1>7 DEF Den
<1>11. Capped(num, Den(t)) = num
  BY <1>3, <1>8, <1>9, <1>10 DEF Capped, Den
<1> QED  BY <1>9, <1>10, <1>11 DEF p, b

(* Two roundings keep the order of the fractions.                          *)
LEMMA RoundingKeepsOrder ==
    ASSUME NEW num \in Int, NEW den \in Int, den > 0,
           NEW num2 \in Int, NEW den2 \in Int, den2 > 0,
           num * den2 < num2 * den,
           NEW k \in Rounded(num, den), NEW k2 \in Rounded(num2, den2)
    PROVE  k <= k2
<1>1. k \in Int /\ (2 * k - 1) * den <= 2 * num
  BY DEF Rounded
<1>2. k2 \in Int /\ 2 * num2 <= (2 * k2 + 1) * den2
  BY DEF Rounded
<1>3. (2 * k - 1) * den * den2 <= 2 * num * den2
  BY <1>1
<1>4. 2 * num2 * den <= (2 * k2 + 1) * den2 * den
  BY <1>2
<1>5. PICK d \in Int : d = den * den2 /\ d > 0
  BY SMT
<1>6. (2 * k - 1) * d <= 2 * num * den2 /\ 2 * num2 * den <= (2 * k2 + 1) * d
  BY <1>1, <1>2, <1>3, <1>4, <1>5
<1>7. (2 * k - 1) * d < (2 * k2 + 1) * d
  BY <1>1, <1>2, <1>5, <1>6
<1>8. 2 * k - 1 < 2 * k2 + 1
  BY <1>1, <1>2, <1>5, <1>7
<1> QED  BY <1>1, <1>2, <1>8

(* One more catch with a lure never lowers its score, for any species and  *)
(* however the float errors fall.                                          *)
THEOREM CatchesNeverHurt ==
    ASSUME NEW species, NEW l \in LureTypes, NEW h \in Hints, NEW t \in Tallies,
           NEW more \in Tallies, more.n = t.n + 1, more.s = t.s + 1,
           NEW k \in Scores(species, l, h, t), NEW k2 \in Scores(species, l, h, more)
    PROVE  k <= k2
<1> DEFINE p == Prior(species, l)  b == FrenzyBonus(l, h)
<1>1. p \in 56 .. 88 /\ b \in {0, 6}
  BY PriorRange DEF FrenzyBonus
<1>2. t.n \in Nat /\ t.s \in Nat /\ t.s <= t.n
  BY DEF Tallies
<1>3. k \in Rounded(Num(p, b, t), Den(t)) /\ k2 \in Rounded(Num(p, b, more), Den(more))
  BY NothingCapped DEF Scores
<1> HIDE DEF p, b
<1>4. PICK a \in Int, c \in Int, m \in Int :
         /\ a = 11 * p + 20 * b /\ c = 900 * t.s + 18 * p /\ m = t.n + 2
  BY <1>1, <1>2
<1>5. /\ Num(p, b, t) = a * m + c /\ Den(t) = 2 * m
      /\ Num(p, b, more) = a * (m + 1) + c + 900 /\ Den(more) = 2 * (m + 1)
  BY <1>1, <1>2, <1>4 DEF Num, Den
<1>6. m > 0 /\ c < 900 * m
  BY <1>1, <1>2, <1>4
<1>7. (a * m + c) * (2 * (m + 1)) < (a * (m + 1) + c + 900) * (2 * m)
  <2>1. (a * m + c) * (2 * (m + 1)) = 2 * (a * m * m + a * m + c * m + c)
    OBVIOUS
  <2>2. (a * (m + 1) + c + 900) * (2 * m) = 2 * (a * m * m + a * m + c * m + 900 * m)
    OBVIOUS
  <2> QED  BY <1>6, <2>1, <2>2
<1> QED  BY <1>3, <1>5, <1>6, <1>7, RoundingKeepsOrder

(* Without a history the advice is that of the rules: the score is the     *)
(* prior.                                                                  *)
LEMMA ColdStart ==
    ASSUME NEW species, NEW l \in LureTypes, NEW h \in Hints, ~h.frenzy,
           NEW k \in Scores(species, l, h, Never)
    PROVE  k = 10 * Prior(species, l)
<1>1. Never \in Tallies
  BY DEF Never, Tallies
<1>2. PICK p \in 56 .. 88 : p = Prior(species, l)
  BY PriorRange
<1>3. Num(p, 0, Never) = 40 * p /\ Den(Never) = 4
  BY <1>2 DEF Num, Den, Never
<1>4. FrenzyBonus(l, h) = 0
  BY DEF FrenzyBonus
<1>5. k \in Rounded(40 * p, 4)
  BY <1>1, <1>2, <1>3, <1>4, NothingCapped DEF Scores
<1> QED  BY <1>2, <1>5 DEF Rounded

(* What two catches do at least.                                           *)
LEMMA TwoCatches ==
    ASSUME NEW species, NEW l \in LureTypes, NEW h \in Hints, NEW t \in Tallies,
           t.n = t.s, t.n >= 2, NEW k \in Scores(species, l, h, t)
    PROVE  k >= 659
<1> DEFINE p == Prior(species, l)  b == FrenzyBonus(l, h)
<1>1. p \in 56 .. 88 /\ b \in {0, 6}
  BY PriorRange DEF FrenzyBonus
<1>2. k \in Rounded(Num(p, b, t), Den(t))
  BY NothingCapped DEF Scores
<1> HIDE DEF p, b
<1>3. PICK n \in Nat : n = t.n /\ n = t.s /\ n >= 2
  BY DEF Tallies
<1>4. PICK a \in Int : a = 11 * p + 20 * b /\ a >= 616
  BY <1>1
<1>5. Num(p, b, t) = a * (n + 2) + 900 * n + 18 * p /\ Den(t) = 2 * (n + 2)
  BY <1>3, <1>4 DEF Num, Den
<1>6. a * (n + 2) >= 616 * (n + 2)
  BY <1>3, <1>4
<1>7. 2 * (616 * (n + 2) + 900 * n + 1008) <= (2 * k + 1) * (2 * (n + 2))
  BY <1>1, <1>2, <1>3, <1>4, <1>5, <1>6 DEF Rounded
<1>8. k \in Int
  BY DEF Scores, Rounded
<1>9. SUFFICES ASSUME k <= 658 PROVE FALSE
  BY <1>8
<1>10. (2 * k + 1) * (2 * (n + 2)) <= 1317 * (2 * (n + 2))
  BY <1>3, <1>8, <1>9
<1> QED  BY <1>3, <1>7, <1>8, <1>10

(* The four lures, at the most, that the rules value more than that.       *)
Strong(species) ==
    {"MINNOW", "VIB", "SOFT"} \cup
    CASE species = "YELLOWCHECK" -> {"PENCIL"}
      [] species = "SNAKEHEAD" -> {"POPPER"}
      [] species = "SEA_BASS" -> {"JIG"}
      [] OTHER -> {}

LEMMA StrongOnes ==
    ASSUME NEW species
    PROVE  /\ \A l \in LureTypes \ Strong(species) : Prior(species, l) <= 64
           /\ \E x : Strong(species) \subseteq {"MINNOW", "VIB", "SOFT", x}
  BY DEF LureTypes, Strong, Prior, RulePrior, Boost

LEMMA OneMore ==
    ASSUME NEW S, IsFiniteSet(S), NEW n \in Nat, Cardinality(S) <= n, NEW x
    PROVE  IsFiniteSet(S \cup {x}) /\ Cardinality(S \cup {x}) <= n + 1
<1>1. Cardinality(S) \in Nat
  BY FS_CardinalityType
<1>2. Cardinality(S \cup {x}) = IF x \in S THEN Cardinality(S) ELSE Cardinality(S) + 1
  BY FS_AddElement
<1> QED  BY <1>1, <1>2, FS_AddElement

LEMMA FourAtMost ==
    ASSUME NEW a, NEW b, NEW c, NEW d, NEW A, A \subseteq {a, b, c, d}
    PROVE  Cardinality(A) <= 4
<1>1. IsFiniteSet({a}) /\ Cardinality({a}) = 1
  BY FS_Singleton
<1>2. IsFiniteSet({a, b}) /\ Cardinality({a, b}) <= 2
  <2>1. {a, b} = {a} \cup {b}
    OBVIOUS
  <2>2. Cardinality({a}) <= 1 /\ 1 + 1 = 2
    BY <1>1
  <2> QED  BY <1>1, <2>1, <2>2, OneMore
<1>3. IsFiniteSet({a, b, c}) /\ Cardinality({a, b, c}) <= 3
  <2>1. {a, b, c} = {a, b} \cup {c}
    OBVIOUS
  <2>2. IsFiniteSet({a, b} \cup {c}) /\ Cardinality({a, b} \cup {c}) <= 2 + 1
    BY <1>2, OneMore
  <2> QED  BY <2>1, <2>2
<1>4. IsFiniteSet({a, b, c, d}) /\ Cardinality({a, b, c, d}) <= 4
  <2>1. {a, b, c, d} = {a, b, c} \cup {d}
    OBVIOUS
  <2>2. IsFiniteSet({a, b, c} \cup {d}) /\ Cardinality({a, b, c} \cup {d}) <= 3 + 1
    BY <1>3, OneMore
  <2> QED  BY <2>1, <2>2
<1>5. /\ Cardinality(A) \in Nat /\ Cardinality({a, b, c, d}) \in Nat
      /\ Cardinality(A) <= Cardinality({a, b, c, d})
  BY <1>4, FS_Subset, FS_CardinalityType
<1> QED  BY <1>4, <1>5

(* History shifts the ranking: a lure with which alone an angler has had   *)
(* two catches or more is advised to him, whatever the species and the     *)
(* water.                                                                  *)
THEOREM HabitIsAdvised ==
    ASSUME NEW species, NEW h \in Hints, ~h.frenzy,
           NEW history \in [LureTypes -> Tallies], NEW l \in LureTypes,
           history[l].n = history[l].s, history[l].n >= 2,
           \A b \in LureTypes \ {l} : history[b] = Never,
           NEW A \in Recommend(species, h, history)
    PROVE  l \in A
<1>1. PICK score \in [LureTypes -> 0 .. 1000] :
         /\ \A b \in LureTypes : score[b] \in Scores(species, b, h, history[b])
         /\ A \in Advised(score)
  BY DEF Recommend
<1>2. /\ A \subseteq LureTypes /\ Cardinality(A) = 5
      /\ \A a \in A, b \in LureTypes \ A : score[a] >= score[b]
  BY <1>1 DEF Advised
<1> SUFFICES ASSUME l \notin A PROVE FALSE
  OBVIOUS
<1>3. score[l] >= 659
  BY <1>1, TwoCatches
<1>4. \A b \in LureTypes \ {l} : score[b] = 10 * Prior(species, b)
  BY <1>1, ColdStart
<1>5. A \subseteq Strong(species)
  <2> SUFFICES ASSUME NEW a \in A, a \notin Strong(species) PROVE FALSE
    OBVIOUS
  <2>1. a \in LureTypes \ {l}
    BY <1>2
  <2>2. Prior(species, a) <= 64 /\ Prior(species, a) \in Int
    BY <2>1, StrongOnes, PriorRange
  <2>3. score[a] <= 640
    BY <1>4, <2>1, <2>2
  <2>4. score[a] \in 0 .. 1000 /\ score[l] \in 0 .. 1000
    BY <1>1, <2>1
  <2> DEFINE x == score[a]  y == score[l]
  <2>5. x \in 0 .. 640
    BY <2>3, <2>4
  <2>6. y \in 659 .. 1000
    BY <1>3, <2>4
  <2>7. x >= y
    BY <1>2
  <2> HIDE DEF x, y
  <2> QED  BY <2>5, <2>6, <2>7
<1>6. Cardinality(A) <= 4
  BY <1>5, StrongOnes, FourAtMost
<1> QED  BY <1>2, <1>6
=============================================================================
