------------------------------ MODULE BiteScore ------------------------------
(***************************************************************************)
(* How good the bite was: what Engine.Retro of internal/hydro/engine.go    *)
(* makes of the weather, the tide and the hour of a catch, and the score   *)
(* that dag.go gives it.  Pure functions, no state.                        *)
(*                                                                         *)
(* The code computes with floats.  Here a pressure difference is in 1/100  *)
(* hPa, a temperature, a percentage and an angle in 1/10, a tide slope in  *)
(* 1/10 mm per point of the series, a contribution in points, their        *)
(* weights in 1/100 and the score in 1/10.  The weighing is exact in these *)
(* units, and no sum lies half way between two tenths (NoTies), so that    *)
(* math.Round has one answer whatever the float error.                     *)
(***************************************************************************)
EXTENDS Integers

Trends == {"CRASH_DOWN", "FALL", "STABLE", "RISE", "CRASH_UP"}
Windows == {"SLACK_LOW", "EARLY_FLOOD", "THIRD", "HALF", "SEVENTH",
            "SLACK_HIGH", "EARLY_EBB", "RAPID_EBB"}
Aspects == {"ONSHORE", "OFFSHORE", "CROSS"}
Moons == {"NEW", "WAXING_CRESCENT", "FIRST_QUARTER", "WAXING_GIBBOUS", "FULL",
          "WANING_GIBBOUS", "LAST_QUARTER", "WANING_CRESCENT"}
Periods == {"DAWN", "DAY", "DUSK", "NIGHT"}
Nodes == {"pressure", "tide", "wind", "moon", "temp", "period"}

Abs(x) == IF x < 0 THEN -x ELSE x

(* math.Mod: the remainder has the sign of x.                              *)
TruncMod(x, m) == IF x >= 0 THEN x % m ELSE -((-x) % m)

-----------------------------------------------------------------------------
ClassifyPressure(delta) ==
    CASE delta <= -300 -> "CRASH_DOWN"
      [] delta >= 300 -> "CRASH_UP"
      [] Abs(delta) < 50 -> "STABLE"
      [] delta \in -299 .. -50 -> "FALL"
      [] OTHER -> "RISE"

ShoreAspect(wind, bearing) ==
    LET diff == Abs(TruncMod(wind - bearing + 5400, 3600) - 1800)
    IN  CASE diff <= 450 -> "ONSHORE"
          [] diff >= 1350 -> "OFFSHORE"
          [] OTHER -> "CROSS"

(* phase: where the height lies between the lowest and the highest of the  *)
(* day; slope: what it gains from one point of the series to the next.     *)
(* Heights are whole mm, but their difference is a float: at a threshold   *)
(* it may come out on either side, which is the next slope up or down.     *)
ClassifyTide(phase, slope) ==
    LET rising == slope > 80
        falling == slope < -80
        slack == Abs(slope) < 120
    IN  CASE slack /\ phase <= 80 -> "SLACK_LOW"
          [] slack /\ phase >= 920 -> "SLACK_HIGH"
          [] ~(slack /\ (phase <= 80 \/ phase >= 920)) ->
               CASE rising /\ phase < 280 -> "EARLY_FLOOD"
                 [] rising /\ phase \in 280 .. 419 -> "THIRD"
                 [] rising /\ phase \in 420 .. 579 -> "HALF"
                 [] rising /\ phase \in 580 .. 819 -> "SEVENTH"
                 [] falling /\ phase > 750 -> "EARLY_EBB"
                 [] falling /\ phase <= 750 -> "RAPID_EBB"
                 [] OTHER -> "HALF"

DayPeriod(hour) ==
    CASE hour \in 4 .. 6 -> "DAWN"
      [] hour \in 17 .. 19 -> "DUSK"
      [] hour >= 20 \/ hour < 4 -> "NIGHT"
      [] OTHER -> "DAY"

(* What Retro gathers for ScoreBite.  Without tidal water the window is    *)
(* HALF; without a measured water temperature it is the air's less 1.5.    *)
Queries ==
    [delta : Int, tidal : BOOLEAN, phase : 0 .. 1000, slope : Int,
     wind : 0 .. 3599, bearing : Int, beaufort : 0 .. 12, moon : Moons,
     hour : 0 .. 23, measured : BOOLEAN, water : Int, air : Int]

Context(q) ==
    [trend    |-> ClassifyPressure(q.delta),
     tide     |-> IF q.tidal THEN ClassifyTide(q.phase, q.slope) ELSE "HALF",
     aspect   |-> ShoreAspect(q.wind, q.bearing),
     beaufort |-> q.beaufort,
     moon     |-> q.moon,
     period   |-> DayPeriod(q.hour),
     temp     |-> IF q.measured THEN q.water ELSE q.air - 15]

Contexts ==
    [trend : Trends, tide : Windows, aspect : Aspects, beaufort : 0 .. 12,
     moon : Moons, period : Periods, temp : Int]

-----------------------------------------------------------------------------
PressureBase(t) ==
    CASE t = "CRASH_DOWN" -> 90 [] t = "FALL" -> 72 [] t = "STABLE" -> 52
      [] t = "RISE" -> 40 [] t = "CRASH_UP" -> 24 [] OTHER -> 50

TideBase(t) ==
    CASE t = "THIRD" -> 88 [] t = "EARLY_FLOOD" -> 80 [] t = "SEVENTH" -> 76
      [] t = "HALF" -> 70 [] t = "EARLY_EBB" -> 68 [] t = "RAPID_EBB" -> 58
      [] t = "SLACK_HIGH" -> 50 [] t = "SLACK_LOW" -> 42 [] OTHER -> 55

WindBase(b, aspect) ==
      (CASE b \in 2 .. 4 -> 74 [] b = 5 -> 62 [] b <= 1 -> 40 [] OTHER -> 28)
    + (IF aspect = "ONSHORE" /\ b \in 2 .. 5 THEN 6 ELSE 0)
    - (IF aspect = "OFFSHORE" THEN 4 ELSE 0)

MoonBase(m) ==
    CASE m \in {"NEW", "FULL"} -> 78
      [] m \in {"WAXING_GIBBOUS", "WANING_GIBBOUS"} -> 64
      [] m \in {"FIRST_QUARTER", "LAST_QUARTER"} -> 56
      [] OTHER -> 50

TempBase(c) ==
    CASE c \in 180 .. 260 -> 80 [] c \in 140 .. 179 -> 64
      [] c \in 261 .. 300 -> 58 [] OTHER -> 38

PeriodBase(p) ==
    CASE p = "DAWN" -> 86 [] p = "DUSK" -> 84 [] p = "NIGHT" -> 58 [] OTHER -> 42

Base(x, n) ==
    CASE n = "pressure" -> PressureBase(x.trend)
      [] n = "tide" -> TideBase(x.tide)
      [] n = "wind" -> WindBase(x.beaufort, x.aspect)
      [] n = "moon" -> MoonBase(x.moon)
      [] n = "temp" -> TempBase(x.temp)
      [] n = "period" -> PeriodBase(x.period)

-----------------------------------------------------------------------------
(* The edges of the graph, each with the nodes it leads to.                *)
Twilight(x) == x.period \in {"DAWN", "DUSK"}

TideBonus(x) ==
    IF x.trend = "CRASH_DOWN" /\ x.tide \in {"THIRD", "EARLY_FLOOD"} THEN 12 ELSE 0

WindBonus(x) ==
    IF /\ x.tide \in {"THIRD", "SEVENTH"} /\ x.aspect = "ONSHORE"
       /\ x.beaufort \in 2 .. 5
    THEN 6 ELSE 0

TempBonus(x) == IF x.trend = "CRASH_UP" /\ x.temp >= 280 THEN -8 ELSE 0

PeriodBonus(x) ==
      (IF x.trend = "CRASH_DOWN" /\ Twilight(x) THEN 8 ELSE 0)
    + (IF x.moon = "FULL" /\ x.period = "NIGHT" THEN 10 ELSE 0)
    + (IF x.temp \in 160 .. 260 /\ Twilight(x) THEN 5 ELSE 0)

Bonus(x, n) ==
    CASE n = "tide" -> TideBonus(x)
      [] n = "wind" -> WindBonus(x)
      [] n = "temp" -> TempBonus(x)
      [] n = "period" -> PeriodBonus(x)
      [] OTHER -> 0

Clamp(v) == IF v < 0 THEN 0 ELSE IF v > 100 THEN 100 ELSE v

Contribution(x, n) == Clamp(Base(x, n) + Bonus(x, n))

Weighed(x) ==
      24 * Contribution(x, "pressure") + 22 * Contribution(x, "tide")
    + 14 * Contribution(x, "wind") + 12 * Contribution(x, "moon")
    + 14 * Contribution(x, "temp") + 14 * Contribution(x, "period")

Score(x) == (Weighed(x) + 5) \div 10

Frenzy(x) == Score(x) >= 750
=============================================================================
