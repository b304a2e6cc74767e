------------------------------ MODULE LureAdvice ------------------------------
(***************************************************************************)
(* Which lures an angler is advised to take: Recommend of                  *)
(* internal/lure/recommender.go and what RecommendLures hands to it.  Pure *)
(* functions, no state.                                                    *)
(*                                                                         *)
(* The code computes with floats; here a prior is in points and a score is *)
(* a fraction in 1/10, of which math.Round makes a whole number: the one   *)
(* next to it, either of the two at a tie, where the float error decides.  *)
(* Colours, labels and reasons are wording.                                *)
(***************************************************************************)
EXTENDS Integers, FiniteSets

LureTypes == {"MINNOW", "VIB", "SOFT", "PENCIL", "POPPER", "SPOON", "SPINNER", "JIG"}

(* What RecommendLures knows of the water: from the request, or from the   *)
(* last catch at the spot that has a snapshot; "" and 0 where it knows     *)
(* nothing.  Temperatures are in 1/10 degree.  That a frenzy is on it      *)
(* never says, although Recommend has a bonus for it.                      *)
Hints == [trend : {"CRASH_DOWN", "FALL", "STABLE", "RISE", "CRASH_UP", ""},
          window : {"SLACK_LOW", "EARLY_FLOOD", "THIRD", "HALF", "SEVENTH",
                    "SLACK_HIGH", "EARLY_EBB", "RAPID_EBB", ""},
          temp : Int, frenzy : BOOLEAN]

(* Of n tries with a lure, s were successes.  RecommendLures takes each of *)
(* the angler's catches for a successful try, or as many as its query      *)
(* yields before it breaks off.                                            *)
Tallies == {t \in [n : Nat, s : Nat] : t.s <= t.n}
Never == [n |-> 0, s |-> 0]

-----------------------------------------------------------------------------
(* Where a lure is led.                                                    *)
Cold(h) == h.temp \in 1 .. 139

Deep(h) == Cold(h) \/ h.trend = "CRASH_UP"

RuleLayer(h) ==
    IF Deep(h) THEN "DEEP"
    ELSE IF h.trend = "CRASH_DOWN" \/ h.window \in {"THIRD", "EARLY_FLOOD"}
    THEN "SHALLOW" ELSE "MID"

Layer(l, h) ==
    CASE l \in {"MINNOW", "SOFT"} -> RuleLayer(h)
      [] l \in {"VIB", "JIG"} -> "DEEP"
      [] l \in {"PENCIL", "POPPER"} -> "SHALLOW"
      [] OTHER -> "MID"

-----------------------------------------------------------------------------
RulePrior(l) ==
    CASE l = "MINNOW" -> 78 [] l = "VIB" -> 70 [] l = "SOFT" -> 68
      [] l = "PENCIL" -> 64 [] l = "POPPER" -> 60 [] l = "JIG" -> 62
      [] l = "SPOON" -> 58 [] l = "SPINNER" -> 56

Boost(species, l) ==
    CASE species = "YELLOWCHECK" /\ l = "MINNOW" -> 10
      [] species = "YELLOWCHECK" /\ l = "PENCIL" -> 8
      [] species = "MANDARIN" /\ l = "SOFT" -> 12
      [] species = "MANDARIN" /\ l = "VIB" -> 6
      [] species = "SNAKEHEAD" /\ l = "SOFT" -> 10
      [] species = "SNAKEHEAD" /\ l = "POPPER" -> 8
      [] species = "SEA_BASS" /\ l \in {"MINNOW", "JIG"} -> 8
      [] OTHER -> 0

Prior(species, l) == RulePrior(l) + Boost(species, l)

FrenzyBonus(l, h) == IF h.frenzy /\ l \in {"MINNOW", "PENCIL", "POPPER"} THEN 6 ELSE 0

(* 0.55 p + 0.45 * 100 * (s + 2p / 100) / (n + 2) + bonus, in tenths, as a *)
(* fraction.                                                               *)
Num(p, bonus, t) == (11 * p + 20 * bonus) * (t.n + 2) + 900 * t.s + 18 * p
Den(t) == 2 * (t.n + 2)

(* clamp, and what math.Round may make of its result.                      *)
Capped(num, den) == IF num < 0 THEN 0 ELSE IF num > 1000 * den THEN 1000 * den ELSE num

Rounded(num, den) == {k \in 0 .. 1000 : 2 * num \in (2 * k - 1) * den .. (2 * k + 1) * den}

Scores(species, l, h, t) ==
    Rounded(Capped(Num(Prior(species, l), FrenzyBonus(l, h), t), Den(t)), Den(t))

(* The five best, in the order of sort.Slice, which leaves equals as they  *)
(* fall.  There are eight, so the fallback never comes to the table.       *)
Advised(score) ==
    {A \in SUBSET LureTypes :
        /\ Cardinality(A) = 5
        /\ \A a \in A, b \in LureTypes \ A : score[a] >= score[b]}

Recommend(species, h, history) ==
    UNION {Advised(score) : score \in
        {f \in [LureTypes -> 0 .. 1000] :
            \A l \in LureTypes : f[l] \in Scores(species, l, h, history[l])}}
=============================================================================
