-------------------------------- MODULE Trend --------------------------------
(* What the risk scores measured for a number say of its behavior: the trend  *)
(* over its timeline, whose VOLATILE vetoes a BLOCK of the policy, the trend  *)
(* of the reputation over its history, and the patterns shown with them.      *)
(* callshield/adaptive/trends.py, callshield/adaptive/patterns.py,            *)
(* callshield/reputation/history.py.                                          *)
EXTENDS Integers, SequencesExt

CONSTANTS
    RiskScores,   \* the scores observed, out of 0..100
    TimelineBound \* observations made in a run

ASSUME ScoresAssumption == RiskScores \subseteq 0..100

VARIABLE timeline  \* the risk scores observed, oldest first

TrendTypeOK == timeline \in BoundedSeq(RiskScores, TimelineBound)

TrendInit == timeline = << >>

Observe(score) ==
    /\ Len(timeline) < TimelineBound
    /\ timeline' = Append(timeline, score)

TrendNext == \E score \in RiskScores : Observe(score)

TrendSpec == TrendInit /\ [][TrendNext]_timeline

------------------------------------------------------------------------------
(* analyze_trend, on the timeline and the current score.                      *)

AbsValue(x) == IF x < 0 THEN -x ELSE x

NoiseThreshold   == 5
SustainedDelta   == 10
VolatilityRange  == 25

LastTwenty(values) ==
    IF Len(values) <= 20 THEN values ELSE SubSeq(values, Len(values) - 19, Len(values))

\* The current score is appended unless it repeats the last observation.
WithCurrent(scores, current) ==
    LET recent == LastTwenty(scores)
    IN IF recent # << >> /\ Last(recent) = current THEN recent
       ELSE LastTwenty(Append(recent, current))

\* A step is known by the place it leads to.
Step(values, i) == values[i] - values[i - 1]

MeaningfulSteps(values) ==
    {i \in 2..Len(values) : AbsValue(Step(values, i)) >= NoiseThreshold}

Increases(values) == {i \in MeaningfulSteps(values) : Step(values, i) > 0}
Decreases(values) == {i \in MeaningfulSteps(values) : Step(values, i) < 0}

\* The meaningful steps that go another way than the meaningful step before them.
DirectionChanges(values) ==
    {i \in MeaningfulSteps(values) :
        \E j \in MeaningfulSteps(values) :
            /\ j < i /\ \A k \in MeaningfulSteps(values) : k <= j \/ k >= i
            /\ (Step(values, i) > 0) # (Step(values, j) > 0)}

Spread(values) == Max(ToSet(values)) - Min(ToSet(values))

Volatile(values) ==
    Spread(values) >= VolatilityRange /\ Cardinality(DirectionChanges(values)) >= 2

\* Mutant: a decrease needs to be larger than an increase to count.
TrendSkewed(scores, current) ==
    LET values == WithCurrent(scores, current)
        total  == Last(values) - Head(values)
    IN CASE Len(values) < 3                       -> "INSUFFICIENT_DATA"
         [] Len(values) >= 3 /\ Volatile(values)  -> "VOLATILE"
         [] OTHER -> IF total >= SustainedDelta THEN "WORSENING"
                     ELSE IF total < -SustainedDelta THEN "IMPROVING" ELSE "STABLE"

TrendOf(scores, current) ==
    LET values   == WithCurrent(scores, current)
        half     == (Cardinality(MeaningfulSteps(values)) + 1) \div 2
        required == IF half > 2 THEN half ELSE 2
        total    == Last(values) - Head(values)
    IN IF Len(values) < 3 THEN "INSUFFICIENT_DATA"
       ELSE IF Volatile(values) THEN "VOLATILE"
       ELSE IF total >= SustainedDelta /\ Cardinality(Increases(values)) >= required
            THEN "WORSENING"
       ELSE IF total <= -SustainedDelta /\ Cardinality(Decreases(values)) >= required
            THEN "IMPROVING"
       ELSE "STABLE"

------------------------------------------------------------------------------
(* detect_trend of the reputation: the averages of the two halves of the last *)
(* ten scores.                                                                *)

SumOf(values) == FoldSeq(LAMBDA x, y : x + y, 0, values)

LastTen(values) ==
    IF Len(values) <= 10 THEN values ELSE SubSeq(values, Len(values) - 9, Len(values))

\* How much the sum of the last scores exceeds that of as many first ones.
Rise(values, mid) ==
    SumOf(SubSeq(values, Len(values) - mid + 1, Len(values))) - SumOf(SubSeq(values, 1, mid))

\* An average is a double.  The quotient of a sum from 2^b * mid / 8 on, and less than
\* twice that, is rounded to a multiple of 2^(b - 55): by how much, in units of
\* 2^(-55) / mid.  For the mids up to 5 there are, 2^(55 - b) leaves the rest of 2^(15 - b).
RoundingError(sum, mid) ==
    IF sum = 0 THEN 0
    ELSE LET b    == CHOOSE b \in 0..9 : 2^b * mid <= 8 * sum /\ 8 * sum < 2^(b + 1) * mid
             rest == (sum * 2^(15 - b)) % mid
         IN  2^b * (IF 2 * rest < mid THEN -rest ELSE mid - rest)

\* By how much the difference of the averages is off before it is rounded itself.
Drift(values, mid) ==
    RoundingError(SumOf(SubSeq(values, Len(values) - mid + 1, Len(values))), mid)
        - RoundingError(SumOf(SubSeq(values, 1, mid)), mid)

\* Averages ten points apart reach the ten points if their doubles differ by 10.0 or by at
\* most 2^(-50) less, which is half of the way to the next double and rounds to 10.0.
ReputationTrend(previous, current) ==
    LET all   == Append(previous, current)
        ten   == LastTen(all)
        mid   == Len(ten) \div 2
        delta == Rise(ten, mid)
    IN IF Len(all) < 3 THEN "UNKNOWN"
       ELSE IF delta > 10 * mid \/ (delta = 10 * mid /\ Drift(ten, mid) >= -32 * mid)
            THEN "WORSENING"
       ELSE IF delta < -10 * mid \/ (delta = -10 * mid /\ Drift(ten, mid) <= 32 * mid)
            THEN "IMPROVING"
       ELSE "STABLE"

------------------------------------------------------------------------------
(* detect_patterns, of which the trend decides these.                         *)

\* baseline is the current_score of the stored profile.
TrendPatterns(trend, baseline, current) ==
    (IF trend = "WORSENING" /\ current - baseline >= 15 THEN {"rapidly_increasing_risk"} ELSE {})
    \union
    (IF trend = "IMPROVING" /\ current - baseline <= -15 THEN {"recently_improved"} ELSE {})
    \union
    (IF trend = "VOLATILE" THEN {"inconsistent_behavior"} ELSE {})
------------------------------------------------------------------------------
(* A property of the trends.                                                  *)

Turned(scores) == [i \in DOMAIN scores |-> 100 - scores[i]]
Opposite ==
    [WORSENING |-> "IMPROVING", IMPROVING |-> "WORSENING", STABLE |-> "STABLE",
     VOLATILE |-> "VOLATILE", INSUFFICIENT_DATA |-> "INSUFFICIENT_DATA", UNKNOWN |-> "UNKNOWN"]

\* Whether the averages the reputation's trend compares are ten points apart, exactly,
\* and which of them is the larger.
TenApart(previous, current) ==
    LET ten == LastTen(Append(previous, current))
        mid == Len(ten) \div 2
    IN  AbsValue(Rise(ten, mid)) = 10 * mid

Heading(previous, current) ==
    LET ten == LastTen(Append(previous, current))
    IN  IF Rise(ten, Len(ten) \div 2) > 0 THEN "WORSENING" ELSE "IMPROVING"

\* No direction is favoured: a history that goes down where another goes up gets the
\* opposite trend, from the timeline at every threshold, and from the reputation's scores
\* unless their averages are exactly ten points apart: then rounding may make one of the
\* two STABLE, and the other still has the direction of its averages (analyze_trend,
\* detect_trend).
TrendMirrored ==
    \A current \in RiskScores :
        LET there == ReputationTrend(timeline, current)
            back  == ReputationTrend(Turned(timeline), 100 - current)
        IN  /\ TrendOf(Turned(timeline), 100 - current) = Opposite[TrendOf(timeline, current)]
            /\ \/ back = Opposite[there]
               \/ /\ TenApart(timeline, current)
                  /\ \/ there = "STABLE" /\ back = Opposite[Heading(timeline, current)]
                     \/ there = Heading(timeline, current) /\ back = "STABLE"
==============================================================================
