------------------------------- MODULE Analysis -------------------------------
(* analyze_number as a function of what the database knows of one number: the *)
(* signals, their score and confidence, and the verdict, level, reputation    *)
(* and action that follow.  callshield/intelligence, callshield/rules/        *)
(* engine.py, callshield/detector.py.                                         *)
(*                                                                            *)
(* Evidence is a record: black and white say on which lists the number is,    *)
(* total, suspicious and blocked count its events, recent those inside        *)
(* recent_window_seconds, reports its reports and anomalies the oddities of   *)
(* its format.  Scores are points, confidences are hundredths.                *)
EXTENDS Integers, FiniteSetsExt

Profiles == {"RELAXED", "BALANCED", "STRICT"}
Verdicts == {"SAFE", "UNKNOWN", "SUSPICIOUS", "HIGH_RISK", "MALICIOUS"}

Least(a, b) == IF a < b THEN a ELSE b
Greatest(a, b) == IF a < b THEN b ELSE a
Clamp(low, high, x) == Greatest(low, Least(high, x))

\* PROFILES, and TIER_THRESHOLDS for "malicious".
Thresholds ==
    [RELAXED  |-> [suspicious |-> 45, high |-> 70, block |-> 80, floor |-> 75],
     BALANCED |-> [suspicious |-> 30, high |-> 60, block |-> 60, floor |-> 60],
     STRICT   |-> [suspicious |-> 20, high |-> 50, block |-> 50, floor |-> 45]]

MaliciousScore == 85

\* The weights of a profile as _apply_weight_multipliers leaves them with the
\* default multipliers: history 1, reports 1, patterns 1/2 (5/2 and 3/2 round to 2).
Weights ==
    [RELAXED  |-> [black |-> 80, blocked |-> 20, suspicious |-> 15, rapid |-> 5,
                   reports |-> 25, reputation |-> 10, format |-> 2],
     BALANCED |-> [black |-> 80, blocked |-> 20, suspicious |-> 15, rapid |-> 10,
                   reports |-> 25, reputation |-> 10, format |-> 2],
     STRICT   |-> [black |-> 80, blocked |-> 20, suspicious |-> 20, rapid |-> 15,
                   reports |-> 30, reputation |-> 10, format |-> 2]]

------------------------------------------------------------------------------
(* The signals.                                                               *)

Signal(name, score, confidence) ==
    [name |-> name, score |-> score, confidence |-> confidence,
     positive |-> name \notin {"whitelist_match", "list_conflict"}]

WhitelistSignal(e) == IF e.white THEN {Signal("whitelist_match", -100, 100)} ELSE {}

\* Mutant: the entry of the user is trusted like a report.
BlacklistDoubted(w, e) ==
    IF e.black THEN {Signal("blacklist_match", w.reports, 55)} ELSE {}

BlacklistSignal(w, e) == IF e.black THEN {Signal("blacklist_match", w.black, 100)} ELSE {}

ConflictSignal(e) ==
    IF e.black /\ e.white THEN {Signal("list_conflict", 0, 100)} ELSE {}

PreviousBlocks(w, e) ==
    IF e.blocked = 0 THEN {}
    ELSE {Signal("previous_block_events", Least(w.blocked, 10 + 5 * Least(e.blocked, 4)),
                 Least(90, 50 + 10 * Least(e.blocked, 4)))}

\* Mutant: the share of the events counts and not their number.
RepeatedShare(w, e) ==
    IF e.suspicious < 2 THEN {}
    ELSE {Signal("previous_suspicious_events", (w.suspicious * e.suspicious) \div e.total,
                 Least(85, 40 + 7 * Least(e.suspicious, 8)))}

RepeatedSuspicious(w, e) ==
    IF e.suspicious < 2 THEN {}
    ELSE {Signal("previous_suspicious_events", Least(w.suspicious, 3 * Least(e.suspicious, 8)),
                 Least(85, 40 + 7 * Least(e.suspicious, 8)))}

\* Mutant: the weight no longer caps the contribution of repeated calls.
RapidUncapped(w, e) ==
    IF e.recent < 3 THEN {}
    ELSE {Signal("rapid_repeat_events", 3 * w.rapid * Least(e.recent, 6), 65)}

RapidRepeat(w, e) ==
    IF e.recent < 3 THEN {}
    ELSE {Signal("rapid_repeat_events", Least(w.rapid, 3 * Least(e.recent, 6)), 65)}

UserReports(w, e) ==
    IF e.reports = 0 THEN {}
    ELSE {Signal("manual_user_report", Least(w.reports, 8 * Least(e.reports, 6)),
                 Least(85, 40 + 15 * Least(e.reports, 4)))}

\* The row looked at last counts: a whitelist row is TRUSTED and gives no signal, a
\* blacklist row is MALICIOUS (upsert_list_entry).
ReputationHistory(w, e) ==
    IF e.black /\ ~e.white THEN {Signal("reputation_history", w.reputation, 75)} ELSE {}

FormatAnomaly(w, e) ==
    IF e.anomalies = 0 THEN {}
    ELSE {Signal("number_format_anomaly", Least(w.format, 2 * e.anomalies), 35)}

\* evaluate_signals.
Signals(w, e) ==
    UNION {WhitelistSignal(e), BlacklistSignal(w, e), ConflictSignal(e),
           PreviousBlocks(w, e), RepeatedSuspicious(w, e), RapidRepeat(w, e),
           UserReports(w, e), ReputationHistory(w, e), FormatAnomaly(w, e)}

------------------------------------------------------------------------------
(* Score and confidence.                                                      *)

Names(signals) == {s.name : s \in signals}

\* _score_from_signals.
Score(signals) ==
    IF "whitelist_match" \in Names(signals) THEN 0
    ELSE Clamp(0, 100, MapThenSumSet(LAMBDA s : s.score, signals))

\* x / y rounded to the nearest integer, and to the even one of two (Python's round).
Rounded(x, y) ==
    LET q == x \div y
        r == x % y
    IN IF 2 * r > y \/ (2 * r = y /\ q % 2 = 1) THEN q + 1 ELSE q

\* The mean confidence of the signals, each weighted by its points and its
\* confidence, on a scale to 65, and a bonus.
BaseAndBonus(signals, bonus) ==
    LET points(s) == IF s.score < 0 THEN -s.score ELSE s.score
        weight == MapThenSumSet(LAMBDA s : points(s) * s.confidence, signals)
        total  == MapThenSumSet(LAMBDA s : points(s) * s.confidence * s.confidence, signals)
    IN IF weight = 0 THEN bonus
       ELSE Rounded(65 * total + 100 * weight * bonus, 100 * weight)

\* compute_confidence.
Confidence(signals, depth) ==
    LET positive == {s \in signals : s.positive /\ s.score > 0}
        negative == {s \in signals : ~s.positive \/ s.score < 0}
        strong(S) == {s \in S : s.confidence >= 80}
        strength ==
            IF strong(negative) # {} /\ strong(positive) = {} THEN 15
            ELSE IF strong(positive) # {} /\ strong(negative) = {}
                 THEN 10 + 5 * Least(2, Cardinality(strong(positive)))
                 ELSE 0
        agreement == Least(15, 5 * Greatest(Cardinality(positive), Cardinality(negative)))
        conflict  == IF "list_conflict" \in Names(signals) THEN 20 ELSE 0
    IN IF signals = {} THEN 25
       ELSE Clamp(5, 99, BaseAndBonus(positive \union negative,
                             agreement + Least(10, depth) + strength - conflict))

------------------------------------------------------------------------------
(* What follows from them.                                                    *)

\* _tier_from_score, with the level analyze_number gives a number nothing is known of.
Level(t, score, verdict) ==
    CASE score >= MaliciousScore                 -> "CRITICAL"
      [] score \in t.high..(MaliciousScore - 1)  -> "HIGH"
      [] score \in t.suspicious..(t.high - 1)    -> "MEDIUM"
      [] OTHER -> IF verdict = "UNKNOWN" /\ score = 0 THEN "UNKNOWN" ELSE "LOW"

\* _verdict_from_score; black says that the blacklist applies.
Verdict(t, white, black, score) ==
    IF white THEN "SAFE"
    ELSE IF black \/ score >= MaliciousScore THEN "MALICIOUS"
    ELSE IF score >= t.high THEN "HIGH_RISK"
    ELSE IF score >= t.suspicious THEN "SUSPICIOUS"
    ELSE "UNKNOWN"

\* _reputation_from_state: the tiers of rules/defaults.py, whatever the profile.
Reputation(white, black, score, signals) ==
    IF white THEN IF "previous_block_events" \in Names(signals) THEN "SAFE" ELSE "TRUSTED"
    ELSE IF black \/ score >= MaliciousScore THEN "MALICIOUS"
    ELSE IF score >= 60 THEN "HIGH_RISK"
    ELSE IF score >= 30 THEN "SUSPICIOUS"
    ELSE IF score > 0 THEN "SAFE"
    ELSE "UNKNOWN"

\* _action_from_state.
Action(t, verdict, score, confidence) ==
    IF \/ verdict = "MALICIOUS"
       \/ verdict = "HIGH_RISK" /\ score >= t.block /\ confidence >= t.floor
    THEN "BLOCK"
    ELSE IF verdict \in {"HIGH_RISK", "SUSPICIOUS"} THEN "MONITOR"
    ELSE "ALLOW"

\* RuleEngine.evaluate.
Analyzed(profile, e) ==
    LET t          == Thresholds[profile]
        signals    == Signals(Weights[profile], e)
        score      == Score(signals)
        confidence == Confidence(signals, e.total)
        verdict    == Verdict(t, e.white, e.black /\ ~e.white, score)
    IN [score      |-> score,
        confidence |-> confidence,
        verdict    |-> verdict,
        level      |-> Level(t, score, verdict),
        reputation |-> Reputation(e.white, e.black /\ ~e.white, score, signals),
        action     |-> Action(t, verdict, score, confidence)]
==============================================================================
