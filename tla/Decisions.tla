------------------------------- MODULE Decisions -------------------------------
(* Analyses and policy together: the history of a number and what its         *)
(* analyses make of it, beside the contract of policy, daemon, database and   *)
(* bridge.                                                                    *)
EXTENDS ScreeningContract, CallHistory

\* A configuration and what an analysis may find, to be completed below.
AConfig == [enabled |-> FALSE, mode |-> "DRY_RUN", confirmed |-> FALSE, policy |-> "BALANCED",
            thresholds |-> DefaultThresholds]
ADetection == [risk |-> 79, confidence |-> 74, whitelisted |-> FALSE, reputationError |-> FALSE,
               intelligenceError |-> FALSE, trend |-> "OTHER"]

--------------------------------------------------------------------------------
(* Properties of analyses and policy together.                                *)

Result == Analyzed(profile, evidence)

\* What ACTIVE screening applies to this number if nothing else is known of it.
Screened(policy) ==
    Decide([ADetection EXCEPT !.risk = Result.score, !.confidence = Result.confidence,
                              !.whitelisted = evidence.white],
           [AConfig EXCEPT !.enabled = TRUE, !.mode = "ACTIVE", !.confirmed = TRUE,
                           !.policy = policy],
           FALSE).applied

\* The user's lists have the last word whatever has been recorded of a number: one on the
\* whitelist is never blocked, on both lists neither, and one on the blacklist alone is
\* blocked by its analysis and by ACTIVE screening unless that is RELAXED, which may ask
\* for a higher score (signals.py, _verdict_from_score, PolicyEngine.decide).
ListsDecide ==
    /\ evidence.white =>
           Result.action = "ALLOW" /\ \A p \in PolicyNames : Screened(p) = "ALLOW"
    /\ evidence.black /\ ~evidence.white =>
           Result.action = "BLOCK" /\ \A p \in PolicyNames \ {"RELAXED"} : Screened(p) = "BLOCK"

\* "We never label a number as fraudulent without positive local evidence": calls and
\* scans alone, however many and however fast, are no evidence, although each is recorded
\* with the verdict it got and counted by the next one (analyze_number).
NoAccusation ==
    evidence.reports = 0 /\ ~evidence.black /\ evidence.blocked = 0 =>
        Result.verdict \in {"SAFE", "UNKNOWN"}

Severity == [ALLOW |-> 0, MONITOR |-> 1, BLOCK |-> 2]

\* One more report and one more analysis never lower the score and never weaken the
\* action, although they may lower the confidence the action depends on
\* (compute_confidence, _action_from_state); nor does the policy, asked about higher
\* scores or under a stricter name, take back a BLOCK.
EvidenceAddsUp ==
    LET now == Result IN
    /\ \A more \in {Record(evidence, now), Reported(evidence)} :
          LET then == Analyzed(profile, more)
          IN  then.score >= now.score /\ Severity[then.action] >= Severity[now.action]
    /\ ScoresAddUp
================================================================================
