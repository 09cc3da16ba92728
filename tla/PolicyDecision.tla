---------------------------- MODULE PolicyDecision ----------------------------
(* The pure functions a screening decision goes through: PolicyEngine.decide, *)
(* the daemon's response and its last revalidation, what the database accepts *)
(* as a screening row, and what the Android bridge makes of the response.     *)
(* callshield/policy, callshield/daemon/service.py, callshield/database.py,   *)
(* android Protocol.kt and ScreeningResult.kt.                                *)
(*                                                                            *)
(* A detection is what the analysis found: risk and confidence scores,        *)
(* whether the number is whitelisted or trusted, whether the reputation or    *)
(* the intelligence was unavailable, and the behavioral trend.                *)
(* A config is what the policy reads of Config.                               *)
EXTENDS Integers, FiniteSetsExt

PolicyNames == {"RELAXED", "BALANCED", "STRICT"}
Modes   == {"DRY_RUN", "ACTIVE"}
Actions == {"ALLOW", "BLOCK"}
Scores  == 0..100

DefaultThresholds ==
    [RELAXED  |-> [block |-> 92, confidence |-> 90],
     BALANCED |-> [block |-> 85, confidence |-> 80],
     STRICT   |-> [block |-> 80, confidence |-> 75]]

Detection ==
    [risk : Scores, confidence : Scores, whitelisted : BOOLEAN,
     reputationError : BOOLEAN, intelligenceError : BOOLEAN,
     trend : {"VOLATILE", "OTHER"}]

\* The configurations _validate lets through: ACTIVE exactly when confirmed.
Config ==
    {c \in [enabled : BOOLEAN, mode : Modes, confirmed : BOOLEAN, policy : PolicyNames,
            thresholds : [PolicyNames -> [block : Scores, confidence : Scores]]] :
        c.mode = "ACTIVE" <=> c.confirmed}

ReasonCodes ==
    {"WHITELIST_OVERRIDE", "EMERGENCY_OFF", "POLICY_THRESHOLDS_NOT_MET", "SCREENING_DISABLED",
     "DRY_RUN", "ACTIVE_NOT_CONFIRMED", "VOLATILE_INTELLIGENCE_REVIEW", "ACTIVE_POLICY_BLOCK",
     "REPUTATION_UNAVAILABLE", "INTELLIGENCE_UNAVAILABLE", "SAFETY_FALLBACK", "POLICY_ERROR",
     "INVALID_REQUEST", "INVALID_NUMBER", "SCREENING_TIMEOUT", "ANALYSIS_ERROR"}

\* A PolicyDecision, and a response to the bridge.
Response ==
    [recommended : Actions, applied : Actions, reason : ReasonCodes, risk : Scores,
     confidence : Scores, mode : Modes, policy : PolicyNames, emergencyOff : BOOLEAN,
     policyError : BOOLEAN]

------------------------------------------------------------------------------
(* PolicyEngine.decide.                                                       *)

\* Mutant: the confidence threshold is not looked at.
MeetsRiskThreshold(d, c) ==
    d.risk >= c.thresholds[c.policy].block /\ ~d.whitelisted

MeetsThresholds(d, c) ==
    LET t == c.thresholds[c.policy] IN
    d.risk >= t.block /\ d.confidence >= t.confidence /\ ~d.whitelisted

\* The reasons not to block, in the order they are given.
Objections(d, c, emergency) ==
    << [holds |-> d.whitelisted,           reason |-> "WHITELIST_OVERRIDE"],
       [holds |-> emergency,               reason |-> "EMERGENCY_OFF"],
       [holds |-> ~MeetsThresholds(d, c),  reason |-> "POLICY_THRESHOLDS_NOT_MET"],
       [holds |-> ~c.enabled,              reason |-> "SCREENING_DISABLED"],
       [holds |-> c.mode = "DRY_RUN",      reason |-> "DRY_RUN"],
       [holds |-> ~c.confirmed,            reason |-> "ACTIVE_NOT_CONFIRMED"],
       [holds |-> d.trend = "VOLATILE",    reason |-> "VOLATILE_INTELLIGENCE_REVIEW"] >>

\* _safe_error_decision.
SafeError(d, c, reason) ==
    [recommended |-> "ALLOW", applied |-> "ALLOW", reason |-> reason,
     risk |-> d.risk, confidence |-> d.confidence,
     mode |-> c.mode, policy |-> c.policy, emergencyOff |-> TRUE, policyError |-> TRUE]

Weigh(d, c, emergency) ==
    LET all    == Objections(d, c, emergency)
        raised == {i \in 1..7 : all[i].holds}
    IN [recommended  |-> IF MeetsThresholds(d, c) THEN "BLOCK" ELSE "ALLOW",
        applied      |-> IF raised = {} THEN "BLOCK" ELSE "ALLOW",
        reason       |-> IF raised = {} THEN "ACTIVE_POLICY_BLOCK" ELSE all[Min(raised)].reason,
        risk         |-> d.risk,
        confidence   |-> d.confidence,
        mode         |-> c.mode,
        policy       |-> c.policy,
        emergencyOff |-> emergency,
        policyError  |-> FALSE]

Decide(d, c, emergency) ==
    IF d.reputationError THEN SafeError(d, c, "REPUTATION_UNAVAILABLE")
    ELSE IF d.intelligenceError THEN SafeError(d, c, "INTELLIGENCE_UNAVAILABLE")
    ELSE Weigh(d, c, emergency)

------------------------------------------------------------------------------
(* The daemon's response to a screening request.                              *)

\* _screening_fallback, and _set_screening_fallback for its applied side.
Fallback(reason) ==
    [recommended |-> "ALLOW", applied |-> "ALLOW", reason |-> reason,
     risk |-> 0, confidence |-> 0,
     mode |-> "DRY_RUN", policy |-> "BALANCED", emergencyOff |-> TRUE, policyError |-> FALSE]

\* Is an applied BLOCK still valid under the state read at the response boundary?
StillActive(r, c, emergency) ==
    /\ r.applied = "BLOCK" /\ r.recommended = "BLOCK" /\ r.mode = "ACTIVE"
    /\ c.enabled /\ c.mode = "ACTIVE" /\ c.confirmed
    /\ ~emergency

\* Mutant: an invalid BLOCK is marked as an error and still applied.
FinalizeQuietly(r, c, emergency) ==
    IF r.applied = "BLOCK" /\ ~StillActive(r, c, emergency)
    THEN [r EXCEPT !.reason = "SAFETY_FALLBACK", !.policyError = TRUE,
                   !.emergencyOff = emergency]
    ELSE [r EXCEPT !.emergencyOff = emergency]

\* The revalidation of _finalize_screening.
Finalize(r, c, emergency) ==
    IF r.applied = "BLOCK" /\ ~StillActive(r, c, emergency)
    THEN [r EXCEPT !.applied = "ALLOW", !.reason = "SAFETY_FALLBACK",
                   !.policyError = TRUE, !.emergencyOff = emergency]
    ELSE [r EXCEPT !.emergencyOff = emergency]

\* What add_screening_event accepts; anything else raises ValueError.
Persistable(r) ==
    /\ r.recommended \in Actions /\ r.applied \in Actions /\ r.mode \in Modes
    /\ r.applied = "BLOCK" =>
           r.mode = "ACTIVE" /\ r.recommended = "BLOCK" /\ ~r.emergencyOff
    /\ r.policy \in PolicyNames
    /\ r.risk \in Scores /\ r.confidence \in Scores

------------------------------------------------------------------------------
(* The Android bridge: ScreeningResponse.isValid, fromProtocolResponse and    *)
(* shouldApplyBlock.                                                          *)

BridgeAccepts(r) ==
    /\ r.recommended \in Actions /\ r.applied \in Actions /\ r.mode \in Modes
    /\ r.applied = "BLOCK" =>
           /\ r.mode = "ACTIVE" /\ r.recommended = "BLOCK"
           /\ ~r.emergencyOff /\ ~r.policyError
    /\ r.policy \in PolicyNames
    /\ r.risk \in Scores /\ r.confidence \in Scores

\* A response that is not accepted becomes an "unknown" result, which allows.
BridgeRejectsCall(r) ==
    /\ BridgeAccepts(r)
    /\ r.applied = "BLOCK" /\ r.mode = "ACTIVE" /\ r.recommended = "BLOCK"
    /\ ~r.emergencyOff /\ ~r.policyError
==============================================================================
