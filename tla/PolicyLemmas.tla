------------------------------ MODULE PolicyLemmas ------------------------------
(* What a decision, a revalidation and a fallback return, for all scores and  *)
(* thresholds and every valid configuration.  DecisionProofs and              *)
(* ScreeningProofs rest on these facts.                                       *)
EXTENDS PolicyDecision, TLAPS

(* What a valid configuration is. *)
LEMMA ConfigFields ==
    ASSUME NEW c \in Config
    PROVE  /\ c.enabled \in BOOLEAN /\ c.mode \in Modes /\ c.confirmed \in BOOLEAN
           /\ c.policy \in PolicyNames
           /\ c.mode = "ACTIVE" <=> c.confirmed
BY DEF Config

(* The smallest of some indices of the seven objections is one of them. *)
LEMMA SmallestIndex ==
    ASSUME NEW S \in SUBSET (1..7), S # {}
    PROVE  Min(S) \in S
<1>1. \E x \in S : \A y \in S : x <= y
  <2>1. CASE 1 \in S
    BY <2>1
  <2>2. CASE 1 \notin S /\ 2 \in S
    BY <2>2
  <2>3. CASE 1 \notin S /\ 2 \notin S /\ 3 \in S
    BY <2>3
  <2>4. CASE 1 \notin S /\ 2 \notin S /\ 3 \notin S /\ 4 \in S
    BY <2>4
  <2>5. CASE S \subseteq 5..7 /\ 5 \in S
    BY <2>5
  <2>6. CASE S \subseteq 6..7 /\ 6 \in S
    BY <2>6
  <2>7. CASE S \subseteq 7..7
    <3>1. PICK x \in S : TRUE
      OBVIOUS
    <3>2. \A y \in S : x <= y
      BY <3>1, <2>7
    <3> QED
      BY <3>2
  <2> QED
    BY <2>1, <2>2, <2>3, <2>4, <2>5, <2>6, <2>7
<1> QED
  BY <1>1 DEF Min

(* decide raises no objection exactly when all its conditions for a block hold. *)
LEMMA NoObjection ==
    ASSUME NEW d \in Detection, NEW c \in Config, NEW e \in BOOLEAN
    PROVE  {i \in 1..7 : Objections(d, c, e)[i].holds} = {} <=>
              /\ ~d.whitelisted /\ ~e /\ MeetsThresholds(d, c)
              /\ c.enabled /\ c.mode # "DRY_RUN" /\ c.confirmed
              /\ d.trend # "VOLATILE"
<1> DEFINE O == Objections(d, c, e)
<1>1. /\ O[1].holds = d.whitelisted /\ O[2].holds = e
      /\ O[3].holds = ~MeetsThresholds(d, c) /\ O[4].holds = ~c.enabled
      /\ O[5].holds = (c.mode = "DRY_RUN") /\ O[6].holds = ~c.confirmed
      /\ O[7].holds = (d.trend = "VOLATILE")
  BY DEF Objections
<1>2. 1..7 = {1, 2, 3, 4, 5, 6, 7}
  OBVIOUS
<1> HIDE DEF O
<1> QED
  BY <1>1, <1>2, Zenon DEF O

\* Every reason the policy can give for not blocking is one of the allowed reasons.
LEMMA ObjectionReasons ==
    ASSUME NEW d, NEW c, NEW e, NEW i \in 1..7
    PROVE  Objections(d, c, e)[i].reason \in ReasonCodes
<1> DEFINE O == Objections(d, c, e)
<1>1. i \in {1, 2, 3, 4, 5, 6, 7}
  OBVIOUS
<1>2. /\ O[1].reason = "WHITELIST_OVERRIDE"
      /\ O[2].reason = "EMERGENCY_OFF"
      /\ O[3].reason = "POLICY_THRESHOLDS_NOT_MET"
      /\ O[4].reason = "SCREENING_DISABLED"
      /\ O[5].reason = "DRY_RUN"
      /\ O[6].reason = "ACTIVE_NOT_CONFIRMED"
      /\ O[7].reason = "VOLATILE_INTELLIGENCE_REVIEW"
  BY DEF Objections
<1> HIDE DEF O
<1> QED
  BY <1>1, <1>2 DEF O, ReasonCodes

\* The types of the fields of a response.
LEMMA ResponseFields ==
    ASSUME NEW recommended \in Actions, NEW applied \in Actions, NEW reason \in ReasonCodes,
           NEW risk \in Scores, NEW conf \in Scores, NEW mode \in Modes,
           NEW policy \in PolicyNames, NEW off \in BOOLEAN, NEW error \in BOOLEAN
    PROVE  [recommended |-> recommended, applied |-> applied, reason |-> reason,
            risk |-> risk, confidence |-> conf, mode |-> mode, policy |-> policy,
            emergencyOff |-> off, policyError |-> error] \in Response
BY DEF Response

(* decide blocks exactly when the block is warranted, and its decision is well typed. *)
LEMMA WeighBlocks ==
    ASSUME NEW d \in Detection, NEW c \in Config, NEW e \in BOOLEAN
    PROVE  /\ Weigh(d, c, e) \in Response
           /\ ~Weigh(d, c, e).policyError
           /\ Weigh(d, c, e).applied = "BLOCK" =>
                 Weigh(d, c, e).recommended = "BLOCK" /\ Weigh(d, c, e).mode = "ACTIVE"
           /\ Weigh(d, c, e).applied = "BLOCK" <=>
                 /\ ~d.whitelisted /\ ~e /\ MeetsThresholds(d, c)
                 /\ c.enabled /\ c.mode # "DRY_RUN" /\ c.confirmed
                 /\ d.trend # "VOLATILE"
<1> DEFINE all == Objections(d, c, e)
           raised == {i \in 1..7 : all[i].holds}
           w == Weigh(d, c, e)
<1>1. /\ w.applied = IF raised = {} THEN "BLOCK" ELSE "ALLOW"
      /\ w.recommended = IF MeetsThresholds(d, c) THEN "BLOCK" ELSE "ALLOW"
      /\ w.mode = c.mode
      /\ w.policyError = FALSE
  BY DEF Weigh
<1>2. raised # {} => all[Min(raised)].reason \in ReasonCodes
  BY SmallestIndex, ObjectionReasons
<1>3. w \in Response
  <2>1. d.risk \in Scores /\ d.confidence \in Scores
    BY DEF Detection
  <2>2. w.reason \in ReasonCodes
    BY <1>2 DEF Weigh, ReasonCodes
  <2>3. w.recommended \in Actions /\ w.applied \in Actions
    BY <1>1 DEF Actions
  <2>4. w = [recommended |-> w.recommended, applied |-> w.applied, reason |-> w.reason,
             risk |-> d.risk, confidence |-> d.confidence, mode |-> c.mode,
             policy |-> c.policy, emergencyOff |-> e, policyError |-> FALSE]
    BY DEF Weigh
  <2> HIDE DEF w
  <2>5. [recommended |-> w.recommended, applied |-> w.applied, reason |-> w.reason,
         risk |-> d.risk, confidence |-> d.confidence, mode |-> c.mode,
         policy |-> c.policy, emergencyOff |-> e, policyError |-> FALSE] \in Response
    BY <2>1, <2>2, <2>3, ConfigFields, ResponseFields
  <2> QED
    BY <2>4, <2>5
<1>4. raised = {} <=> /\ ~d.whitelisted /\ ~e /\ MeetsThresholds(d, c)
                      /\ c.enabled /\ c.mode # "DRY_RUN" /\ c.confirmed
                      /\ d.trend # "VOLATILE"
  BY NoObjection
<1> HIDE DEF raised, all, w
<1>5. w.applied = "BLOCK" <=> raised = {}
  BY <1>1
<1>6. c.mode # "DRY_RUN" => c.mode = "ACTIVE"
  BY ConfigFields DEF Modes
<1> QED
  BY <1>1, <1>3, <1>4, <1>5, <1>6 DEF w

(* A decision made after an error allows. *)
LEMMA ErrorsAllow ==
    ASSUME NEW d \in Detection, NEW c \in Config, NEW reason \in ReasonCodes
    PROVE  /\ SafeError(d, c, reason) \in Response
           /\ SafeError(d, c, reason).recommended = "ALLOW"
           /\ SafeError(d, c, reason).applied = "ALLOW"
<1>1. d.risk \in Scores /\ d.confidence \in Scores
  BY DEF Detection
<1>2. "ALLOW" \in Actions
  BY DEF Actions
<1> QED
  BY <1>1, <1>2, ConfigFields, ResponseFields DEF SafeError

(* What can be relied on of a decision: a BLOCK in it is consistent. *)
Consistent(r) ==
    r.applied = "BLOCK" => r.recommended = "BLOCK" /\ r.mode = "ACTIVE" /\ ~r.policyError

(* `decide` returns a consistent response, and after an error it allows. *)
LEMMA DecideReturns ==
    ASSUME NEW d \in Detection, NEW c \in Config, NEW e \in BOOLEAN
    PROVE  /\ Decide(d, c, e) \in Response
           /\ Consistent(Decide(d, c, e))
           /\ d.reputationError \/ d.intelligenceError =>
                 Decide(d, c, e).recommended = "ALLOW" /\ Decide(d, c, e).applied = "ALLOW"
<1>1. {"REPUTATION_UNAVAILABLE", "INTELLIGENCE_UNAVAILABLE"} \subseteq ReasonCodes
  BY DEF ReasonCodes
<1>2. d.reputationError \in BOOLEAN /\ d.intelligenceError \in BOOLEAN
  BY DEF Detection
<1>3. CASE d.reputationError
  BY <1>1, <1>3, ErrorsAllow DEF Decide, Consistent
<1>4. CASE ~d.reputationError /\ d.intelligenceError
  BY <1>1, <1>4, ErrorsAllow DEF Decide, Consistent
<1>5. CASE ~d.reputationError /\ ~d.intelligenceError
  <2>1. Decide(d, c, e) = Weigh(d, c, e)
    BY <1>5 DEF Decide
  <2> QED
    BY <1>5, <2>1, WeighBlocks DEF Consistent
<1> QED
  BY <1>2, <1>3, <1>4, <1>5

(* Revalidation keeps the type, and leaves only blocks still in force. *)
LEMMA FinalizeFacts ==
    ASSUME NEW r \in Response, NEW c \in Config, NEW e \in BOOLEAN, Consistent(r)
    PROVE  /\ Finalize(r, c, e) \in Response
           /\ Consistent(Finalize(r, c, e))
           /\ Finalize(r, c, e).applied = "BLOCK" => ~Finalize(r, c, e).emergencyOff
           /\ Finalize(r, c, e).applied = "BLOCK" <=>
                 r.applied = "BLOCK" /\ c.enabled /\ c.mode = "ACTIVE" /\ ~e
<1>1. StillActive(r, c, e) <=>
         r.applied = "BLOCK" /\ c.enabled /\ c.mode = "ACTIVE" /\ ~e
  BY ConfigFields DEF StillActive, Consistent
<1>2. "ALLOW" \in Actions /\ "SAFETY_FALLBACK" \in ReasonCodes
  BY DEF Actions, ReasonCodes
<1>3. CASE r.applied = "BLOCK" /\ ~StillActive(r, c, e)
  <2>1. Finalize(r, c, e) = [r EXCEPT !.applied = "ALLOW", !.reason = "SAFETY_FALLBACK",
                                      !.policyError = TRUE, !.emergencyOff = e]
    BY <1>3 DEF Finalize
  <2>2. Finalize(r, c, e) \in Response /\ Finalize(r, c, e).applied = "ALLOW"
    BY <1>2, <2>1 DEF Response
  <2> QED
    BY <1>1, <1>3, <2>2 DEF Consistent
<1>4. CASE ~(r.applied = "BLOCK" /\ ~StillActive(r, c, e))
  <2>1. Finalize(r, c, e) = [r EXCEPT !.emergencyOff = e]
    BY <1>4 DEF Finalize
  <2> QED
    BY <1>1, <1>4, <2>1 DEF Consistent, Response
<1> QED
  BY <1>3, <1>4

(* The revalidation of any response: it never makes a BLOCK of an ALLOW,      *)
(* leaves the reason of an ALLOW alone, and passes a BLOCK only if nothing it *)
(* is given forbids one.                                                      *)
LEMMA FinalizeType ==
    ASSUME NEW r \in Response, NEW c \in Config, NEW e \in BOOLEAN
    PROVE  /\ Finalize(r, c, e) \in Response
           /\ Finalize(r, c, e).applied = "BLOCK" => r.applied = "BLOCK"
           /\ r.applied = "ALLOW" =>
                 Finalize(r, c, e).applied = "ALLOW" /\ Finalize(r, c, e).reason = r.reason
           /\ Finalize(r, c, e).applied = "BLOCK" => c.enabled /\ c.mode = "ACTIVE" /\ ~e
<1>1. "ALLOW" \in Actions /\ "SAFETY_FALLBACK" \in ReasonCodes
  BY DEF Actions, ReasonCodes
<1>2. CASE r.applied = "BLOCK" /\ ~StillActive(r, c, e)
  <2>1. Finalize(r, c, e) = [r EXCEPT !.applied = "ALLOW", !.reason = "SAFETY_FALLBACK",
                                      !.policyError = TRUE, !.emergencyOff = e]
    BY <1>2 DEF Finalize
  <2> QED
    BY <1>1, <1>2, <2>1 DEF Response
<1>3. CASE ~(r.applied = "BLOCK" /\ ~StillActive(r, c, e))
  <2>1. Finalize(r, c, e) = [r EXCEPT !.emergencyOff = e]
    BY <1>3 DEF Finalize
  <2> QED
    BY <1>1, <1>3, <2>1 DEF Response, StillActive
<1> QED
  BY <1>2, <1>3

(* A fallback is a response that allows, also with the flags its callers set. *)
LEMMA FallbackType ==
    ASSUME NEW reason \in ReasonCodes, NEW policy \in PolicyNames
    PROVE  /\ Fallback(reason) \in Response
           /\ Fallback(reason).applied = "ALLOW" /\ Fallback(reason).reason = reason
           /\ [Fallback(reason) EXCEPT !.policyError = TRUE] \in Response
           /\ [Fallback(reason) EXCEPT !.policyError = TRUE].applied = "ALLOW"
           /\ [Fallback(reason) EXCEPT !.policyError = TRUE, !.policy = policy] \in Response
           /\ [Fallback(reason) EXCEPT !.policyError = TRUE, !.policy = policy].applied = "ALLOW"
<1>1. /\ "ALLOW" \in Actions /\ 0 \in Scores /\ "DRY_RUN" \in Modes
      /\ "BALANCED" \in PolicyNames
  BY DEF Actions, Scores, Modes, PolicyNames
<1> QED
  BY <1>1 DEF Fallback, Response

(* The configuration the mode is revalidated under is valid: the second read  *)
(* of screening_enabled does not happen.                                      *)
LEMMA EnabledConfig ==
    ASSUME NEW c \in Config
    PROVE  [c EXCEPT !.enabled = TRUE] \in Config
BY DEF Config
================================================================================
