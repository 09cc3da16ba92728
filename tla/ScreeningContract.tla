--------------------------- MODULE ScreeningContract ---------------------------
(* One screening request seen as data: the policy decides it under one        *)
(* configuration and emergency state, the daemon revalidates the response     *)
(* under possibly another, the database stores it and the Android bridge acts *)
(* on it.  The threads that do this are in Screening; this module looks at    *)
(* every combination of evidence, configuration and emergency state.          *)
EXTENDS PolicyDecision

CONSTANTS
    Detections,  \* the evidence an analysis may find
    Configs,     \* the configurations that may be in force
    NoResponse   \* no decision, or no response, yet

ASSUME ContractAssumption ==
    /\ Detections \subseteq Detection
    /\ Configs \subseteq Config

VARIABLES
    detection,  \* what the analysis found
    config,     \* the configuration in force
    emergency,  \* the emergency marker exists
    decision,   \* the PolicyDecision
    response    \* the response of _finalize_screening

vars == <<detection, config, emergency, decision, response>>

TypeOK ==
    /\ detection \in Detections
    /\ config \in Configs
    /\ emergency \in BOOLEAN
    /\ decision \in Response \union {NoResponse}
    /\ response \in Response \union {NoResponse}
    /\ response # NoResponse => decision # NoResponse

Init ==
    /\ detection \in Detections
    /\ config \in Configs
    /\ emergency \in BOOLEAN
    /\ decision = NoResponse
    /\ response = NoResponse

Evaluate ==
    /\ decision = NoResponse
    /\ decision' = Decide(detection, config, emergency)
    /\ UNCHANGED <<detection, config, emergency, response>>

\* Between the decision and the response a reload or an emergency switch comes in.
Reconfigure ==
    /\ decision # NoResponse /\ response = NoResponse
    /\ config' \in Configs /\ emergency' \in BOOLEAN
    /\ UNCHANGED <<detection, decision, response>>

Respond ==
    /\ decision # NoResponse /\ response = NoResponse
    /\ response' = Finalize(decision, config, emergency)
    /\ UNCHANGED <<detection, config, emergency, decision>>

Next == Evaluate \/ Reconfigure \/ Respond

Spec == Init /\ [][Next]_vars

------------------------------------------------------------------------------
(* Properties.                                                                *)

\* What it takes to block, stated without the order of decide's questions.
Warranted(d, c, e) ==
    /\ c.enabled /\ c.mode = "ACTIVE" /\ c.confirmed /\ ~e
    /\ ~d.whitelisted /\ ~d.reputationError /\ ~d.intelligenceError
    /\ d.trend # "VOLATILE"
    /\ d.risk >= c.thresholds[c.policy].block
    /\ d.confidence >= c.thresholds[c.policy].confidence

\* decide applies a BLOCK exactly when every condition for one holds, and the
\* response applies it exactly when the conditions of the configuration and the
\* emergency state still hold then (PolicyEngine.decide, _finalize_screening).
OnlyWarrantedBlocks ==
    [][/\ Evaluate =>
            (decision'.applied = "BLOCK" <=> Warranted(detection, config, emergency))
       /\ Respond =>
            (response'.applied = "BLOCK" <=>
                 /\ decision.applied = "BLOCK"
                 /\ config.enabled /\ config.mode = "ACTIVE" /\ ~emergency)]_vars

\* "fails open": a decision made without reputation or intelligence recommends
\* and applies ALLOW, whatever the scores (PolicyEngine.decide).
ErrorsFailOpen ==
    decision # NoResponse /\ (detection.reputationError \/ detection.intelligenceError) =>
        decision.recommended = "ALLOW" /\ decision.applied = "ALLOW"

\* Every response can be stored as a screening row: the checks of
\* add_screening_event never reject what _finalize_screening built.
ResponsesPersist == response # NoResponse => Persistable(response)

\* The daemon and the bridge agree on what a response means: the bridge accepts
\* it, and rejects the call exactly when the daemon applied a BLOCK
\* (_finalize_screening against ScreeningResponse.isValid and shouldApplyBlock).
BridgeAgrees ==
    response # NoResponse =>
        /\ BridgeAccepts(response)
        /\ BridgeRejectsCall(response) <=> response.applied = "BLOCK"

\* Daemon, database and bridge agree on every response.
PartiesAgree == ResponsesPersist /\ BridgeAgrees

\* More risk or more confidence never turns a BLOCK into an ALLOW, and with the
\* default thresholds a stricter policy blocks whatever a more relaxed one does.
ScoresAddUp ==
    decision = NoResponse /\ Decide(detection, config, emergency).applied = "BLOCK" =>
        /\ \A d \in Detections :
              /\ d.risk >= detection.risk /\ d.confidence >= detection.confidence
              /\ \A f \in {"whitelisted", "reputationError", "intelligenceError", "trend"} :
                    d[f] = detection[f]
              => Decide(d, config, emergency).applied = "BLOCK"
        /\ config.thresholds = DefaultThresholds =>
              \A stricter \in [RELAXED  |-> PolicyNames,
                               BALANCED |-> {"BALANCED", "STRICT"},
                               STRICT   |-> {"STRICT"}][config.policy] :
                 Decide(detection, [config EXCEPT !.policy = stricter], emergency).applied
                     = "BLOCK"
==============================================================================
