------------------------------- MODULE Screening -------------------------------
(* Call screening end to end: the Android bridge, the daemon's IPC workers    *)
(* and analysis threads, the replay cache, the screening and observation      *)
(* tables, configuration reloads, the emergency marker, rejection feedback    *)
(* and daemon restarts.                                                       *)
(* callshield/daemon/service.py, callshield/events/processor.py,              *)
(* callshield/database.py, callshield/adaptive/storage.py, android bridge.    *)
(*                                                                            *)
(* A delivery is one arrival of a screening request at the daemon, handled by *)
(* a worker thread of its own.  Several deliveries may carry the same request *)
(* id: the client sent it again.  One id is one incoming call.                *)
EXTENDS PolicyDecision, Naturals, Sequences, FiniteSets

CONSTANTS
    Calls,       \* the incoming calls, one request id each
    Deliveries,  \* arrivals of requests at the daemon
    CallOf,      \* the call a delivery is about
    Detections,  \* the evidence an analysis may find
    Configs,     \* the configurations that may be saved
    Reloaders,   \* threads that may reload the configuration
    MaxChanges,  \* how often a configuration is saved or the emergency switch used
    MaxRestarts, \* how often the daemon dies and is started again
    NoResponse   \* no decision, or no response, yet

ASSUME ScreeningAssumption ==
    /\ IsFiniteSet(Deliveries)
    /\ CallOf \in [Deliveries -> Calls]
    /\ Detections \subseteq Detection
    /\ Configs \subseteq Config
    /\ MaxChanges \in Nat /\ MaxRestarts \in Nat
    /\ NoResponse \notin Response

VARIABLES
    phase,         \* how far the worker of each delivery has come
    response,      \* the response it is building
    owed,          \* the counters it has still to increment, one after the other
    analysis,      \* its analysis thread, which may outlive the worker
    decision,      \* the policy decision in result_holder
    cache,         \* ReplayCache: the request ids it holds
    rows,          \* screening_events: the deliveries that inserted a row
    confirmedRows, \* ... and those with actually_rejected = 1
    observation,   \* intelligence_observations.applied_action, by request id
    confirmedObs,  \* ... and the request ids with confirmed = 1
    pruned,        \* history: the request ids whose observation was deleted as too old, or
                   \* as one too many
    saved,         \* the configuration file
    cfg,           \* DaemonService.cfg
    processorCfg,  \* EventProcessor.cfg
    reloading,     \* what each reloading thread has still to assign
    emergency,     \* the emergency marker file exists
    health,        \* HealthMonitor counters of the screening path
    call,          \* what Android did with the call
    feedback,      \* the rejection feedback of each delivery
    changes,       \* configuration and emergency changes so far
    restarts       \* daemon restarts so far

workerVars   == <<phase, response, owed>>
analysisVars == <<analysis, decision>>
tableVars    == <<rows, confirmedRows>>
observationVars == <<observation, confirmedObs, pruned>>
configVars   == <<saved, cfg, processorCfg, reloading>>
phoneVars    == <<call, feedback>>
boundVars    == <<changes, restarts>>
vars == <<workerVars, analysisVars, cache, tableVars, observationVars, configVars,
          emergency, health, phoneVars, boundVars>>

\* The worker has the request in hand.
Working == {"received", "fresh", "waiting", "finalizing", "revalidating", "enabled",
            "validated", "recording"}
InHand   == {d \in Deliveries : phase[d] \in Working}
Blocking(d) == response[d] # NoResponse /\ response[d].applied = "BLOCK"
BlockRows   == {d \in rows : response[d].applied = "BLOCK"}

Idle == [pending |-> "none"]
ZeroHealth == [incoming |-> 0, received |-> 0, screened |-> 0, processed |-> 0,
               failed |-> 0, rejected |-> 0]
WorkerCounters == {"incoming", "received", "screened", "processed", "failed"}

TypeOK ==
    /\ phase \in [Deliveries -> {"new", "answered", "rejected", "lost"} \union Working]
    /\ response \in [Deliveries -> Response \union {NoResponse}]
    /\ owed \in [Deliveries -> Seq(WorkerCounters)]
    /\ analysis \in [Deliveries ->
           {"none", "running", "observed", "unobserved", "decided", "done", "failed"}]
    /\ decision \in [Deliveries -> Response \union {NoResponse}]
    /\ cache \subseteq Calls /\ rows \subseteq Deliveries /\ confirmedRows \subseteq rows
    /\ observation \in [Calls -> {"none", "UNKNOWN", "ALLOW", "BLOCK"}]
    /\ confirmedObs \subseteq Calls /\ pruned \subseteq Calls
    /\ saved \in Configs /\ cfg \in Configs /\ processorCfg \in Configs
    /\ reloading \in [Reloaders -> {Idle} \union
           [pending : {"service", "processor"}, config : Configs]]
    /\ emergency \in BOOLEAN
    /\ health \in [DOMAIN ZeroHealth -> Nat]
    /\ call \in [Calls -> {"ringing", "rejected", "allowed"}]
    /\ feedback \in [Deliveries -> {"none", "sent", "confirmed", "noted", "done"}]
    /\ changes \in 0..MaxChanges /\ restarts \in 0..MaxRestarts

Init ==
    /\ phase = [d \in Deliveries |-> "new"]
    /\ response = [d \in Deliveries |-> NoResponse]
    /\ owed = [d \in Deliveries |-> <<>>]
    /\ analysis = [d \in Deliveries |-> "none"]
    /\ decision = [d \in Deliveries |-> NoResponse]
    /\ cache = {} /\ rows = {} /\ confirmedRows = {}
    /\ confirmedObs = {} /\ pruned = {}
    /\ observation = [c \in Calls |-> "none"]
    /\ saved \in Configs /\ cfg = saved /\ processorCfg = saved
    /\ reloading = [w \in Reloaders |-> Idle]
    /\ emergency \in BOOLEAN
    /\ health = ZeroHealth
    /\ call = [c \in Calls |-> "ringing"]
    /\ feedback = [d \in Deliveries |-> "none"]
    /\ changes = 0 /\ restarts = 0

------------------------------------------------------------------------------
(* A worker: _validate_and_dispatch and _handle_screening_request.  It goes   *)
(* on when it has made the increments it owes, each under the lock of the     *)
(* counters: between them others see the counters and take their steps.       *)

Worker(d, from, to) ==
    /\ phase[d] = from /\ owed[d] = <<>>
    /\ phase' = [phase EXCEPT ![d] = to]
    /\ UNCHANGED <<decision, observationVars, configVars, emergency, health, phoneVars,
                   boundVars>>

Draft(d, r) == response' = [response EXCEPT ![d] = r]

Owe(d, counters) == owed' = [owed EXCEPT ![d] = counters]

Count(field) == health' = [health EXCEPT ![field] = @ + 1]

\* inc_incoming_call, inc_received, record_screening, inc_processed or inc_failed.
CountNext(d) ==
    /\ owed[d] # <<>>
    /\ Count(Head(owed[d]))
    /\ Owe(d, Tail(owed[d]))
    /\ UNCHANGED <<phase, response, analysisVars, cache, tableVars, observationVars,
                   configVars, emergency, phoneVars, boundVars>>

\* _reject_ipc_policy.
RejectPolicy(d) ==
    /\ Draft(d, [Fallback("POLICY_ERROR") EXCEPT !.policyError = TRUE])
    /\ Owe(d, <<"incoming", "received", "screened", "failed">>)

\* The replay cache knows the request id.
RejectReplay(d) ==
    /\ CallOf[d] \in cache
    /\ Worker(d, "new", "answered")
    /\ RejectPolicy(d)
    /\ UNCHANGED <<analysis, cache, tableVars>>

Accept(d) ==
    /\ CallOf[d] \notin cache
    /\ Worker(d, "new", "received")
    /\ cache' = cache \union {CallOf[d]}
    /\ Owe(d, <<"incoming", "received">>)
    /\ UNCHANGED <<response, analysis, tableVars>>

\* Unknown fields, or a number that is not one.
FailValidation(d) ==
    /\ Worker(d, "received", "finalizing")
    /\ Draft(d, Fallback("INVALID_REQUEST"))
    /\ UNCHANGED <<analysis, cache, tableVars, owed>>

Persisted(c) == \E d \in rows : CallOf[d] = c

\* Mutant: the screening table is not asked.
PassUnchecked(d) ==
    /\ Worker(d, "received", "fresh")
    /\ UNCHANGED <<response, analysis, cache, tableVars, owed>>

PassPersisted(d) ==
    /\ ~Persisted(CallOf[d])
    /\ Worker(d, "received", "fresh")
    /\ UNCHANGED <<response, analysis, cache, tableVars, owed>>

\* A row has the request id, or the database does not answer.
RejectPersisted(d) ==
    /\ Worker(d, "received", "rejected")
    /\ RejectPolicy(d)
    /\ UNCHANGED <<analysis, cache, tableVars>>

SkipDisabled(d) ==
    /\ ~cfg.enabled
    /\ Worker(d, "fresh", "finalizing")
    /\ Draft(d, Fallback("SCREENING_DISABLED"))
    /\ UNCHANGED <<analysis, cache, tableVars, owed>>

StartAnalysis(d) ==
    /\ cfg.enabled
    /\ Worker(d, "fresh", "waiting")
    /\ analysis' = [analysis EXCEPT ![d] = "running"]
    /\ UNCHANGED <<response, cache, tableVars, owed>>

CollectResult(d) ==
    /\ analysis[d] \in {"done", "failed"}
    /\ Worker(d, "waiting", "finalizing")
    /\ Draft(d, IF analysis[d] = "done" THEN decision[d] ELSE Fallback("ANALYSIS_ERROR"))
    /\ UNCHANGED <<analysis, cache, tableVars, owed>>

\* Mutant: a worker waits as long as the analysis takes.
NeverTimeOut(d) ==
    /\ analysis[d] = "failed"
    /\ Worker(d, "waiting", "finalizing")
    /\ Draft(d, Fallback("SCREENING_TIMEOUT"))
    /\ UNCHANGED <<analysis, cache, tableVars, owed>>

\* The wait for the analysis times out; the thread goes on.
TimeOut(d) ==
    /\ analysis[d] \notin {"done", "failed"}
    /\ Worker(d, "waiting", "finalizing")
    /\ Draft(d, Fallback("SCREENING_TIMEOUT"))
    /\ UNCHANGED <<analysis, cache, tableVars, owed>>

------------------------------------------------------------------------------
(* _finalize_screening: the marker is read, then the configuration, once for  *)
(* screening_enabled and again for the mode; a reload may come in between.    *)

ReadEmergency(d) ==
    /\ Worker(d, "finalizing", "revalidating")
    /\ Draft(d, [response[d] EXCEPT !.emergencyOff = emergency])
    /\ UNCHANGED <<analysis, cache, tableVars, owed>>

FindDisabled(d) ==
    /\ ~cfg.enabled
    /\ Worker(d, "revalidating", "validated")
    /\ Draft(d, Finalize(response[d], cfg, response[d].emergencyOff))
    /\ UNCHANGED <<analysis, cache, tableVars, owed>>

FindEnabled(d) ==
    /\ cfg.enabled
    /\ Worker(d, "revalidating", "enabled")
    /\ UNCHANGED <<response, analysis, cache, tableVars, owed>>

\* Mutant: the response is what the policy decided.
RevalidateNothing(d) ==
    /\ Worker(d, "enabled", "validated")
    /\ UNCHANGED <<response, analysis, cache, tableVars, owed>>

Revalidate(d) ==
    /\ Worker(d, "enabled", "validated")
    /\ Draft(d, Finalize(response[d], [cfg EXCEPT !.enabled = TRUE], response[d].emergencyOff))
    /\ UNCHANGED <<analysis, cache, tableVars, owed>>

Persist(d) ==
    /\ Worker(d, "validated", "recording")
    /\ Persistable(response[d])
    /\ rows' = rows \union {d}
    /\ UNCHANGED <<response, analysis, cache, confirmedRows, owed>>

\* The database is contended for longer than 50 ms: a bridge error.
FailPersist(d) ==
    /\ Worker(d, "validated", "recording")
    /\ UNCHANGED <<response, analysis, cache, tableVars, owed>>

FailureReasons == {"INVALID_REQUEST", "SCREENING_TIMEOUT", "ANALYSIS_ERROR"}

\* Mutant: a failed request is not counted as failed.
RecordScreenedOnly(d) ==
    /\ Worker(d, "recording", "answered")
    /\ Owe(d, IF response[d].reason \in FailureReasons THEN <<"screened">>
              ELSE <<"screened", "processed">>)
    /\ UNCHANGED <<response, analysis, cache, tableVars>>

Record(d) ==
    /\ Worker(d, "recording", "answered")
    /\ Owe(d, <<"screened", IF response[d].reason \in FailureReasons THEN "failed"
                            ELSE "processed">>)
    /\ UNCHANGED <<response, analysis, cache, tableVars>>

\* An entry of the cache expires or is evicted.  Its lifetime of at least 30 s and
\* its 128 places or more outlast the workers that have the request in hand.
Forget(c) ==
    /\ c \in cache /\ \A d \in InHand : CallOf[d] # c
    /\ cache' = cache \ {c}
    /\ UNCHANGED <<workerVars, analysisVars, tableVars, observationVars, configVars,
                   emergency, health, phoneVars, boundVars>>

------------------------------------------------------------------------------
(* An analysis thread: EventProcessor.process of an INCOMING_CALL event.      *)

Analysis(d, from) ==
    /\ analysis[d] \in from
    /\ UNCHANGED <<workerVars, cache, tableVars, configVars, emergency, health, phoneVars,
                   boundVars>>

Becomes(d, to) == analysis' = [analysis EXCEPT ![d] = to]

\* _cleanup_locked: deletes what is older than the history to keep, of any number, and
\* what a number has beyond its limit.  The clock and the other observations there are
\* decide what that hits; BehaviorStore has them.
CleanUp(observed) ==
    \E gone \in SUBSET Calls :
        /\ observation' = [c \in Calls |-> IF c \in gone THEN "none" ELSE observed[c]]
        /\ confirmedObs' = confirmedObs \ gone
        /\ pruned' = pruned \union {c \in gone : observed[c] # "none"}

\* BehaviorStorage.add_observation: INSERT OR IGNORE and the clean-up, in one transaction.
AddObservation(c) ==
    CleanUp([observation EXCEPT ![c] = IF @ = "none" THEN "UNKNOWN" ELSE @])

Observe(d) ==
    /\ Analysis(d, {"running"}) /\ Becomes(d, "observed")
    /\ AddObservation(CallOf[d])
    /\ UNCHANGED decision

\* The behavior storage fails, before the insert or after it.
FailObserve(d) ==
    /\ Analysis(d, {"running"}) /\ Becomes(d, "unobserved")
    /\ AddObservation(CallOf[d]) \/ UNCHANGED observationVars
    /\ UNCHANGED decision

Evaluate(d) ==
    /\ Analysis(d, {"observed", "unobserved"}) /\ Becomes(d, "decided")
    /\ \E detection \in Detections :
          /\ detection.intelligenceError <=> analysis[d] = "unobserved"
          /\ detection.reputationError => analysis[d] = "unobserved"
          /\ decision' = [decision EXCEPT ![d] = Decide(detection, processorCfg, emergency)]
    /\ UNCHANGED observationVars

\* Mutant: the outcome of the decision is not written back.
KeepUnknownOutcome(d) ==
    /\ Analysis(d, {"decided"})
    /\ Becomes(d, "done") \/ Becomes(d, "failed")
    /\ UNCHANGED <<decision, observationVars>>

\* update_outcome, then save_snapshot, which may still raise.
UpdateOutcome(d) ==
    /\ Analysis(d, {"decided"})
    /\ Becomes(d, "done") \/ Becomes(d, "failed")
    /\ observation' = [observation EXCEPT ![CallOf[d]] =
                          IF @ = "none" THEN @ ELSE decision[d].applied]
    /\ UNCHANGED <<decision, confirmedObs, pruned>>

\* The number does not normalize: _set_screening_fallback.
RefuseNumber(d) ==
    /\ Analysis(d, {"running"}) /\ Becomes(d, "done")
    /\ decision' = [decision EXCEPT ![d] =
                       [Fallback("INVALID_NUMBER") EXCEPT !.policyError = TRUE,
                                                          !.policy = processorCfg.policy]]
    /\ UNCHANGED observationVars

FailAnalysis(d) ==
    /\ Analysis(d, {"running", "observed", "unobserved", "decided"}) /\ Becomes(d, "failed")
    /\ UNCHANGED <<decision, observationVars>>

\* Observations are added for other events and by other processes, and numbers analysed:
\* each cleans up.
CleanUpElsewhere ==
    /\ CleanUp(observation)
    /\ UNCHANGED <<workerVars, analysisVars, cache, tableVars, configVars, emergency, health,
                   phoneVars, boundVars>>

------------------------------------------------------------------------------
(* The Android bridge, and screening_feedback.                                *)

Phone ==
    UNCHANGED <<workerVars, analysisVars, cache, configVars, emergency, boundVars>>

\* A response reaches the bridge while the call still rings.
Hear(d) ==
    /\ Phone
    /\ phase[d] \in {"answered", "rejected"} /\ owed[d] = <<>>
    /\ call[CallOf[d]] = "ringing"
    /\ IF BridgeRejectsCall(response[d])
       THEN /\ call' = [call EXCEPT ![CallOf[d]] = "rejected"]
            /\ feedback' = [feedback EXCEPT ![d] = "sent"]
       ELSE /\ call' = [call EXCEPT ![CallOf[d]] = "allowed"]
            /\ UNCHANGED feedback
    /\ UNCHANGED <<tableVars, observationVars, health>>

\* The bridge has waited 1500 ms, or found no daemon: fail open.
GiveUp(c) ==
    /\ Phone
    /\ call[c] = "ringing"
    /\ call' = [call EXCEPT ![c] = "allowed"]
    /\ UNCHANGED <<feedback, tableVars, observationVars, health>>

Feedback(d, from, to) ==
    /\ Phone
    /\ feedback[d] = from
    /\ feedback' = [feedback EXCEPT ![d] = to]
    /\ UNCHANGED call

\* The feedback is lost on its way, or a table is locked and the handler raises.
LoseFeedback(d) ==
    /\ Feedback(d, "sent", "done") \/ Feedback(d, "confirmed", "done")
    /\ UNCHANGED <<tableVars, observationVars, health>>

\* Mutant: the UPDATE forgets that only an applied BLOCK can have been rejected.
UnconfirmedAny(c) == {d \in rows \ confirmedRows : CallOf[d] = c}

Unconfirmed(c) == {d \in BlockRows \ confirmedRows : CallOf[d] = c}

\* confirm_screening_rejection: the UPDATE, confirmed when it changed one row.
ConfirmRow(d) ==
    LET matching == Unconfirmed(CallOf[d]) IN
    /\ Feedback(d, "sent", IF Cardinality(matching) = 1 THEN "confirmed" ELSE "done")
    /\ confirmedRows' = confirmedRows \union matching
    /\ UNCHANGED <<rows, observationVars, health>>

\* BehaviorStorage.confirm.
ConfirmObservation(d) ==
    /\ Feedback(d, "confirmed", "noted")
    /\ confirmedObs' = IF observation[CallOf[d]] = "BLOCK"
                       THEN confirmedObs \union {CallOf[d]} ELSE confirmedObs
    /\ UNCHANGED <<tableVars, observation, pruned, health>>

CountRejection(d) ==
    /\ Feedback(d, "noted", "done")
    /\ Count("rejected")
    /\ UNCHANGED <<tableVars, observationVars>>

------------------------------------------------------------------------------
(* The user, reloads and restarts.                                            *)

Change ==
    /\ changes < MaxChanges /\ changes' = changes + 1
    /\ UNCHANGED <<workerVars, analysisVars, cache, tableVars, observationVars, cfg,
                   processorCfg, reloading, health, phoneVars, restarts>>

SaveConfig(c) ==
    /\ Change /\ saved' = c
    /\ UNCHANGED emergency

SwitchEmergency ==
    /\ Change /\ emergency' = ~emergency
    /\ UNCHANGED saved

Reload(w) ==
    UNCHANGED <<workerVars, analysisVars, cache, tableVars, observationVars, saved,
                emergency, health, phoneVars, boundVars>>

\* _reload_config: load_config, then one assignment after the other.
LoadConfig(w) ==
    /\ Reload(w) /\ reloading[w] = Idle
    /\ reloading' = [reloading EXCEPT ![w] = [pending |-> "service", config |-> saved]]
    /\ UNCHANGED <<cfg, processorCfg>>

AssignService(w) ==
    /\ Reload(w) /\ reloading[w].pending = "service"
    /\ cfg' = reloading[w].config
    /\ reloading' = [reloading EXCEPT ![w].pending = "processor"]
    /\ UNCHANGED processorCfg

AssignProcessor(w) ==
    /\ Reload(w) /\ reloading[w].pending = "processor"
    /\ processorCfg' = reloading[w].config
    /\ reloading' = [reloading EXCEPT ![w] = Idle]
    /\ UNCHANGED cfg

\* The daemon dies and is started again: what is on disk survives.
Restart ==
    /\ restarts < MaxRestarts /\ restarts' = restarts + 1
    /\ phase' = [d \in Deliveries |-> IF d \in InHand \/ owed[d] # <<>> THEN "lost"
                                      ELSE phase[d]]
    /\ owed' = [d \in Deliveries |-> <<>>]
    /\ analysis' = [d \in Deliveries |-> "none"]
    /\ feedback' = [d \in Deliveries |->
                       IF feedback[d] \in {"confirmed", "noted"} THEN "done" ELSE feedback[d]]
    /\ cache' = {} /\ health' = ZeroHealth
    /\ cfg' = saved /\ processorCfg' = saved
    /\ reloading' = [w \in Reloaders |-> Idle]
    /\ UNCHANGED <<response, decision, observationVars, tableVars, saved, emergency, call,
                   changes>>

------------------------------------------------------------------------------
WorkerStep(d) ==
    \/ FailValidation(d) \/ PassPersisted(d) \/ RejectPersisted(d)
    \/ SkipDisabled(d) \/ StartAnalysis(d) \/ CollectResult(d) \/ TimeOut(d)
    \/ ReadEmergency(d) \/ FindDisabled(d) \/ FindEnabled(d) \/ Revalidate(d)
    \/ Persist(d) \/ FailPersist(d) \/ Record(d)

AnalysisStep(d) ==
    \/ Observe(d) \/ FailObserve(d) \/ Evaluate(d) \/ UpdateOutcome(d)
    \/ RefuseNumber(d) \/ FailAnalysis(d)

PhoneStep(d) ==
    Hear(d) \/ LoseFeedback(d) \/ ConfirmRow(d) \/ ConfirmObservation(d) \/ CountRejection(d)

Next ==
    \/ \E d \in Deliveries :
          \/ RejectReplay(d) \/ Accept(d) \/ WorkerStep(d) \/ CountNext(d)
          \/ AnalysisStep(d) \/ PhoneStep(d)
    \/ \E c \in Calls : Forget(c) \/ GiveUp(c)
    \/ \E w \in Reloaders : LoadConfig(w) \/ AssignService(w) \/ AssignProcessor(w)
    \/ \E c \in Configs : SaveConfig(c)
    \/ SwitchEmergency \/ CleanUpElsewhere \/ Restart

Spec == Init /\ [][Next]_vars

\* Workers run on; nothing is assumed of the analysis threads, of the phone or of
\* the user.
Fairness == \A d \in Deliveries : WF_vars(WorkerStep(d) \/ CountNext(d))
FairSpec == Spec /\ Fairness

------------------------------------------------------------------------------
(* Properties.                                                                *)

\* A request id is screened at most once: although the replay cache forgets ids,
\* the daemon restarts and the table has no uniqueness constraint, it has at most
\* one row that is not of a malformed request, which is stored before the table is
\* asked (check_and_store, _screening_request_seen, _handle_screening_request).
ScreenedOnce ==
    \A d, e \in {x \in rows : response[x].reason # "INVALID_REQUEST"} :
        CallOf[d] = CallOf[e] => d = e

\* Confirmed rejections are true: a row marked actually_rejected is an applied
\* BLOCK whose call Android rejected, and an observation is marked confirmed only
\* together with a row.  The actually_rejected counter never runs ahead of the table,
\* however feedback is lost, repeated or cut off by a restart (screening_feedback,
\* confirm_actual_rejection).
ConfirmationsAreTrue ==
    /\ \A d \in confirmedRows : d \in BlockRows /\ call[CallOf[d]] = "rejected"
    /\ \A c \in confirmedObs : \E d \in confirmedRows : CallOf[d] = c
    /\ health.rejected <= Cardinality(confirmedRows)

\* A call that the screening table says was blocked is a BLOCK in the behavior
\* table too, across reloads, time-outs and restarts.  Two things can undo it: the
\* observation was pruned, or another analysis of the same id decided ALLOW: one whose
\* worker timed out, still running when the cache forgot the id (update_outcome,
\* _cleanup_locked).
BlocksAreObserved ==
    \A d \in BlockRows :
        \/ observation[CallOf[d]] = "BLOCK"
        \/ CallOf[d] \in pruned
        \/ \E e \in Deliveries \ {d} :
              /\ CallOf[e] = CallOf[d]
              /\ decision[e] # NoResponse /\ decision[e].applied = "ALLOW"

\* The workers whose next increment is of a counter, and those that have a request in
\* hand and nothing to count.
Due(field)   == {d \in Deliveries : owed[d] # <<>> /\ Head(owed[d]) = field}
Occupied     == {d \in InHand : owed[d] = <<>>}

\* The counters of requests balance whenever they are read, also between two increments
\* of a worker: what came in and was not received, and what was screened and is neither
\* processed nor failed, is about to be counted, and every request received is screened,
\* about to be, or in a worker's hands.  A request refused because its id is in the table
\* is received twice: _handle_screening_request and then _reject_ipc_policy count it.
ScreeningCountersBalance ==
    /\ health.incoming = health.received + Cardinality(Due("received"))
    /\ health.screened = health.processed + health.failed
                         + Cardinality(Due("processed") \union Due("failed"))
    /\ restarts = 0 =>
          health.received = health.screened + Cardinality(Due("screened"))
                            + Cardinality(Occupied)
                            + Cardinality({d \in Deliveries : phase[d] = "rejected"})

\* "A contended database is treated as a bridge error and the ALLOW response is
\* still returned" (_persist_screening_result): no response without a row blocks.
UnpersistedAllows ==
    \A d \in Deliveries : phase[d] = "answered" /\ Blocking(d) => d \in rows

\* A request that arrives is answered even if its analysis never ends, unless the daemon
\* dies: its worker leaves nothing undone.
RequestsAnswered ==
    \A d \in Deliveries :
        phase[d] # "new" ~> phase[d] \in {"answered", "rejected", "lost"} /\ owed[d] = <<>>
==============================================================================
