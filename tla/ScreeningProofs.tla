----------------------------- MODULE ScreeningProofs -----------------------------
(* Proofs about Screening: for every set of calls and of deliveries, repeated *)
(* or not, all detections, valid configurations, numbers of reloading         *)
(* threads, configuration changes and restarts.                               *)
EXTENDS ScreeningHistory, PolicyLemmas, FiniteSetTheorems, TLAPS

(* What a delivery, a detection and a configuration of this system are. *)
LEMMA Given ==
    /\ CallOf \in [Deliveries -> Calls]
    /\ \A d \in Deliveries : CallOf[d] \in Calls
    /\ \A c \in Configs : c \in Config
    /\ \A x \in Detections : x \in Detection
    /\ NoResponse \notin Response
BY ScreeningAssumption

(* Counting adds one to the counter and leaves the others.                    *)
LEMMA CountAdds ==
    ASSUME TypeOK, NEW f \in DOMAIN ZeroHealth, Count(f)
    PROVE  /\ health' \in [DOMAIN ZeroHealth -> Nat]
           /\ health'[f] = health[f] + 1
           /\ \A g \in DOMAIN ZeroHealth \ {f} : health'[g] = health[g]
BY DEF TypeOK, Count

(* What a worker may owe: the increments of an arrival, of a refusal and of a *)
(* request screened, each as it dwindles.                                     *)
Refusing  == <<"incoming", "received", "screened", "failed">>
Refusing3 == <<"received", "screened", "failed">>
Arriving  == <<"incoming", "received">>
Arrived   == <<"received">>
Failing   == <<"screened", "failed">>
Failed    == <<"failed">>
Finishing == <<"screened", "processed">>
Finished  == <<"processed">>

(* Making an increment leaves the rest of the debt.                           *)
LEMMA Debts ==
    /\ Head(Refusing) = "incoming" /\ Tail(Refusing) = Refusing3 /\ Refusing # <<>>
    /\ Head(Refusing3) = "received" /\ Tail(Refusing3) = Failing /\ Refusing3 # <<>>
    /\ Head(Failing) = "screened" /\ Tail(Failing) = Failed /\ Failing # <<>>
    /\ Head(Failed) = "failed" /\ Tail(Failed) = <<>> /\ Failed # <<>>
    /\ Head(Arriving) = "incoming" /\ Tail(Arriving) = Arrived /\ Arriving # <<>>
    /\ Head(Arrived) = "received" /\ Tail(Arrived) = <<>> /\ Arrived # <<>>
    /\ Head(Finishing) = "screened" /\ Tail(Finishing) = Finished /\ Finishing # <<>>
    /\ Head(Finished) = "processed" /\ Tail(Finished) = <<>> /\ Finished # <<>>
BY DEF Refusing, Refusing3, Arriving, Arrived, Failing, Failed, Finishing, Finished

(* What is owed are counters of the workers.                                  *)
LEMMA DebtsType ==
    /\ <<>> \in Seq(WorkerCounters)
    /\ {Refusing, Arriving, Failing, Finishing} \subseteq Seq(WorkerCounters)
    /\ \A s \in Seq(WorkerCounters) :
          s # <<>> => Head(s) \in WorkerCounters /\ Tail(s) \in Seq(WorkerCounters)
    /\ WorkerCounters \subseteq DOMAIN ZeroHealth \ {"rejected"}
<1>1. \A x \in {"incoming", "received", "screened", "processed", "failed"} :
         x \in WorkerCounters
  BY DEF WorkerCounters
<1>2. {Refusing, Arriving, Failing, Finishing} \subseteq Seq(WorkerCounters)
  BY <1>1 DEF Refusing, Arriving, Failing, Finishing
<1>3. WorkerCounters \subseteq DOMAIN ZeroHealth \ {"rejected"}
  BY DEF WorkerCounters, ZeroHealth
<1> QED
  BY <1>2, <1>3

(* The reasons the workers and the analyses give are reason codes. *)
LEMMA Reasons ==
    {"POLICY_ERROR", "INVALID_REQUEST", "SCREENING_DISABLED", "ANALYSIS_ERROR",
     "SCREENING_TIMEOUT", "INVALID_NUMBER"} \subseteq ReasonCodes
BY DEF ReasonCodes

Phases == {"new", "answered", "rejected", "lost"} \union Working

(* What a worker's step leaves alone keeps its type. *)
LEMMA WorkerType ==
    ASSUME TypeOK, NEW d \in Deliveries, NEW from, NEW to \in Phases, Worker(d, from, to),
           response' \in [Deliveries -> Response \union {NoResponse}],
           analysis' \in [Deliveries ->
               {"none", "running", "observed", "unobserved", "decided", "done", "failed"}],
           owed' \in [Deliveries -> Seq(WorkerCounters)],
           cache' \subseteq Calls, rows' \subseteq Deliveries, confirmedRows' = confirmedRows,
           rows \subseteq rows'
    PROVE  TypeOK'
BY DEF TypeOK, Worker, Phases, observationVars, configVars, phoneVars, boundVars

(* What a worker comes to owe. *)
LEMMA OweType ==
    ASSUME TypeOK, NEW d \in Deliveries, NEW s \in Seq(WorkerCounters), Owe(d, s)
    PROVE  owed' \in [Deliveries -> Seq(WorkerCounters)]
BY DEF TypeOK, Owe

(* A worker's draft is a response. *)
LEMMA DraftType ==
    ASSUME TypeOK, NEW d \in Deliveries, NEW r \in Response, Draft(d, r)
    PROVE  response' \in [Deliveries -> Response \union {NoResponse}]
BY DEF TypeOK, Draft

(* An analysis thread's step keeps the types. *)
LEMMA AnalysisType ==
    ASSUME TypeOK, NEW d \in Deliveries, NEW from, Analysis(d, from),
           NEW to \in {"observed", "unobserved", "decided", "done", "failed"}, Becomes(d, to),
           decision' \in [Deliveries -> Response \union {NoResponse}],
           observation' \in [Calls -> {"none", "UNKNOWN", "ALLOW", "BLOCK"}],
           confirmedObs' \subseteq Calls, pruned' \subseteq Calls
    PROVE  TypeOK'
BY DEF TypeOK, Analysis, Becomes, workerVars, tableVars, configVars, phoneVars, boundVars

(* A clean-up keeps the types; what it deletes is remembered as pruned.       *)
LEMMA CleanUpKeeps ==
    ASSUME TypeOK, NEW observed \in [Calls -> {"none", "UNKNOWN", "ALLOW", "BLOCK"}],
           CleanUp(observed)
    PROVE  /\ observation' \in [Calls -> {"none", "UNKNOWN", "ALLOW", "BLOCK"}]
           /\ confirmedObs' \subseteq confirmedObs
           /\ pruned \subseteq pruned' /\ pruned' \subseteq Calls
           /\ \A c \in Calls : observation'[c] = observed[c] \/ c \in pruned'
<1>1. PICK gone \in SUBSET Calls :
         /\ observation' = [c \in Calls |-> IF c \in gone THEN "none" ELSE observed[c]]
         /\ confirmedObs' = confirmedObs \ gone
         /\ pruned' = pruned \union {c \in gone : observed[c] # "none"}
  BY DEF CleanUp
<1> QED
  BY <1>1 DEF TypeOK

(* Adding an observation leaves the others but for the clean-up.              *)
LEMMA AddingKeeps ==
    ASSUME TypeOK, NEW c \in Calls, AddObservation(c)
    PROVE  /\ observation' \in [Calls -> {"none", "UNKNOWN", "ALLOW", "BLOCK"}]
           /\ confirmedObs' \subseteq confirmedObs /\ confirmedObs' \subseteq Calls
           /\ pruned \subseteq pruned' /\ pruned' \subseteq Calls
           /\ observation'[c] # "none" \/ c \in pruned'
           /\ \A x \in Calls :
                 observation[x] # "none" => observation'[x] = observation[x] \/ x \in pruned'
<1> DEFINE Outcomes == {"none", "UNKNOWN", "ALLOW", "BLOCK"}
           seen == [observation EXCEPT ![c] = IF @ = "none" THEN "UNKNOWN" ELSE @]
<1>1. observation \in [Calls -> Outcomes] /\ confirmedObs \subseteq Calls
  BY DEF TypeOK
<1>2. /\ seen \in [Calls -> Outcomes] /\ CleanUp(seen) /\ seen[c] # "none"
      /\ \A x \in Calls : observation[x] # "none" => seen[x] = observation[x]
  BY <1>1 DEF AddObservation
<1> HIDE DEF seen
<1> QED
  BY <1>1, <1>2, CleanUpKeeps

--------------------------------------------------------------------------------
(* The inductive invariant, in parts.                                         *)

\* The replay cache holds the ids of all requests in hand, so no id is in the
\* hands of two workers.
HandInv ==
    /\ \A d \in InHand : CallOf[d] \in cache
    /\ \A d, e \in InHand : CallOf[d] = CallOf[e] => d = e

\* A worker has a response from the moment it starts to finalize one.
Undrafted == {"new", "received", "fresh", "waiting"}
Drafted   == {"finalizing", "revalidating", "enabled", "validated", "recording", "answered"}

DraftInv ==
    \A d \in Deliveries :
        /\ phase[d] \in Undrafted => response[d] = NoResponse
        /\ phase[d] \in Drafted => response[d] \in Response

\* A request that passed the question whether it is stored is still not stored when
\* its own row is inserted; only malformed ones are stored without the question.
Malformed(r) == r.reason = "INVALID_REQUEST" /\ r.applied = "ALLOW"

UniqueInv ==
    /\ \A d \in rows : phase[d] \in {"recording", "answered", "lost"} /\ response[d] \in Response
    /\ \A d \in Deliveries :
        /\ phase[d] \in {"fresh", "waiting"} => ~Persisted(CallOf[d])
        /\ phase[d] \in {"finalizing", "revalidating", "enabled", "validated"} =>
              Malformed(response[d]) \/ ~Persisted(CallOf[d])

\* A worker owes what its last step counts, and takes no step as long as it does.
OwedInv ==
    \A d \in Deliveries :
        \/ owed[d] = <<>>
        \/ owed[d] \in {Arriving, Arrived} /\ phase[d] = "received"
        \/ /\ owed[d] \in {Refusing, Refusing3, Failing, Failed, Finishing, Finished}
           /\ phase[d] \in {"answered", "rejected"}

\* An analysis decides once, a block only of a call it has observed, and a response
\* blocks only if the decision does; by then the observation says so as well, unless
\* an analysis of the same call overruled it or it was pruned.
DecidedBlock(d) == decision[d] # NoResponse /\ decision[d].applied = "BLOCK"

Overruled(d) ==
    \E e \in Deliveries \ {d} :
        /\ CallOf[e] = CallOf[d]
        /\ decision[e] # NoResponse /\ decision[e].applied = "ALLOW"

Observed(d) == observation[CallOf[d]] # "none" \/ CallOf[d] \in pruned
Settled(d)  == observation[CallOf[d]] = "BLOCK" \/ CallOf[d] \in pruned \/ Overruled(d)

AnalysisInv ==
    \A d \in Deliveries :
        /\ phase[d] \in {"new", "received", "fresh"} =>
              analysis[d] = "none" /\ decision[d] = NoResponse
        /\ analysis[d] \in {"running", "observed", "unobserved"} => decision[d] = NoResponse
        /\ analysis[d] \in {"decided", "done"} => decision[d] \in Response
        /\ analysis[d] = "observed" => Observed(d)

BlockInv ==
    \A d \in Deliveries :
        /\ DecidedBlock(d) => Observed(d)
        /\ Blocking(d) => DecidedBlock(d)
        /\ Blocking(d) \/ (DecidedBlock(d) /\ analysis[d] = "done") => Settled(d)

\* Feedback is only sent about a rejected call, and goes on only after its row was
\* confirmed; every rejection still to be counted has a confirmed row of its own.
Confirming == {d \in Deliveries : feedback[d] \in {"confirmed", "noted"}}

FeedbackInv ==
    /\ \A d \in Deliveries :
        /\ feedback[d] # "none" => call[CallOf[d]] = "rejected"
        /\ d \in Confirming => \E e \in confirmedRows : CallOf[e] = CallOf[d]
    /\ \A d \in confirmedRows : d \in BlockRows /\ call[CallOf[d]] = "rejected"
    /\ \A c \in confirmedObs : \E d \in confirmedRows : CallOf[d] = c
    /\ health.rejected + Cardinality(Confirming) <= Cardinality(confirmedRows)

ScreeningInv ==
    /\ TypeOK /\ HandInv /\ DraftInv /\ UniqueInv /\ ScreenedOnce
    /\ AnalysisInv /\ BlockInv /\ FeedbackInv /\ OwedInv /\ ScreeningCountersBalance

--------------------------------------------------------------------------------
(* What the workers draft.                                                    *)

Allows(d) == \E r \in Response : Draft(d, r) /\ r.applied = "ALLOW"

Revises(d) ==
    \E r \in Response :
        /\ Draft(d, r)
        /\ r.applied = "BLOCK" => response[d].applied = "BLOCK"
        /\ Malformed(response[d]) => Malformed(r)

(* A request that is refused, malformed, not screened or not analysed in time *)
(* is answered with ALLOW.                                                    *)
LEMMA FallbacksAllow ==
    ASSUME NEW d,
           RejectReplay(d) \/ RejectPersisted(d) \/ FailValidation(d) \/ SkipDisabled(d)
               \/ TimeOut(d) \/ (CollectResult(d) /\ analysis[d] # "done")
    PROVE  Allows(d)
<1>1. "BALANCED" \in PolicyNames
  BY DEF PolicyNames
<1>2. \A reason \in ReasonCodes :
         /\ Fallback(reason) \in Response /\ Fallback(reason).applied = "ALLOW"
         /\ [Fallback(reason) EXCEPT !.policyError = TRUE] \in Response
         /\ [Fallback(reason) EXCEPT !.policyError = TRUE].applied = "ALLOW"
  BY <1>1, FallbackType
<1>3. CASE RejectReplay(d) \/ RejectPersisted(d)
  BY <1>2, <1>3, Reasons DEF RejectReplay, RejectPersisted, RejectPolicy, Allows
<1>4. CASE FailValidation(d) \/ SkipDisabled(d)
  BY <1>2, <1>4, Reasons DEF FailValidation, SkipDisabled, Allows
<1>5. CASE TimeOut(d)
  BY <1>2, <1>5, Reasons DEF TimeOut, Allows
<1>6. CASE CollectResult(d) /\ analysis[d] # "done"
  BY <1>2, <1>6, Reasons DEF CollectResult, Allows
<1> QED
  BY <1>3, <1>4, <1>5, <1>6

(* A malformed request is drafted as such. *)
LEMMA MalformedDraft ==
    ASSUME NEW d, FailValidation(d)
    PROVE  \E r \in Response : Draft(d, r) /\ Malformed(r)
<1>1. "BALANCED" \in PolicyNames /\ "INVALID_REQUEST" \in ReasonCodes
  BY DEF PolicyNames, ReasonCodes
<1> QED
  BY <1>1, FallbackType DEF FailValidation, Malformed

(* Finalizing a response never turns it into a block.                         *)
LEMMA FinalizingRevises ==
    ASSUME TypeOK, DraftInv, NEW d \in Deliveries,
           ReadEmergency(d) \/ FindDisabled(d) \/ Revalidate(d)
    PROVE  Revises(d)
<1> DEFINE on == [cfg EXCEPT !.enabled = TRUE]
<1>1. response[d] \in Response
  BY DEF DraftInv, Drafted, ReadEmergency, FindDisabled, Revalidate, Worker
<1>2. response[d].emergencyOff \in BOOLEAN /\ emergency \in BOOLEAN
      /\ response[d].applied \in Actions
  BY <1>1 DEF TypeOK, Response
<1>3. cfg \in Config /\ on \in Config
  BY Given, EnabledConfig DEF TypeOK
<1>4. CASE ReadEmergency(d)
  <2> DEFINE r == [response[d] EXCEPT !.emergencyOff = emergency]
  <2>1. r \in Response /\ r.applied = response[d].applied /\ r.reason = response[d].reason
    BY <1>1, <1>2 DEF Response
  <2>2. Draft(d, r)
    BY <1>4 DEF ReadEmergency
  <2> HIDE DEF r
  <2> QED
    BY <2>1, <2>2 DEF Revises, Malformed
<1>5. CASE FindDisabled(d)
  <2> DEFINE r == Finalize(response[d], cfg, response[d].emergencyOff)
  <2>1. /\ r \in Response
        /\ r.applied = "BLOCK" => response[d].applied = "BLOCK"
        /\ response[d].applied = "ALLOW" => r.applied = "ALLOW" /\ r.reason = response[d].reason
    BY <1>1, <1>2, <1>3, FinalizeType
  <2>2. Draft(d, r)
    BY <1>5 DEF FindDisabled
  <2> HIDE DEF r
  <2> QED
    BY <2>1, <2>2 DEF Revises, Malformed
<1>6. CASE Revalidate(d)
  <2> DEFINE r == Finalize(response[d], on, response[d].emergencyOff)
  <2>1. /\ r \in Response
        /\ r.applied = "BLOCK" => response[d].applied = "BLOCK"
        /\ response[d].applied = "ALLOW" => r.applied = "ALLOW" /\ r.reason = response[d].reason
    BY <1>1, <1>2, <1>3, FinalizeType
  <2>2. Draft(d, r)
    BY <1>6 DEF Revalidate
  <2> HIDE DEF r
  <2> QED
    BY <2>1, <2>2 DEF Revises, Malformed
<1> QED
  BY <1>4, <1>5, <1>6

(* An analysis decides by the policy; without an observation it allows.       *)
LEMMA AnalysisDecides ==
    ASSUME TypeOK, NEW d \in Deliveries, Evaluate(d) \/ RefuseNumber(d)
    PROVE  \E r \in Response :
              /\ decision' = [decision EXCEPT ![d] = r]
              /\ r.applied = "ALLOW" \/ analysis[d] = "observed"
<1>1. processorCfg \in Config /\ emergency \in BOOLEAN
  BY Given DEF TypeOK
<1>2. CASE Evaluate(d)
  <2>1. PICK x \in Detections :
           /\ x.intelligenceError <=> analysis[d] = "unobserved"
           /\ decision' = [decision EXCEPT ![d] = Decide(x, processorCfg, emergency)]
    BY <1>2 DEF Evaluate
  <2>2. analysis[d] \in {"observed", "unobserved"}
    BY <1>2 DEF Evaluate, Analysis
  <2> DEFINE r == Decide(x, processorCfg, emergency)
  <2>3. x \in Detection
    BY Given
  <2>4. r \in Response /\ (x.intelligenceError => r.applied = "ALLOW")
    BY <1>1, <2>3, DecideReturns
  <2>5. decision' = [decision EXCEPT ![d] = r]
    BY <2>1
  <2> HIDE DEF r
  <2> QED
    BY <2>1, <2>2, <2>4, <2>5
<1>3. CASE RefuseNumber(d)
  <2> DEFINE r == [Fallback("INVALID_NUMBER") EXCEPT !.policyError = TRUE,
                                                    !.policy = processorCfg.policy]
  <2>1. r \in Response /\ r.applied = "ALLOW"
    <3>1. "INVALID_NUMBER" \in ReasonCodes /\ processorCfg.policy \in PolicyNames
      BY <1>1, Reasons, ConfigFields
    <3> QED
      BY <3>1, FallbackType
  <2>2. decision' = [decision EXCEPT ![d] = r]
    BY <1>3 DEF RefuseNumber
  <2> HIDE DEF r
  <2> QED
    BY <2>1, <2>2
<1> QED
  BY <1>2, <1>3

--------------------------------------------------------------------------------
(* Which steps touch what.                                                    *)

WorkerMove(d) == RejectReplay(d) \/ Accept(d) \/ WorkerStep(d)

(* Only workers change the phase of a delivery, its response, the ids in the  *)
(* cache and the rows, apart from a restart and the expiry of an id.          *)
LEMMA OnlyWorkers ==
    ASSUME [Next]_vars
    PROVE  \/ \E d \in Deliveries : WorkerMove(d)
           \/ UNCHANGED <<phase, response, rows, cache, restarts>>
           \/ \E c \in Calls : Forget(c)
           \/ Restart
<1>1. CASE \E d \in Deliveries : AnalysisStep(d)
  BY <1>1 DEF AnalysisStep, Observe, FailObserve, Evaluate, UpdateOutcome, RefuseNumber,
              FailAnalysis, Analysis, workerVars, tableVars, boundVars
<1>2. CASE \E d \in Deliveries : PhoneStep(d)
  BY <1>2 DEF PhoneStep, Hear, LoseFeedback, ConfirmRow, ConfirmObservation, CountRejection,
              Feedback, Phone, workerVars, tableVars, boundVars
<1>3. CASE \E c \in Calls : GiveUp(c)
  BY <1>3 DEF GiveUp, Phone, workerVars, tableVars, boundVars
<1>4. CASE \E w \in Reloaders : LoadConfig(w) \/ AssignService(w) \/ AssignProcessor(w)
  BY <1>4 DEF LoadConfig, AssignService, AssignProcessor, Reload, workerVars, tableVars,
              boundVars
<1>5. CASE SwitchEmergency \/ \E c \in Configs : SaveConfig(c)
  BY <1>5 DEF SwitchEmergency, SaveConfig, Change, workerVars, tableVars
<1>6. CASE CleanUpElsewhere \/ \E d \in Deliveries : CountNext(d)
  BY <1>6 DEF CleanUpElsewhere, CountNext, workerVars, tableVars, boundVars
<1>7. CASE UNCHANGED vars
  BY <1>7 DEF vars, workerVars, tableVars, boundVars
<1> QED
  BY <1>1, <1>2, <1>3, <1>4, <1>5, <1>6, <1>7 DEF Next, WorkerMove

(* Only analyses and clean-ups change decisions and observations, apart from  *)
(* a restart.                                                                 *)
LEMMA OnlyAnalyses ==
    ASSUME [Next]_vars
    PROVE  \/ \E d \in Deliveries : WorkerMove(d)
           \/ \E d \in Deliveries : AnalysisStep(d)
           \/ CleanUpElsewhere
           \/ UNCHANGED <<analysisVars, observation, pruned, phase, response>>
           \/ Restart
<1>1. CASE \E d \in Deliveries : PhoneStep(d)
  BY <1>1 DEF PhoneStep, Hear, LoseFeedback, ConfirmRow, ConfirmObservation, CountRejection,
              Feedback, Phone, workerVars, observationVars
<1>2. CASE \E c \in Calls : GiveUp(c) \/ Forget(c)
  BY <1>2 DEF GiveUp, Phone, Forget, workerVars, observationVars
<1>3. CASE \E w \in Reloaders : LoadConfig(w) \/ AssignService(w) \/ AssignProcessor(w)
  BY <1>3 DEF LoadConfig, AssignService, AssignProcessor, Reload, workerVars, observationVars
<1>4. CASE SwitchEmergency \/ \E c \in Configs : SaveConfig(c)
  BY <1>4 DEF SwitchEmergency, SaveConfig, Change, workerVars, observationVars
<1>5. CASE \E d \in Deliveries : CountNext(d)
  BY <1>5 DEF CountNext, observationVars
<1>6. CASE UNCHANGED vars
  BY <1>6 DEF vars, workerVars, observationVars
<1> QED
  BY <1>1, <1>2, <1>3, <1>4, <1>5, <1>6 DEF Next, WorkerMove

(* Only the phone's side changes calls, feedback and confirmed rows, confirms *)
(* observations and counts rejections, apart from a restart.                  *)
LEMMA OnlyPhone ==
    ASSUME TypeOK, [Next]_vars
    PROVE  \/ /\ UNCHANGED <<call, feedback, confirmedRows>> /\ confirmedObs' \subseteq confirmedObs
              /\ health'.rejected = health.rejected
           \/ \E d \in Deliveries : PhoneStep(d)
           \/ \E c \in Calls : GiveUp(c)
           \/ Restart
<1> DEFINE Outcomes == {"none", "UNKNOWN", "ALLOW", "BLOCK"}
<1>0. observation \in [Calls -> Outcomes]
  BY DEF TypeOK
<1>1. CASE \E d \in Deliveries : AnalysisStep(d)
  <2> PICK d \in Deliveries : AnalysisStep(d)
    BY <1>1
  <2>1. UNCHANGED <<call, feedback, confirmedRows, health>>
    BY DEF AnalysisStep, Observe, FailObserve, Evaluate, UpdateOutcome, RefuseNumber,
           FailAnalysis, Analysis, tableVars, phoneVars
  <2>2. CASE AddObservation(CallOf[d])
    BY <2>1, <2>2, AddingKeeps, Given
  <2>3. CASE ~AddObservation(CallOf[d])
    BY <2>1, <2>3 DEF AnalysisStep, Observe, FailObserve, Evaluate, UpdateOutcome, RefuseNumber,
           FailAnalysis, observationVars
  <2> QED
    BY <2>2, <2>3
<1>2. CASE \E d \in Deliveries : WorkerMove(d)
  BY <1>2 DEF WorkerMove, RejectReplay, Accept, WorkerStep, FailValidation, PassPersisted,
         RejectPersisted, SkipDisabled, StartAnalysis, CollectResult, TimeOut, ReadEmergency,
         FindDisabled, FindEnabled, Revalidate, Persist, FailPersist, Record, Worker,
         tableVars, phoneVars, observationVars
<1>3. CASE \E c \in Calls : Forget(c)
  BY <1>3 DEF Forget, tableVars, phoneVars, observationVars
<1>4. CASE \E w \in Reloaders : LoadConfig(w) \/ AssignService(w) \/ AssignProcessor(w)
  BY <1>4 DEF LoadConfig, AssignService, AssignProcessor, Reload, tableVars, phoneVars,
              observationVars
<1>5. CASE SwitchEmergency \/ \E c \in Configs : SaveConfig(c)
  BY <1>5 DEF SwitchEmergency, SaveConfig, Change, tableVars, phoneVars, observationVars
<1>6. CASE CleanUpElsewhere
  <2>1. confirmedObs' \subseteq confirmedObs
    BY <1>0, <1>6, CleanUpKeeps DEF CleanUpElsewhere
  <2> QED
    BY <1>6, <2>1 DEF CleanUpElsewhere, tableVars, phoneVars
<1>7. CASE \E d \in Deliveries : CountNext(d)
  <2> PICK d \in Deliveries : CountNext(d)
    BY <1>7
  <2>1. /\ UNCHANGED <<call, feedback, confirmedRows, confirmedObs>>
        /\ owed[d] # <<>> /\ Count(Head(owed[d]))
    BY DEF CountNext, tableVars, phoneVars, observationVars
  <2>2. Head(owed[d]) \in DOMAIN ZeroHealth \ {"rejected"}
    BY <2>1, DebtsType DEF TypeOK
  <2>3. health'.rejected = health.rejected
    BY <2>1, <2>2, CountAdds DEF ZeroHealth
  <2> QED
    BY <2>1, <2>3
<1>8. CASE UNCHANGED vars
  BY <1>8 DEF vars, tableVars, phoneVars, observationVars
<1> QED
  BY <1>1, <1>2, <1>3, <1>4, <1>5, <1>6, <1>7, <1>8 DEF Next, WorkerMove

--------------------------------------------------------------------------------
(* Types.                                                                     *)

(* A worker's step keeps the types. *)
LEMMA WorkerTypes ==
    ASSUME TypeOK, DraftInv, NEW d \in Deliveries, WorkerMove(d)
    PROVE  TypeOK'
<1> DEFINE Responses == [Deliveries -> Response \union {NoResponse}]
           Stages == {"none", "running", "observed", "unobserved", "decided", "done", "failed"}
           Debtors == [Deliveries -> Seq(WorkerCounters)]
<1>1. /\ response \in Responses /\ analysis \in [Deliveries -> Stages] /\ cache \subseteq Calls
      /\ rows \subseteq Deliveries /\ CallOf[d] \in Calls /\ owed \in Debtors
      /\ decision \in Responses
  BY Given DEF TypeOK
<1>2. /\ {"new", "answered", "rejected", "lost", "received", "fresh", "waiting", "finalizing",
          "revalidating", "enabled", "validated", "recording"} \subseteq Phases
      /\ "running" \in Stages
  BY DEF Phases, Working
<1>3. \A s \in {Refusing, Arriving, Failing, Finishing} : Owe(d, s) => owed' \in Debtors
  <2> SUFFICES ASSUME NEW s \in Seq(WorkerCounters), Owe(d, s)
               PROVE  owed' \in Debtors
    BY DebtsType
  <2> QED
    BY OweType
<1>4. Allows(d) => response' \in Responses
  BY DraftType DEF Allows
<1>5. Revises(d) => response' \in Responses
  BY DraftType DEF Revises
<1> HIDE DEF Debtors
<1>6. CASE RejectReplay(d)
  <2>1. response' \in Responses
    BY <1>4, <1>6, FallbacksAllow
  <2>2. owed' \in Debtors
    BY <1>3, <1>6 DEF RejectReplay, RejectPolicy, Refusing
  <2> QED
    BY <1>1, <1>2, <1>6, <2>1, <2>2, WorkerType DEF RejectReplay, tableVars, Debtors
<1>7. CASE Accept(d)
  <2>1. owed' \in Debtors
    BY <1>3, <1>7 DEF Accept, Arriving
  <2> QED
    BY <1>1, <1>2, <1>7, <2>1, WorkerType DEF Accept, tableVars, Debtors
<1>8. CASE FailValidation(d) \/ SkipDisabled(d) \/ TimeOut(d)
  <2>1. response' \in Responses
    BY <1>4, <1>8, FallbacksAllow
  <2> QED
    BY <1>1, <1>2, <1>8, <2>1, WorkerType
    DEF FailValidation, SkipDisabled, TimeOut, tableVars, Debtors
<1>9. CASE RejectPersisted(d)
  <2>1. response' \in Responses
    BY <1>4, <1>9, FallbacksAllow
  <2>2. owed' \in Debtors
    BY <1>3, <1>9 DEF RejectPersisted, RejectPolicy, Refusing
  <2> QED
    BY <1>1, <1>2, <1>9, <2>1, <2>2, WorkerType DEF RejectPersisted, tableVars, Debtors
<1>10. CASE PassPersisted(d) \/ FindEnabled(d) \/ FailPersist(d)
  BY <1>1, <1>2, <1>10, WorkerType DEF PassPersisted, FindEnabled, FailPersist, tableVars, Debtors
<1>11. CASE StartAnalysis(d)
  BY <1>1, <1>2, <1>11, WorkerType DEF StartAnalysis, tableVars, Debtors
<1>12. CASE CollectResult(d)
  <2>1. response' \in Responses
    <3>1. CASE analysis[d] = "done"
      BY <1>1, <1>12, <3>1 DEF CollectResult, Draft
    <3> QED
      BY <1>4, <1>12, <3>1, FallbacksAllow
  <2> QED
    BY <1>1, <1>2, <1>12, <2>1, WorkerType DEF CollectResult, tableVars, Debtors
<1>13. CASE ReadEmergency(d) \/ FindDisabled(d) \/ Revalidate(d)
  <2>1. response' \in Responses
    BY <1>5, <1>13, FinalizingRevises
  <2> QED
    BY <1>1, <1>2, <1>13, <2>1, WorkerType
    DEF ReadEmergency, FindDisabled, Revalidate, tableVars, Debtors
<1>14. CASE Persist(d)
  BY <1>1, <1>2, <1>14, WorkerType DEF Persist, Debtors
<1>15. CASE Record(d)
  <2>1. \E s \in {Failing, Finishing} : Owe(d, s)
    BY <1>15 DEF Record, Failing, Finishing
  <2>2. owed' \in Debtors
    BY <1>3, <2>1
  <2> QED
    BY <1>1, <1>2, <1>15, <2>2, WorkerType DEF Record, tableVars, Debtors
<1> QED
  BY <1>6, <1>7, <1>8, <1>9, <1>10, <1>11, <1>12, <1>13, <1>14, <1>15
  DEF WorkerMove, WorkerStep

(* A step of an analysis keeps the types. *)
LEMMA AnalysisTypes ==
    ASSUME TypeOK, AnalysisInv, NEW d \in Deliveries, AnalysisStep(d)
    PROVE  TypeOK'
<1> DEFINE Responses == [Deliveries -> Response \union {NoResponse}]
           Outcomes == {"none", "UNKNOWN", "ALLOW", "BLOCK"}
<1>1. /\ decision \in Responses /\ observation \in [Calls -> Outcomes]
      /\ CallOf[d] \in Calls
      /\ confirmedObs \subseteq Calls /\ pruned \subseteq Calls
  BY Given DEF TypeOK
<1>2. CASE Observe(d) \/ FailObserve(d)
  <2>1. CASE AddObservation(CallOf[d])
    <3>1. /\ observation' \in [Calls -> Outcomes]
          /\ confirmedObs' \subseteq Calls /\ pruned' \subseteq Calls
      BY <1>1, <2>1, AddingKeeps
    <3> QED
      BY <1>1, <1>2, <3>1, AnalysisType DEF Observe, FailObserve
  <2>2. CASE UNCHANGED observationVars
    BY <1>1, <1>2, <2>2, AnalysisType DEF Observe, FailObserve, observationVars
  <2> QED
    BY <1>2, <2>1, <2>2 DEF Observe, FailObserve
<1>3. CASE Evaluate(d) \/ RefuseNumber(d)
  <2>1. decision' \in Responses
    BY <1>1, <1>3, AnalysisDecides
  <2> QED
    BY <1>1, <1>3, <2>1, AnalysisType DEF Evaluate, RefuseNumber, observationVars
<1>4. CASE UpdateOutcome(d)
  <2>1. decision[d].applied \in Actions
    BY <1>4 DEF UpdateOutcome, Analysis, AnalysisInv, Response
  <2>2. observation' \in [Calls -> Outcomes]
    BY <1>1, <1>4, <2>1 DEF UpdateOutcome, Actions
  <2> QED
    BY <1>1, <1>4, <2>2, AnalysisType DEF UpdateOutcome
<1>5. CASE FailAnalysis(d)
  BY <1>1, <1>5, AnalysisType DEF FailAnalysis, observationVars
<1> QED
  BY <1>2, <1>3, <1>4, <1>5 DEF AnalysisStep

(* Every step keeps the types. *)
LEMMA TypeStep ==
    ASSUME TypeOK, DraftInv, AnalysisInv, [Next]_vars
    PROVE  TypeOK'
<1>1. CASE \E d \in Deliveries : WorkerMove(d)
  BY <1>1, WorkerTypes
<1>2. CASE \E d \in Deliveries : AnalysisStep(d)
  BY <1>2, AnalysisTypes
<1>3. CASE \E d \in Deliveries : PhoneStep(d)
  <2> PICK d \in Deliveries : PhoneStep(d)
    BY <1>3
  <2>1. CallOf[d] \in Calls /\ Unconfirmed(CallOf[d]) \subseteq rows
    BY Given DEF Unconfirmed, BlockRows
  <2>2. CASE Hear(d)
    <3>1. /\ call' \in [Calls -> {"ringing", "rejected", "allowed"}]
          /\ feedback' \in [Deliveries -> {"none", "sent", "confirmed", "noted", "done"}]
      BY <2>1, <2>2, ZenonT(60) DEF Hear, TypeOK
    <3>2. UNCHANGED <<workerVars, analysisVars, cache, configVars, emergency, boundVars,
                      tableVars, observationVars, health>>
      BY <2>2 DEF Hear, Phone
    <3> QED
      BY <3>1, <3>2 DEF TypeOK, workerVars, analysisVars, configVars, boundVars, tableVars,
                        observationVars
  <2>3. CASE LoseFeedback(d)
    BY <2>3 DEF LoseFeedback, Feedback, Phone, TypeOK, workerVars, analysisVars, configVars,
                boundVars, tableVars, observationVars
  <2>4. CASE ConfirmRow(d)
    BY <2>1, <2>4 DEF ConfirmRow, Feedback, Phone, TypeOK, workerVars, analysisVars, configVars,
                      boundVars, observationVars
  <2>5. CASE ConfirmObservation(d)
    BY <2>1, <2>5 DEF ConfirmObservation, Feedback, Phone, TypeOK, workerVars, analysisVars,
                      configVars, boundVars, tableVars
  <2>6. CASE CountRejection(d)
    <3>1. health' \in [DOMAIN ZeroHealth -> Nat]
      BY <2>6, CountAdds DEF CountRejection, ZeroHealth
    <3> QED
      BY <2>6, <3>1 DEF CountRejection, Feedback, Phone, TypeOK, workerVars, analysisVars,
                        configVars, boundVars, tableVars, observationVars
  <2> QED
    BY <2>2, <2>3, <2>4, <2>5, <2>6 DEF PhoneStep
<1>4. CASE \E c \in Calls : Forget(c) \/ GiveUp(c)
  BY <1>4 DEF Forget, GiveUp, Phone, TypeOK, workerVars, analysisVars, tableVars, configVars,
              phoneVars, boundVars, observationVars
<1>5. CASE \E w \in Reloaders : LoadConfig(w) \/ AssignService(w) \/ AssignProcessor(w)
  <2> PICK w \in Reloaders : LoadConfig(w) \/ AssignService(w) \/ AssignProcessor(w)
    BY <1>5
  <2> DEFINE Reloads == {Idle} \union [pending : {"service", "processor"}, config : Configs]
  <2>1. /\ reloading \in [Reloaders -> Reloads] /\ saved \in Configs
        /\ Idle \in Reloads
        /\ \A c \in Configs : [pending |-> "service", config |-> c] \in Reloads
    BY DEF TypeOK
  <2>2. reloading[w].pending \in {"service", "processor"} =>
           /\ reloading[w].config \in Configs
           /\ [reloading[w] EXCEPT !.pending = "processor"] \in Reloads
    BY <2>1 DEF Idle
  <2> HIDE DEF Reloads
  <2>3. reloading' \in [Reloaders -> Reloads] /\ cfg' \in Configs /\ processorCfg' \in Configs
    BY <2>1, <2>2, ZenonT(60) DEF LoadConfig, AssignService, AssignProcessor, TypeOK
  <2>4. UNCHANGED <<workerVars, analysisVars, cache, tableVars, observationVars, saved,
                    emergency, health, phoneVars, boundVars>>
    BY DEF LoadConfig, AssignService, AssignProcessor, Reload
  <2> QED
    BY <2>3, <2>4 DEF TypeOK, Reloads, workerVars, analysisVars, tableVars, phoneVars, boundVars,
                      observationVars
<1>6. CASE SwitchEmergency \/ \E c \in Configs : SaveConfig(c)
  <2>1. Change /\ saved' \in Configs /\ emergency' \in BOOLEAN
    BY <1>6 DEF SwitchEmergency, SaveConfig, TypeOK
  <2>2. changes' \in 0..MaxChanges
    BY <2>1, ScreeningAssumption DEF Change, TypeOK
  <2> QED
    BY <2>1, <2>2 DEF Change, TypeOK, workerVars, analysisVars, tableVars, phoneVars,
                      observationVars
<1>7. CASE Restart
  <2>1. /\ phase' \in [Deliveries -> Phases] /\ health' \in [DOMAIN ZeroHealth -> Nat]
        /\ restarts' \in 0..MaxRestarts
        /\ owed' \in [Deliveries -> Seq(WorkerCounters)]
    BY <1>7, ScreeningAssumption, DebtsType DEF Restart, TypeOK, Phases, ZeroHealth
  <2> QED
    BY <1>7, <2>1 DEF Restart, TypeOK, Phases, tableVars, observationVars
<1>8. CASE CleanUpElsewhere
  <2>1. /\ observation' \in [Calls -> {"none", "UNKNOWN", "ALLOW", "BLOCK"}]
        /\ confirmedObs' \subseteq confirmedObs /\ pruned' \subseteq Calls
    BY <1>8, CleanUpKeeps DEF CleanUpElsewhere, TypeOK
  <2> QED
    BY <1>8, <2>1 DEF CleanUpElsewhere, TypeOK, workerVars, analysisVars, tableVars, configVars,
                      phoneVars, boundVars
<1>9. CASE \E d \in Deliveries : CountNext(d)
  <2> PICK d \in Deliveries : CountNext(d)
    BY <1>9
  <2>1. owed[d] # <<>> /\ Count(Head(owed[d])) /\ Owe(d, Tail(owed[d]))
    BY DEF CountNext
  <2>2. /\ Head(owed[d]) \in DOMAIN ZeroHealth
        /\ Tail(owed[d]) \in Seq(WorkerCounters)
    BY <2>1, DebtsType DEF TypeOK
  <2>3. /\ health' \in [DOMAIN ZeroHealth -> Nat]
        /\ owed' \in [Deliveries -> Seq(WorkerCounters)]
    BY <2>1, <2>2, CountAdds, OweType
  <2> QED
    BY <2>3 DEF CountNext, TypeOK, analysisVars, tableVars, observationVars, configVars,
                phoneVars, boundVars
<1>10. CASE UNCHANGED vars
  BY <1>10 DEF vars, TypeOK, workerVars, analysisVars, tableVars, observationVars, configVars,
               phoneVars, boundVars
<1> QED
  BY <1>1, <1>2, <1>3, <1>4, <1>5, <1>6, <1>7, <1>8, <1>9, <1>10 DEF Next, WorkerMove

--------------------------------------------------------------------------------
(* Who holds a request.                                                       *)

(* A worker takes a request in hand by accepting it, and in no other way. *)
LEMMA MoveInHand ==
    ASSUME TypeOK, NEW d \in Deliveries, WorkerMove(d)
    PROVE  /\ \A e \in Deliveries \ {d} : phase'[e] = phase[e] /\ response'[e] = response[e]
           /\ \/ Accept(d)
              \/ cache' = cache /\ (phase[d] \in Working \/ phase'[d] \notin Working)
<1>1. phase \in [Deliveries -> Phases] /\ response \in [Deliveries -> Response \union {NoResponse}]
  BY DEF TypeOK, Phases
<1>2. \A e \in Deliveries \ {d} : phase'[e] = phase[e]
  BY <1>1 DEF WorkerMove, RejectReplay, Accept, WorkerStep, FailValidation, PassPersisted,
              RejectPersisted, SkipDisabled, StartAnalysis, CollectResult, TimeOut,
              ReadEmergency, FindDisabled, FindEnabled, Revalidate, Persist, FailPersist,
              Record, Worker
<1>3. \A e \in Deliveries \ {d} : response'[e] = response[e]
  BY <1>1 DEF WorkerMove, RejectReplay, Accept, WorkerStep, FailValidation, PassPersisted,
              RejectPersisted, SkipDisabled, StartAnalysis, CollectResult, TimeOut,
              ReadEmergency, FindDisabled, FindEnabled, Revalidate, Persist, FailPersist,
              Record, RejectPolicy, Draft
<1>4. CASE RejectReplay(d)
  BY <1>1, <1>2, <1>3, <1>4 DEF RejectReplay, Worker, Working
<1>5. CASE WorkerStep(d)
  <2>1. cache' = cache
    BY <1>5 DEF WorkerStep, FailValidation, PassPersisted, RejectPersisted, SkipDisabled,
                StartAnalysis, CollectResult, TimeOut, ReadEmergency, FindDisabled, FindEnabled,
                Revalidate, Persist, FailPersist, Record
  <2>2. phase[d] \in Working
    BY <1>5 DEF WorkerStep, FailValidation, PassPersisted, RejectPersisted, SkipDisabled,
                StartAnalysis, CollectResult, TimeOut, ReadEmergency, FindDisabled, FindEnabled,
                Revalidate, Persist, FailPersist, Record, Worker, Working
  <2> QED
    BY <1>2, <1>3, <2>1, <2>2
<1> QED
  BY <1>2, <1>3, <1>4, <1>5 DEF WorkerMove

(* The cache holds the ids of the requests in hand (check_and_store). *)
LEMMA HandStep ==
    ASSUME TypeOK, HandInv, [Next]_vars
    PROVE  HandInv'
<1>1. CASE \E d \in Deliveries : WorkerMove(d)
  <2> PICK d \in Deliveries : WorkerMove(d)
    BY <1>1
  <2>1. CASE Accept(d)
    <3>1. /\ InHand' = InHand \union {d} /\ cache' = cache \union {CallOf[d]}
          /\ CallOf[d] \notin cache
      BY <2>1, MoveInHand DEF Accept, Worker, TypeOK, InHand, Working
    <3> QED
      BY <3>1 DEF HandInv
  <2>2. CASE ~Accept(d)
    <3>1. InHand' \subseteq InHand /\ cache' = cache
      BY <2>2, MoveInHand DEF InHand
    <3> QED
      BY <3>1 DEF HandInv
  <2> QED
    BY <2>1, <2>2
<1>2. CASE UNCHANGED <<phase, response, rows, cache, restarts>>
  BY <1>2 DEF HandInv, InHand
<1>3. CASE \E c \in Calls : Forget(c)
  BY <1>3 DEF Forget, HandInv, InHand, workerVars
<1>4. CASE Restart
  <2>1. InHand' = {}
    BY <1>4 DEF Restart, InHand, Working
  <2> QED
    BY <2>1 DEF HandInv
<1> QED
  BY <1>1, <1>2, <1>3, <1>4, OnlyWorkers

(* A worker that finalizes has a response to finalize (_finalize_screening). *)
LEMMA DraftStep ==
    ASSUME TypeOK, DraftInv, AnalysisInv, [Next]_vars
    PROVE  DraftInv'
<1>1. CASE \E d \in Deliveries : WorkerMove(d)
  <2> PICK d \in Deliveries : WorkerMove(d)
    BY <1>1
  <2>1. /\ phase \in [Deliveries -> Phases]
        /\ response \in [Deliveries -> Response \union {NoResponse}]
    BY DEF TypeOK, Phases
  <2>2. Allows(d) \/ Revises(d) => response'[d] \in Response
    BY <2>1 DEF Allows, Revises, Draft
  <2> DEFINE Fits == /\ phase'[d] \in Undrafted => response'[d] = NoResponse
                     /\ phase'[d] \in Drafted => response'[d] \in Response
  <2>3. Fits
    <3>1. CASE RejectReplay(d) \/ RejectPersisted(d) \/ FailValidation(d) \/ SkipDisabled(d)
                  \/ TimeOut(d)
      <4>1. response'[d] \in Response
        BY <2>2, <3>1, FallbacksAllow
      <4>2. phase'[d] \notin Undrafted
        BY <2>1, <3>1 DEF RejectReplay, RejectPersisted, FailValidation, SkipDisabled, TimeOut,
                          Worker, Undrafted
      <4> QED
        BY <4>1, <4>2
    <3>2. CASE CollectResult(d)
      <4>1. response'[d] \in Response
        <5>1. CASE analysis[d] = "done"
          BY <2>1, <3>2, <5>1 DEF CollectResult, Draft, AnalysisInv
        <5> QED
          BY <2>2, <3>2, <5>1, FallbacksAllow
      <4> QED
        BY <2>1, <3>2, <4>1 DEF CollectResult, Worker, Undrafted
    <3>3. CASE Accept(d) \/ PassPersisted(d) \/ StartAnalysis(d)
      <4>1. phase[d] \in Undrafted /\ phase'[d] \in Undrafted /\ response' = response
        BY <2>1, <3>3 DEF Accept, PassPersisted, StartAnalysis, Worker, Undrafted
      <4> QED
        BY <4>1 DEF DraftInv, Undrafted, Drafted
    <3>4. CASE ReadEmergency(d) \/ FindDisabled(d) \/ Revalidate(d)
      <4>1. response'[d] \in Response
        BY <2>2, <3>4, FinalizingRevises
      <4>2. phase'[d] \notin Undrafted
        BY <2>1, <3>4 DEF ReadEmergency, FindDisabled, Revalidate, Worker, Undrafted
      <4> QED
        BY <4>1, <4>2
    <3>5. CASE FindEnabled(d) \/ Persist(d) \/ FailPersist(d) \/ Record(d)
      <4>1. phase[d] \in Drafted /\ phase'[d] \in Drafted /\ response' = response
        BY <2>1, <3>5 DEF FindEnabled, Persist, FailPersist, Record, Worker, Drafted
      <4> QED
        BY <4>1 DEF DraftInv, Undrafted, Drafted
    <3> QED
      BY <3>1, <3>2, <3>3, <3>4, <3>5 DEF WorkerMove, WorkerStep
  <2> QED
    BY <2>3, MoveInHand DEF DraftInv
<1>2. CASE UNCHANGED <<phase, response, rows, cache, restarts>>
  BY <1>2 DEF DraftInv
<1>3. CASE \E c \in Calls : Forget(c)
  BY <1>3 DEF Forget, DraftInv, workerVars
<1>4. CASE Restart
  BY <1>4 DEF Restart, DraftInv, InHand, Working, Undrafted, Drafted
<1> QED
  BY <1>1, <1>2, <1>3, <1>4, OnlyWorkers

--------------------------------------------------------------------------------
(* Rows.                                                                      *)

(* A worker that inserts the row of its request leaves no id with two rows of *)
(* requests that are not malformed: nobody else has the id in hand, and the   *)
(* question that was asked before is still answered by no.                    *)
LEMMA PersistOnce ==
    ASSUME TypeOK, HandInv, DraftInv, UniqueInv, ScreenedOnce, NEW d \in Deliveries, Persist(d)
    PROVE  UniqueInv' /\ ScreenedOnce'
<1>1. /\ phase \in [Deliveries -> Phases] /\ rows \subseteq Deliveries
      /\ phase[d] = "validated" /\ phase' = [phase EXCEPT ![d] = "recording"]
      /\ rows' = rows \union {d} /\ response' = response
  BY DEF TypeOK, Phases, Persist, Worker
<1>2. response[d] \in Response /\ d \in InHand /\ d \notin rows
  BY <1>1 DEF DraftInv, Drafted, InHand, Working, UniqueInv
<1>3. \A x \in rows' : phase'[x] \in {"recording", "answered", "lost"} /\ response'[x] \in Response
  BY <1>1, <1>2 DEF UniqueInv
<1>4. ASSUME NEW x \in Deliveries \ {d}, phase[x] \in Working, ~Persisted(CallOf[x])
      PROVE  ~Persisted(CallOf[x])'
  <2>1. CallOf[x] # CallOf[d]
    BY <1>2, <1>4 DEF HandInv, InHand
  <2> QED
    BY <1>1, <1>4, <2>1 DEF Persisted
<1>5. ASSUME NEW x \in Deliveries
      PROVE  /\ phase'[x] \in {"fresh", "waiting"} => ~Persisted(CallOf[x])'
             /\ phase'[x] \in {"finalizing", "revalidating", "enabled", "validated"} =>
                   Malformed(response'[x]) \/ ~Persisted(CallOf[x])'
  <2>1. CASE x = d
    BY <1>1, <2>1
  <2>2. CASE x # d
    <3>1. phase'[x] = phase[x] /\ response'[x] = response[x]
      BY <1>1, <2>2
    <3>2. phase[x] \in {"fresh", "waiting", "finalizing", "revalidating", "enabled", "validated"}
             => phase[x] \in Working
      BY DEF Working
    <3> QED
      BY <1>4, <2>2, <3>1, <3>2 DEF UniqueInv
  <2> QED
    BY <2>1, <2>2
<1>6. UniqueInv'
  BY <1>3, <1>5 DEF UniqueInv
<1>7. response[d].reason = "INVALID_REQUEST" \/ \A x \in rows : CallOf[x] # CallOf[d]
  BY <1>1 DEF UniqueInv, Malformed, Persisted
<1>8. ScreenedOnce'
  BY <1>1, <1>2, <1>7 DEF ScreenedOnce
<1> QED
  BY <1>6, <1>8

(* A row is of a request whose response is settled. *)
LEMMA RowsSettled ==
    ASSUME TypeOK, UniqueInv, NEW d \in Deliveries, WorkerMove(d)
    PROVE  /\ rows \subseteq rows'
           /\ \A x \in rows : /\ response'[x] = response[x]
                              /\ phase'[x] \in {"recording", "answered", "lost"}
<1>1. phase \in [Deliveries -> Phases] /\ rows \subseteq Deliveries
  BY DEF TypeOK, Phases
<1>2. rows \subseteq rows'
  BY DEF WorkerMove, RejectReplay, Accept, WorkerStep, FailValidation, PassPersisted,
         RejectPersisted, SkipDisabled, StartAnalysis, CollectResult, TimeOut, ReadEmergency,
         FindDisabled, FindEnabled, Revalidate, Persist, FailPersist, Record, tableVars
<1>3. ASSUME d \in rows
      PROVE  phase'[d] = "answered" /\ response' = response
  <2>1. phase[d] \in {"recording", "answered", "lost"}
    BY <1>3 DEF UniqueInv
  <2>2. Record(d)
    BY <1>1, <2>1 DEF WorkerMove, RejectReplay, Accept, WorkerStep, FailValidation,
         PassPersisted, RejectPersisted, SkipDisabled, StartAnalysis, CollectResult, TimeOut,
         ReadEmergency, FindDisabled, FindEnabled, Revalidate, Persist, FailPersist, Worker
  <2> QED
    BY <1>1, <2>2 DEF Record, Worker
<1> QED
  BY <1>1, <1>2, <1>3, MoveInHand DEF UniqueInv

(* Every other step of a worker leaves the rows and their responses alone,    *)
(* and takes no request past the question whether it is stored, except a      *)
(* malformed one.                                                             *)
LEMMA KeepOnce ==
    ASSUME TypeOK, DraftInv, UniqueInv, ScreenedOnce, NEW d \in Deliveries,
           WorkerMove(d), ~Persist(d)
    PROVE  UniqueInv' /\ ScreenedOnce'
<1>1. /\ phase \in [Deliveries -> Phases] /\ rows \subseteq Deliveries
      /\ response \in [Deliveries -> Response \union {NoResponse}]
  BY DEF TypeOK, Phases
<1>2. rows' = rows
  BY DEF WorkerMove, RejectReplay, Accept, WorkerStep, FailValidation, PassPersisted,
         RejectPersisted, SkipDisabled, StartAnalysis, CollectResult, TimeOut, ReadEmergency,
         FindDisabled, FindEnabled, Revalidate, FailPersist, Record, tableVars
<1>3. \A x \in rows : /\ response'[x] = response[x]
                      /\ phase'[x] \in {"recording", "answered", "lost"}
  BY RowsSettled
<1>4. /\ phase'[d] \in {"fresh", "waiting"} => ~Persisted(CallOf[d])
      /\ phase'[d] \in {"finalizing", "revalidating", "enabled", "validated"} =>
            Malformed(response'[d]) \/ ~Persisted(CallOf[d])
  <2>1. CASE RejectReplay(d) \/ Accept(d) \/ RejectPersisted(d) \/ FailPersist(d) \/ Record(d)
    BY <1>1, <2>1 DEF RejectReplay, Accept, RejectPersisted, FailPersist, Record, Worker
  <2>2. CASE PassPersisted(d)
    BY <1>1, <2>2 DEF PassPersisted, Worker
  <2>3. CASE SkipDisabled(d) \/ StartAnalysis(d) \/ CollectResult(d) \/ TimeOut(d)
    BY <1>1, <2>3 DEF SkipDisabled, StartAnalysis, CollectResult, TimeOut, Worker, UniqueInv
  <2>4. CASE FailValidation(d)
    <3>1. Malformed(response'[d])
      BY <1>1, <2>4, MalformedDraft DEF Draft
    <3> QED
      BY <1>1, <2>4, <3>1 DEF FailValidation, Worker
  <2>5. CASE ReadEmergency(d) \/ FindDisabled(d) \/ Revalidate(d)
    <3>1. Malformed(response[d]) => Malformed(response'[d])
      BY <1>1, <2>5, FinalizingRevises DEF Revises, Draft
    <3> QED
      BY <1>1, <2>5, <3>1 DEF ReadEmergency, FindDisabled, Revalidate, Worker, UniqueInv
  <2>6. CASE FindEnabled(d)
    BY <1>1, <2>6 DEF FindEnabled, Worker, UniqueInv
  <2> QED
    BY <2>1, <2>2, <2>3, <2>4, <2>5, <2>6 DEF WorkerMove, WorkerStep
<1>5. ASSUME NEW x \in Deliveries
      PROVE  /\ phase'[x] \in {"fresh", "waiting"} => ~Persisted(CallOf[x])
             /\ phase'[x] \in {"finalizing", "revalidating", "enabled", "validated"} =>
                   Malformed(response'[x]) \/ ~Persisted(CallOf[x])
  BY <1>4, MoveInHand DEF UniqueInv
<1>6. UniqueInv'
  <2>1. \A x \in rows' : /\ phase'[x] \in {"recording", "answered", "lost"}
                         /\ response'[x] \in Response
    BY <1>2, <1>3 DEF UniqueInv
  <2> QED
    BY <1>2, <1>5, <2>1 DEF UniqueInv, Persisted
<1>7. ScreenedOnce'
  BY <1>2, <1>3 DEF ScreenedOnce
<1> QED
  BY <1>6, <1>7

(* No step screens an id twice (_screening_request_seen, check_and_store). *)
LEMMA UniqueStep ==
    ASSUME TypeOK, HandInv, DraftInv, UniqueInv, ScreenedOnce, [Next]_vars
    PROVE  UniqueInv' /\ ScreenedOnce'
<1>1. CASE \E d \in Deliveries : WorkerMove(d)
  BY <1>1, PersistOnce, KeepOnce
<1>2. CASE UNCHANGED <<phase, response, rows, cache, restarts>>
  BY <1>2 DEF UniqueInv, ScreenedOnce, Persisted
<1>3. CASE \E c \in Calls : Forget(c)
  BY <1>3 DEF Forget, UniqueInv, ScreenedOnce, Persisted, workerVars, tableVars
<1>4. CASE Restart
  <2>1. /\ response' = response /\ rows' = rows
        /\ \A d \in Deliveries : phase'[d] \in {phase[d], "lost"}
        /\ rows \subseteq Deliveries
    BY <1>4 DEF Restart, tableVars, TypeOK
  <2>2. ScreenedOnce'
    BY <2>1 DEF ScreenedOnce
  <2>3. UniqueInv'
    BY <2>1 DEF UniqueInv, Persisted
  <2> QED
    BY <2>2, <2>3
<1> QED
  BY <1>1, <1>2, <1>3, <1>4, OnlyWorkers

--------------------------------------------------------------------------------
(* Analyses and what they leave in the behavior table.                        *)

(* An analysis touches its own stage and decision only, and an observation    *)
(* that is there stays there unless it is pruned; only an outcome replaces    *)
(* it.                                                                        *)
LEMMA AnalysisTouches ==
    ASSUME TypeOK, AnalysisInv, NEW d \in Deliveries, AnalysisStep(d)
    PROVE  /\ UNCHANGED <<workerVars, tableVars>> /\ pruned \subseteq pruned'
           /\ \A e \in Deliveries \ {d} :
                 analysis'[e] = analysis[e] /\ decision'[e] = decision[e]
           /\ \A c \in Calls :
                 observation[c] # "none" =>
                     \/ c \in pruned'
                     \/ /\ observation'[c] # "none"
                        /\ \/ observation'[c] = observation[c]
                           \/ /\ UpdateOutcome(d) /\ c = CallOf[d]
                              /\ observation'[c] = decision[d].applied
<1>1. /\ analysis \in [Deliveries ->
             {"none", "running", "observed", "unobserved", "decided", "done", "failed"}]
      /\ decision \in [Deliveries -> Response \union {NoResponse}]
      /\ observation \in [Calls -> {"none", "UNKNOWN", "ALLOW", "BLOCK"}]
      /\ CallOf[d] \in Calls
  BY Given DEF TypeOK
<1>2. UNCHANGED <<workerVars, tableVars>>
  BY DEF AnalysisStep, Observe, FailObserve, Evaluate, UpdateOutcome, RefuseNumber,
         FailAnalysis, Analysis
<1>3. \A e \in Deliveries \ {d} : analysis'[e] = analysis[e]
  BY <1>1 DEF AnalysisStep, Observe, FailObserve, Evaluate, UpdateOutcome, RefuseNumber,
              FailAnalysis, Becomes
<1>4. \A e \in Deliveries \ {d} : decision'[e] = decision[e]
  <2>1. CASE Evaluate(d) \/ RefuseNumber(d)
    BY <1>1, <2>1, AnalysisDecides
  <2>2. CASE ~(Evaluate(d) \/ RefuseNumber(d))
    BY <2>2 DEF AnalysisStep, Observe, FailObserve, UpdateOutcome, FailAnalysis
  <2> QED
    BY <2>1, <2>2
<1>5. /\ pruned \subseteq pruned'
      /\ \A c \in Calls :
            observation[c] # "none" =>
                \/ c \in pruned'
                \/ /\ observation'[c] # "none"
                   /\ \/ observation'[c] = observation[c]
                      \/ /\ UpdateOutcome(d) /\ c = CallOf[d]
                         /\ observation'[c] = decision[d].applied
  <2>1. CASE AddObservation(CallOf[d])
    BY <1>1, <2>1, AddingKeeps
  <2>2. CASE UNCHANGED observationVars
    BY <2>2 DEF observationVars
  <2>3. CASE UpdateOutcome(d)
    <3>1. decision[d] \in Response
      BY <2>3 DEF UpdateOutcome, Analysis, AnalysisInv
    <3>2. decision[d].applied \in {"ALLOW", "BLOCK"}
      BY <3>1 DEF Response, Actions
    <3> QED
      BY <1>1, <2>3, <3>2 DEF UpdateOutcome
  <2> QED
    BY <2>1, <2>2, <2>3 DEF AnalysisStep, Observe, FailObserve, Evaluate, RefuseNumber,
                            FailAnalysis
<1> QED
  BY <1>2, <1>3, <1>4, <1>5

(* A worker touches no decision and no observation, and no analysis but the   *)
(* one it starts.                                                             *)
LEMMA WorkerTouches ==
    ASSUME TypeOK, NEW d \in Deliveries, WorkerMove(d)
    PROVE  /\ UNCHANGED <<decision, observation, pruned>>
           /\ \/ StartAnalysis(d)
              \/ /\ analysis' = analysis
                 /\ phase'[d] \in {"received", "fresh"} => phase[d] \in {"new", "received"}
<1>1. phase \in [Deliveries -> Phases]
  BY DEF TypeOK, Phases
<1> QED
  BY <1>1
  DEF WorkerMove, RejectReplay, Accept, WorkerStep, FailValidation, PassPersisted,
      RejectPersisted, SkipDisabled, CollectResult, TimeOut, ReadEmergency, FindDisabled,
      FindEnabled, Revalidate, Persist, FailPersist, Record, StartAnalysis, Worker,
      observationVars

(* An analysis decides once (EventProcessor.process). *)
LEMMA AnalysisStepKeeps ==
    ASSUME TypeOK, AnalysisInv, [Next]_vars
    PROVE  AnalysisInv'
<1>1. /\ analysis \in [Deliveries ->
             {"none", "running", "observed", "unobserved", "decided", "done", "failed"}]
      /\ decision \in [Deliveries -> Response \union {NoResponse}]
      /\ observation \in [Calls -> {"none", "UNKNOWN", "ALLOW", "BLOCK"}]
      /\ phase \in [Deliveries -> Phases]
      /\ \A d \in Deliveries : CallOf[d] \in Calls
  BY Given DEF TypeOK, Phases
<1>2. CASE \E d \in Deliveries : WorkerMove(d)
  <2> PICK d \in Deliveries : WorkerMove(d)
    BY <1>2
  <2>1. UNCHANGED <<decision, observation, pruned>>
    BY WorkerTouches
  <2>2. \A x \in Deliveries \ {d} : phase'[x] = phase[x]
    BY MoveInHand
  <2>3. CASE StartAnalysis(d)
    <3>1. /\ phase[d] = "fresh" /\ phase'[d] = "waiting"
          /\ analysis' = [analysis EXCEPT ![d] = "running"]
      BY <1>1, <2>3 DEF StartAnalysis, Worker
    <3> QED
      BY <1>1, <2>1, <2>2, <3>1 DEF AnalysisInv, Observed
  <2>4. CASE /\ analysis' = analysis
             /\ phase'[d] \in {"received", "fresh"} => phase[d] \in {"new", "received"}
    <3>1. phase'[d] # "new"
      BY <1>1 DEF WorkerMove, RejectReplay, Accept, WorkerStep, FailValidation, PassPersisted,
        RejectPersisted, SkipDisabled, CollectResult, TimeOut, ReadEmergency, FindDisabled,
        FindEnabled, Revalidate, Persist, FailPersist, Record, StartAnalysis, Worker
    <3> QED
      BY <2>1, <2>2, <2>4, <3>1 DEF AnalysisInv, Observed
  <2> QED
    BY <2>3, <2>4, WorkerTouches
<1>3. CASE \E d \in Deliveries : AnalysisStep(d)
  <2> PICK d \in Deliveries : AnalysisStep(d)
    BY <1>3
  <2>1. /\ phase' = phase
        /\ \A e \in Deliveries \ {d} : analysis'[e] = analysis[e] /\ decision'[e] = decision[e]
        /\ \A e \in Deliveries : Observed(e) => Observed(e)'
    BY <1>1, AnalysisTouches DEF workerVars, Observed
  <2>2. /\ phase[d] \notin {"new", "received", "fresh"}
        /\ analysis'[d] \notin {"none", "running"}
    BY <1>1 DEF AnalysisStep, Observe, FailObserve, Evaluate, UpdateOutcome, RefuseNumber,
                FailAnalysis, Analysis, Becomes, AnalysisInv
  <2>3. /\ analysis'[d] \in {"observed", "unobserved"} => decision'[d] = NoResponse
        /\ analysis'[d] \in {"decided", "done"} => decision'[d] \in Response
        /\ analysis'[d] = "observed" => Observed(d)'
    <3>1. CASE Observe(d) \/ FailObserve(d)
      <4>1. Observe(d) => Observed(d)'
        BY <1>1, AddingKeeps DEF Observe, Observed
      <4> QED
        BY <1>1, <3>1, <4>1 DEF Observe, FailObserve, Analysis, Becomes, AnalysisInv
    <3>2. CASE Evaluate(d) \/ RefuseNumber(d)
      <4>1. decision'[d] \in Response
        BY <1>1, <3>2, AnalysisDecides
      <4> QED
        BY <1>1, <3>2, <4>1 DEF Evaluate, RefuseNumber, Becomes
    <3>3. CASE UpdateOutcome(d) \/ FailAnalysis(d)
      BY <1>1, <3>3 DEF UpdateOutcome, FailAnalysis, Analysis, Becomes, AnalysisInv
    <3> QED
      BY <3>1, <3>2, <3>3 DEF AnalysisStep
  <2> QED
    BY <1>1, <2>1, <2>2, <2>3 DEF AnalysisInv
<1>4. CASE CleanUpElsewhere
  <2>1. UNCHANGED <<analysis, decision, phase>>
        /\ \A d \in Deliveries : Observed(d) => Observed(d)'
    BY <1>1, <1>4, CleanUpKeeps DEF CleanUpElsewhere, analysisVars, workerVars, Observed
  <2> QED
    BY <2>1 DEF AnalysisInv
<1>5. CASE UNCHANGED <<analysisVars, observation, pruned, phase, response>>
  BY <1>5 DEF AnalysisInv, Observed, analysisVars
<1>6. CASE Restart
  BY <1>6 DEF Restart, AnalysisInv, InHand, Working
<1> QED
  BY <1>2, <1>3, <1>4, <1>5, <1>6, OnlyAnalyses

(* A worker's response comes to block only by a decision that blocks, after   *)
(* the outcome of its analysis was written.                                   *)
LEMMA BlockDrafted ==
    ASSUME TypeOK, DraftInv, AnalysisInv, NEW d \in Deliveries, WorkerMove(d), Blocking(d)'
    PROVE  Blocking(d) \/ (DecidedBlock(d) /\ analysis[d] = "done")
<1>1. /\ phase \in [Deliveries -> Phases]
      /\ response \in [Deliveries -> Response \union {NoResponse}]
      /\ NoResponse \notin Response
  BY Given DEF TypeOK, Phases
<1>2. response'[d].applied = "BLOCK"
  BY DEF Blocking
<1>3. ~Allows(d)
  BY <1>1, <1>2 DEF Allows, Draft
<1>4. CASE RejectReplay(d) \/ RejectPersisted(d) \/ FailValidation(d) \/ SkipDisabled(d)
               \/ TimeOut(d)
  BY <1>3, <1>4, FallbacksAllow
<1>5. CASE CollectResult(d)
  <2>1. analysis[d] = "done"
    BY <1>3, <1>5, FallbacksAllow
  <2>2. response'[d] = decision[d] /\ decision[d] \in Response
    BY <1>1, <1>5, <2>1 DEF CollectResult, Draft, AnalysisInv
  <2> QED
    BY <1>1, <1>2, <2>1, <2>2 DEF DecidedBlock
<1>6. CASE ReadEmergency(d) \/ FindDisabled(d) \/ Revalidate(d)
  <2>1. response[d] \in Response
    BY <1>6 DEF DraftInv, Drafted, ReadEmergency, FindDisabled, Revalidate, Worker
  <2>2. response'[d].applied = "BLOCK" => response[d].applied = "BLOCK"
    BY <1>1, <1>6, FinalizingRevises DEF Revises, Draft
  <2> QED
    BY <1>1, <1>2, <2>1, <2>2 DEF Blocking
<1>7. CASE Accept(d) \/ PassPersisted(d) \/ StartAnalysis(d) \/ FindEnabled(d) \/ Persist(d)
               \/ FailPersist(d) \/ Record(d)
  <2>1. response' = response
    BY <1>7 DEF Accept, PassPersisted, StartAnalysis, FindEnabled, Persist, FailPersist, Record
  <2> QED
    BY <2>1 DEF Blocking
<1> QED
  BY <1>4, <1>5, <1>6, <1>7 DEF WorkerMove, WorkerStep

(* What an analysis decides it does not decide again, and a block it decides  *)
(* is of a call it has observed; when it is done, its outcome is written.     *)
LEMMA BlockDecided ==
    ASSUME TypeOK, AnalysisInv, BlockInv, NEW d \in Deliveries, AnalysisStep(d)
    PROVE  /\ decision[d] # NoResponse => decision'[d] = decision[d]
           /\ DecidedBlock(d)' => Observed(d)
           /\ DecidedBlock(d)' /\ analysis'[d] = "done" =>
                 observation'[CallOf[d]] = "BLOCK" \/ CallOf[d] \in pruned'
<1>1. /\ analysis \in [Deliveries ->
             {"none", "running", "observed", "unobserved", "decided", "done", "failed"}]
      /\ decision \in [Deliveries -> Response \union {NoResponse}]
      /\ observation \in [Calls -> {"none", "UNKNOWN", "ALLOW", "BLOCK"}]
      /\ CallOf[d] \in Calls
  BY Given DEF TypeOK
<1>2. CASE Evaluate(d) \/ RefuseNumber(d)
  <2>1. PICK r \in Response : /\ decision' = [decision EXCEPT ![d] = r]
                              /\ r.applied = "ALLOW" \/ analysis[d] = "observed"
    BY <1>2, AnalysisDecides
  <2>2. decision[d] = NoResponse
    BY <1>2 DEF Evaluate, RefuseNumber, Analysis, AnalysisInv
  <2>3. DecidedBlock(d)' => analysis[d] = "observed"
    BY <1>1, <2>1 DEF DecidedBlock
  <2>4. analysis[d] = "observed" => analysis'[d] = "decided" /\ Observed(d)
    BY <1>1, <1>2 DEF Evaluate, RefuseNumber, Analysis, Becomes, AnalysisInv
  <2> QED
    BY <2>2, <2>3, <2>4
<1>3. CASE UpdateOutcome(d)
  <2>1. decision' = decision /\ pruned' = pruned
    BY <1>3 DEF UpdateOutcome
  <2>2. DecidedBlock(d)' => DecidedBlock(d)
    BY <2>1 DEF DecidedBlock
  <2>3. DecidedBlock(d) => Observed(d) /\ decision[d].applied = "BLOCK"
    BY DEF BlockInv, DecidedBlock
  <2>4. observation[CallOf[d]] # "none" => observation'[CallOf[d]] = decision[d].applied
    BY <1>1, <1>3 DEF UpdateOutcome
  <2> QED
    BY <2>1, <2>2, <2>3, <2>4 DEF Observed
<1>4. CASE Observe(d) \/ FailObserve(d) \/ FailAnalysis(d)
  <2>1. decision' = decision /\ analysis'[d] # "done"
    BY <1>1, <1>4 DEF Observe, FailObserve, FailAnalysis, Becomes
  <2> QED
    BY <2>1 DEF BlockInv, DecidedBlock
<1> QED
  BY <1>2, <1>3, <1>4 DEF AnalysisStep

(* A step of an analysis keeps every block observed, its own and the others': *)
(* an outcome that is no block is a decision that overrules them.             *)
LEMMA BlockObserved ==
    ASSUME TypeOK, AnalysisInv, BlockInv, NEW d \in Deliveries, AnalysisStep(d)
    PROVE  BlockInv'
<1>1. /\ response' = response /\ pruned \subseteq pruned'
      /\ \A e \in Deliveries \ {d} : analysis'[e] = analysis[e] /\ decision'[e] = decision[e]
      /\ \A c \in Calls :
            observation[c] # "none" =>
                \/ c \in pruned'
                \/ /\ observation'[c] # "none"
                   /\ \/ observation'[c] = observation[c]
                      \/ /\ UpdateOutcome(d) /\ c = CallOf[d]
                         /\ observation'[c] = decision[d].applied
  BY AnalysisTouches DEF workerVars
<1>2. /\ decision[d] # NoResponse => decision'[d] = decision[d]
      /\ DecidedBlock(d)' => Observed(d)
      /\ DecidedBlock(d)' /\ analysis'[d] = "done" =>
            observation'[CallOf[d]] = "BLOCK" \/ CallOf[d] \in pruned'
  BY BlockDecided
<1>3. UpdateOutcome(d) => decision[d] \in Response /\ decision[d].applied \in {"ALLOW", "BLOCK"}
  BY DEF UpdateOutcome, Analysis, AnalysisInv, Response, Actions
<1>4. \A x \in Deliveries : CallOf[x] \in Calls
  BY Given
<1>5. \A x \in Deliveries : decision[x] # NoResponse => decision'[x] = decision[x]
  BY <1>1, <1>2
<1>6. \A x \in Deliveries : Observed(x) => Observed(x)'
  BY <1>1, <1>4 DEF Observed
<1>7. ASSUME NEW x \in Deliveries
      PROVE  /\ DecidedBlock(x)' => Observed(x)'
             /\ Blocking(x)' => DecidedBlock(x)'
             /\ Blocking(x)' \/ (DecidedBlock(x)' /\ analysis'[x] = "done") => Settled(x)'
  <2>1. Blocking(x)' <=> Blocking(x)
    BY <1>1 DEF Blocking
  <2>2. DecidedBlock(x) => DecidedBlock(x)'
    BY <1>5 DEF DecidedBlock
  <2>3. DecidedBlock(x)' => Observed(x)
    <3>1. CASE x = d
      BY <1>2, <3>1
    <3>2. CASE x # d
      BY <1>1, <3>2 DEF DecidedBlock, BlockInv
    <3> QED
      BY <3>1, <3>2
  <2>4. Overruled(x) => Overruled(x)'
    BY <1>5 DEF Overruled
  <2>5. Blocking(x) => DecidedBlock(x)
    BY DEF BlockInv
  <2>6. ASSUME Blocking(x) \/ (DecidedBlock(x) /\ analysis[x] = "done")
        PROVE  Settled(x)'
    <3>1. DecidedBlock(x)
      BY <2>5, <2>6
    <3>2. observation[CallOf[x]] # "none" \/ CallOf[x] \in pruned
      BY <2>2, <2>3, <3>1 DEF Observed
    <3>3. Settled(x)
      BY <2>6 DEF BlockInv
    <3>4. CASE observation'[CallOf[x]] = observation[CallOf[x]]
      BY <1>1, <2>4, <3>3, <3>4 DEF Settled
    <3>5. CASE /\ UpdateOutcome(d) /\ CallOf[x] = CallOf[d]
               /\ observation'[CallOf[x]] = decision[d].applied
      <4>1. CASE decision[d].applied = "BLOCK"
        BY <3>5, <4>1 DEF Settled
      <4>2. CASE decision[d].applied = "ALLOW"
        <5>1. d # x
          BY <3>1, <4>2 DEF DecidedBlock
        <5>2. decision[d] # NoResponse
          BY <1>3, <3>5, Given
        <5>3. decision'[d] # NoResponse /\ decision'[d].applied = "ALLOW"
          BY <1>5, <4>2, <5>2
        <5>4. Overruled(x)'
          BY <3>5, <5>1, <5>3 DEF Overruled
        <5> QED
          BY <5>4 DEF Settled
      <4> QED
        BY <1>3, <3>5, <4>1, <4>2
    <3>6. CASE CallOf[x] \in pruned'
      BY <3>6 DEF Settled
    <3> QED
      BY <1>1, <1>4, <3>2, <3>4, <3>5, <3>6
  <2>7. ASSUME DecidedBlock(x)', analysis'[x] = "done"
        PROVE  Settled(x)'
    <3>1. CASE x = d
      BY <1>2, <2>7, <3>1 DEF Settled
    <3>2. CASE x # d
      BY <1>1, <2>6, <2>7, <3>2 DEF DecidedBlock
    <3> QED
      BY <3>1, <3>2
  <2> QED
    BY <1>6, <2>1, <2>2, <2>3, <2>5, <2>6, <2>7
<1> QED
  BY <1>7 DEF BlockInv

(* Every step keeps blocks observed (update_outcome). *)
LEMMA BlockStep ==
    ASSUME TypeOK, DraftInv, AnalysisInv, BlockInv, [Next]_vars
    PROVE  BlockInv'
<1>1. CASE \E d \in Deliveries : WorkerMove(d)
  <2> PICK d \in Deliveries : WorkerMove(d)
    BY <1>1
  <2>1. UNCHANGED <<decision, observation, pruned>>
    BY WorkerTouches
  <2>2. \A x \in Deliveries :
           /\ DecidedBlock(x)' <=> DecidedBlock(x)
           /\ Observed(x)' <=> Observed(x)
           /\ Settled(x)' <=> Settled(x)
    BY <2>1 DEF DecidedBlock, Overruled, Observed, Settled
  <2>3. \A x \in Deliveries : analysis'[x] = "done" => analysis[x] = "done"
    <3>1. CASE StartAnalysis(d)
      BY <3>1 DEF StartAnalysis, TypeOK
    <3>2. CASE analysis' = analysis
      BY <3>2
    <3> QED
      BY <3>1, <3>2, WorkerTouches
  <2>4. \A x \in Deliveries :
           Blocking(x)' => Blocking(x) \/ (DecidedBlock(x) /\ analysis[x] = "done")
    <3> SUFFICES ASSUME NEW x \in Deliveries, Blocking(x)'
                 PROVE  Blocking(x) \/ (DecidedBlock(x) /\ analysis[x] = "done")
      OBVIOUS
    <3>1. CASE x = d
      BY <3>1, BlockDrafted
    <3>2. CASE x # d
      BY <3>2, MoveInHand DEF Blocking
    <3> QED
      BY <3>1, <3>2
  <2>5. ASSUME NEW x \in Deliveries
        PROVE  /\ DecidedBlock(x)' => Observed(x)'
               /\ Blocking(x)' => DecidedBlock(x)'
               /\ Blocking(x)' \/ (DecidedBlock(x)' /\ analysis'[x] = "done") => Settled(x)'
    BY <2>2, <2>3, <2>4 DEF BlockInv
  <2> QED
    BY <2>5 DEF BlockInv
<1>2. CASE \E d \in Deliveries : AnalysisStep(d)
  BY <1>2, BlockObserved
<1>3. CASE CleanUpElsewhere
  <2>1. UNCHANGED <<analysis, decision, response>>
    BY <1>3 DEF CleanUpElsewhere, analysisVars, workerVars
  <2>2. \A x \in Deliveries :
           /\ DecidedBlock(x)' <=> DecidedBlock(x)
           /\ Blocking(x)' <=> Blocking(x)
           /\ Overruled(x)' <=> Overruled(x)
    BY <2>1 DEF DecidedBlock, Blocking, Overruled
  <2>3. \A x \in Deliveries : (Observed(x) => Observed(x)') /\ (Settled(x) => Settled(x)')
    BY <1>3, <2>2, CleanUpKeeps, Given DEF CleanUpElsewhere, TypeOK, Observed, Settled
  <2> QED
    BY <2>1, <2>2, <2>3 DEF BlockInv
<1>4. CASE UNCHANGED <<analysisVars, observation, pruned, phase, response>>
  BY <1>4 DEF BlockInv, Blocking, DecidedBlock, Overruled, Observed, Settled, analysisVars
<1>5. CASE Restart
  <2>1. UNCHANGED <<response, decision, observation, pruned>>
        /\ \A x \in Deliveries : analysis'[x] # "done"
    BY <1>5 DEF Restart, observationVars
  <2> QED
    BY <2>1 DEF BlockInv, Blocking, DecidedBlock, Overruled, Observed, Settled
<1> QED
  BY <1>1, <1>2, <1>3, <1>4, <1>5, OnlyAnalyses

--------------------------------------------------------------------------------
(* Rejections and their confirmations.                                        *)

(* A row that is there stays, with the response it was inserted with. *)
LEMMA RowsKept ==
    ASSUME TypeOK, UniqueInv, [Next]_vars
    PROVE  BlockRows \subseteq BlockRows'
<1>1. CASE \E d \in Deliveries : WorkerMove(d)
  BY <1>1, RowsSettled DEF BlockRows
<1>2. CASE UNCHANGED <<phase, response, rows, cache, restarts>>
  BY <1>2 DEF BlockRows
<1>3. CASE \E c \in Calls : Forget(c)
  BY <1>3 DEF Forget, BlockRows, workerVars, tableVars
<1>4. CASE Restart
  BY <1>4 DEF Restart, BlockRows, tableVars
<1> QED
  BY <1>1, <1>2, <1>3, <1>4, OnlyWorkers

(* The sets that are counted are finite. *)
LEMMA Finite ==
    ASSUME TypeOK
    PROVE  /\ IsFiniteSet(confirmedRows) /\ IsFiniteSet(Confirming)
           /\ Cardinality(confirmedRows) \in Nat /\ Cardinality(Confirming) \in Nat
           /\ health.rejected \in Nat
<1>1. confirmedRows \subseteq Deliveries /\ Confirming \subseteq Deliveries
  BY DEF TypeOK, Confirming
<1>2. IsFiniteSet(confirmedRows) /\ IsFiniteSet(Confirming)
  BY <1>1, ScreeningAssumption, FS_Subset
<1>3. health.rejected \in Nat
  BY DEF TypeOK, ZeroHealth
<1> QED
  BY <1>2, <1>3, FS_CardinalityType

(* The UPDATE that changes exactly one row adds one to the confirmed rows. *)
LEMMA OneMoreRow ==
    ASSUME NEW S, IsFiniteSet(S), NEW M, Cardinality(M) = 1, IsFiniteSet(M), M \cap S = {}
    PROVE  Cardinality(S \union M) = Cardinality(S) + 1
<1>1. PICK m : M = {m}
  BY FS_Singleton
<1> QED
  BY <1>1, FS_AddElement

(* The call Android answers was ringing, so nothing was fed back about it;    *)
(* rejecting it is what feedback is about.                                    *)
LEMMA CallDecided ==
    ASSUME TypeOK, FeedbackInv, NEW c \in Calls, call[c] = "ringing",
           call' \in [Calls -> {"ringing", "rejected", "allowed"}],
           \A x \in Calls \ {c} : call'[x] = call[x],
           BlockRows \subseteq BlockRows', UNCHANGED <<confirmedRows, confirmedObs>>,
           health'.rejected = health.rejected,
           \/ UNCHANGED feedback
           \/ \E d \in Deliveries : /\ CallOf[d] = c /\ call'[c] = "rejected"
                                    /\ feedback' = [feedback EXCEPT ![d] = "sent"]
    PROVE  FeedbackInv'
<1>1. \A x \in Deliveries : CallOf[x] = c => feedback[x] = "none"
  BY DEF FeedbackInv
<1>2. \A x \in Deliveries :
         /\ feedback'[x] # "none" => call'[CallOf[x]] = "rejected"
         /\ \/ feedback'[x] = feedback[x]
            \/ feedback[x] = "none" /\ feedback'[x] = "sent"
  BY <1>1, Given DEF FeedbackInv, TypeOK
<1>3. Confirming' = Confirming
  BY <1>2 DEF Confirming
<1>4. \A d \in confirmedRows : d \in BlockRows' /\ call'[CallOf[d]] = "rejected"
  BY Given DEF FeedbackInv, TypeOK
<1>5. health'.rejected + Cardinality(Confirming') <= Cardinality(confirmedRows')
  BY <1>3 DEF FeedbackInv
<1> QED
  BY <1>2, <1>3, <1>4, <1>5 DEF FeedbackInv

(* The UPDATE marks rows of applied blocks of the rejected call, and only the *)
(* feedback that marked exactly one goes on (confirm_screening_rejection).    *)
LEMMA RowConfirmed ==
    ASSUME TypeOK, FeedbackInv, NEW d \in Deliveries, ConfirmRow(d)
    PROVE  FeedbackInv'
<1> DEFINE M == Unconfirmed(CallOf[d])
<1>1. /\ feedback[d] = "sent"
      /\ feedback' = [feedback EXCEPT ![d] = IF Cardinality(M) = 1 THEN "confirmed" ELSE "done"]
      /\ confirmedRows' = confirmedRows \union M
      /\ UNCHANGED <<call, rows, response, confirmedObs, health>>
  BY DEF ConfirmRow, Feedback, Phone, workerVars, observationVars
<1>2. /\ M \subseteq BlockRows /\ M \cap confirmedRows = {} /\ BlockRows \subseteq Deliveries
      /\ \A e \in M : CallOf[e] = CallOf[d]
      /\ feedback \in [Deliveries -> {"none", "sent", "confirmed", "noted", "done"}]
  BY DEF Unconfirmed, BlockRows, TypeOK
<1>3. IsFiniteSet(M) /\ IsFiniteSet(confirmedRows \union M)
  BY <1>2, Finite, ScreeningAssumption, FS_Subset, FS_Union
<1> HIDE DEF M
<1>4. BlockRows' = BlockRows /\ call[CallOf[d]] = "rejected"
  BY <1>1 DEF BlockRows, FeedbackInv
<1>5. \A x \in Deliveries : feedback'[x] # "none" => call'[CallOf[x]] = "rejected"
  BY <1>1, <1>2, <1>4 DEF FeedbackInv
<1>6. \A x \in confirmedRows' : x \in BlockRows' /\ call'[CallOf[x]] = "rejected"
  BY <1>1, <1>2, <1>4 DEF FeedbackInv
<1>7. \A c \in confirmedObs' : \E x \in confirmedRows' : CallOf[x] = c
  BY <1>1 DEF FeedbackInv
<1>8. CASE Cardinality(M) = 1
  <2>1. Confirming' = Confirming \union {d} /\ d \notin Confirming
    BY <1>1, <1>2, <1>8 DEF Confirming
  <2>2. Cardinality(Confirming') = Cardinality(Confirming) + 1
    BY <2>1, Finite, FS_AddElement
  <2>3. Cardinality(confirmedRows') = Cardinality(confirmedRows) + 1
    BY <1>1, <1>2, <1>3, <1>8, Finite, OneMoreRow
  <2>4. health'.rejected + Cardinality(Confirming') <= Cardinality(confirmedRows')
    BY <1>1, <2>2, <2>3, Finite DEF FeedbackInv
  <2>5. PICK m : M = {m}
    BY <1>3, <1>8, FS_Singleton
  <2>6. \A x \in Confirming' : \E e \in confirmedRows' : CallOf[e] = CallOf[x]
    BY <1>1, <1>2, <2>1, <2>5 DEF FeedbackInv, Confirming
  <2> QED
    BY <1>5, <1>6, <1>7, <2>4, <2>6 DEF FeedbackInv
<1>9. CASE Cardinality(M) # 1
  <2>1. Confirming' = Confirming
    BY <1>1, <1>2, <1>9 DEF Confirming
  <2>2. Cardinality(confirmedRows) <= Cardinality(confirmedRows')
    BY <1>1, <1>3, FS_Subset
  <2>3. Cardinality(confirmedRows') \in Nat
    BY <1>1, <1>3, FS_CardinalityType
  <2>4. health'.rejected + Cardinality(Confirming') <= Cardinality(confirmedRows')
    BY <1>1, <2>1, <2>2, <2>3, Finite DEF FeedbackInv
  <2>5. \A x \in Confirming' : \E e \in confirmedRows' : CallOf[e] = CallOf[x]
    BY <1>1, <2>1 DEF FeedbackInv, Confirming
  <2> QED
    BY <1>5, <1>6, <1>7, <2>4, <2>5 DEF FeedbackInv
<1> QED
  BY <1>8, <1>9

(* Feedback that is lost or counted leaves those confirming; each counted one *)
(* has been one of them (screening_feedback).                                 *)
LEMMA FeedbackEnds ==
    ASSUME TypeOK, FeedbackInv, NEW d \in Deliveries, LoseFeedback(d) \/ CountRejection(d)
    PROVE  FeedbackInv'
<1>1. /\ feedback[d] \in {"sent", "confirmed", "noted"}
      /\ feedback' = [feedback EXCEPT ![d] = "done"]
      /\ UNCHANGED <<call, rows, response, confirmedRows, confirmedObs>>
  BY DEF LoseFeedback, CountRejection, Feedback, Phone, workerVars, tableVars, observationVars
<1>2. feedback \in [Deliveries -> {"none", "sent", "confirmed", "noted", "done"}]
  BY DEF TypeOK
<1>3. Confirming' = Confirming \ {d} /\ BlockRows' = BlockRows
  BY <1>1, <1>2 DEF Confirming, BlockRows
<1>4. \A x \in Deliveries :
         /\ feedback'[x] # "none" => call'[CallOf[x]] = "rejected"
         /\ x \in Confirming' => \E e \in confirmedRows' : CallOf[e] = CallOf[x]
  BY <1>1, <1>2, <1>3 DEF FeedbackInv
<1>5. /\ \A x \in confirmedRows' : x \in BlockRows' /\ call'[CallOf[x]] = "rejected"
      /\ \A c \in confirmedObs' : \E x \in confirmedRows' : CallOf[x] = c
  BY <1>1, <1>3 DEF FeedbackInv
<1>6. health'.rejected + Cardinality(Confirming') <= Cardinality(confirmedRows')
  <2>1. CASE LoseFeedback(d)
    <3>1. health' = health
      BY <2>1 DEF LoseFeedback
    <3>2. Cardinality(Confirming') <= Cardinality(Confirming) /\ Cardinality(Confirming') \in Nat
      BY <1>3, Finite, FS_Subset, FS_CardinalityType
    <3> QED
      BY <1>1, <3>1, <3>2, Finite DEF FeedbackInv
  <2>2. CASE CountRejection(d)
    <3>1. health'.rejected = health.rejected + 1
      BY <2>2, CountAdds DEF CountRejection, ZeroHealth
    <3>2. d \in Confirming
      BY <2>2 DEF CountRejection, Feedback, Confirming
    <3>3. Cardinality(Confirming') = Cardinality(Confirming) - 1
      BY <1>3, <3>2, Finite, FS_RemoveElement
    <3> QED
      BY <1>1, <3>1, <3>3, Finite DEF FeedbackInv
  <2> QED
    BY <2>1, <2>2
<1> QED
  BY <1>4, <1>5, <1>6 DEF FeedbackInv

(* Every step keeps confirmations true (confirm_actual_rejection). *)
LEMMA FeedbackStep ==
    ASSUME TypeOK, TypeOK', UniqueInv, FeedbackInv, [Next]_vars
    PROVE  FeedbackInv'
<1>1. BlockRows \subseteq BlockRows'
  BY RowsKept
<1>2. CASE /\ UNCHANGED <<call, feedback, confirmedRows>> /\ confirmedObs' \subseteq confirmedObs
           /\ health'.rejected = health.rejected
  BY <1>1, <1>2 DEF FeedbackInv, Confirming
<1>3. CASE \E d \in Deliveries : PhoneStep(d)
  <2> PICK d \in Deliveries : PhoneStep(d)
    BY <1>3
  <2>1. CASE Hear(d)
    <3>1. /\ CallOf[d] \in Calls /\ call[CallOf[d]] = "ringing"
          /\ UNCHANGED <<confirmedRows, confirmedObs>> /\ health' = health
          /\ call' \in [Calls -> {"ringing", "rejected", "allowed"}]
          /\ \A x \in Calls \ {CallOf[d]} : call'[x] = call[x]
      BY <2>1, Given DEF Hear, tableVars, observationVars, TypeOK
    <3>2. \/ UNCHANGED feedback
          \/ /\ call'[CallOf[d]] = "rejected"
             /\ feedback' = [feedback EXCEPT ![d] = "sent"]
      BY <2>1, <3>1 DEF Hear, TypeOK
    <3> QED
      BY <1>1, <3>1, <3>2, CallDecided
  <2>2. CASE LoseFeedback(d) \/ CountRejection(d)
    BY <2>2, FeedbackEnds
  <2>3. CASE ConfirmRow(d)
    BY <2>3, RowConfirmed
  <2>4. CASE ConfirmObservation(d)
    <3>1. /\ feedback[d] = "confirmed" /\ feedback' = [feedback EXCEPT ![d] = "noted"]
          /\ UNCHANGED <<call, confirmedRows, health>>
          /\ confirmedObs' \subseteq confirmedObs \union {CallOf[d]}
      BY <2>4 DEF ConfirmObservation, Feedback, tableVars
    <3>2. Confirming' = Confirming /\ d \in Confirming
      BY <3>1 DEF Confirming, TypeOK
    <3>3. \A x \in Deliveries :
             /\ feedback'[x] # "none" => call'[CallOf[x]] = "rejected"
             /\ x \in Confirming' => \E e \in confirmedRows' : CallOf[e] = CallOf[x]
      BY <3>1, <3>2 DEF FeedbackInv, TypeOK
    <3>4. \A x \in confirmedRows' : x \in BlockRows' /\ call'[CallOf[x]] = "rejected"
      BY <1>1, <3>1 DEF FeedbackInv
    <3>5. \A c \in confirmedObs' : \E x \in confirmedRows' : CallOf[x] = c
      BY <3>1, <3>2 DEF FeedbackInv
    <3>6. health'.rejected + Cardinality(Confirming') <= Cardinality(confirmedRows')
      BY <3>1, <3>2 DEF FeedbackInv
    <3> QED
      BY <3>3, <3>4, <3>5, <3>6 DEF FeedbackInv
  <2> QED
    BY <2>1, <2>2, <2>3, <2>4 DEF PhoneStep
<1>4. CASE \E c \in Calls : GiveUp(c)
  <2> PICK c \in Calls : GiveUp(c)
    BY <1>4
  <2>1. /\ call[c] = "ringing" /\ UNCHANGED <<feedback, confirmedRows, confirmedObs, health>>
        /\ call' \in [Calls -> {"ringing", "rejected", "allowed"}]
        /\ \A x \in Calls \ {c} : call'[x] = call[x]
    BY DEF GiveUp, tableVars, observationVars, TypeOK
  <2> QED
    BY <1>1, <2>1, CallDecided
<1>5. CASE Restart
  <2>1. /\ UNCHANGED <<call, confirmedRows, confirmedObs>> /\ health'.rejected = 0
        /\ Confirming' = {}
        /\ \A x \in Deliveries : feedback'[x] # "none" => feedback[x] # "none"
    BY <1>5 DEF Restart, tableVars, observationVars, ZeroHealth, Confirming
  <2>2. health'.rejected + Cardinality(Confirming') <= Cardinality(confirmedRows')
    BY <2>1, Finite, FS_EmptySet
  <2> QED
    BY <1>1, <2>1, <2>2 DEF FeedbackInv
<1> QED
  BY <1>2, <1>3, <1>4, <1>5, OnlyPhone

--------------------------------------------------------------------------------
(* The counters.                                                              *)

Refused    == {d \in Deliveries : phase[d] = "rejected"}
Entering   == Due("received")
Concluding == Due("screened")
Closing    == Due("processed") \union Due("failed")

(* Only workers and what they owe count requests; feedback counts rejections, *)
(* and a restart starts from zero.                                            *)
LEMMA OnlyWorkersCount ==
    ASSUME [Next]_vars
    PROVE  \/ \E d \in Deliveries : WorkerMove(d)
           \/ \E d \in Deliveries : CountNext(d)
           \/ /\ UNCHANGED <<phase, owed, restarts>>
              /\ health' = health \/ Count("rejected")
           \/ Restart
<1>1. CASE \E d \in Deliveries : AnalysisStep(d)
  BY <1>1 DEF AnalysisStep, Observe, FailObserve, Evaluate, UpdateOutcome, RefuseNumber,
              FailAnalysis, Analysis, workerVars, boundVars
<1>2. CASE \E d \in Deliveries : PhoneStep(d)
  BY <1>2 DEF PhoneStep, Hear, LoseFeedback, ConfirmRow, ConfirmObservation, CountRejection,
              Feedback, Phone, workerVars, boundVars
<1>3. CASE \E c \in Calls : GiveUp(c) \/ Forget(c)
  BY <1>3 DEF GiveUp, Phone, Forget, workerVars, boundVars
<1>4. CASE \E w \in Reloaders : LoadConfig(w) \/ AssignService(w) \/ AssignProcessor(w)
  BY <1>4 DEF LoadConfig, AssignService, AssignProcessor, Reload, workerVars, boundVars
<1>5. CASE SwitchEmergency \/ \E c \in Configs : SaveConfig(c)
  BY <1>5 DEF SwitchEmergency, SaveConfig, Change, workerVars
<1>6. CASE CleanUpElsewhere
  BY <1>6 DEF CleanUpElsewhere, workerVars, boundVars
<1>7. CASE UNCHANGED vars
  BY <1>7 DEF vars, workerVars, boundVars
<1> QED
  BY <1>1, <1>2, <1>3, <1>4, <1>5, <1>6, <1>7 DEF Next, WorkerMove

(* What a worker's step makes of its phase and of what it owes.               *)
LEMMA WorkerOwes ==
    ASSUME TypeOK, NEW d \in Deliveries, WorkerMove(d)
    PROVE  /\ owed[d] = <<>> /\ health' = health /\ restarts' = restarts
           /\ \A e \in Deliveries \ {d} : owed'[e] = owed[e] /\ phase'[e] = phase[e]
           /\ \/ phase[d] = "new" /\ phase'[d] = "answered" /\ owed'[d] = Refusing
              \/ phase[d] = "new" /\ phase'[d] = "received" /\ owed'[d] = Arriving
              \/ phase[d] = "received" /\ phase'[d] = "rejected" /\ owed'[d] = Refusing
              \/ /\ phase[d] = "recording" /\ phase'[d] = "answered"
                 /\ owed'[d] = Failing \/ owed'[d] = Finishing
              \/ phase[d] \in Working /\ phase'[d] \in Working /\ owed'[d] = <<>>
<1>1. phase \in [Deliveries -> Phases] /\ owed \in [Deliveries -> Seq(WorkerCounters)]
  BY DEF TypeOK, Phases
<1>2. owed[d] = <<>> /\ health' = health /\ restarts' = restarts
  BY DEF WorkerMove, RejectReplay, Accept, WorkerStep, FailValidation, PassPersisted,
         RejectPersisted, SkipDisabled, StartAnalysis, CollectResult, TimeOut, ReadEmergency,
         FindDisabled, FindEnabled, Revalidate, Persist, FailPersist, Record, Worker, boundVars
<1>3. \A e \in Deliveries \ {d} : phase'[e] = phase[e]
  BY MoveInHand
<1>4. CASE RejectReplay(d)
  BY <1>1, <1>2, <1>3, <1>4 DEF RejectReplay, RejectPolicy, Owe, Worker, Refusing
<1>5. CASE Accept(d)
  BY <1>1, <1>2, <1>3, <1>5 DEF Accept, Owe, Worker, Arriving
<1>6. CASE RejectPersisted(d)
  BY <1>1, <1>2, <1>3, <1>6 DEF RejectPersisted, RejectPolicy, Owe, Worker, Refusing
<1>7. CASE Record(d)
  <2>1. Owe(d, Failing) \/ Owe(d, Finishing)
    BY <1>7 DEF Record, Failing, Finishing
  <2> QED
    BY <1>1, <1>2, <1>3, <1>7, <2>1 DEF Record, Owe, Worker
<1>8. CASE FailValidation(d) \/ PassPersisted(d) \/ SkipDisabled(d) \/ StartAnalysis(d)
               \/ CollectResult(d) \/ TimeOut(d) \/ ReadEmergency(d) \/ FindDisabled(d)
               \/ FindEnabled(d) \/ Revalidate(d) \/ Persist(d) \/ FailPersist(d)
  <2>1. owed' = owed
    BY <1>8 DEF FailValidation, PassPersisted, SkipDisabled, StartAnalysis, CollectResult,
                TimeOut, ReadEmergency, FindDisabled, FindEnabled, Revalidate, Persist,
                FailPersist
  <2>2. phase[d] \in Working /\ phase'[d] \in Working
    BY <1>1, <1>8 DEF FailValidation, PassPersisted, SkipDisabled, StartAnalysis, CollectResult,
                TimeOut, ReadEmergency, FindDisabled, FindEnabled, Revalidate, Persist,
                FailPersist, Worker, Working
  <2> QED
    BY <1>2, <1>3, <2>1, <2>2
<1> QED
  BY <1>4, <1>5, <1>6, <1>7, <1>8 DEF WorkerMove, WorkerStep

(* What an increment makes of what a worker owes.                             *)
LEMMA CountOwes ==
    ASSUME TypeOK, OwedInv, NEW d \in Deliveries, CountNext(d)
    PROVE  /\ phase' = phase /\ restarts' = restarts /\ owed[d] # <<>>
           /\ \A e \in Deliveries \ {d} : owed'[e] = owed[e]
           /\ Count(Head(owed[d]))
           /\ \/ /\ phase[d] = "received"
                 /\ \/ owed[d] = Arriving /\ owed'[d] = Arrived
                    \/ owed[d] = Arrived /\ owed'[d] = <<>>
              \/ /\ phase[d] \in {"answered", "rejected"}
                 /\ \/ owed[d] = Refusing /\ owed'[d] = Refusing3
                    \/ owed[d] = Refusing3 /\ owed'[d] = Failing
                    \/ owed[d] = Failing /\ owed'[d] = Failed
                    \/ owed[d] = Failed /\ owed'[d] = <<>>
                    \/ owed[d] = Finishing /\ owed'[d] = Finished
                    \/ owed[d] = Finished /\ owed'[d] = <<>>
<1>1. /\ phase' = phase /\ restarts' = restarts /\ owed[d] # <<>> /\ Count(Head(owed[d]))
      /\ owed' = [owed EXCEPT ![d] = Tail(owed[d])]
  BY DEF CountNext, Owe, boundVars
<1>2. \/ owed[d] \in {Arriving, Arrived} /\ phase[d] = "received"
      \/ /\ owed[d] \in {Refusing, Refusing3, Failing, Failed, Finishing, Finished}
         /\ phase[d] \in {"answered", "rejected"}
  BY <1>1 DEF OwedInv
<1>3. owed'[d] = Tail(owed[d]) /\ \A e \in Deliveries \ {d} : owed'[e] = owed[e]
  BY <1>1 DEF TypeOK
<1> QED
  BY <1>1, <1>2, <1>3, Debts

(* Workers owe nothing but what their last step counts.                       *)
LEMMA OwedStep ==
    ASSUME TypeOK, OwedInv, [Next]_vars
    PROVE  OwedInv'
<1>1. CASE \E d \in Deliveries : WorkerMove(d)
  BY <1>1, WorkerOwes DEF OwedInv
<1>2. CASE \E d \in Deliveries : CountNext(d)
  BY <1>2, CountOwes DEF OwedInv
<1>3. CASE UNCHANGED <<phase, owed, restarts>>
  BY <1>3 DEF OwedInv
<1>4. CASE Restart
  BY <1>4 DEF Restart, OwedInv
<1> QED
  BY <1>1, <1>2, <1>3, <1>4, OnlyWorkersCount

(* The numbers that are balanced. *)
LEMMA Numbers ==
    ASSUME TypeOK
    PROVE  /\ IsFiniteSet(Entering) /\ IsFiniteSet(Concluding) /\ IsFiniteSet(Closing)
           /\ IsFiniteSet(Occupied) /\ IsFiniteSet(Refused)
           /\ health.incoming \in Nat /\ health.received \in Nat /\ health.screened \in Nat
           /\ health.processed \in Nat /\ health.failed \in Nat
<1>1. /\ Entering \subseteq Deliveries /\ Concluding \subseteq Deliveries
      /\ Closing \subseteq Deliveries /\ Occupied \subseteq Deliveries
      /\ Refused \subseteq Deliveries
  BY DEF Entering, Concluding, Closing, Due, Occupied, InHand, Refused
<1>2. /\ IsFiniteSet(Entering) /\ IsFiniteSet(Concluding) /\ IsFiniteSet(Closing)
      /\ IsFiniteSet(Occupied) /\ IsFiniteSet(Refused)
  BY <1>1, ScreeningAssumption, FS_Subset
<1> QED
  BY <1>2 DEF TypeOK, ZeroHealth

(* A set that changes by one element changes its size by one.                 *)
LEMMA OneChanges ==
    ASSUME NEW S, IsFiniteSet(S), NEW T, NEW d, T \ {d} = S \ {d}
    PROVE  /\ Cardinality(S) \in Nat /\ Cardinality(T) \in Nat
           /\ (d \in S <=> d \in T) => Cardinality(T) = Cardinality(S)
           /\ d \notin S /\ d \in T => Cardinality(T) = Cardinality(S) + 1
           /\ d \in S /\ d \notin T => Cardinality(T) = Cardinality(S) - 1
<1>1. CASE d \in S <=> d \in T
  <2>1. T = S
    BY <1>1
  <2> QED
    BY <1>1, <2>1, FS_CardinalityType
<1>2. CASE d \notin S /\ d \in T
  <2>1. T = S \union {d}
    BY <1>2
  <2> QED
    BY <1>2, <2>1, FS_AddElement, FS_CardinalityType
<1>3. CASE d \in S /\ d \notin T
  <2>1. T = S \ {d}
    BY <1>3
  <2> QED
    BY <1>3, <2>1, FS_RemoveElement, FS_CardinalityType
<1> QED
  BY <1>1, <1>2, <1>3

(* What one delivery does to a set that is counted, when the others rest.     *)
LEMMA Tallies ==
    ASSUME TypeOK, NEW d \in Deliveries,
           \A e \in Deliveries \ {d} : owed'[e] = owed[e] /\ phase'[e] = phase[e]
    PROVE  /\ Entering' \ {d} = Entering \ {d} /\ Concluding' \ {d} = Concluding \ {d}
           /\ Closing' \ {d} = Closing \ {d} /\ Occupied' \ {d} = Occupied \ {d}
           /\ Refused' \ {d} = Refused \ {d}
<1>1. Entering' \ {d} = Entering \ {d}
  BY DEF Entering, Due
<1>2. Concluding' \ {d} = Concluding \ {d}
  BY DEF Concluding, Due
<1>3. Closing' \ {d} = Closing \ {d}
  BY DEF Closing, Due
<1>4. Occupied' \ {d} = Occupied \ {d} /\ Refused' \ {d} = Refused \ {d}
  BY DEF Occupied, InHand, Refused
<1> QED
  BY <1>1, <1>2, <1>3, <1>4

(* Where a delivery is counted.                                               *)
LEMMA Counted ==
    ASSUME NEW d \in Deliveries
    PROVE  /\ d \in Entering <=> owed[d] # <<>> /\ Head(owed[d]) = "received"
           /\ d \in Concluding <=> owed[d] # <<>> /\ Head(owed[d]) = "screened"
           /\ d \in Closing <=> owed[d] # <<>> /\ Head(owed[d]) \in {"processed", "failed"}
           /\ d \in Occupied <=> phase[d] \in Working /\ owed[d] = <<>>
           /\ d \in Refused <=> phase[d] = "rejected"
BY DEF Entering, Concluding, Closing, Due, Occupied, InHand, Refused

(* ... and where after a step.                                                *)
LEMMA CountedNext ==
    ASSUME NEW d \in Deliveries
    PROVE  /\ d \in Entering' <=> owed'[d] # <<>> /\ Head(owed'[d]) = "received"
           /\ d \in Concluding' <=> owed'[d] # <<>> /\ Head(owed'[d]) = "screened"
           /\ d \in Closing' <=> owed'[d] # <<>> /\ Head(owed'[d]) \in {"processed", "failed"}
           /\ d \in Occupied' <=> phase'[d] \in Working /\ owed'[d] = <<>>
           /\ d \in Refused' <=> phase'[d] = "rejected"
BY DEF Entering, Concluding, Closing, Due, Occupied, InHand, Refused

(* The balance, in the names used here.                                       *)
LEMMA Balance ==
    /\ ScreeningCountersBalance <=>
          /\ health.incoming = health.received + Cardinality(Entering)
          /\ health.screened = health.processed + health.failed + Cardinality(Closing)
          /\ restarts = 0 => health.received = health.screened + Cardinality(Concluding)
                                 + Cardinality(Occupied) + Cardinality(Refused)
BY DEF ScreeningCountersBalance, Entering, Concluding, Closing, Refused

(* A worker's step keeps the balance: what it counts is owed.                 *)
LEMMA WorkerCounts ==
    ASSUME TypeOK, ScreeningCountersBalance, NEW d \in Deliveries, WorkerMove(d)
    PROVE  ScreeningCountersBalance'
<1> DEFINE Entry == Cardinality(Entering)
           Out == Cardinality(Concluding)
           End == Cardinality(Closing)
           Hand == Cardinality(Occupied)
           Ref == Cardinality(Refused)
<1>1. /\ health.incoming = health.received + Entry
      /\ health.screened = health.processed + health.failed + End
      /\ restarts = 0 => health.received = health.screened + Out + Hand + Ref
  BY Balance
<1>2. /\ owed[d] = <<>> /\ health' = health /\ restarts' = restarts
      /\ \A e \in Deliveries \ {d} : owed'[e] = owed[e] /\ phase'[e] = phase[e]
      /\ \/ phase[d] = "new" /\ phase'[d] = "answered" /\ owed'[d] = Refusing
         \/ phase[d] = "new" /\ phase'[d] = "received" /\ owed'[d] = Arriving
         \/ phase[d] = "received" /\ phase'[d] = "rejected" /\ owed'[d] = Refusing
         \/ /\ phase[d] = "recording" /\ phase'[d] = "answered"
            /\ owed'[d] = Failing \/ owed'[d] = Finishing
         \/ phase[d] \in Working /\ phase'[d] \in Working /\ owed'[d] = <<>>
  BY WorkerOwes
<1>3. /\ Entering' \ {d} = Entering \ {d} /\ Concluding' \ {d} = Concluding \ {d}
      /\ Closing' \ {d} = Closing \ {d} /\ Occupied' \ {d} = Occupied \ {d}
      /\ Refused' \ {d} = Refused \ {d}
  BY <1>2, Tallies
<1>4. d \notin Entering /\ d \notin Concluding /\ d \notin Closing
  BY <1>2, Counted
<1>5. d \notin Entering' /\ d \notin Closing'
  BY <1>2, CountedNext, Debts
<1>6. Entry' = Entry /\ End' = End
  BY <1>3, <1>4, <1>5, Numbers, OneChanges
<1>7. /\ Entry \in Nat /\ Out \in Nat /\ End \in Nat /\ Hand \in Nat /\ Ref \in Nat
      /\ Out' \in Nat /\ Hand' \in Nat /\ Ref' \in Nat
  BY <1>3, Numbers, OneChanges
<1>8. \/ Out' = Out /\ Hand' = Hand /\ Ref' = Ref
      \/ Out' = Out /\ Hand' = Hand - 1 /\ Ref' = Ref + 1
      \/ Out' = Out + 1 /\ Hand' = Hand - 1 /\ Ref' = Ref
  <2>1. CASE /\ phase[d] = "new"
             /\ \/ phase'[d] = "answered" /\ owed'[d] = Refusing
                \/ phase'[d] = "received" /\ owed'[d] = Arriving
    <3>1. d \notin Occupied /\ d \notin Refused
      BY <2>1, Counted DEF Working
    <3>2. d \notin Concluding' /\ d \notin Occupied' /\ d \notin Refused'
      BY <2>1, CountedNext, Debts DEF Working
    <3>3. Out' = Out /\ Hand' = Hand /\ Ref' = Ref
      BY <1>3, <1>4, <3>1, <3>2, Numbers, OneChanges
    <3> QED
      BY <3>3
  <2>2. CASE phase[d] = "received" /\ phase'[d] = "rejected" /\ owed'[d] = Refusing
    <3>1. d \in Occupied /\ d \notin Refused
      BY <1>2, <2>2, Counted DEF Working
    <3>2. d \notin Concluding' /\ d \notin Occupied' /\ d \in Refused'
      BY <2>2, CountedNext, Debts DEF Working
    <3>3. Out' = Out /\ Hand' = Hand - 1 /\ Ref' = Ref + 1
      BY <1>3, <1>4, <3>1, <3>2, Numbers, OneChanges
    <3> QED
      BY <3>3
  <2>3. CASE /\ phase[d] = "recording" /\ phase'[d] = "answered"
             /\ owed'[d] = Failing \/ owed'[d] = Finishing
    <3>1. d \in Occupied /\ d \notin Refused
      BY <1>2, <2>3, Counted DEF Working
    <3>2. d \in Concluding' /\ d \notin Occupied' /\ d \notin Refused'
      BY <2>3, CountedNext, Debts DEF Working
    <3>3. Out' = Out + 1 /\ Hand' = Hand - 1 /\ Ref' = Ref
      BY <1>3, <1>4, <3>1, <3>2, Numbers, OneChanges
    <3> QED
      BY <3>3
  <2>4. CASE phase[d] \in Working /\ phase'[d] \in Working /\ owed'[d] = <<>>
    <3>1. d \in Occupied /\ d \notin Refused
      BY <1>2, <2>4, Counted DEF Working
    <3>2. d \notin Concluding' /\ d \in Occupied' /\ d \notin Refused'
      BY <2>4, CountedNext DEF Working
    <3>3. Out' = Out /\ Hand' = Hand /\ Ref' = Ref
      BY <1>3, <1>4, <3>1, <3>2, Numbers, OneChanges
    <3> QED
      BY <3>3
  <2> QED
    BY <1>2, <2>1, <2>2, <2>3, <2>4
<1> HIDE DEF Entry, Out, End, Hand, Ref
<1>9. /\ health'.incoming = health'.received + Entry'
      /\ health'.screened = health'.processed + health'.failed + End'
  BY <1>1, <1>2, <1>6
<1>10. ASSUME restarts' = 0
       PROVE  health'.received = health'.screened + Out' + Hand' + Ref'
  <2>1. health.received = health.screened + Out + Hand + Ref /\ health' = health
    BY <1>1, <1>2, <1>10
  <2>2. health.screened \in Nat
    BY Numbers
  <2>3. health.received = health.screened + Out' + Hand' + Ref'
    <3>1. CASE Out' = Out /\ Hand' = Hand /\ Ref' = Ref
      BY <2>1, <3>1
    <3>2. CASE Out' = Out /\ Hand' = Hand - 1 /\ Ref' = Ref + 1
      <4>1. health.screened + Out + Hand + Ref = health.screened + Out + (Hand - 1) + (Ref + 1)
        BY <1>7, <2>2
      <4> QED
        BY <2>1, <3>2, <4>1
    <3>3. CASE Out' = Out + 1 /\ Hand' = Hand - 1 /\ Ref' = Ref
      BY <1>7, <2>1, <2>2, <3>3
    <3> QED
      BY <1>8, <3>1, <3>2, <3>3
  <2> QED
    BY <2>1, <2>3
<1> QED
  BY <1>9, <1>10 DEF ScreeningCountersBalance, Entry, Out, End, Hand, Ref, Entering, Concluding,
                     Closing, Refused

(* An increment keeps the balance: the next one is owed, or the worker goes   *)
(* on.                                                                        *)
LEMMA IncrementCounts ==
    ASSUME TypeOK, OwedInv, ScreeningCountersBalance, NEW d \in Deliveries, CountNext(d)
    PROVE  ScreeningCountersBalance'
<1> DEFINE Entry == Cardinality(Entering)
           Out == Cardinality(Concluding)
           End == Cardinality(Closing)
           Hand == Cardinality(Occupied)
           Ref == Cardinality(Refused)
<1>1. /\ health.incoming = health.received + Entry
      /\ health.screened = health.processed + health.failed + End
      /\ restarts = 0 => health.received = health.screened + Out + Hand + Ref
  BY Balance
<1>2. /\ phase' = phase /\ restarts' = restarts /\ owed[d] # <<>>
      /\ \A e \in Deliveries \ {d} : owed'[e] = owed[e]
      /\ Count(Head(owed[d]))
      /\ \/ /\ phase[d] = "received"
            /\ \/ owed[d] = Arriving /\ owed'[d] = Arrived
               \/ owed[d] = Arrived /\ owed'[d] = <<>>
         \/ /\ phase[d] \in {"answered", "rejected"}
            /\ \/ owed[d] = Refusing /\ owed'[d] = Refusing3
               \/ owed[d] = Refusing3 /\ owed'[d] = Failing
               \/ owed[d] = Failing /\ owed'[d] = Failed
               \/ owed[d] = Failed /\ owed'[d] = <<>>
               \/ owed[d] = Finishing /\ owed'[d] = Finished
               \/ owed[d] = Finished /\ owed'[d] = <<>>
  BY CountOwes
<1>3. /\ Entering' \ {d} = Entering \ {d} /\ Concluding' \ {d} = Concluding \ {d}
      /\ Closing' \ {d} = Closing \ {d} /\ Occupied' \ {d} = Occupied \ {d}
      /\ Refused' \ {d} = Refused \ {d}
  BY <1>2, Tallies
<1>4. Ref' = Ref /\ d \notin Occupied
  BY <1>2, Counted DEF Refused
<1>5. /\ Entry \in Nat /\ Out \in Nat /\ End \in Nat /\ Hand \in Nat /\ Ref \in Nat
      /\ health.incoming \in Nat /\ health.received \in Nat /\ health.screened \in Nat
      /\ health.processed \in Nat /\ health.failed \in Nat
  BY <1>3, Numbers, OneChanges
<1>6. SUFFICES /\ health'.incoming = health'.received + Entry'
               /\ health'.screened = health'.processed + health'.failed + End'
               /\ restarts = 0 => health'.received = health'.screened + Out' + Hand' + Ref'
  BY <1>2 DEF ScreeningCountersBalance, Entering, Concluding, Closing, Refused
<1>7. CASE Head(owed[d]) = "incoming"
  <2>1. d \notin Entering /\ d \notin Concluding /\ d \notin Closing
    BY <1>7, Counted
  <2>2. d \in Entering' /\ d \notin Concluding' /\ d \notin Closing' /\ d \notin Occupied'
    BY <1>2, <1>7, CountedNext, Debts, ZenonT(60)
  <2>3. Entry' = Entry + 1 /\ Out' = Out /\ End' = End /\ Hand' = Hand
    BY <1>3, <1>4, <2>1, <2>2, Numbers, OneChanges
  <2>4. /\ health'.incoming = health.incoming + 1 /\ health'.received = health.received
        /\ health'.screened = health.screened /\ health'.processed = health.processed
        /\ health'.failed = health.failed
    BY <1>2, <1>7, CountAdds DEF ZeroHealth
  <2> HIDE DEF Entry, Out, End, Hand, Ref
  <2>5. health'.incoming = health'.received + Entry'
    <3>1. health'.incoming = health.received + Entry + 1
      BY <1>1, <2>4
    <3>2. health.received + Entry + 1 = health.received + (Entry + 1)
      BY <1>5
    <3> QED
      BY <2>3, <2>4, <3>1, <3>2
  <2>6. health'.screened = health'.processed + health'.failed + End'
    BY <1>1, <1>5, <2>3, <2>4
  <2>7. restarts = 0 => health'.received = health'.screened + Out' + Hand' + Ref'
    BY <1>1, <1>4, <1>5, <2>3, <2>4
  <2> QED
    BY <2>5, <2>6, <2>7
<1>8. CASE Head(owed[d]) = "received"
  <2>1. d \in Entering /\ d \notin Concluding /\ d \notin Closing
    BY <1>2, <1>8, Counted
  <2>2. /\ d \notin Entering' /\ d \notin Closing'
        /\ \/ d \in Concluding' /\ d \notin Occupied'
           \/ d \notin Concluding' /\ d \in Occupied'
    BY <1>2, <1>8, CountedNext, Debts DEF Working
  <2>3. /\ Entry' = Entry - 1 /\ End' = End
        /\ \/ Out' = Out + 1 /\ Hand' = Hand
           \/ Out' = Out /\ Hand' = Hand + 1
    BY <1>3, <1>4, <2>1, <2>2, Numbers, OneChanges
  <2>4. /\ health'.incoming = health.incoming /\ health'.received = health.received + 1
        /\ health'.screened = health.screened /\ health'.processed = health.processed
        /\ health'.failed = health.failed
    BY <1>2, <1>8, CountAdds DEF ZeroHealth
  <2> HIDE DEF Entry, Out, End, Hand, Ref
  <2>5. health'.incoming = health'.received + Entry'
    BY <1>1, <1>5, <2>3, <2>4
  <2>6. health'.screened = health'.processed + health'.failed + End'
    BY <1>1, <1>5, <2>3, <2>4
  <2>7. restarts = 0 => health'.received = health'.screened + Out' + Hand' + Ref'
    BY <1>1, <1>4, <1>5, <2>3, <2>4
  <2> QED
    BY <2>5, <2>6, <2>7
<1>9. CASE Head(owed[d]) = "screened"
  <2>1. d \notin Entering /\ d \in Concluding /\ d \notin Closing
    BY <1>2, <1>9, Counted
  <2>2. d \notin Entering' /\ d \notin Concluding' /\ d \in Closing' /\ d \notin Occupied'
    BY <1>2, <1>9, CountedNext, Debts
  <2>3. Entry' = Entry /\ Out' = Out - 1 /\ End' = End + 1 /\ Hand' = Hand
    BY <1>3, <1>4, <2>1, <2>2, Numbers, OneChanges
  <2>4. /\ health'.incoming = health.incoming /\ health'.received = health.received
        /\ health'.screened = health.screened + 1 /\ health'.processed = health.processed
        /\ health'.failed = health.failed
    BY <1>2, <1>9, CountAdds DEF ZeroHealth
  <2> HIDE DEF Entry, Out, End, Hand, Ref
  <2>5. health'.incoming = health'.received + Entry'
    BY <1>1, <1>5, <2>3, <2>4
  <2>6. health'.screened = health'.processed + health'.failed + End'
    BY <1>1, <1>5, <2>3, <2>4
  <2>7. restarts = 0 => health'.received = health'.screened + Out' + Hand' + Ref'
    BY <1>1, <1>4, <1>5, <2>3, <2>4
  <2> QED
    BY <2>5, <2>6, <2>7
<1>10. CASE Head(owed[d]) \in {"processed", "failed"}
  <2>1. d \notin Entering /\ d \notin Concluding /\ d \in Closing
    BY <1>2, <1>10, Counted
  <2>2. d \notin Entering' /\ d \notin Concluding' /\ d \notin Closing' /\ d \notin Occupied'
    BY <1>2, <1>10, CountedNext, Debts DEF Working
  <2>3. Entry' = Entry /\ Out' = Out /\ End' = End - 1 /\ Hand' = Hand
    BY <1>3, <1>4, <2>1, <2>2, Numbers, OneChanges
  <2>4. /\ health'.incoming = health.incoming /\ health'.received = health.received
        /\ health'.screened = health.screened
    BY <1>2, <1>10, CountAdds DEF ZeroHealth
  <2>5. \/ health'.processed = health.processed + 1 /\ health'.failed = health.failed
        \/ health'.processed = health.processed /\ health'.failed = health.failed + 1
    BY <1>2, <1>10, CountAdds DEF ZeroHealth
  <2> HIDE DEF Entry, Out, End, Hand, Ref
  <2>6. health'.incoming = health'.received + Entry'
    BY <1>1, <1>5, <2>3, <2>4
  <2>7. health'.screened = health'.processed + health'.failed + End'
    BY <1>1, <1>5, <2>3, <2>4, <2>5
  <2>8. restarts = 0 => health'.received = health'.screened + Out' + Hand' + Ref'
    BY <1>1, <1>4, <1>5, <2>3, <2>4
  <2> QED
    BY <2>6, <2>7, <2>8
<1> QED
  BY <1>2, <1>7, <1>8, <1>9, <1>10, Debts

(* No step unbalances the counters (record_screening, _reject_ipc_policy). *)
LEMMA CountersStep ==
    ASSUME TypeOK, OwedInv, ScreeningCountersBalance, [Next]_vars
    PROVE  ScreeningCountersBalance'
<1>1. CASE \E d \in Deliveries : WorkerMove(d)
  BY <1>1, WorkerCounts
<1>2. CASE \E d \in Deliveries : CountNext(d)
  BY <1>2, IncrementCounts
<1>3. CASE /\ UNCHANGED <<phase, owed, restarts>>
           /\ health' = health \/ Count("rejected")
  <2>1. /\ health'.incoming = health.incoming /\ health'.received = health.received
        /\ health'.screened = health.screened /\ health'.failed = health.failed
        /\ health'.processed = health.processed
    BY <1>3, CountAdds DEF ZeroHealth
  <2> QED
    BY <1>3, <2>1 DEF ScreeningCountersBalance, Due, Occupied, InHand
<1>4. CASE Restart
  <2>1. health' = ZeroHealth /\ restarts' # 0
    BY <1>4, ScreeningAssumption DEF Restart, TypeOK
  <2>2. Due("received")' = {} /\ (Due("processed") \union Due("failed"))' = {}
    BY <1>4 DEF Restart, Due
  <2> QED
    BY <2>1, <2>2, FS_EmptySet DEF ScreeningCountersBalance, ZeroHealth
<1> QED
  BY <1>1, <1>2, <1>3, <1>4, OnlyWorkersCount

--------------------------------------------------------------------------------
(* The theorems.                                                              *)

(* Before the first request everything holds. *)
LEMMA ScreeningInit == Init => ScreeningInv
<1> SUFFICES ASSUME Init
             PROVE  ScreeningInv
  OBVIOUS
<1>1. TypeOK
  <2>1. saved \in Configs /\ cfg \in Configs /\ processorCfg \in Configs
        /\ health \in [DOMAIN ZeroHealth -> Nat] /\ changes \in 0..MaxChanges
        /\ restarts \in 0..MaxRestarts /\ owed \in [Deliveries -> Seq(WorkerCounters)]
    BY ScreeningAssumption, DebtsType DEF Init, ZeroHealth
  <2> QED
    BY <2>1 DEF Init, TypeOK
<1>2. InHand = {} /\ Refused = {} /\ Confirming = {} /\ confirmedRows = {} /\ rows = {}
  BY DEF Init, InHand, Refused, Confirming, Working
<1>3. HandInv /\ DraftInv /\ UniqueInv /\ ScreenedOnce
  BY <1>2 DEF Init, HandInv, DraftInv, UniqueInv, ScreenedOnce, Undrafted, Drafted
<1>4. AnalysisInv /\ BlockInv
  BY DEF Init, AnalysisInv, BlockInv, Blocking, DecidedBlock
<1>5. FeedbackInv
  BY <1>2, FS_EmptySet DEF Init, FeedbackInv, ZeroHealth
<1>6. ScreeningCountersBalance
  <2>1. /\ Due("received") = {} /\ Due("screened") = {} /\ Occupied = {} /\ Refused = {}
        /\ Due("processed") \union Due("failed") = {}
    BY <1>2 DEF Init, Due, Occupied
  <2>2. /\ health.incoming = 0 /\ health.received = 0 /\ health.screened = 0
        /\ health.processed = 0 /\ health.failed = 0
    BY DEF Init, ZeroHealth
  <2> QED
    BY <2>1, <2>2, FS_EmptySet DEF ScreeningCountersBalance, Refused
<1>7. OwedInv
  BY DEF Init, OwedInv
<1> QED
  BY <1>1, <1>3, <1>4, <1>5, <1>6, <1>7 DEF ScreeningInv

(* Every step keeps the invariant. *)
LEMMA ScreeningStep == ScreeningInv /\ [Next]_vars => ScreeningInv'
<1> SUFFICES ASSUME ScreeningInv, [Next]_vars
             PROVE  ScreeningInv'
  OBVIOUS
<1> USE DEF ScreeningInv
<1>1. TypeOK'
  BY TypeStep
<1>2. HandInv' /\ DraftInv' /\ AnalysisInv'
  BY HandStep, DraftStep, AnalysisStepKeeps
<1>3. UniqueInv' /\ ScreenedOnce'
  BY UniqueStep
<1>4. BlockInv'
  BY BlockStep
<1>5. FeedbackInv'
  BY <1>1, FeedbackStep
<1>6. OwedInv' /\ ScreeningCountersBalance'
  BY OwedStep, CountersStep
<1> QED
  BY <1>1, <1>2, <1>3, <1>4, <1>5, <1>6

(* The inductive invariant: types, who holds which request, what is drafted,  *)
(* decided, observed, stored, confirmed and counted.                          *)
THEOREM ScreeningInvariant == Spec => []ScreeningInv
BY ScreeningInit, ScreeningStep, PTL DEF Spec

(* Type correctness of the screening path. *)
THEOREM ScreeningTypes == Spec => []TypeOK
<1>1. ScreeningInv => TypeOK
  BY DEF ScreeningInv
<1> QED
  BY <1>1, ScreeningInvariant, PTL

(* A request id gets at most one row that is not of a malformed request,      *)
(* however often it is sent, whatever the cache forgets and whenever the      *)
(* daemon restarts (check_and_store, _screening_request_seen).                *)
THEOREM OncePerRequest == Spec => []ScreenedOnce
<1>1. ScreeningInv => ScreenedOnce
  BY DEF ScreeningInv
<1> QED
  BY <1>1, ScreeningInvariant, PTL

(* A row marked actually_rejected is an applied BLOCK of a call Android       *)
(* rejected, and the counter never runs ahead of the table                    *)
(* (screening_feedback, confirm_screening_rejection).                         *)
THEOREM TrueConfirmations == Spec => []ConfirmationsAreTrue
<1>1. ScreeningInv => ConfirmationsAreTrue
  <2> SUFFICES ASSUME ScreeningInv
               PROVE  health.rejected <= Cardinality(confirmedRows)
    BY DEF ScreeningInv, FeedbackInv, ConfirmationsAreTrue
  <2>1. TypeOK /\ health.rejected + Cardinality(Confirming) <= Cardinality(confirmedRows)
    BY DEF ScreeningInv, FeedbackInv
  <2> QED
    BY <2>1, Finite
<1> QED
  BY <1>1, ScreeningInvariant, PTL

(* A stored BLOCK is a BLOCK in the behavior table too, unless its            *)
(* observation was pruned or another analysis of the same id decided ALLOW    *)
(* (update_outcome, _cleanup_locked).                                         *)
THEOREM ObservedBlocks == Spec => []BlocksAreObserved
<1>1. ScreeningInv => BlocksAreObserved
  <2> SUFFICES ASSUME ScreeningInv, NEW d \in BlockRows
               PROVE  Settled(d)
    BY DEF BlocksAreObserved, Overruled, Settled
  <2>1. d \in Deliveries /\ response[d] \in Response /\ response[d].applied = "BLOCK"
    BY DEF ScreeningInv, TypeOK, UniqueInv, BlockRows
  <2>2. Blocking(d)
    BY <2>1, Given DEF Blocking
  <2> QED
    BY <2>1, <2>2 DEF ScreeningInv, BlockInv
<1> QED
  BY <1>1, ScreeningInvariant, PTL

(* The counters of requests balance in every state, also between two          *)
(* increments of a worker, for any number of deliveries and workers           *)
(* (HealthMonitor, _handle_screening_request, _reject_ipc_policy).            *)
THEOREM ScreeningCounted == Spec => []ScreeningCountersBalance
<1>1. ScreeningInv => ScreeningCountersBalance
  BY DEF ScreeningInv
<1> QED
  BY <1>1, ScreeningInvariant, PTL

--------------------------------------------------------------------------------
(* What forbids a block from the start of a response to its end.              *)

\* A veto in force all along is seen where it is asked for: the emergency first, then
\* the switch for screening, then the mode.
VetoInv ==
    \A d \in Deliveries :
        /\ Ending(d) => forbidden[d] \subseteq Vetoes
        /\ phase[d] \in {"revalidating", "enabled"} /\ "emergency" \in forbidden[d] =>
              response[d].emergencyOff
        /\ phase[d] = "enabled" => "disabled" \notin forbidden[d]
        /\ phase[d] \in {"validated", "recording", "answered"} /\ forbidden[d] # {} =>
              ~Blocking(d)

(* What is remembered of a veto. *)
LEMMA Remembered ==
    ASSUME Remember, NEW d \in Deliveries
    PROVE  /\ Ending(d)' => forbidden'[d] \subseteq Vetoes'
           /\ Ending(d)' /\ Ending(d) => forbidden'[d] \subseteq forbidden[d]
           /\ phase'[d] = "answered" => forbidden'[d] = forbidden[d]
<1>1. forbidden'[d] = CASE Ending(d)' /\ ~Ending(d)   -> Vetoes'
                       [] Ending(d)' /\ Ending(d)    -> forbidden[d] \intersect Vetoes'
                       [] phase'[d] = "answered"     -> forbidden[d]
                       [] OTHER                      -> {}
  BY DEF Remember
<1>2. phase'[d] = "answered" => ~Ending(d)'
  BY DEF Ending
<1>3. CASE Ending(d)'
  BY <1>1, <1>2, <1>3
<1>4. CASE ~Ending(d)'
  BY <1>1, <1>4
<1> QED
  BY <1>3, <1>4

\* What the invariant says of one delivery after a step.
Heeded(d) ==
    /\ Ending(d)' => forbidden'[d] \subseteq Vetoes'
    /\ phase'[d] \in {"revalidating", "enabled"} /\ "emergency" \in forbidden'[d] =>
          response'[d].emergencyOff
    /\ phase'[d] = "enabled" => "disabled" \notin forbidden'[d]
    /\ phase'[d] \in {"validated", "recording", "answered"} /\ forbidden'[d] # {} =>
          ~Blocking(d)'

(* Where the response does not move, no veto is added. *)
LEMMA RestHeeded ==
    ASSUME VetoInv, Remember, NEW d \in Deliveries,
           phase'[d] = phase[d], response'[d] = response[d]
    PROVE  Heeded(d)
<1>1. Ending(d)' <=> Ending(d)
  BY DEF Ending
<1>2. phase'[d] \in {"revalidating", "enabled", "validated", "recording"} => Ending(d)'
  BY DEF Ending
<1>3. phase'[d] \in {"revalidating", "enabled", "validated", "recording", "answered"} =>
         forbidden'[d] \subseteq forbidden[d]
  BY <1>1, <1>2, Remembered
<1>4. Blocking(d)' <=> Blocking(d)
  BY DEF Blocking
<1> QED
  BY <1>3, <1>4, Remembered DEF Heeded, VetoInv

(* A worker that ends a response heeds what was in force all along            *)
(* (_finalize_screening).                                                     *)
LEMMA WorkerHeeds ==
    ASSUME TypeOK, DraftInv, VetoInv, Remember, NEW d \in Deliveries, WorkerMove(d)
    PROVE  Heeded(d)
<1> DEFINE on == [cfg EXCEPT !.enabled = TRUE]
<1>1. /\ phase \in [Deliveries -> Phases]
      /\ response \in [Deliveries -> Response \union {NoResponse}]
      /\ NoResponse \notin Response
  BY Given DEF TypeOK, Phases
<1>2. /\ Ending(d)' => forbidden'[d] \subseteq Vetoes'
      /\ Ending(d)' /\ Ending(d) => forbidden'[d] \subseteq forbidden[d]
      /\ phase'[d] = "answered" => forbidden'[d] = forbidden[d]
      /\ Ending(d) => forbidden[d] \subseteq Vetoes
  BY Remembered DEF VetoInv
<1>3. /\ "emergency" \in Vetoes => emergency
      /\ "disabled" \in Vetoes => ~cfg.enabled
      /\ "dry_run" \in Vetoes => cfg.mode # "ACTIVE"
      /\ Vetoes \subseteq {"emergency", "disabled", "dry_run"}
  BY DEF Vetoes
<1>4. cfg \in Config /\ on \in Config
  BY Given, EnabledConfig DEF TypeOK
<1>5. CASE RejectReplay(d)
  <2>1. ~Blocking(d)'
    BY <1>1, <1>5, FallbacksAllow DEF Allows, Draft, Blocking
  <2>2. phase'[d] = "answered"
    BY <1>1, <1>5 DEF RejectReplay, Worker
  <2> QED
    BY <1>2, <2>1, <2>2 DEF Heeded
<1>6. CASE Accept(d) \/ FailValidation(d) \/ PassPersisted(d) \/ RejectPersisted(d)
              \/ SkipDisabled(d) \/ StartAnalysis(d) \/ CollectResult(d) \/ TimeOut(d)
  <2>1. phase'[d] \in {"received", "finalizing", "fresh", "rejected", "waiting"}
    BY <1>1, <1>6 DEF Accept, FailValidation, PassPersisted, RejectPersisted, SkipDisabled,
                      StartAnalysis, CollectResult, TimeOut, Worker
  <2> QED
    BY <1>2, <2>1 DEF Heeded
<1>7. CASE ReadEmergency(d)
  <2>1. phase[d] = "finalizing" /\ phase'[d] = "revalidating"
    BY <1>1, <1>7 DEF ReadEmergency, Worker
  <2>2. response[d] \in Response
    BY <2>1 DEF DraftInv, Drafted
  <2>3. response'[d].emergencyOff = emergency
    BY <1>1, <1>7, <2>2 DEF ReadEmergency, Draft, Response
  <2>4. Ending(d) /\ Ending(d)'
    BY <2>1 DEF Ending
  <2> QED
    BY <1>2, <1>3, <2>1, <2>3, <2>4 DEF Heeded
<1>8. CASE FindEnabled(d)
  <2>1. /\ phase[d] = "revalidating" /\ phase'[d] = "enabled" /\ response' = response
        /\ cfg.enabled
    BY <1>1, <1>8 DEF FindEnabled, Worker
  <2>2. Ending(d) /\ Ending(d)'
    BY <2>1 DEF Ending
  <2> QED
    BY <1>2, <1>3, <2>1, <2>2 DEF Heeded, VetoInv
<1>9. CASE FindDisabled(d)
  <2>1. /\ phase[d] = "revalidating" /\ phase'[d] = "validated" /\ ~cfg.enabled
        /\ response'[d] = Finalize(response[d], cfg, response[d].emergencyOff)
    BY <1>1, <1>9 DEF FindDisabled, Worker, Draft
  <2>2. response[d] \in Response /\ response[d].emergencyOff \in BOOLEAN
    BY <2>1 DEF DraftInv, Drafted, Response
  <2>3. ~Blocking(d)'
    BY <1>4, <2>1, <2>2, FinalizeType DEF Blocking
  <2> QED
    BY <1>2, <2>1, <2>3 DEF Heeded
<1>10. CASE Revalidate(d)
  <2>1. /\ phase[d] = "enabled" /\ phase'[d] = "validated"
        /\ response'[d] = Finalize(response[d], on, response[d].emergencyOff)
    BY <1>1, <1>10 DEF Revalidate, Worker, Draft
  <2>2. response[d] \in Response /\ response[d].emergencyOff \in BOOLEAN
    BY <2>1 DEF DraftInv, Drafted, Response
  <2>3. on.mode = cfg.mode
    BY <1>4 DEF Config
  <2> HIDE DEF on
  <2>4. Blocking(d)' => cfg.mode = "ACTIVE" /\ ~response[d].emergencyOff
    BY <1>4, <2>1, <2>2, <2>3, FinalizeType DEF Blocking
  <2>5. Ending(d) /\ Ending(d)'
    BY <2>1 DEF Ending
  <2>6. Blocking(d)' => forbidden[d] = {}
    BY <1>2, <1>3, <2>1, <2>4, <2>5 DEF VetoInv
  <2> QED
    BY <1>2, <2>1, <2>5, <2>6 DEF Heeded
<1>11. CASE Persist(d) \/ FailPersist(d) \/ Record(d)
  <2>1. /\ phase[d] \in {"validated", "recording"} /\ phase'[d] \in {"recording", "answered"}
        /\ response' = response
    BY <1>1, <1>11 DEF Persist, FailPersist, Record, Worker
  <2>2. Ending(d) /\ (phase'[d] # "answered" => Ending(d)')
    BY <2>1 DEF Ending
  <2>3. forbidden'[d] \subseteq forbidden[d] /\ (Blocking(d)' <=> Blocking(d))
    BY <1>2, <2>1, <2>2 DEF Blocking
  <2> QED
    BY <1>2, <2>1, <2>3 DEF Heeded, VetoInv
<1> QED
  BY <1>5, <1>6, <1>7, <1>8, <1>9, <1>10, <1>11 DEF WorkerMove, WorkerStep

(* Every step heeds the vetoes of every delivery. *)
LEMMA VetoStep ==
    ASSUME TypeOK, DraftInv, VetoInv, HistoryNext
    PROVE  VetoInv'
<1>1. Next /\ Remember
  BY DEF HistoryNext
<1>2. ASSUME NEW d \in Deliveries PROVE Heeded(d)
  <2>1. CASE WorkerMove(d)
    BY <1>1, <2>1, WorkerHeeds
  <2>2. CASE phase'[d] = phase[d] /\ response'[d] = response[d]
    BY <1>1, <2>2, RestHeeded
  <2>3. CASE phase'[d] = "lost"
    BY <2>3 DEF Heeded, Ending
  <2>4. ASSUME NEW e \in Deliveries, WorkerMove(e), e # d
        PROVE  phase'[d] = phase[d] /\ response'[d] = response[d]
    BY <2>4, MoveInHand
  <2>5. Restart => phase'[d] = "lost" \/ (phase'[d] = phase[d] /\ response'[d] = response[d])
    BY DEF Restart
  <2>6. (\E c \in Calls : Forget(c)) => phase' = phase /\ response' = response
    BY DEF Forget, workerVars
  <2> QED
    BY <1>1, <2>1, <2>2, <2>3, <2>4, <2>5, <2>6, OnlyWorkers
<1> QED
  BY <1>2 DEF VetoInv, Heeded

(* Emergency-off, disabled screening and DRY_RUN, if in force while a         *)
(* response is finalized, keep it from blocking: for any number of reloads    *)
(* and changes at any moment (_finalize_screening).                           *)
THEOREM VetoesPrevail == HistorySpec => []ForbiddenNeverBlocks
<1> DEFINE Inv == ScreeningInv /\ VetoInv
<1>1. HistoryInit => Inv
  <2> SUFFICES ASSUME HistoryInit
               PROVE  VetoInv
    BY ScreeningInit DEF HistoryInit
  <2> QED
    BY DEF HistoryInit, Init, VetoInv, Ending
<1>2. Inv /\ [HistoryNext]_historyVars => Inv'
  <2> SUFFICES ASSUME Inv, [HistoryNext]_historyVars
               PROVE  Inv'
    OBVIOUS
  <2>1. [Next]_vars
    BY DEF HistoryNext, historyVars
  <2>2. ScreeningInv'
    BY <2>1, ScreeningStep
  <2>3. CASE HistoryNext
    BY <2>2, <2>3, VetoStep DEF ScreeningInv
  <2>4. CASE UNCHANGED historyVars
    BY <2>2, <2>4
    DEF historyVars, vars, workerVars, configVars, VetoInv, Ending, Vetoes, Blocking
  <2> QED
    BY <2>3, <2>4
<1>3. Inv => ForbiddenNeverBlocks
  BY DEF VetoInv, ForbiddenNeverBlocks
<1> QED
  BY <1>1, <1>2, <1>3, PTL DEF HistorySpec
================================================================================
