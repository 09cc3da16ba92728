---------------------------- MODULE DecisionProofs ----------------------------
(* What a call is decided on and how: the decision contract, for every set of *)
(* detections, every set of valid configurations and all thresholds; what the *)
(* replay cache remembers, for any lifetime, any number of entries and any    *)
(* requests (the bounds on time and acceptances play no part); and what is    *)
(* said of a number whatever has been recorded of it, for any caps on counts, *)
(* and of the trend of its scores, for histories of any length.               *)
EXTENDS Decisions, Trend, ReplayCache, PolicyLemmas, FiniteSetTheorems, SequenceTheorems,
        WellFoundedInduction, TLAPS

--------------------------------------------------------------------------------
(* The decision contract.                                                     *)

\* What `decide` returns: a response, and BLOCK only when the evidence warrants it.
LEMMA DecideFacts ==
    ASSUME NEW d \in Detection, NEW c \in Config, NEW e \in BOOLEAN
    PROVE  /\ Decide(d, c, e) \in Response
           /\ Consistent(Decide(d, c, e))
           /\ d.reputationError \/ d.intelligenceError =>
                 Decide(d, c, e).recommended = "ALLOW" /\ Decide(d, c, e).applied = "ALLOW"
           /\ Decide(d, c, e).applied = "BLOCK" <=> Warranted(d, c, e)
<1>1. {"REPUTATION_UNAVAILABLE", "INTELLIGENCE_UNAVAILABLE"} \subseteq ReasonCodes
  BY DEF ReasonCodes
<1>2. d.reputationError \in BOOLEAN /\ d.intelligenceError \in BOOLEAN
  BY DEF Detection
<1>3. CASE d.reputationError
  <2>1. Decide(d, c, e) = SafeError(d, c, "REPUTATION_UNAVAILABLE")
    BY <1>3 DEF Decide
  <2>2. ~Warranted(d, c, e)
    BY <1>3 DEF Warranted
  <2> QED
    BY <1>1, <2>1, <2>2, ErrorsAllow DEF Consistent
<1>4. CASE ~d.reputationError /\ d.intelligenceError
  <2>1. Decide(d, c, e) = SafeError(d, c, "INTELLIGENCE_UNAVAILABLE")
    BY <1>4 DEF Decide
  <2>2. ~Warranted(d, c, e)
    BY <1>4 DEF Warranted
  <2> QED
    BY <1>1, <2>1, <2>2, ErrorsAllow DEF Consistent
<1>5. CASE ~d.reputationError /\ ~d.intelligenceError
  <2>1. Decide(d, c, e) = Weigh(d, c, e)
    BY <1>5 DEF Decide
  <2>2. Warranted(d, c, e) <=>
           /\ ~d.whitelisted /\ ~e /\ MeetsThresholds(d, c)
           /\ c.enabled /\ c.mode # "DRY_RUN" /\ c.confirmed
           /\ d.trend # "VOLATILE"
    BY <1>5, ConfigFields DEF Warranted, MeetsThresholds, Modes
  <2> QED
    BY <1>5, <2>1, <2>2, WeighBlocks DEF Consistent
<1> QED
  BY <1>2, <1>3, <1>4, <1>5

--------------------------------------------------------------------------------
(* The inductive invariant.                                                   *)

ContractInv ==
    /\ TypeOK
    /\ decision # NoResponse => Consistent(decision)
    /\ ErrorsFailOpen
    /\ response # NoResponse =>
          /\ Consistent(response)
          /\ response.applied = "BLOCK" => ~response.emergencyOff

\* Before the decision there is nothing the invariant could forbid.
LEMMA ContractInit == Init => ContractInv
BY DEF Init, ContractInv, TypeOK, ErrorsFailOpen

\* Deciding, changing the configuration and finalizing keep the invariant.
LEMMA ContractStep == ContractInv /\ [Next]_vars => ContractInv'
<1> SUFFICES ASSUME ContractInv, [Next]_vars
             PROVE  ContractInv'
  OBVIOUS
<1>1. detection \in Detection /\ config \in Config /\ emergency \in BOOLEAN
  BY ContractAssumption DEF ContractInv, TypeOK
<1>2. CASE Evaluate
  <2>1. decision' = Decide(detection, config, emergency)
        /\ UNCHANGED <<detection, config, emergency, response>> /\ decision = NoResponse
    BY <1>2 DEF Evaluate
  <2>2. /\ decision' \in Response /\ Consistent(decision')
        /\ detection.reputationError \/ detection.intelligenceError =>
              decision'.recommended = "ALLOW" /\ decision'.applied = "ALLOW"
    BY <1>1, <2>1, DecideFacts
  <2>3. response = NoResponse
    BY <2>1 DEF ContractInv, TypeOK
  <2> QED
    BY <2>1, <2>2, <2>3 DEF ContractInv, TypeOK, ErrorsFailOpen
<1>3. CASE Reconfigure
  BY <1>3 DEF Reconfigure, ContractInv, TypeOK, ErrorsFailOpen, Consistent
<1>4. CASE Respond
  <2>1. /\ decision # NoResponse /\ response' = Finalize(decision, config, emergency)
        /\ UNCHANGED <<detection, config, emergency, decision>>
    BY <1>4 DEF Respond
  <2>2. decision \in Response /\ Consistent(decision)
    BY <2>1 DEF ContractInv, TypeOK
  <2>3. /\ response' \in Response /\ Consistent(response')
        /\ response'.applied = "BLOCK" => ~response'.emergencyOff
    BY <1>1, <2>1, <2>2, FinalizeFacts
  <2>4. TypeOK' /\ ErrorsFailOpen'
    BY <2>1, <2>3 DEF ContractInv, TypeOK, ErrorsFailOpen
  <2>5. (decision # NoResponse => Consistent(decision))'
    BY <2>1, <2>2 DEF Consistent
  <2> QED
    BY <2>3, <2>4, <2>5 DEF ContractInv
<1>5. CASE UNCHANGED vars
  BY <1>5 DEF vars, ContractInv, TypeOK, ErrorsFailOpen, Consistent
<1> QED
  BY <1>2, <1>3, <1>4, <1>5 DEF Next

(* The type invariant with what makes a decision and a response consistent    *)
(* (PolicyEngine.decide, DaemonService._finalize_screening).                  *)
THEOREM ContractInvariant == Spec => []ContractInv
BY ContractInit, ContractStep, PTL DEF Spec

(* A decision made without reputation or intelligence allows, whatever the    *)
(* scores, thresholds and configuration (PolicyEngine.decide).                *)
THEOREM FailOpen == Spec => []ErrorsFailOpen
<1>1. ContractInv => ErrorsFailOpen
  BY DEF ContractInv
<1> QED
  BY <1>1, ContractInvariant, PTL

(* add_screening_event refuses no response of _finalize_screening, for all    *)
(* thresholds and scores, also when the configuration or the emergency        *)
(* changed since the decision.                                                *)
THEOREM ResponsesStored == Spec => []ResponsesPersist
<1>1. ContractInv => ResponsesPersist
  BY DEF ContractInv, TypeOK, Response, ResponsesPersist, Persistable, Consistent
<1> QED
  BY <1>1, ContractInvariant, PTL

(* The bridge accepts every response and rejects the call exactly when the    *)
(* daemon applied a BLOCK (ScreeningResponse.isValid, shouldApplyBlock).      *)
THEOREM BridgeUnderstands == Spec => []BridgeAgrees
<1>1. ContractInv => BridgeAgrees
  BY DEF ContractInv, TypeOK, Response, BridgeAgrees, BridgeAccepts, BridgeRejectsCall,
         Consistent
<1> QED
  BY <1>1, ContractInvariant, PTL

(* The database stores and the bridge obeys whatever response the daemon      *)
(* builds.                                                                    *)
THEOREM PartiesAgreed == Spec => []PartiesAgree
<1>1. ResponsesPersist /\ BridgeAgrees => PartiesAgree
  BY DEF PartiesAgree
<1> QED
  BY <1>1, ResponsesStored, BridgeUnderstands, PTL

(* A BLOCK is applied exactly when every condition for one holds, at the      *)
(* decision and again at the response (PolicyEngine.decide,                   *)
(* _finalize_screening).                                                      *)
THEOREM BlocksWarranted == Spec => OnlyWarrantedBlocks
<1> DEFINE A == /\ Evaluate =>
                      (decision'.applied = "BLOCK" <=> Warranted(detection, config, emergency))
                /\ Respond =>
                      (response'.applied = "BLOCK" <=>
                           /\ decision.applied = "BLOCK"
                           /\ config.enabled /\ config.mode = "ACTIVE" /\ ~emergency)
<1>1. ContractInv /\ [Next]_vars => [A]_vars
  <2> SUFFICES ASSUME ContractInv, Next
               PROVE  A
    OBVIOUS
  <2>1. detection \in Detection /\ config \in Config /\ emergency \in BOOLEAN
    BY ContractAssumption DEF ContractInv, TypeOK
  <2>2. Evaluate => (decision'.applied = "BLOCK" <=> Warranted(detection, config, emergency))
    BY <2>1, DecideFacts DEF Evaluate
  <2>3. Respond => decision \in Response /\ Consistent(decision)
    BY DEF Respond, ContractInv, TypeOK
  <2>4. Respond => (response'.applied = "BLOCK" <=>
                       /\ decision.applied = "BLOCK"
                       /\ config.enabled /\ config.mode = "ACTIVE" /\ ~emergency)
    BY <2>1, <2>3, FinalizeFacts DEF Respond
  <2> QED
    BY <2>2, <2>4
<1> QED
  BY <1>1, ContractInvariant, PTL DEF Spec, OnlyWarrantedBlocks

--------------------------------------------------------------------------------
(* The replay cache.                                                          *)

\* Turns are given once, to acceptances that have happened, and only to them.
TurnsFit ==
    /\ \A id \in Ids : turn[id] <= accepted
    /\ \A i, j \in Ids : turn[i] = turn[j] /\ turn[i] # 0 => i = j
    /\ \A id \in held : turn[id] # 0

\* An entry leaves the cache when it has expired or when the entries that are newer fill
\* it: the second is seen from the turns alone.
ReplayInv == ReplayTypeOK /\ TurnsFit /\ CacheBounded /\ RecentIsKnown

--------------------------------------------------------------------------------

\* Ids accepted after one of them have turns of their own in the rest of all turns.
LEMMA NewerFit ==
    ASSUME ReplayTypeOK, TurnsFit, NEW id \in Ids,
           NEW S \in SUBSET held, \A s \in S : turn[s] > turn[id]
    PROVE  Cardinality(S) <= accepted - turn[id]
<1> DEFINE f == [s \in S |-> turn[s]]
           turns == (turn[id] + 1)..accepted
<1>1. turn[id] \in Nat /\ accepted \in Nat /\ turn[id] <= accepted
  BY DEF ReplayTypeOK, TurnsFit
<1>2. IsFiniteSet(turns) /\ Cardinality(turns) = accepted - turn[id]
  <2>1. turn[id] + 1 \in Int /\ accepted \in Int
    BY <1>1
  <2>2. /\ IsFiniteSet(turns)
        /\ Cardinality(turns) =
             IF turn[id] + 1 > accepted THEN 0 ELSE accepted - (turn[id] + 1) + 1
    BY <2>1, FS_Interval
  <2> HIDE DEF turns
  <2> QED
    BY <1>1, <2>2
<1>3. f \in [S -> turns]
  BY <1>1 DEF ReplayTypeOK, TurnsFit
<1>4. \A s, t \in S : f[s] = f[t] => s = t
  BY DEF ReplayTypeOK, TurnsFit
<1>5. f \in Injection(S, turns)
  BY <1>3, <1>4 DEF Injection, IsInjective
<1> QED
  BY <1>2, <1>5, FS_Injection

\* The cache is finite, and so is what has not expired.
LEMMA HeldFinite ==
    ASSUME ReplayTypeOK
    PROVE  /\ IsFiniteSet(held) /\ Cardinality(held) \in Nat
           /\ Unexpired \subseteq held
           /\ IsFiniteSet(Unexpired) /\ Cardinality(Unexpired) \in Nat
           /\ Cardinality(Unexpired) <= Cardinality(held)
<1>1. IsFiniteSet(held)
  BY FS_Subset, ReplayAssumption DEF ReplayTypeOK
<1>2. Unexpired \in SUBSET held
  BY DEF Unexpired
<1> QED
  BY <1>1, <1>2, FS_Subset, FS_CardinalityType

\* An acceptance keeps the types.
LEMMA AcceptTyped ==
    ASSUME ReplayTypeOK, NEW id \in Ids, Accept(id), held' \subseteq held \union {id}
    PROVE  ReplayTypeOK'
<1>1. clock + Lifetime \in Int /\ accepted + 1 \in Nat
  BY ReplayAssumption DEF ReplayTypeOK
<1> QED
  BY <1>1 DEF ReplayTypeOK, Accept

\* An acceptance gives the next turn.
LEMMA AcceptTurns ==
    ASSUME ReplayTypeOK, TurnsFit, NEW id \in Ids, Accept(id), held' \subseteq held \union {id}
    PROVE  TurnsFit'
<1>1. /\ turn' = [turn EXCEPT ![id] = accepted + 1]
      /\ accepted' = accepted + 1
      /\ accepted \in Nat /\ turn \in [Ids -> Nat]
  BY DEF Accept, ReplayTypeOK
<1>2. \A i \in Ids : turn'[i] = IF i = id THEN accepted + 1 ELSE turn[i]
  BY <1>1
<1> QED
  BY <1>1, <1>2 DEF TurnsFit, ReplayTypeOK

\* An id that an acceptance removes has expired or made room.
LEMMA AcceptKnown ==
    ASSUME ReplayInv, NEW id \in Ids, Accept(id),
           NEW gone \in SUBSET Unexpired, held' = (Unexpired \ gone) \union {id},
           \A g \in gone : accepted + 1 - turn[g] >= MaxEntries
    PROVE  RecentIsKnown'
<1> SUFFICES ASSUME NEW i \in Ids, turn'[i] # 0, clock' < expires'[i],
                    accepted' - turn'[i] < MaxEntries
             PROVE  i \in held'
  BY DEF RecentIsKnown
<1>1. CASE i = id
  BY <1>1
<1>2. CASE i # id
  <2>1. turn'[i] = turn[i] /\ expires'[i] = expires[i] /\ clock' = clock /\ accepted' = accepted + 1
    BY <1>2 DEF Accept, ReplayInv, ReplayTypeOK
  <2>2. accepted \in Nat /\ turn[i] \in Nat /\ MaxEntries \in Nat
    BY ReplayAssumption DEF ReplayInv, ReplayTypeOK
  <2>3. accepted - turn[i] < MaxEntries
    BY <2>1, <2>2
  <2>4. i \in held
    BY <2>1, <2>3 DEF ReplayInv, RecentIsKnown
  <2>5. i \in Unexpired
    BY <2>1, <2>4 DEF Unexpired, ReplayInv, ReplayTypeOK
  <2>6. i \notin gone
    BY <2>1, <2>2
  <2> QED
    BY <2>5, <2>6
<1> QED
  BY <1>1, <1>2

--------------------------------------------------------------------------------

\* A request that finds room is stored.
LEMMA StoreKeeps ==
    ASSUME ReplayInv, NEW id \in Ids, Store(id)
    PROVE  ReplayInv'
<1> USE DEF ReplayInv
<1>1. Unexpired \subseteq held /\ IsFiniteSet(Unexpired) /\ Cardinality(Unexpired) \in Nat
  BY HeldFinite
<1>2. held' = Unexpired \union {id} /\ Accept(id) /\ Cardinality(Unexpired) < MaxEntries
  BY DEF Store
<1>3. held' \subseteq held \union {id}
  BY <1>1, <1>2
<1>4. ReplayTypeOK'
  BY <1>2, <1>3, AcceptTyped
<1>5. TurnsFit'
  BY <1>2, <1>3, AcceptTurns
<1>6. CacheBounded'
  <2>1. Cardinality(held') = IF id \in Unexpired THEN Cardinality(Unexpired)
                             ELSE Cardinality(Unexpired) + 1
    BY <1>1, <1>2, FS_AddElement
  <2> QED
    BY <1>1, <1>2, <2>1, ReplayAssumption DEF CacheBounded
<1>7. held' = (Unexpired \ {}) \union {id} /\ {} \in SUBSET Unexpired
  BY <1>2
<1>8. RecentIsKnown'
  BY <1>2, <1>7, AcceptKnown
<1> QED
  BY <1>4, <1>5, <1>6, <1>8

\* A request that finds the cache full takes the place of the oldest.
LEMMA EvictKeeps ==
    ASSUME ReplayInv, NEW id \in Ids, Evict(id)
    PROVE  ReplayInv'
<1> USE DEF ReplayInv
<1>1. /\ Unexpired \subseteq held /\ IsFiniteSet(Unexpired)
      /\ Cardinality(Unexpired) \in Nat /\ Cardinality(held) \in Nat
      /\ Cardinality(Unexpired) <= Cardinality(held)
  BY HeldFinite
<1>2. Accept(id) /\ Cardinality(Unexpired) >= MaxEntries
  BY DEF Evict
<1>3. PICK oldest \in Unexpired :
        /\ \A other \in Unexpired : turn[oldest] <= turn[other]
        /\ held' = (Unexpired \ {oldest}) \union {id}
  BY DEF Evict
<1> DEFINE rest == Unexpired \ {oldest}
<1>4. IsFiniteSet(rest) /\ Cardinality(rest) = Cardinality(Unexpired) - 1
  BY <1>1, FS_RemoveElement
<1>5. held' \subseteq held \union {id}
  BY <1>1, <1>3
<1>6. ReplayTypeOK'
  BY <1>2, <1>5, AcceptTyped
<1>7. TurnsFit'
  BY <1>2, <1>5, AcceptTurns
<1>8. CacheBounded'
  <2> HIDE DEF rest
  <2>1. Cardinality(held') = IF id \in rest THEN Cardinality(rest) ELSE Cardinality(rest) + 1
    <3>1. held' = rest \union {id}
      BY <1>3 DEF rest
    <3> QED
      BY <1>4, <3>1, FS_AddElement
  <2>2. Cardinality(held) <= MaxEntries
    BY DEF CacheBounded
  <2>3. IsFiniteSet(held') /\ Cardinality(held') \in Nat
    BY <1>6, FS_Subset, FS_CardinalityType, ReplayAssumption DEF ReplayTypeOK
  <2> QED
    BY <1>1, <1>4, <2>1, <2>2, <2>3, ReplayAssumption DEF CacheBounded
<1>9. accepted + 1 - turn[oldest] >= MaxEntries
  <2>1. oldest \in Ids /\ rest \in SUBSET held
    BY <1>1, <1>3 DEF ReplayTypeOK
  <2>2. \A s \in rest : turn[s] > turn[oldest]
    BY <1>1, <1>3, <2>1 DEF ReplayTypeOK, TurnsFit
  <2>3. Cardinality(rest) <= accepted - turn[oldest]
    BY <2>1, <2>2, NewerFit
  <2>4. accepted \in Nat /\ turn[oldest] \in Nat /\ MaxEntries \in Nat
    BY <2>1, ReplayAssumption DEF ReplayTypeOK
  <2> QED
    BY <1>1, <1>2, <1>4, <2>3, <2>4
<1>10. RecentIsKnown'
  <2>1. {oldest} \in SUBSET Unexpired /\ \A g \in {oldest} : accepted + 1 - turn[g] >= MaxEntries
    BY <1>9
  <2> QED
    BY <1>2, <1>3, <2>1, AcceptKnown
<1> QED
  BY <1>6, <1>7, <1>8, <1>10

\* A known request changes nothing but what has expired.
LEMMA DuplicateKeeps ==
    ASSUME ReplayInv, NEW id \in Ids, Duplicate(id)
    PROVE  ReplayInv'
<1> USE DEF ReplayInv
<1>1. /\ Unexpired \subseteq held
      /\ Cardinality(Unexpired) \in Nat /\ Cardinality(held) \in Nat
      /\ Cardinality(Unexpired) <= Cardinality(held)
  BY HeldFinite
<1>2. held' = Unexpired /\ UNCHANGED <<clock, time, expires, turn, accepted>>
  BY DEF Duplicate
<1>3. ReplayTypeOK'
  BY <1>1, <1>2 DEF ReplayTypeOK
<1>4. TurnsFit'
  BY <1>1, <1>2 DEF TurnsFit
<1>5. CacheBounded'
  BY <1>1, <1>2, ReplayAssumption DEF CacheBounded
<1>6. RecentIsKnown'
  BY <1>2 DEF RecentIsKnown, Unexpired
<1> QED
  BY <1>3, <1>4, <1>5, <1>6

\* Time lets entries expire.
LEMMA PassKeeps ==
    ASSUME ReplayInv, Pass
    PROVE  ReplayInv'
<1>1. ReplayTypeOK' /\ TurnsFit' /\ CacheBounded'
  BY DEF ReplayInv, Pass, ReplayTypeOK, TurnsFit, CacheBounded
<1>2. RecentIsKnown'
  <2>1. clock' > clock /\ UNCHANGED <<held, expires, turn, accepted>>
    BY DEF ReplayInv, Pass, ReplayTypeOK
  <2> SUFFICES ASSUME NEW i \in Ids, turn[i] # 0, clock' < expires[i],
                      accepted - turn[i] < MaxEntries
               PROVE  i \in held
    BY <2>1 DEF RecentIsKnown
  <2>2. clock < expires[i]
    BY <2>1 DEF ReplayInv, Pass, ReplayTypeOK
  <2> QED
    BY <2>2 DEF ReplayInv, RecentIsKnown
<1> QED
  BY <1>1, <1>2 DEF ReplayInv

\* The empty cache.
LEMMA InitInv == ReplayInit => ReplayInv
<1> SUFFICES ASSUME ReplayInit PROVE ReplayInv
  OBVIOUS
<1>1. ReplayTypeOK /\ TurnsFit /\ RecentIsKnown
  BY DEF ReplayInit, ReplayTypeOK, TurnsFit, RecentIsKnown
<1>2. CacheBounded
  BY FS_EmptySet, ReplayAssumption DEF ReplayInit, CacheBounded
<1> QED
  BY <1>1, <1>2 DEF ReplayInv

\* The inductive invariant the result below follows from.
LEMMA ReplayInvariant == ReplaySpec => []ReplayInv
<1>1. ReplayInv /\ [ReplayNext]_replayVars => ReplayInv'
  <2> SUFFICES ASSUME ReplayInv, [ReplayNext]_replayVars PROVE ReplayInv'
    OBVIOUS
  <2>1. CASE Pass
    BY <2>1, PassKeeps
  <2>2. ASSUME NEW id \in Ids, CheckAndStore(id) PROVE ReplayInv'
    BY <2>2, StoreKeeps, EvictKeeps, DuplicateKeeps DEF CheckAndStore
  <2>3. CASE UNCHANGED replayVars
    BY <2>3 DEF replayVars, ReplayInv, ReplayTypeOK, TurnsFit, CacheBounded, RecentIsKnown
  <2> QED
    BY <2>1, <2>2, <2>3 DEF ReplayNext
<1> QED
  BY <1>1, InitInv, PTL DEF ReplaySpec

\* A request that was accepted and is still fresh is known, but for the exceptions that
\* AcceptedIsKnown names, and the cache keeps its size (ReplayCache.check_and_store).
THEOREM AcceptedKnown == ReplaySpec => []AcceptedIsKnown
<1>1. ReplayInv => AcceptedIsKnown
  <2> SUFFICES ASSUME ReplayInv, NEW id \in Ids,
                      turn[id] # 0, time[id] <= expires[id] - Lifetime,
                      clock < time[id] + Lifetime, accepted - turn[id] < MaxEntries
               PROVE  id \in held
    BY DEF AcceptedIsKnown, ReplayInv
  <2>1. time[id] \in Int /\ clock \in Int /\ expires[id] \in Int /\ Lifetime \in Int
    <3>1. time[id] \in Times
      BY DEF ReplayInv, ReplayTypeOK
    <3>2. time[id] \in Int
      BY <3>1, ReplayAssumption, Zenon
    <3> QED
      BY <3>2, ReplayAssumption DEF ReplayInv, ReplayTypeOK
  <2>2. clock < expires[id]
    BY <2>1
  <2> QED
    BY <2>2 DEF ReplayInv, RecentIsKnown
<1> QED
  BY <1>1, ReplayInvariant, PTL

--------------------------------------------------------------------------------
(* Sums over sets.                                                            *)

\* The order of the natural numbers.
Smaller == {pair \in Nat \X Nat : pair[1] < pair[2]}

\* Some natural numbers have a least one.
LEMMA LeastMember ==
    ASSUME NEW S \in SUBSET Nat, S # {}
    PROVE  \E i \in S : \A j \in S : i <= j
<1>1. IsWellFoundedOn(Smaller, Nat)
  BY NatLessThanWellFounded DEF OpToRel, Smaller
<1>2. PICK i \in S : \A j \in S : ~(<<j, i>> \in Smaller)
  BY <1>1, WFMin
<1>3. ASSUME NEW j \in S PROVE i <= j
  <2>1. i \in Nat /\ j \in Nat /\ ~(<<j, i>> \in Smaller)
    BY <1>2
  <2> QED
    BY <2>1 DEF Smaller
<1> QED
  BY <1>3

\* Of all subsets of a finite set that are no members of F, one is smallest.
LEMMA SmallestSubset ==
    ASSUME NEW S, IsFiniteSet(S), NEW F, ~(SUBSET S \subseteq F)
    PROVE  \E s \in SUBSET S : s \notin F /\ \A x \in s : s \ {x} \in F
<1> DEFINE B == {s \in SUBSET S : s \notin F}
           C == {Cardinality(s) : s \in B}
<1>1. \A s \in SUBSET S : IsFiniteSet(s) /\ Cardinality(s) \in Nat
  BY FS_Subset, FS_CardinalityType
<1>2. C \in SUBSET Nat /\ C # {}
  BY <1>1
<1>3. PICK n \in C : \A m \in C : n <= m
  BY <1>2, LeastMember
<1>4. PICK s \in B : n = Cardinality(s)
  BY <1>3
<1>5. ASSUME NEW x \in s PROVE s \ {x} \in F
  <2>1. Cardinality(s \ {x}) = n - 1 /\ n \in Nat /\ s \ {x} \in SUBSET S
    BY <1>1, <1>4, FS_RemoveElement
  <2>2. s \ {x} \in B => n - 1 \in C
    BY <2>1
  <2> QED
    BY <1>3, <2>1, <2>2
<1> QED
  BY <1>4, <1>5

\* g adds the values of the members of any subset of S.
Adds(S, val, g) ==
    /\ g \in [SUBSET S -> Int]
    /\ g[{}] = 0
    /\ \A s \in SUBSET S : \A x \in s : g[s] = val[x] + g[s \ {x}]

\* Every finite set has such a sum.
LEMMA SumExists ==
    ASSUME NEW S, IsFiniteSet(S), NEW val \in [S -> Int]
    PROVE  \E g : Adds(S, val, g)
<1> DEFINE F == {s \in SUBSET S : \E g : Adds(s, val, g)}
<1>1. SUFFICES ASSUME ~(SUBSET S \subseteq F) PROVE FALSE
  OBVIOUS
<1>2. PICK s \in SUBSET S : s \notin F /\ \A x \in s : s \ {x} \in F
  <2> HIDE DEF F
  <2> QED
    BY <1>1, SmallestSubset
<1>3. CASE s = {}
  <2> DEFINE g == [t \in SUBSET s |-> 0]
  <2>1. Adds(s, val, g)
    BY <1>3 DEF Adds
  <2> HIDE DEF g
  <2> QED
    BY <1>2, <2>1
<1>4. CASE s # {}
  <2>1. PICK a \in s : TRUE
    BY <1>4
  <2>2. PICK h : Adds(s \ {a}, val, h)
    BY <1>2, <2>1
  <2> DEFINE g == [t \in SUBSET s |-> h[t \ {a}] + (IF a \in t THEN val[a] ELSE 0)]
  <2>3. val[a] \in Int /\ \A t \in SUBSET s : t \ {a} \in SUBSET (s \ {a})
    BY <1>2, <2>1
  <2>4. g \in [SUBSET s -> Int]
    BY <2>2, <2>3 DEF Adds
  <2>5. g[{}] = 0
    <3>1. {} \ {a} = {} /\ a \notin {}
      OBVIOUS
    <3> QED
      BY <2>2, <3>1 DEF Adds
  <2>6. ASSUME NEW t \in SUBSET s, NEW x \in t
        PROVE  g[t] = val[x] + g[t \ {x}]
    <3>1. CASE x = a
      <4>1. (t \ {a}) \ {a} = t \ {a} /\ a \in t /\ a \notin t \ {a} /\ t \ {a} \in SUBSET s
        BY <3>1
      <4>2. h[t \ {a}] \in Int
        BY <2>2, <2>3 DEF Adds
      <4>3. g[t] = h[t \ {a}] + val[a]
        BY <4>1
      <4>4. g[t \ {a}] = h[t \ {a}] + 0
        <5>1. g[t \ {a}] = h[(t \ {a}) \ {a}] + 0
          BY <4>1
        <5> QED
          BY <4>1, <5>1
      <4> HIDE DEF g
      <4> QED
        BY <2>3, <3>1, <4>2, <4>3, <4>4
    <3>2. CASE x # a
      <4>1. /\ (t \ {x}) \ {a} = (t \ {a}) \ {x} /\ x \in t \ {a}
            /\ (a \in t \ {x} <=> a \in t) /\ t \ {x} \in SUBSET s
        BY <3>2
      <4>2. h[t \ {a}] = val[x] + h[(t \ {a}) \ {x}]
        BY <2>2, <2>3, <4>1 DEF Adds
      <4>3. val[x] \in Int /\ h[(t \ {a}) \ {x}] \in Int
        BY <1>2, <2>2, <2>3, <4>1 DEF Adds
      <4> DEFINE rest == IF a \in t THEN val[a] ELSE 0
      <4>4. g[t] = h[t \ {a}] + rest
        OBVIOUS
      <4>5. g[t \ {x}] = h[(t \ {a}) \ {x}] + rest
        <5>1. g[t \ {x}] = h[(t \ {x}) \ {a}] + (IF a \in t \ {x} THEN val[a] ELSE 0)
          BY <4>1
        <5> QED
          BY <4>1, <5>1
      <4>6. rest \in Int
        BY <2>3
      <4> HIDE DEF g, rest
      <4> QED
        BY <4>2, <4>3, <4>4, <4>5, <4>6
    <3> QED
      BY <3>1, <3>2
  <2>7. Adds(s, val, g)
    <3> HIDE DEF g
    <3> QED
      BY <2>4, <2>5, <2>6 DEF Adds
  <2> HIDE DEF g
  <2> QED
    BY <1>2, <2>7
<1> QED
  BY <1>3, <1>4

\* The function a fold over S evaluates, and what it returns.
FoldOf(S, val, h) ==
    h = [s \in SUBSET S |->
            IF s = {} THEN 0
            ELSE val[CHOOSE x \in s : TRUE] + h[s \ {CHOOSE x \in s : TRUE}]]

\* It is the sum, in whatever order the members are chosen.
LEMMA FoldIsSum ==
    ASSUME NEW S, IsFiniteSet(S), NEW val \in [S -> Int], NEW g, Adds(S, val, g)
    PROVE  /\ FoldOf(S, val, g)
           /\ \A h : FoldOf(S, val, h) => h[S] = g[S]
<1>1. FoldOf(S, val, g)
  <2>1. ASSUME NEW s \in SUBSET S, s # {}
        PROVE  g[s] = val[CHOOSE x \in s : TRUE] + g[s \ {CHOOSE x \in s : TRUE}]
    <3>1. (CHOOSE x \in s : TRUE) \in s
      BY <2>1
    <3> QED
      BY <3>1 DEF Adds
  <2>2. g = [s \in SUBSET S |-> g[s]] /\ g[{}] = 0
    BY DEF Adds
  <2> QED
    BY <2>1, <2>2 DEF FoldOf
<1>2. ASSUME NEW h, FoldOf(S, val, h) PROVE h[S] = g[S]
  <2> DEFINE F == {s \in SUBSET S : h[s] = g[s]}
  <2>1. SUFFICES ASSUME ~(SUBSET S \subseteq F) PROVE FALSE
    OBVIOUS
  <2>2. PICK s \in SUBSET S : s \notin F /\ \A x \in s : s \ {x} \in F
    <3> HIDE DEF F
    <3> QED
      BY <2>1, SmallestSubset
  <2>3. CASE s = {}
    <3>1. h[{}] = 0 /\ g[{}] = 0
      BY <1>2 DEF Adds, FoldOf
    <3> QED
      BY <2>2, <2>3, <3>1
  <2>4. CASE s # {}
    <3>1. PICK x : x = CHOOSE y \in s : TRUE
      OBVIOUS
    <3>2. x \in s
      BY <2>4, <3>1
    <3>3. h[s] = val[x] + h[s \ {x}]
      BY <1>2, <2>2, <2>4, <3>1 DEF FoldOf
    <3>4. h[s \ {x}] = g[s \ {x}]
      BY <2>2, <3>2
    <3>5. g[s] = val[x] + g[s \ {x}]
      BY <2>2, <3>2 DEF Adds
    <3> QED
      BY <2>2, <3>3, <3>4, <3>5
  <2> QED
    BY <2>3, <2>4
<1> QED
  BY <1>1, <1>2

Seven(f) == f[1] + f[2] + f[3] + f[4] + f[5] + f[6] + f[7]

\* A sum over at most seven members.
LEMMA SevenParts ==
    ASSUME NEW S, NEW val \in [S -> Int], NEW g, Adds(S, val, g),
           NEW x, NEW p, \A i \in 1..7 : p[i] \in BOOLEAN /\ (p[i] => x[i] \in S),
           \A s \in S : \E i \in 1..7 : p[i] /\ s = x[i],
           \A i, j \in 1..7 : x[i] = x[j] => i = j
    PROVE  g[S] = Seven([i \in 1..7 |-> IF p[i] THEN val[x[i]] ELSE 0])
<1> DEFINE First(k) == {s \in S : \E i \in 1..k : p[i] /\ s = x[i]}
           Value(i) == IF p[i] THEN val[x[i]] ELSE 0
<1>1. ASSUME NEW k \in 0..6
      PROVE  g[First(k + 1)] = g[First(k)] + Value(k + 1)
  <2>1. First(k) \in SUBSET S /\ First(k + 1) \in SUBSET S /\ x[k + 1] \notin First(k)
    OBVIOUS
  <2>2. CASE p[k + 1]
    <3>1. x[k + 1] \in First(k + 1) /\ First(k + 1) \ {x[k + 1]} = First(k) /\ x[k + 1] \in S
      BY <2>2
    <3>2. val[x[k + 1]] \in Int /\ g[First(k)] \in Int
      BY <2>1, <3>1 DEF Adds
    <3>3. g[First(k + 1)] = val[x[k + 1]] + g[First(k)]
      <4>1. ASSUME NEW B \in SUBSET S, NEW y \in B PROVE g[B] = val[y] + g[B \ {y}]
        BY DEF Adds
      <4> HIDE DEF First
      <4> QED
        BY <2>1, <3>1, <4>1
    <3> HIDE DEF First
    <3> QED
      BY <2>2, <3>2, <3>3
  <2>3. CASE ~p[k + 1]
    <3>1. First(k + 1) = First(k)
      BY <2>3
    <3>2. g[First(k)] \in Int
      BY <2>1 DEF Adds
    <3> HIDE DEF First
    <3> QED
      BY <2>3, <3>1, <3>2
  <2> QED
    BY <2>2, <2>3
<1>2. First(0) = {} /\ First(7) = S
  OBVIOUS
<1>3. g[{}] = 0 /\ \A i \in 1..7 : Value(i) \in Int
  BY DEF Adds
<1>4. /\ g[First(1)] = g[First(0)] + Value(1) /\ g[First(2)] = g[First(1)] + Value(2)
      /\ g[First(3)] = g[First(2)] + Value(3) /\ g[First(4)] = g[First(3)] + Value(4)
      /\ g[First(5)] = g[First(4)] + Value(5) /\ g[First(6)] = g[First(5)] + Value(6)
      /\ g[First(7)] = g[First(6)] + Value(7)
  <2> HIDE DEF First, Value
  <2>1. \A k \in {0, 1, 2, 3, 4, 5, 6} : g[First(k + 1)] = g[First(k)] + Value(k + 1)
    BY <1>1
  <2> QED
    BY <2>1
<1>5. g[S] = Value(1) + Value(2) + Value(3) + Value(4) + Value(5) + Value(6) + Value(7)
  <2> HIDE DEF First, Value
  <2>1. /\ Value(1) \in Int /\ Value(2) \in Int /\ Value(3) \in Int /\ Value(4) \in Int
        /\ Value(5) \in Int /\ Value(6) \in Int /\ Value(7) \in Int
    BY <1>3
  <2> QED
    BY <1>2, <1>3, <1>4, <2>1
<1> QED
  BY <1>5 DEF Seven

\* The sums of Score and of BaseAndBonus: of the points, of the points weighted by the
\* confidence, and of these again.
PointsOf(s) == IF s.score < 0 THEN -s.score ELSE s.score

\* The first: what Score evaluates is the sum of the scores.
LEMMA ScoreSum ==
    ASSUME NEW S, IsFiniteSet(S), NEW val \in [S -> Int],
           \A s \in S : val[s] = s.score,
           NEW g, Adds(S, val, g)
    PROVE  MapThenSumSet(LAMBDA s : s.score, S) = g[S]
<1> DEFINE Term(s) == s.score
           Is(h) == h = [s \in SUBSET S |->
                            IF s = {} THEN 0
                            ELSE Term(CHOOSE x \in s : TRUE) + h[s \ {CHOOSE x \in s : TRUE}]]
<1>1. MapThenSumSet(LAMBDA s : s.score, S) = (CHOOSE h : Is(h))[S]
  BY DEF MapThenSumSet, MapThenFoldSet
<1>2. \A s \in S : Term(s) = val[s]
  OBVIOUS
<1>3. ASSUME NEW h PROVE Is(h) <=> FoldOf(S, val, h)
  <2>1. ASSUME NEW s \in SUBSET S, s # {}
        PROVE  Term(CHOOSE x \in s : TRUE) = val[CHOOSE x \in s : TRUE]
    <3>1. (CHOOSE x \in s : TRUE) \in s
      BY <2>1
    <3> QED
      BY <1>2, <3>1
  <2> QED
    BY <2>1 DEF FoldOf
<1> HIDE DEF Is
<1>4. PICK h : h = CHOOSE k : Is(k)
  OBVIOUS
<1>5. Is(h)
  BY <1>3, <1>4, FoldIsSum
<1> QED
  BY <1>1, <1>3, <1>4, <1>5, FoldIsSum

\* The weights.
LEMMA WeightSum ==
    ASSUME NEW S, IsFiniteSet(S), NEW val \in [S -> Int],
           \A s \in S : val[s] = PointsOf(s) * s.confidence,
           NEW g, Adds(S, val, g)
    PROVE  MapThenSumSet(LAMBDA s : PointsOf(s) * s.confidence, S) = g[S]
<1> DEFINE Term(s) == PointsOf(s) * s.confidence
           Is(h) == h = [s \in SUBSET S |->
                            IF s = {} THEN 0
                            ELSE Term(CHOOSE x \in s : TRUE) + h[s \ {CHOOSE x \in s : TRUE}]]
<1>1. MapThenSumSet(LAMBDA s : PointsOf(s) * s.confidence, S) = (CHOOSE h : Is(h))[S]
  BY DEF MapThenSumSet, MapThenFoldSet
<1>2. \A s \in S : Term(s) = val[s]
  OBVIOUS
<1>3. ASSUME NEW h PROVE Is(h) <=> FoldOf(S, val, h)
  <2>1. ASSUME NEW s \in SUBSET S, s # {}
        PROVE  Term(CHOOSE x \in s : TRUE) = val[CHOOSE x \in s : TRUE]
    <3>1. (CHOOSE x \in s : TRUE) \in s
      BY <2>1
    <3> QED
      BY <1>2, <3>1
  <2> QED
    BY <2>1 DEF FoldOf
<1> HIDE DEF Is
<1>4. PICK h : h = CHOOSE k : Is(k)
  OBVIOUS
<1>5. Is(h)
  BY <1>3, <1>4, FoldIsSum
<1> QED
  BY <1>1, <1>3, <1>4, <1>5, FoldIsSum

\* The weights times the confidence.
LEMMA TotalSum ==
    ASSUME NEW S, IsFiniteSet(S), NEW val \in [S -> Int],
           \A s \in S : val[s] = PointsOf(s) * s.confidence * s.confidence,
           NEW g, Adds(S, val, g)
    PROVE  MapThenSumSet(LAMBDA s : PointsOf(s) * s.confidence * s.confidence, S) = g[S]
<1> DEFINE Term(s) == PointsOf(s) * s.confidence * s.confidence
           Is(h) == h = [s \in SUBSET S |->
                            IF s = {} THEN 0
                            ELSE Term(CHOOSE x \in s : TRUE) + h[s \ {CHOOSE x \in s : TRUE}]]
<1>1. MapThenSumSet(LAMBDA s : PointsOf(s) * s.confidence * s.confidence, S) = (CHOOSE h : Is(h))[S]
  BY DEF MapThenSumSet, MapThenFoldSet
<1>2. \A s \in S : Term(s) = val[s]
  OBVIOUS
<1>3. ASSUME NEW h PROVE Is(h) <=> FoldOf(S, val, h)
  <2>1. ASSUME NEW s \in SUBSET S, s # {}
        PROVE  Term(CHOOSE x \in s : TRUE) = val[CHOOSE x \in s : TRUE]
    <3>1. (CHOOSE x \in s : TRUE) \in s
      BY <2>1
    <3> QED
      BY <1>2, <3>1
  <2> QED
    BY <2>1 DEF FoldOf
<1> HIDE DEF Is
<1>4. PICK h : h = CHOOSE k : Is(k)
  OBVIOUS
<1>5. Is(h)
  BY <1>3, <1>4, FoldIsSum
<1> QED
  BY <1>1, <1>3, <1>4, <1>5, FoldIsSum

--------------------------------------------------------------------------------
(* The signals of a number that is not on the whitelist.                      *)

Evidence ==
    [black : BOOLEAN, white : BOOLEAN, total : Nat, suspicious : Nat, blocked : Nat,
     recent : Nat, reports : Nat, anomalies : Nat]

\* The seven signals such a number may get, and which of them it gets.
Signalled(w, e) ==
    << Signal("blacklist_match", w.black, 100),
       Signal("previous_block_events", Least(w.blocked, 10 + 5 * Least(e.blocked, 4)),
              Least(90, 50 + 10 * Least(e.blocked, 4))),
       Signal("previous_suspicious_events", Least(w.suspicious, 3 * Least(e.suspicious, 8)),
              Least(85, 40 + 7 * Least(e.suspicious, 8))),
       Signal("rapid_repeat_events", Least(w.rapid, 3 * Least(e.recent, 6)), 65),
       Signal("manual_user_report", Least(w.reports, 8 * Least(e.reports, 6)),
              Least(85, 40 + 15 * Least(e.reports, 4))),
       Signal("reputation_history", w.reputation, 75),
       Signal("number_format_anomaly", Least(w.format, 2 * e.anomalies), 35) >>

There(e) == << e.black, e.blocked # 0, e.suspicious >= 2, e.recent >= 3, e.reports # 0,
               e.black, e.anomalies # 0 >>

\* The signals are those of the seven that are there.
LEMMA SignalsAre ==
    ASSUME NEW w, NEW e \in Evidence, ~e.white
    PROVE  /\ \A i \in 1..7 : There(e)[i] \in BOOLEAN
           /\ \A i \in 1..7 : There(e)[i] => Signalled(w, e)[i] \in Signals(w, e)
           /\ \A s \in Signals(w, e) : \E i \in 1..7 : There(e)[i] /\ s = Signalled(w, e)[i]
           /\ \A i, j \in 1..7 : Signalled(w, e)[i] = Signalled(w, e)[j] => i = j
<1> DEFINE S == Signals(w, e)
           X == Signalled(w, e)
           P == There(e)
<1>1. /\ e.black \in BOOLEAN /\ e.suspicious \in Nat /\ e.blocked \in Nat /\ e.recent \in Nat
      /\ e.reports \in Nat /\ e.anomalies \in Nat
  BY DEF Evidence
<1>2. 1..7 = {1, 2, 3, 4, 5, 6, 7}
  OBVIOUS
<1>3. /\ P[1] = e.black /\ P[2] = (e.blocked # 0) /\ P[3] = (e.suspicious >= 2)
      /\ P[4] = (e.recent >= 3) /\ P[5] = (e.reports # 0) /\ P[6] = e.black
      /\ P[7] = (e.anomalies # 0)
  BY DEF There
<1>4. S = UNION {IF P[1] THEN {X[1]} ELSE {}, IF P[2] THEN {X[2]} ELSE {},
                 IF P[3] THEN {X[3]} ELSE {}, IF P[4] THEN {X[4]} ELSE {},
                 IF P[5] THEN {X[5]} ELSE {}, IF P[6] THEN {X[6]} ELSE {},
                 IF P[7] THEN {X[7]} ELSE {}}
  <2>1. WhitelistSignal(e) = {} /\ ConflictSignal(e) = {}
    BY DEF WhitelistSignal, ConflictSignal
  <2>2. BlacklistSignal(w, e) = IF P[1] THEN {X[1]} ELSE {}
    BY <1>3 DEF BlacklistSignal, Signalled
  <2>3. PreviousBlocks(w, e) = IF P[2] THEN {X[2]} ELSE {}
    <3>1. PreviousBlocks(w, e) = IF e.blocked = 0 THEN {} ELSE {X[2]}
      BY DEF PreviousBlocks, Signalled
    <3> HIDE DEF X, P
    <3> QED
      BY <1>3, <3>1
  <2>4. RepeatedSuspicious(w, e) = IF P[3] THEN {X[3]} ELSE {}
    <3>1. RepeatedSuspicious(w, e) = IF e.suspicious < 2 THEN {} ELSE {X[3]}
      BY DEF RepeatedSuspicious, Signalled
    <3>2. e.suspicious >= 2 <=> ~(e.suspicious < 2)
      BY <1>1
    <3> HIDE DEF X, P
    <3> QED
      BY <1>3, <3>1, <3>2, Zenon
  <2>5. RapidRepeat(w, e) = IF P[4] THEN {X[4]} ELSE {}
    <3>1. RapidRepeat(w, e) = IF e.recent < 3 THEN {} ELSE {X[4]}
      BY DEF RapidRepeat, Signalled
    <3>2. e.recent >= 3 <=> ~(e.recent < 3)
      BY <1>1
    <3> HIDE DEF X, P
    <3> QED
      BY <1>3, <3>1, <3>2, Zenon
  <2>6. UserReports(w, e) = IF P[5] THEN {X[5]} ELSE {}
    BY <1>1, <1>3 DEF UserReports, Signalled
  <2>7. ReputationHistory(w, e) = IF P[6] THEN {X[6]} ELSE {}
    BY <1>3 DEF ReputationHistory, Signalled
  <2>8. FormatAnomaly(w, e) = IF P[7] THEN {X[7]} ELSE {}
    BY <1>1, <1>3 DEF FormatAnomaly, Signalled
  <2> HIDE DEF X, P
  <2> QED
    BY <2>1, <2>2, <2>3, <2>4, <2>5, <2>6, <2>7, <2>8 DEF Signals
<1>5. /\ X[1].name = "blacklist_match" /\ X[2].name = "previous_block_events"
      /\ X[3].name = "previous_suspicious_events" /\ X[4].name = "rapid_repeat_events"
      /\ X[5].name = "manual_user_report" /\ X[6].name = "reputation_history"
      /\ X[7].name = "number_format_anomaly"
  BY DEF Signalled, Signal
<1>6. \A i \in 1..7 : P[i] \in BOOLEAN
  <2>1. /\ P[1] \in BOOLEAN /\ P[2] \in BOOLEAN /\ P[3] \in BOOLEAN /\ P[4] \in BOOLEAN
        /\ P[5] \in BOOLEAN /\ P[6] \in BOOLEAN /\ P[7] \in BOOLEAN
    BY <1>1, <1>3
  <2> HIDE DEF P
  <2> QED
    BY <1>2, <2>1
<1> HIDE DEF S, X, P
<1>7. \A i \in 1..7 : P[i] => X[i] \in S
  BY <1>2, <1>4
<1>8. \A s \in S : \E i \in 1..7 : P[i] /\ s = X[i]
  BY <1>2, <1>4
<1>9. \A i, j \in 1..7 : X[i] = X[j] => i = j
  BY <1>2, <1>5
<1> QED
  BY <1>6, <1>7, <1>8, <1>9 DEF S, X, P

\* The points of each signal, and the terms of the two sums that compute_confidence makes.
Points(w, e) ==
    [i \in 1..7 |-> IF There(e)[i] THEN Signalled(w, e)[i].score ELSE 0]
Weighed(w, e) ==
    [i \in 1..7 |-> IF There(e)[i]
                    THEN Signalled(w, e)[i].score * Signalled(w, e)[i].confidence ELSE 0]
Squared(w, e) ==
    [i \in 1..7 |-> IF There(e)[i]
                    THEN Signalled(w, e)[i].score * Signalled(w, e)[i].confidence
                             * Signalled(w, e)[i].confidence
                    ELSE 0]

\* The weights of a profile.
LEMMA WeightsAre ==
    ASSUME NEW p \in Profiles
    PROVE  /\ Weights[p].black = 80 /\ Weights[p].blocked = 20
           /\ Weights[p].reputation = 10 /\ Weights[p].format = 2
           /\ p = "RELAXED" =>
                Weights[p].suspicious = 15 /\ Weights[p].rapid = 5 /\ Weights[p].reports = 25
           /\ p = "BALANCED" =>
                Weights[p].suspicious = 15 /\ Weights[p].rapid = 10 /\ Weights[p].reports = 25
           /\ p = "STRICT" =>
                Weights[p].suspicious = 20 /\ Weights[p].rapid = 15 /\ Weights[p].reports = 30
BY DEF Profiles, Weights

\* A signal of a and of c hundredths.
Worth(w, e, i, a, c) ==
    /\ Points(w, e)[i] = a
    /\ Weighed(w, e)[i] = a * c
    /\ Squared(w, e)[i] = a * c * c

\* A signal is worth what it says when it is there, and nothing when it is not.
LEMMA Numbers ==
    ASSUME NEW w, NEW e \in Evidence, NEW i \in 1..7
    PROVE  /\ ~There(e)[i] => Worth(w, e, i, 0, 0)
           /\ There(e)[i] => Worth(w, e, i, Signalled(w, e)[i].score,
                                           Signalled(w, e)[i].confidence)
BY DEF Worth, Points, Weighed, Squared

\* What a number on the blacklist gets for it.
LEMMA BlackWorth ==
    ASSUME NEW p \in Profiles, NEW e \in Evidence
    PROVE  \/ ~e.black /\ Worth(Weights[p], e, 1, 0, 0) /\ Worth(Weights[p], e, 6, 0, 0)
           \/ e.black /\ Worth(Weights[p], e, 1, 80, 100) /\ Worth(Weights[p], e, 6, 10, 75)
<1>1. There(e)[1] = e.black /\ There(e)[6] = e.black /\ e.black \in BOOLEAN
  BY DEF There, Evidence
<1>2. /\ Signalled(Weights[p], e)[1].score = 80 /\ Signalled(Weights[p], e)[1].confidence = 100
      /\ Signalled(Weights[p], e)[6].score = 10 /\ Signalled(Weights[p], e)[6].confidence = 75
  BY WeightsAre DEF Signalled, Signal
<1> QED
  BY <1>1, <1>2 DEF Worth, Points, Weighed, Squared

\* What earlier blocks are worth.
LEMMA BlockedWorth ==
    ASSUME NEW p \in Profiles, NEW e \in Evidence
    PROVE  \/ e.blocked = 0 /\ Worth(Weights[p], e, 2, 0, 0)
           \/ e.blocked = 1 /\ Worth(Weights[p], e, 2, 15, 60)
           \/ e.blocked = 2 /\ Worth(Weights[p], e, 2, 20, 70)
           \/ e.blocked = 3 /\ Worth(Weights[p], e, 2, 20, 80)
           \/ e.blocked >= 4 /\ Worth(Weights[p], e, 2, 20, 90)
<1>1. There(e)[2] = (e.blocked # 0) /\ e.blocked \in Nat
  BY DEF There, Evidence
<1> DEFINE score == Signalled(Weights[p], e)[2].score
           confidence == Signalled(Weights[p], e)[2].confidence
<1>2. /\ score = Least(20, 10 + 5 * Least(e.blocked, 4))
      /\ confidence = Least(90, 50 + 10 * Least(e.blocked, 4))
  BY WeightsAre DEF Signalled, Signal
<1>3. \/ e.blocked = 0
      \/ e.blocked = 1 /\ score = 15 /\ confidence = 60
      \/ e.blocked = 2 /\ score = 20 /\ confidence = 70
      \/ e.blocked = 3 /\ score = 20 /\ confidence = 80
      \/ e.blocked >= 4 /\ score = 20 /\ confidence = 90
  <2> HIDE DEF score, confidence
  <2> QED
    BY <1>1, <1>2 DEF Least
<1>4. /\ e.blocked = 0 => Worth(Weights[p], e, 2, 0, 0)
      /\ e.blocked # 0 => Worth(Weights[p], e, 2, score, confidence)
  <2>1. /\ ~There(e)[2] => Worth(Weights[p], e, 2, 0, 0)
        /\ There(e)[2] => Worth(Weights[p], e, 2, score, confidence)
    BY Numbers
  <2> HIDE DEF score, confidence
  <2> QED
    BY <1>1, <2>1, Zenon
<1> HIDE DEF score, confidence
<1> QED
  BY <1>1, <1>3, <1>4

\* What earlier suspicious events are worth.
LEMMA SuspiciousWorth ==
    ASSUME NEW p \in Profiles, NEW e \in Evidence
    PROVE  \/ e.suspicious < 2 /\ Worth(Weights[p], e, 3, 0, 0)
           \/ e.suspicious = 2 /\ Worth(Weights[p], e, 3, 6, 54)
           \/ e.suspicious = 3 /\ Worth(Weights[p], e, 3, 9, 61)
           \/ e.suspicious = 4 /\ Worth(Weights[p], e, 3, 12, 68)
           \/ e.suspicious = 5 /\ Worth(Weights[p], e, 3, 15, 75)
           \/ e.suspicious = 6 /\ p # "STRICT" /\ Worth(Weights[p], e, 3, 15, 82)
           \/ e.suspicious >= 7 /\ p # "STRICT" /\ Worth(Weights[p], e, 3, 15, 85)
           \/ e.suspicious = 6 /\ p = "STRICT" /\ Worth(Weights[p], e, 3, 18, 82)
           \/ e.suspicious >= 7 /\ p = "STRICT" /\ Worth(Weights[p], e, 3, 20, 85)
<1>1. There(e)[3] = (e.suspicious >= 2) /\ e.suspicious \in Nat
  BY DEF There, Evidence
<1> DEFINE score == Signalled(Weights[p], e)[3].score
           confidence == Signalled(Weights[p], e)[3].confidence
<1>2. /\ score = Least(Weights[p].suspicious, 3 * Least(e.suspicious, 8))
      /\ confidence = Least(85, 40 + 7 * Least(e.suspicious, 8))
  BY WeightsAre DEF Signalled, Signal
<1>3. \/ e.suspicious < 2
      \/ e.suspicious = 2 /\ score = 6 /\ confidence = 54
      \/ e.suspicious = 3 /\ score = 9 /\ confidence = 61
      \/ e.suspicious = 4 /\ score = 12 /\ confidence = 68
      \/ e.suspicious = 5 /\ score = 15 /\ confidence = 75
      \/ e.suspicious = 6 /\ p # "STRICT" /\ score = 15 /\ confidence = 82
      \/ e.suspicious >= 7 /\ p # "STRICT" /\ score = 15 /\ confidence = 85
      \/ e.suspicious = 6 /\ p = "STRICT" /\ score = 18 /\ confidence = 82
      \/ e.suspicious >= 7 /\ p = "STRICT" /\ score = 20 /\ confidence = 85
  <2> HIDE DEF score, confidence
  <2>1. CASE p = "RELAXED"
    BY <1>1, <1>2, <2>1, WeightsAre DEF Least, Profiles
  <2>2. CASE p = "BALANCED"
    BY <1>1, <1>2, <2>2, WeightsAre DEF Least, Profiles
  <2>3. CASE p = "STRICT"
    BY <1>1, <1>2, <2>3, WeightsAre DEF Least, Profiles
  <2> QED
    BY <2>1, <2>2, <2>3 DEF Profiles
<1>4. /\ ~(e.suspicious >= 2) => Worth(Weights[p], e, 3, 0, 0)
      /\ e.suspicious >= 2 => Worth(Weights[p], e, 3, score, confidence)
  <2>1. /\ ~There(e)[3] => Worth(Weights[p], e, 3, 0, 0)
        /\ There(e)[3] => Worth(Weights[p], e, 3, score, confidence)
    BY Numbers
  <2> HIDE DEF score, confidence
  <2> QED
    BY <1>1, <2>1, Zenon
<1> HIDE DEF score, confidence
<1> QED
  BY <1>1, <1>3, <1>4

\* What calls in quick succession are worth.
LEMMA RapidWorth ==
    ASSUME NEW p \in Profiles, NEW e \in Evidence
    PROVE  \/ e.recent < 3 /\ Worth(Weights[p], e, 4, 0, 0)
           \/ e.recent >= 3 /\ p = "RELAXED" /\ Worth(Weights[p], e, 4, 5, 65)
           \/ e.recent = 3 /\ p # "RELAXED" /\ Worth(Weights[p], e, 4, 9, 65)
           \/ e.recent >= 4 /\ p = "BALANCED" /\ Worth(Weights[p], e, 4, 10, 65)
           \/ e.recent = 4 /\ p = "STRICT" /\ Worth(Weights[p], e, 4, 12, 65)
           \/ e.recent >= 5 /\ p = "STRICT" /\ Worth(Weights[p], e, 4, 15, 65)
<1>1. There(e)[4] = (e.recent >= 3) /\ e.recent \in Nat
  BY DEF There, Evidence
<1> DEFINE score == Signalled(Weights[p], e)[4].score
           confidence == Signalled(Weights[p], e)[4].confidence
<1>2. /\ score = Least(Weights[p].rapid, 3 * Least(e.recent, 6))
      /\ confidence = 65
  BY WeightsAre DEF Signalled, Signal
<1>3. \/ e.recent < 3
      \/ e.recent >= 3 /\ p = "RELAXED" /\ score = 5 /\ confidence = 65
      \/ e.recent = 3 /\ p # "RELAXED" /\ score = 9 /\ confidence = 65
      \/ e.recent >= 4 /\ p = "BALANCED" /\ score = 10 /\ confidence = 65
      \/ e.recent = 4 /\ p = "STRICT" /\ score = 12 /\ confidence = 65
      \/ e.recent >= 5 /\ p = "STRICT" /\ score = 15 /\ confidence = 65
  <2> HIDE DEF score, confidence
  <2>1. CASE p = "RELAXED"
    BY <1>1, <1>2, <2>1, WeightsAre DEF Least, Profiles
  <2>2. CASE p = "BALANCED"
    BY <1>1, <1>2, <2>2, WeightsAre DEF Least, Profiles
  <2>3. CASE p = "STRICT"
    BY <1>1, <1>2, <2>3, WeightsAre DEF Least, Profiles
  <2> QED
    BY <2>1, <2>2, <2>3 DEF Profiles
<1>4. /\ ~(e.recent >= 3) => Worth(Weights[p], e, 4, 0, 0)
      /\ e.recent >= 3 => Worth(Weights[p], e, 4, score, confidence)
  <2>1. /\ ~There(e)[4] => Worth(Weights[p], e, 4, 0, 0)
        /\ There(e)[4] => Worth(Weights[p], e, 4, score, confidence)
    BY Numbers
  <2> HIDE DEF score, confidence
  <2> QED
    BY <1>1, <2>1, Zenon
<1> HIDE DEF score, confidence
<1> QED
  BY <1>1, <1>3, <1>4

\* What reports are worth.
LEMMA ReportsWorth ==
    ASSUME NEW p \in Profiles, NEW e \in Evidence
    PROVE  \/ e.reports = 0 /\ Worth(Weights[p], e, 5, 0, 0)
           \/ e.reports = 1 /\ Worth(Weights[p], e, 5, 8, 55)
           \/ e.reports = 2 /\ Worth(Weights[p], e, 5, 16, 70)
           \/ e.reports = 3 /\ Worth(Weights[p], e, 5, 24, 85)
           \/ e.reports >= 4 /\ p # "STRICT" /\ Worth(Weights[p], e, 5, 25, 85)
           \/ e.reports >= 4 /\ p = "STRICT" /\ Worth(Weights[p], e, 5, 30, 85)
<1>1. There(e)[5] = (e.reports # 0) /\ e.reports \in Nat
  BY DEF There, Evidence
<1> DEFINE score == Signalled(Weights[p], e)[5].score
           confidence == Signalled(Weights[p], e)[5].confidence
<1>2. /\ score = Least(Weights[p].reports, 8 * Least(e.reports, 6))
      /\ confidence = Least(85, 40 + 15 * Least(e.reports, 4))
  BY WeightsAre DEF Signalled, Signal
<1>3. \/ e.reports = 0
      \/ e.reports = 1 /\ score = 8 /\ confidence = 55
      \/ e.reports = 2 /\ score = 16 /\ confidence = 70
      \/ e.reports = 3 /\ score = 24 /\ confidence = 85
      \/ e.reports >= 4 /\ p # "STRICT" /\ score = 25 /\ confidence = 85
      \/ e.reports >= 4 /\ p = "STRICT" /\ score = 30 /\ confidence = 85
  <2> HIDE DEF score, confidence
  <2>1. CASE p = "RELAXED"
    BY <1>1, <1>2, <2>1, WeightsAre DEF Least, Profiles
  <2>2. CASE p = "BALANCED"
    BY <1>1, <1>2, <2>2, WeightsAre DEF Least, Profiles
  <2>3. CASE p = "STRICT"
    BY <1>1, <1>2, <2>3, WeightsAre DEF Least, Profiles
  <2> QED
    BY <2>1, <2>2, <2>3 DEF Profiles
<1>4. /\ e.reports = 0 => Worth(Weights[p], e, 5, 0, 0)
      /\ e.reports # 0 => Worth(Weights[p], e, 5, score, confidence)
  <2>1. /\ ~There(e)[5] => Worth(Weights[p], e, 5, 0, 0)
        /\ There(e)[5] => Worth(Weights[p], e, 5, score, confidence)
    BY Numbers
  <2> HIDE DEF score, confidence
  <2> QED
    BY <1>1, <2>1, Zenon
<1> HIDE DEF score, confidence
<1> QED
  BY <1>1, <1>3, <1>4

\* What an odd format is worth.
LEMMA FormatWorth ==
    ASSUME NEW p \in Profiles, NEW e \in Evidence
    PROVE  \/ e.anomalies = 0 /\ Worth(Weights[p], e, 7, 0, 0)
           \/ e.anomalies # 0 /\ Worth(Weights[p], e, 7, 2, 35)
<1>1. There(e)[7] = (e.anomalies # 0) /\ e.anomalies \in Nat
  BY DEF There, Evidence
<1> DEFINE score == Signalled(Weights[p], e)[7].score
           confidence == Signalled(Weights[p], e)[7].confidence
<1>2. /\ score = Least(2, 2 * e.anomalies)
      /\ confidence = 35
  BY WeightsAre DEF Signalled, Signal
<1>3. \/ e.anomalies = 0
      \/ e.anomalies # 0 /\ score = 2 /\ confidence = 35
  <2> HIDE DEF score, confidence
  <2> QED
    BY <1>1, <1>2 DEF Least
<1>4. /\ e.anomalies = 0 => Worth(Weights[p], e, 7, 0, 0)
      /\ e.anomalies # 0 => Worth(Weights[p], e, 7, score, confidence)
  <2>1. /\ ~There(e)[7] => Worth(Weights[p], e, 7, 0, 0)
        /\ There(e)[7] => Worth(Weights[p], e, 7, score, confidence)
    BY Numbers
  <2> HIDE DEF score, confidence
  <2> QED
    BY <1>1, <2>1, Zenon
<1> HIDE DEF score, confidence
<1> QED
  BY <1>1, <1>3, <1>4

\* A signal that is there has points and a confidence, and it speaks against the number.
LEMMA SignalsSpeak ==
    ASSUME NEW p \in Profiles, NEW e \in Evidence, ~e.white
    PROVE  /\ IsFiniteSet(Signals(Weights[p], e))
           /\ \A s \in Signals(Weights[p], e) :
                 /\ s.score \in Nat /\ s.score > 0 /\ s.confidence \in Nat
                 /\ s.positive = TRUE
                 /\ s.name \notin {"whitelist_match", "list_conflict"}
<1> DEFINE S == Signals(Weights[p], e)
           X == Signalled(Weights[p], e)
<1>1. /\ \A s \in S : \E i \in 1..7 : There(e)[i] /\ s = X[i]
      /\ 1..7 = {1, 2, 3, 4, 5, 6, 7}
  BY SignalsAre
<1>2. IsFiniteSet(S)
  <2> DEFINE T == {X[i] : i \in 1..7}
             f == [i \in 1..7 |-> X[i]]
  <2>1. f \in Surjection(1..7, T)
    <3> HIDE DEF X
    <3> QED
      BY DEF Surjection
  <2>2. IsFiniteSet(1..7)
    <3>1. \A a, b \in Int : IsFiniteSet(a..b)
      BY FS_Interval
    <3>2. 1 \in Int /\ 7 \in Int
      OBVIOUS
    <3> QED
      BY <3>1, <3>2, Zenon
  <2>3. S \subseteq T
    BY <1>1
  <2> HIDE DEF S, T, f
  <2> QED
    BY <2>1, <2>2, <2>3, FS_Surjection, FS_Subset
<1>3. /\ e.black \in BOOLEAN /\ e.suspicious \in Nat /\ e.blocked \in Nat /\ e.recent \in Nat
      /\ e.reports \in Nat /\ e.anomalies \in Nat
  BY DEF Evidence
<1>4. ASSUME NEW i \in 1..7 
      PROVE  X[i].positive = TRUE /\ X[i].name \notin {"whitelist_match", "list_conflict"}
             /\ X[i].confidence \in Nat
  <2>1. /\ X[1].positive = TRUE /\ X[1].confidence = 100
        /\ X[1].name = "blacklist_match"
    BY DEF Signalled, Signal
  <2>2. /\ X[2].positive = TRUE /\ X[2].confidence = Least(90, 50 + 10 * Least(e.blocked, 4))
        /\ X[2].name = "previous_block_events"
    BY DEF Signalled, Signal
  <2>3. /\ X[3].positive = TRUE /\ X[3].confidence = Least(85, 40 + 7 * Least(e.suspicious, 8))
        /\ X[3].name = "previous_suspicious_events"
    BY DEF Signalled, Signal
  <2>4. /\ X[4].positive = TRUE /\ X[4].confidence = 65
        /\ X[4].name = "rapid_repeat_events"
    BY DEF Signalled, Signal
  <2>5. /\ X[5].positive = TRUE /\ X[5].confidence = Least(85, 40 + 15 * Least(e.reports, 4))
        /\ X[5].name = "manual_user_report"
    BY DEF Signalled, Signal
  <2>6. /\ X[6].positive = TRUE /\ X[6].confidence = 75
        /\ X[6].name = "reputation_history"
    BY DEF Signalled, Signal
  <2>7. /\ X[7].positive = TRUE /\ X[7].confidence = 35
        /\ X[7].name = "number_format_anomaly"
    BY DEF Signalled, Signal
  <2>8. /\ X[2].confidence \in Nat /\ X[3].confidence \in Nat /\ X[5].confidence \in Nat
    BY <1>3, <2>2, <2>3, <2>5 DEF Least
  <2> HIDE DEF X
  <2> QED
    BY <1>1, <2>1, <2>2, <2>3, <2>4, <2>5, <2>6, <2>7, <2>8
<1>5. ASSUME NEW i \in 1..7, There(e)[i] PROVE X[i].score \in Nat /\ X[i].score > 0
  <2>1. X[i].score = Points(Weights[p], e)[i]
    BY <1>5 DEF Points
  <2>2. Points(Weights[p], e)[i] \in Nat /\ Points(Weights[p], e)[i] > 0
    <3>1. CASE i \in {1, 6}
      <4>1. e.black
        BY <1>5, <3>1 DEF There
      <4> QED
        BY <3>1, <4>1, BlackWorth DEF Worth
    <3>2. CASE i = 2
      <4>1. e.blocked # 0
        BY <1>5, <3>2 DEF There
      <4> QED
        BY <1>3, <3>2, <4>1, BlockedWorth DEF Worth
    <3>3. CASE i = 3
      <4>1. e.suspicious >= 2
        BY <1>5, <3>3 DEF There
      <4> QED
        BY <1>3, <3>3, <4>1, SuspiciousWorth DEF Worth
    <3>4. CASE i = 4
      <4>1. e.recent >= 3
        BY <1>5, <3>4 DEF There
      <4> QED
        BY <1>3, <3>4, <4>1, RapidWorth DEF Worth
    <3>5. CASE i = 5
      <4>1. e.reports # 0
        BY <1>5, <3>5 DEF There
      <4> QED
        BY <1>3, <3>5, <4>1, ReportsWorth DEF Worth
    <3>6. CASE i = 7
      <4>1. e.anomalies # 0
        BY <1>5, <3>6 DEF There
      <4> QED
        BY <1>3, <3>6, <4>1, FormatWorth DEF Worth
    <3> QED
      BY <1>1, <3>1, <3>2, <3>3, <3>4, <3>5, <3>6
  <2> QED
    BY <2>1, <2>2
<1> HIDE DEF S, X
<1> QED
  BY <1>1, <1>2, <1>4, <1>5, ZenonT(60) DEF S, X

\* A sum over the signals is one over the seven that may be there.
LEMMA PartsSum ==
    ASSUME NEW p \in Profiles, NEW e \in Evidence, ~e.white,
           NEW val \in [Signals(Weights[p], e) -> Int],
           NEW g, Adds(Signals(Weights[p], e), val, g)
    PROVE  g[Signals(Weights[p], e)] =
             Seven([i \in 1..7 |-> IF There(e)[i] THEN val[Signalled(Weights[p], e)[i]] ELSE 0])
<1> DEFINE S == Signals(Weights[p], e)
           X == Signalled(Weights[p], e)
           P == There(e)
<1>1. /\ \A i \in 1..7 : P[i] \in BOOLEAN /\ (P[i] => X[i] \in S)
      /\ \A s \in S : \E i \in 1..7 : P[i] /\ s = X[i]
      /\ \A i, j \in 1..7 : X[i] = X[j] => i = j
  BY SignalsAre
<1> HIDE DEF S, X, P
<1>2. val \in [S -> Int] /\ Adds(S, val, g)
  BY DEF S
<1>3. g[S] = Seven([i \in 1..7 |-> IF P[i] THEN val[X[i]] ELSE 0])
  BY <1>1, <1>2, SevenParts
<1> QED
  BY <1>3 DEF S, X, P

\* A number on the whitelist has no score, any other the sum of its points.
LEMMA ScoreIs ==
    ASSUME NEW p \in Profiles, NEW e \in Evidence
    PROVE  /\ e.white => Score(Signals(Weights[p], e)) = 0
           /\ ~e.white => Score(Signals(Weights[p], e)) =
                             Clamp(0, 100, Seven(Points(Weights[p], e)))
<1> DEFINE w == Weights[p]
           S == Signals(w, e)
<1>1. CASE e.white
  <2>1. Signal("whitelist_match", -100, 100) \in S
    BY <1>1 DEF Signals, WhitelistSignal
  <2>2. Signal("whitelist_match", -100, 100).name = "whitelist_match"
    BY DEF Signal
  <2> HIDE DEF S
  <2>3. "whitelist_match" \in Names(S)
    BY <2>1, <2>2 DEF Names
  <2> QED
    BY <1>1, <2>3 DEF Score, S
<1>2. CASE ~e.white
  <2> DEFINE val == [s \in S |-> s.score]
  <2>1. /\ IsFiniteSet(S)
        /\ \A s \in S : s.score \in Nat /\ s.name # "whitelist_match"
    BY <1>2, SignalsSpeak
  <2>2. val \in [S -> Int] /\ \A s \in S : val[s] = s.score
    BY <2>1
  <2> HIDE DEF S, val
  <2>3. PICK g : Adds(S, val, g)
    BY <2>1, <2>2, SumExists
  <2>4. MapThenSumSet(LAMBDA s : s.score, S) = g[S]
    BY <2>1, <2>2, <2>3, ScoreSum
  <2>5. g[S] = Seven([i \in 1..7 |-> IF There(e)[i] THEN val[Signalled(w, e)[i]] ELSE 0])
    BY <1>2, <2>2, <2>3, PartsSum DEF S
  <2>6. [i \in 1..7 |-> IF There(e)[i] THEN val[Signalled(w, e)[i]] ELSE 0] = Points(w, e)
    BY <1>2, SignalsAre DEF S, val, Points
  <2>7. "whitelist_match" \notin Names(S)
    BY <2>1 DEF Names
  <2>8. Score(S) = Clamp(0, 100, MapThenSumSet(LAMBDA s : s.score, S))
    BY <2>7 DEF Score
  <2> QED
    BY <1>2, <2>4, <2>5, <2>6, <2>8 DEF S
<1> QED
  BY <1>1, <1>2

\* The confidence in the signals of a number that is not on the whitelist: their mean with
\* a bonus, which counts signals and events and rewards a signal of 80 hundredths or more.
LEMMA ConfidenceIs ==
    ASSUME NEW p \in Profiles, NEW e \in Evidence, ~e.white, Signals(Weights[p], e) # {}
    PROVE  \E bonus \in Nat :
             /\ bonus >= Least(15, 5 * Cardinality(Signals(Weights[p], e))) + Least(10, e.total)
             /\ (\E s \in Signals(Weights[p], e) : s.confidence >= 80) =>
                   bonus >= Least(15, 5 * Cardinality(Signals(Weights[p], e)))
                              + Least(10, e.total) + 15
             /\ Confidence(Signals(Weights[p], e), e.total) =
                   Clamp(5, 99,
                         IF Seven(Weighed(Weights[p], e)) = 0 THEN bonus
                         ELSE Rounded(65 * Seven(Squared(Weights[p], e))
                                        + 100 * Seven(Weighed(Weights[p], e)) * bonus,
                                      100 * Seven(Weighed(Weights[p], e))))
<1> DEFINE w == Weights[p]
           S == Signals(w, e)
           strong == {s \in S : s.confidence >= 80}
           n == Cardinality(S)
           strength == IF strong # {} THEN 10 + 5 * Least(2, Cardinality(strong)) ELSE 0
           bonus == Least(15, 5 * Greatest(n, 0)) + Least(10, e.total) + strength - 0
           weight == MapThenSumSet(LAMBDA s : PointsOf(s) * s.confidence, S)
           total  == MapThenSumSet(LAMBDA s : PointsOf(s) * s.confidence * s.confidence, S)
<1>1. /\ IsFiniteSet(S)
      /\ \A s \in S : /\ s.score \in Nat /\ s.score > 0 /\ s.confidence \in Nat
                      /\ s.positive = TRUE
                      /\ s.name # "whitelist_match" /\ s.name # "list_conflict"
  BY SignalsSpeak
<1>2. weight = Seven(Weighed(w, e))
  <2> DEFINE val == [s \in S |-> s.score * s.confidence]
  <2>1. \A s \in S : s.score * s.confidence \in Int /\ PointsOf(s) = s.score
    BY <1>1 DEF PointsOf
  <2>2. val \in [S -> Int] /\ \A s \in S : val[s] = PointsOf(s) * s.confidence
    BY <2>1
  <2>3. [i \in 1..7 |-> IF There(e)[i] THEN val[Signalled(w, e)[i]] ELSE 0] = Weighed(w, e)
    BY SignalsAre DEF Weighed
  <2> HIDE DEF S, val
  <2>4. PICK g : Adds(S, val, g)
    BY <1>1, <2>2, SumExists
  <2>5. weight = g[S]
    BY <1>1, <2>2, <2>4, WeightSum
  <2> HIDE DEF weight
  <2>6. g[S] = Seven([i \in 1..7 |-> IF There(e)[i] THEN val[Signalled(w, e)[i]] ELSE 0])
    BY <2>2, <2>4, PartsSum DEF S
  <2> QED
    BY <2>3, <2>5, <2>6
<1>3. total = Seven(Squared(w, e))
  <2> DEFINE val == [s \in S |-> s.score * s.confidence * s.confidence]
  <2>1. \A s \in S : s.score * s.confidence * s.confidence \in Int /\ PointsOf(s) = s.score
    BY <1>1 DEF PointsOf
  <2>2. val \in [S -> Int] /\ \A s \in S : val[s] = PointsOf(s) * s.confidence * s.confidence
    BY <2>1
  <2>3. [i \in 1..7 |-> IF There(e)[i] THEN val[Signalled(w, e)[i]] ELSE 0] = Squared(w, e)
    BY SignalsAre DEF Squared
  <2> HIDE DEF S, val
  <2>4. PICK g : Adds(S, val, g)
    BY <1>1, <2>2, SumExists
  <2>5. total = g[S]
    BY <1>1, <2>2, <2>4, TotalSum
  <2> HIDE DEF total
  <2>6. g[S] = Seven([i \in 1..7 |-> IF There(e)[i] THEN val[Signalled(w, e)[i]] ELSE 0])
    BY <2>2, <2>4, PartsSum DEF S
  <2> QED
    BY <2>3, <2>5, <2>6
<1>4. n \in Nat /\ Cardinality(strong) \in Nat /\ e.total \in Nat
      /\ (strong # {} => Cardinality(strong) >= 1)
  <2>1. strong \in SUBSET S
    OBVIOUS
  <2> HIDE DEF S, strong
  <2>2. IsFiniteSet(strong) /\ n \in Nat /\ Cardinality(strong) \in Nat
    BY <1>1, <2>1, FS_Subset, FS_CardinalityType
  <2>3. strong # {} => Cardinality(strong) # 0
    BY <2>2, FS_EmptySet
  <2>4. e.total \in Nat
    BY DEF Evidence
  <2> QED
    BY <2>2, <2>3, <2>4
<1>5. /\ bonus \in Nat
      /\ bonus >= Least(15, 5 * n) + Least(10, e.total)
      /\ strong # {} => bonus >= Least(15, 5 * n) + Least(10, e.total) + 15
  <2> HIDE DEF n, strong
  <2> QED
    BY <1>4 DEF Least, Greatest
<1>6. BaseAndBonus(S, bonus) = IF weight = 0 THEN bonus
                               ELSE Rounded(65 * total + 100 * weight * bonus, 100 * weight)
  <2> HIDE DEF S, bonus
  <2> QED
    BY DEF BaseAndBonus, PointsOf
<1>7. Confidence(S, e.total) = Clamp(5, 99, BaseAndBonus(S, bonus))
  <2>1. /\ {s \in S : s.positive /\ s.score > 0} = S
        /\ {s \in S : ~s.positive \/ s.score < 0} = {}
        /\ S \union {} = S /\ {s \in {} : s.confidence >= 80} = {}
    BY <1>1
  <2>2. "list_conflict" \notin Names(S)
    BY <1>1 DEF Names
  <2>3. Cardinality({}) = 0
    BY FS_EmptySet
  <2> HIDE DEF S
  <2> QED
    BY <2>1, <2>2, <2>3, ZenonT(60) DEF Confidence, S
<1> HIDE DEF weight, total, bonus, S
<1> QED
  BY <1>2, <1>3, <1>5, <1>6, <1>7 DEF strong, n, S

\* Bounds of the points.
LEMMA PointsRange ==
    ASSUME NEW p \in Profiles, NEW e \in Evidence
    PROVE  /\ Points(Weights[p], e)[1] \in {0, 80} /\ Points(Weights[p], e)[2] \in 0..20
           /\ Points(Weights[p], e)[3] \in 0..20 /\ Points(Weights[p], e)[4] \in 0..15
           /\ Points(Weights[p], e)[5] \in 0..30 /\ Points(Weights[p], e)[6] \in {0, 10}
           /\ Points(Weights[p], e)[7] \in 0..2
<1>1. Points(Weights[p], e)[1] \in {0, 80} /\ Points(Weights[p], e)[6] \in {0, 10}
  BY BlackWorth DEF Worth
<1>2. Points(Weights[p], e)[2] \in 0..20
  BY BlockedWorth DEF Worth
<1>3. Points(Weights[p], e)[3] \in 0..20
  BY SuspiciousWorth DEF Worth
<1>4. Points(Weights[p], e)[4] \in 0..15
  BY RapidWorth DEF Worth
<1>5. Points(Weights[p], e)[5] \in 0..30
  BY ReportsWorth DEF Worth
<1>6. Points(Weights[p], e)[7] \in 0..2
  BY FormatWorth DEF Worth
<1> QED
  BY <1>1, <1>2, <1>3, <1>4, <1>5, <1>6

\* A score is one, and what an analysis returns besides.
LEMMA AnalyzedIs ==
    ASSUME NEW p \in Profiles, NEW e \in Evidence
    PROVE  /\ Analyzed(p, e).score = Score(Signals(Weights[p], e))
           /\ Analyzed(p, e).score \in 0..100
           /\ Analyzed(p, e).confidence = Confidence(Signals(Weights[p], e), e.total)
           /\ Analyzed(p, e).verdict =
                 Verdict(Thresholds[p], e.white, e.black /\ ~e.white, Analyzed(p, e).score)
           /\ Analyzed(p, e).action =
                 Action(Thresholds[p], Analyzed(p, e).verdict, Analyzed(p, e).score,
                        Analyzed(p, e).confidence)
<1>1. Score(Signals(Weights[p], e)) \in 0..100
  <2>1. CASE e.white
    BY <2>1, ScoreIs
  <2>2. CASE ~e.white
    <3>1. Seven(Points(Weights[p], e)) \in Int
      <4>1. PICK f : f = Points(Weights[p], e)
        OBVIOUS
      <4>2. /\ f[1] \in Int /\ f[2] \in Int /\ f[3] \in Int /\ f[4] \in Int
            /\ f[5] \in Int /\ f[6] \in Int /\ f[7] \in Int
        BY <4>1, PointsRange
      <4>3. Seven(f) \in Int
        BY <4>2 DEF Seven
      <4> QED
        BY <4>1, <4>3
    <3> QED
      BY <2>2, <3>1, ScoreIs DEF Clamp, Greatest, Least
  <2> QED
    BY <2>1, <2>2
<1> QED
  BY <1>1 DEF Analyzed

--------------------------------------------------------------------------------
(* What the history can be.                                                   *)

\* Each event is counted, and a suspicious one has had a reason the user gave or a block.
HistoryInv ==
    /\ HistoryTypeOK
    /\ evidence.suspicious <= evidence.total
    /\ evidence.reports = 0 /\ evidence.blocked = 0 => evidence.suspicious = 0

\* The types, without the caps.
LEMMA HistoryTyped ==
    ASSUME HistoryTypeOK
    PROVE  profile \in Profiles /\ evidence \in Evidence
BY CapsAssumption DEF HistoryTypeOK, Evidence

\* Without reports, blocks and earlier suspicion the calls themselves accuse nobody.
LEMMA QuietVerdict ==
    ASSUME NEW p \in Profiles, NEW e \in Evidence,
           e.reports = 0, e.blocked = 0, e.suspicious = 0, ~e.black
    PROVE  Analyzed(p, e).verdict \in {"SAFE", "UNKNOWN"}
<1>1. CASE e.white
  BY <1>1, AnalyzedIs DEF Verdict
<1>2. CASE ~e.white
  <2>1. Seven(Points(Weights[p], e)) \in 0..17
    <3>1. Points(Weights[p], e)[1] = 0 /\ Points(Weights[p], e)[6] = 0
      BY BlackWorth DEF Worth
    <3>2. Points(Weights[p], e)[2] = 0 /\ Points(Weights[p], e)[3] = 0
          /\ Points(Weights[p], e)[5] = 0
      BY BlockedWorth, SuspiciousWorth, ReportsWorth DEF Worth
    <3> QED
      BY <3>1, <3>2, PointsRange DEF Seven
  <2>2. Analyzed(p, e).score \in 0..17
    BY <1>2, <2>1, AnalyzedIs, ScoreIs DEF Clamp, Greatest, Least
  <2>3. Thresholds[p].suspicious >= 20 /\ Thresholds[p].high >= 50
        /\ Thresholds[p].suspicious \in Nat /\ Thresholds[p].high \in Nat
    BY DEF Thresholds, Profiles
  <2> QED
    BY <1>2, <2>2, <2>3, AnalyzedIs DEF Verdict, MaliciousScore
<1> QED
  BY <1>1, <1>2

\* A number on the blacklist alone is malicious and blocked, whatever else is known.
LEMMA BlacklistedBlocks ==
    ASSUME NEW p \in Profiles, NEW e \in Evidence, e.black, ~e.white
    PROVE  /\ Analyzed(p, e).verdict = "MALICIOUS"
           /\ Analyzed(p, e).action = "BLOCK"
BY AnalyzedIs DEF Verdict, Action

\* An unknown number.
LEMMA HistoryStart == HistoryInit => HistoryInv
<1> SUFFICES ASSUME HistoryInit PROVE HistoryInv
  OBVIOUS
<1>1. /\ 0 \in 0..TotalCap /\ 0 \in 0..SuspiciousCap /\ 0 \in 0..BlockedCap
      /\ 0 \in 0..RecentCap /\ 0 \in 0..ReportsCap
  BY CapsAssumption
<1>2. HistoryTypeOK
  BY <1>1 DEF HistoryInit, HistoryTypeOK
<1>3. evidence.suspicious = 0 /\ evidence.total = 0
  BY DEF HistoryInit
<1> QED
  BY <1>2, <1>3 DEF HistoryInv

\* Analyses, reports, lists and time keep the invariant.
LEMMA HistoryStep == HistoryInv /\ [HistoryNext]_historyVars => HistoryInv'
<1> SUFFICES ASSUME HistoryInv, [HistoryNext]_historyVars PROVE HistoryInv'
  OBVIOUS
<1>1. /\ profile \in Profiles /\ evidence \in Evidence
      /\ evidence.total \in 0..TotalCap /\ evidence.suspicious \in 0..SuspiciousCap
      /\ evidence.blocked \in 0..BlockedCap /\ evidence.recent \in 0..RecentCap
      /\ evidence.reports \in 0..ReportsCap /\ evidence.suspicious <= evidence.total
  BY HistoryTyped DEF HistoryInv, HistoryTypeOK
<1>2. CASE AnalyzeNumber
  <2> DEFINE r == Analyzed(profile, evidence)
  <2>1. evidence' = Record(evidence, r) /\ profile' = profile
    BY <1>2 DEF AnalyzeNumber
  <2>2. /\ r.verdict \in SuspiciousVerdicts =>
             evidence.suspicious # 0 \/ evidence.reports # 0 \/ evidence.blocked # 0
             \/ r.action = "BLOCK"
    <3>1. CASE evidence.black /\ ~evidence.white
      BY <1>1, <3>1, BlacklistedBlocks
    <3>2. CASE evidence.white
      BY <1>1, <3>2, AnalyzedIs DEF Verdict, SuspiciousVerdicts
    <3>3. CASE ~evidence.black /\ ~evidence.white
      BY <1>1, <3>3, QuietVerdict DEF SuspiciousVerdicts
    <3> QED
      BY <3>1, <3>2, <3>3 DEF HistoryInv, HistoryTypeOK
  <2> HIDE DEF r
  <2>3. HistoryTypeOK'
    <3>1. /\ Least(TotalCap, evidence.total + 1) \in 0..TotalCap
          /\ Least(SuspiciousCap, evidence.suspicious + 1) \in 0..SuspiciousCap
          /\ Least(BlockedCap, evidence.blocked + 1) \in 0..BlockedCap
          /\ Least(RecentCap, evidence.recent + 1) \in 0..RecentCap
      BY <1>1, CapsAssumption DEF Least
    <3> QED
      BY <1>1, <2>1, <3>1 DEF HistoryInv, HistoryTypeOK, Record
  <2>4. /\ evidence'.total = Least(TotalCap, evidence.total + 1)
        /\ evidence'.suspicious = IF r.verdict \in SuspiciousVerdicts
                                  THEN Least(SuspiciousCap, evidence.suspicious + 1)
                                  ELSE evidence.suspicious
        /\ evidence'.blocked = IF r.action = "BLOCK" THEN Least(BlockedCap, evidence.blocked + 1)
                               ELSE evidence.blocked
        /\ evidence'.reports = evidence.reports
    BY <1>1, <2>1 DEF HistoryInv, HistoryTypeOK, Record
  <2>5. evidence'.suspicious <= evidence'.total
    BY <1>1, <2>4, CapsAssumption DEF Least
  <2>6. evidence'.reports = 0 /\ evidence'.blocked = 0 => evidence'.suspicious = 0
    BY <1>1, <2>2, <2>4, CapsAssumption DEF HistoryInv, Least
  <2> QED
    BY <2>3, <2>5, <2>6 DEF HistoryInv
<1>3. CASE ReportNumber
  <2>1. /\ profile' = profile /\ evidence' = Reported(evidence)
    BY <1>3 DEF ReportNumber
  <2>2. /\ evidence'.total = evidence.total /\ evidence'.suspicious = evidence.suspicious
        /\ evidence'.reports = Least(ReportsCap, evidence.reports + 1)
    BY <2>1 DEF HistoryInv, HistoryTypeOK, Reported
  <2>3. evidence'.reports # 0
    BY <1>1, <2>2, CapsAssumption DEF Least
  <2>4. HistoryTypeOK'
    BY <1>1, <2>1, CapsAssumption DEF HistoryInv, HistoryTypeOK, Reported, Least
  <2> QED
    BY <1>1, <2>2, <2>3, <2>4 DEF HistoryInv
<1>4. CASE SetLists
  <2>1. PICK on \in BOOLEAN :
           evidence' \in {[evidence EXCEPT !.black = on], [evidence EXCEPT !.white = on]}
    BY <1>4 DEF SetLists
  <2>2. profile' = profile
    BY <1>4 DEF SetLists
  <2> QED
    BY <2>1, <2>2 DEF HistoryInv, HistoryTypeOK
<1>5. CASE Elapse
  <2>1. PICK left \in 0..evidence.recent : evidence' = [evidence EXCEPT !.recent = left]
    BY <1>5 DEF Elapse
  <2>2. profile' = profile
    BY <1>5 DEF Elapse
  <2>3. left \in 0..RecentCap
    BY <1>1, CapsAssumption
  <2> QED
    BY <2>1, <2>2, <2>3 DEF HistoryInv, HistoryTypeOK
<1>6. CASE UNCHANGED historyVars
  BY <1>6 DEF historyVars, HistoryInv, HistoryTypeOK
<1> QED
  BY <1>2, <1>3, <1>4, <1>5, <1>6 DEF HistoryNext

\* The inductive invariant of the history.
LEMMA HistoryInvariant == HistorySpec => []HistoryInv
BY HistoryStart, HistoryStep, PTL DEF HistorySpec

(* However many calls and scans: a number nobody reported, blacklisted or had *)
(* blocked gets no verdict against it (analyze_number).                       *)
THEOREM NobodyAccused == HistorySpec => []NoAccusation
<1>1. HistoryInv => NoAccusation
  <2> SUFFICES ASSUME HistoryInv, evidence.reports = 0, ~evidence.black, evidence.blocked = 0
               PROVE  Result.verdict \in {"SAFE", "UNKNOWN"}
    BY DEF NoAccusation
  <2> QED
    BY HistoryTyped, QuietVerdict DEF HistoryInv, Result
<1> QED
  BY <1>1, HistoryInvariant, PTL

--------------------------------------------------------------------------------
(* How high the confidence is.                                                *)

\* Division and remainder.
LEMMA Divided ==
    ASSUME NEW x \in Nat, NEW y \in Nat \ {0}
    PROVE  \E q \in Nat, r \in Nat : /\ q = x \div y /\ r = x % y
                                   /\ x = y * q + r /\ r < y
<1>1. x \div y \in Nat
  OBVIOUS
<1>2. x % y \in Nat /\ x % y < y
  OBVIOUS
<1>3. x % y = x - y * (x \div y)
  OBVIOUS
<1>4. PICK q \in Nat, r \in Nat : q = x \div y /\ r = x % y
  BY <1>1, <1>2
<1>5. r = x - y * q
  BY <1>3, <1>4
<1>6. x = y * q + r
  BY <1>5
<1>7. r < y
  BY <1>2, <1>4
<1> QED
  BY <1>4, <1>6, <1>7

\* Rounding to the nearest integer gives k when the mean and the bonus make k or more, or
\* less than half a hundredth below.
LEMMA RoundsUp ==
    ASSUME NEW W \in Nat \ {0}, NEW T \in Nat, NEW b \in Nat, NEW m \in Nat, NEW k \in Nat \ {0},
           T >= m * W, 65 * m + 100 * b >= 100 * k - 49
    PROVE  /\ Rounded(65 * T + 100 * W * b, 100 * W) \in Nat
           /\ Rounded(65 * T + 100 * W * b, 100 * W) >= k
<1> DEFINE x == 65 * T + 100 * W * b
           y == 100 * W
<1>1. x \in Nat /\ y \in Nat \ {0}
  OBVIOUS
<1>2. PICK q \in Nat, r \in Nat : q = x \div y /\ r = x % y /\ x = y * q + r /\ r < y
  <2> HIDE DEF x, y
  <2> QED
    BY <1>1, Divided
<1>3. 2 * x > (2 * k - 1) * y
  <2>1. 65 * T >= 65 * m * W
    OBVIOUS
  <2>2. x >= W * (65 * m + 100 * b)
    BY <2>1
  <2>3. W * (65 * m + 100 * b) >= W * (100 * k - 49)
    <3>1. PICK u \in Nat : u = 65 * m + 100 * b
      OBVIOUS
    <3>2. PICK v \in Int : v = 100 * k - 49
      OBVIOUS
    <3>3. u >= v
      BY <3>1, <3>2
    <3>4. W * u >= W * v
      BY <3>3
    <3> QED
      BY <3>1, <3>2, <3>4
  <2>4. 2 * (W * (100 * k - 49)) > (2 * k - 1) * y
    OBVIOUS
  <2> HIDE DEF x, y
  <2>5. W * (65 * m + 100 * b) \in Int /\ W * (100 * k - 49) \in Int /\ (2 * k - 1) * y \in Int
    BY <1>1
  <2> QED
    BY <1>1, <2>2, <2>3, <2>4, <2>5
<1>4. q >= k - 1
  <2> HIDE DEF x, y
  <2>1. SUFFICES ASSUME q + 1 <= k - 1 PROVE FALSE
    BY <1>2
  <2>2. y * (q + 1) <= y * (k - 1)
    BY <1>1, <1>2, <2>1
  <2>3. x < y * (q + 1)
    BY <1>1, <1>2
  <2>4. 2 * x < 2 * (y * (k - 1))
    BY <1>1, <1>2, <2>2, <2>3
  <2>5. 2 * (y * (k - 1)) <= (2 * k - 1) * y
    BY <1>1
  <2> QED
    BY <1>1, <1>3, <2>4, <2>5
<1>5. q = k - 1 => 2 * r > y
  <2> HIDE DEF x, y
  <2> SUFFICES ASSUME q = k - 1 PROVE 2 * r > y
    OBVIOUS
  <2>1. r = x - y * (k - 1)
    BY <1>1, <1>2
  <2>2. 2 * r = 2 * x - 2 * (y * (k - 1))
    BY <1>1, <2>1
  <2>3. (2 * k - 1) * y = 2 * (y * (k - 1)) + y
    BY <1>1
  <2> QED
    BY <1>1, <1>2, <1>3, <2>2, <2>3
<1>6. Rounded(x, y) = IF 2 * r > y \/ (2 * r = y /\ q % 2 = 1) THEN q + 1 ELSE q
  BY <1>2 DEF Rounded
<1> HIDE DEF x, y
<1> QED
  BY <1>1, <1>2, <1>4, <1>5, <1>6 DEF x, y

\* The confidence of signals whose mean is at least m, when the bonus is at least b.
LEMMA ConfidenceAtLeast ==
    ASSUME NEW p \in Profiles, NEW e \in Evidence, ~e.white, Signals(Weights[p], e) # {},
           NEW m \in Nat, NEW k \in 5..99, NEW b \in Nat, 65 * m + 100 * b >= 100 * k - 49,
           Seven(Weighed(Weights[p], e)) \in Nat \ {0}, Seven(Squared(Weights[p], e)) \in Nat,
           Seven(Squared(Weights[p], e)) >= m * Seven(Weighed(Weights[p], e)),
           Least(15, 5 * Cardinality(Signals(Weights[p], e))) + Least(10, e.total)
             + (IF \E s \in Signals(Weights[p], e) : s.confidence >= 80 THEN 15 ELSE 0) >= b
    PROVE  /\ Analyzed(p, e).confidence \in 0..100
           /\ Analyzed(p, e).confidence >= k
<1> DEFINE S == Signals(Weights[p], e)
           W == Seven(Weighed(Weights[p], e))
           T == Seven(Squared(Weights[p], e))
           strong == \E s \in S : s.confidence >= 80
           plain == Least(15, 5 * Cardinality(S)) + Least(10, e.total)
<1>1. PICK bonus \in Nat :
        /\ bonus >= plain
        /\ strong => bonus >= plain + 15
        /\ Confidence(S, e.total) =
              Clamp(5, 99, IF W = 0 THEN bonus
                           ELSE Rounded(65 * T + 100 * W * bonus, 100 * W))
  BY ConfidenceIs, ZenonT(60)
<1>2. plain \in Int
  <2>1. IsFiniteSet(S)
    BY SignalsSpeak
  <2>2. Cardinality(S) \in Nat /\ e.total \in Nat
    BY <2>1, FS_CardinalityType DEF Evidence
  <2> HIDE DEF S
  <2> QED
    BY <2>2 DEF Least
<1>3. bonus >= b
  <2>1. plain + (IF strong THEN 15 ELSE 0) >= b
    OBVIOUS
  <2> HIDE DEF plain, strong
  <2> QED
    BY <1>1, <1>2, <2>1
<1> DEFINE x == Rounded(65 * T + 100 * W * bonus, 100 * W)
<1>4. x \in Nat /\ x >= k
  <2>1. W \in Nat \ {0} /\ T \in Nat /\ T >= m * W /\ k \in Nat \ {0}
    OBVIOUS
  <2>2. 65 * m + 100 * bonus >= 100 * k - 49
    BY <1>3
  <2> HIDE DEF W, T
  <2> QED
    BY <2>1, <2>2, RoundsUp
<1>5. Analyzed(p, e).confidence = Clamp(5, 99, x)
  <2>1. W # 0
    OBVIOUS
  <2>2. Analyzed(p, e).confidence = Confidence(S, e.total)
    BY AnalyzedIs
  <2> HIDE DEF W, T, S, x
  <2> QED
    BY <1>1, <2>1, <2>2 DEF x
<1> HIDE DEF x
<1> QED
  BY <1>4, <1>5 DEF Clamp, Greatest, Least

\* Two or three signals that are there.
LEMMA SomeSignals ==
    ASSUME NEW p \in Profiles, NEW e \in Evidence, ~e.white,
           NEW A \in SUBSET (1..7), \A i \in A : There(e)[i]
    PROVE  /\ Cardinality(A) \in Nat
           /\ Cardinality(Signals(Weights[p], e)) \in Nat
           /\ Cardinality(Signals(Weights[p], e)) >= Cardinality(A)
<1> DEFINE S == Signals(Weights[p], e)
           X == Signalled(Weights[p], e)
           f == [i \in A |-> X[i]]
<1>1. /\ \A i \in 1..7 : There(e)[i] => X[i] \in S
      /\ \A i, j \in 1..7 : X[i] = X[j] => i = j
  BY SignalsAre
<1>2. IsFiniteSet(S)
  BY SignalsSpeak
<1> HIDE DEF S, X
<1>3. f \in Injection(A, S)
  BY <1>1 DEF Injection, IsInjective
<1>4. Cardinality(A) <= Cardinality(S) /\ IsFiniteSet(A)
  <2> HIDE DEF f
  <2> QED
    BY <1>2, <1>3, FS_Injection
<1> QED
  BY <1>2, <1>4, FS_CardinalityType DEF S

\* Two different things.
LEMMA PairSize ==
    ASSUME NEW x, NEW y, x # y
    PROVE  IsFiniteSet({x, y}) /\ Cardinality({x, y}) = 2
<1>1. IsFiniteSet({x}) /\ Cardinality({x}) = 1
  BY FS_Singleton
<1>2. y \notin {x} /\ {x, y} = {x} \union {y}
  OBVIOUS
<1>3. IsFiniteSet({x} \union {y}) /\ Cardinality({x} \union {y}) = Cardinality({x}) + 1
  BY <1>1, <1>2, FS_AddElement
<1> QED
  BY <1>1, <1>2, <1>3

\* The same of three.
LEMMA TripleSize ==
    ASSUME NEW x, NEW y, NEW z, x # y, x # z, y # z
    PROVE  IsFiniteSet({x, y, z}) /\ Cardinality({x, y, z}) = 3
<1>1. IsFiniteSet({x, y}) /\ Cardinality({x, y}) = 2
  BY PairSize
<1>2. z \notin {x, y} /\ {x, y, z} = {x, y} \union {z}
  OBVIOUS
<1>3. IsFiniteSet({x, y} \union {z}) /\ Cardinality({x, y} \union {z}) = Cardinality({x, y}) + 1
  BY <1>1, <1>2, FS_AddElement
<1> QED
  BY <1>1, <1>2, <1>3

\* The blacklist alone makes the score 90 and the confidence 80.
LEMMA BlacklistIsSure ==
    ASSUME NEW p \in Profiles, NEW e \in Evidence, e.black, ~e.white
    PROVE  /\ Analyzed(p, e).score >= 90
           /\ Analyzed(p, e).confidence \in 0..100
           /\ Analyzed(p, e).confidence >= 80
<1> DEFINE w == Weights[p]
<1>1. Worth(w, e, 1, 80, 100) /\ Worth(w, e, 6, 10, 75)
  BY BlackWorth
<1>2. Analyzed(p, e).score >= 90
  <2>1. PICK f : f = Points(w, e)
    OBVIOUS
  <2>2. /\ f[1] = 80 /\ f[6] = 10
        /\ f[2] \in Nat /\ f[3] \in Nat /\ f[4] \in Nat /\ f[5] \in Nat /\ f[7] \in Nat
    BY <1>1, <2>1, PointsRange DEF Worth
  <2>3. Seven(f) \in Nat /\ Seven(f) >= 90
    BY <2>2 DEF Seven
  <2>4. Analyzed(p, e).score = Clamp(0, 100, Seven(f))
    BY <2>1, AnalyzedIs, ScoreIs
  <2> QED
    BY <2>3, <2>4 DEF Clamp, Greatest, Least
<1>3. PICK W, T : W = Weighed(w, e) /\ T = Squared(w, e)
  OBVIOUS
<1>4. W[1] = 8000 /\ T[1] = 800000 /\ W[6] = 750 /\ T[6] = 56250
  BY <1>1, <1>3 DEF Worth
<1>5. W[2] \in Nat /\ T[2] \in Nat /\ T[2] + 22500 >= 85 * W[2]
  BY <1>3, BlockedWorth DEF Worth
<1>6. W[3] \in Nat /\ T[3] \in Nat /\ T[3] + 13872 >= 85 * W[3]
  BY <1>3, SuspiciousWorth DEF Worth
<1>7. W[4] \in Nat /\ T[4] \in Nat /\ T[4] + 19500 >= 85 * W[4]
  BY <1>3, RapidWorth DEF Worth
<1>8. W[5] \in Nat /\ T[5] \in Nat /\ T[5] + 16800 >= 85 * W[5]
  BY <1>3, ReportsWorth DEF Worth
<1>9. W[7] \in Nat /\ T[7] \in Nat /\ T[7] + 3500 >= 85 * W[7]
  BY <1>3, FormatWorth DEF Worth
<1>10. Seven(W) \in Nat \ {0} /\ Seven(T) \in Nat /\ Seven(T) >= 85 * Seven(W)
  BY <1>4, <1>5, <1>6, <1>7, <1>8, <1>9 DEF Seven
<1>11. /\ Signals(w, e) # {}
       /\ Least(15, 5 * Cardinality(Signals(w, e))) + Least(10, e.total)
            + (IF \E s \in Signals(w, e) : s.confidence >= 80 THEN 15 ELSE 0) >= 25
  <2>1. There(e)[1] /\ There(e)[6]
    BY DEF There
  <2>2. Cardinality({1, 6}) = 2
    <3>1. 1 # 6
      OBVIOUS
    <3> QED
      BY <3>1, PairSize, Zenon
  <2>3. Cardinality(Signals(w, e)) \in Nat /\ Cardinality(Signals(w, e)) >= 2
    BY <2>1, <2>2, SomeSignals
  <2>4. Signalled(w, e)[1] \in Signals(w, e)
    BY <2>1, SignalsAre
  <2>5. Signalled(w, e)[1].confidence = 100
    BY DEF Signalled, Signal
  <2>6. \E s \in Signals(w, e) : s.confidence >= 80
    BY <2>4, <2>5
  <2>7. e.total \in Nat
    BY DEF Evidence
  <2> QED
    BY <2>3, <2>4, <2>6, <2>7 DEF Least
<1>12. PICK m \in Nat, k \in 5..99, b \in Nat : m = 85 /\ k = 80 /\ b = 25
  BY SMTT(60)
<1>13. Analyzed(p, e).confidence \in 0..100 /\ Analyzed(p, e).confidence >= k
  <2>1. 65 * m + 100 * b >= 100 * k - 49
    BY <1>12
  <2>2. /\ Seven(Weighed(w, e)) \in Nat \ {0} /\ Seven(Squared(w, e)) \in Nat
        /\ Seven(Squared(w, e)) >= m * Seven(Weighed(w, e))
    BY <1>3, <1>10, <1>12
  <2>3. Least(15, 5 * Cardinality(Signals(w, e))) + Least(10, e.total)
            + (IF \E s \in Signals(w, e) : s.confidence >= 80 THEN 15 ELSE 0) >= b
    BY <1>11, <1>12
  <2> QED
    BY <1>11, <2>1, <2>2, <2>3, ConfidenceAtLeast
<1> QED
  BY <1>2, <1>12, <1>13

\* What the policy makes of a number on a list.
LEMMA WhitelistAllows ==
    ASSUME NEW d, NEW c, NEW x,
           d.whitelisted = TRUE, ~d.reputationError, ~d.intelligenceError
    PROVE  Decide(d, c, x).applied = "ALLOW"
<1>1. Objections(d, c, x)[1].holds
  BY DEF Objections
<1>2. {i \in 1..7 : Objections(d, c, x)[i].holds} # {}
  BY <1>1
<1>3. Decide(d, c, x) = Weigh(d, c, x)
  BY DEF Decide
<1> QED
  BY <1>2, <1>3 DEF Weigh

(* The whitelist lets a number through and the blacklist alone stops it,      *)
(* whatever has been recorded of it (signals.py, _verdict_from_score,         *)
(* PolicyEngine.decide).                                                      *)
THEOREM ListsRule == HistorySpec => []ListsDecide
<1>1. HistoryInv => ListsDecide
  <2> SUFFICES ASSUME HistoryInv PROVE ListsDecide
    OBVIOUS
  <2> DEFINE d == [ADetection EXCEPT !.risk = Result.score, !.confidence = Result.confidence,
                                     !.whitelisted = evidence.white]
             c(p) == [AConfig EXCEPT !.enabled = TRUE, !.mode = "ACTIVE", !.confirmed = TRUE,
                                     !.policy = p]
  <2>1. profile \in Profiles /\ evidence \in Evidence /\ Result = Analyzed(profile, evidence)
    BY HistoryTyped DEF HistoryInv, Result
  <2>2. \A p : Screened(p) = Decide(d, c(p), FALSE).applied
    BY DEF Screened
  <2>3. /\ d.risk = Result.score /\ d.confidence = Result.confidence
        /\ d.whitelisted = evidence.white
        /\ d.reputationError = FALSE /\ d.intelligenceError = FALSE /\ d.trend = "OTHER"
    BY DEF ADetection
  <2>4. ASSUME evidence.white
        PROVE  Result.action = "ALLOW" /\ \A p \in PolicyNames : Screened(p) = "ALLOW"
    <3>1. Result.verdict = "SAFE" /\ Result.action = "ALLOW"
      BY <2>1, <2>4, AnalyzedIs DEF Verdict, Action
    <3>2. d.whitelisted = TRUE
      BY <2>1, <2>3, <2>4 DEF Evidence
    <3> HIDE DEF d, c
    <3> QED
      BY <2>2, <2>3, <3>1, <3>2, WhitelistAllows
  <2>5. ASSUME evidence.black, ~evidence.white, NEW p \in PolicyNames \ {"RELAXED"}
        PROVE  Result.action = "BLOCK" /\ Screened(p) = "BLOCK"
    <3>1. Result.action = "BLOCK"
      BY <2>1, <2>5, BlacklistedBlocks
    <3>2. /\ Result.score \in 90..100 /\ Result.confidence \in 80..100
      BY <2>1, <2>5, BlacklistIsSure, AnalyzedIs
    <3>3. d \in Detection
      <4>1. ADetection \in Detection
        BY DEF ADetection, Detection, Scores
      <4>2. Result.score \in Scores /\ Result.confidence \in Scores /\ evidence.white \in BOOLEAN
        BY <2>1, <3>2 DEF Scores, Evidence
      <4> QED
        BY <4>1, <4>2 DEF Detection
    <3>4. /\ c(p).enabled = TRUE /\ c(p).mode = "ACTIVE" /\ c(p).confirmed = TRUE
          /\ c(p).policy = p /\ c(p).thresholds = DefaultThresholds
      BY DEF AConfig
    <3>5. c(p) \in Config
      <4>1. DefaultThresholds \in [PolicyNames -> [block : Scores, confidence : Scores]]
        BY DEF DefaultThresholds, PolicyNames, Scores
      <4>2. AConfig \in [enabled : BOOLEAN, mode : Modes, confirmed : BOOLEAN, policy : PolicyNames,
                         thresholds : [PolicyNames -> [block : Scores, confidence : Scores]]]
        BY <4>1 DEF AConfig, Modes, PolicyNames
      <4>3. p \in PolicyNames /\ "ACTIVE" \in Modes
        BY <2>5 DEF Modes
      <4>4. c(p) \in [enabled : BOOLEAN, mode : Modes, confirmed : BOOLEAN, policy : PolicyNames,
                      thresholds : [PolicyNames -> [block : Scores, confidence : Scores]]]
        BY <4>2, <4>3
      <4> HIDE DEF c
      <4> QED
        BY <3>4, <4>4 DEF Config
    <3>6. DefaultThresholds[p].block <= 85 /\ DefaultThresholds[p].confidence <= 80
          /\ DefaultThresholds[p].block \in Nat /\ DefaultThresholds[p].confidence \in Nat
      BY <2>5 DEF DefaultThresholds, PolicyNames
    <3>7. Warranted(d, c(p), FALSE)
      <4> HIDE DEF d, c
      <4> QED
        BY <2>3, <2>5, <3>2, <3>4, <3>6 DEF Warranted
    <3>8. FALSE \in BOOLEAN
      OBVIOUS
    <3> HIDE DEF d, c
    <3> QED
      BY <2>2, <3>1, <3>3, <3>5, <3>7, <3>8, DecideFacts
  <2>6. \E p \in PolicyNames : p \in PolicyNames \ {"RELAXED"}
    BY DEF PolicyNames
  <2> QED
    BY <2>4, <2>5, <2>6 DEF ListsDecide
<1> QED
  BY <1>1, HistoryInvariant, PTL

--------------------------------------------------------------------------------
(* More evidence.                                                             *)

\* One event or report more, or some, and nothing less.
More(e, f) ==
    /\ f.black = e.black /\ f.white = e.white /\ f.anomalies = e.anomalies
    /\ f.total >= e.total /\ f.suspicious >= e.suspicious /\ f.blocked >= e.blocked
    /\ f.recent >= e.recent /\ f.reports >= e.reports

\* No signal gets fewer points for more evidence.
LEMMA ScoreGrows ==
    ASSUME NEW p \in Profiles, NEW e \in Evidence, NEW f \in Evidence, More(e, f)
    PROVE  Analyzed(p, f).score >= Analyzed(p, e).score
<1> DEFINE w == Weights[p]
<1>1. /\ e.black \in BOOLEAN /\ e.suspicious \in Nat /\ e.blocked \in Nat /\ e.recent \in Nat
      /\ e.reports \in Nat /\ e.anomalies \in Nat
      /\ f.suspicious \in Nat /\ f.blocked \in Nat /\ f.recent \in Nat
      /\ f.reports \in Nat
  BY DEF Evidence
<1>2. PICK P, Q : P = Points(w, e) /\ Q = Points(w, f)
  OBVIOUS
<1>3. /\ P[1] \in Nat /\ P[2] \in Nat /\ P[3] \in Nat /\ P[4] \in Nat /\ P[5] \in Nat
      /\ P[6] \in Nat /\ P[7] \in Nat
  BY <1>2, PointsRange
<1>4. /\ Q[1] \in Nat /\ Q[2] \in Nat /\ Q[3] \in Nat /\ Q[4] \in Nat /\ Q[5] \in Nat
      /\ Q[6] \in Nat /\ Q[7] \in Nat
  BY <1>2, PointsRange
<1>5. Q[1] = P[1] /\ Q[6] = P[6]
  BY <1>1, <1>2, BlackWorth DEF Worth, More
<1>6. Q[2] >= P[2]
  BY <1>1, <1>2, BlockedWorth DEF Worth, More
<1>7. Q[3] >= P[3]
  BY <1>1, <1>2, SuspiciousWorth DEF Worth, More
<1>8. Q[4] >= P[4]
  BY <1>1, <1>2, RapidWorth DEF Worth, More, Profiles
<1>9. Q[5] >= P[5]
  BY <1>1, <1>2, ReportsWorth DEF Worth, More
<1>10. Q[7] = P[7]
  BY <1>1, <1>2, FormatWorth DEF Worth, More
<1>11. Seven(P) \in Nat /\ Seven(Q) \in Nat /\ Seven(Q) >= Seven(P)
  BY <1>3, <1>4, <1>5, <1>6, <1>7, <1>8, <1>9, <1>10 DEF Seven
<1>12. CASE e.white
  BY <1>12, AnalyzedIs, ScoreIs DEF More
<1>13. CASE ~e.white
  <2>1. /\ Analyzed(p, e).score = Clamp(0, 100, Seven(P))
        /\ Analyzed(p, f).score = Clamp(0, 100, Seven(Q))
    BY <1>2, <1>13, AnalyzedIs, ScoreIs DEF More
  <2> QED
    BY <1>11, <2>1 DEF Clamp, Greatest, Least
<1> QED
  BY <1>12, <1>13

\* Of a number on no list: the points, and the terms of the confidence with them.
LEMMA TermsUnlisted ==
    ASSUME NEW p \in Profiles, NEW e \in Evidence, ~e.black, ~e.white
    PROVE  \E P, W, T :
             /\ P = Points(Weights[p], e) /\ W = Weighed(Weights[p], e)
             /\ T = Squared(Weights[p], e)
             /\ P[1] = 0 /\ P[6] = 0 /\ W[1] = 0 /\ W[6] = 0 /\ T[1] = 0 /\ T[6] = 0
             /\ \A i \in {2, 3, 4, 5, 7} :
                   P[i] \in Nat /\ W[i] \in Nat /\ T[i] \in Nat /\ W[i] >= P[i]
             /\ P[2] <= 20 /\ P[3] <= 20 /\ P[4] <= 15 /\ P[5] <= 30 /\ P[7] <= 2
             /\ p # "STRICT" => P[3] <= 15 /\ P[5] <= 25 /\ P[4] <= 10
             /\ p = "RELAXED" => P[4] <= 5
             /\ Analyzed(p, e).score = Clamp(0, 100, Seven(P))
             /\ Seven(P) \in Nat
             /\ Seven(P) = P[2] + P[3] + P[4] + P[5] + P[7]
             /\ Seven(W) = W[2] + W[3] + W[4] + W[5] + W[7]
             /\ Seven(T) = T[2] + T[3] + T[4] + T[5] + T[7]
<1>1. PICK P, W, T : P = Points(Weights[p], e) /\ W = Weighed(Weights[p], e)
                     /\ T = Squared(Weights[p], e)
  OBVIOUS
<1>2. P[1] = 0 /\ P[6] = 0 /\ W[1] = 0 /\ W[6] = 0 /\ T[1] = 0 /\ T[6] = 0
  BY <1>1, BlackWorth DEF Worth
<1>3. P[2] \in Nat /\ W[2] \in Nat /\ T[2] \in Nat /\ W[2] >= P[2] /\ P[2] <= 20
  BY <1>1, BlockedWorth DEF Worth
<1>4. P[3] \in Nat /\ W[3] \in Nat /\ T[3] \in Nat /\ W[3] >= P[3] /\ P[3] <= 20
      /\ (p # "STRICT" => P[3] <= 15)
  BY <1>1, SuspiciousWorth DEF Worth
<1>5. P[4] \in Nat /\ W[4] \in Nat /\ T[4] \in Nat /\ W[4] >= P[4] /\ P[4] <= 15
      /\ (p # "STRICT" => P[4] <= 10) /\ (p = "RELAXED" => P[4] <= 5)
  BY <1>1, RapidWorth DEF Worth
<1>6. P[5] \in Nat /\ W[5] \in Nat /\ T[5] \in Nat /\ W[5] >= P[5] /\ P[5] <= 30
      /\ (p # "STRICT" => P[5] <= 25)
  BY <1>1, ReportsWorth DEF Worth
<1>7. P[7] \in Nat /\ W[7] \in Nat /\ T[7] \in Nat /\ W[7] >= P[7] /\ P[7] <= 2
  BY <1>1, FormatWorth DEF Worth
<1>8. /\ Seven(P) = P[2] + P[3] + P[4] + P[5] + P[7]
      /\ Seven(W) = W[2] + W[3] + W[4] + W[5] + W[7]
      /\ Seven(T) = T[2] + T[3] + T[4] + T[5] + T[7]
      /\ Seven(P) \in Nat
  BY <1>2, <1>3, <1>4, <1>5, <1>6, <1>7 DEF Seven
<1>9. Analyzed(p, e).score = Clamp(0, 100, Seven(P))
  BY <1>1, AnalyzedIs, ScoreIs
<1>10. \A i \in {2, 3, 4, 5, 7} :
         P[i] \in Nat /\ W[i] \in Nat /\ T[i] \in Nat /\ W[i] >= P[i]
  BY <1>3, <1>4, <1>5, <1>6, <1>7
<1> QED
  BY <1>1, <1>2, <1>3, <1>4, <1>5, <1>6, <1>7, <1>8, <1>9, <1>10

\* RELAXED never blocks a number that is on no list.
LEMMA RelaxedBound ==
    ASSUME NEW e \in Evidence, ~e.black, ~e.white
    PROVE  Analyzed("RELAXED", e).score < 80
<1>1. PICK p \in Profiles : p = "RELAXED"
  BY DEF Profiles
<1>2. Analyzed(p, e).score < 80
  <2>1. PICK P, W, T :
          /\ P[2] \in Nat /\ P[3] \in Nat /\ P[4] \in Nat /\ P[5] \in Nat /\ P[7] \in Nat
          /\ P[2] <= 20 /\ P[3] <= 15 /\ P[4] <= 5 /\ P[5] <= 25 /\ P[7] <= 2
          /\ Analyzed(p, e).score = Clamp(0, 100, Seven(P))
          /\ Seven(P) = P[2] + P[3] + P[4] + P[5] + P[7]
    BY <1>1, TermsUnlisted
  <2> QED
    BY <2>1 DEF Clamp, Greatest, Least
<1> QED
  BY <1>1, <1>2

\* Signals that are there, by their points.
LEMMA ThereByPoints ==
    ASSUME NEW p \in Profiles, NEW e \in Evidence, NEW i \in 1..7,
           Points(Weights[p], e)[i] # 0
    PROVE  There(e)[i]
BY DEF Points

\* A BALANCED number on no list that scores 60 has been reported, blocked and suspicious,
\* and its signals have a mean of 66 hundredths.
LEMMA BalancedIsSure ==
    ASSUME NEW e \in Evidence, ~e.black, ~e.white, e.suspicious <= e.total,
           Analyzed("BALANCED", e).score >= 60
    PROVE  Analyzed("BALANCED", e).confidence >= 60
<1>1. PICK p \in Profiles : p = "BALANCED"
  BY DEF Profiles
<1>2. PICK P, W, T :
        /\ P = Points(Weights[p], e) /\ W = Weighed(Weights[p], e)
        /\ T = Squared(Weights[p], e)
        /\ \A i \in {2, 3, 4, 5, 7} : P[i] \in Nat /\ W[i] \in Nat /\ T[i] \in Nat /\ W[i] >= P[i]
        /\ P[2] <= 20 /\ P[3] <= 15 /\ P[4] <= 10 /\ P[5] <= 25 /\ P[7] <= 2
        /\ Analyzed(p, e).score = Clamp(0, 100, Seven(P)) /\ Seven(P) \in Nat
        /\ Seven(P) = P[2] + P[3] + P[4] + P[5] + P[7]
        /\ Seven(W) = W[2] + W[3] + W[4] + W[5] + W[7]
        /\ Seven(T) = T[2] + T[3] + T[4] + T[5] + T[7]
  <2>1. p # "STRICT"
    BY <1>1
  <2> QED
    BY <2>1, TermsUnlisted
<1>3. P[2] + P[3] + P[4] + P[5] + P[7] >= 60
  BY <1>1, <1>2 DEF Clamp, Greatest, Least
<1>4. T[2] + 38400 >= 66 * W[2] + 2200 * P[2]
  BY <1>2, BlockedWorth DEF Worth
<1>5. T[3] + 24768 >= 66 * W[3] + 2200 * P[3]
  BY <1>1, <1>2, SuspiciousWorth DEF Worth
<1>6. T[4] + 22650 >= 66 * W[4] + 2200 * P[4]
  BY <1>1, <1>2, RapidWorth DEF Worth
<1>7. T[5] + 30720 >= 66 * W[5] + 2200 * P[5]
  BY <1>1, <1>2, ReportsWorth DEF Worth
<1>8. T[7] + 6570 >= 66 * W[7] + 2200 * P[7]
  BY <1>2, FormatWorth DEF Worth
<1>9. Seven(W) \in Nat \ {0} /\ Seven(T) \in Nat /\ Seven(T) >= 66 * Seven(W)
  BY <1>2, <1>3, <1>4, <1>5, <1>6, <1>7, <1>8
<1>10. There(e)[2] /\ There(e)[3] /\ There(e)[5]
  <2>1. P[2] # 0 /\ P[3] # 0 /\ P[5] # 0
    BY <1>2, <1>3
  <2> QED
    BY <1>2, <2>1, ThereByPoints
<1>11. PICK m \in Nat, k \in 5..99, b \in Nat : m = 66 /\ k = 60 /\ b = 17
  OBVIOUS
<1>12. /\ Signals(Weights[p], e) # {}
       /\ Least(15, 5 * Cardinality(Signals(Weights[p], e))) + Least(10, e.total)
            + (IF \E s \in Signals(Weights[p], e) : s.confidence >= 80 THEN 15 ELSE 0) >= b
  <2>1. Cardinality({2, 3, 5}) = 3
    <3>1. 2 # 3 /\ 2 # 5 /\ 3 # 5
      OBVIOUS
    <3> QED
      BY <3>1, TripleSize, Zenon
  <2>2. Cardinality(Signals(Weights[p], e)) \in Nat /\ Cardinality(Signals(Weights[p], e)) >= 3
    BY <1>10, <2>1, SomeSignals
  <2>3. Signalled(Weights[p], e)[2] \in Signals(Weights[p], e)
    BY <1>10, SignalsAre
  <2>4. e.total \in Nat /\ e.total >= 2
    BY <1>10 DEF There, Evidence
  <2>5. /\ Least(15, 5 * Cardinality(Signals(Weights[p], e))) + Least(10, e.total) >= 17
        /\ Least(15, 5 * Cardinality(Signals(Weights[p], e))) + Least(10, e.total) \in Int
    BY <2>2, <2>4 DEF Least
  <2> QED
    BY <1>11, <2>3, <2>5
<1>13. 65 * m + 100 * b >= 100 * k - 49
  BY <1>11
<1>14. /\ Seven(Weighed(Weights[p], e)) \in Nat \ {0} /\ Seven(Squared(Weights[p], e)) \in Nat
       /\ Seven(Squared(Weights[p], e)) >= m * Seven(Weighed(Weights[p], e))
  BY <1>2, <1>9, <1>11, SMTT(60)
<1>15. Analyzed(p, e).confidence >= k
  BY <1>12, <1>13, <1>14, ConfidenceAtLeast
<1> QED
  BY <1>1, <1>11, <1>15

\* A STRICT number on no list that scores 50 has two of a report, a block and suspicious
\* events, and its signals have a mean of 54 hundredths.
LEMMA StrictIsSure ==
    ASSUME NEW e \in Evidence, ~e.black, ~e.white, Analyzed("STRICT", e).score >= 50
    PROVE  Analyzed("STRICT", e).confidence >= 45
<1>1. PICK p \in Profiles : p = "STRICT"
  BY DEF Profiles
<1>2. PICK P, W, T :
        /\ P = Points(Weights[p], e) /\ W = Weighed(Weights[p], e)
        /\ T = Squared(Weights[p], e)
        /\ \A i \in {2, 3, 4, 5, 7} : P[i] \in Nat /\ W[i] \in Nat /\ T[i] \in Nat /\ W[i] >= P[i]
        /\ P[2] <= 20 /\ P[3] <= 20 /\ P[4] <= 15 /\ P[5] <= 30 /\ P[7] <= 2
        /\ Analyzed(p, e).score = Clamp(0, 100, Seven(P)) /\ Seven(P) \in Nat
        /\ Seven(P) = P[2] + P[3] + P[4] + P[5] + P[7]
        /\ Seven(W) = W[2] + W[3] + W[4] + W[5] + W[7]
        /\ Seven(T) = T[2] + T[3] + T[4] + T[5] + T[7]
  BY TermsUnlisted
<1>3. P[2] + P[3] + P[4] + P[5] + P[7] >= 50
  BY <1>1, <1>2 DEF Clamp, Greatest, Least
<1>4. T[2] + 27375 >= 54 * W[2] + 2185 * P[2]
  BY <1>2, BlockedWorth DEF Worth
<1>5. T[3] + 15822 >= 54 * W[3] + 2185 * P[3]
  BY <1>1, <1>2, SuspiciousWorth DEF Worth
<1>6. T[4] + 22050 >= 54 * W[4] + 2185 * P[4]
  BY <1>1, <1>2, RapidWorth DEF Worth
<1>7. T[5] + 17040 >= 54 * W[5] + 2185 * P[5]
  BY <1>1, <1>2, ReportsWorth DEF Worth
<1>8. T[7] + 5700 >= 54 * W[7] + 2185 * P[7]
  BY <1>2, FormatWorth DEF Worth
<1>9. Seven(W) \in Nat \ {0} /\ Seven(T) \in Nat /\ Seven(T) >= 54 * Seven(W)
  BY <1>2, <1>3, <1>4, <1>5, <1>6, <1>7, <1>8
<1>10. PICK i \in {2, 3, 5}, j \in {2, 3, 5} : i # j /\ There(e)[i] /\ There(e)[j]
  <2>1. \/ P[2] # 0 /\ P[3] # 0
        \/ P[2] # 0 /\ P[5] # 0
        \/ P[3] # 0 /\ P[5] # 0
    BY <1>2, <1>3
  <2>2. \A n \in {2, 3, 5} : P[n] # 0 => There(e)[n]
    BY <1>2, ThereByPoints
  <2> QED
    BY <2>1, <2>2
<1>11. PICK m \in Nat, k \in 5..99, b \in Nat : m = 54 /\ k = 45 /\ b = 10
  OBVIOUS
<1>12. /\ Signals(Weights[p], e) # {}
       /\ Least(15, 5 * Cardinality(Signals(Weights[p], e))) + Least(10, e.total)
            + (IF \E s \in Signals(Weights[p], e) : s.confidence >= 80 THEN 15 ELSE 0) >= b
  <2>1. Cardinality({i, j}) = 2
    BY <1>10, PairSize
  <2>2. Cardinality(Signals(Weights[p], e)) \in Nat /\ Cardinality(Signals(Weights[p], e)) >= 2
    <3>1. {i, j} \in SUBSET (1..7) /\ \A n \in {i, j} : There(e)[n]
      BY <1>10
    <3> QED
      BY <2>1, <3>1, SomeSignals
  <2>3. Signalled(Weights[p], e)[i] \in Signals(Weights[p], e)
    <3>1. i \in 1..7
      OBVIOUS
    <3> QED
      BY <1>10, <3>1, SignalsAre
  <2>4. e.total \in Nat
    BY DEF Evidence
  <2>5. /\ Least(15, 5 * Cardinality(Signals(Weights[p], e))) + Least(10, e.total) >= 10
        /\ Least(15, 5 * Cardinality(Signals(Weights[p], e))) + Least(10, e.total) \in Int
    BY <2>2, <2>4 DEF Least
  <2> QED
    BY <1>11, <2>3, <2>5
<1>13. 65 * m + 100 * b >= 100 * k - 49
  BY <1>11
<1>14. /\ Seven(Weighed(Weights[p], e)) \in Nat \ {0} /\ Seven(Squared(Weights[p], e)) \in Nat
       /\ Seven(Squared(Weights[p], e)) >= m * Seven(Weighed(Weights[p], e))
  BY <1>2, <1>9, <1>11, SMTT(60)
<1>15. Analyzed(p, e).confidence >= k
  BY <1>12, <1>13, <1>14, ConfidenceAtLeast
<1> QED
  BY <1>1, <1>11, <1>15

\* Where the score reaches the threshold of a block, the confidence reaches its floor.
LEMMA ScoreIsSure ==
    ASSUME NEW p \in Profiles, NEW e \in Evidence, ~e.black, ~e.white,
           e.suspicious <= e.total, Analyzed(p, e).score >= Thresholds[p].block
    PROVE  Analyzed(p, e).confidence >= Thresholds[p].floor
<1>1. /\ Thresholds["RELAXED"].block = 80
      /\ Thresholds["BALANCED"].block = 60 /\ Thresholds["BALANCED"].floor = 60
      /\ Thresholds["STRICT"].block = 50 /\ Thresholds["STRICT"].floor = 45
  BY DEF Thresholds
<1>2. CASE p = "RELAXED"
  <2>1. Analyzed(p, e).score \in Int
    BY AnalyzedIs
  <2> QED
    BY <1>1, <1>2, <2>1, RelaxedBound
<1>3. CASE p = "BALANCED"
  BY <1>1, <1>3, BalancedIsSure
<1>4. CASE p = "STRICT"
  BY <1>1, <1>4, StrictIsSure
<1> QED
  BY <1>2, <1>3, <1>4 DEF Profiles

\* The action for a number on no list is found from the score alone.
LEMMA ActionByScore ==
    ASSUME NEW p \in Profiles, NEW e \in Evidence, ~e.black, ~e.white, e.suspicious <= e.total
    PROVE  Analyzed(p, e).action =
             IF Analyzed(p, e).score >= Least(Thresholds[p].block, MaliciousScore)
             THEN "BLOCK"
             ELSE IF Analyzed(p, e).score >= Thresholds[p].suspicious THEN "MONITOR" ELSE "ALLOW"
<1>0. PICK s \in 0..100 : s = Analyzed(p, e).score
  BY AnalyzedIs
<1>1. PICK v, c, t :
        /\ s = Analyzed(p, e).score /\ v = Analyzed(p, e).verdict
        /\ c = Analyzed(p, e).confidence /\ t = Thresholds[p]
  BY <1>0
<1>2. /\ t.suspicious \in Nat /\ t.high \in Nat /\ t.block \in Nat
      /\ t.suspicious <= t.high /\ t.high <= t.block /\ t.block <= 85
  BY <1>1 DEF Thresholds, Profiles
<1>3. v = Verdict(t, e.white, e.black /\ ~e.white, s) /\ Analyzed(p, e).action = Action(t, v, s, c)
  BY <1>1, AnalyzedIs
<1>4. s >= t.block => c >= t.floor
  BY <1>1, ScoreIsSure
<1>5. v = IF s >= 85 THEN "MALICIOUS"
          ELSE IF s >= t.high THEN "HIGH_RISK"
          ELSE IF s >= t.suspicious THEN "SUSPICIOUS" ELSE "UNKNOWN"
  BY <1>3 DEF Verdict, MaliciousScore
<1>6. Action(t, v, s, c) = IF s >= t.block THEN "BLOCK"
                           ELSE IF s >= t.suspicious THEN "MONITOR" ELSE "ALLOW"
  <2>1. CASE s >= 85
    BY <1>2, <1>5, <2>1 DEF Action
  <2>2. CASE s < 85 /\ s >= t.block
    BY <1>2, <1>4, <1>5, <2>2 DEF Action
  <2>3. CASE s < t.block /\ s >= t.high
    BY <1>2, <1>5, <2>3 DEF Action
  <2>4. CASE s < t.high /\ s >= t.suspicious
    BY <1>2, <1>5, <2>4 DEF Action
  <2>5. CASE s < t.suspicious
    BY <1>2, <1>5, <2>5 DEF Action
  <2> QED
    BY <1>2, <2>1, <2>2, <2>3, <2>4, <2>5
<1> QED
  BY <1>1, <1>2, <1>3, <1>6 DEF Least, MaliciousScore

\* More evidence is answered no more mildly.
LEMMA ActionGrows ==
    ASSUME NEW p \in Profiles, NEW e \in Evidence, NEW f \in Evidence, More(e, f),
           e.suspicious <= e.total, f.suspicious <= f.total
    PROVE  Severity[Analyzed(p, f).action] >= Severity[Analyzed(p, e).action]
<1>1. e.black \in BOOLEAN /\ e.white \in BOOLEAN
  BY DEF Evidence
<1>2. Severity["ALLOW"] = 0 /\ Severity["MONITOR"] = 1 /\ Severity["BLOCK"] = 2
  BY DEF Severity
<1>3. CASE e.white
  <2>1. Analyzed(p, e).verdict = "SAFE" /\ Analyzed(p, f).verdict = "SAFE"
    BY <1>3, AnalyzedIs DEF More, Verdict
  <2>2. Analyzed(p, e).action = "ALLOW" /\ Analyzed(p, f).action = "ALLOW"
    BY <2>1, AnalyzedIs DEF Action
  <2> QED
    BY <1>2, <2>2
<1>4. CASE e.black /\ ~e.white
  <2>1. Analyzed(p, e).action = "BLOCK" /\ Analyzed(p, f).action = "BLOCK"
    BY <1>4, BlacklistedBlocks DEF More
  <2> QED
    BY <1>2, <2>1
<1>5. CASE ~e.black /\ ~e.white
  <2>1. PICK s \in 0..100, n \in 0..100 : /\ s = Analyzed(p, e).score
                                         /\ n = Analyzed(p, f).score /\ n >= s
    BY ScoreGrows, AnalyzedIs
  <2>2. PICK t : t = Thresholds[p]
    OBVIOUS
  <2>3. /\ Least(t.block, MaliciousScore) \in Nat /\ t.suspicious \in Nat
    BY <2>2 DEF Thresholds, Profiles, Least, MaliciousScore
  <2>4. Analyzed(p, e).action =
             IF s >= Least(t.block, MaliciousScore) THEN "BLOCK"
             ELSE IF s >= t.suspicious THEN "MONITOR" ELSE "ALLOW"
    BY <1>5, <2>1, <2>2, ActionByScore
  <2>5. Analyzed(p, f).action =
             IF n >= Least(t.block, MaliciousScore) THEN "BLOCK"
             ELSE IF n >= t.suspicious THEN "MONITOR" ELSE "ALLOW"
    BY <1>5, <2>1, <2>2, ActionByScore DEF More
  <2> QED
    BY <1>2, <2>1, <2>3, <2>4, <2>5
<1> QED
  BY <1>1, <1>3, <1>4, <1>5

\* The policy takes no BLOCK back for higher scores, nor under a stricter name.
LEMMA PolicyAddsUp == ContractInv => ScoresAddUp
<1> SUFFICES ASSUME ContractInv, Decide(detection, config, emergency).applied = "BLOCK"
             PROVE  /\ \A d \in Detections :
                        /\ d.risk >= detection.risk /\ d.confidence >= detection.confidence
                        /\ \A f \in {"whitelisted", "reputationError", "intelligenceError",
                                     "trend"} : d[f] = detection[f]
                        => Decide(d, config, emergency).applied = "BLOCK"
                    /\ config.thresholds = DefaultThresholds =>
                        \A stricter \in [RELAXED  |-> PolicyNames,
                                         BALANCED |-> {"BALANCED", "STRICT"},
                                         STRICT   |-> {"STRICT"}][config.policy] :
                          Decide(detection, [config EXCEPT !.policy = stricter], emergency).applied
                              = "BLOCK"
  BY DEF ScoresAddUp
<1>1. detection \in Detection /\ config \in Config /\ emergency \in BOOLEAN
  BY ContractAssumption DEF ContractInv, TypeOK
<1>2. Warranted(detection, config, emergency)
  BY <1>1, DecideFacts
<1>3. /\ detection.risk \in Nat /\ detection.confidence \in Nat
      /\ config.policy \in PolicyNames
      /\ \A p \in PolicyNames : /\ config.thresholds[p].block \in Nat
                               /\ config.thresholds[p].confidence \in Nat
  BY <1>1, SMTT(60) DEF Detection, Config, Scores
<1>4. ASSUME NEW d \in Detections,
             d.risk >= detection.risk, d.confidence >= detection.confidence,
             \A f \in {"whitelisted", "reputationError", "intelligenceError", "trend"} :
                d[f] = detection[f]
      PROVE  Decide(d, config, emergency).applied = "BLOCK"
  <2>1. d \in Detection
    BY ContractAssumption
  <2>2. d.risk \in Nat /\ d.confidence \in Nat
    BY <2>1 DEF Detection, Scores
  <2>3. /\ d.whitelisted = detection.whitelisted /\ d.reputationError = detection.reputationError
        /\ d.intelligenceError = detection.intelligenceError /\ d.trend = detection.trend
    BY <1>4
  <2>4. Warranted(d, config, emergency)
    BY <1>2, <1>3, <1>4, <2>2, <2>3 DEF Warranted
  <2> QED
    BY <1>1, <2>1, <2>4, DecideFacts
<1>5. ASSUME config.thresholds = DefaultThresholds,
             NEW stricter \in [RELAXED  |-> PolicyNames, BALANCED |-> {"BALANCED", "STRICT"},
                              STRICT   |-> {"STRICT"}][config.policy]
      PROVE  Decide(detection, [config EXCEPT !.policy = stricter], emergency).applied = "BLOCK"
  <2> DEFINE c == [config EXCEPT !.policy = stricter]
  <2>1. stricter \in PolicyNames
    BY <1>3 DEF PolicyNames
  <2>2. /\ DefaultThresholds[stricter].block <= DefaultThresholds[config.policy].block
        /\ DefaultThresholds[stricter].confidence <= DefaultThresholds[config.policy].confidence
    BY <1>3, <1>5 DEF PolicyNames, DefaultThresholds
  <2>3. c \in Config
    BY <1>1, <2>1 DEF Config
  <2>4. /\ c.enabled = config.enabled /\ c.mode = config.mode /\ c.confirmed = config.confirmed
        /\ c.thresholds = config.thresholds /\ c.policy = stricter
    BY <1>1 DEF Config
  <2> HIDE DEF c
  <2>5. /\ detection.risk >= c.thresholds[c.policy].block
        /\ detection.confidence >= c.thresholds[c.policy].confidence
    BY <1>2, <1>3, <1>5, <2>1, <2>2, <2>4 DEF Warranted
  <2>6. Warranted(detection, c, emergency)
    BY <1>2, <2>4, <2>5 DEF Warranted
  <2>7. Decide(detection, c, emergency).applied = "BLOCK"
    BY <1>1, <2>3, <2>6, DecideFacts
  <2> QED
    BY <2>7 DEF c
<1> QED
  BY <1>4, <1>5

(* One event or report more never lowers the score nor weakens the action,    *)
(* although it may lower the confidence a block asks for, and the policy is   *)
(* no milder about higher scores (compute_confidence, _action_from_state,     *)
(* PolicyEngine.decide).                                                      *)
THEOREM MoreEvidence == HistorySpec /\ Spec => []EvidenceAddsUp
<1>1. HistoryInv /\ ContractInv => EvidenceAddsUp
  <2> SUFFICES ASSUME HistoryInv, ContractInv PROVE EvidenceAddsUp
    OBVIOUS
  <2>1. /\ profile \in Profiles /\ evidence \in Evidence
        /\ evidence.total \in 0..TotalCap /\ evidence.suspicious \in 0..SuspiciousCap
        /\ evidence.blocked \in 0..BlockedCap /\ evidence.recent \in 0..RecentCap
        /\ evidence.reports \in 0..ReportsCap /\ evidence.suspicious <= evidence.total
    BY HistoryTyped DEF HistoryInv, HistoryTypeOK
  <2>2. PICK now : now = Result
    OBVIOUS
  <2>3. ASSUME NEW more \in {Record(evidence, now), Reported(evidence)}
        PROVE  more \in Evidence /\ More(evidence, more) /\ more.suspicious <= more.total
    <3>1. CASE more = Record(evidence, now)
      <4> DEFINE a == Least(TotalCap, evidence.total + 1)
                 b == IF now.verdict \in SuspiciousVerdicts
                      THEN Least(SuspiciousCap, evidence.suspicious + 1) ELSE evidence.suspicious
                 c == IF now.action = "BLOCK" THEN Least(BlockedCap, evidence.blocked + 1)
                      ELSE evidence.blocked
                 d == Least(RecentCap, evidence.recent + 1)
      <4>1. /\ a \in Nat /\ b \in Nat /\ c \in Nat /\ d \in Nat
            /\ a >= evidence.total /\ b >= evidence.suspicious /\ c >= evidence.blocked
            /\ d >= evidence.recent /\ b <= a
        BY <2>1, CapsAssumption DEF Least
      <4>2. more = [evidence EXCEPT !.total = a, !.recent = d, !.suspicious = b, !.blocked = c]
        BY <3>1 DEF Record
      <4> HIDE DEF a, b, c, d
      <4>3. more \in Evidence
        BY <2>1, <4>1, <4>2 DEF Evidence
      <4>4. /\ more.total = a /\ more.suspicious = b /\ more.blocked = c /\ more.recent = d
            /\ more.reports = evidence.reports /\ more.anomalies = evidence.anomalies
            /\ more.black = evidence.black /\ more.white = evidence.white
        BY <2>1, <4>2 DEF Evidence
      <4> QED
        BY <2>1, <4>1, <4>3, <4>4 DEF More
    <3>2. CASE more = Reported(evidence)
      <4> DEFINE a == Least(ReportsCap, evidence.reports + 1)
      <4>1. a \in Nat /\ a >= evidence.reports
        BY <2>1, CapsAssumption DEF Least
      <4>2. more = [evidence EXCEPT !.reports = a]
        BY <3>2 DEF Reported
      <4> HIDE DEF a
      <4> QED
        BY <2>1, <4>1, <4>2 DEF Evidence, More
    <3> QED
      BY <3>1, <3>2
  <2>4. \A more \in {Record(evidence, now), Reported(evidence)} :
          /\ Analyzed(profile, more).score >= Analyzed(profile, evidence).score
          /\ Severity[Analyzed(profile, more).action]
                 >= Severity[Analyzed(profile, evidence).action]
    BY <2>1, <2>3, ScoreGrows, ActionGrows
  <2>5. ScoresAddUp
    BY PolicyAddsUp
  <2> QED
    BY <2>2, <2>4, <2>5 DEF EvidenceAddsUp, Result
<1> QED
  BY <1>1, HistoryInvariant, ContractInvariant, PTL

--------------------------------------------------------------------------------
(* Trends: a history of scores and the same turned upside down.               *)

\* Turning keeps the length and the kind of scores.
LEMMA TurnedAre ==
    ASSUME NEW v \in Seq(Scores)
    PROVE  /\ Turned(v) \in Seq(Scores) /\ Len(Turned(v)) = Len(v) /\ Len(v) \in Nat
           /\ \A i \in 1..Len(v) : Turned(v)[i] = 100 - v[i] /\ v[i] \in Scores
<1>1. Len(v) \in Nat /\ DOMAIN v = 1..Len(v) /\ \A i \in 1..Len(v) : v[i] \in Scores
  BY LenProperties
<1>2. \A i \in 1..Len(v) : 100 - v[i] \in Scores
  <2>1. \A x \in Scores : 100 - x \in Scores
    BY SMTT(60) DEF Scores
  <2> QED
    BY <1>1, <2>1
<1>3. PICK n \in Nat : n = Len(v)
  BY <1>1
<1>4. PICK t : t = [i \in 1..n |-> 100 - v[i]]
  OBVIOUS
<1>5. Turned(v) = t
  BY <1>1, <1>3, <1>4 DEF Turned
<1>6. t \in [1..n -> Scores]
  BY <1>2, <1>3, <1>4
<1>7. t \in Seq(Scores)
  BY <1>6, SeqDef
<1>8. Len(t) = n
  BY <1>3, <1>6, <1>7, LenProperties
<1> QED
  BY <1>1, <1>3, <1>4, <1>5, <1>7, <1>8

\* It commutes with adding a score.
LEMMA TurnedAppend ==
    ASSUME NEW v \in Seq(Scores), NEW c \in Scores
    PROVE  /\ Append(v, c) \in Seq(Scores) /\ Append(v, c) # << >>
           /\ Append(Turned(v), 100 - c) = Turned(Append(v, c))
<1>1. PICK w : w = Append(v, c)
  OBVIOUS
<1>2. w \in Seq(Scores) /\ Len(w) = Len(v) + 1 /\ w[Len(v) + 1] = c
      /\ \A i \in 1..Len(v) : w[i] = v[i]
  BY <1>1, AppendProperties
<1>3. PICK t \in Seq(Scores) : t = Turned(v)
  BY TurnedAre
<1>4. Len(t) = Len(v) /\ Len(v) \in Nat /\ \A i \in 1..Len(v) : t[i] = 100 - v[i]
  BY <1>3, TurnedAre
<1>5. PICK u \in Seq(Scores) : u = Turned(w)
  BY <1>2, TurnedAre
<1>6. Len(u) = Len(v) + 1 /\ \A i \in 1..Len(v) + 1 : u[i] = 100 - w[i]
  BY <1>2, <1>5, TurnedAre
<1>7. 100 - c \in Scores
  BY DEF Scores
<1>8. PICK x : x = Append(t, 100 - c)
  OBVIOUS
<1>9. x \in Seq(Scores) /\ Len(x) = Len(v) + 1 /\ x[Len(v) + 1] = 100 - c
      /\ \A i \in 1..Len(v) : x[i] = t[i]
  BY <1>4, <1>7, <1>8, AppendProperties
<1>10. \A i \in 1..Len(x) : x[i] = u[i]
  <2>1. ASSUME NEW i \in 1..Len(v) + 1 PROVE i \in 1..Len(v) \/ i = Len(v) + 1
    BY <1>4
  <2>2. Len(v) + 1 \in 1..Len(v) + 1 /\ \A i \in 1..Len(v) : i \in 1..Len(v) + 1
    BY <1>4
  <2> QED
    BY <1>2, <1>4, <1>6, <1>9, <2>1, <2>2
<1>11. x = u
  BY <1>6, <1>9, <1>10, SeqEqual
<1>12. w # << >>
  BY <1>2, <1>4, EmptySeq
<1> QED
  BY <1>1, <1>2, <1>3, <1>5, <1>8, <1>11, <1>12

\* And with looking at a part.
LEMMA TurnedPart ==
    ASSUME NEW v \in Seq(Scores), NEW a \in Nat \ {0}, NEW b \in Nat, b <= Len(v), a <= b
    PROVE  /\ SubSeq(v, a, b) \in Seq(Scores) /\ Len(SubSeq(v, a, b)) = b - a + 1
           /\ SubSeq(v, a, b) # << >>
           /\ SubSeq(Turned(v), a, b) = Turned(SubSeq(v, a, b))
<1>1. PICK w : w = SubSeq(v, a, b)
  OBVIOUS
<1>2. Len(v) \in Nat /\ a..b \subseteq 1..Len(v)
  BY LenProperties
<1>3. \A i \in a..b : v[i] \in Scores
  BY <1>2, ElementOfSeq
<1>4. w \in Seq(Scores) /\ Len(w) = b - a + 1 /\ \A i \in 1..(b - a + 1) : w[i] = v[a + i - 1]
  BY <1>1, <1>3, SubSeqProperties
<1>5. PICK t \in Seq(Scores) : t = Turned(v)
  BY TurnedAre
<1>6. Len(t) = Len(v) /\ \A i \in 1..Len(v) : t[i] = 100 - v[i]
  BY <1>5, TurnedAre
<1>7. PICK u \in Seq(Scores) : u = Turned(w)
  BY <1>4, TurnedAre
<1>8. Len(u) = b - a + 1 /\ \A i \in 1..(b - a + 1) : u[i] = 100 - w[i]
  BY <1>4, <1>7, TurnedAre, ZenonT(60)
<1>9. PICK x : x = SubSeq(t, a, b)
  OBVIOUS
<1>10. \A i \in a..b : t[i] \in Scores
  BY <1>2, <1>6, ElementOfSeq
<1>11. x \in Seq(Scores) /\ Len(x) = b - a + 1 /\ \A i \in 1..(b - a + 1) : x[i] = t[a + i - 1]
  BY <1>9, <1>10, SubSeqProperties
<1>12. \A i \in 1..(b - a + 1) : a + i - 1 \in 1..Len(v)
  BY <1>2
<1>13. ASSUME NEW i \in 1..Len(x) PROVE x[i] = u[i]
  <2>1. i \in 1..(b - a + 1)
    BY <1>11
  <2>2. PICK j \in 1..Len(v) : j = a + i - 1
    BY <1>12, <2>1
  <2> QED
    BY <1>4, <1>6, <1>8, <1>11, <2>1, <2>2, ZenonT(60)
<1>14. x = u
  BY <1>8, <1>11, <1>13, SeqEqual
<1>15. w # << >>
  <2>1. Len(w) # 0
    BY <1>4
  <2> QED
    BY <2>1, EmptySeq
<1> QED
  BY <1>1, <1>4, <1>5, <1>7, <1>9, <1>14, <1>15

\* The scores a trend is found from, turned.
LEMMA TwentyTurned ==
    ASSUME NEW v \in Seq(Scores)
    PROVE  /\ LastTwenty(v) \in Seq(Scores) /\ (v # << >> => LastTwenty(v) # << >>)
           /\ LastTwenty(Turned(v)) = Turned(LastTwenty(v))
<1>1. PICK n \in Nat : n = Len(v) /\ n = Len(Turned(v))
  BY TurnedAre
<1>2. /\ LastTwenty(v) = IF n <= 20 THEN v ELSE SubSeq(v, n - 19, n)
      /\ LastTwenty(Turned(v)) = IF n <= 20 THEN Turned(v) ELSE SubSeq(Turned(v), n - 19, n)
  BY <1>1, Zenon DEF LastTwenty
<1>3. CASE n <= 20
  BY <1>2, <1>3
<1>4. CASE ~(n <= 20)
  <2>1. PICK a \in Nat \ {0} : a = n - 19 /\ a <= n
    BY <1>4
  <2>2. n <= Len(v)
    <3>1. n <= n
      OBVIOUS
    <3> QED
      BY <1>1, <3>1, Zenon
  <2>3. /\ SubSeq(v, a, n) \in Seq(Scores) /\ SubSeq(v, a, n) # << >>
        /\ SubSeq(Turned(v), a, n) = Turned(SubSeq(v, a, n))
    BY <2>1, <2>2, TurnedPart
  <2>4. LastTwenty(v) = SubSeq(v, a, n) /\ LastTwenty(Turned(v)) = SubSeq(Turned(v), a, n)
    BY <1>2, <1>4, <2>1, Zenon
  <2> QED
    BY <2>3, <2>4, Zenon
<1> QED
  BY <1>3, <1>4

\* And with the current score.
LEMMA CurrentTurned ==
    ASSUME NEW s \in Seq(Scores), NEW c \in Scores
    PROVE  /\ WithCurrent(s, c) \in Seq(Scores) /\ WithCurrent(s, c) # << >>
           /\ WithCurrent(Turned(s), 100 - c) = Turned(WithCurrent(s, c))
<1>1. PICK r \in Seq(Scores) : r = LastTwenty(s) /\ LastTwenty(Turned(s)) = Turned(r)
  BY TwentyTurned
<1>2. PICK t \in Seq(Scores) : t = Turned(r)
  BY TurnedAre
<1>3. Len(t) = Len(r) /\ \A i \in 1..Len(r) : t[i] = 100 - r[i] /\ r[i] \in Scores
  BY <1>2, TurnedAre
<1>4. (t # << >> /\ Last(t) = 100 - c) <=> (r # << >> /\ Last(r) = c)
  <2>1. r # << >> => Len(r) \in Nat \ {0}
    BY EmptySeq
  <2>2. t # << >> <=> r # << >>
    <3>1. t # << >> => Len(t) \in Nat \ {0}
      BY EmptySeq
    <3>2. Len(<< >>) = 0
      BY EmptySeq
    <3> QED
      BY <1>3, <2>1, <3>1, <3>2
  <2>3. ASSUME r # << >> PROVE Last(t) = 100 - c <=> Last(r) = c
    <3>1. PICK n \in Nat \ {0} : n = Len(r)
      BY <2>1, <2>3
    <3>2. n \in 1..n
      BY <3>1
    <3>3. Last(t) = t[n] /\ Last(r) = r[n]
      BY <1>3, <3>1 DEF Last
    <3>4. PICK x \in Scores : x = r[n] /\ t[n] = 100 - x
      BY <1>3, <3>1, <3>2
    <3>5. 100 - x = 100 - c <=> x = c
      BY DEF Scores
    <3> QED
      BY <3>3, <3>4, <3>5
  <2> QED
    BY <2>2, <2>3
<1>5. PICK w \in Seq(Scores) : w = Append(r, c)
  BY TurnedAppend
<1>6. Append(t, 100 - c) = Turned(w) /\ w # << >>
  BY <1>2, <1>5, TurnedAppend, ZenonT(60)
<1>7. LastTwenty(w) \in Seq(Scores) /\ LastTwenty(w) # << >>
      /\ LastTwenty(Turned(w)) = Turned(LastTwenty(w))
  BY <1>6, TwentyTurned
<1>8. WithCurrent(s, c) = IF r # << >> /\ Last(r) = c THEN r ELSE LastTwenty(w)
  BY <1>1, <1>5 DEF WithCurrent
<1>9. WithCurrent(Turned(s), 100 - c) =
        IF t # << >> /\ Last(t) = 100 - c THEN t ELSE LastTwenty(Turned(w))
  BY <1>1, <1>2, <1>6 DEF WithCurrent
<1> QED
  BY <1>2, <1>4, <1>7, <1>8, <1>9

\* The highest score and the lowest change places.
LEMMA EndsTurned ==
    ASSUME NEW S \in SUBSET Scores, S # {}, NEW T, T = {100 - x : x \in S}
    PROVE  /\ Max(S) \in Scores /\ Min(S) \in Scores
           /\ Max(T) = 100 - Min(S) /\ Min(T) = 100 - Max(S)
<1>1. T \in SUBSET Nat /\ T # {} /\ S \in SUBSET Nat
  <2>1. \A x \in Scores : x \in Nat /\ 100 - x \in Nat
    BY DEF Scores
  <2>2. \A x \in S : x \in Nat /\ 100 - x \in Nat
    BY <2>1
  <2> QED
    BY <2>2
<1>2. PICK lo \in S : \A y \in S : lo <= y
  BY <1>1, LeastMember
<1>3. PICK no \in T : \A y \in T : no <= y
  BY <1>1, LeastMember
<1>4. PICK hi \in S : no = 100 - hi
  BY <1>3
<1>5. lo \in Nat /\ hi \in Nat
  BY <1>1
<1>6. \A y \in S : hi >= y
  <2>1. ASSUME NEW y \in S PROVE hi >= y
    <3>1. y \in Nat /\ 100 - y \in T
      BY <1>1
    <3>2. 100 - hi <= 100 - y
      BY <1>3, <1>4, <3>1
    <3> QED
      BY <1>5, <3>1, <3>2
  <2> QED
    BY <2>1
<1>7. \A y \in T : 100 - lo >= y /\ y >= 100 - hi
  <2>1. ASSUME NEW y \in T PROVE 100 - lo >= y /\ y >= 100 - hi
    <3>1. PICK z \in S : y = 100 - z
      OBVIOUS
    <3>2. z \in Nat /\ lo <= z /\ z <= hi
      BY <1>1, <1>2, <1>6
    <3> QED
      BY <1>5, <3>1, <3>2
  <2> QED
    BY <2>1
<1>8. 100 - lo \in T /\ 100 - hi \in T
  OBVIOUS
<1>9. Min(S) = lo
  <2>1. ASSUME NEW x \in S, \A y \in S : x <= y PROVE x = lo
    <3>1. x <= lo /\ lo <= x /\ x \in Nat
      BY <1>1, <1>2, <2>1
    <3> QED
      BY <1>5, <3>1
  <2> QED
    BY <1>2, <2>1 DEF Min
<1>10. Max(S) = hi
  <2>1. ASSUME NEW x \in S, \A y \in S : x >= y PROVE x = hi
    <3>1. x >= hi /\ hi >= x /\ x \in Nat
      BY <1>1, <1>6, <2>1
    <3> QED
      BY <1>5, <3>1
  <2> QED
    BY <1>6, <2>1 DEF Max
<1>11. Min(T) = 100 - hi
  <2>1. ASSUME NEW x \in T, \A y \in T : x <= y PROVE x = 100 - hi
    <3>1. x <= 100 - hi /\ x >= 100 - hi /\ x \in Nat
      BY <1>1, <1>7, <1>8, <2>1
    <3> QED
      BY <1>5, <3>1
  <2>2. \A y \in T : 100 - hi <= y
    BY <1>3, <1>4
  <2> QED
    BY <1>8, <2>1, <2>2 DEF Min
<1>12. Max(T) = 100 - lo
  <2>1. ASSUME NEW x \in T, \A y \in T : x >= y PROVE x = 100 - lo
    <3>1. x >= 100 - lo /\ 100 - lo >= x /\ x \in Nat
      BY <1>1, <1>7, <1>8, <2>1
    <3> QED
      BY <1>5, <3>1
  <2>2. \A y \in T : 100 - lo >= y
    BY <1>7
  <2> QED
    BY <1>8, <2>1, <2>2 DEF Max
<1> QED
  BY <1>9, <1>10, <1>11, <1>12

\* So does the spread not change.
LEMMA SpreadTurned ==
    ASSUME NEW v \in Seq(Scores), v # << >>
    PROVE  Spread(Turned(v)) = Spread(v)
<1>1. PICK S : S = ToSet(v)
  OBVIOUS
<1>2. PICK t \in Seq(Scores) : t = Turned(v)
  BY TurnedAre
<1>3. PICK n \in Nat \ {0} : n = Len(v)
  BY EmptySeq
<1>4. /\ DOMAIN v = 1..n /\ DOMAIN t = 1..n
      /\ \A i \in 1..n : t[i] = 100 - v[i] /\ v[i] \in Scores
  <2>1. Len(t) = n /\ \A i \in 1..n : t[i] = 100 - v[i] /\ v[i] \in Scores
    BY <1>2, <1>3, TurnedAre
  <2> QED
    BY <1>3, <2>1, LenProperties
<1>5. S \in SUBSET Scores /\ S # {}
  <2>1. 1 \in 1..n
    BY <1>3
  <2>2. S = {v[i] : i \in 1..n}
    BY <1>1, <1>4 DEF ToSet
  <2> QED
    BY <1>4, <2>1, <2>2
<1>6. ToSet(t) = {100 - x : x \in S}
  <2>1. S = {v[i] : i \in 1..n} /\ ToSet(t) = {t[i] : i \in 1..n}
    BY <1>1, <1>4 DEF ToSet
  <2> QED
    BY <1>4, <2>1
<1>7. PICK hi \in Scores, lo \in Scores :
        hi = Max(S) /\ lo = Min(S) /\ Max(ToSet(t)) = 100 - lo /\ Min(ToSet(t)) = 100 - hi
  BY <1>5, <1>6, EndsTurned, ZenonT(60)
<1>8. (100 - lo) - (100 - hi) = hi - lo
  BY DEF Scores
<1> QED
  BY <1>1, <1>2, <1>7, <1>8 DEF Spread

\* Every step goes the other way, and the same steps matter.
LEMMA StepsTurned ==
    ASSUME NEW v \in Seq(Scores)
    PROVE  /\ MeaningfulSteps(Turned(v)) = MeaningfulSteps(v)
           /\ Increases(Turned(v)) = Decreases(v) /\ Decreases(Turned(v)) = Increases(v)
           /\ DirectionChanges(Turned(v)) = DirectionChanges(v)
<1>1. PICK n \in Nat : n = Len(v) /\ n = Len(Turned(v))
  BY TurnedAre
<1>2. PICK t : t = Turned(v)
  OBVIOUS
<1>3. \A i \in 1..n : t[i] = 100 - v[i] /\ v[i] \in Scores
  BY <1>1, <1>2, TurnedAre
<1>4. ASSUME NEW i \in 2..n
      PROVE  \E x \in Int : Step(v, i) = x /\ Step(t, i) = 0 - x
  <2>1. i \in 1..n /\ i - 1 \in 1..n
    OBVIOUS
  <2>2. PICK y \in Scores, z \in Scores : /\ y = v[i] /\ z = v[i - 1]
                                         /\ t[i] = 100 - y /\ t[i - 1] = 100 - z
    BY <1>3, <2>1
  <2>3. y - z \in Int /\ (100 - y) - (100 - z) = 0 - (y - z)
    BY DEF Scores
  <2> QED
    BY <2>2, <2>3 DEF Step
<1>5. \A x \in Int : AbsValue(0 - x) = AbsValue(x) /\ (AbsValue(x) >= NoiseThreshold => x # 0)
  BY DEF AbsValue, NoiseThreshold
<1>6. PICK M : M = MeaningfulSteps(v)
  OBVIOUS
<1>7. M = {i \in 2..n : AbsValue(Step(v, i)) >= NoiseThreshold}
  BY <1>1, <1>6, Zenon DEF MeaningfulSteps
<1>8. MeaningfulSteps(t) = M
  <2>1. MeaningfulSteps(t) = {i \in 2..n : AbsValue(Step(t, i)) >= NoiseThreshold}
    BY <1>1, <1>2, Zenon DEF MeaningfulSteps
  <2>2. \A i \in 2..n : AbsValue(Step(t, i)) = AbsValue(Step(v, i))
    BY <1>4, <1>5
  <2> QED
    BY <1>7, <2>1, <2>2, Zenon
<1>9. ASSUME NEW i \in M
      PROVE  /\ Step(t, i) > 0 <=> Step(v, i) < 0
             /\ Step(t, i) < 0 <=> Step(v, i) > 0
             /\ \E x \in Int \ {0} : Step(v, i) = x /\ Step(t, i) = 0 - x
  <2>1. PICK x \in Int : Step(v, i) = x /\ Step(t, i) = 0 - x
    BY <1>4, <1>7
  <2>2. x # 0
    BY <1>5, <1>7, <2>1
  <2> QED
    BY <2>1, <2>2
<1>10. Increases(t) = Decreases(v) /\ Decreases(t) = Increases(v)
  BY <1>6, <1>8, <1>9, Zenon DEF Increases, Decreases
<1>11. DirectionChanges(t) = DirectionChanges(v)
  <2>1. ASSUME NEW i \in M, NEW j \in M
        PROVE  ((Step(t, i) > 0) # (Step(t, j) > 0)) <=> ((Step(v, i) > 0) # (Step(v, j) > 0))
    <3>1. PICK x \in Int \ {0} : Step(v, i) = x /\ Step(t, i) = 0 - x
      BY <1>9
    <3>2. PICK y \in Int \ {0} : Step(v, j) = y /\ Step(t, j) = 0 - y
      BY <1>9
    <3>3. ((0 - x > 0) # (0 - y > 0)) <=> ((x > 0) # (y > 0))
      OBVIOUS
    <3> QED
      BY <3>1, <3>2, <3>3
  <2> QED
    BY <1>6, <1>8, <2>1, Zenon DEF DirectionChanges
<1> QED
  BY <1>2, <1>6, <1>8, <1>10, <1>11, Zenon

\* The timeline's trend, turned.
LEMMA TimelineTurned ==
    ASSUME NEW s \in Seq(Scores), NEW c \in Scores
    PROVE  TrendOf(Turned(s), 100 - c) = Opposite[TrendOf(s, c)]
<1>1. PICK v \in Seq(Scores) : /\ v = WithCurrent(s, c) /\ v # << >>
                               /\ WithCurrent(Turned(s), 100 - c) = Turned(v)
  BY CurrentTurned
<1>2. PICK t : t = Turned(v)
  OBVIOUS
<1>3. PICK n \in Nat \ {0} : n = Len(v) /\ n = Len(t)
  BY <1>1, <1>2, TurnedAre, EmptySeq
<1>4. PICK steps, ups, downs : /\ steps = Cardinality(MeaningfulSteps(v))
                               /\ ups = Cardinality(Increases(v))
                               /\ downs = Cardinality(Decreases(v))
  OBVIOUS
<1>5. /\ Cardinality(MeaningfulSteps(t)) = steps
      /\ Cardinality(Increases(t)) = downs /\ Cardinality(Decreases(t)) = ups
  BY <1>2, <1>4, StepsTurned, Zenon
<1>6. Volatile(t) <=> Volatile(v)
  BY <1>1, <1>2, StepsTurned, SpreadTurned, Zenon DEF Volatile
<1>7. PICK total \in Int : Last(v) - Head(v) = total /\ Last(t) - Head(t) = 0 - total
  <2>1. 1 \in 1..n /\ n \in 1..n
    OBVIOUS
  <2>2. \A i \in 1..n : t[i] = 100 - v[i] /\ v[i] \in Scores
    BY <1>2, <1>3, TurnedAre
  <2>3. PICK x \in Scores, y \in Scores : /\ x = v[1] /\ y = v[n]
                                         /\ t[1] = 100 - x /\ t[n] = 100 - y
    BY <2>1, <2>2
  <2>4. Last(v) = y /\ Last(t) = 100 - y
    BY <1>3, <2>3, Zenon DEF Last
  <2>5. Head(v) = x /\ Head(t) = 100 - x
    BY <2>3 DEF Head
  <2>6. y - x \in Int /\ (100 - y) - (100 - x) = 0 - (y - x)
    BY DEF Scores
  <2> QED
    BY <2>4, <2>5, <2>6
<1>8. PICK req : req = IF (steps + 1) \div 2 > 2 THEN (steps + 1) \div 2 ELSE 2
  OBVIOUS
<1>9. TrendOf(s, c) =
        IF n < 3 THEN "INSUFFICIENT_DATA"
        ELSE IF Volatile(v) THEN "VOLATILE"
        ELSE IF total >= SustainedDelta /\ ups >= req THEN "WORSENING"
        ELSE IF total <= -SustainedDelta /\ downs >= req THEN "IMPROVING"
        ELSE "STABLE"
  BY <1>1, <1>3, <1>4, <1>7, <1>8, Zenon DEF TrendOf
<1>10. TrendOf(Turned(s), 100 - c) =
        IF n < 3 THEN "INSUFFICIENT_DATA"
        ELSE IF Volatile(v) THEN "VOLATILE"
        ELSE IF 0 - total >= SustainedDelta /\ downs >= req THEN "WORSENING"
        ELSE IF 0 - total <= -SustainedDelta /\ ups >= req THEN "IMPROVING"
        ELSE "STABLE"
  BY <1>1, <1>2, <1>3, <1>5, <1>6, <1>7, <1>8, ZenonT(60) DEF TrendOf
<1>11. /\ 0 - total >= SustainedDelta <=> total <= -SustainedDelta
       /\ 0 - total <= -SustainedDelta <=> total >= SustainedDelta
       /\ ~(total >= SustainedDelta /\ total <= -SustainedDelta)
  BY DEF SustainedDelta
<1>12. /\ Opposite["WORSENING"] = "IMPROVING" /\ Opposite["IMPROVING"] = "WORSENING"
       /\ Opposite["STABLE"] = "STABLE" /\ Opposite["VOLATILE"] = "VOLATILE"
       /\ Opposite["INSUFFICIENT_DATA"] = "INSUFFICIENT_DATA"
       /\ Opposite["UNKNOWN"] = "UNKNOWN"
  BY DEF Opposite
<1> QED
  BY <1>9, <1>10, <1>11, <1>12, ZenonT(60)

\* The sum of some scores.
LEMMA SumIs ==
    ASSUME NEW n \in Nat, NEW v \in [1..n -> Int], NEW g, Adds(1..n, v, g)
    PROVE  SumOf(v) = g[1..n]
<1> DEFINE Is(h) == h = [s \in SUBSET (1..n) |->
                            IF s = {} THEN 0
                            ELSE v[CHOOSE x \in s : TRUE] + h[s \ {CHOOSE x \in s : TRUE}]]
<1>1. IsFiniteSet(1..n)
  BY FS_Interval
<1>2. DOMAIN v = 1..n
  OBVIOUS
<1>3. SumOf(v) = (CHOOSE h : Is(h))[1..n]
  BY <1>2 DEF SumOf, FoldSeq, FoldFunction, FoldFunctionOnSet, MapThenFoldSet
<1>4. ASSUME NEW h PROVE Is(h) <=> FoldOf(1..n, v, h)
  BY DEF FoldOf
<1> HIDE DEF Is
<1>5. PICK h : h = CHOOSE k : Is(k)
  OBVIOUS
<1>6. FoldOf(1..n, v, g) /\ \A k : FoldOf(1..n, v, k) => k[1..n] = g[1..n]
  BY <1>1, FoldIsSum
<1>7. Is(h)
  BY <1>4, <1>5, <1>6
<1> QED
  BY <1>3, <1>4, <1>5, <1>6, <1>7

\* Turned scores add up to what is left of a hundred each.
LEMMA SumTurned ==
    ASSUME NEW v \in Seq(Scores)
    PROVE  \E x \in Int : SumOf(v) = x /\ SumOf(Turned(v)) = 100 * Len(v) - x
<1>1. PICK n \in Nat : n = Len(v)
  BY LenProperties
<1>2. PICK t : t = Turned(v)
  OBVIOUS
<1>3. \A i \in 1..n : t[i] = 100 - v[i] /\ v[i] \in Scores
  BY <1>1, <1>2, TurnedAre
<1>4. v \in [1..n -> Int] /\ t \in [1..n -> Int]
  <2>1. v \in [1..n -> Scores]
    BY <1>1, LenProperties
  <2>2. t \in Seq(Scores) /\ Len(t) = n
    BY <1>1, <1>2, TurnedAre
  <2>3. t \in [1..n -> Scores]
    BY <2>2, LenProperties
  <2>4. \A x \in Scores : x \in Int
    BY DEF Scores
  <2> QED
    BY <2>1, <2>3, <2>4
<1>5. IsFiniteSet(1..n) /\ Cardinality(1..n) = n
  BY FS_Interval
<1>6. PICK g : Adds(1..n, v, g)
  BY <1>4, <1>5, SumExists
<1> DEFINE h == [s \in SUBSET (1..n) |-> 100 * Cardinality(s) - g[s]]
<1>7. Adds(1..n, t, h)
  <2>1. \A s \in SUBSET (1..n) : /\ IsFiniteSet(s) /\ Cardinality(s) \in Nat /\ g[s] \in Int
                                 /\ h[s] = 100 * Cardinality(s) - g[s]
    BY <1>5, <1>6, FS_Subset, FS_CardinalityType DEF Adds
  <2>2. h \in [SUBSET (1..n) -> Int]
    <3>1. ASSUME NEW s \in SUBSET (1..n) PROVE 100 * Cardinality(s) - g[s] \in Int
      <4>1. PICK c \in Nat, a \in Int : c = Cardinality(s) /\ a = g[s]
        BY <2>1
      <4>2. 100 * c - a \in Int
        OBVIOUS
      <4> QED
        BY <4>1, <4>2, Zenon
    <3> QED
      BY <3>1
  <2>3. h[{}] = 0
    <3>1. Cardinality({}) = 0 /\ g[{}] = 0
      BY <1>6, FS_EmptySet DEF Adds
    <3>2. h[{}] = 100 * 0 - 0
      BY <2>1, <3>1
    <3> QED
      BY <3>2
  <2> HIDE DEF h
  <2>4. ASSUME NEW s \in SUBSET (1..n), NEW x \in s
        PROVE  h[s] = t[x] + h[s \ {x}]
    <3>1. PICK r \in SUBSET (1..n) : r = s \ {x}
      OBVIOUS
    <3>2. PICK c \in Nat, d \in Nat : c = Cardinality(s) /\ d = Cardinality(r) /\ d = c - 1
      BY <2>1, <3>1, FS_RemoveElement
    <3>3. PICK a \in Int, b \in Int, y \in Int :
            /\ a = g[s] /\ b = g[r] /\ y = v[x] /\ a = y + b /\ t[x] = 100 - y
      <4>1. x \in 1..n /\ g[s] = v[x] + g[r]
        BY <1>6, <3>1 DEF Adds
      <4>2. g[s] \in Int /\ g[r] \in Int
        BY <2>1
      <4>3. v[x] \in Int /\ t[x] = 100 - v[x]
        BY <1>3, <1>4, <4>1
      <4> QED
        BY <4>1, <4>2, <4>3, Zenon
    <3>4. h[s] = 100 * c - a /\ h[r] = 100 * d - b
      BY <2>1, <3>2, <3>3, ZenonT(60)
    <3>5. 100 * c - a = (100 - y) + (100 * d - b)
      <4>1. d = c - 1 /\ a = y + b
        BY <3>2, <3>3, Zenon
      <4> QED
        BY <4>1
    <3> QED
      BY <3>1, <3>3, <3>4, <3>5, Zenon
  <2> QED
    BY <2>2, <2>3, <2>4 DEF Adds
<1>8. g[1..n] \in Int /\ h[1..n] = 100 * n - g[1..n]
  BY <1>5, <1>6 DEF Adds
<1> HIDE DEF h
<1>9. SumOf(v) = g[1..n] /\ SumOf(t) = h[1..n]
  BY <1>4, <1>6, <1>7, SumIs
<1> QED
  BY <1>1, <1>2, <1>8, <1>9, Zenon

\* A condition holds or it does not.
LEMMA Decided == ASSUME NEW x PROVE \E p \in BOOLEAN : p <=> x
<1>1. CASE x
  <2>1. TRUE \in BOOLEAN /\ (TRUE <=> x)
    BY <1>1
  <2> QED
    BY <2>1, Zenon
<1>2. CASE ~x
  <2>1. FALSE \in BOOLEAN /\ (FALSE <=> x)
    BY <1>2
  <2> QED
    BY <2>1, Zenon
<1> QED
  BY <1>1, <1>2

\* The outcome of comparing with a threshold in both directions, when the threshold itself
\* counts on a condition of each.
Compared(delta, k, p, q) ==
    IF delta > k \/ (delta = k /\ p) THEN "WORSENING"
    ELSE IF delta < 0 - k \/ (delta = 0 - k /\ q) THEN "IMPROVING"
    ELSE "STABLE"

Larger(delta) == IF delta > 0 THEN "WORSENING" ELSE "IMPROVING"

\* At the threshold, one of two opposite changes is seen and the other is not.
OneSeen(there, back, larger) ==
    \/ there = "STABLE" /\ back = Opposite[larger]
    \/ there = larger /\ back = "STABLE"

\* What that says of a change and of the opposite change.
LEMMA Mirrored ==
    ASSUME NEW delta \in Int, NEW k \in Nat \ {0},
           NEW p \in BOOLEAN, NEW q \in BOOLEAN, NEW r \in BOOLEAN, NEW t \in BOOLEAN
    PROVE  \/ Compared(0 - delta, k, r, t) = Opposite[Compared(delta, k, p, q)]
           \/ /\ delta = k \/ delta = 0 - k
              /\ OneSeen(Compared(delta, k, p, q), Compared(0 - delta, k, r, t), Larger(delta))
<1>1. PICK there, back, larger :
        /\ there = Compared(delta, k, p, q) /\ back = Compared(0 - delta, k, r, t)
        /\ larger = Larger(delta)
  OBVIOUS
<1>2. /\ there = IF delta > k \/ (delta = k /\ p) THEN "WORSENING"
                 ELSE IF delta < 0 - k \/ (delta = 0 - k /\ q) THEN "IMPROVING"
                 ELSE "STABLE"
      /\ back = IF 0 - delta > k \/ (0 - delta = k /\ r) THEN "WORSENING"
                ELSE IF 0 - delta < 0 - k \/ (0 - delta = 0 - k /\ t) THEN "IMPROVING"
                ELSE "STABLE"
      /\ larger = IF delta > 0 THEN "WORSENING" ELSE "IMPROVING"
  BY <1>1, Zenon DEF Compared, Larger
<1>3. /\ Opposite["WORSENING"] = "IMPROVING" /\ Opposite["IMPROVING"] = "WORSENING"
      /\ Opposite["STABLE"] = "STABLE"
  BY DEF Opposite
<1> SUFFICES \/ back = Opposite[there]
             \/ /\ delta = k \/ delta = 0 - k
                /\ OneSeen(there, back, larger)
  BY <1>1, Zenon
<1>4. CASE delta > k
  <2>1. there = "WORSENING" /\ back = "IMPROVING"
    BY <1>2, <1>4
  <2> QED
    BY <1>3, <2>1, Zenon
<1>5. CASE delta < 0 - k
  <2>1. there = "IMPROVING" /\ back = "WORSENING"
    BY <1>2, <1>5
  <2> QED
    BY <1>3, <2>1, Zenon
<1>6. CASE delta < k /\ delta > 0 - k
  <2>1. there = "STABLE" /\ back = "STABLE"
    BY <1>2, <1>6
  <2> QED
    BY <1>3, <2>1, Zenon
<1>7. CASE delta = k
  <2>1. /\ there = "WORSENING" \/ there = "STABLE"
        /\ back = "IMPROVING" \/ back = "STABLE"
        /\ larger = "WORSENING"
    BY <1>2, <1>7
  <2> QED
    BY <1>3, <1>7, <2>1, Zenon DEF OneSeen
<1>8. CASE delta = 0 - k
  <2>1. /\ there = "IMPROVING" \/ there = "STABLE"
        /\ back = "WORSENING" \/ back = "STABLE"
        /\ larger = "IMPROVING"
    BY <1>2, <1>8
  <2> QED
    BY <1>3, <1>8, <2>1, Zenon DEF OneSeen
<1> QED
  BY <1>4, <1>5, <1>6, <1>7, <1>8

\* The reputation's trend, turned.
LEMMA ReputationTurned ==
    ASSUME NEW s \in Seq(Scores), NEW c \in Scores
    PROVE  \/ ReputationTrend(Turned(s), 100 - c) = Opposite[ReputationTrend(s, c)]
           \/ /\ TenApart(s, c)
              /\ OneSeen(ReputationTrend(s, c), ReputationTrend(Turned(s), 100 - c),
                         Heading(s, c))
<1>1. PICK w \in Seq(Scores) : /\ w = Append(s, c) /\ w # << >>
                               /\ Append(Turned(s), 100 - c) = Turned(w)
  BY TurnedAppend, ZenonT(60)
<1>2. PICK t : t = Turned(w)
  OBVIOUS
<1>3. PICK n \in Nat \ {0} : n = Len(w) /\ n = Len(t)
  BY <1>1, <1>2, TurnedAre, EmptySeq
<1>4. PICK v \in Seq(Scores) :
        v = LastTen(w) /\ Turned(v) = LastTen(t) /\ (n >= 3 => Len(v) >= 3)
  <2>0. /\ LastTen(w) = IF n <= 10 THEN w ELSE SubSeq(w, n - 9, n)
        /\ LastTen(t) = IF n <= 10 THEN t ELSE SubSeq(t, n - 9, n)
    BY <1>3, Zenon DEF LastTen
  <2>1. CASE n <= 10
    BY <1>2, <1>3, <2>0, <2>1
  <2>2. CASE ~(n <= 10)
    <3>1. PICK a \in Nat \ {0} : a = n - 9 /\ a <= n /\ n - a + 1 = 10
      BY <2>2
    <3>2. n <= Len(w)
      <4>1. n <= n
        OBVIOUS
      <4> QED
        BY <1>3, <4>1, Zenon
    <3>3. PICK x \in Seq(Scores) : x = SubSeq(w, a, n) /\ Len(x) = n - a + 1
                                   /\ SubSeq(t, a, n) = Turned(x)
      BY <1>2, <3>1, <3>2, TurnedPart, ZenonT(60)
    <3>4. Len(x) >= 3
      <4>1. 10 >= 3
        OBVIOUS
      <4> QED
        BY <3>1, <3>3, <4>1, Zenon
    <3> QED
      BY <2>0, <2>2, <3>1, <3>3, <3>4, Zenon
  <2> QED
    BY <2>1, <2>2
<1>5. PICK u : u = Turned(v)
  OBVIOUS
<1>6. PICK m \in Nat : m = Len(v) /\ m = Len(u) /\ (n >= 3 => m >= 3)
  BY <1>4, <1>5, TurnedAre
<1>7. PICK mid \in Nat : mid = m \div 2
  OBVIOUS
<1>8. CASE n >= 3
  <2>1. mid >= 1 /\ mid <= m
    BY <1>6, <1>7, <1>8
  <2>2. PICK a \in Nat \ {0} : a = m - mid + 1 /\ a <= m /\ m - a + 1 = mid
    BY <2>1
  <2>3. m <= Len(v) /\ mid <= Len(v)
    <3>1. m <= m
      OBVIOUS
    <3> QED
      BY <1>6, <2>1, <3>1, Zenon
  <2>4. PICK x \in Seq(Scores) : /\ x = SubSeq(v, a, m) /\ Len(x) = m - a + 1
                                 /\ SubSeq(u, a, m) = Turned(x)
    <3>1. /\ SubSeq(v, a, m) \in Seq(Scores) /\ Len(SubSeq(v, a, m)) = m - a + 1
          /\ SubSeq(Turned(v), a, m) = Turned(SubSeq(v, a, m))
      BY <2>2, <2>3, TurnedPart
    <3> QED
      BY <1>5, <3>1, Zenon
  <2>5. PICK y \in Seq(Scores) : /\ y = SubSeq(v, 1, mid) /\ Len(y) = mid - 1 + 1
                                 /\ SubSeq(u, 1, mid) = Turned(y)
    <3>1. PICK b \in Nat \ {0} : b = 1 /\ b <= mid
      BY <2>1
    <3>2. /\ SubSeq(v, b, mid) \in Seq(Scores) /\ Len(SubSeq(v, b, mid)) = mid - b + 1
          /\ SubSeq(Turned(v), b, mid) = Turned(SubSeq(v, b, mid))
      BY <2>3, <3>1, TurnedPart
    <3> QED
      BY <1>5, <3>1, <3>2, Zenon
  <2>6. Len(x) = mid /\ Len(y) = mid
    <3>1. mid - 1 + 1 = mid
      OBVIOUS
    <3> QED
      BY <2>2, <2>4, <2>5, <3>1, Zenon
  <2>7. PICK late \in Int : SumOf(x) = late /\ SumOf(Turned(x)) = 100 * mid - late
    BY <2>6, SumTurned
  <2>8. PICK early \in Int : SumOf(y) = early /\ SumOf(Turned(y)) = 100 * mid - early
    BY <2>6, SumTurned, ZenonT(60)
  <2>9. PICK delta \in Int : /\ delta = late - early
                             /\ (100 * mid - late) - (100 * mid - early) = 0 - delta
    OBVIOUS
  <2>10. ~(n < 3)
    BY <1>8
  <2>11. Rise(v, mid) = delta /\ Rise(u, mid) = 0 - delta
    <3>1. /\ Rise(v, mid) = SumOf(SubSeq(v, a, m)) - SumOf(SubSeq(v, 1, mid))
          /\ Rise(u, mid) = SumOf(SubSeq(u, a, m)) - SumOf(SubSeq(u, 1, mid))
      BY <1>6, <2>2, Zenon DEF Rise
    <3>2. /\ Rise(v, mid) = late - early
          /\ Rise(u, mid) = (100 * mid - late) - (100 * mid - early)
      BY <2>4, <2>5, <2>7, <2>8, <3>1, ZenonT(60)
    <3> QED
      BY <2>9, <3>2, Zenon
  <2>12. PICK k \in Nat \ {0} :
           k = 10 * mid /\ -10 * mid = 0 - k
    BY <2>1
  <2>13. PICK p \in BOOLEAN, q \in BOOLEAN, r \in BOOLEAN, h \in BOOLEAN :
           /\ p <=> Drift(v, mid) >= -32 * mid
           /\ q <=> Drift(v, mid) <= 32 * mid
           /\ r <=> Drift(u, mid) >= -32 * mid
           /\ h <=> Drift(u, mid) <= 32 * mid
    BY Decided, Zenon
  <2>14. PICK there, back : /\ there = ReputationTrend(s, c)
                            /\ back = ReputationTrend(Turned(s), 100 - c)
    OBVIOUS
  <2>15. there = Compared(delta, k, p, q)
    <3>1. there = IF delta > 10 * mid \/ (delta = 10 * mid /\ Drift(v, mid) >= -32 * mid)
                  THEN "WORSENING"
                  ELSE IF delta < -10 * mid \/ (delta = -10 * mid /\ Drift(v, mid) <= 32 * mid)
                  THEN "IMPROVING"
                  ELSE "STABLE"
      BY <1>1, <1>3, <1>4, <1>6, <1>7, <2>10, <2>11, <2>14, Zenon DEF ReputationTrend
    <3> QED
      BY <2>12, <2>13, <3>1, Zenon DEF Compared
  <2>16. back = Compared(0 - delta, k, r, h)
    <3>1. back = IF 0 - delta > 10 * mid
                        \/ (0 - delta = 10 * mid /\ Drift(u, mid) >= -32 * mid)
                 THEN "WORSENING"
                 ELSE IF 0 - delta < -10 * mid
                        \/ (0 - delta = -10 * mid /\ Drift(u, mid) <= 32 * mid)
                 THEN "IMPROVING"
                 ELSE "STABLE"
      BY <1>1, <1>2, <1>3, <1>4, <1>5, <1>6, <1>7, <2>10, <2>11, <2>14, ZenonT(60)
         DEF ReputationTrend
    <3> QED
      BY <2>12, <2>13, <3>1, Zenon DEF Compared
  <2>17. /\ Heading(s, c) = Larger(delta)
         /\ delta = k \/ delta = 0 - k => TenApart(s, c)
    <3>1. /\ Heading(s, c) = IF Rise(v, mid) > 0 THEN "WORSENING" ELSE "IMPROVING"
          /\ TenApart(s, c) <=> AbsValue(Rise(v, mid)) = 10 * mid
      BY <1>1, <1>4, <1>6, <1>7, Zenon DEF Heading, TenApart
    <3>2. delta = k \/ delta = 0 - k => AbsValue(delta) = k
      BY DEF AbsValue
    <3> QED
      BY <2>11, <2>12, <3>1, <3>2, Zenon DEF Larger
  <2>18. \/ Compared(0 - delta, k, r, h) = Opposite[Compared(delta, k, p, q)]
         \/ /\ delta = k \/ delta = 0 - k
            /\ OneSeen(Compared(delta, k, p, q), Compared(0 - delta, k, r, h), Larger(delta))
    BY Mirrored
  <2> QED
    BY <2>14, <2>15, <2>16, <2>17, <2>18, Zenon
<1>9. CASE ~(n >= 3)
  <2>1. n < 3
    BY <1>9
  <2>2. ReputationTrend(s, c) = "UNKNOWN" /\ ReputationTrend(Turned(s), 100 - c) = "UNKNOWN"
    BY <1>1, <1>2, <1>3, <2>1, Zenon DEF ReputationTrend
  <2>3. Opposite["UNKNOWN"] = "UNKNOWN"
    BY DEF Opposite
  <2> QED
    BY <2>2, <2>3
<1> QED
  BY <1>8, <1>9

\* The timeline is one of scores, of any length.
TimelineInv == timeline \in Seq(Scores)

\* Whatever is observed.
LEMMA TimelineInvariant == TrendSpec => []TimelineInv
<1>1. TrendInit => TimelineInv
  BY EmptySeq DEF TrendInit, TimelineInv
<1>2. TimelineInv /\ [TrendNext]_timeline => TimelineInv'
  <2>1. ASSUME TimelineInv, NEW score \in RiskScores, Observe(score)
        PROVE  TimelineInv'
    <3>1. score \in Scores
      BY ScoresAssumption DEF Scores
    <3> QED
      BY <2>1, <3>1, AppendProperties DEF Observe, TimelineInv
  <2> QED
    BY <2>1 DEF TrendNext, TimelineInv
<1> QED
  BY <1>1, <1>2, PTL DEF TrendSpec

(* A history that goes down where another goes up gets the opposite trend, at *)
(* every threshold and whatever rounding does to the averages: at a distance  *)
(* of exactly ten points it may turn one of the two directions into STABLE,   *)
(* and no more (analyze_trend, detect_trend).                                 *)
THEOREM NoDirectionFavoured == TrendSpec => []TrendMirrored
<1>1. TimelineInv => TrendMirrored
  <2>1. \A current \in RiskScores : current \in Scores
    BY ScoresAssumption DEF Scores
  <2> QED
    BY <2>1, TimelineTurned, ReputationTurned DEF TrendMirrored, TimelineInv, OneSeen
<1> QED
  BY <1>1, TimelineInvariant, PTL
================================================================================
