------------------------------ MODULE StoreProofs ------------------------------
(* The tables of the database stay within their limits, trust and histories   *)
(* mean what they say, and migrations lose nothing; for any number of         *)
(* processes at work on the database and any limits.                          *)
EXTENDS Database, FiniteSetTheorems, TLAPS

--------------------------------------------------------------------------------
(* Types.                                                                     *)

\* What a calculation comes to is a score and a risk.
LEMMA ResultsTyped ==
  ASSUME NEW t \in BOOLEAN
  PROVE  Results(t) \subseteq Result
<1> SUFFICES ASSUME NEW m \in Measured
             PROVE  [score |-> IF t THEN 0 ELSE m.score,
                     risk  |-> RiskLevel(m.score, m.evidence, t)] \in Result
  BY DEF Results
<1>1. m.score \in 0..100
  BY ReputationAssumption
<1>2. RiskLevel(m.score, m.evidence, t) \in Risks
  BY DEF RiskLevel, Risks
<1> QED
  BY <1>1, <1>2 DEF Result

\* Recording a change keeps a history within its limit.
LEMMA RecordedFits ==
  ASSUME NEW before \in Seq(Risks), NEW old, NEW new \in Result, Len(before) <= HistoryLimit
  PROVE  /\ Recorded(before, old, new) \in Seq(Risks)
         /\ Len(Recorded(before, old, new)) <= HistoryLimit
<1> DEFINE all == IF MeaningfulChange(old, new) THEN Append(before, new.risk) ELSE before
<1>1. new.risk \in Risks
  BY DEF Result
<1>2. all \in Seq(Risks) /\ Len(all) \in Nat
  BY <1>1
<1> HIDE DEF all
<1>3. CASE Len(all) > HistoryLimit
  <2>1. Len(all) - HistoryLimit + 1 \in 1..Len(all)
    BY <1>2, <1>3, ReputationAssumption
  <2>2. SubSeq(all, Len(all) - HistoryLimit + 1, Len(all)) \in Seq(Risks)
    BY <1>2, <2>1
  <2>3. Len(SubSeq(all, Len(all) - HistoryLimit + 1, Len(all))) = HistoryLimit
    BY <1>2, <2>1, ReputationAssumption
  <2> QED
    BY <1>3, <2>2, <2>3 DEF Recorded, all, MeaningfulChange
<1>4. CASE ~(Len(all) > HistoryLimit)
  BY <1>2, <1>4, ReputationAssumption DEF Recorded, all, MeaningfulChange
<1> QED
  BY <1>3, <1>4

\* A save keeps profiles and histories well formed.
LEMMA SaveKeepsStore ==
  ASSUME TypeOK, NEW a \in Analysts, Save(a)
  PROVE  StoreOK'
<1>1. PICK new \in Results(trust[a]) :
        LET n == number[a]
            upserted == [profile EXCEPT ![n] =
                           [score |-> new.score, risk |-> new.risk, updated |-> clock]]
        IN  \E gone \in Prunable(upserted) :
              /\ profile' = [m \in Numbers |-> IF m \in gone THEN NoProfile ELSE upserted[m]]
              /\ history' = [m \in Numbers |->
                               IF m \in gone THEN <<>>
                               ELSE IF m = n THEN Recorded(history[m], previous[a], new)
                               ELSE history[m]]
  BY DEF Save
<1> DEFINE n == number[a]
           row == [score |-> new.score, risk |-> new.risk, updated |-> clock]
           upserted == [profile EXCEPT ![n] = row]
<1>2. PICK gone \in Prunable(upserted) :
        /\ profile' = [m \in Numbers |-> IF m \in gone THEN NoProfile ELSE upserted[m]]
        /\ history' = [m \in Numbers |->
                         IF m \in gone THEN <<>>
                         ELSE IF m = n THEN Recorded(history[m], previous[a], new)
                         ELSE history[m]]
  BY <1>1
<1>3. n \in Numbers /\ new \in Result /\ row \in Profile
  <2>1. n \in Numbers /\ trust[a] \in BOOLEAN
    BY DEF Save, TypeOK, JobsOK
  <2>2. new \in Result
    BY <2>1, ResultsTyped
  <2> QED
    BY <2>1, <2>2 DEF Result, Profile, TypeOK
<1>4. upserted \in [Numbers -> Profile \union {NoProfile}] /\ upserted[n] # NoProfile
  BY <1>3, NoProfileAssumption DEF TypeOK, StoreOK
<1> HIDE DEF row
<1>5. profile' \in [Numbers -> Profile \union {NoProfile}]
  BY <1>2, <1>4
<1>6. \A m \in Numbers : /\ Recorded(history[m], previous[a], new) \in Seq(Risks)
                        /\ Len(Recorded(history[m], previous[a], new)) <= HistoryLimit
  BY <1>3, RecordedFits DEF TypeOK, StoreOK
<1>7. \A m \in Numbers : history'[m] \in Seq(Risks) /\ Len(history'[m]) <= HistoryLimit
  <2> SUFFICES ASSUME NEW m \in Numbers
               PROVE  history'[m] \in Seq(Risks) /\ Len(history'[m]) <= HistoryLimit
    OBVIOUS
  <2>1. history'[m] \in {<<>>, Recorded(history[m], previous[a], new), history[m]}
    BY <1>2
  <2>2. <<>> \in Seq(Risks) /\ Len(<<>>) <= HistoryLimit
    BY ReputationAssumption
  <2> QED
    BY <2>1, <2>2, <1>6 DEF TypeOK, StoreOK
<1>8. history' \in [Numbers -> Seq(Risks)]
  BY <1>2, <1>7
<1>9. \A m \in Numbers : profile'[m] = NoProfile => history'[m] = <<>>
  <2> SUFFICES ASSUME NEW m \in Numbers, profile'[m] = NoProfile
               PROVE  history'[m] = <<>>
    OBVIOUS
  <2>1. CASE m \in gone
    BY <1>2, <2>1
  <2>2. CASE m \notin gone
    <3>1. upserted[m] = NoProfile /\ m # n
      BY <1>2, <1>4, <2>2
    <3>2. profile[m] = NoProfile
      BY <3>1 DEF TypeOK, StoreOK
    <3> QED
      BY <1>2, <2>2, <3>1, <3>2 DEF TypeOK, StoreOK
  <2> QED
    BY <2>1, <2>2
<1> QED
  BY <1>5, <1>7, <1>8, <1>9 DEF StoreOK

\* Every step keeps the types of the calculations.
LEMMA JobsStep ==
  ASSUME TypeOK, [Next]_vars
  PROVE  JobsOK'
<1> USE DEF TypeOK, JobsOK, Pcs
<1>1. ASSUME NEW a \in Analysts, NEW n \in Numbers, Begin(a, n)
      PROVE  JobsOK'
  BY <1>1 DEF Begin, LookUpTrust, Live
<1>2. ASSUME NEW a \in Analysts, Expire(a) \/ TrustAgain(a)
      PROVE  JobsOK'
  BY <1>2 DEF Expire, TrustAgain, LookUpTrust
<1>3. ASSUME NEW a \in Analysts, ReadProfile(a)
      PROVE  JobsOK'
  <2>1. ResultIn(number[a]) \in Result \union {NoProfile}
    BY <1>3 DEF ReadProfile, ResultIn, Result, Profile, StoreOK
  <2> QED
    BY <1>3, <2>1 DEF ReadProfile
<1>4. ASSUME NEW a \in Analysts, Return(a)
      PROVE  JobsOK'
  BY <1>4 DEF Return
<1>5. CASE UNCHANGED jobVars
  BY <1>5 DEF jobVars
<1>6. ASSUME NEW a \in Analysts, Calculate(a)
      PROVE  JobsOK'
  BY <1>6, <1>1, <1>2, <1>3, <1>4 DEF Calculate, Save, Fail
<1> QED
  BY <1>5, <1>6 DEF Next, TrustCommand, SetTrust, RemoveTrust, Tick, vars, jobVars

\* Every step keeps the type of the trust table.
LEMMA TrustStep ==
  ASSUME TypeOK, [Next]_vars
  PROVE  TrustOK'
<1> USE DEF TypeOK, TrustOK
<1>1. ASSUME NEW n \in Numbers, TrustCommand(n)
      PROVE  TrustOK'
  <2>1. \A d \in Lifetimes : clock + d \in Nat
    BY ReputationAssumption
  <2> QED
    BY <1>1, <2>1 DEF TrustCommand, SetTrust, RemoveTrust
<1>2. ASSUME NEW a \in Analysts, DeleteExpired(a)
      PROVE  TrustOK'
  BY <1>2 DEF DeleteExpired
<1>3. CASE UNCHANGED expires
  BY <1>3
<1> QED
  BY <1>1, <1>2, <1>3
  DEF Next, Calculate, Begin, Expire, ReadProfile, TrustAgain, Save, Fail, Tick, vars

\* Every step keeps the type invariant, part by part.
LEMMA TypeStep ==
  ASSUME TypeOK, [Next]_vars
  PROVE  TypeOK'
<1>1. StoreOK'
  <2>1. CASE \E a \in Analysts : Save(a)
    BY <2>1, SaveKeepsStore
  <2>2. CASE UNCHANGED storeVars
    BY <2>2 DEF storeVars, TypeOK, StoreOK
  <2> QED
    BY <2>1, <2>2 DEF Next, Calculate, Begin, Expire, ReadProfile, TrustAgain, Fail,
       TrustCommand, SetTrust, RemoveTrust, Tick, vars, storeVars
<1>2. clock' \in Nat
  BY DEF TypeOK, Next, Calculate, Begin, Expire, ReadProfile, TrustAgain, Save, Fail,
     TrustCommand, SetTrust, RemoveTrust, Tick, vars
<1> QED
  BY <1>1, <1>2, JobsStep, TrustStep DEF TypeOK

LEMMA InitTyped == Init => TypeOK
BY ReputationAssumption DEF Init, TypeOK, StoreOK, TrustOK, JobsOK, Pcs

\* Types, for any number of calculations and commands; a history never outgrows its limit
\* nor its profile (save_profile, get_trust, set_trust).
THEOREM TypeCorrect == Spec => []TypeOK
<1>1. TypeOK /\ [Next]_vars => TypeOK'
  BY TypeStep
<1> QED
  BY <1>1, InitTyped, PTL DEF Spec

--------------------------------------------------------------------------------
(* Trust.                                                                     *)

\* A step other than a trust command adds nobody to the trusted numbers.
LEMMA OthersTrustNobody ==
  ASSUME TypeOK, Next, ~\E n \in Numbers : TrustCommand(n)
  PROVE  Trusted' \subseteq Trusted
<1>1. CASE UNCHANGED expires
  BY <1>1 DEF Trusted
<1>2. ASSUME NEW a \in Analysts, DeleteExpired(a)
      PROVE  Trusted' \subseteq Trusted
  BY <1>2 DEF DeleteExpired, Trusted, TypeOK, TrustOK
<1> QED
  BY <1>1, <1>2 DEF Next, Calculate, Begin, Expire, ReadProfile, TrustAgain, Save, Fail, Tick

\* set_trust purges before it counts and refuses at the limit.
LEMMA SetTrustFits ==
  ASSUME TypeOK, TrustBounded, NEW n \in Numbers, NEW e, SetTrust(n, e)
  PROVE  TrustBounded'
<1>1. Trusted' \subseteq Unexpired \union {n}
  BY DEF SetTrust, Trusted, Unexpired, Live, ExpiredAt, TypeOK, TrustOK
<1>2. Unexpired \subseteq Trusted /\ Trusted \subseteq Numbers
  BY DEF Unexpired, Live, Trusted
<1>3. IsFiniteSet(Unexpired) /\ IsFiniteSet(Trusted)
  BY <1>2, FS_Subset, ReputationAssumption
<1>4. Cardinality(Unexpired) <= Cardinality(Trusted)
      /\ Cardinality(Unexpired) \in Nat /\ Cardinality(Trusted) \in Nat
  BY <1>2, <1>3, FS_Subset, FS_CardinalityType
<1>5. IsFiniteSet(Unexpired \union {n}) /\ Cardinality(Unexpired \union {n}) <= TrustLimit
  <2>1. /\ IsFiniteSet(Unexpired \union {n})
        /\ Cardinality(Unexpired \union {n}) =
             IF n \in Unexpired THEN Cardinality(Unexpired) ELSE Cardinality(Unexpired) + 1
    BY <1>3, FS_AddElement
  <2>2. n \in Unexpired \/ Cardinality(Unexpired) < TrustLimit
    BY <1>4, ReputationAssumption DEF SetTrust, Full
  <2> QED
    BY <2>1, <2>2, <1>4, ReputationAssumption DEF TrustBounded
<1>6. Cardinality(Trusted') <= Cardinality(Unexpired \union {n})
      /\ Cardinality(Trusted') \in Nat /\ Cardinality(Unexpired \union {n}) \in Nat
  BY <1>1, <1>5, FS_Subset, FS_CardinalityType
<1> QED
  BY <1>5, <1>6, ReputationAssumption DEF TrustBounded

\* Whatever happens to trusted numbers, they stay within the limit if none is added.
LEMMA FewerTrusted ==
  ASSUME TrustBounded, Trusted' \subseteq Trusted
  PROVE  TrustBounded'
<1>1. IsFiniteSet(Trusted)
  BY FS_Subset, ReputationAssumption DEF Trusted
<1>2. Cardinality(Trusted') <= Cardinality(Trusted)
      /\ Cardinality(Trusted') \in Nat /\ Cardinality(Trusted) \in Nat
  BY <1>1, FS_Subset, FS_CardinalityType
<1> QED
  BY <1>2, ReputationAssumption DEF TrustBounded

\* Every step keeps the trust table within its limit.
LEMMA TrustBoundStep ==
  ASSUME TypeOK, TrustBounded, [Next]_vars
  PROVE  TrustBounded'
<1>1. ASSUME NEW n \in Numbers, TrustCommand(n)
      PROVE  TrustBounded'
  <2>1. CASE RemoveTrust(n)
    BY <2>1, FewerTrusted DEF RemoveTrust, Trusted, TypeOK, TrustOK
  <2> QED
    BY <1>1, <2>1, SetTrustFits DEF TrustCommand
<1>2. CASE UNCHANGED vars
  BY <1>2, FewerTrusted DEF vars, Trusted
<1> QED
  BY <1>1, <1>2, OthersTrustNobody, FewerTrusted

\* The trust table never holds more rows than trust_record_limit (set_trust).
THEOREM TrustLimited == Spec => []TrustBounded
<1>1. Init => TrustBounded
  <2> SUFFICES ASSUME Init PROVE TrustBounded
    OBVIOUS
  <2>1. Trusted = {}
    BY DEF Init, Trusted
  <2> QED
    BY <2>1, FS_EmptySet, ReputationAssumption DEF TrustBounded
<1>2. TypeOK /\ TrustBounded /\ [Next]_vars => TrustBounded'
  BY TrustBoundStep
<1> QED
  BY <1>1, <1>2, TypeCorrect, PTL DEF Spec

\* What a get_trust compares with stays in the past: the clock does not go back.
LEMMA SinceStep ==
  ASSUME TypeOK, SinceIsPast, [Next]_vars
  PROVE  SinceIsPast'
<1> USE DEF TypeOK, JobsOK, SinceIsPast
<1>1. ASSUME NEW a \in Analysts, Calculate(a)
      PROVE  SinceIsPast'
  BY <1>1 DEF Calculate, Begin, Expire, ReadProfile, TrustAgain, Save, Fail, Return, LookUpTrust
<1>2. CASE Tick
  BY <1>2 DEF Tick, jobVars
<1>3. ASSUME NEW n \in Numbers, TrustCommand(n)
      PROVE  SinceIsPast'
  BY <1>3 DEF TrustCommand, SetTrust, RemoveTrust, jobVars
<1> QED
  BY <1>1, <1>2, <1>3 DEF Next, vars, jobVars

\* A calculation deletes no trust that is in force, however long ago it found the row
\* expired (get_trust); nor does the purge of set_trust.
LEMMA LiveTrustKept ==
  ASSUME TypeOK, SinceIsPast, [Next]_vars, NEW n \in Numbers, Live(n), n \notin Trusted'
  PROVE  RemoveTrust(n)
<1>1. expires[n] # NoRow /\ expires[n] \in Nat \union {Never} /\ expires'[n] = NoRow
  BY DEF Live, Trusted, TypeOK, TrustOK
<1>2. ASSUME NEW a \in Analysts, DeleteExpired(a)
      PROVE  FALSE
  <2>1. since[a] \in Nat /\ since[a] <= clock /\ clock \in Nat
    BY DEF TypeOK, JobsOK, SinceIsPast
  <2>2. number[a] = n /\ ExpiredAt(n, since[a])
    BY <1>1, <1>2 DEF DeleteExpired, TypeOK, TrustOK
  <2> QED
    BY <1>1, <2>1, <2>2 DEF ExpiredAt, Live
<1>3. ASSUME NEW m \in Numbers, NEW e \in {clock + d : d \in Lifetimes} \union {Never}, SetTrust(m, e)
      PROVE  FALSE
  <2>1. clock \in Nat
    BY DEF TypeOK
  <2>2. CASE e = Never
    BY <1>1, <1>3, <2>2, ReputationAssumption DEF SetTrust, Live
  <2>3. CASE \E d \in Lifetimes : e = clock + d
    <3>1. PICK d \in Lifetimes : e = clock + d
      BY <2>3
    <3>2. d \in Nat
      BY ReputationAssumption
    <3>3. e \in Int
      BY <2>1, <3>1, <3>2
    <3>4. e # NoRow
      BY <3>3, ReputationAssumption
    <3> QED
      BY <1>1, <1>3, <3>4 DEF SetTrust, Live
  <2> QED
    BY <1>3, <2>2, <2>3
<1>4. ASSUME NEW m \in Numbers, RemoveTrust(m)
      PROVE  m = n
  BY <1>1, <1>4 DEF RemoveTrust, TypeOK, TrustOK
<1>5. ~UNCHANGED expires
  BY <1>1
<1> QED
  BY <1>2, <1>3, <1>4, <1>5
  DEF Next, Calculate, TrustCommand, Begin, Expire, ReadProfile, TrustAgain, Save, Fail, Tick, vars

\* Trust in force ends by an untrust command alone (get_trust, set_trust).
THEOREM TrustStays == Spec => LiveTrustStays
<1>1. Init => SinceIsPast
  BY DEF Init, SinceIsPast
<1>2. TypeOK /\ SinceIsPast /\ [Next]_vars => SinceIsPast'
  BY SinceStep
<1>3. TypeOK /\ SinceIsPast /\ [Next]_vars =>
        [\A n \in Numbers : Live(n) /\ n \notin Trusted' => RemoveTrust(n)]_vars
  BY LiveTrustKept
<1> QED
  BY <1>1, <1>2, <1>3, TypeCorrect, PTL DEF Spec, LiveTrustStays

--------------------------------------------------------------------------------
(* Profiles.                                                                  *)

\* After pruning there are no more profiles than the limit, or only trusted ones.
LEMMA PrunedFits ==
  ASSUME TrustBounded, NEW profiles, NEW gone \in Prunable(profiles)
  PROVE  Cardinality({n \in Numbers : profiles[n] # NoProfile} \ gone)
             <= Larger(ProfileLimit, TrustLimit)
<1> DEFINE all == {n \in Numbers : profiles[n] # NoProfile}
           kept == all \ gone
<1> SUFFICES Cardinality(kept) <= Larger(ProfileLimit, TrustLimit)
  OBVIOUS
<1>1. gone \subseteq Untrusted(profiles) /\ Untrusted(profiles) \subseteq all
  BY DEF Prunable, Untrusted
<1>2. IsFiniteSet(all) /\ Cardinality(all) \in Nat
  <2>1. all \in SUBSET Numbers
    OBVIOUS
  <2> QED
    BY <2>1, FS_Subset, FS_CardinalityType, ReputationAssumption
<1>3. /\ IsFiniteSet(gone) /\ IsFiniteSet(kept)
      /\ Cardinality(gone) \in Nat /\ Cardinality(kept) \in Nat
      /\ Cardinality(kept) = Cardinality(all) - Cardinality(gone)
  <2>1. gone \in SUBSET all /\ all \cap gone = gone /\ kept \in SUBSET all
    BY <1>1
  <2>2. IsFiniteSet(gone) /\ IsFiniteSet(kept)
    BY <1>2, <2>1, FS_Subset
  <2>3. Cardinality(kept) = Cardinality(all) - Cardinality(all \cap gone)
    BY <1>2, FS_Difference
  <2> QED
    BY <2>1, <2>2, <2>3, FS_CardinalityType
<1>4. Excess(profiles) = Cardinality(all) - ProfileLimit
  BY DEF Excess
<1> HIDE DEF all, kept
<1>5. CASE Excess(profiles) <= 0
  BY <1>2, <1>3, <1>4, <1>5, ReputationAssumption DEF Larger
<1>6. CASE Cardinality(gone) = Excess(profiles)
  BY <1>2, <1>3, <1>4, <1>6, ReputationAssumption DEF Larger
<1>7. CASE gone = Untrusted(profiles)
  <2>1. kept \in SUBSET Trusted
    BY <1>7 DEF kept, all, Untrusted
  <2>2. IsFiniteSet(Trusted) /\ Cardinality(Trusted) \in Nat
    BY FS_Subset, FS_CardinalityType, ReputationAssumption DEF Trusted
  <2>3. Cardinality(kept) <= Cardinality(Trusted)
    BY <2>1, <2>2, FS_Subset
  <2> QED
    BY <1>3, <2>2, <2>3, ReputationAssumption DEF TrustBounded, Larger
<1> QED
  BY <1>5, <1>6, <1>7 DEF Prunable

\* Every step keeps the number of profiles within the larger of the two limits.
LEMMA ProfilesStep ==
  ASSUME TypeOK, TrustBounded, ProfilesBounded, [Next]_vars
  PROVE  ProfilesBounded'
<1>1. CASE UNCHANGED profile
  BY <1>1 DEF ProfilesBounded, Profiled
<1>2. ASSUME NEW a \in Analysts, Save(a)
      PROVE  ProfilesBounded'
  <2>1. PICK new \in Results(trust[a]) :
          \E gone \in Prunable([profile EXCEPT ![number[a]] =
                         [score |-> new.score, risk |-> new.risk, updated |-> clock]]) :
            profile' = [m \in Numbers |->
                          IF m \in gone THEN NoProfile
                          ELSE [profile EXCEPT ![number[a]] =
                                  [score |-> new.score, risk |-> new.risk,
                                   updated |-> clock]][m]]
    BY <1>2 DEF Save
  <2> DEFINE upserted == [profile EXCEPT ![number[a]] =
                            [score |-> new.score, risk |-> new.risk, updated |-> clock]]
  <2>2. PICK gone \in Prunable(upserted) :
          profile' = [m \in Numbers |-> IF m \in gone THEN NoProfile ELSE upserted[m]]
    BY <2>1
  <2> HIDE DEF upserted
  <2>3. Profiled' = {n \in Numbers : upserted[n] # NoProfile} \ gone
    BY <2>2 DEF Profiled
  <2> QED
    BY <2>3, PrunedFits DEF ProfilesBounded, Profiled
<1> QED
  BY <1>1, <1>2 DEF Next, Calculate, Begin, Expire, ReadProfile, TrustAgain, Fail, Tick,
     TrustCommand, SetTrust, RemoveTrust, storeVars, vars

\* The profile table is bounded by the larger of its own limit and that of trust, although
\* trusted profiles are never pruned (save_profile).
THEOREM ProfilesLimited == Spec => []ProfilesBounded
<1>1. Init => ProfilesBounded
  <2> SUFFICES ASSUME Init PROVE ProfilesBounded
    OBVIOUS
  <2>1. Profiled = {}
    BY DEF Init, Profiled
  <2> QED
    BY <2>1, FS_EmptySet, ReputationAssumption DEF ProfilesBounded, Larger
<1>2. TypeOK /\ TrustBounded /\ ProfilesBounded /\ [Next]_vars => ProfilesBounded'
  BY ProfilesStep
<1> QED
  BY <1>1, <1>2, TypeCorrect, TrustLimited, PTL DEF Spec

--------------------------------------------------------------------------------
(* Contacts.                                                                  *)

\* The part of ListTypeOK that contacts depend on.
ContactTypeOK ==
    /\ contacts \subseteq Phones
    /\ doing \in [Clients -> Commands]
    /\ phone \in [Clients -> Phones \union {NoPhone}]
    /\ found \in [Clients -> BOOLEAN]
    /\ rest \in [Clients -> SUBSET Phones]
    /\ \A c \in Clients : doing[c] = "import" => phone[c] \in Phones

\* A client that is about to refresh a contact; its number, which may be gone meanwhile.
Refreshing == {c \in Clients : doing[c] = "import" /\ found[c]}
Kept == contacts \union {phone[c] : c \in Refreshing}

\* A contact is added only below the limit, and then every other client can bring one
\* back at most: what they are about to bring back has to be counted already.
KeptBounded == Cardinality(Kept) <= ContactLimit + Cardinality(Clients) - 1

ContactInv == ContactTypeOK /\ KeptBounded

--------------------------------------------------------------------------------

\* What is kept is a finite set.
LEMMA KeptFinite ==
    ASSUME ContactTypeOK
    PROVE  IsFiniteSet(Kept) /\ Cardinality(Kept) \in Nat
<1>1. Kept \subseteq Phones \union {NoPhone}
  BY DEF ContactTypeOK, Kept, Refreshing
<1>2. IsFiniteSet(Phones \union {NoPhone})
  BY ListAssumption, FS_AddElement
<1> QED
  BY <1>1, <1>2, FS_Subset, FS_CardinalityType

LEMMA ClientsCounted == Cardinality(Clients) \in Nat /\ Cardinality(Clients) >= 1
<1>1. Cardinality(Clients) \in Nat
  BY ListAssumption, FS_CardinalityType
<1>2. Cardinality(Clients) # 0
  BY ListAssumption, FS_EmptySet
<1> QED
  BY <1>1, <1>2

\* A step after which no more is kept than before keeps the bound.
LEMMA NoMoreKept ==
    ASSUME ContactInv, Kept' \subseteq Kept
    PROVE  KeptBounded'
<1>1. IsFiniteSet(Kept) /\ Cardinality(Kept) \in Nat
  BY KeptFinite DEF ContactInv
<1>2. IsFiniteSet(Kept') /\ Cardinality(Kept') <= Cardinality(Kept)
  BY <1>1, FS_Subset
<1>3. Cardinality(Kept') \in Nat
  BY <1>2, FS_CardinalityType
<1>4. Cardinality(Clients) \in Nat /\ ContactLimit \in Nat
  BY ClientsCounted, ListAssumption
<1>5. Cardinality(Kept) <= ContactLimit + Cardinality(Clients) - 1
  BY DEF ContactInv, KeptBounded
<1> QED
  BY <1>1, <1>2, <1>3, <1>4, <1>5 DEF KeptBounded

\* Done leaves a client with nothing to refresh and the others as they are.
LEMMA DoneKeeps ==
    ASSUME ContactTypeOK, NEW c \in Clients, Done(c), contacts' \subseteq contacts
    PROVE  ContactTypeOK' /\ Kept' \subseteq Kept
<1>1. "nothing" \in Commands /\ FALSE \in BOOLEAN /\ {} \in SUBSET Phones
  BY DEF Commands
<1>2. ContactTypeOK'
  BY <1>1 DEF ContactTypeOK, Done
<1>3. ASSUME NEW d \in Refreshing' PROVE d \in Refreshing /\ phone'[d] = phone[d]
  <2>1. d \in Clients /\ doing'[d] = "import" /\ found'[d]
    BY <1>3 DEF Refreshing
  <2>2. d # c
    BY <2>1 DEF Done, ContactTypeOK
  <2> QED
    BY <2>1, <2>2 DEF Done, ContactTypeOK, Refreshing
<1> QED
  BY <1>2, <1>3 DEF Kept

\* Where nobody turns to another number, removing contacts leaves no more of them.
LEMMA RemovalKeeps ==
    ASSUME ContactTypeOK, contacts' \subseteq contacts, UNCHANGED clientVars
    PROVE  ContactTypeOK' /\ Kept' \subseteq Kept
BY DEF ContactTypeOK, Kept, Refreshing, clientVars

\* A client at the first number of an import, or at one to block or allow.
LEMMA BeginKeeps ==
    ASSUME ContactTypeOK, NEW c \in Clients, NEW n \in Phones, NEW t \in Commands,
           NEW imported \in SUBSET Phones, NEW was \in BOOLEAN,
           doing[c] = "nothing", contacts' = contacts,
           doing' = [doing EXCEPT ![c] = t], phone' = [phone EXCEPT ![c] = n],
           found' = [found EXCEPT ![c] = was],
           rest' = [rest EXCEPT ![c] = imported] \/ rest' = rest,
           t = "import" /\ was => n \in contacts
    PROVE  ContactTypeOK' /\ Kept' \subseteq Kept
<1>1. ContactTypeOK'
  BY DEF ContactTypeOK
<1>2. ASSUME NEW d \in Refreshing' PROVE phone'[d] \in Kept
  <2>1. d \in Clients /\ doing'[d] = "import" /\ found'[d]
    BY <1>2 DEF Refreshing
  <2>2. CASE d = c
    BY <2>1, <2>2 DEF ContactTypeOK, Kept
  <2>3. CASE d # c
    BY <2>1, <2>3 DEF ContactTypeOK, Kept, Refreshing
  <2> QED
    BY <2>2, <2>3
<1> QED
  BY <1>1, <1>2 DEF Kept

--------------------------------------------------------------------------------
(* The upsert of a contact.                                                   *)

\* What the client turns to next is a contact if it is to be refreshed.
LEMMA OnwardKeeps ==
    ASSUME ContactTypeOK, NEW c \in Clients, doing[c] = "import",
           contacts' \subseteq Phones, Onward(c)
    PROVE  /\ ContactTypeOK'
           /\ \A d \in Refreshing' : IF d = c THEN phone'[d] \in contacts'
                                     ELSE d \in Refreshing /\ phone'[d] = phone[d]
<1>1. CASE rest[c] = {} /\ Done(c)
  <2>1. "nothing" \in Commands /\ FALSE \in BOOLEAN /\ {} \in SUBSET Phones
    BY DEF Commands
  <2>2. ContactTypeOK'
    BY <1>1, <2>1 DEF ContactTypeOK, Done
  <2>3. doing'[c] = "nothing"
    BY <1>1 DEF Done, ContactTypeOK
  <2>4. \A d \in Clients \ {c} : /\ doing'[d] = doing[d] /\ found'[d] = found[d]
                                 /\ phone'[d] = phone[d]
    BY <1>1 DEF Done, ContactTypeOK
  <2> QED
    BY <2>2, <2>3, <2>4 DEF Refreshing
<1>2. CASE \E n \in rest[c] :
             /\ phone' = [phone EXCEPT ![c] = n]
             /\ found' = [found EXCEPT ![c] = n \in contacts']
             /\ rest' = [rest EXCEPT ![c] = @ \ {n}]
             /\ UNCHANGED doing
  <2>1. PICK n \in rest[c] :
             /\ phone' = [phone EXCEPT ![c] = n]
             /\ found' = [found EXCEPT ![c] = n \in contacts']
             /\ rest' = [rest EXCEPT ![c] = @ \ {n}]
             /\ UNCHANGED doing
    BY <1>2
  <2>2. n \in Phones /\ rest[c] \ {n} \in SUBSET Phones /\ (n \in contacts') \in BOOLEAN
    BY DEF ContactTypeOK
  <2>3. ContactTypeOK'
    BY <2>1, <2>2 DEF ContactTypeOK
  <2>4. phone'[c] = n /\ found'[c] = (n \in contacts')
    BY <2>1 DEF ContactTypeOK
  <2>5. \A d \in Clients \ {c} : /\ doing'[d] = doing[d] /\ found'[d] = found[d]
                                 /\ phone'[d] = phone[d]
    BY <2>1 DEF ContactTypeOK
  <2> QED
    BY <2>3, <2>4, <2>5 DEF Refreshing
<1> QED
  BY <1>1, <1>2 DEF Onward

LEMMA UpsertKeeps ==
    ASSUME ContactInv, NEW c \in Clients, UpsertContact(c)
    PROVE  ContactInv'
<1> USE DEF ContactInv
<1>1. /\ doing[c] = "import" /\ Onward(c)
      /\ contacts' = IF RefusedContact(c) THEN contacts ELSE contacts \union {phone[c]}
  BY DEF UpsertContact
<1>2. CASE RefusedContact(c)
  <2>1. contacts' = contacts
    BY <1>1, <1>2
  <2>2. /\ ContactTypeOK'
        /\ \A d \in Refreshing' : IF d = c THEN phone'[d] \in contacts'
                                  ELSE d \in Refreshing /\ phone'[d] = phone[d]
    BY <1>1, <2>1, OnwardKeeps DEF ContactTypeOK
  <2>3. Kept' \subseteq Kept
    BY <2>1, <2>2 DEF Kept
  <2> QED
    BY <2>2, <2>3, NoMoreKept
<1>3. CASE ~RefusedContact(c)
  <2>1. contacts' = contacts \union {phone[c]} /\ contacts' \subseteq Phones
    BY <1>1, <1>3 DEF ContactTypeOK
  <2>2. /\ ContactTypeOK'
        /\ \A d \in Refreshing' : IF d = c THEN phone'[d] \in contacts'
                                  ELSE d \in Refreshing /\ phone'[d] = phone[d]
    BY <1>1, <2>1, OnwardKeeps
  <2>3. CASE found[c]
    <3>1. phone[c] \in Kept
      BY <1>1, <2>3 DEF Kept, Refreshing
    <3>2. Kept' \subseteq Kept
      BY <2>1, <2>2, <3>1 DEF Kept
    <3> QED
      BY <2>2, <3>2, NoMoreKept
  <2>4. CASE ~found[c]
    <3> DEFINE Others == Clients \ {c}
               theirs == {phone[d] : d \in Others}
    <3>1. Cardinality(contacts) < ContactLimit
      <4>1. IsFiniteSet(contacts)
        BY ListAssumption, FS_Subset DEF ContactTypeOK
      <4>2. Cardinality(contacts) \in Nat /\ ContactLimit \in Nat
        BY <4>1, FS_CardinalityType, ListAssumption
      <4> QED
        BY <1>3, <2>4, <4>2 DEF RefusedContact
    <3>2. IsFiniteSet(contacts') /\ Cardinality(contacts') \in Nat
          /\ Cardinality(contacts') <= ContactLimit
      <4>1. IsFiniteSet(contacts)
        BY ListAssumption, FS_Subset DEF ContactTypeOK
      <4>2. /\ IsFiniteSet(contacts \union {phone[c]})
            /\ Cardinality(contacts \union {phone[c]}) =
                 IF phone[c] \in contacts THEN Cardinality(contacts) ELSE Cardinality(contacts) + 1
        BY <4>1, FS_AddElement
      <4>3. Cardinality(contacts) \in Nat /\ ContactLimit \in Nat
        BY <4>1, FS_CardinalityType, ListAssumption
      <4> QED
        BY <2>1, <3>1, <4>2, <4>3
    <3>3. IsFiniteSet(Others) /\ Cardinality(Others) = Cardinality(Clients) - 1
      BY ListAssumption, FS_RemoveElement
    <3>4. /\ IsFiniteSet(theirs) /\ Cardinality(theirs) \in Nat
          /\ Cardinality(theirs) <= Cardinality(Clients) - 1
      <4> DEFINE f == [d \in Others |-> phone[d]]
      <4>1. f \in Surjection(Others, theirs)
        BY DEF Surjection
      <4> HIDE DEF f, Others, theirs
      <4>2. IsFiniteSet(theirs) /\ Cardinality(theirs) <= Cardinality(Others)
        BY <3>3, <4>1, FS_Surjection
      <4> QED
        BY <3>3, <4>2, FS_CardinalityType
    <3>5. Kept' \subseteq contacts' \union theirs
      BY <2>2 DEF Kept, Refreshing
    <3> HIDE DEF Others, theirs
    <3>6. /\ IsFiniteSet(contacts' \union theirs)
          /\ Cardinality(contacts' \union theirs) <= ContactLimit + Cardinality(Clients) - 1
      <4>1. /\ IsFiniteSet(contacts' \union theirs)
            /\ Cardinality(contacts' \union theirs) =
                 Cardinality(contacts') + Cardinality(theirs) - Cardinality(contacts' \intersect theirs)
        BY <3>2, <3>4, FS_Union
      <4>2. IsFiniteSet(contacts' \intersect theirs)
        BY <3>2, FS_Subset
      <4>3. Cardinality(contacts' \intersect theirs) \in Nat
        BY <4>2, FS_CardinalityType
      <4> QED
        BY <3>2, <3>4, <4>1, <4>3, ClientsCounted, ListAssumption
    <3>7. Cardinality(Kept') <= Cardinality(contacts' \union theirs)
      BY <3>5, <3>6, FS_Subset
    <3>8. IsFiniteSet(Kept')
      BY <3>5, <3>6, FS_Subset
    <3>9. KeptBounded'
      <4>1. Cardinality(Kept') \in Nat /\ Cardinality(contacts' \union theirs) \in Nat
        BY <3>6, <3>8, FS_CardinalityType
      <4> QED
        BY <3>6, <3>7, <4>1, ClientsCounted, ListAssumption DEF KeptBounded
    <3> QED
      BY <2>2, <3>9
  <2> QED
    BY <2>3, <2>4
<1> QED
  BY <1>2, <1>3

--------------------------------------------------------------------------------

LEMMA InitKept == ListInit => ContactInv
<1> SUFFICES ASSUME ListInit PROVE ContactInv
  OBVIOUS
<1>1. "nothing" \in Commands /\ "nothing" # "import"
  BY DEF Commands
<1>2. ContactTypeOK
  BY <1>1 DEF ListInit, ContactTypeOK
<1>3. Kept = {}
  BY <1>1 DEF ListInit, Kept, Refreshing
<1>4. Cardinality({}) = 0
  BY FS_EmptySet
<1> QED
  BY <1>2, <1>3, <1>4, ClientsCounted, ListAssumption DEF ContactInv, KeptBounded

LEMMA ClientKeeps ==
    ASSUME ContactInv, NEW c \in Clients, Client(c)
    PROVE  ContactInv'
<1> USE DEF ContactInv
<1>1. ASSUME NEW n \in Phones, NEW l \in ListTypes, LookForEntry(c, n, l) PROVE ContactInv'
  <2>1. l \in Commands /\ l # "import" /\ (n \in listed[l]) \in BOOLEAN
    BY DEF ListTypes, Commands
  <2>2. /\ doing[c] = "nothing" /\ contacts' = contacts
        /\ doing' = [doing EXCEPT ![c] = l] /\ phone' = [phone EXCEPT ![c] = n]
        /\ found' = [found EXCEPT ![c] = n \in listed[l]] /\ rest' = rest
    BY <1>1 DEF LookForEntry, listVars
  <2>3. ContactTypeOK' /\ Kept' \subseteq Kept
    BY <2>1, <2>2, BeginKeeps
  <2> QED
    BY <2>3, NoMoreKept
<1>2. ASSUME NEW n \in Phones, NEW l \in ListTypes, RemoveEntry(c, n, l) PROVE ContactInv'
  <2>1. contacts' \subseteq contacts /\ UNCHANGED clientVars
    BY <1>2 DEF RemoveEntry
  <2> QED
    BY <2>1, RemovalKeeps, NoMoreKept
<1>3. CASE UpdateEntry(c) \/ InsertEntry(c) \/ FailClient(c)
  <2>1. Done(c) /\ contacts' \subseteq contacts
    BY <1>3 DEF UpdateEntry, InsertEntry, FailClient, listVars
  <2> QED
    BY <2>1, DoneKeeps, NoMoreKept
<1>4. ASSUME NEW n \in Phones, RemoveContact(c, n) \/ \E t \in LogTables : AddRow(c, t, n)
      PROVE  ContactInv'
  <2>1. contacts' \subseteq contacts /\ UNCHANGED clientVars
    BY <1>4 DEF RemoveContact, AddRow
  <2> QED
    BY <2>1, RemovalKeeps, NoMoreKept
<1>5. ASSUME NEW imported \in SUBSET Phones, NEW n \in imported, Import(c, imported, n)
      PROVE  ContactInv'
  <2>1. /\ "import" \in Commands /\ n \in Phones /\ imported \ {n} \in SUBSET Phones
        /\ (n \in contacts) \in BOOLEAN
    BY DEF Commands
  <2>2. /\ doing[c] = "nothing" /\ contacts' = contacts
        /\ doing' = [doing EXCEPT ![c] = "import"] /\ phone' = [phone EXCEPT ![c] = n]
        /\ found' = [found EXCEPT ![c] = n \in contacts]
        /\ rest' = [rest EXCEPT ![c] = imported \ {n}]
    BY <1>5 DEF Import, listVars
  <2>3. ContactTypeOK' /\ Kept' \subseteq Kept
    BY <2>1, <2>2, BeginKeeps
  <2> QED
    BY <2>3, NoMoreKept
<1>6. CASE UpsertContact(c)
  BY <1>6, UpsertKeeps
<1>7. CASE ClearContacts(c)
  <2>1. contacts' \subseteq contacts /\ UNCHANGED clientVars
    BY <1>7 DEF ClearContacts
  <2> QED
    BY <2>1, RemovalKeeps, NoMoreKept
<1> QED
  BY <1>1, <1>2, <1>3, <1>4, <1>5, <1>6, <1>7 DEF Client

LEMMA ContactStep ==
    ASSUME ContactInv, [ListNext]_listStoreVars
    PROVE  ContactInv'
<1>1. CASE ListNext
  BY <1>1, ClientKeeps DEF ListNext
<1>2. CASE UNCHANGED listStoreVars
  BY <1>2 DEF listStoreVars, listVars, clientVars, ContactInv, ContactTypeOK, KeptBounded,
              Kept, Refreshing
<1> QED
  BY <1>1, <1>2

\* What is there is part of what is counted.
LEMMA KeptMeansBounded ==
    ASSUME ContactInv
    PROVE  ContactsBounded
<1>1. IsFiniteSet(Kept) /\ Cardinality(Kept) \in Nat
  BY KeptFinite DEF ContactInv
<1>2. contacts \subseteq Kept
  BY DEF Kept
<1>3. IsFiniteSet(contacts) /\ Cardinality(contacts) <= Cardinality(Kept)
  BY <1>1, <1>2, FS_Subset
<1>4. Cardinality(contacts) \in Nat
  BY <1>3, FS_CardinalityType
<1> QED
  BY <1>1, <1>3, <1>4, ClientsCounted, ListAssumption DEF ContactInv, KeptBounded, ContactsBounded

\* However many clients import and remove contacts at the same time, the limit is exceeded
\* by no more than their number less one (ContactStore.upsert).  The inductive invariant
\* counts the contacts that are there, and those about to be refreshed.
THEOREM ContactsLimited == ListSpec => []ContactsBounded
<1>1. ContactInv /\ [ListNext]_listStoreVars => ContactInv'
  BY ContactStep
<1>2. ContactInv => ContactsBounded
  BY KeptMeansBounded
<1> QED
  BY <1>1, <1>2, InitKept, PTL DEF ListSpec

--------------------------------------------------------------------------------
(* Histories.  A step of the database is one of one part.                     *)

LEMMA PartsStep ==
    ASSUME [DatabaseNext]_allVars
    PROVE  /\ [Next]_vars
           /\ [ListNext]_listStoreVars
           /\ [BehaviorNext]_behaviorVars
<1>1. CASE ReputationStep
  BY <1>1 DEF ReputationStep
<1>2. CASE ListStep
  BY <1>2 DEF ListStep
<1>3. CASE BehaviorStep
  BY <1>3 DEF BehaviorStep
<1>4. CASE MigrationStep
  BY <1>4 DEF MigrationStep
<1>5. CASE UNCHANGED allVars
  BY <1>5 DEF allVars
<1> QED
  BY <1>1, <1>2, <1>3, <1>4, <1>5 DEF DatabaseNext

\* A change that is recorded is the newest row; what is not recorded changes nothing.
LEMMA RecordedLast ==
  ASSUME NEW before \in Seq(Risks), NEW old, NEW new \in Result, Len(before) <= HistoryLimit
  PROVE  IF MeaningfulChange(old, new)
         THEN /\ Recorded(before, old, new) # <<>>
              /\ Recorded(before, old, new)[Len(Recorded(before, old, new))] = new.risk
         ELSE Recorded(before, old, new) = before
<1>1. CASE ~MeaningfulChange(old, new)
  BY <1>1, ReputationAssumption DEF Recorded
<1>2. CASE MeaningfulChange(old, new)
  <2> DEFINE all == Append(before, new.risk)
  <2>1. new.risk \in Risks
    BY DEF Result
  <2>2. all \in Seq(Risks) /\ Len(all) \in Nat \ {0} /\ all[Len(all)] = new.risk
    BY <2>1
  <2>3. Recorded(before, old, new) =
          IF Len(all) > HistoryLimit
          THEN SubSeq(all, Len(all) - HistoryLimit + 1, Len(all)) ELSE all
    BY <1>2 DEF Recorded
  <2> HIDE DEF all
  <2>4. CASE Len(all) > HistoryLimit
    <3> DEFINE short == SubSeq(all, Len(all) - HistoryLimit + 1, Len(all))
    <3>1. Len(all) - HistoryLimit + 1 \in 1..Len(all)
      BY <2>2, <2>4, ReputationAssumption
    <3>2. short \in Seq(Risks)
      BY <2>2, <3>1
    <3>3. Len(short) = HistoryLimit
      BY <2>2, <3>1, ReputationAssumption
    <3>4. short[HistoryLimit] = all[Len(all)]
      BY <2>2, <3>1, ReputationAssumption
    <3> HIDE DEF short
    <3>5. short # <<>>
      BY <3>3, ReputationAssumption
    <3>6. Recorded(before, old, new) = short
      BY <2>3, <2>4 DEF short
    <3> QED
      BY <1>2, <2>2, <3>3, <3>4, <3>5, <3>6
  <2>5. CASE ~(Len(all) > HistoryLimit)
    <3>1. all # <<>>
      BY <2>2
    <3> QED
      BY <1>2, <2>2, <2>3, <2>5, <3>1
  <2> QED
    BY <2>4, <2>5
<1> QED
  BY <1>1, <1>2

\* A profile that a save has put back has no history yet.
RevivedBare == \A n \in revived : history[n] = <<>>

\* A save leaves a history unless it puts a profile back, and that explains the risk it
\* writes unless another calculation about the number has saved since the profile was read.
LEMMA SaveExplains ==
  ASSUME TypeOK, HistoryExplainsRisk, RevivedBare, NEW a \in Analysts, NEW n \in Numbers,
         Save(a), number[a] = n, profile'[n] # NoProfile
  PROVE  /\ n \notin revived /\ ~Revives(a) => history'[n] # <<>>
         /\ history'[n] # <<>> /\ n \notin overwritten /\ ~Overwrites(a) => Explained(n)'
<1>1. PICK new \in Results(trust[a]) :
        LET upserted == [profile EXCEPT ![number[a]] =
                           [score |-> new.score, risk |-> new.risk, updated |-> clock]]
        IN  \E gone \in Prunable(upserted) :
              /\ profile' = [m \in Numbers |-> IF m \in gone THEN NoProfile ELSE upserted[m]]
              /\ history' = [m \in Numbers |->
                               IF m \in gone THEN <<>>
                               ELSE IF m = number[a] THEN Recorded(history[m], previous[a], new)
                               ELSE history[m]]
  BY DEF Save
<1>2. new \in Result
  <2>1. trust[a] \in BOOLEAN
    BY DEF TypeOK, JobsOK
  <2> QED
    BY <2>1, ResultsTyped
<1>3. /\ profile'[n] = [score |-> new.score, risk |-> new.risk, updated |-> clock]
      /\ history'[n] = Recorded(history[n], previous[a], new)
  BY <1>1, <1>2 DEF TypeOK, StoreOK
<1>4. history[n] \in Seq(Risks) /\ Len(history[n]) <= HistoryLimit
  BY <1>2 DEF TypeOK, StoreOK
<1>5. CASE MeaningfulChange(previous[a], new)
  BY <1>2, <1>3, <1>4, <1>5, RecordedLast DEF Explained
<1>6. CASE ~MeaningfulChange(previous[a], new)
  <2>1. history'[n] = history[n]
    BY <1>2, <1>3, <1>4, <1>6, RecordedLast
  <2>2. previous[a] # NoProfile /\ previous[a].risk = new.risk
    BY <1>6 DEF MeaningfulChange
  <2>3. profile[n] = NoProfile => history[n] = <<>> /\ ResultIn(n) = NoProfile
    BY DEF TypeOK, StoreOK, ResultIn
  <2>4. profile[n] # NoProfile /\ n \notin revived => history[n] # <<>>
    BY DEF HistoryExplainsRisk, Profiled
  <2>5. ASSUME n \notin revived, ~Revives(a)
        PROVE  history'[n] # <<>>
    BY <2>1, <2>2, <2>3, <2>4, <2>5 DEF Revives, Saves
  <2>6. ASSUME history[n] # <<>>, n \notin overwritten, ~Overwrites(a)
        PROVE  Explained(n)'
    <3>1. profile[n] # NoProfile /\ n \notin revived
      BY <2>3, <2>6 DEF RevivedBare
    <3>2. history[n][Len(history[n])] = profile[n].risk
      BY <2>6, <3>1 DEF HistoryExplainsRisk, Profiled
    <3>3. ResultIn(n) = [score |-> profile[n].score, risk |-> profile[n].risk]
      BY <3>1 DEF ResultIn
    <3>4. ResultIn(n) \in Result
      <4>1. profile[n] \in Profile
        BY <3>1 DEF TypeOK, StoreOK
      <4> QED
        BY <3>3, <4>1 DEF Profile, Result
    <3>5. ResultIn(n) = previous[a]
      BY <2>6, <3>4, NoProfileAssumption DEF Overwrites, Saves
    <3>6. profile[n].risk = new.risk
      BY <2>2, <3>3, <3>5
    <3> QED
      BY <1>3, <2>1, <2>6, <3>2, <3>6 DEF Explained
  <2> QED
    BY <2>1, <2>5, <2>6
<1> QED
  BY <1>5, <1>6

\* A save touches the history of no other number but by deleting its profile.
LEMMA SaveKeepsOthers ==
  ASSUME TypeOK, NEW a \in Analysts, Save(a), NEW m \in Numbers, number[a] # m,
         profile'[m] # NoProfile
  PROVE  profile'[m] = profile[m] /\ history'[m] = history[m]
BY DEF Save, TypeOK, StoreOK

\* What explains the histories survives every step of the database.
LEMMA HistoryStep ==
  ASSUME TypeOK, HistoryExplainsRisk, RevivedBare, [DatabaseNext]_allVars
  PROVE  HistoryExplainsRisk' /\ RevivedBare'
<1>1. CASE ReputationStep
  <2>1. RevivedBare'
    BY <1>1 DEF ReputationStep, RevivedBare
  <2>2. (\E a \in Analysts : Save(a)) \/ UNCHANGED storeVars
    BY <1>1 DEF ReputationStep, Next, Calculate, Begin, Expire, ReadProfile, TrustAgain, Fail,
       TrustCommand, SetTrust, RemoveTrust, Tick
  <2>3. ASSUME NEW n \in Numbers, profile'[n] # NoProfile, n \notin revived', history'[n] = <<>>
        PROVE  FALSE
    <3>1. n \notin revived /\ \A a \in Analysts : number[a] = n => ~Revives(a)
      BY <1>1, <2>3 DEF ReputationStep
    <3>2. profile[n] # NoProfile => history[n] # <<>>
      BY <3>1 DEF HistoryExplainsRisk, Profiled
    <3>3. ASSUME NEW a \in Analysts, Save(a) PROVE FALSE
      BY <2>3, <3>1, <3>2, <3>3, SaveExplains, SaveKeepsOthers
    <3> QED
      BY <2>2, <2>3, <3>2, <3>3 DEF storeVars
  <2>4. ASSUME NEW n \in Numbers, profile'[n] # NoProfile, history'[n] # <<>>,
               n \notin overwritten', ~Explained(n)'
        PROVE  FALSE
    <3>1. n \notin overwritten /\ \A a \in Analysts : number[a] = n => ~Overwrites(a)
      BY <1>1, <2>4 DEF ReputationStep
    <3>2. profile[n] # NoProfile /\ history[n] # <<>> => Explained(n)
      BY <3>1 DEF HistoryExplainsRisk, RevivedBare, Profiled, Explained
    <3>3. CASE profile'[n] = profile[n] /\ history'[n] = history[n]
      BY <2>4, <3>2, <3>3 DEF Explained
    <3>4. ASSUME NEW a \in Analysts, Save(a) PROVE FALSE
      BY <2>4, <3>1, <3>3, <3>4, SaveExplains, SaveKeepsOthers
    <3> QED
      BY <2>2, <3>3, <3>4 DEF storeVars
  <2> QED
    BY <2>1, <2>3, <2>4 DEF HistoryExplainsRisk, Profiled, Explained
<1>2. CASE UNCHANGED <<storeVars, overwritten, revived>>
  BY <1>2 DEF HistoryExplainsRisk, RevivedBare, Profiled, storeVars
<1> QED
  BY <1>1, <1>2
  DEF DatabaseNext, ListStep, BehaviorStep, MigrationStep, allVars, vars

\* The newest row of a history explains the risk of the profile, for any number of
\* calculations, numbers and limits, through pruning and trust; if calculations about a
\* number overlap it has a history at least, and only a profile that was pruned between
\* the read and the save of a calculation may have none (save_profile, meaningful_change).
THEOREM HistoriesExplain == DatabaseSpec => []HistoryExplainsRisk
<1>1. DatabaseInit => TypeOK /\ HistoryExplainsRisk /\ RevivedBare
  BY InitTyped DEF DatabaseInit, Init, HistoryExplainsRisk, RevivedBare, Profiled
<1>2. TypeOK /\ HistoryExplainsRisk /\ RevivedBare /\ [DatabaseNext]_allVars
        => (TypeOK /\ HistoryExplainsRisk /\ RevivedBare)'
  BY TypeStep, HistoryStep, PartsStep
<1> QED
  BY <1>1, <1>2, PTL DEF DatabaseSpec

--------------------------------------------------------------------------------
(* Migration.                                                                 *)

\* Nobody is between the rows and their copy when there are rows to lose.
EntriesInv ==
    blocked # {} => entries = blocked /\ \A o \in Openers : at[o] \notin {"drop", "rename"}

\* Without company a migration knows the labels it finds.
LabelsInv ==
    /\ \A o, p \in Openers : Migrating(o) /\ Migrating(p) => o = p
    /\ labels # "lost" /\ version # 1
    /\ numbers = "old" => labels = "old"
    /\ \A o \in Openers : at[o] \in {"copy", "rebuild", "drop"} => numbers = "old"

\* Where an opener may be while the tables are as they are.
ResumeInv ==
    /\ numbers = "none" => version = 0 /\ (columns = EventColumns \/ \E o \in Openers : at[o] = "rename")
    /\ numbers = "old" => version = 0
    /\ numbers = "new" => columns = EventColumns \/ \E o \in Openers : at[o] = "columns"
    /\ version = 0 => audits \in {"none", "now"}
    /\ version \in {6, 7} => audits = "now"
    /\ version = 7 => numbers = "new" /\ columns = EventColumns
    /\ \A o \in Openers :
          /\ at[o] \notin {"closed", "rename"} => numbers # "none"
          /\ at[o] # "closed" => audits # "none"
          /\ at[o] \in {"copy", "rebuild", "drop", "rename", "columns"} => version = 0
          /\ at[o] \in {"audit", "recreate", "swap"} => version <= 3
          /\ at[o] \in {"recreate", "swap"} => audits = "v3"
          /\ at[o] = "reputation" => version <= 5
          /\ at[o] = "stamp" => version # 7 /\ audits = "now"
          /\ at[o] = "columns" => numbers = "new"
          /\ at[o] \in {"audit", "recreate", "swap", "reputation", "stamp"} =>
                numbers = "new" /\ columns = EventColumns
          /\ at[o] \in {"validate", "open"} => version = 7

MigrationInv ==
    /\ MigrationTypeOK
    /\ alone \in BOOLEAN /\ cut \in BOOLEAN
    /\ EntriesInv
    /\ alone => LabelsInv
    /\ alone /\ ~cut => ResumeInv

\* Opening the database keeps the types, step by step.
LEMMA OpeningTyped ==
  ASSUME MigrationTypeOK, NEW o \in Openers, Opening(o)
  PROVE  MigrationTypeOK'
<1> USE DEF MigrationTypeOK, At, Goto, SCHEMA_VERSION, EventColumns, AuditShapes
<1>1. CASE CreateTables(o)
  BY <1>1 DEF CreateTables
<1>2. CASE Detect(o)
  BY <1>2 DEF Detect, numbersVars, auditVars, FirstStep, Detected
<1>3. CASE CreateCopy(o)
  BY <1>3 DEF CreateCopy, auditVars
<1>4. CASE Rebuild(o)
  BY <1>4 DEF Rebuild, auditVars, Mapped
<1>5. CASE DropNumbers(o)
  BY <1>5 DEF DropNumbers, auditVars
<1>6. CASE RenameCopy(o)
  BY <1>6 DEF RenameCopy, auditVars
<1>7. CASE AddColumn(o)
  BY <1>7 DEF AddColumn, numbersVars, auditVars
<1>8. CASE LookAtAudits(o)
  BY <1>8 DEF LookAtAudits, databaseVars, numbersVars, auditVars
<1>9. CASE RecreateAudits(o)
  BY <1>9 DEF RecreateAudits, numbersVars
<1>10. CASE SwapAudits(o)
  BY <1>10 DEF SwapAudits, numbersVars
<1>11. CASE AddReputation(o)
  BY <1>11 DEF AddReputation, numbersVars
<1>12. CASE Stamp(o)
  BY <1>12 DEF Stamp, numbersVars, auditVars
<1>13. CASE Validate(o)
  BY <1>13 DEF Validate, databaseVars, numbersVars, auditVars
<1> QED
  BY <1>1, <1>2, <1>3, <1>4, <1>5, <1>6, <1>7, <1>8, <1>9, <1>10, <1>11, <1>12, <1>13 DEF Opening

LEMMA LeavingTyped ==
  ASSUME MigrationTypeOK, NEW o \in Openers,
         LeaveDatabase(o) \/ \E e \in Entries : AddEntry(o, e)
  PROVE  MigrationTypeOK'
<1>1. CASE LeaveDatabase(o)
  BY <1>1 DEF MigrationTypeOK, LeaveDatabase, Goto, SCHEMA_VERSION, databaseVars, numbersVars, auditVars
<1>2. CASE \E e \in Entries : AddEntry(o, e)
  BY <1>2 DEF MigrationTypeOK, AddEntry, auditVars
<1> QED
  BY <1>1, <1>2

\* No step of a migration comes between entries that are blocked and their copy.
LEMMA OpeningKeepsEntries ==
  ASSUME MigrationTypeOK, EntriesInv, blocked' = blocked, NEW o \in Openers, Opening(o)
  PROVE  EntriesInv'
<1> USE DEF EntriesInv, MigrationTypeOK, At, Goto, SCHEMA_VERSION
<1>1. CASE CreateTables(o)
  BY <1>1 DEF CreateTables
<1>2. CASE Detect(o)
  BY <1>2 DEF Detect, numbersVars, auditVars, FirstStep, Detected
<1>3. CASE CreateCopy(o)
  BY <1>3 DEF CreateCopy, auditVars
<1>4. CASE Rebuild(o)
  BY <1>4 DEF Rebuild, auditVars, Mapped
<1>5. CASE DropNumbers(o)
  BY <1>5 DEF DropNumbers, auditVars
<1>6. CASE RenameCopy(o)
  BY <1>6 DEF RenameCopy, auditVars
<1>7. CASE AddColumn(o)
  BY <1>7 DEF AddColumn, numbersVars, auditVars
<1>8. CASE LookAtAudits(o)
  BY <1>8 DEF LookAtAudits, databaseVars, numbersVars, auditVars
<1>9. CASE RecreateAudits(o)
  BY <1>9 DEF RecreateAudits, numbersVars
<1>10. CASE SwapAudits(o)
  BY <1>10 DEF SwapAudits, numbersVars
<1>11. CASE AddReputation(o)
  BY <1>11 DEF AddReputation, numbersVars
<1>12. CASE Stamp(o)
  BY <1>12 DEF Stamp, numbersVars, auditVars
<1>13. CASE Validate(o)
  BY <1>13 DEF Validate, databaseVars, numbersVars, auditVars
<1> QED
  BY <1>1, <1>2, <1>3, <1>4, <1>5, <1>6, <1>7, <1>8, <1>9, <1>10, <1>11, <1>12, <1>13 DEF Opening

\* Nobody else comes between what a migration looks at and what it does.
LEMMA OpeningKeepsLabels ==
  ASSUME MigrationTypeOK, LabelsInv, NEW o \in Openers, Opening(o),
         \A p \in Openers \ {o} : ~Migrating(p)
  PROVE  LabelsInv'
<1> USE DEF LabelsInv, MigrationTypeOK, At, Goto, Migrating, SCHEMA_VERSION
<1>1. CASE CreateTables(o)
  BY <1>1 DEF CreateTables
<1>2. CASE Detect(o)
  BY <1>2 DEF Detect, numbersVars, auditVars, FirstStep, Detected
<1>3. CASE CreateCopy(o)
  BY <1>3 DEF CreateCopy, auditVars
<1>4. CASE Rebuild(o)
  BY <1>4 DEF Rebuild, auditVars, Mapped
<1>5. CASE DropNumbers(o)
  BY <1>5 DEF DropNumbers, auditVars
<1>6. CASE RenameCopy(o)
  BY <1>6 DEF RenameCopy, auditVars
<1>7. CASE AddColumn(o)
  BY <1>7 DEF AddColumn, numbersVars, auditVars
<1>8. CASE LookAtAudits(o)
  BY <1>8 DEF LookAtAudits, databaseVars, numbersVars, auditVars
<1>9. CASE RecreateAudits(o)
  BY <1>9 DEF RecreateAudits, numbersVars
<1>10. CASE SwapAudits(o)
  BY <1>10 DEF SwapAudits, numbersVars
<1>11. CASE AddReputation(o)
  BY <1>11 DEF AddReputation, numbersVars
<1>12. CASE Stamp(o)
  BY <1>12 DEF Stamp, numbersVars, auditVars
<1>13. CASE Validate(o)
  BY <1>13 DEF Validate, databaseVars, numbersVars, auditVars
<1> QED
  BY <1>1, <1>2, <1>3, <1>4, <1>5, <1>6, <1>7, <1>8, <1>9, <1>10, <1>11, <1>12, <1>13 DEF Opening

\* A migration is where the tables say, whichever step it has taken.
LEMMA OpeningResumes ==
  ASSUME MigrationTypeOK, LabelsInv, ResumeInv, NEW o \in Openers, Opening(o),
         \A p \in Openers \ {o} : ~Migrating(p)
  PROVE  ResumeInv'
<1> USE DEF LabelsInv, ResumeInv, MigrationTypeOK, At, Goto, Migrating, SCHEMA_VERSION, EventColumns, AuditShapes
<1>1. CASE CreateTables(o)
  BY <1>1 DEF CreateTables
<1>2. CASE Detect(o)
  BY <1>2 DEF Detect, numbersVars, auditVars, FirstStep, Detected
<1>3. CASE CreateCopy(o)
  BY <1>3 DEF CreateCopy, auditVars
<1>4. CASE Rebuild(o)
  BY <1>4 DEF Rebuild, auditVars, Mapped
<1>5. CASE DropNumbers(o)
  BY <1>5 DEF DropNumbers, auditVars
<1>6. CASE RenameCopy(o)
  BY <1>6 DEF RenameCopy, auditVars
<1>7. CASE AddColumn(o)
  BY <1>7 DEF AddColumn, numbersVars, auditVars
<1>8. CASE LookAtAudits(o)
  BY <1>8 DEF LookAtAudits, databaseVars, numbersVars, auditVars
<1>9. CASE RecreateAudits(o)
  BY <1>9 DEF RecreateAudits, numbersVars
<1>10. CASE SwapAudits(o)
  BY <1>10 DEF SwapAudits, numbersVars
<1>11. CASE AddReputation(o)
  BY <1>11 DEF AddReputation, numbersVars
<1>12. CASE Stamp(o)
  BY <1>12 DEF Stamp, numbersVars, auditVars
<1>13. CASE Validate(o)
  BY <1>13 DEF Validate, databaseVars, numbersVars, auditVars
<1> QED
  BY <1>1, <1>2, <1>3, <1>4, <1>5, <1>6, <1>7, <1>8, <1>9, <1>10, <1>11, <1>12, <1>13 DEF Opening

\* A process that dies leaves what the next one resumes, but in the stretch that cut tells.
LEMMA LeavingKeeps ==
  ASSUME MigrationInv, NEW o \in Openers, LeaveDatabase(o), alone' = alone, blocked' = blocked,
         cut' = (cut \/ At(o, "rename") \/ At(o, "columns"))
  PROVE  MigrationInv'
<1>1. MigrationTypeOK' /\ MigrationTypeOK
  BY LeavingTyped DEF MigrationInv
<1>2. /\ UNCHANGED <<version, numbers, entries, labels, copy, columns, audits, auditCopy>>
      /\ at' = [at EXCEPT ![o] = "closed"]
  BY DEF LeaveDatabase, Goto, databaseVars, numbersVars, auditVars
<1>3. alone \in BOOLEAN /\ cut \in BOOLEAN
  BY DEF MigrationInv
<1>4. EntriesInv'
  BY <1>1, <1>2, <1>3 DEF MigrationInv, EntriesInv, MigrationTypeOK
<1>5. alone' => LabelsInv'
  BY <1>1, <1>2, <1>3 DEF MigrationInv, LabelsInv, Migrating, At, MigrationTypeOK
<1>6. alone' /\ ~cut' => ResumeInv'
  <2>1. ~cut' => ~cut /\ at[o] \notin {"rename", "columns"}
    BY <1>3 DEF At
  <2>2. ASSUME ResumeInv, at[o] \notin {"rename", "columns"} PROVE ResumeInv'
    BY <1>1, <1>2, <1>3, <2>2 DEF ResumeInv, MigrationTypeOK
  <2> QED
    BY <2>1, <2>2 DEF MigrationInv
<1>7. alone' \in BOOLEAN /\ cut' \in BOOLEAN
  BY <1>3
<1> QED
  BY <1>1, <1>4, <1>5, <1>6, <1>7 DEF MigrationInv

\* Numbers are added while nobody migrates.
LEMMA AddingKeeps ==
  ASSUME MigrationInv, alone, \A o \in Openers : ~Migrating(o),
         NEW o \in Openers, NEW e \in Entries, AddEntry(o, e),
         blocked' = entries', cut' = cut, alone' = alone
  PROVE  MigrationInv'
<1>1. MigrationTypeOK' /\ MigrationTypeOK
  BY LeavingTyped DEF MigrationInv
<1>2. UNCHANGED <<version, numbers, labels, copy, columns, audits, auditCopy, at>>
  BY DEF AddEntry, auditVars
<1>3. EntriesInv'
  BY <1>2 DEF EntriesInv, Migrating, At
<1>4. LabelsInv => LabelsInv'
  BY <1>2 DEF LabelsInv, Migrating, At
<1>5. ResumeInv => ResumeInv'
  BY <1>2 DEF ResumeInv
<1> QED
  BY <1>1, <1>3, <1>4, <1>5 DEF MigrationInv

LEMMA MigrationStepKeeps ==
  ASSUME MigrationInv, MigrationStep
  PROVE  MigrationInv'
<1>1. ASSUME NEW o \in Openers, Opening(o), alone => \A p \in Openers \ {o} : ~Migrating(p),
             UNCHANGED <<blocked, cut, alone>>
      PROVE  MigrationInv'
  BY <1>1, OpeningTyped, OpeningKeepsEntries, OpeningKeepsLabels, OpeningResumes DEF MigrationInv
<1> QED
  BY <1>1, LeavingKeeps, AddingKeeps DEF MigrationStep

\* What any version has left is where a migration may resume.
LEMMA MigrationStarts == DatabaseInit => MigrationInv
<1> SUFFICES ASSUME DatabaseInit PROVE MigrationInv
  OBVIOUS
<1>1. PICK v \in 0..SCHEMA_VERSION, left \in SUBSET Entries : LeftBy(v, left)
  BY DEF DatabaseInit, MigrationInit
<1>2. at = [o \in Openers |-> "closed"] /\ from = [o \in Openers |-> 0]
  BY DEF DatabaseInit, MigrationInit
<1>3. MigrationTypeOK
  <2>1. version \in 0..SCHEMA_VERSION /\ columns \in 0..EventColumns
    BY <1>1 DEF LeftBy, SCHEMA_VERSION, EventColumns
  <2>2. numbers \in {"none", "old", "new"} /\ labels \in {"old", "mapped", "lost"}
    BY <1>1 DEF LeftBy
  <2>3. entries \subseteq Entries /\ copy = NoTable
    BY <1>1 DEF LeftBy
  <2>4. audits \in AuditShapes /\ auditCopy \in BOOLEAN
    BY <1>1 DEF LeftBy, AuditShapes
  <2>5. /\ at \in [Openers -> {"closed", "detect", "copy", "rebuild", "drop", "rename", "columns",
                              "audit", "recreate", "swap", "reputation", "stamp", "validate", "open"}]
        /\ from \in [Openers -> 0..SCHEMA_VERSION]
    BY <1>2 DEF SCHEMA_VERSION
  <2> QED
    BY <2>1, <2>2, <2>3, <2>4, <2>5 DEF MigrationTypeOK
<1>4. EntriesInv
  BY <1>2 DEF DatabaseInit, EntriesInv
<1>5. LabelsInv
  BY <1>1, <1>2 DEF LeftBy, LabelsInv, Migrating, At, SCHEMA_VERSION
<1>6. ResumeInv
  BY <1>1, <1>2 DEF LeftBy, ResumeInv, SCHEMA_VERSION, EventColumns
<1> QED
  BY <1>3, <1>4, <1>5, <1>6 DEF DatabaseInit, MigrationInv

\* However many processes open a database of any version, add to its lists, die in between
\* and try again: no number on a list is lost; and if they migrate one at a time no label
\* is lost, and who has the database open finds the current schema unless a migration died
\* between the table that is dropped and the last column (database.py _migrate).
THEOREM MigrationsLoseNothing == DatabaseSpec => []MigrationSound
<1>1. MigrationInv /\ [DatabaseNext]_allVars => MigrationInv'
  <2> SUFFICES ASSUME MigrationInv, [DatabaseNext]_allVars PROVE MigrationInv'
    OBVIOUS
  <2>1. CASE MigrationStep
    BY <2>1, MigrationStepKeeps
  <2>2. CASE UNCHANGED <<migrationVars, migrationMonitors>>
    BY <2>2 DEF migrationVars, migrationMonitors, databaseVars, numbersVars, auditVars,
       MigrationInv, MigrationTypeOK, EntriesInv, LabelsInv, ResumeInv, Migrating, At
  <2> QED
    BY <2>1, <2>2 DEF DatabaseNext, ReputationStep, ListStep, BehaviorStep, allVars
<1>2. MigrationInv => MigrationSound
  <2> SUFFICES ASSUME MigrationInv PROVE MigrationSound
    OBVIOUS
  <2>1. numbers = "new" => blocked \subseteq entries
    BY DEF MigrationInv, EntriesInv
  <2>2. alone /\ ~cut => OpenedIsCurrent
    <3>1. ASSUME ResumeInv, NEW o \in Openers, At(o, "open")
          PROVE  numbers = "new" /\ columns = EventColumns /\ audits = "now"
      BY <3>1 DEF ResumeInv, At
    <3> QED
      BY <3>1 DEF MigrationInv, OpenedIsCurrent
  <2> QED
    BY <2>1, <2>2 DEF MigrationInv, LabelsInv, MigrationSound
<1> QED
  BY <1>1, <1>2, MigrationStarts, PTL DEF DatabaseSpec

--------------------------------------------------------------------------------
(* Observations and snapshots.                                                *)

\* Counting what comes before an element of a finite set, in a strict total order,
\* numbers its elements: the order of a SELECT has a first row, a second one, ...
LEMMA Ranked ==
  ASSUME NEW K, IsFiniteSet(K), NEW under \in [K -> SUBSET K],
         \A x \in K : x \notin under[x],
         \A x, y \in K : x \in under[y] => under[x] \subseteq under[y],
         \A x, y \in K : x = y \/ x \in under[y] \/ y \in under[x],
         NEW rank \in [K -> Nat], \A x \in K : rank[x] = Cardinality(under[x])
  PROVE  Cardinality(K) \in Nat /\ rank \in Bijection(K, 0..(Cardinality(K) - 1))
<1> DEFINE ranks == 0..(Cardinality(K) - 1)
<1>1. Cardinality(K) \in Nat
  BY FS_CardinalityType
<1>2. ASSUME NEW x \in K
      PROVE  /\ IsFiniteSet(under[x]) /\ Cardinality(under[x]) \in Nat
             /\ Cardinality(under[x]) < Cardinality(K)
  <2>1. under[x] \in SUBSET K /\ x \notin under[x]
    OBVIOUS
  <2>2. /\ IsFiniteSet(under[x]) /\ Cardinality(under[x]) <= Cardinality(K)
        /\ Cardinality(K) = Cardinality(under[x]) => K = under[x]
    BY <2>1, FS_Subset
  <2>3. Cardinality(under[x]) \in Nat
    BY <2>2, FS_CardinalityType
  <2>4. K # under[x]
    BY <2>1
  <2> QED
    BY <1>1, <2>2, <2>3, <2>4
<1>3. ASSUME NEW x \in K, NEW y \in K, x \in under[y]
      PROVE  Cardinality(under[x]) < Cardinality(under[y])
  <2>1. under[x] \in SUBSET under[y] /\ x \in under[y] /\ x \notin under[x]
    BY <1>3
  <2>2. IsFiniteSet(under[y]) /\ Cardinality(under[x]) \in Nat /\ Cardinality(under[y]) \in Nat
    BY <1>2
  <2>3. /\ Cardinality(under[x]) <= Cardinality(under[y])
        /\ Cardinality(under[y]) = Cardinality(under[x]) => under[y] = under[x]
    BY <2>1, <2>2, FS_Subset
  <2>4. under[y] # under[x]
    BY <2>1
  <2> QED
    BY <2>2, <2>3, <2>4
<1>4. rank \in Injection(K, ranks)
  <2>1. rank \in [K -> ranks]
    BY <1>1, <1>2
  <2>2. ASSUME NEW x \in K, NEW y \in K, rank[x] = rank[y]
        PROVE  x = y
    <3>1. Cardinality(under[x]) = Cardinality(under[y])
      BY <2>2
    <3>2. Cardinality(under[x]) \in Nat /\ Cardinality(under[y]) \in Nat
      BY <1>2
    <3>3. x \notin under[y] /\ y \notin under[x]
      BY <1>3, <3>1, <3>2
    <3> QED
      BY <3>3
  <2> QED
    BY <2>1, <2>2 DEF Injection, IsInjective
<1>5. IsFiniteSet(ranks) /\ Cardinality(ranks) = Cardinality(K)
  <2>1. 0 \in Int /\ Cardinality(K) - 1 \in Int
    BY <1>1
  <2>2. /\ IsFiniteSet(ranks)
        /\ Cardinality(ranks) =
             IF 0 > Cardinality(K) - 1 THEN 0 ELSE Cardinality(K) - 1 - 0 + 1
    BY <2>1, FS_Interval
  <2> QED
    BY <1>1, <2>2
<1>6. rank \in Surjection(K, ranks)
  <2> HIDE DEF ranks
  <2> QED
    BY <1>4, <1>5, FS_Injection
<1> QED
  BY <1>1, <1>4, <1>6 DEF Bijection

\* What a cleanup keeps stays in its order: each kept row once, and nothing else.
LEMMA OnlyOrdered ==
  ASSUME NEW table, NEW kept, kept \subseteq Nat, IsFiniteSet(kept)
  PROVE  /\ Cardinality(kept) \in Nat
         /\ \E o \in Bijection(1..Cardinality(kept), kept) :
               Only(table, kept) = [k \in 1..Cardinality(kept) |-> table[o[k]]]
<1> DEFINE under == [i \in kept |-> {j \in kept : j < i}]
           rank == [i \in kept |-> Cardinality(under[i])]
           total == Cardinality(kept)
           o == [k \in 1..total |-> CHOOSE i \in kept : Cardinality({j \in kept : j < i}) = k - 1]
<1>1. /\ under \in [kept -> SUBSET kept]
      /\ \A i \in kept : under[i] = {j \in kept : j < i}
  OBVIOUS
<1> HIDE DEF under
<1>2. total \in Nat /\ rank \in Bijection(kept, 0..(total - 1))
  <2>1. \A x \in kept : x \notin under[x]
    BY <1>1
  <2>2. \A x, y \in kept : x \in under[y] => under[x] \subseteq under[y]
    <3> SUFFICES ASSUME NEW x \in kept, NEW y \in kept, x < y, NEW z \in kept, z < x
                 PROVE  z < y
      BY <1>1
    <3> QED
      OBVIOUS
  <2>3. \A x, y \in kept : x = y \/ x \in under[y] \/ y \in under[x]
    BY <1>1
  <2>4. \A x \in kept : Cardinality(under[x]) \in Nat
    BY <1>1, FS_Subset, FS_CardinalityType
  <2>5. rank \in [kept -> Nat] /\ \A x \in kept : rank[x] = Cardinality(under[x])
    BY <2>4
  <2> HIDE DEF rank
  <2> QED
    BY <1>1, <2>1, <2>2, <2>3, <2>5, Ranked
<1>3. /\ \A i \in kept : Cardinality(under[i]) \in 0..(total - 1)
      /\ \A i, j \in kept : Cardinality(under[i]) = Cardinality(under[j]) => i = j
      /\ \A r \in 0..(total - 1) : \E i \in kept : Cardinality(under[i]) = r
  <2>1. \A i \in kept : rank[i] = Cardinality(under[i])
    OBVIOUS
  <2> HIDE DEF rank
  <2> QED
    BY <1>2, <2>1 DEF Bijection, Injection, IsInjective, Surjection
<1>4. \A k \in 1..total : k - 1 \in 0..(total - 1)
  BY <1>2
<1>5. ASSUME NEW k \in 1..total
      PROVE  o[k] \in kept /\ Cardinality(under[o[k]]) = k - 1
  <2>1. \E i \in kept : Cardinality({j \in kept : j < i}) = k - 1
    BY <1>1, <1>3, <1>4
  <2> QED
    BY <1>1, <2>1
<1>6. o \in Injection(1..total, kept)
  <2>1. o \in [1..total -> kept]
    BY <1>5
  <2>2. ASSUME NEW k \in 1..total, NEW l \in 1..total, o[k] = o[l]
        PROVE  k = l
    <3>1. k - 1 = l - 1
      <4> HIDE DEF o
      <4> QED
        BY <1>5, <2>2
    <3> QED
      BY <1>2, <3>1
  <2> HIDE DEF o
  <2> QED
    BY <2>1, <2>2 DEF Injection, IsInjective
<1>7. o \in Surjection(1..total, kept)
  <2>1. ASSUME NEW i \in kept
        PROVE  \E k \in 1..total : o[k] = i
    <3>1. Cardinality(under[i]) + 1 \in 1..total
      BY <1>2, <1>3
    <3>2. PICK k \in 1..total : k = Cardinality(under[i]) + 1
      BY <3>1
    <3>3. Cardinality(under[i]) = k - 1
      BY <1>2, <1>3, <3>2
    <3> HIDE DEF o
    <3>4. o[k] \in kept /\ Cardinality(under[o[k]]) = Cardinality(under[i])
      BY <1>5, <3>3
    <3>5. o[k] = i
      BY <1>3, <3>4
    <3> QED
      BY <3>5
  <2>2. o \in [1..total -> kept]
    BY <1>5
  <2> HIDE DEF o
  <2> QED
    BY <2>1, <2>2 DEF Surjection
<1>8. Only(table, kept) = [k \in 1..total |-> table[o[k]]]
  BY DEF Only
<1> QED
  BY <1>2, <1>6, <1>7, <1>8 DEF Bijection

\* As many rows of a cleaned table are of some kind as were kept of that kind.
LEMMA OnlyCounts ==
  ASSUME NEW kept, IsFiniteSet(kept),
         NEW o \in Bijection(1..Cardinality(kept), kept), NEW some \in SUBSET kept
  PROVE  /\ IsFiniteSet({k \in 1..Cardinality(kept) : o[k] \in some})
         /\ Cardinality({k \in 1..Cardinality(kept) : o[k] \in some}) = Cardinality(some)
<1> DEFINE places == {k \in 1..Cardinality(kept) : o[k] \in some}
           p == [k \in places |-> o[k]]
<1>1. IsFiniteSet(places)
  <2>1. Cardinality(kept) \in Nat
    BY FS_CardinalityType
  <2>2. IsFiniteSet(1..Cardinality(kept))
    BY <2>1, FS_Interval
  <2>3. places \in SUBSET (1..Cardinality(kept))
    OBVIOUS
  <2> HIDE DEF places
  <2> QED
    BY <2>2, <2>3, FS_Subset
<1>2. /\ o \in [1..Cardinality(kept) -> kept]
      /\ \A k, l \in 1..Cardinality(kept) : o[k] = o[l] => k = l
      /\ \A i \in kept : \E k \in 1..Cardinality(kept) : o[k] = i
  BY DEF Bijection, Injection, IsInjective, Surjection
<1>3. p \in Bijection(places, some)
  <2>1. p \in [places -> some]
    OBVIOUS
  <2>2. \A k, l \in places : p[k] = p[l] => k = l
    BY <1>2
  <2>3. \A i \in some : \E k \in places : p[k] = i
    BY <1>2
  <2> HIDE DEF p, places
  <2> QED
    BY <2>1, <2>2, <2>3 DEF Bijection, Injection, IsInjective, Surjection
<1>4. ExistsBijection(places, some)
  BY <1>3 DEF ExistsBijection
<1> HIDE DEF places
<1>5. Cardinality(some) = Cardinality(places)
  BY <1>1, <1>4, FS_Bijection
<1> QED
  BY <1>1, <1>5 DEF places

\* The rows of a number that are not too old, and those that a cleanup keeps.
Recent(table, n) == {i \in DOMAIN table : table[i].caller = n /\ ~Aged(table[i])}
Newest(table, n) ==
    {i \in Recent(table, n) : Cardinality(Before(table, i)) < ObservationLimit}
RowsOf(table, n) == {i \in DOMAIN table : table[i].caller = n}

\* The newest rows are as many as may stay, unless there are fewer; and those that are
\* not among them are older.
LEMMA NewestRows ==
  ASSUME NEW table \in Seq(Observation), NEW n
  PROVE  /\ IsFiniteSet(Newest(table, n)) /\ Cardinality(Newest(table, n)) \in Nat
         /\ Cardinality(Newest(table, n)) <= ObservationLimit
         /\ \A i \in Recent(table, n) \ Newest(table, n) :
               /\ Cardinality(Newest(table, n)) = ObservationLimit
               /\ \A j \in Newest(table, n) : table[j].day >= table[i].day
<1> DEFINE K == Recent(table, n)
           First(j, i) == table[j].day > table[i].day \/ (table[j].day = table[i].day /\ j > i)
           under == [i \in K |-> {j \in K : First(j, i)}]
           rank == [i \in K |-> Cardinality(under[i])]
           new == Newest(table, n)
           r == [i \in new |-> rank[i]]
           places == 0..(ObservationLimit - 1)
<1>1. K \subseteq Nat /\ IsFiniteSet(K) /\ \A i \in K : table[i].day \in Nat
  <2>1. DOMAIN table = 1..Len(table) /\ Len(table) \in Nat
    OBVIOUS
  <2>2. IsFiniteSet(1..Len(table))
    BY <2>1, FS_Interval
  <2>3. K \in SUBSET (1..Len(table))
    BY <2>1 DEF Recent
  <2>4. IsFiniteSet(K)
    BY <2>2, <2>3, FS_Subset
  <2>5. \A i \in K : table[i] \in Observation
    BY <2>1, <2>3
  <2>6. \A i \in K : table[i].day \in Nat
    BY <2>5, BehaviorAssumption DEF Observation
  <2>7. K \subseteq Nat
    BY <2>1, <2>3
  <2> QED
    BY <2>4, <2>6, <2>7
<1>2. ASSUME NEW i \in K
      PROVE  Before(table, i) = {j \in K : First(j, i)}
  <2>1. table[i].caller = n
    BY DEF Recent
  <2> QED
    BY <2>1 DEF Before, Recent
<1> HIDE DEF K
<1>3. /\ under \in [K -> SUBSET K]
      /\ \A i \in K : under[i] = {j \in K : First(j, i)}
  OBVIOUS
<1> HIDE DEF under
<1>4. /\ \A x, y \in K : x \in under[y] => under[x] \subseteq under[y]
      /\ \A x, y \in K : x = y \/ x \in under[y] \/ y \in under[x]
  <2>1. ASSUME NEW x \in K, NEW y \in K, x \in under[y], NEW z \in K, z \in under[x]
        PROVE  z \in under[y]
    BY <1>1, <1>3, <2>1
  <2>2. ASSUME NEW x \in K, NEW y \in K
        PROVE  x = y \/ x \in under[y] \/ y \in under[x]
    BY <1>1, <1>3
  <2> QED
    BY <1>3, <2>1, <2>2
<1>5. \A x \in K : x \notin under[x]
  BY <1>1, <1>3
<1>6. ASSUME NEW x \in K
      PROVE  IsFiniteSet(under[x]) /\ Cardinality(under[x]) \in Nat
  <2>1. under[x] \in SUBSET K
    BY <1>3
  <2>2. IsFiniteSet(under[x])
    BY <1>1, <2>1, FS_Subset
  <2> QED
    BY <2>2, FS_CardinalityType
<1>7. rank \in [K -> Nat] /\ \A x \in K : rank[x] = Cardinality(under[x])
  BY <1>6
<1> HIDE DEF rank
<1>8. Cardinality(K) \in Nat /\ rank \in Bijection(K, 0..(Cardinality(K) - 1))
  BY <1>1, <1>3, <1>4, <1>5, <1>7, Ranked
<1>9. /\ \A i, j \in K : rank[i] = rank[j] => i = j
      /\ \A q \in 0..(Cardinality(K) - 1) : \E i \in K : rank[i] = q
      /\ \A i \in K : rank[i] \in 0..(Cardinality(K) - 1)
  BY <1>8 DEF Bijection, Injection, IsInjective, Surjection
<1>10. new = {i \in K : rank[i] < ObservationLimit}
  <2>1. \A i \in K : Before(table, i) = under[i]
    BY <1>2, <1>3
  <2>2. \A i \in K : rank[i] = Cardinality(Before(table, i))
    BY <1>7, <2>1
  <2>3. new = {i \in K : Cardinality(Before(table, i)) < ObservationLimit}
    BY DEF Newest, K
  <2> QED
    BY <2>2, <2>3
<1> HIDE DEF new
<1>11. IsFiniteSet(places) /\ Cardinality(places) = ObservationLimit
  <2>1. 0 \in Int /\ ObservationLimit - 1 \in Int
    BY BehaviorAssumption
  <2>2. /\ IsFiniteSet(places)
        /\ Cardinality(places) =
             IF 0 > ObservationLimit - 1 THEN 0 ELSE ObservationLimit - 1 - 0 + 1
    BY <2>1, FS_Interval
  <2> QED
    BY <2>2, BehaviorAssumption
<1>12. r \in Injection(new, places)
  <2>1. r \in [new -> places]
    BY <1>7, <1>10, BehaviorAssumption
  <2>2. \A i, j \in new : r[i] = r[j] => i = j
    BY <1>9, <1>10
  <2> HIDE DEF r, places
  <2> QED
    BY <2>1, <2>2 DEF Injection, IsInjective
<1>13. /\ IsFiniteSet(new) /\ Cardinality(new) <= Cardinality(places)
       /\ Cardinality(new) = Cardinality(places) <=> r \in Surjection(new, places)
  <2> HIDE DEF r, places
  <2> QED
    BY <1>11, <1>12, FS_Injection
<1>14. Cardinality(new) \in Nat
  BY <1>13, FS_CardinalityType
<1>15. ASSUME NEW i \in K, i \notin new
       PROVE  r \in Surjection(new, places)
  <2>1. ~(rank[i] < ObservationLimit)
    BY <1>10, <1>15
  <2>2. rank[i] >= ObservationLimit
    BY <1>7, <2>1, BehaviorAssumption
  <2>3. \A q \in places : \E j \in new : r[j] = q
    <3> SUFFICES ASSUME NEW q \in places
                 PROVE  \E j \in new : r[j] = q
      OBVIOUS
    <3>1. q \in 0..(Cardinality(K) - 1) /\ q < ObservationLimit
      BY <1>7, <1>8, <1>9, <2>2, BehaviorAssumption
    <3>2. PICK j \in K : rank[j] = q
      BY <1>9, <3>1
    <3> QED
      BY <1>10, <3>1, <3>2
  <2>4. r \in [new -> places]
    BY <1>12 DEF Injection
  <2> HIDE DEF r, places
  <2> QED
    BY <2>3, <2>4 DEF Surjection
<1>16. ASSUME NEW i \in K, i \notin new, NEW j \in new
       PROVE  table[j].day >= table[i].day
  <2>1. j \in K /\ rank[j] < ObservationLimit /\ ~(rank[i] < ObservationLimit)
    BY <1>10, <1>16
  <2>2. rank[j] < rank[i]
    BY <1>7, <2>1, BehaviorAssumption
  <2>3. i \notin under[j]
    <3> SUFFICES ASSUME i \in under[j] PROVE FALSE
      OBVIOUS
    <3>1. under[i] \in SUBSET under[j]
      BY <1>4, <2>1
    <3>2. IsFiniteSet(under[j])
      BY <1>6, <2>1
    <3>3. Cardinality(under[i]) <= Cardinality(under[j])
      BY <3>1, <3>2, FS_Subset
    <3>4. rank[i] <= rank[j]
      BY <1>7, <2>1, <3>3
    <3> QED
      BY <1>7, <2>1, <2>2, <3>4
  <2>4. j \in under[i]
    BY <1>4, <2>1, <2>3, <2>2
  <2> QED
    BY <1>1, <1>3, <2>1, <2>4
<1> QED
  <2> HIDE DEF r, places
  <2> QED
    BY <1>11, <1>13, <1>14, <1>15, <1>16, BehaviorAssumption DEF new, K

\* What cleaning up after a number keeps.
KeptRows(table, n) ==
    {i \in DOMAIN table :
        ~Aged(table[i]) /\ (table[i].caller = n => Cardinality(Before(table, i)) < ObservationLimit)}

\* The rows that stay are the kept ones, in places of their own.
LEMMA CleanedRows ==
  ASSUME NEW table \in Seq(Observation), NEW n
  PROVE  /\ KeptRows(table, n) \in SUBSET (1..Len(table)) /\ IsFiniteSet(KeptRows(table, n))
         /\ Newest(table, n) = {i \in KeptRows(table, n) : table[i].caller = n}
         /\ Cardinality(KeptRows(table, n)) \in Nat
         /\ \E o \in Bijection(1..Cardinality(KeptRows(table, n)), KeptRows(table, n)) :
               Cleaned(table, n) = [k \in 1..Cardinality(KeptRows(table, n)) |-> table[o[k]]]
<1> DEFINE kept == KeptRows(table, n)
<1>1. DOMAIN table = 1..Len(table) /\ Len(table) \in Nat
  OBVIOUS
<1>2. IsFiniteSet(1..Len(table))
  BY <1>1, FS_Interval
<1>3. kept \in SUBSET (1..Len(table))
  BY <1>1 DEF KeptRows
<1>4. IsFiniteSet(kept) /\ kept \subseteq Nat
  BY <1>1, <1>2, <1>3, FS_Subset
<1>5. Cleaned(table, n) = Only(table, kept)
  BY DEF Cleaned, KeptRows
<1>6. Newest(table, n) = {i \in kept : table[i].caller = n}
  BY DEF Newest, Recent, KeptRows
<1> HIDE DEF kept
<1>7. /\ Cardinality(kept) \in Nat
      /\ \E o \in Bijection(1..Cardinality(kept), kept) :
            Only(table, kept) = [k \in 1..Cardinality(kept) |-> table[o[k]]]
  BY <1>4, OnlyOrdered
<1> QED
  BY <1>3, <1>4, <1>5, <1>6, <1>7 DEF kept

\* Cleaning up after a number leaves at most as many rows of it as may stay, adds no
\* row of any other number, and observes nothing twice.
LEMMA CleanedFits ==
  ASSUME NEW table \in Seq(Observation), NEW n,
         \A i, j \in DOMAIN table : table[i].event = table[j].event => i = j
  PROVE  /\ Cleaned(table, n) \in Seq(Observation)
         /\ \A i, j \in DOMAIN Cleaned(table, n) :
               Cleaned(table, n)[i].event = Cleaned(table, n)[j].event => i = j
         /\ Cardinality(RowsOf(Cleaned(table, n), n)) <= ObservationLimit
         /\ \A m : Cardinality(RowsOf(Cleaned(table, n), m)) <= Cardinality(RowsOf(table, m))
<1> DEFINE kept == KeptRows(table, n)
           total == Cardinality(kept)
           clean == Cleaned(table, n)
<1>1. /\ kept \in SUBSET (1..Len(table)) /\ IsFiniteSet(kept)
      /\ Newest(table, n) = {i \in kept : table[i].caller = n}
      /\ total \in Nat
  BY CleanedRows
<1>2. PICK o \in Bijection(1..total, kept) : clean = [k \in 1..total |-> table[o[k]]]
  BY CleanedRows
<1> HIDE DEF kept, clean
<1>3. DOMAIN table = 1..Len(table) /\ Len(table) \in Nat
  OBVIOUS
<1>4. /\ o \in [1..total -> kept]
      /\ \A k, l \in 1..total : o[k] = o[l] => k = l
  BY <1>2 DEF Bijection, Injection, IsInjective
<1>5. /\ DOMAIN clean = 1..total
      /\ \A k \in 1..total : o[k] \in DOMAIN table /\ clean[k] = table[o[k]]
  BY <1>1, <1>2, <1>3, <1>4
<1>6. clean \in Seq(Observation)
  <2>1. \A k \in 1..total : table[o[k]] \in Observation
    BY <1>3, <1>5
  <2> HIDE DEF total
  <2> QED
    BY <1>1, <1>2, <2>1
<1>7. \A i, j \in DOMAIN clean : clean[i].event = clean[j].event => i = j
  BY <1>4, <1>5
<1>8. ASSUME NEW m
      PROVE  /\ {i \in kept : table[i].caller = m} \in SUBSET kept
             /\ RowsOf(clean, m) = {k \in 1..total : o[k] \in {i \in kept : table[i].caller = m}}
  BY <1>4, <1>5 DEF RowsOf
<1>9. ASSUME NEW m
      PROVE  Cardinality(RowsOf(clean, m)) = Cardinality({i \in kept : table[i].caller = m})
  <2>1. PICK some \in SUBSET kept : some = {i \in kept : table[i].caller = m}
    BY <1>8
  <2>2. RowsOf(clean, m) = {k \in 1..total : o[k] \in some}
    BY <1>8, <2>1
  <2>3. Cardinality({k \in 1..total : o[k] \in some}) = Cardinality(some)
    BY <1>1, <1>2, <2>1, OnlyCounts
  <2> QED
    BY <2>1, <2>2, <2>3
<1>10. Cardinality(RowsOf(clean, n)) <= ObservationLimit
  BY <1>1, <1>9, NewestRows
<1>11. ASSUME NEW m
       PROVE  Cardinality(RowsOf(clean, m)) <= Cardinality(RowsOf(table, m))
  <2>1. RowsOf(table, m) \in SUBSET (1..Len(table))
    BY <1>3 DEF RowsOf
  <2>2. IsFiniteSet(RowsOf(table, m))
    <3>1. IsFiniteSet(1..Len(table))
      BY <1>3, FS_Interval
    <3> QED
      BY <2>1, <3>1, FS_Subset
  <2>3. {i \in kept : table[i].caller = m} \in SUBSET RowsOf(table, m)
    BY <1>1, <1>3 DEF RowsOf
  <2>4. Cardinality({i \in kept : table[i].caller = m}) <= Cardinality(RowsOf(table, m))
    BY <2>2, <2>3, FS_Subset
  <2> QED
    BY <1>9, <2>4
<1> QED
  BY <1>6, <1>7, <1>10, <1>11 DEF clean

\* A row that a cleanup drops is too old, or as many later ones of its number stay as
\* may.
LEMMA CleanedKeepsNewest ==
  ASSUME NEW table \in Seq(Observation), NEW n, NEW i \in DOMAIN table,
         \A k \in DOMAIN Cleaned(table, n) : Cleaned(table, n)[k].event # table[i].event,
         ~Aged(table[i])
  PROVE  Cardinality({k \in DOMAIN Cleaned(table, n) :
                         /\ Cleaned(table, n)[k].caller = table[i].caller
                         /\ Cleaned(table, n)[k].day >= table[i].day}) >= ObservationLimit
<1> DEFINE kept == KeptRows(table, n)
           total == Cardinality(kept)
           clean == Cleaned(table, n)
           new == Newest(table, n)
           later == {k \in DOMAIN clean : clean[k].caller = table[i].caller
                                          /\ clean[k].day >= table[i].day}
<1>1. /\ kept \in SUBSET (1..Len(table)) /\ IsFiniteSet(kept)
      /\ new = {j \in kept : table[j].caller = n}
      /\ total \in Nat
  BY CleanedRows
<1>2. PICK o \in Bijection(1..total, kept) : clean = [k \in 1..total |-> table[o[k]]]
  BY CleanedRows
<1>3. /\ o \in [1..total -> kept]
      /\ \A j \in kept : \E k \in 1..total : o[k] = j
  BY <1>2 DEF Bijection, Injection, Surjection
<1>4. i \notin kept
  <2> SUFFICES ASSUME i \in kept PROVE FALSE
    OBVIOUS
  <2>1. PICK k \in 1..total : o[k] = i
    BY <1>3
  <2>2. k \in DOMAIN clean /\ clean[k] = table[i]
    <3> HIDE DEF clean, total, kept
    <3> QED
      BY <1>2, <2>1
  <2> QED
    BY <2>2
<1>5. table[i].caller = n /\ i \in Recent(table, n) /\ i \notin new
  BY <1>1, <1>4 DEF KeptRows, Recent
<1>6. Cardinality(new) = ObservationLimit /\ \A j \in new : table[j].day >= table[i].day
  BY <1>5, NewestRows
<1>7. new \in SUBSET kept
  BY <1>1
<1> HIDE DEF kept, clean, new
<1>8. /\ IsFiniteSet({k \in 1..total : o[k] \in new})
      /\ Cardinality({k \in 1..total : o[k] \in new}) = ObservationLimit
  BY <1>1, <1>2, <1>6, <1>7, OnlyCounts
<1>9. {k \in 1..total : o[k] \in new} \in SUBSET later
  BY <1>1, <1>2, <1>3, <1>5, <1>6
<1>10. IsFiniteSet(later)
  <2>1. IsFiniteSet(1..total)
    BY <1>1, FS_Interval
  <2>2. later \in SUBSET (1..total)
    BY <1>2
  <2> QED
    BY <2>1, <2>2, FS_Subset
<1>11. Cardinality({k \in 1..total : o[k] \in new}) <= Cardinality(later)
  <2> HIDE DEF later
  <2> QED
    BY <1>9, <1>10, FS_Subset
<1>12. Cardinality(later) \in Nat
  BY <1>10, FS_CardinalityType
<1>13. Cardinality(later) >= ObservationLimit
  <2> HIDE DEF later
  <2> QED
    BY <1>8, <1>11, <1>12, BehaviorAssumption
<1> QED
  BY <1>13 DEF clean

\* The table of observations, and the one of snapshots.
TimelineOK ==
    /\ timeline \in Seq(Observation)
    /\ \A i, j \in DOMAIN timeline : timeline[i].event = timeline[j].event => i = j
    /\ \A n \in Callers : Cardinality(RowsOf(timeline, n)) <= ObservationLimit
SnapshotsOK ==
    /\ snapshots \in [Callers -> 0..LastDay \union {NoSnapshot}]
    /\ Cardinality(Saved(snapshots)) <= SnapshotLimit

BehaviorInv ==
    /\ TimelineOK /\ SnapshotsOK
    /\ today \in 0..LastDay
    /\ stage \in [Watchers -> {"idle", "save", "saved"}]
    /\ caller \in [Watchers -> Callers \union {NoCaller}]

\* The rows of a number can be counted.
LEMMA RowsCounted ==
  ASSUME NEW table \in Seq(Observation), NEW n
  PROVE  Cardinality(RowsOf(table, n)) \in Nat
<1>1. DOMAIN table = 1..Len(table) /\ Len(table) \in Nat
  OBVIOUS
<1>2. IsFiniteSet(1..Len(table))
  BY <1>1, FS_Interval
<1>3. RowsOf(table, n) \in SUBSET (1..Len(table))
  BY <1>1 DEF RowsOf
<1>4. IsFiniteSet(RowsOf(table, n))
  BY <1>2, <1>3, FS_Subset
<1> QED
  BY <1>4, FS_CardinalityType

\* A cleanup keeps the table of observations well formed.
LEMMA CleaningKeeps ==
  ASSUME TimelineOK, NEW n \in Callers, timeline' = Cleaned(timeline, n)
  PROVE  TimelineOK'
<1>1. /\ timeline \in Seq(Observation)
      /\ \A i, j \in DOMAIN timeline : timeline[i].event = timeline[j].event => i = j
      /\ \A m \in Callers : Cardinality(RowsOf(timeline, m)) <= ObservationLimit
  BY DEF TimelineOK
<1>2. /\ timeline' \in Seq(Observation)
      /\ \A i, j \in DOMAIN timeline' : timeline'[i].event = timeline'[j].event => i = j
      /\ Cardinality(RowsOf(timeline', n)) <= ObservationLimit
      /\ \A m : Cardinality(RowsOf(timeline', m)) <= Cardinality(RowsOf(timeline, m))
  <2> DEFINE clean == Cleaned(timeline, n)
  <2>1. /\ clean \in Seq(Observation)
        /\ \A i, j \in DOMAIN clean : clean[i].event = clean[j].event => i = j
        /\ Cardinality(RowsOf(clean, n)) <= ObservationLimit
        /\ \A m : Cardinality(RowsOf(clean, m)) <= Cardinality(RowsOf(timeline, m))
    BY <1>1, CleanedFits
  <2>2. timeline' = clean
    OBVIOUS
  <2> HIDE DEF clean
  <2> QED
    BY <2>1, <2>2
<1>3. \A m \in Callers : /\ Cardinality(RowsOf(timeline', m)) \in Nat
                        /\ Cardinality(RowsOf(timeline, m)) \in Nat
  BY <1>1, <1>2, RowsCounted
<1>4. \A m \in Callers : Cardinality(RowsOf(timeline', m)) <= ObservationLimit
  BY <1>1, <1>2, <1>3, BehaviorAssumption
<1> QED
  BY <1>2, <1>4 DEF TimelineOK

\* An observation that is added keeps it well formed: the one number it is about is
\* cleaned up after in the same transaction.
LEMMA ObservingKeeps ==
  ASSUME TimelineOK, NEW row \in Observation, Observed(row)
  PROVE  TimelineOK'
<1>1. /\ timeline \in Seq(Observation)
      /\ \A i, j \in DOMAIN timeline : timeline[i].event = timeline[j].event => i = j
      /\ \A m \in Callers : Cardinality(RowsOf(timeline, m)) <= ObservationLimit
  BY DEF TimelineOK
<1>2. row.caller \in Callers
  BY DEF Observation
<1>3. CASE Known(row.event)
  BY <1>2, <1>3, CleaningKeeps DEF Observed
<1>4. CASE ~Known(row.event)
  <2> DEFINE added == Append(timeline, row)
  <2>1. timeline' = Cleaned(added, row.caller)
    BY <1>4 DEF Observed
  <2>2. /\ added \in Seq(Observation)
        /\ DOMAIN added = 1..(Len(timeline) + 1) /\ Len(timeline) \in Nat
        /\ added[Len(timeline) + 1] = row
        /\ DOMAIN timeline = 1..Len(timeline)
        /\ \A i \in 1..Len(timeline) : added[i] = timeline[i]
    BY <1>1
  <2>3. \A i \in DOMAIN timeline : timeline[i].event # row.event
    BY <1>4 DEF Known
  <2> HIDE DEF added
  <2>4. \A i, j \in DOMAIN added : added[i].event = added[j].event => i = j
    BY <1>1, <2>2, <2>3
  <2>5. ASSUME NEW m \in Callers, m # row.caller
        PROVE  RowsOf(added, m) = RowsOf(timeline, m)
    BY <2>2, <2>5 DEF RowsOf
  <2>6. /\ timeline' \in Seq(Observation)
        /\ \A i, j \in DOMAIN timeline' : timeline'[i].event = timeline'[j].event => i = j
        /\ Cardinality(RowsOf(timeline', row.caller)) <= ObservationLimit
        /\ \A m : Cardinality(RowsOf(timeline', m)) <= Cardinality(RowsOf(added, m))
    BY <2>1, <2>2, <2>4, CleanedFits
  <2>7. ASSUME NEW m \in Callers
        PROVE  Cardinality(RowsOf(timeline', m)) <= ObservationLimit
    <3>1. CASE m = row.caller
      BY <2>6, <3>1
    <3>2. CASE m # row.caller
      <4>1. Cardinality(RowsOf(timeline', m)) <= Cardinality(RowsOf(timeline, m))
        BY <2>5, <2>6, <3>2
      <4>2. /\ Cardinality(RowsOf(timeline', m)) \in Nat
            /\ Cardinality(RowsOf(timeline, m)) \in Nat
        BY <1>1, <2>6, RowsCounted
      <4> QED
        BY <1>1, <4>1, <4>2, BehaviorAssumption
    <3> QED
      BY <3>1, <3>2
  <2> QED
    BY <2>6, <2>7 DEF TimelineOK
<1> QED
  BY <1>3, <1>4

\* What happens to a call changes no observation's event or number.
LEMMA OutcomeKeeps ==
  ASSUME TimelineOK, NEW e, NEW new \in [DOMAIN timeline -> Observation],
         \A i \in DOMAIN timeline : /\ new[i].event = timeline[i].event
                                    /\ new[i].caller = timeline[i].caller,
         timeline' = new
  PROVE  TimelineOK'
<1>1. DOMAIN timeline = 1..Len(timeline) /\ Len(timeline) \in Nat
  BY DEF TimelineOK
<1>2. new \in Seq(Observation) /\ DOMAIN new = DOMAIN timeline
  BY <1>1
<1>3. \A n : RowsOf(new, n) = RowsOf(timeline, n)
  BY <1>2 DEF RowsOf
<1> QED
  BY <1>2, <1>3 DEF TimelineOK

\* Pruning leaves at most as many snapshots as may be kept.
LEMMA SnapshotsPruned ==
  ASSUME NEW s \in [Callers -> 0..LastDay \union {NoSnapshot}], PrunedTo(s)
  PROVE  SnapshotsOK'
<1>1. PICK gone \in PrunableSnapshots(s) :
        snapshots' = [n \in Callers |-> IF n \in gone THEN NoSnapshot ELSE s[n]]
  BY DEF PrunedTo
<1>2. IsFiniteSet(Saved(s)) /\ Cardinality(Saved(s)) \in Nat
  <2>1. Saved(s) \in SUBSET Callers
    BY DEF Saved
  <2>2. IsFiniteSet(Saved(s))
    BY <2>1, BehaviorAssumption, FS_Subset
  <2> QED
    BY <2>2, FS_CardinalityType
<1>3. /\ gone \in SUBSET Saved(s)
      /\ Cardinality(gone) = IF SnapshotExcess(s) > 0 THEN SnapshotExcess(s) ELSE 0
  BY <1>1 DEF PrunableSnapshots
<1>4. Saved(snapshots') = Saved(s) \ gone
  BY <1>1 DEF Saved
<1>5. Cardinality(Saved(s) \ gone) = Cardinality(Saved(s)) - Cardinality(Saved(s) \cap gone)
  BY <1>2, FS_Difference
<1>6. Saved(s) \cap gone = gone
  BY <1>3
<1>7. Cardinality(Saved(snapshots')) <= SnapshotLimit
  BY <1>2, <1>3, <1>4, <1>5, <1>6, BehaviorAssumption DEF SnapshotExcess
<1>8. snapshots' \in [Callers -> 0..LastDay \union {NoSnapshot}]
  BY <1>1
<1> QED
  BY <1>7, <1>8 DEF SnapshotsOK

\* Every operation on observations and snapshots keeps their tables well formed.
LEMMA BehaviorKeeps ==
  ASSUME BehaviorInv, [BehaviorNext]_behaviorVars
  PROVE  BehaviorInv'
<1>1. /\ TimelineOK /\ SnapshotsOK /\ today \in 0..LastDay
      /\ stage \in [Watchers -> {"idle", "save", "saved"}]
      /\ caller \in [Watchers -> Callers \union {NoCaller}]
      /\ snapshots \in [Callers -> 0..LastDay \union {NoSnapshot}]
  BY DEF BehaviorInv, SnapshotsOK
<1>2. UNCHANGED timeline => TimelineOK'
  BY <1>1 DEF TimelineOK
<1>3. UNCHANGED snapshots => SnapshotsOK'
  BY <1>1 DEF SnapshotsOK
<1>4. ASSUME NEW w \in Watchers, NEW n \in Callers, Watch(w, n)
      PROVE  BehaviorInv'
  <2>1. /\ today' = today
        /\ stage' = [stage EXCEPT ![w] = "save"]
        /\ caller' = [caller EXCEPT ![w] = n]
    BY <1>4 DEF Watch
  <2>2. TimelineOK' /\ SnapshotsOK'
    <3>1. ASSUME NEW e \in EventIds, NEW d \in 0..LastDay,
                 Observed([event |-> e, caller |-> n, day |-> d, applied |-> "UNKNOWN",
                           confirmed |-> FALSE])
          PROVE  TimelineOK'
      <4>1. [event |-> e, caller |-> n, day |-> d, applied |-> "UNKNOWN",
             confirmed |-> FALSE] \in Observation
        BY DEF Observation, Actions
      <4> QED
        BY <1>1, <3>1, <4>1, ObservingKeeps
    <3>2. CASE timeline' = Cleaned(timeline, n) /\ PrunedTo(snapshots)
      BY <1>1, <3>2, CleaningKeeps, SnapshotsPruned
    <3> QED
      BY <1>3, <1>4, <3>1, <3>2 DEF Watch
  <2> QED
    BY <1>1, <2>1, <2>2 DEF BehaviorInv
<1>5. ASSUME NEW w \in Watchers, SaveSnapshot(w)
      PROVE  BehaviorInv'
  <2>1. /\ PrunedTo([snapshots EXCEPT ![caller[w]] = today])
        /\ UNCHANGED <<today, timeline>>
        /\ \/ stage' = [stage EXCEPT ![w] = "saved"] /\ UNCHANGED caller
           \/ Rest(w)
    BY <1>5 DEF SaveSnapshot
  <2>2. [snapshots EXCEPT ![caller[w]] = today] \in [Callers -> 0..LastDay \union {NoSnapshot}]
    BY <1>1
  <2>3. SnapshotsOK'
    BY <2>1, <2>2, SnapshotsPruned
  <2>4. /\ stage' \in [Watchers -> {"idle", "save", "saved"}]
        /\ caller' \in [Watchers -> Callers \union {NoCaller}]
    BY <1>1, <2>1 DEF Rest
  <2> QED
    BY <1>1, <1>2, <2>1, <2>3, <2>4 DEF BehaviorInv
<1>6. ASSUME NEW w \in Watchers, Unwatch(w)
      PROVE  BehaviorInv'
  BY <1>1, <1>2, <1>3, <1>6 DEF Unwatch, Rest, BehaviorInv
<1>7. ASSUME NEW row \in [event : EventIds, caller : Callers, day : {today},
                          applied : {"UNKNOWN", "ALLOW"}, confirmed : BOOLEAN],
             Note(row)
      PROVE  BehaviorInv'
  <2>1. row \in Observation
    BY <1>1 DEF Observation, Actions
  <2>2. Observed(row) /\ UNCHANGED <<today, snapshots, stage, caller>>
    BY <1>7 DEF Note
  <2>3. TimelineOK'
    BY <1>1, <2>1, <2>2, ObservingKeeps
  <2> QED
    BY <1>1, <1>3, <2>2, <2>3 DEF BehaviorInv
<1>8. ASSUME NEW e, NEW action \in Actions, UpdateOutcome(e, action)
      PROVE  BehaviorInv'
  <2> DEFINE new == [i \in DOMAIN timeline |->
                       IF timeline[i].event = e THEN [timeline[i] EXCEPT !.applied = action]
                       ELSE timeline[i]]
  <2>1. timeline' = new /\ UNCHANGED <<today, snapshots, stage, caller>>
    BY <1>8 DEF UpdateOutcome
  <2>2. \A i \in DOMAIN timeline : timeline[i] \in Observation
    BY <1>1 DEF TimelineOK
  <2>3. /\ new \in [DOMAIN timeline -> Observation]
        /\ \A i \in DOMAIN timeline : /\ new[i].event = timeline[i].event
                                      /\ new[i].caller = timeline[i].caller
    BY <2>2 DEF Observation
  <2> HIDE DEF new
  <2>4. TimelineOK'
    BY <1>1, <2>1, <2>3, OutcomeKeeps
  <2> QED
    BY <1>1, <1>3, <2>1, <2>4 DEF BehaviorInv
<1>9. ASSUME NEW e, Confirm(e)
      PROVE  BehaviorInv'
  <2> DEFINE new == [i \in DOMAIN timeline |->
                       IF timeline[i].event = e THEN [timeline[i] EXCEPT !.confirmed = TRUE]
                       ELSE timeline[i]]
  <2>1. timeline' = new /\ UNCHANGED <<today, snapshots, stage, caller>>
    BY <1>9 DEF Confirm
  <2>2. \A i \in DOMAIN timeline : timeline[i] \in Observation
    BY <1>1 DEF TimelineOK
  <2>3. /\ new \in [DOMAIN timeline -> Observation]
        /\ \A i \in DOMAIN timeline : /\ new[i].event = timeline[i].event
                                      /\ new[i].caller = timeline[i].caller
    BY <2>2 DEF Observation
  <2> HIDE DEF new
  <2>4. TimelineOK'
    BY <1>1, <2>1, <2>3, OutcomeKeeps
  <2> QED
    BY <1>1, <1>3, <2>1, <2>4 DEF BehaviorInv
<1>10. CASE NextDay
  <2>1. today' \in 0..LastDay
    BY <1>1, <1>10, BehaviorAssumption DEF NextDay
  <2> QED
    BY <1>1, <1>2, <1>3, <1>10, <2>1 DEF NextDay, BehaviorInv
<1>11. CASE UNCHANGED behaviorVars
  BY <1>1, <1>2, <1>3, <1>11 DEF behaviorVars, BehaviorInv
<1> QED
  <2>1. "ALLOW" \in Actions /\ "BLOCK" \in Actions
    BY DEF Actions
  <2> QED
    BY <1>4, <1>5, <1>6, <1>7, <1>8, <1>9, <1>10, <1>11, <2>1 DEF BehaviorNext

\* Nothing has been observed at first.
LEMMA BehaviorStarts == BehaviorInit => BehaviorInv
<1> SUFFICES ASSUME BehaviorInit PROVE BehaviorInv
  OBVIOUS
<1>1. timeline = <<>> /\ DOMAIN timeline = {}
  BY DEF BehaviorInit
<1>2. \A n : RowsOf(timeline, n) = {}
  BY <1>1 DEF RowsOf
<1>3. Saved(snapshots) = {}
  BY DEF BehaviorInit, Saved
<1>4. \A limit \in Nat : Cardinality({}) <= limit
  <2>1. Cardinality({}) = 0
    BY FS_EmptySet
  <2> QED
    BY <2>1
<1>5. TimelineOK
  <2>1. timeline \in Seq(Observation)
    BY <1>1
  <2> QED
    BY <1>1, <1>2, <1>4, <2>1, BehaviorAssumption DEF TimelineOK
<1>6. SnapshotsOK
  <2>1. snapshots \in [Callers -> 0..LastDay \union {NoSnapshot}]
    BY DEF BehaviorInit
  <2> QED
    BY <1>3, <1>4, <2>1, BehaviorAssumption DEF SnapshotsOK
<1> QED
  BY <1>5, <1>6 DEF BehaviorInv, BehaviorInit

\* What a client is at is a number, for lists as for contacts.
ListedOK ==
    /\ listed \in [ListTypes -> SUBSET Phones]
    /\ rows \in [LogTables -> [Phones -> Nat]]
    /\ \A c \in Clients : doing[c] \in ListTypes => phone[c] \in Phones

LEMMA ListedStep ==
  ASSUME ContactTypeOK, ListedOK, [ListNext]_listStoreVars
  PROVE  ListedOK'
<1>1. /\ listed \in [ListTypes -> SUBSET Phones]
      /\ rows \in [LogTables -> [Phones -> Nat]]
      /\ \A c \in Clients : doing[c] \in ListTypes => phone[c] \in Phones
      /\ doing \in [Clients -> Commands]
      /\ phone \in [Clients -> Phones \union {NoPhone}]
      /\ "nothing" \notin ListTypes /\ "import" \notin ListTypes
  BY DEF ListedOK, ContactTypeOK, ListTypes
<1>2. ASSUME NEW c \in Clients, Done(c)
      PROVE  \A d \in Clients : doing'[d] \in ListTypes => phone'[d] \in Phones
  BY <1>1, <1>2 DEF Done
<1>3. ASSUME NEW c \in Clients, NEW n \in Phones, NEW l \in ListTypes,
             LookForEntry(c, n, l) \/ RemoveEntry(c, n, l)
      PROVE  ListedOK'
  BY <1>1, <1>3 DEF LookForEntry, RemoveEntry, ListedOK, listVars, clientVars
<1>4. ASSUME NEW c \in Clients, UpdateEntry(c) \/ InsertEntry(c)
      PROVE  ListedOK'
  <2>1. rows' = rows /\ (listed' = listed \/ listed' = [listed EXCEPT ![doing[c]] = @ \union {phone[c]}])
    BY <1>4 DEF UpdateEntry, InsertEntry, listVars
  <2>2. Done(c) /\ doing[c] \in ListTypes /\ phone[c] \in Phones
    BY <1>1, <1>4 DEF UpdateEntry, InsertEntry
  <2> QED
    BY <1>1, <1>2, <2>1, <2>2 DEF ListedOK
<1>5. ASSUME NEW c \in Clients, NEW n \in Phones, RemoveContact(c, n)
      PROVE  ListedOK'
  BY <1>1, <1>5 DEF RemoveContact, ListedOK, clientVars
<1>6. ASSUME NEW c \in Clients, NEW n \in Phones, NEW t \in LogTables, AddRow(c, t, n)
      PROVE  ListedOK'
  BY <1>1, <1>6 DEF AddRow, ListedOK, clientVars
<1>7. ASSUME NEW c \in Clients, NEW some \in SUBSET Phones, NEW n \in some, Import(c, some, n)
      PROVE  ListedOK'
  BY <1>1, <1>7 DEF Import, ListedOK, listVars
<1>8. ASSUME NEW c \in Clients, UpsertContact(c)
      PROVE  ListedOK'
  <2>1. UNCHANGED <<listed, rows>> /\ doing[c] = "import"
    BY <1>8 DEF UpsertContact
  <2>2. \A d \in Clients : doing'[d] \in ListTypes => phone'[d] \in Phones
    <3>1. CASE Done(c)
      BY <1>2, <3>1
    <3>2. ASSUME NEW n, phone' = [phone EXCEPT ![c] = n], UNCHANGED doing
          PROVE  \A d \in Clients : doing'[d] \in ListTypes => phone'[d] \in Phones
      BY <1>1, <2>1, <3>2
    <3> QED
      BY <1>8, <3>1, <3>2 DEF UpsertContact, Onward
  <2> QED
    BY <1>1, <2>1, <2>2 DEF ListedOK
<1>9. ASSUME NEW c \in Clients, ClearContacts(c)
      PROVE  ListedOK'
  BY <1>1, <1>9 DEF ClearContacts, ListedOK, clientVars
<1>10. ASSUME NEW c \in Clients, FailClient(c)
       PROVE  ListedOK'
  <2>1. UNCHANGED <<listed, rows>> /\ Done(c)
    BY <1>10 DEF FailClient, listVars
  <2> QED
    BY <1>1, <1>2, <2>1 DEF ListedOK
<1>11. CASE UNCHANGED listStoreVars
  BY <1>1, <1>11 DEF listStoreVars, listVars, clientVars, ListedOK
<1> QED
  BY <1>3, <1>4, <1>5, <1>6, <1>7, <1>8, <1>9, <1>10, <1>11 DEF ListNext, Client

\* Contacts, lists, observations and snapshots stay within their limits, and an event is
\* observed once, whichever clients, commands and analyses work on the tables at the same
\* time and wherever one of them stops.
THEOREM TablesStayBounded == DatabaseSpec => []TablesBounded
<1> DEFINE Inv == ContactInv /\ ListedOK /\ BehaviorInv
<1>1. DatabaseInit => Inv
  <2>1. ListInit => ListedOK
    BY DEF ListInit, ListedOK, ListTypes, LogTables
  <2> QED
    BY <2>1, InitKept, BehaviorStarts DEF DatabaseInit
<1>2. Inv /\ [DatabaseNext]_allVars => Inv'
  <2> SUFFICES ASSUME Inv, [DatabaseNext]_allVars PROVE Inv'
    OBVIOUS
  <2>1. [ListNext]_listStoreVars /\ [BehaviorNext]_behaviorVars
    BY PartsStep
  <2> QED
    BY <2>1, ContactStep, ListedStep, BehaviorKeeps DEF ContactInv
<1>3. Inv => TablesBounded
  <2> SUFFICES ASSUME Inv PROVE TablesBounded
    OBVIOUS
  <2>1. ListTypeOK
    BY DEF ContactInv, ContactTypeOK, ListedOK, ListTypeOK
  <2>2. ContactsBounded
    BY KeptMeansBounded
  <2>3. BehaviorTypeOK
    BY DEF BehaviorInv, TimelineOK, SnapshotsOK, BehaviorTypeOK, IsInjective
  <2>4. BehaviorBounded
    BY DEF BehaviorInv, TimelineOK, SnapshotsOK, BehaviorBounded, RowsOf
  <2> QED
    BY <2>1, <2>2, <2>3, <2>4 DEF TablesBounded
<1> QED
  BY <1>1, <1>2, <1>3, PTL DEF DatabaseSpec

\* What an observation that is added makes go is too old, or as many later ones of its
\* number stay as may.
LEMMA ObservingKeepsNewest ==
  ASSUME TimelineOK, NEW row \in Observation, Observed(row), NEW i \in DOMAIN timeline,
         \A k \in DOMAIN timeline' : timeline'[k].event # timeline[i].event,
         ~Aged(timeline[i])
  PROVE  Cardinality({k \in DOMAIN timeline' :
                         /\ timeline'[k].caller = timeline[i].caller
                         /\ timeline'[k].day >= timeline[i].day}) >= ObservationLimit
<1> DEFINE added == IF Known(row.event) THEN timeline ELSE Append(timeline, row)
           clean == Cleaned(added, row.caller)
<1>1. timeline \in Seq(Observation)
  BY DEF TimelineOK
<1>2. added \in Seq(Observation) /\ i \in DOMAIN added /\ added[i] = timeline[i]
  BY <1>1
<1>3. timeline' = clean
  BY DEF Observed
<1> HIDE DEF added
<1>4. \A k \in DOMAIN clean : clean[k].event # added[i].event
  BY <1>2, <1>3
<1>5. Cardinality({k \in DOMAIN clean : /\ clean[k].caller = added[i].caller
                                        /\ clean[k].day >= added[i].day}) >= ObservationLimit
  BY <1>2, <1>4, CleanedKeepsNewest
<1> HIDE DEF clean
<1> QED
  BY <1>2, <1>3, <1>5

\* No operation makes an observation go that is neither too old nor outnumbered.
LEMMA NewestKept ==
  ASSUME BehaviorInv, [BehaviorNext]_behaviorVars, NEW i \in DOMAIN timeline,
         \A k \in DOMAIN timeline' : timeline'[k].event # timeline[i].event,
         ~Aged(timeline[i])
  PROVE  Cardinality({k \in DOMAIN timeline' :
                         /\ timeline'[k].caller = timeline[i].caller
                         /\ timeline'[k].day >= timeline[i].day}) >= ObservationLimit
<1> DEFINE Outnumbered == Cardinality({k \in DOMAIN timeline' :
                                         /\ timeline'[k].caller = timeline[i].caller
                                         /\ timeline'[k].day >= timeline[i].day})
                            >= ObservationLimit
<1> SUFFICES Outnumbered
  OBVIOUS
<1>1. TimelineOK
  BY DEF BehaviorInv
<1>2. timeline' # timeline
  OBVIOUS
<1>3. ASSUME NEW row \in Observation, Observed(row)
      PROVE  Outnumbered
  BY <1>1, <1>3, ObservingKeepsNewest
<1>4. ASSUME NEW w \in Watchers, NEW n \in Callers, Watch(w, n)
      PROVE  Outnumbered
  <2>1. ASSUME NEW e \in EventIds, NEW d \in 0..LastDay,
               Observed([event |-> e, caller |-> n, day |-> d, applied |-> "UNKNOWN",
                         confirmed |-> FALSE])
        PROVE  Outnumbered
    <3>1. [event |-> e, caller |-> n, day |-> d, applied |-> "UNKNOWN",
           confirmed |-> FALSE] \in Observation
      BY DEF Observation, Actions
    <3> QED
      BY <1>3, <2>1, <3>1
  <2>2. CASE timeline' = Cleaned(timeline, n)
    <3> DEFINE clean == Cleaned(timeline, n)
    <3>1. timeline \in Seq(Observation)
      BY <1>1 DEF TimelineOK
    <3>2. timeline' = clean
      BY <2>2
    <3>3. \A k \in DOMAIN clean : clean[k].event # timeline[i].event
      BY <3>2
    <3>4. Cardinality({k \in DOMAIN clean : /\ clean[k].caller = timeline[i].caller
                                            /\ clean[k].day >= timeline[i].day})
            >= ObservationLimit
      BY <3>1, <3>3, CleanedKeepsNewest
    <3> HIDE DEF clean
    <3> QED
      BY <3>2, <3>4
  <2> QED
    BY <1>4, <2>1, <2>2 DEF Watch
<1>5. ASSUME NEW row \in [event : EventIds, caller : Callers, day : {today},
                          applied : {"UNKNOWN", "ALLOW"}, confirmed : BOOLEAN],
             Note(row)
      PROVE  Outnumbered
  <2>1. row \in Observation
    BY DEF Observation, Actions, BehaviorInv
  <2> QED
    BY <1>3, <1>5, <2>1 DEF Note
<1>6. ASSUME NEW e, Confirm(e) \/ \E action \in {"ALLOW", "BLOCK"} : UpdateOutcome(e, action)
      PROVE  FALSE
  <2>1. timeline[i] \in Observation
    BY <1>1 DEF TimelineOK
  <2>2. i \in DOMAIN timeline' /\ timeline'[i].event = timeline[i].event
    BY <1>6, <2>1 DEF Confirm, UpdateOutcome, Observation
  <2> QED
    BY <2>2
<1>7. CASE \/ NextDay \/ UNCHANGED behaviorVars
           \/ \E w \in Watchers : SaveSnapshot(w) \/ Unwatch(w)
  BY <1>2, <1>7 DEF NextDay, behaviorVars, SaveSnapshot, Unwatch
<1> HIDE DEF Outnumbered
<1> QED
  BY <1>4, <1>5, <1>6, <1>7 DEF BehaviorNext

\* Whatever happens to the table of observations, one that goes is older than the history
\* that is kept, or as many later ones of its number stay as may.
THEOREM NewestObservationsStay == DatabaseSpec => NewestStay
<1>1. DatabaseInit => BehaviorInv
  BY BehaviorStarts DEF DatabaseInit
<1>2. BehaviorInv /\ [DatabaseNext]_allVars => BehaviorInv'
  BY PartsStep, BehaviorKeeps
<1>3. BehaviorInv /\ [DatabaseNext]_allVars =>
        [\A i \in DOMAIN timeline :
            LET row == timeline[i] IN
            (\A j \in DOMAIN timeline' : timeline'[j].event # row.event) =>
                \/ Aged(row)
                \/ Cardinality({j \in DOMAIN timeline' :
                                   /\ timeline'[j].caller = row.caller
                                   /\ timeline'[j].day >= row.day}) >= ObservationLimit]_behaviorVars
  BY PartsStep, NewestKept
<1> QED
  BY <1>1, <1>2, <1>3, PTL DEF DatabaseSpec, NewestStay
================================================================================
