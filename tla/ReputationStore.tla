---------------------------- MODULE ReputationStore ----------------------------
(* Reputation profiles, their history and trusted numbers in the database,    *)
(* shared by every process that computes a reputation and by the commands     *)
(* that trust and untrust a number.                                           *)
(* callshield/reputation/storage.py, callshield/reputation/engine.py,         *)
(* callshield/reputation/history.py, callshield/database.py (schema).         *)
(*                                                                            *)
(* An analyst is one call of ReputationEngine.calculate that saves: an        *)
(* analysis thread of the daemon, a command or the interface, each with a     *)
(* connection of its own.  A statement outside a transaction is a step, and   *)
(* a transaction is a step.  What calculate makes of other tables is          *)
(* arbitrary: a score, and whether there was evidence at all.                 *)
EXTENDS Integers, Sequences, FiniteSets

CONSTANTS
    Numbers,       \* fingerprints of phone numbers
    Analysts,      \* concurrent calculations
    Measured,      \* the scores a calculation may come to, and whether from evidence
    ProfileLimit,  \* reputation_profile_limit
    HistoryLimit,  \* reputation_history_limit
    TrustLimit,    \* trust_record_limit
    Lifetimes,     \* how long temporary trust may last
    MaxTime,       \* bound: the last instant
    Never,         \* expires_at of trust without an end
    NoProfile,     \* no row in reputation_profiles
    NoRow,         \* no row in trusted_numbers
    NoNumber       \* a calculation that is not under way

ASSUME ReputationAssumption ==
    /\ IsFiniteSet(Numbers)
    /\ Measured \subseteq [score : 0..100, evidence : BOOLEAN]
    /\ ProfileLimit \in Nat \ {0} /\ HistoryLimit \in Nat \ {0} /\ TrustLimit \in Nat \ {0}
    /\ Lifetimes \subseteq Nat \ {0}
    /\ MaxTime \in Nat
    /\ Never \notin Int /\ NoRow \notin Int /\ Never # NoRow

Risks == {"TRUSTED", "UNKNOWN", "LOW", "MODERATE", "HIGH", "CRITICAL"}
Profile == [score : 0..100, risk : Risks, updated : Nat]
Result == [score : 0..100, risk : Risks]
ASSUME NoProfileAssumption == NoProfile \notin Profile \union Result

VARIABLES
    clock,     \* seconds since some instant
    profile,   \* reputation_profiles
    history,   \* reputation_history: risk_after of the rows of a number, oldest first
    expires,   \* trusted_numbers: expires_at of the row of a number
    pc,        \* where a calculation is
    number,    \* the number it is about
    since,     \* the time get_trust compares with
    trust,     \* it found the number trusted
    previous   \* what save_profile has read of the profile

storeVars == <<profile, history>>
jobVars   == <<pc, number, since, trust, previous>>
vars == <<clock, storeVars, expires, jobVars>>

Pcs == {"idle", "expire", "profile", "trust", "reexpire", "save"}

Init ==
    /\ clock = 0
    /\ profile = [n \in Numbers |-> NoProfile]
    /\ history = [n \in Numbers |-> <<>>]
    /\ expires = [n \in Numbers |-> NoRow]
    /\ pc = [a \in Analysts |-> "idle"]
    /\ number = [a \in Analysts |-> NoNumber]
    /\ since = [a \in Analysts |-> 0]
    /\ trust = [a \in Analysts |-> FALSE]
    /\ previous = [a \in Analysts |-> NoProfile]

--------------------------------------------------------------------------------
(* Trust.                                                                     *)

Trusted == {n \in Numbers : expires[n] # NoRow}
ExpiredAt(n, now) == expires[n] \notin {NoRow, Never} /\ expires[n] <= now
Live(n) == n \in Trusted /\ ~ExpiredAt(n, clock)

\* get_trust reads the row; one that has expired is deleted in a transaction of its
\* own afterwards.
LookUpTrust(a, n, found, delete) ==
    /\ since' = [since EXCEPT ![a] = IF ExpiredAt(n, clock) THEN clock ELSE 0]
    /\ pc' = [pc EXCEPT ![a] = IF ExpiredAt(n, clock) THEN delete ELSE found]

\* Mutant: the row is deleted whatever it says by now.
DeleteExpiredBlindly(a) == expires' = [expires EXCEPT ![number[a]] = NoRow]

DeleteExpired(a) ==
    expires' = IF ExpiredAt(number[a], since[a]) THEN [expires EXCEPT ![number[a]] = NoRow]
               ELSE expires

Unexpired == {n \in Numbers : Live(n)}

Full(n) == n \notin Unexpired /\ Cardinality(Unexpired) >= TrustLimit

\* set_trust purges what has expired and then may be refused; a refusal rolls the
\* purge back and changes nothing.
SetTrust(n, e) ==
    /\ ~Full(n)
    /\ expires' = [m \in Numbers |-> IF m = n THEN e
                                    ELSE IF ExpiredAt(m, clock) THEN NoRow
                                    ELSE expires[m]]
    /\ UNCHANGED <<clock, storeVars, jobVars>>

RemoveTrust(n) ==
    /\ expires' = [expires EXCEPT ![n] = NoRow]
    /\ UNCHANGED <<clock, storeVars, jobVars>>

\* trust and untrust; the observation they add for the timeline is in another table.
TrustCommand(n) ==
    \/ \E e \in {clock + d : d \in Lifetimes} \union {Never} : SetTrust(n, e)
    \/ RemoveTrust(n)

--------------------------------------------------------------------------------
(* A calculation.                                                             *)

Return(a) ==
    /\ pc' = [pc EXCEPT ![a] = "idle"]
    /\ number' = [number EXCEPT ![a] = NoNumber]
    /\ since' = [since EXCEPT ![a] = 0]
    /\ trust' = [trust EXCEPT ![a] = FALSE]
    /\ previous' = [previous EXCEPT ![a] = NoProfile]

Begin(a, n) ==
    /\ pc[a] = "idle"
    /\ number' = [number EXCEPT ![a] = n]
    /\ trust' = [trust EXCEPT ![a] = Live(n)]
    /\ LookUpTrust(a, n, "profile", "expire")
    /\ UNCHANGED <<clock, storeVars, expires, previous>>

Expire(a) ==
    /\ pc[a] \in {"expire", "reexpire"}
    /\ DeleteExpired(a)
    /\ pc' = [pc EXCEPT ![a] = IF @ = "expire" THEN "profile" ELSE "save"]
    /\ since' = [since EXCEPT ![a] = 0]
    /\ UNCHANGED <<clock, storeVars, number, trust, previous>>

ResultIn(n) ==
    IF profile[n] = NoProfile THEN NoProfile
    ELSE [score |-> profile[n].score, risk |-> profile[n].risk]

\* save_profile begins with get_profile, which ends with a second get_trust.
ReadProfile(a) ==
    /\ pc[a] = "profile"
    /\ previous' = [previous EXCEPT ![a] = ResultIn(number[a])]
    /\ pc' = [pc EXCEPT ![a] = IF profile[number[a]] = NoProfile THEN "save" ELSE "trust"]
    /\ UNCHANGED <<clock, storeVars, expires, number, since, trust>>

TrustAgain(a) ==
    /\ pc[a] = "trust"
    /\ LookUpTrust(a, number[a], "save", "reexpire")
    /\ UNCHANGED <<clock, storeVars, expires, number, trust, previous>>

RiskLevel(score, evidence, isTrusted) ==
    IF isTrusted THEN "TRUSTED"
    ELSE IF ~evidence THEN "UNKNOWN"
    ELSE IF score >= 80 THEN "CRITICAL"
    ELSE IF score >= 60 THEN "HIGH"
    ELSE IF score >= 40 THEN "MODERATE"
    ELSE "LOW"

\* What calculate can make of its measurements.
Results(isTrusted) ==
    {[score |-> IF isTrusted THEN 0 ELSE m.score,
      risk  |-> RiskLevel(m.score, m.evidence, isTrusted)] : m \in Measured}

\* Mutant: only the score counts.
ScoreChanged(old, new) ==
    \/ old = NoProfile
    \/ new.score - old.score >= 5
    \/ old.score - new.score >= 5

MeaningfulChange(old, new) ==
    \/ old = NoProfile
    \/ new.score - old.score >= 5
    \/ old.score - new.score >= 5
    \/ old.risk # new.risk

\* The row of this change, if there is one, and no more rows than allowed.
Recorded(rows, old, new) ==
    LET all == IF MeaningfulChange(old, new) THEN Append(rows, new.risk) ELSE rows
    IN  IF Len(all) > HistoryLimit
        THEN SubSeq(all, Len(all) - HistoryLimit + 1, Len(all))
        ELSE all

Untrusted(profiles) == {n \in Numbers \ Trusted : profiles[n] # NoProfile}
Excess(profiles) == Cardinality({n \in Numbers : profiles[n] # NoProfile}) - ProfileLimit

\* Mutant: nothing is deleted unless the limit can be met.
PrunableEnough(profiles) ==
    {gone \in SUBSET Untrusted(profiles) :
        IF Excess(profiles) <= 0 \/ Cardinality(Untrusted(profiles)) < Excess(profiles)
        THEN gone = {}
        ELSE Cardinality(gone) = Excess(profiles)}

\* The rows the pruning of a transaction may delete: the oldest ones without trust, as
\* many as are too many, or all of them.  Rows of the same second are in any order.
Prunable(profiles) ==
    {gone \in SUBSET Untrusted(profiles) :
        IF Excess(profiles) <= 0 THEN gone = {}
        ELSE /\ \/ Cardinality(gone) = Excess(profiles)
                \/ gone = Untrusted(profiles) /\ Cardinality(gone) <= Excess(profiles)
             /\ \A n \in gone, m \in Untrusted(profiles) \ gone :
                    profiles[n].updated <= profiles[m].updated}

\* The transaction of save_profile.  The history of a deleted profile goes with it.
Save(a) ==
    /\ pc[a] = "save"
    /\ \E new \in Results(trust[a]) :
        LET n == number[a]
            upserted == [profile EXCEPT ![n] =
                           [score |-> new.score, risk |-> new.risk, updated |-> clock]]
        IN  \E gone \in Prunable(upserted) :
              /\ profile' = [m \in Numbers |-> IF m \in gone THEN NoProfile ELSE upserted[m]]
              /\ history' = [m \in Numbers |->
                               IF m \in gone THEN <<>>
                               ELSE IF m = n THEN Recorded(history[m], previous[a], new)
                               ELSE history[m]]
    /\ Return(a)
    /\ UNCHANGED <<clock, expires>>

\* A statement fails or the process dies: calculate answers "unavailable" and what is
\* not committed is rolled back.
Fail(a) ==
    /\ pc[a] # "idle"
    /\ Return(a)
    /\ UNCHANGED <<clock, storeVars, expires>>

Calculate(a) ==
    \/ \E n \in Numbers : Begin(a, n)
    \/ Expire(a)
    \/ ReadProfile(a)
    \/ TrustAgain(a)
    \/ Save(a)
    \/ Fail(a)

Tick ==
    /\ clock < MaxTime
    /\ clock' = clock + 1
    /\ UNCHANGED <<storeVars, expires, jobVars>>

Next ==
    \/ \E a \in Analysts : Calculate(a)
    \/ \E n \in Numbers : TrustCommand(n)
    \/ Tick

Spec == Init /\ [][Next]_vars

--------------------------------------------------------------------------------
(* Properties.                                                                *)

StoreOK ==
    /\ profile \in [Numbers -> Profile \union {NoProfile}]
    /\ history \in [Numbers -> Seq(Risks)]
    /\ \A n \in Numbers : Len(history[n]) <= HistoryLimit
    /\ \A n \in Numbers : profile[n] = NoProfile => history[n] = <<>>

TrustOK == expires \in [Numbers -> Nat \union {Never, NoRow}]

JobsOK ==
    /\ pc \in [Analysts -> Pcs]
    /\ number \in [Analysts -> Numbers \union {NoNumber}]
    /\ \A a \in Analysts : pc[a] # "idle" => number[a] \in Numbers
    /\ since \in [Analysts -> Nat]
    /\ trust \in [Analysts -> BOOLEAN]
    /\ previous \in [Analysts -> Result \union {NoProfile}]

\* Types; a history belongs to a profile and is never longer than configured.
TypeOK == clock \in Nat /\ StoreOK /\ TrustOK /\ JobsOK

Profiled == {n \in Numbers : profile[n] # NoProfile}
Larger(m, n) == IF m >= n THEN m ELSE n

\* The trust table never grows beyond its limit (set_trust).
TrustBounded == Cardinality(Trusted) <= TrustLimit

\* The profile table is bounded although trusted numbers are never pruned and may be
\* more than the limit for profiles allows; trust comes and goes and profiles of untrusted
\* numbers stay (save_profile, _prune_profiles_locked).
ProfilesBounded == Cardinality(Profiled) <= Larger(ProfileLimit, TrustLimit)

\* The time a get_trust compares with lies in the past.
SinceIsPast == \A a \in Analysts : since[a] <= clock

\* Trust that has not expired ends by an untrust command alone: a calculation that found
\* the row expired and deletes it later does not delete what a trust command has renewed
\* meanwhile, and neither does a purge (get_trust, set_trust).
LiveTrustStays ==
    [][\A n \in Numbers : Live(n) /\ n \notin Trusted' => RemoveTrust(n)]_vars
================================================================================
