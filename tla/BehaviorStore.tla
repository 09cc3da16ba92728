------------------------------ MODULE BehaviorStore ------------------------------
(* Observations of numbers and the snapshots derived from them, in tables that*)
(* keep what is recent: calls the daemon screens, scans and trust commands    *)
(* add observations, and every analysis that is shown or used saves a         *)
(* snapshot.                                                                  *)
(* callshield/adaptive/storage.py, callshield/adaptive/engine.py,             *)
(* callshield/events/processor.py, callshield/daemon/service.py.              *)
(*                                                                            *)
(* A watcher is one call of BehaviorEngine.snapshot.  The time of an          *)
(* observation is the time of its event, which a phone tells.                 *)
EXTENDS Integers, Sequences, FiniteSets, Functions

CONSTANTS
    Watchers,          \* concurrent calls of snapshot
    Callers,           \* fingerprints of phone numbers
    EventIds,          \* identifiers of events
    ObservationLimit,  \* intelligence_observation_limit
    SnapshotLimit,     \* intelligence_profile_limit
    HistoryDays,       \* intelligence_history_days
    LastDay,           \* bound: the last day
    NoSnapshot,        \* no row in intelligence_profiles
    NoCaller           \* a call that is not under way

ASSUME BehaviorAssumption ==
    /\ IsFiniteSet(Callers)
    /\ ObservationLimit \in Nat /\ SnapshotLimit \in Nat
    /\ HistoryDays \in Nat /\ LastDay \in Nat
    /\ NoSnapshot \notin Int

VARIABLES
    today,     \* the date
    timeline,  \* intelligence_observations, in the order of their ids
    snapshots, \* intelligence_profiles: the day of the last save
    stage,     \* where a watcher is
    caller     \* the number it is about

behaviorVars == <<today, timeline, snapshots, stage, caller>>

Actions == {"UNKNOWN", "ALLOW", "BLOCK"}
Observation == [event : EventIds, caller : Callers, day : 0..LastDay,
                applied : Actions, confirmed : BOOLEAN]

BehaviorInit ==
    /\ today \in 0..LastDay
    /\ timeline = <<>>
    /\ snapshots = [n \in Callers |-> NoSnapshot]
    /\ stage = [w \in Watchers |-> "idle"]
    /\ caller = [w \in Watchers |-> NoCaller]

--------------------------------------------------------------------------------
(* Observations.                                                              *)

Aged(row) == row.day < today - HistoryDays

\* The rows of a number that come before row i in `ORDER BY timestamp DESC, id DESC`.
Before(rows, i) ==
    {j \in DOMAIN rows : /\ rows[j].caller = rows[i].caller /\ ~Aged(rows[j])
                         /\ \/ rows[j].day > rows[i].day
                            \/ rows[j].day = rows[i].day /\ j > i}

\* The rows that are kept, in the order of their ids.
Only(rows, kept) ==
    [k \in 1..Cardinality(kept) |->
        rows[CHOOSE i \in kept : Cardinality({j \in kept : j < i}) = k - 1]]

\* Mutant: the order is that of the ids.
CleanedById(rows, n) ==
    Only(rows, {i \in DOMAIN rows :
                  /\ ~Aged(rows[i])
                  /\ rows[i].caller = n =>
                      Cardinality({j \in DOMAIN rows : rows[j].caller = n /\ j > i})
                          < ObservationLimit})

\* _cleanup_locked: what is too old goes, of every number, and of one number what is
\* too much.
Cleaned(rows, n) ==
    Only(rows, {i \in DOMAIN rows :
                  /\ ~Aged(rows[i])
                  /\ rows[i].caller = n => Cardinality(Before(rows, i)) < ObservationLimit})

Known(e) == \E i \in DOMAIN timeline : timeline[i].event = e

\* add_observation: INSERT OR IGNORE, and cleaning up, in one transaction.  Commands add
\* with a fresh identifier; a call that is sent again is ignored.
Observed(row) ==
    timeline' = Cleaned(IF Known(row.event) THEN timeline ELSE Append(timeline, row), row.caller)

\* scan, report, trust and untrust.
Note(row) ==
    /\ ~Known(row.event) /\ row.day = today
    /\ Observed(row)
    /\ UNCHANGED <<today, snapshots, stage, caller>>

\* update_outcome, once the policy has decided; the row may be gone by then.
UpdateOutcome(e, action) ==
    /\ \E i \in DOMAIN timeline : timeline[i].event = e
    /\ timeline' = [i \in DOMAIN timeline |->
                      IF timeline[i].event = e THEN [timeline[i] EXCEPT !.applied = action]
                      ELSE timeline[i]]
    /\ UNCHANGED <<today, snapshots, stage, caller>>

\* confirm, when the phone has rejected the call.
Confirm(e) ==
    /\ \E i \in DOMAIN timeline : timeline[i].event = e /\ timeline[i].applied = "BLOCK"
    /\ timeline' = [i \in DOMAIN timeline |->
                      IF timeline[i].event = e THEN [timeline[i] EXCEPT !.confirmed = TRUE]
                      ELSE timeline[i]]
    /\ UNCHANGED <<today, snapshots, stage, caller>>

--------------------------------------------------------------------------------
(* Snapshots.                                                                 *)

Saved(s) == {n \in Callers : s[n] # NoSnapshot}
SnapshotExcess(s) == Cardinality(Saved(s)) - SnapshotLimit

\* _prune_profiles_locked: the rows saved first, as many as are too many.  Those of the
\* same second go in the order of their hashes, which is any order.
PrunableSnapshots(s) ==
    {gone \in SUBSET Saved(s) :
        /\ Cardinality(gone) = IF SnapshotExcess(s) > 0 THEN SnapshotExcess(s) ELSE 0
        /\ \A n \in gone, m \in Saved(s) \ gone : s[n] <= s[m]}

PrunedTo(s) ==
    \E gone \in PrunableSnapshots(s) :
        snapshots' = [n \in Callers |-> IF n \in gone THEN NoSnapshot ELSE s[n]]

\* snapshot adds its observation, or cleans up; then it reads the timeline, the profile
\* and the reports, without a transaction around them.
Watch(w, n) ==
    /\ stage[w] = "idle"
    /\ \/ /\ \E e \in EventIds, d \in 0..LastDay :
                Observed([event |-> e, caller |-> n, day |-> d, applied |-> "UNKNOWN",
                          confirmed |-> FALSE])
          /\ UNCHANGED snapshots
       \/ timeline' = Cleaned(timeline, n) /\ PrunedTo(snapshots)
    /\ stage' = [stage EXCEPT ![w] = "save"]
    /\ caller' = [caller EXCEPT ![w] = n]
    /\ UNCHANGED today

Rest(w) ==
    /\ stage' = [stage EXCEPT ![w] = "idle"]
    /\ caller' = [caller EXCEPT ![w] = NoCaller]

\* save_snapshot; the daemon saves again with the decision.
SaveSnapshot(w) ==
    /\ stage[w] \in {"save", "saved"}
    /\ PrunedTo([snapshots EXCEPT ![caller[w]] = today])
    /\ \/ stage[w] = "save" /\ stage' = [stage EXCEPT ![w] = "saved"] /\ UNCHANGED caller
       \/ stage[w] = "saved" /\ Rest(w)
    /\ UNCHANGED <<today, timeline>>

\* It is done, or something fails: the snapshot is "unavailable" then.
Unwatch(w) ==
    /\ stage[w] # "idle"
    /\ Rest(w)
    /\ UNCHANGED <<today, timeline, snapshots>>

NextDay ==
    /\ today < LastDay
    /\ today' = today + 1
    /\ UNCHANGED <<timeline, snapshots, stage, caller>>

BehaviorNext ==
    \/ \E w \in Watchers :
          (\E n \in Callers : Watch(w, n)) \/ SaveSnapshot(w) \/ Unwatch(w)
    \/ \E row \in [event : EventIds, caller : Callers, day : {today},
                   applied : {"UNKNOWN", "ALLOW"}, confirmed : BOOLEAN] : Note(row)
    \/ \E e \in EventIds :
          Confirm(e) \/ \E action \in {"ALLOW", "BLOCK"} : UpdateOutcome(e, action)
    \/ NextDay

--------------------------------------------------------------------------------
(* Properties.                                                                *)

BehaviorTypeOK ==
    /\ today \in 0..LastDay
    /\ \A i \in DOMAIN timeline : timeline[i] \in Observation
    /\ IsInjective([i \in DOMAIN timeline |-> timeline[i].event])
    /\ snapshots \in [Callers -> 0..LastDay \union {NoSnapshot}]
    /\ stage \in [Watchers -> {"idle", "save", "saved"}]
    /\ caller \in [Watchers -> Callers \union {NoCaller}]

\* No table outgrows its limits, whoever adds to it.
BehaviorBounded ==
    /\ \A n \in Callers :
          Cardinality({i \in DOMAIN timeline : timeline[i].caller = n}) <= ObservationLimit
    /\ Cardinality(Saved(snapshots)) <= SnapshotLimit

\* An observation goes because it is older than the history that is kept, or because as
\* many later ones of its number stay as are kept at most: in the order of the events,
\* which is not the one in which they arrived (_cleanup_locked).
NewestStay ==
    [][\A i \in DOMAIN timeline :
          LET row == timeline[i] IN
          (\A j \in DOMAIN timeline' : timeline'[j].event # row.event) =>
              \/ Aged(row)
              \/ Cardinality({j \in DOMAIN timeline' :
                                 /\ timeline'[j].caller = row.caller
                                 /\ timeline'[j].day >= row.day}) >= ObservationLimit]_behaviorVars
================================================================================
