------------------------------ MODULE ReplayCache ------------------------------
(* Which requests the daemon accepts: a request carries an id and a time and  *)
(* may arrive again as it is.  Its time must be within a lifetime of now, and *)
(* its id not among those that are remembered for a lifetime.                 *)
(* callshield/security/replay.py, _validate_and_dispatch.                     *)
(*                                                                            *)
(* A malformed id or time and a time too far away change nothing.  The cache  *)
(* is lost with the daemon, and `clock` is its wall clock, which is not set   *)
(* back here.                                                                 *)
EXTENDS Integers, FiniteSets

CONSTANTS
    Ids,         \* request ids
    Times,       \* the times requests may carry
    Lifetime,    \* replay_window_seconds
    MaxEntries,  \* replay_cache_size
    LastMoment,  \* bound: when the clock stops
    MaxAccepted  \* bound: acceptances in all

ASSUME ReplayAssumption ==
    /\ IsFiniteSet(Ids) /\ Times \subseteq Int
    /\ Lifetime \in Nat /\ LastMoment \in Nat /\ MaxAccepted \in Nat
    /\ MaxEntries \in Nat \ {0}

VARIABLES
    clock,
    time,     \* the time each request carries
    held,     \* the keys of _entries
    expires,  \* its values; those of keys that are gone tell when they were accepted
    turn,     \* the order of the keys: which acceptance of all was the last of an id, or 0
    accepted  \* acceptances so far

replayVars == <<clock, time, held, expires, turn, accepted>>

ReplayTypeOK ==
    /\ clock \in Nat /\ accepted \in Nat
    /\ time \in [Ids -> Times]
    /\ held \subseteq Ids
    /\ expires \in [Ids -> Int]
    /\ turn \in [Ids -> Nat]

ReplayInit ==
    /\ clock = 0 /\ accepted = 0
    /\ time \in [Ids -> Times]
    /\ held = {}
    /\ expires = [id \in Ids |-> 0]
    /\ turn = [id \in Ids |-> 0]

Fresh(id) == clock - time[id] <= Lifetime /\ time[id] - clock <= Lifetime

\* _expire_locked
Unexpired == {id \in held : expires[id] > clock}

Accept(id) ==
    /\ Fresh(id) /\ id \notin Unexpired
    /\ accepted < MaxAccepted
    /\ expires' = [expires EXCEPT ![id] = clock + Lifetime]
    /\ turn' = [turn EXCEPT ![id] = accepted + 1]
    /\ accepted' = accepted + 1
    /\ UNCHANGED <<clock, time>>

Store(id) ==
    /\ Cardinality(Unexpired) < MaxEntries
    /\ held' = Unexpired \union {id}
    /\ Accept(id)

\* Mutant: popitem() without last=False takes the newest.
EvictNewest(id) ==
    /\ Cardinality(Unexpired) >= MaxEntries
    /\ \E newest \in Unexpired :
          /\ \A other \in Unexpired : turn[other] <= turn[newest]
          /\ held' = (Unexpired \ {newest}) \union {id}
    /\ Accept(id)

\* The loop that makes room runs once, since there never are more than MaxEntries.
Evict(id) ==
    /\ Cardinality(Unexpired) >= MaxEntries
    /\ \E oldest \in Unexpired :
          /\ \A other \in Unexpired : turn[oldest] <= turn[other]
          /\ held' = (Unexpired \ {oldest}) \union {id}
    /\ Accept(id)

Duplicate(id) ==
    /\ Fresh(id) /\ id \in Unexpired
    /\ held' = Unexpired
    /\ UNCHANGED <<clock, time, expires, turn, accepted>>

\* check_and_store, as a whole under its lock once the time has passed.
CheckAndStore(id) == Store(id) \/ Evict(id) \/ Duplicate(id)

Pass ==
    /\ clock < LastMoment
    /\ clock' = clock + 1
    /\ UNCHANGED <<time, held, expires, turn, accepted>>

ReplayNext == Pass \/ \E id \in Ids : CheckAndStore(id)

ReplaySpec == ReplayInit /\ [][ReplayNext]_replayVars

--------------------------------------------------------------------------------
(* Properties.                                                                *)

CacheBounded == Cardinality(held) <= MaxEntries

\* An id is known for a lifetime after its acceptance, until MaxEntries others have been
\* accepted.
RecentIsKnown ==
    \A id \in Ids :
        /\ turn[id] # 0 /\ clock < expires[id]
        /\ accepted - turn[id] < MaxEntries
        => id \in held

\* "Record fresh UUIDs for a finite window with deterministic eviction": while a request
\* that was accepted would still pass for fresh it is known, so that it is not handled
\* again - except at the last moment of its window, when both limits are reached at once,
\* or if it was accepted before the time it carries, or if as many others as the cache
\* holds were accepted since; and the cache never holds more than that.
AcceptedIsKnown ==
    /\ CacheBounded
    /\ \A id \in Ids :
          /\ turn[id] # 0 /\ time[id] <= expires[id] - Lifetime
          /\ Fresh(id) /\ clock < time[id] + Lifetime
          /\ accepted - turn[id] < MaxEntries
          => id \in held
================================================================================
