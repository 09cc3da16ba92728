------------------------------- MODULE Database -------------------------------
(* The parts of the database side by side - they share no table, so that a    *)
(* step is one of one part - with what a reader of the whole history knows,   *)
(* and the properties that are about it or about several parts.               *)
EXTENDS ReputationStore, ListStore, BehaviorStore, Migration

VARIABLES
    overwritten, \* numbers saved over what another calculation about them had saved
    revived,     \* numbers whose profile was pruned while a calculation had read it
    alone,       \* one process at a time migrates
    blocked,     \* the numbers that have been put on a list of the database
    cut          \* a migration ended where the next one will not resume it

migrationMonitors == <<alone, blocked, cut>>
allVars == <<vars, overwritten, revived, listStoreVars, behaviorVars, migrationVars, migrationMonitors>>

--------------------------------------------------------------------------------

\* A save and what has become of the profile it was compared with.
Saves(a) == Save(a) /\ profile'[number[a]] # NoProfile
Overwrites(a) == Saves(a) /\ ResultIn(number[a]) \notin {NoProfile, previous[a]}
Revives(a) == Saves(a) /\ ResultIn(number[a]) = NoProfile /\ previous[a] # NoProfile

Explained(n) ==
    history[n] # <<>> /\ profile[n] # NoProfile /\ history[n][Len(history[n])] = profile[n].risk

\* A row of a later change ends the doubt.
ReputationStep ==
    /\ Next
    /\ overwritten' = {n \in Numbers :
                          /\ n \in overwritten \/ \E a \in Analysts : number[a] = n /\ Overwrites(a)
                          /\ ~Explained(n)'}
    /\ revived' = {n \in Numbers :
                      /\ n \in revived \/ \E a \in Analysts : number[a] = n /\ Revives(a)
                      /\ history'[n] = <<>>}
    /\ UNCHANGED <<listStoreVars, behaviorVars, migrationVars, migrationMonitors>>

ListStep ==
    /\ ListNext
    /\ UNCHANGED <<vars, overwritten, revived, behaviorVars, migrationVars, migrationMonitors>>

BehaviorStep ==
    /\ BehaviorNext
    /\ UNCHANGED <<vars, overwritten, revived, listStoreVars, migrationVars, migrationMonitors>>

Migrating(o) == ~At(o, "closed") /\ ~At(o, "open")

\* Numbers are added where nobody migrates at the same time.
MigrationStep ==
    /\ \/ /\ \E o \in Openers : Opening(o) /\ (alone => \A p \in Openers \ {o} : ~Migrating(p))
          /\ UNCHANGED <<blocked, cut>>
       \/ /\ \E o \in Openers : LeaveDatabase(o)
                                /\ cut' = (cut \/ At(o, "rename") \/ At(o, "columns"))
          /\ UNCHANGED blocked
       \/ /\ alone /\ \A o \in Openers : ~Migrating(o)
          /\ \E o \in Openers, e \in Entries : AddEntry(o, e)
          /\ blocked' = entries'
          /\ UNCHANGED cut
    /\ UNCHANGED alone
    /\ UNCHANGED <<vars, overwritten, revived, listStoreVars, behaviorVars>>

DatabaseInit ==
    /\ Init /\ overwritten = {} /\ revived = {}
    /\ ListInit
    /\ BehaviorInit
    /\ MigrationInit /\ alone \in BOOLEAN /\ blocked = entries /\ cut = FALSE

DatabaseNext == ReputationStep \/ ListStep \/ BehaviorStep \/ MigrationStep

DatabaseSpec == DatabaseInit /\ [][DatabaseNext]_allVars

--------------------------------------------------------------------------------
(* Properties.                                                                *)

\* The newest row of a history says how the risk of its profile came about, through
\* pruned rows, pruned profiles, trust and small changes.  save_profile compares with a
\* profile it has read before its transaction, so there are two exceptions until the next
\* change that counts: a calculation about the same number saved in between, and then the
\* history has a row at least; or the pruning of any calculation deleted the profile in
\* between, with its history, and the save puts the profile back without.
HistoryExplainsRisk ==
    \A n \in Profiled \ revived :
        /\ history[n] # <<>>
        /\ n \in overwritten \/ history[n][Len(history[n])] = profile[n].risk

\* The imported contacts, observations and snapshots stay within their limits, whoever
\* adds to them at the same time and wherever it fails (ContactStore.upsert,
\* _cleanup_locked, _prune_profiles_locked); an event is observed once.
TablesBounded ==
    /\ ListTypeOK /\ ContactsBounded
    /\ BehaviorTypeOK /\ BehaviorBounded

\* A migration that dies at any point loses no number that was on a list, and if the
\* next ones do not overlap they lose no label and end with the current schema - unless
\* it died in the one stretch that the next one takes for finished (_migrate).
MigrationSound ==
    /\ MigrationTypeOK
    /\ numbers = "new" => blocked \subseteq entries
    /\ alone => labels # "lost"
    /\ alone /\ ~cut => OpenedIsCurrent
===============================================================================
