------------------------------ MODULE MCScreening ------------------------------
(* Small instances of Screening for TLC, with the memory of ScreeningHistory. *)
EXTENDS ScreeningHistory

CONSTANTS c1, d1, d2, Scenes

SameCall == [d \in {d1, d2} |-> c1]
OneDelivery == [d \in {d1} |-> c1]

Evidence(risk, error) ==
    [risk |-> risk, confidence |-> 90, whitelisted |-> FALSE, reputationError |-> FALSE,
     intelligenceError |-> error, trend |-> "OTHER"]

\* Evidence enough to block, too little, and none because the storage failed.
MCDetections == {Evidence(95, FALSE), Evidence(10, FALSE), Evidence(95, TRUE)}

ConfigOf(on, m) ==
    [enabled |-> on, mode |-> m, confirmed |-> (m = "ACTIVE"), policy |-> "BALANCED",
     thresholds |-> DefaultThresholds]

MCConfigs == {ConfigOf(TRUE, "ACTIVE"), ConfigOf(TRUE, "DRY_RUN"), ConfigOf(FALSE, "ACTIVE")}
ActiveOnly == {ConfigOf(TRUE, "ACTIVE")}

--------------------------------------------------------------------------------
VARIABLE
    scene  \* "resent": a request is sent twice and the daemon may die once;
           \* "pruned": observations may be deleted at any time, while one
           \* request is sent, heard and confirmed and the daemon may die, or
           \* two are sent and the phone has not answered yet;
           \* "changes": one call to be blocked, while settings
           \* change, up to the answer

MCInit ==
    /\ scene \in Scenes
    /\ HistoryInit /\ saved \in ActiveOnly /\ ~emergency

InScene ==
    /\ scene = "resent" =>
          /\ changes' = 0 /\ UNCHANGED reloading
          /\ analysis'[d1] # "unobserved" /\ pruned' = {}
          /\ phase'[d1] = "new" => \A d \in Deliveries : phase'[d] = "new"
    /\ scene = "pruned" =>
          /\ changes' = 0 /\ UNCHANGED reloading
          /\ \A d \in Deliveries : analysis'[d] \notin {"unobserved", "failed"}
          /\ \/ \A d \in Deliveries \ {d1} : phase'[d] = "new"
             \/ restarts' = 0 /\ call'[c1] = "ringing"
    /\ scene = "changes" =>
          /\ phase[d1] # "answered" \/ owed[d1] # <<>>
          /\ restarts' = 0 /\ pruned' = {}
          /\ cache \subseteq cache' /\ UNCHANGED phoneVars
          /\ \A d \in Deliveries \ {d1} : phase'[d] = "new"
          /\ \A d \in {x \in Deliveries : decision'[x] # NoResponse} :
                decision'[d].risk = 95 /\ ~decision'[d].policyError

MCNext ==
    /\ HistoryNext
    /\ InScene /\ UNCHANGED scene

MCSpec == MCInit /\ [][MCNext]_<<historyVars, scene>>
MCFairSpec == MCSpec /\ Fairness
================================================================================
