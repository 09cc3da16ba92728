------------------------------ MODULE MCDecisions ------------------------------
(* For TLC, what a call is decided on and how: which requests are accepted,   *)
(* the history of a number and what its analyses make of it, the trend of its *)
(* scores, and the contract of policy, daemon, database and bridge.  A        *)
(* behavior is about one of the four.                                         *)
EXTENDS Decisions, Trend, ReplayCache

VARIABLE part

\* Every score on both sides of each default threshold, every kind of evidence, and
\* every valid configuration with the default thresholds.
MCDetections ==
    [risk : {79, 80, 85, 92}, confidence : {74, 75, 80, 90}, whitelisted : BOOLEAN,
     reputationError : BOOLEAN, intelligenceError : BOOLEAN,
     trend : {"VOLATILE", "OTHER"}]

MCConfigs ==
    {[enabled |-> on, mode |-> m, confirmed |-> (m = "ACTIVE"), policy |-> p,
      thresholds |-> DefaultThresholds] : on \in BOOLEAN, m \in Modes, p \in PolicyNames}

Parts == {"contract", "history", "trend", "requests"}

MCInit ==
    /\ part \in Parts
    /\ Init
    /\ part # "contract" => config = AConfig /\ detection = ADetection /\ ~emergency
    /\ HistoryInit /\ (part # "history" => profile = "BALANCED" /\ evidence.anomalies = 0)
    /\ TrendInit
    /\ ReplayInit /\ (part # "requests" => \A id \in Ids : time[id] = 0)

MCNext ==
    /\ UNCHANGED part
    /\ \/ part = "contract" /\ Next /\ UNCHANGED <<historyVars, timeline, replayVars>>
       \/ part = "history" /\ HistoryNext /\ UNCHANGED <<vars, timeline, replayVars>>
       \/ part = "trend" /\ TrendNext /\ UNCHANGED <<vars, historyVars, replayVars>>
       \/ part = "requests" /\ ReplayNext /\ UNCHANGED <<vars, historyVars, timeline>>

MCSpec == MCInit /\ [][MCNext]_<<vars, historyVars, timeline, replayVars, part>>
================================================================================
