----------------------------- MODULE CallHistory -----------------------------
(* What is recorded of one number, and how the analyses of it feed on their   *)
(* own records: every scan and every screened call analyses the number and    *)
(* adds an event with the verdict and the action, which the next analysis     *)
(* counts.  callshield/detector.py, callshield/logger.py, callshield/         *)
(* database.py (events, reports, numbers), callshield/events/processor.py.    *)
(* logging_enabled is taken to be on.  A count stops at its cap: beyond 10    *)
(* events, 7 suspicious ones, 4 blocked ones, 5 recent ones, 4 reports and    *)
(* one anomaly no signal looks at the rest.                                   *)
EXTENDS Analysis

CONSTANTS TotalCap, SuspiciousCap, BlockedCap, RecentCap, ReportsCap, AnomaliesCap

\* A verdict on an event is no count without the event, and one is not cut to none.
ASSUME CapsAssumption ==
    /\ TotalCap \in Nat
    /\ SuspiciousCap \in 1..TotalCap /\ BlockedCap \in 1..TotalCap
    /\ RecentCap \in Nat
    /\ ReportsCap \in Nat \ {0}
    /\ AnomaliesCap \in Nat

VARIABLES
    profile,   \* protection_mode, with the weights config set-profile gives it
    evidence   \* what the database knows of the number

historyVars == <<profile, evidence>>

HistoryTypeOK ==
    /\ profile \in Profiles
    /\ evidence \in [black : BOOLEAN, white : BOOLEAN, total : 0..TotalCap,
                     suspicious : 0..SuspiciousCap, blocked : 0..BlockedCap,
                     recent : 0..RecentCap, reports : 0..ReportsCap,
                     anomalies : 0..AnomaliesCap]

HistoryInit ==
    /\ profile \in Profiles
    /\ evidence \in [black : {FALSE}, white : {FALSE}, total : {0}, suspicious : {0},
                     blocked : {0}, recent : {0}, reports : {0}, anomalies : 0..AnomaliesCap]

SuspiciousVerdicts == {"SUSPICIOUS", "HIGH_RISK", "MALICIOUS"}

\* add_event, and what analyze_behavior counts of it.
Record(e, result) ==
    [e EXCEPT !.total      = Least(TotalCap, @ + 1),
              !.recent     = Least(RecentCap, @ + 1),
              !.suspicious = IF result.verdict \in SuspiciousVerdicts
                             THEN Least(SuspiciousCap, @ + 1) ELSE @,
              !.blocked    = IF result.action = "BLOCK" THEN Least(BlockedCap, @ + 1) ELSE @]

\* analyze_number, by a scan, an event of the daemon or a screened call.
AnalyzeNumber ==
    /\ evidence' = Record(evidence, Analyzed(profile, evidence))
    /\ UNCHANGED profile

Reported(e) == [e EXCEPT !.reports = Least(ReportsCap, @ + 1)]

\* callshield report.
ReportNumber ==
    /\ evidence' = Reported(evidence)
    /\ UNCHANGED profile

\* callshield block, allow, unblock and unallow: a number may be on both lists.
SetLists ==
    /\ \E on \in BOOLEAN :
          evidence' \in {[evidence EXCEPT !.black = on], [evidence EXCEPT !.white = on]}
    /\ UNCHANGED profile

\* Events leave the window of recent_window_seconds.  A count at its cap may stand
\* for any larger one.
Elapse ==
    /\ \E left \in 0..evidence.recent : evidence' = [evidence EXCEPT !.recent = left]
    /\ UNCHANGED profile

HistoryNext ==
    AnalyzeNumber \/ ReportNumber \/ SetLists \/ Elapse

HistorySpec == HistoryInit /\ [][HistoryNext]_historyVars
==============================================================================
