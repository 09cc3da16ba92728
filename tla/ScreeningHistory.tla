---------------------------- MODULE ScreeningHistory ----------------------------
(* Screening with a memory of what was in force while a response was on its   *)
(* way: what its last revalidation promises is about a stretch of time.       *)
(* callshield/daemon/service.py.                                              *)
EXTENDS Screening

VARIABLE
    forbidden  \* what has forbidden each delivery to block ever since its worker turned
               \* to the response

historyVars == <<vars, forbidden>>

Ending(d) == phase[d] \in {"finalizing", "revalidating", "enabled", "validated", "recording"}

Vetoes == (IF emergency THEN {"emergency"} ELSE {})
          \union (IF cfg.enabled THEN {} ELSE {"disabled"})
          \union (IF cfg.mode = "ACTIVE" THEN {} ELSE {"dry_run"})

HistoryInit == Init /\ forbidden = [d \in Deliveries |-> {}]

\* A veto is remembered as long as it lasts, and from the answer on for good.
Remember ==
    forbidden' = [d \in Deliveries |->
                     CASE Ending(d)' /\ ~Ending(d)   -> Vetoes'
                       [] Ending(d)' /\ Ending(d)    -> forbidden[d] \intersect Vetoes'
                       [] phase'[d] = "answered"     -> forbidden[d]
                       [] OTHER                      -> {}]

HistoryNext == Next /\ Remember

HistorySpec == HistoryInit /\ [][HistoryNext]_historyVars

--------------------------------------------------------------------------------

\* Emergency-off, disabled screening and DRY_RUN take precedence: a response built
\* while one of them was in force from its start to its end never blocks, whatever
\* the policy decided before (_finalize_screening).
ForbiddenNeverBlocks ==
    \A d \in Deliveries : phase[d] = "answered" /\ forbidden[d] # {} => ~Blocking(d)
================================================================================
