--------------------------- MODULE SettingsHistory ---------------------------
(* The settings with what a reader of the whole history knows, and the        *)
(* properties that are about it.  A behavior is careful when commands come    *)
(* one at a time, each of them reaches a daemon that runs, and nobody edits   *)
(* the file by hand; otherwise everything may happen at once.                 *)
EXTENDS Settings

VARIABLES
    careful,     \* whether the behavior is careful
    consented,   \* ACTIVE was confirmed at some time, at the prompt or in the file
    barred,      \* emergency-off was completed and ACTIVE not confirmed since (careful only)
    unannounced  \* the file was changed without telling the daemon (careful only)

monitors == <<consented, barred, unannounced>>
historyVars == <<vars, careful, monitors>>

HistoryInit ==
    /\ Init
    /\ careful \in BOOLEAN
    /\ consented = FALSE /\ barred = FALSE /\ unannounced = FALSE

\* No reload is under way.
NoReload == reload = [r \in Reloads |-> Free]

\* Nobody else is at work on the configuration.
Alone(p) ==
    /\ p \in Commands
    /\ \A q \in Processes \ {p} : pc[q] = "gone"
    /\ NoReload

\* Steps that no monitor notices.
PlainStep(p) ==
    /\ \/ Start(p) /\ (careful => Alone(p))
       \/ Create(p) \/ Decline(p) \/ Switch(p) \/ FailToSave(p) \/ Notify(p)
       \/ Die(p) /\ (careful => pc[p] \notin {"notify", "wait"})
    /\ UNCHANGED <<careful, monitors>>

TaskStep(p) ==
    /\ Begin(p) /\ (careful => NoReload)
    /\ UNCHANGED <<careful, monitors>>

ConfirmStep(p) ==
    /\ Confirm(p)
    /\ consented' = TRUE /\ barred' = FALSE
    /\ UNCHANGED <<careful, unannounced>>

SaveStep(p) ==
    /\ Save(p)
    /\ unannounced' = (unannounced \/ (careful /\ task[p] \in Unannounced))
    /\ UNCHANGED <<careful, consented, barred>>

\* The end of an announced task.
EndStep(p) ==
    /\ \/ Notified(p) /\ (careful /\ pc[p] = "notify" => daemon = Down)
       \/ TimeOut(p) /\ ~careful
    /\ barred' = (barred \/ (careful /\ task[p] = "emergency_off"))
    /\ UNCHANGED <<careful, consented, unannounced>>

\* The daemon reads the file.
ReadStep ==
    /\ DaemonStart \/ \E r \in Reloads : ReloadRead(r)
    /\ unannounced' = FALSE
    /\ UNCHANGED <<careful, consented, barred>>

DaemonStep ==
    /\ \/ DaemonStop
       \/ Hangup /\ (careful => \A p \in Processes : pc[p] = "gone")
       \/ \E r \in Reloads : ReloadAssign(r)
    /\ UNCHANGED <<careful, monitors>>

EditStep ==
    /\ Edit /\ ~careful
    /\ consented' = (consented \/ (file' \in Written /\ file'.confirmed))
    /\ UNCHANGED <<careful, barred, unannounced>>

HistoryNext ==
    \/ \E p \in Processes :
          PlainStep(p) \/ TaskStep(p) \/ ConfirmStep(p) \/ SaveStep(p) \/ EndStep(p)
    \/ ReadStep
    \/ DaemonStep
    \/ EditStep

HistorySpec == HistoryInit /\ [][HistoryNext]_historyVars

--------------------------------------------------------------------------------

\* Blocking is never in force, and never about to be, before somebody has confirmed it:
\* a mode that is only written into the file is taken back when it is read (from_dict).
\* Nothing that _validate would refuse is in force or about to be (TypeOK).
ActiveWasConfirmed ==
    /\ TypeOK
    /\ ~consented =>
          /\ daemon # Down => daemon.mode = "DRY_RUN"
          /\ \A p \in Processes : cfg[p].mode = "DRY_RUN"
          /\ \A r \in Reloads : reload[r] \in Config => reload[r].mode = "DRY_RUN"

\* While commands come one at a time and reach the daemon, the daemon works with what the
\* file says whenever nothing is under way (`config set` and `config profile`, which tell
\* it nothing, excepted).
SettingsArrive ==
    careful /\ Quiet /\ ~unannounced /\ daemon # Down => daemon = Loaded

\* Under the same conditions a completed emergency-off lasts until ACTIVE is confirmed
\* again: neither emergency-reset nor a restart of the daemon resumes the blocking, at no
\* moment of the commands in between.
EmergencyLasts == careful => ~(barred /\ Armed)
================================================================================
