----------------------------- MODULE ControlProofs -----------------------------
(* What the user controls the daemon with.                                    *)
(*                                                                            *)
(* The settings: whatever processes, interfaces, reloads and edits do, a      *)
(* configuration that is in force, or that a process may save, is one         *)
(* _validate accepts, and no call is blocked before somebody confirmed it.    *)
(* While commands come one at a time and reach the daemon, what they save     *)
(* arrives there, and a completed emergency-off lasts until ACTIVE is         *)
(* confirmed again.                                                           *)
(*                                                                            *)
(* The interface: whatever keys are pressed and whatever others change, what  *)
(* a screen opens lies deeper than itself, so the stack grows in four steps   *)
(* at most; the first entry of every menu is enabled, so the cursor has a     *)
(* place; and every frame is sound for what it has seen.  A refresh keeps     *)
(* what Enter aims at, for what may go from a menu is followed there by what  *)
(* asks first or only opens a screen.                                         *)
EXTENDS SettingsHistory, Interface, SequenceTheorems, WellFoundedInduction, TLAPS

--------------------------------------------------------------------------------
(* Configurations.                                                            *)

\* A configuration is one that can be written, and that _validate accepts.
LEMMA ConfigIsWritten == \A c \in Config : c \in Written /\ Valid(c)
BY DEF Config

\* The default is a configuration,
LEMMA DefaultIsConfig == Default \in Config
BY SettingsAssumption DEF Default, Config, Written, Valid, Modes

\* what is left of one that is not believed is a configuration,
LEMMA UnconfirmedIsConfig == \A c \in Written : Unconfirmed(c) \in Config
BY DEF Unconfirmed, Config, Written, Valid, Modes

\* whatever is in the file is read as a configuration,
LEMMA FromDictIsConfig == \A c \in Written : FromDict(c) \in Config
BY DEF FromDict, Unconfirmed, Config, Written, Valid, Modes

\* and so is what load returns, if the file is there or not.
LEMMA LoadedIsConfig == Loaded \in Config
BY FromDictIsConfig, DefaultIsConfig DEF Loaded

\* No task leaves anything in a process that _validate would refuse, if the task is not
\* one that is refused.
LEMMA ChangedIsConfig ==
    ASSUME NEW c \in Config, NEW t \in Tasks, t = "set_on" => c.mode # "ACTIVE"
    PROVE  Changed(c, t) \subseteq Config
<1>1. c \in Written /\ Valid(c)
  BY ConfigIsWritten
<1>2. CASE t = "enable"
  BY <1>1, <1>2, ZenonT(60) DEF Changed, Unconfirmed, Config, Written, Valid, Modes
<1>3. CASE t \in {"disable"} \union Switches
  BY <1>1, <1>3, ZenonT(60) DEF Changed, Unconfirmed, Config, Written, Valid, Modes, Switches
<1>4. CASE t \in {"dry_run", "set_dry_run"}
  BY <1>1, <1>4, ZenonT(60) DEF Changed, Unconfirmed, Config, Written, Valid, Modes, Switches
<1>5. CASE t \in {"policy", "set_policy"}
  BY <1>1, <1>5 DEF Changed, Config, Written, Valid, Modes, Switches
<1>6. CASE t = "set_on"
  BY <1>1, <1>6, ZenonT(60) DEF Changed, Config, Written, Valid, Modes, Switches
<1>7. CASE t = "set_off"
  BY <1>1, <1>7 DEF Changed, Config, Written, Valid, Modes, Switches
<1>8. CASE t = "active"
  BY <1>1, <1>8, ZenonT(60) DEF Changed, Config, Written, Valid, Modes, Switches
<1>9. QED
  BY <1>2, <1>3, <1>4, <1>5, <1>6, <1>7, <1>8 DEF Tasks, Announced, Unannounced, Switches

\* No mark is mistaken for a configuration.
LEMMA MarksAreNoConfigs ==
    /\ Down \notin Config /\ Free \notin Config /\ Asked \notin Config
BY MarkAssumption DEF Config

--------------------------------------------------------------------------------

\* A process that is about to turn the switch has been asked to.
SwitchIsAsked == \A p \in Processes : pc[p] = "switch" => task[p] \in Switches

\* The invariant of the settings.
SettingsInv == TypeOK /\ SwitchIsAsked

\* Nothing runs at the start.
LEMMA InitSound == Init => SettingsInv
BY DefaultIsConfig, ConfigIsWritten DEF Init, SettingsInv, SwitchIsAsked, TypeOK

\* A process that is gone leaves the file and the daemon as they are.
LEMMA GoneSound ==
    ASSUME SettingsInv, NEW p \in Processes, Gone(p), UNCHANGED <<diskVars, daemonVars>>
    PROVE  SettingsInv'
BY DefaultIsConfig DEF Gone, SettingsInv, SwitchIsAsked, TypeOK, diskVars, daemonVars

\* What Finish leaves of the variables of processes.
FinishSound ==
    /\ pc' \in [Processes -> {"gone", "create", "ready", "ask", "switch", "save",
                              "notify", "wait"}]
    /\ task' \in [Processes -> Tasks \union {"none"}]
    /\ cfg' \in [Processes -> Config]
    /\ SwitchIsAsked'

\* The end of a task, at the prompt of an interface or of the process.
LEMMA FinishIsSound ==
    ASSUME SettingsInv, NEW p \in Processes, Finish(p)
    PROVE  FinishSound
<1>1. CASE Gone(p)
  BY <1>1, DefaultIsConfig DEF Gone, FinishSound, SettingsInv, SwitchIsAsked, TypeOK
<1>2. CASE /\ pc' = [pc EXCEPT ![p] = "ready"]
           /\ task' = [task EXCEPT ![p] = "none"]
           /\ UNCHANGED cfg
  BY <1>2 DEF FinishSound, SettingsInv, SwitchIsAsked, TypeOK
<1>3. QED
  BY <1>1, <1>2 DEF Finish

\* A process loads the configuration and creates the file if it is missing.
LEMMA StartSound ==
    ASSUME SettingsInv, NEW p \in Processes, Start(p) \/ Create(p)
    PROVE  SettingsInv'
<1>1. CASE Start(p)
  BY <1>1, LoadedIsConfig
  DEF Start, SettingsInv, SwitchIsAsked, TypeOK, diskVars, daemonVars
<1>2. CASE Create(p)
  BY <1>2, DefaultIsConfig, ConfigIsWritten
  DEF Create, SettingsInv, SwitchIsAsked, TypeOK, daemonVars
<1>3. QED
  BY <1>1, <1>2

\* A task changes the configuration object, asks, or turns the switch.
LEMMA BeginSound ==
    ASSUME SettingsInv, NEW p \in Processes, Begin(p)
    PROVE  SettingsInv'
<1>1. PICK t \in TasksOf(p) :
        /\ ~Refused(p, t)
        /\ task' = [task EXCEPT ![p] = t]
        /\ \/ /\ t \in Switches \union {"active"}
              /\ pc' = [pc EXCEPT ![p] = IF t = "active" THEN "ask" ELSE "switch"]
              /\ UNCHANGED cfg
           \/ /\ t \notin Switches \union {"active"}
              /\ \E c \in Changed(cfg[p], t) : cfg' = [cfg EXCEPT ![p] = c]
              /\ pc' = [pc EXCEPT ![p] = "save"]
  BY Zenon DEF Begin
<1>2. t \in Tasks
  BY DEF TasksOf, Tasks
<1>3. cfg[p] \in Config
  BY DEF SettingsInv, TypeOK
<1>4. t = "set_on" => cfg[p].mode # "ACTIVE"
  BY <1>1 DEF Refused
<1>5. Changed(cfg[p], t) \subseteq Config
  BY <1>2, <1>3, <1>4, ChangedIsConfig
<1>6. CASE t \in Switches \union {"active"}
  BY <1>1, <1>2, <1>6
  DEF Begin, SettingsInv, SwitchIsAsked, TypeOK, diskVars, daemonVars, Switches
<1>7. CASE t \notin Switches \union {"active"}
  BY <1>1, <1>2, <1>5, <1>7
  DEF Begin, SettingsInv, SwitchIsAsked, TypeOK, diskVars, daemonVars
<1>8. QED
  BY <1>6, <1>7

\* What is confirmed, and the switch, change the configuration object.
LEMMA ConfirmSound ==
    ASSUME SettingsInv, NEW p \in Processes, Confirm(p) \/ Switch(p)
    PROVE  SettingsInv'
<1>1. cfg[p] \in Config
  BY DEF SettingsInv, TypeOK
<1>2. CASE Confirm(p)
  <2>1. Changed(cfg[p], "active") \subseteq Config
    BY <1>1, ChangedIsConfig DEF Tasks, Announced
  <2>2. QED
    BY <1>2, <2>1 DEF Confirm, SettingsInv, SwitchIsAsked, TypeOK, diskVars, daemonVars
<1>3. CASE Switch(p)
  <2>1. task[p] \in Switches
    BY <1>3 DEF Switch, SettingsInv, SwitchIsAsked
  <2>2. Changed(cfg[p], task[p]) \subseteq Config
    BY <1>1, <2>1, ChangedIsConfig DEF Tasks, Announced, Switches
  <2>3. QED
    BY <1>3, <2>2 DEF Switch, SettingsInv, SwitchIsAsked, TypeOK, daemonVars
<1>4. QED
  BY <1>2, <1>3

\* What is saved is the configuration object.
LEMMA SaveSound ==
    ASSUME SettingsInv, NEW p \in Processes, Save(p)
    PROVE  SettingsInv'
<1>1. file' \in Written /\ marker' \in BOOLEAN
  BY ConfigIsWritten DEF Save, SettingsInv, TypeOK
<1>2. CASE task[p] \in Announced
  BY <1>1, <1>2 DEF Save, SettingsInv, SwitchIsAsked, TypeOK, daemonVars
<1>3. CASE task[p] \notin Announced
  <2>1. FinishSound
    BY <1>3, FinishIsSound DEF Save
  <2>2. QED
    BY <1>1, <1>3, <2>1 DEF Save, FinishSound, SettingsInv, TypeOK, daemonVars
<1>4. QED
  BY <1>2, <1>3

\* Tasks that end otherwise end alike.
LEMMA EndSound ==
    ASSUME SettingsInv, NEW p \in Processes,
           Decline(p) \/ FailToSave(p) \/ Notified(p) \/ TimeOut(p)
    PROVE  SettingsInv'
<1>1. Finish(p) /\ UNCHANGED <<diskVars, daemonVars>>
  BY DEF Decline, FailToSave, Notified, TimeOut
<1>2. FinishSound
  BY <1>1, FinishIsSound
<1>3. QED
  BY <1>1, <1>2 DEF FinishSound, SettingsInv, TypeOK, diskVars, daemonVars

\* So every step of a process keeps the invariant;
LEMMA ProcessSound ==
    ASSUME SettingsInv, NEW p \in Processes, Process(p)
    PROVE  SettingsInv'
<1>1. CASE Notify(p)
  BY <1>1 DEF Notify, SettingsInv, SwitchIsAsked, TypeOK, diskVars
<1>2. CASE Die(p)
  BY <1>2, GoneSound DEF Die
<1>3. QED
  BY <1>1, <1>2, StartSound, BeginSound, ConfirmSound, SaveSound, EndSound DEF Process

\* so do the daemon and somebody who edits the file,
LEMMA DaemonSound ==
    ASSUME SettingsInv, DaemonStart \/ DaemonStop \/ Hangup \/ Edit
    PROVE  SettingsInv'
<1>1. CASE DaemonStart
  BY <1>1, LoadedIsConfig, DefaultIsConfig, ConfigIsWritten, MarksAreNoConfigs
  DEF DaemonStart, Creates, SettingsInv, SwitchIsAsked, TypeOK, processVars
<1>2. CASE DaemonStop
  BY <1>2 DEF DaemonStop, SettingsInv, SwitchIsAsked, TypeOK, processVars, diskVars
<1>3. CASE Hangup
  BY <1>3 DEF Hangup, SettingsInv, SwitchIsAsked, TypeOK, processVars, diskVars
<1>4. CASE Edit
  BY <1>4 DEF Edit, SettingsInv, SwitchIsAsked, TypeOK, processVars, daemonVars
<1>5. QED
  BY <1>1, <1>2, <1>3, <1>4

\* and a reload, however late it assigns what it has read.
LEMMA ReloadSound ==
    ASSUME SettingsInv, NEW r \in Reloads, ReloadRead(r) \/ ReloadAssign(r)
    PROVE  SettingsInv'
<1>1. reload[r] # Free => daemon # Down
  BY DEF SettingsInv, TypeOK
<1>2. CASE ReloadRead(r)
  BY <1>1, <1>2, MarkAssumption, LoadedIsConfig, DefaultIsConfig, ConfigIsWritten
  DEF ReloadRead, Creates, SettingsInv, SwitchIsAsked, TypeOK, processVars
<1>3. CASE ReloadAssign(r)
  BY <1>3, MarksAreNoConfigs
  DEF ReloadAssign, SettingsInv, SwitchIsAsked, TypeOK, processVars, diskVars
<1>4. QED
  BY <1>2, <1>3

\* Every step keeps the invariant.
LEMMA StepSound == SettingsInv /\ [Next]_vars => SettingsInv'
<1>1. ASSUME SettingsInv, UNCHANGED vars PROVE SettingsInv'
  BY <1>1 DEF SettingsInv, SwitchIsAsked, TypeOK, vars, diskVars, daemonVars, processVars
<1>2. QED
  BY <1>1, ProcessSound, DaemonSound, ReloadSound DEF Next

\* Everything that is in force, or that a process may save, is a configuration that
\* _validate accepts, and nothing is left of a reload when the daemon has stopped; for any
\* number of commands and interfaces, whatever they do at the same time, and whatever is
\* written into the file by hand (config.py from_dict, cli.py _cmd_screening).
THEOREM SettingsTyped == Spec => []TypeOK
<1>1. Spec => []SettingsInv
  BY InitSound, StepSound, PTL DEF Spec
<1>2. SettingsInv => TypeOK
  BY DEF SettingsInv
<1>3. QED
  BY <1>1, <1>2, PTL

--------------------------------------------------------------------------------
(* What the history adds.                                                     *)

\* A configuration that blocks nothing.
Dry(c) == c.mode = "DRY_RUN"

\* Nothing that is in force, in a process or in the file would block a call.
Disarmed ==
    /\ daemon # Down => Dry(daemon)
    /\ \A p \in Processes : Dry(cfg[p])
    /\ \A r \in Reloads : reload[r] \in Config => Dry(reload[r])
    /\ file \in Written => ~file.confirmed

\* Without consent, and after an emergency-off, nothing is armed.
ArmedInv == (~consented \/ (careful /\ barred)) => Disarmed

\* A process past its prompt knows its task, and what it is about to save suits it.
TaskInv ==
    \A p \in Processes :
        /\ pc[p] = "ask" => task[p] = "active"
        /\ pc[p] \in {"save", "notify", "wait"} => task[p] \in Tasks
        /\ pc[p] \in {"save", "notify", "wait"} /\ task[p] = "emergency_off" => Dry(cfg[p])

\* One process is at work, no reload goes on beside it but the one it waits for, and
\* what it has saved is still in the file.
AloneInv ==
    /\ \A p, q \in Processes : pc[p] # "gone" /\ pc[q] # "gone" => p = q
    /\ \A p \in Processes :
          /\ pc[p] # "gone" => reload[Signal] = Free
          /\ reload[p] # Free => pc[p] = "wait"
          /\ pc[p] = "gone" => cfg[p] = Default
          /\ pc[p] = "create" => file \in {Absent, Default}
          /\ pc[p] \in {"notify", "wait"} => file = cfg[p]

\* What a reload has read is what the file says, and somebody is still about to tell
\* the daemon whatever it does not know.
ArrivalInv ==
    /\ \A r \in Reloads : reload[r] \in Config => reload[r] = Loaded
    /\ \A p \in Processes : pc[p] = "wait" /\ daemon # Down => daemon = Loaded \/ reload[p] # Free
    /\ ~unannounced /\ daemon # Down =>
          \/ daemon = Loaded
          \/ \E p \in Processes : pc[p] = "notify"
          \/ \E r \in Reloads : reload[r] # Free

\* The monitors of the history.
MonitorTypes == /\ careful \in BOOLEAN /\ consented \in BOOLEAN
                /\ barred \in BOOLEAN /\ unannounced \in BOOLEAN

\* The invariant of the history.
HistoryInv ==
    /\ SettingsInv
    /\ MonitorTypes
    /\ TaskInv
    /\ careful => AloneInv /\ ArrivalInv
    /\ ArmedInv

\* Every step of the history is a step of the settings.
LEMMA HistoryIsSettings == [HistoryNext]_historyVars => [Next]_vars
<1>1. ASSUME NEW p \in Processes,
             PlainStep(p) \/ TaskStep(p) \/ ConfirmStep(p) \/ SaveStep(p) \/ EndStep(p)
      PROVE  Process(p)
  BY <1>1 DEF PlainStep, TaskStep, ConfirmStep, SaveStep, EndStep, Process
<1>2. ASSUME ReadStep \/ DaemonStep \/ EditStep PROVE Next
  BY <1>2 DEF ReadStep, DaemonStep, EditStep, Next
<1>3. ASSUME UNCHANGED historyVars PROVE UNCHANGED vars
  BY <1>3 DEF historyVars
<1>4. QED
  BY <1>1, <1>2, <1>3 DEF HistoryNext, Next

\* So the history keeps what the settings keep.
LEMMA SettingsKept == SettingsInv /\ [HistoryNext]_historyVars => SettingsInv'
BY StepSound, HistoryIsSettings

\* The monitors stay Boolean.
LEMMA MonitorsTyped == MonitorTypes /\ [HistoryNext]_historyVars => MonitorTypes'
<1>1. ASSUME MonitorTypes, NEW p \in Processes,
             PlainStep(p) \/ TaskStep(p) \/ ConfirmStep(p) \/ SaveStep(p) \/ EndStep(p)
      PROVE  MonitorTypes'
  BY <1>1 DEF PlainStep, TaskStep, ConfirmStep, SaveStep, EndStep, MonitorTypes, monitors
<1>2. ASSUME MonitorTypes, ReadStep \/ DaemonStep \/ EditStep PROVE MonitorTypes'
  BY <1>2 DEF ReadStep, DaemonStep, EditStep, MonitorTypes, monitors
<1>3. ASSUME MonitorTypes, UNCHANGED historyVars PROVE MonitorTypes'
  BY <1>3 DEF historyVars, monitors, MonitorTypes
<1>4. QED
  BY <1>1, <1>2, <1>3 DEF HistoryNext

\* What the file says does not change when a reader creates it.
LEMMA DefaultIsRead == FromDict(Default) = Default
BY DEF FromDict, Unconfirmed, Default

\* A reader that creates the file reads what it would have read.
LEMMA CreatesKeepsLoaded == ASSUME Creates PROVE Loaded' = Loaded
BY DefaultIsRead, MarkAssumption DEF Creates, Loaded

\* Without a confirmation in the file, what is loaded blocks nothing.
LEMMA DryLoaded == ASSUME file \in Written => ~file.confirmed PROVE Dry(Loaded)
BY DEF Loaded, FromDict, Unconfirmed, Default, Dry, Written, Modes

\* A configuration that blocks nothing is saved without a confirmation.
LEMMA DryIsUnconfirmed == \A c \in Config : Dry(c) => ~c.confirmed
BY DEF Dry, Config, Valid

\* No task but a confirmed ACTIVE arms a configuration.
LEMMA ChangedIsDry ==
    ASSUME NEW c \in Config, NEW t \in Tasks \ {"active"}, Dry(c)
    PROVE  \A d \in Changed(c, t) : Dry(d)
<1>1. c \in Written
  BY ConfigIsWritten
<1>2. CASE t = "enable"
  BY <1>1, <1>2 DEF Changed, Unconfirmed, Written, Dry
<1>3. CASE t \in {"disable"} \union Switches
  BY <1>1, <1>3 DEF Changed, Unconfirmed, Written, Dry, Switches
<1>4. CASE t \in {"dry_run", "set_dry_run"}
  BY <1>1, <1>4 DEF Changed, Unconfirmed, Written, Dry, Switches
<1>5. CASE t \in {"policy", "set_policy"}
  BY <1>1, <1>5 DEF Changed, Written, Dry, Switches
<1>6. CASE t = "set_on"
  BY <1>1, <1>6 DEF Changed, Written, Dry, Switches
<1>7. CASE t = "set_off"
  BY <1>1, <1>7 DEF Changed, Written, Dry, Switches
<1>8. QED
  BY <1>2, <1>3, <1>4, <1>5, <1>6, <1>7 DEF Tasks, Announced, Unannounced, Switches

\* What the switch leaves in the process blocks nothing, whatever was there.
LEMMA SwitchIsDry ==
    ASSUME NEW c \in Config, NEW t \in Switches
    PROVE  \A d \in Changed(c, t) : Dry(d)
BY ConfigIsWritten DEF Changed, Unconfirmed, Written, Dry, Switches

--------------------------------------------------------------------------------

\* Only processes touch their own variables.
LEMMA OthersKeepProcesses ==
    ASSUME ReadStep \/ DaemonStep \/ EditStep
    PROVE  UNCHANGED processVars
BY DEF ReadStep, DaemonStart, ReloadRead, DaemonStep, DaemonStop, Hangup, ReloadAssign,
       EditStep, Edit, daemonVars

\* What a process does ends with Finish, or with Gone, or is one of these.
LEMMA Endings ==
    ASSUME NEW p \in Processes, Decline(p) \/ FailToSave(p) \/ Notified(p) \/ TimeOut(p) \/ Die(p)
    PROVE  /\ Finish(p) \/ Gone(p)
           /\ UNCHANGED <<diskVars, daemonVars>>
BY DEF Decline, FailToSave, Notified, TimeOut, Die

\* A process that finishes is at its prompt or gone.
LEMMA FinishedIsIdle ==
    ASSUME SettingsInv, NEW p \in Processes, Finish(p) \/ Gone(p)
    PROVE  /\ pc'[p] \in {"ready", "gone"}
           /\ task'[p] = "none"
           /\ cfg'[p] = IF pc'[p] = "gone" THEN Default ELSE cfg[p]
           /\ \A q \in Processes \ {p} : pc'[q] = pc[q] /\ task'[q] = task[q] /\ cfg'[q] = cfg[q]
BY DEF Finish, Gone, SettingsInv, TypeOK

\* Whatever is saved suits the task it is saved for.
LEMMA TaskKept == HistoryInv /\ [HistoryNext]_historyVars => TaskInv'
<1>1. ASSUME HistoryInv, NEW p \in Processes,
             PlainStep(p) \/ TaskStep(p) \/ ConfirmStep(p) \/ SaveStep(p) \/ EndStep(p)
      PROVE  TaskInv'
  <2>0. SettingsInv /\ TypeOK /\ TaskInv
    BY <1>1 DEF HistoryInv, SettingsInv
  <2>1. CASE Start(p)
    BY <2>0, <2>1 DEF Start, TypeOK, TaskInv
  <2>2. CASE Create(p)
    BY <2>0, <2>2 DEF Create, TypeOK, TaskInv
  <2>3. CASE Begin(p)
    <3>1. PICK t \in Tasks :
            /\ task' = [task EXCEPT ![p] = t]
            /\ \/ /\ t \in Switches \union {"active"}
                  /\ pc' = [pc EXCEPT ![p] = IF t = "active" THEN "ask" ELSE "switch"]
                  /\ UNCHANGED cfg
               \/ /\ t \notin Switches \union {"active"}
                  /\ \E c \in Changed(cfg[p], t) : cfg' = [cfg EXCEPT ![p] = c]
                  /\ pc' = [pc EXCEPT ![p] = "save"]
      BY <2>3 DEF Begin, TasksOf, Tasks
    <3>2. \A q \in Processes \ {p} : pc'[q] = pc[q] /\ task'[q] = task[q] /\ cfg'[q] = cfg[q]
      BY <2>0, <3>1 DEF TypeOK
    <3>3. /\ pc'[p] = "ask" => task'[p] = "active"
          /\ pc'[p] \in {"save", "notify", "wait"} => task'[p] \in Tasks \ {"emergency_off"}
      BY <2>0, <3>1 DEF TypeOK, Switches
    <3>4. QED
      BY <2>0, <3>2, <3>3 DEF TaskInv
  <2>4. CASE Confirm(p)
    BY <2>0, <2>4 DEF Confirm, TypeOK, TaskInv, Tasks, Announced
  <2>5. CASE Switch(p)
    <3>1. task[p] \in Switches /\ cfg[p] \in Config
      BY <2>0, <2>5 DEF Switch, SettingsInv, SwitchIsAsked, TypeOK
    <3>2. \A d \in Changed(cfg[p], task[p]) : Dry(d)
      BY <3>1, SwitchIsDry
    <3>3. /\ Dry(cfg'[p]) /\ task'[p] \in Tasks /\ pc'[p] = "save"
          /\ \A q \in Processes \ {p} : pc'[q] = pc[q] /\ task'[q] = task[q] /\ cfg'[q] = cfg[q]
      BY <2>0, <2>5, <3>1, <3>2 DEF Switch, TypeOK, Tasks, Announced, Switches
    <3>4. QED
      BY <2>0, <3>3 DEF TaskInv
  <2>6. CASE Save(p) /\ task[p] \in Announced
    BY <2>0, <2>6 DEF Save, TypeOK, TaskInv
  <2>7. CASE Notify(p)
    BY <2>0, <2>7 DEF Notify, TypeOK, TaskInv
  <2>8. CASE Finish(p) \/ Gone(p)
    <3>1. /\ pc'[p] \in {"ready", "gone"}
          /\ \A q \in Processes \ {p} : pc'[q] = pc[q] /\ task'[q] = task[q] /\ cfg'[q] = cfg[q]
      BY <2>0, <2>8, FinishedIsIdle
    <3>2. QED
      BY <2>0, <3>1 DEF TaskInv
  <2>9. CASE Save(p) /\ task[p] \notin Announced
    BY <2>8, <2>9 DEF Save
  <2>10. QED
    BY <1>1, <2>1, <2>2, <2>3, <2>4, <2>5, <2>6, <2>7, <2>8, <2>9, Endings
    DEF PlainStep, TaskStep, ConfirmStep, SaveStep, EndStep
<1>2. ASSUME HistoryInv, UNCHANGED processVars PROVE TaskInv'
  BY <1>2 DEF HistoryInv, TaskInv, processVars
<1>3. UNCHANGED historyVars => UNCHANGED processVars
  BY DEF historyVars, vars
<1>4. QED
  BY <1>1, <1>2, <1>3, OthersKeepProcesses DEF HistoryNext

--------------------------------------------------------------------------------

\* What is in the file stays unconfirmed when a reader creates it.
LEMMA CreatesKeepsUnconfirmed ==
    ASSUME file \in Written => ~file.confirmed, Creates
    PROVE  file' \in Written => ~file'.confirmed
BY DEF Creates, Default

\* No step of a process but the confirmation arms anything.
LEMMA ProcessStaysDisarmed ==
    ASSUME HistoryInv, Disarmed, NEW p \in Processes, Process(p), ~Confirm(p)
    PROVE  Disarmed'
<1>0. SettingsInv /\ TypeOK /\ TaskInv /\ cfg[p] \in Config /\ Dry(cfg[p])
  BY DEF HistoryInv, SettingsInv, TypeOK, Disarmed
<1>1. CASE Start(p)
  BY <1>0, <1>1, DryLoaded DEF Start, Disarmed, TypeOK, diskVars, daemonVars
<1>2. CASE Create(p)
  BY <1>0, <1>2 DEF Create, Disarmed, TypeOK, daemonVars, Default
<1>3. CASE Begin(p)
  <2>1. PICK t \in Tasks :
          \/ UNCHANGED cfg
          \/ /\ t # "active"
             /\ \E c \in Changed(cfg[p], t) : cfg' = [cfg EXCEPT ![p] = c]
    BY <1>3 DEF Begin, TasksOf, Tasks
  <2>2. \A q \in Processes : Dry(cfg'[q])
    BY <1>0, <2>1, ChangedIsDry DEF Disarmed, TypeOK
  <2>3. QED
    BY <1>3, <2>2 DEF Begin, Disarmed, diskVars, daemonVars
<1>4. CASE Switch(p)
  <2>1. task[p] \in Switches
    BY <1>0, <1>4 DEF Switch, SettingsInv, SwitchIsAsked
  <2>2. \A q \in Processes : Dry(cfg'[q])
    BY <1>0, <1>4, <2>1, SwitchIsDry DEF Switch, Disarmed, TypeOK
  <2>3. QED
    BY <1>4, <2>2 DEF Switch, Disarmed, daemonVars
<1>5. ASSUME Finish(p) \/ Gone(p) PROVE \A q \in Processes : Dry(cfg'[q])
  <2>1. Dry(Default)
    BY DEF Dry, Default
  <2>2. QED
    BY <1>0, <1>5, <2>1, FinishedIsIdle DEF Disarmed
<1>6. CASE Save(p)
  <2>1. \A q \in Processes : Dry(cfg'[q])
    BY <1>0, <1>5, <1>6 DEF Save, Disarmed
  <2>2. ~file'.confirmed
    BY <1>0, <1>6, DryIsUnconfirmed DEF Save
  <2>3. QED
    BY <1>6, <2>1, <2>2 DEF Save, Disarmed, daemonVars
<1>7. CASE Notify(p)
  BY <1>0, <1>7, MarksAreNoConfigs DEF Notify, Disarmed, TypeOK, diskVars
<1>8. CASE (Finish(p) \/ Gone(p)) /\ UNCHANGED <<diskVars, daemonVars>>
  BY <1>5, <1>8 DEF Disarmed, diskVars, daemonVars
<1>9. QED
  BY <1>1, <1>2, <1>3, <1>4, <1>6, <1>7, <1>8, Endings DEF Process

\* Neither does the daemon.
LEMMA DaemonStaysDisarmed ==
    ASSUME HistoryInv, Disarmed, ReadStep \/ DaemonStep
    PROVE  Disarmed'
<1>0. TypeOK
  BY DEF HistoryInv, SettingsInv
<1>1. CASE DaemonStart
  BY <1>0, <1>1, DryLoaded, CreatesKeepsUnconfirmed DEF DaemonStart, Disarmed, processVars
<1>2. CASE DaemonStop
  BY <1>0, <1>2, MarksAreNoConfigs DEF DaemonStop, Disarmed, diskVars, processVars
<1>3. CASE Hangup
  BY <1>0, <1>3, MarksAreNoConfigs DEF Hangup, Disarmed, TypeOK, diskVars, processVars
<1>4. ASSUME NEW r \in Reloads, ReloadRead(r) PROVE Disarmed'
  BY <1>0, <1>4, DryLoaded, CreatesKeepsUnconfirmed DEF ReloadRead, Disarmed, TypeOK, processVars
<1>5. ASSUME NEW r \in Reloads, ReloadAssign(r) PROVE Disarmed'
  BY <1>0, <1>5, MarksAreNoConfigs DEF ReloadAssign, Disarmed, TypeOK, diskVars, processVars
<1>6. QED
  BY <1>1, <1>2, <1>3, <1>4, <1>5 DEF ReadStep, DaemonStep

\* A careful emergency-off that has ended has disarmed everything: the file holds what it
\* saved, nobody else has a configuration, and the daemon has read the file.
LEMMA EmergencyDisarms ==
    ASSUME HistoryInv, careful, NEW p \in Processes, EndStep(p), task[p] = "emergency_off"
    PROVE  Disarmed'
<1>1. /\ SettingsInv /\ TypeOK /\ TaskInv /\ AloneInv /\ ArrivalInv
      /\ cfg[p] \in Config
  BY DEF HistoryInv, SettingsInv, TypeOK
<1>2. /\ Notified(p)
      /\ \/ pc[p] = "notify" /\ daemon = Down
         \/ pc[p] = "wait" /\ reload[p] = Free
  BY Zenon DEF EndStep, Notified
<1>3. /\ Finish(p) \/ Gone(p)
      /\ UNCHANGED <<diskVars, daemonVars>>
  BY <1>2, Endings
<1>4. Dry(cfg[p]) /\ file = cfg[p]
  BY <1>1, <1>2 DEF TaskInv, AloneInv
<1>5. ~file.confirmed
  BY <1>1, <1>4, DryIsUnconfirmed
<1>6. \A q \in Processes \ {p} : pc[q] = "gone" /\ cfg[q] = Default
  BY <1>1, <1>2 DEF AloneInv
<1>7. \A q \in Processes : Dry(cfg'[q])
  <2>1. Dry(Default)
    BY DEF Dry, Default
  <2>2. QED
    BY <1>1, <1>3, <1>4, <1>6, <2>1, FinishedIsIdle
<1>8. \A r \in Reloads : reload[r] \notin Config
  BY <1>1, <1>2, <1>6, MarksAreNoConfigs DEF AloneInv, Reloads, TypeOK
<1>9. daemon # Down => Dry(daemon)
  BY <1>1, <1>2, <1>5, DryLoaded DEF ArrivalInv
<1>10. QED
  BY <1>3, <1>5, <1>7, <1>8, <1>9 DEF Disarmed, diskVars, daemonVars

\* Nothing is armed but by a confirmed ACTIVE.
LEMMA ArmedKept == HistoryInv /\ [HistoryNext]_historyVars => ArmedInv'
<1>1. ASSUME HistoryInv, NEW p \in Processes,
             PlainStep(p) \/ TaskStep(p) \/ ConfirmStep(p) \/ SaveStep(p) \/ EndStep(p)
      PROVE  ArmedInv'
  <2>1. CASE ConfirmStep(p)
    BY <2>1 DEF ConfirmStep, ArmedInv
  <2>2. CASE EndStep(p) /\ careful /\ task[p] = "emergency_off"
    BY <1>1, <2>2, EmergencyDisarms DEF ArmedInv
  <2>3. CASE ~ConfirmStep(p) /\ ~(EndStep(p) /\ careful /\ task[p] = "emergency_off")
    <3>1. Process(p) /\ ~Confirm(p)
      <4>1. Process(p)
        BY <1>1 DEF PlainStep, TaskStep, ConfirmStep, SaveStep, EndStep, Process
      <4>2. TypeOK
        BY <1>1 DEF HistoryInv, SettingsInv
      <4>3. ~Confirm(p)
        BY <1>1, <2>3, <4>2
        DEF PlainStep, TaskStep, SaveStep, EndStep, Start, Begin, Create, Decline, Switch,
            FailToSave, Notify, Die, Save, Notified, TimeOut, Confirm, Finish, Gone, TypeOK
      <4>4. QED
        BY <4>1, <4>3
    <3>2. Disarmed => Disarmed'
      BY <1>1, <3>1, ProcessStaysDisarmed
    <3>3. consented' = consented /\ barred' = barred /\ careful' = careful
      BY <1>1, <2>3
      DEF PlainStep, TaskStep, SaveStep, EndStep, monitors, HistoryInv, MonitorTypes
    <3>4. QED
      BY <1>1, <3>2, <3>3 DEF HistoryInv, ArmedInv
  <2>4. QED
    BY <2>1, <2>2, <2>3
<1>2. ASSUME HistoryInv, ReadStep \/ DaemonStep PROVE ArmedInv'
  <2>1. consented' = consented /\ barred' = barred /\ careful' = careful
    BY <1>2 DEF ReadStep, DaemonStep, monitors
  <2>2. QED
    BY <1>2, <2>1, DaemonStaysDisarmed DEF HistoryInv, ArmedInv
<1>3. ASSUME HistoryInv, EditStep PROVE ArmedInv'
  <2>1. Disarmed /\ (file' \in Written => ~file'.confirmed) => Disarmed'
    BY <1>3 DEF EditStep, Edit, Disarmed, daemonVars, processVars
  <2>2. QED
    BY <1>3, <2>1 DEF EditStep, HistoryInv, MonitorTypes, ArmedInv
<1>4. ASSUME HistoryInv, UNCHANGED historyVars PROVE ArmedInv'
  BY <1>4 DEF HistoryInv, ArmedInv, Disarmed, historyVars, vars, monitors, diskVars,
              daemonVars, processVars
<1>5. QED
  BY <1>1, <1>2, <1>3, <1>4 DEF HistoryNext

--------------------------------------------------------------------------------
(* Careful behaviors.                                                         *)

\* Nothing is read, and nobody waits, before a process that is at work asks for it.
LEMMA QuietBesides ==
    ASSUME SettingsInv, AloneInv, NEW p \in Processes, pc[p] \notin {"gone", "wait"}
    PROVE  \A r \in Reloads : reload[r] = Free
BY DEF AloneInv, Reloads

\* A process at work steps alone: whatever it does, what it leaves of the file, the
\* reloads and itself is as AloneInv and ArrivalInv say.
LEMMA CarefulStart ==
    ASSUME HistoryInv, careful, unannounced' = unannounced,
           NEW p \in Processes, Start(p), Alone(p)
    PROVE  AloneInv' /\ ArrivalInv'
<1>1. TypeOK /\ AloneInv /\ ArrivalInv
  BY DEF HistoryInv, SettingsInv
<1>2. /\ \A q \in Processes : pc[q] = "gone"
      /\ \A r \in Reloads : reload[r] = Free
      /\ pc' = [pc EXCEPT ![p] = IF file = Absent THEN "create" ELSE "ready"]
      /\ cfg' = [cfg EXCEPT ![p] = Loaded]
      /\ UNCHANGED <<file, daemon, reload>>
  BY DEF Start, Alone, NoReload, diskVars, daemonVars
<1>3. AloneInv'
  BY <1>1, <1>2 DEF AloneInv, TypeOK, Reloads
<1>4. ArrivalInv'
  BY <1>1, <1>2 DEF ArrivalInv, TypeOK, Loaded
<1>5. QED
  BY <1>3, <1>4

\* It creates the file,
LEMMA CarefulCreate ==
    ASSUME HistoryInv, careful, unannounced' = unannounced, NEW p \in Processes, Create(p)
    PROVE  AloneInv' /\ ArrivalInv'
<1>1. SettingsInv /\ TypeOK /\ AloneInv /\ ArrivalInv
  BY DEF HistoryInv, SettingsInv
<1>2. /\ pc[p] = "create" /\ file \in {Absent, Default} /\ file' = Default
      /\ pc' = [pc EXCEPT ![p] = "ready"]
      /\ UNCHANGED <<daemon, reload, cfg>>
  BY <1>1 DEF Create, AloneInv, daemonVars
<1>3. \A r \in Reloads : reload[r] = Free
  BY <1>1, <1>2, QuietBesides
<1>4. \A q \in Processes \ {p} : pc[q] = "gone"
  BY <1>1, <1>2 DEF AloneInv
<1>5. AloneInv'
  BY <1>1, <1>2, <1>3, <1>4 DEF AloneInv, TypeOK, Reloads
<1>6. Loaded' = Loaded
  BY <1>2, CreatesKeepsLoaded, DefaultIsConfig, ConfigIsWritten, MarkAssumption DEF Creates
<1>7. ArrivalInv'
  BY <1>1, <1>2, <1>3, <1>4, <1>6, MarksAreNoConfigs DEF ArrivalInv, TypeOK
<1>8. QED
  BY <1>5, <1>7

\* A step on the way to the save, that touches the process alone.
LEMMA CarefulTask ==
    ASSUME HistoryInv, careful, unannounced' = unannounced,
           NEW p \in Processes, Begin(p) \/ Confirm(p) \/ Switch(p)
    PROVE  AloneInv' /\ ArrivalInv'
<1>1. SettingsInv /\ TypeOK /\ AloneInv /\ ArrivalInv
  BY DEF HistoryInv, SettingsInv
<1>2. /\ pc[p] \in {"ready", "ask", "switch"}
      /\ \E a \in {"ask", "switch", "save"} : pc' = [pc EXCEPT ![p] = a]
      /\ \E c : cfg' = [cfg EXCEPT ![p] = c]
      /\ UNCHANGED <<file, daemon, reload>>
  <2>1. CASE Begin(p)
    <3>1. \E c : cfg' = [cfg EXCEPT ![p] = c]
      <4>1. cfg = [cfg EXCEPT ![p] = cfg[p]]
        BY <1>1 DEF TypeOK
      <4>2. QED
        BY <2>1, <4>1 DEF Begin
    <3>2. QED
      BY <2>1, <3>1 DEF Begin, diskVars, daemonVars
  <2>2. CASE Confirm(p)
    BY <2>2 DEF Confirm, diskVars, daemonVars
  <2>3. CASE Switch(p)
    BY <2>3 DEF Switch, daemonVars
  <2>4. QED
    BY <2>1, <2>2, <2>3
<1>3. \A r \in Reloads : reload[r] = Free
  BY <1>1, <1>2, QuietBesides
<1>4. \A q \in Processes \ {p} : pc[q] = "gone"
  BY <1>1, <1>2 DEF AloneInv
<1>5. AloneInv'
  BY <1>1, <1>2, <1>3, <1>4 DEF AloneInv, TypeOK, Reloads
<1>6. ArrivalInv'
  BY <1>1, <1>2, <1>3, <1>4 DEF ArrivalInv, TypeOK, Loaded
<1>7. QED
  BY <1>5, <1>6

\* A process that ends, with the daemon told if there was anything to tell.
LEMMA CarefulEnd ==
    ASSUME HistoryInv, careful, unannounced' = unannounced, NEW p \in Processes,
           Finish(p) \/ Gone(p), UNCHANGED <<diskVars, daemonVars>>,
           pc[p] # "gone", reload[p] = Free, pc[p] = "notify" => daemon = Down
    PROVE  AloneInv' /\ ArrivalInv'
<1>1. SettingsInv /\ TypeOK /\ AloneInv /\ ArrivalInv
  BY DEF HistoryInv, SettingsInv
<1>2. /\ pc'[p] \in {"ready", "gone"}
      /\ pc'[p] = "gone" => cfg'[p] = Default
      /\ \A q \in Processes \ {p} : pc'[q] = pc[q] /\ cfg'[q] = cfg[q]
      /\ UNCHANGED <<file, daemon, reload>>
  BY <1>1, FinishedIsIdle DEF diskVars, daemonVars
<1>3. \A q \in Processes \ {p} : pc[q] = "gone"
  BY <1>1 DEF AloneInv
<1>4. \A r \in Reloads : reload[r] = Free
  BY <1>1, <1>3 DEF AloneInv, Reloads
<1>5. AloneInv'
  BY <1>1, <1>2, <1>3, <1>4 DEF AloneInv, Reloads
<1>6. ArrivalInv'
  BY <1>1, <1>2, <1>3, <1>4 DEF ArrivalInv, Loaded
<1>7. QED
  BY <1>5, <1>6

\* tells the daemon to read it,
LEMMA CarefulNotify ==
    ASSUME HistoryInv, careful, unannounced' = unannounced, NEW p \in Processes, Notify(p)
    PROVE  AloneInv' /\ ArrivalInv'
<1>1. SettingsInv /\ TypeOK /\ AloneInv /\ ArrivalInv
  BY DEF HistoryInv, SettingsInv
<1>2. /\ pc[p] = "notify"
      /\ pc' = [pc EXCEPT ![p] = "wait"]
      /\ reload' = [reload EXCEPT ![p] = Asked]
      /\ UNCHANGED <<file, daemon, cfg>>
  BY DEF Notify, diskVars
<1>3. \A r \in Reloads : reload[r] = Free
  BY <1>1, <1>2, QuietBesides
<1>4. \A q \in Processes \ {p} : pc[q] = "gone"
  BY <1>1, <1>2 DEF AloneInv
<1>5. p # Signal /\ p \in Reloads
  BY SignalAssumption DEF Reloads
<1>6. AloneInv'
  BY <1>1, <1>2, <1>3, <1>4, <1>5 DEF AloneInv, TypeOK, Reloads
<1>7. ArrivalInv'
  BY <1>1, <1>2, <1>3, <1>4, <1>5, MarkAssumption, MarksAreNoConfigs
  DEF ArrivalInv, TypeOK, Loaded
<1>8. QED
  BY <1>6, <1>7

\* and saves what it has changed.
LEMMA CarefulSave ==
    ASSUME HistoryInv, careful, NEW p \in Processes, SaveStep(p)
    PROVE  AloneInv' /\ ArrivalInv'
<1>1. SettingsInv /\ TypeOK /\ AloneInv /\ ArrivalInv /\ TaskInv
  BY DEF HistoryInv, SettingsInv
<1>2. /\ pc[p] = "save" /\ file' = cfg[p]
      /\ UNCHANGED <<daemon, reload>>
  BY DEF SaveStep, Save, daemonVars
<1>3. \A r \in Reloads : reload[r] = Free
  BY <1>1, <1>2, QuietBesides
<1>4. \A q \in Processes \ {p} : pc[q] = "gone"
  BY <1>1, <1>2 DEF AloneInv
<1>5. CASE task[p] \in Announced
  <2>1. pc' = [pc EXCEPT ![p] = "notify"] /\ UNCHANGED <<task, cfg>>
    BY <1>5 DEF SaveStep, Save
  <2>2. AloneInv'
    BY <1>1, <1>2, <1>3, <1>4, <2>1 DEF AloneInv, TypeOK, Reloads
  <2>3. ArrivalInv'
    BY <1>1, <1>2, <1>3, <1>4, <2>1, MarksAreNoConfigs DEF ArrivalInv, TypeOK
  <2>4. QED
    BY <2>2, <2>3
<1>6. CASE task[p] \notin Announced
  <2>1. /\ pc'[p] \in {"ready", "gone"}
        /\ pc'[p] = "gone" => cfg'[p] = Default
        /\ \A q \in Processes \ {p} : pc'[q] = pc[q] /\ cfg'[q] = cfg[q]
    BY <1>1, <1>6, FinishedIsIdle DEF SaveStep, Save
  <2>2. unannounced'
    <3>1. task[p] \in Unannounced
      BY <1>1, <1>2, <1>6 DEF TaskInv, Tasks
    <3>2. QED
      BY <3>1 DEF SaveStep
  <2>3. AloneInv'
    BY <1>1, <1>2, <1>3, <1>4, <2>1 DEF AloneInv, Reloads
  <2>4. ArrivalInv'
    BY <1>1, <1>2, <1>3, <1>4, <2>1, <2>2, MarksAreNoConfigs DEF ArrivalInv
  <2>5. QED
    BY <2>3, <2>4
<1>7. QED
  BY <1>5, <1>6

\* The daemon reads and assigns what the file says.
LEMMA CarefulRead ==
    ASSUME HistoryInv, careful, ReadStep
    PROVE  AloneInv' /\ ArrivalInv'
<1>1. SettingsInv /\ TypeOK /\ AloneInv /\ ArrivalInv
  BY DEF HistoryInv, SettingsInv
<1>2. /\ UNCHANGED <<pc, task, cfg>>
      /\ Loaded' = Loaded
      /\ file \in Written => file' = file
      /\ file \in {Absent, Default} => file' \in {Absent, Default}
      /\ unannounced' = FALSE
  <2>1. Creates
    BY DEF ReadStep, DaemonStart, ReloadRead
  <2>2. UNCHANGED <<pc, task, cfg>> /\ unannounced' = FALSE
    BY OthersKeepProcesses DEF processVars, ReadStep
  <2>3. QED
    BY <2>1, <2>2, CreatesKeepsLoaded, MarkAssumption DEF Creates
<1>3. \A p \in Processes : cfg[p] \in Written
  BY <1>1, ConfigIsWritten DEF TypeOK
<1>4. CASE DaemonStart
  <2>1. daemon' = Loaded /\ reload' = reload
    BY <1>4 DEF DaemonStart
  <2>2. AloneInv'
    BY <1>1, <1>2, <1>3, <2>1 DEF AloneInv
  <2>3. ArrivalInv'
    BY <1>1, <1>2, <2>1 DEF ArrivalInv
  <2>4. QED
    BY <2>2, <2>3
<1>5. ASSUME NEW r \in Reloads, ReloadRead(r) PROVE AloneInv' /\ ArrivalInv'
  <2>1. /\ reload[r] # Free /\ reload' = [reload EXCEPT ![r] = Loaded] /\ daemon' = daemon
        /\ Loaded # Free
    BY <1>5, MarkAssumption, LoadedIsConfig, MarksAreNoConfigs DEF ReloadRead
  <2>2. AloneInv'
    BY <1>1, <1>2, <1>3, <2>1 DEF AloneInv, TypeOK, Reloads
  <2>3. ArrivalInv'
    BY <1>1, <1>2, <2>1 DEF ArrivalInv, TypeOK, Reloads
  <2>4. QED
    BY <2>2, <2>3
<1>6. QED
  BY <1>4, <1>5 DEF ReadStep

\* The daemon and its reloads leave the file alone.
LEMMA CarefulDaemon ==
    ASSUME HistoryInv, careful, DaemonStep
    PROVE  AloneInv' /\ ArrivalInv'
<1>1. SettingsInv /\ TypeOK /\ AloneInv /\ ArrivalInv
  BY DEF HistoryInv, SettingsInv
<1>2. UNCHANGED <<pc, task, cfg, file, unannounced>> /\ Loaded' = Loaded
  <2>1. UNCHANGED <<pc, task, cfg>>
    BY OthersKeepProcesses DEF processVars
  <2>2. file' = file /\ unannounced' = unannounced
    BY DEF DaemonStep, DaemonStop, Hangup, ReloadAssign, diskVars, monitors
  <2>3. QED
    BY <2>1, <2>2 DEF Loaded
<1>3. CASE DaemonStop
  <2>1. daemon' = Down /\ \A r \in Reloads : reload'[r] = Free
    BY <1>3 DEF DaemonStop
  <2>2. QED
    BY <1>1, <1>2, <2>1, MarksAreNoConfigs DEF AloneInv, ArrivalInv, Reloads
<1>4. CASE Hangup /\ (careful => \A p \in Processes : pc[p] = "gone")
  <2>1. /\ reload' = [reload EXCEPT ![Signal] = Asked] /\ daemon' = daemon
        /\ \A p \in Processes : pc[p] = "gone"
    BY <1>4 DEF Hangup
  <2>2. AloneInv'
    BY <1>1, <1>2, <2>1, SignalAssumption DEF AloneInv, TypeOK, Reloads
  <2>3. ArrivalInv'
    BY <1>1, <1>2, <2>1, MarkAssumption, MarksAreNoConfigs DEF ArrivalInv, TypeOK, Reloads
  <2>4. QED
    BY <2>2, <2>3
<1>5. ASSUME NEW r \in Reloads, ReloadAssign(r) PROVE AloneInv' /\ ArrivalInv'
  <2>1. reload' = [reload EXCEPT ![r] = Free] /\ daemon' = Loaded
    BY <1>1, <1>5 DEF ReloadAssign, ArrivalInv
  <2>2. AloneInv'
    BY <1>1, <1>2, <2>1 DEF AloneInv, TypeOK, Reloads
  <2>3. ArrivalInv'
    BY <1>1, <1>2, <2>1, MarksAreNoConfigs DEF ArrivalInv, TypeOK, Reloads
  <2>4. QED
    BY <2>2, <2>3
<1>6. QED
  BY <1>3, <1>4, <1>5 DEF DaemonStep

\* So careful behaviors keep what is said of them.
LEMMA CarefulKept ==
    HistoryInv /\ [HistoryNext]_historyVars => (careful' => AloneInv' /\ ArrivalInv')
<1>1. ASSUME HistoryInv, careful, NEW p \in Processes, PlainStep(p)
      PROVE  AloneInv' /\ ArrivalInv'
  <2>0. unannounced' = unannounced /\ AloneInv
    BY <1>1 DEF PlainStep, monitors, HistoryInv
  <2>1. CASE Start(p) /\ (careful => Alone(p))
    BY <1>1, <2>0, <2>1, CarefulStart
  <2>2. CASE Create(p) \/ Switch(p) \/ Notify(p)
    BY <1>1, <2>0, <2>2, CarefulCreate, CarefulTask, CarefulNotify
  <2>3. CASE Decline(p) \/ FailToSave(p) \/ (Die(p) /\ (careful => pc[p] \notin {"notify", "wait"}))
    <3>1. pc[p] \notin {"gone", "notify", "wait"}
      BY <1>1, <2>3 DEF Decline, FailToSave, Die
    <3>2. reload[p] = Free
      BY <2>0, <3>1 DEF AloneInv
    <3>3. QED
      BY <1>1, <2>0, <2>3, <3>1, <3>2, Endings, CarefulEnd
  <2>4. QED
    BY <1>1, <2>1, <2>2, <2>3 DEF PlainStep
<1>2. ASSUME HistoryInv, careful, NEW p \in Processes, TaskStep(p) \/ ConfirmStep(p)
      PROVE  AloneInv' /\ ArrivalInv'
  BY <1>2, CarefulTask DEF TaskStep, ConfirmStep, monitors
<1>3. ASSUME HistoryInv, careful, NEW p \in Processes, EndStep(p)
      PROVE  AloneInv' /\ ArrivalInv'
  <2>1. /\ Notified(p) /\ unannounced' = unannounced
        /\ pc[p] = "notify" => daemon = Down
    BY <1>3 DEF EndStep
  <2>2. AloneInv
    BY <1>3 DEF HistoryInv
  <2>3. pc[p] # "gone" /\ reload[p] = Free
    BY <2>1, <2>2 DEF Notified, AloneInv
  <2>4. QED
    BY <1>3, <2>1, <2>3, Endings, CarefulEnd
<1>4. ASSUME UNCHANGED historyVars, AloneInv /\ ArrivalInv PROVE AloneInv' /\ ArrivalInv'
  BY <1>4 DEF historyVars, vars, monitors, diskVars, daemonVars, processVars, AloneInv,
              ArrivalInv, Loaded
<1>5. ASSUME EditStep PROVE ~careful'
  BY <1>5 DEF EditStep
<1>6. [HistoryNext]_historyVars => careful' = careful
  BY DEF HistoryNext, PlainStep, TaskStep, ConfirmStep, SaveStep, EndStep, ReadStep,
         DaemonStep, EditStep, historyVars
<1>7. QED
  BY <1>1, <1>2, <1>3, <1>4, <1>5, <1>6, CarefulSave, CarefulRead, CarefulDaemon
  DEF HistoryNext, HistoryInv

--------------------------------------------------------------------------------

\* At the start there is nothing armed, read or announced.
LEMMA HistoryStarts == HistoryInit => HistoryInv
<1>1. HistoryInit => SettingsInv
  BY InitSound DEF HistoryInit
<1>2. HistoryInit => Disarmed
  BY MarkAssumption, MarksAreNoConfigs DEF HistoryInit, Init, Disarmed, Dry, Default
<1>3. HistoryInit => AloneInv
  BY DEF HistoryInit, Init, AloneInv, Reloads
<1>4. HistoryInit => ArrivalInv
  BY MarksAreNoConfigs DEF HistoryInit, Init, ArrivalInv
<1>5. HistoryInit => MonitorTypes /\ TaskInv
  BY DEF HistoryInit, Init, MonitorTypes, TaskInv
<1>6. QED
  BY <1>1, <1>2, <1>3, <1>4, <1>5 DEF HistoryInv, ArmedInv

\* What is said of configurations, processes and the history of confirmations and
\* announcements holds together at every moment.
THEOREM HistoryInvariant == HistorySpec => []HistoryInv
<1>1. HistoryInv /\ [HistoryNext]_historyVars => HistoryInv'
  BY SettingsKept, MonitorsTyped, TaskKept, ArmedKept, CarefulKept DEF HistoryInv
<1>2. QED
  BY <1>1, HistoryStarts, PTL DEF HistorySpec

\* However many commands, interfaces and editors change the settings at the same time,
\* nothing that would block a call is in force, in a process or half read before ACTIVE was
\* confirmed once: the file is only believed together with its confirmation (config.py
\* from_dict), and the only task that confirms is `screening mode active` after its prompt.
THEOREM BlockingWasConfirmed == HistorySpec => []ActiveWasConfirmed
<1>1. HistoryInv => ActiveWasConfirmed
  BY DEF HistoryInv, SettingsInv, ArmedInv, Disarmed, Dry, ActiveWasConfirmed
<1>2. QED
  BY <1>1, HistoryInvariant, PTL

\* Commands that come one at a time and reach the daemon bring it what they saved: when
\* nothing is under way it works with what the file says, whoever reloads, and through any
\* number of restarts (cli.py _notify_screening_reload, service.py _reload_config).
THEOREM SavedSettingsArrive == HistorySpec => []SettingsArrive
<1>1. HistoryInv => SettingsArrive
  BY DEF HistoryInv, ArrivalInv, SettingsArrive, Quiet
<1>2. QED
  BY <1>1, HistoryInvariant, PTL

\* Under the same conditions nothing resumes blocking after a completed emergency-off, in
\* between the steps of the commands either, until ACTIVE is confirmed again (engine.py
\* enable_emergency_off, reset_emergency_off).
THEOREM EmergencyOffLasts == HistorySpec => []EmergencyLasts
<1>1. HistoryInv => EmergencyLasts
  BY DEF HistoryInv, ArmedInv, Disarmed, Dry, EmergencyLasts, Armed
<1>2. QED
  BY <1>1, HistoryInvariant, PTL

--------------------------------------------------------------------------------
(* Pages.                                                                     *)

\* Offsets of pages: multiples of the size of a page.
LEMMA Multiples ==
    ASSUME NEW p \in Nat \ {0}
    PROVE  /\ \A a \in Nat : a % p = 0 => (a + p) % p = 0
           /\ \A a \in Nat : a % p = 0 /\ a > p => (a - p) % p = 0 /\ a - p \in Nat
           /\ \A t \in Nat \ {0} : /\ ((t - 1) \div p) * p \in Nat
                                   /\ (((t - 1) \div p) * p) % p = 0
                                   /\ ((t - 1) \div p) * p < t
           /\ 0 % p = 0 /\ p % p = 0
<1>1. \A q \in Nat : (q * p) % p = 0
  OBVIOUS
<1>2. ASSUME NEW a \in Nat, a % p = 0
      PROVE  \E q \in Nat : a = q * p
  <2>1. (a \div p) \in Nat /\ a = (a \div p) * p
    BY <1>2
  <2> QED
    BY <2>1
<1>3. ASSUME NEW a \in Nat, a % p = 0
      PROVE  (a + p) % p = 0
  <2>1. PICK q \in Nat : a = q * p
    BY <1>2, <1>3
  <2>2. a + p = (q + 1) * p /\ q + 1 \in Nat
    BY <2>1
  <2> QED
    BY <1>1, <2>2
<1>4. ASSUME NEW a \in Nat, a % p = 0, a > p
      PROVE  (a - p) % p = 0 /\ a - p \in Nat
  <2>1. PICK q \in Nat : a = q * p
    BY <1>2, <1>4
  <2>2. q # 0
    BY <1>4, <2>1
  <2>3. a - p = (q - 1) * p /\ q - 1 \in Nat
    BY <2>1, <2>2
  <2> QED
    BY <1>1, <1>4, <2>3
<1>5. ASSUME NEW t \in Nat \ {0}
      PROVE  /\ ((t - 1) \div p) * p \in Nat
             /\ (((t - 1) \div p) * p) % p = 0
             /\ ((t - 1) \div p) * p < t
  <2>1. (t - 1) \div p \in Nat /\ ((t - 1) \div p) * p <= t - 1
    OBVIOUS
  <2>2. PICK q \in Nat : q = (t - 1) \div p
    BY <2>1
  <2>3. q * p \in Nat /\ q * p <= t - 1
    BY <2>1, <2>2
  <2> QED
    BY <1>1, <2>2, <2>3
<1>6. 0 % p = 0 /\ p % p = 0
  OBVIOUS
<1> QED
  BY <1>3, <1>4, <1>5, <1>6

\* The offset of the last page is that of a page, and there are rows on it.
LEMMA LastPages ==
    ASSUME NEW total \in Nat
    PROVE  /\ LastPage(total) \in Nat /\ LastPage(total) % PageSize = 0
           /\ LastPage(total) = 0 \/ LastPage(total) < total
<1>1. CASE total = 0
  BY <1>1, InterfaceAssumption, Multiples DEF LastPage
<1>2. CASE total # 0
  BY <1>2, InterfaceAssumption, Multiples DEF LastPage
<1> QED
  BY <1>1, <1>2

--------------------------------------------------------------------------------
(* Menus.                                                                     *)

\* How deep a screen lies: what a screen opens lies deeper than itself.
Depth(screen) ==
    IF screen = "dashboard" THEN 1
    ELSE IF screen \in {Sections[i] : i \in DOMAIN Sections} THEN 2
    ELSE IF screen \in {"advanced_scan", "scan_history", "block_detail"} THEN 4 ELSE 3

\* What the entries of the menus may run.
TaskNames == {"enable", "disable", "dry_run", "active", "emergency_off", "emergency_reset",
          "start", "stop", "restart", "block", "allow", "unblock", "unallow", "report"}
             \union PolicyChoices

\* What an entry of a screen that lies at a depth may do.
ThenOK(depth, then) ==
    /\ then.kind \in {"open", "run", "choose", "reread", "leave", "quit"}
    /\ then.kind = "open" =>
           IF then.what = "default_scan" THEN depth = 2 ELSE Depth(then.what) > depth
    /\ then.kind = "run" => then.what \in TaskNames
    /\ then.kind = "choose" =>
           then.what \in {"looks", "defaults", "timed", "manual", "basic", "advanced"}

\* An entry of such a screen.
EntryOK(depth, entry) == entry.enabled \in BOOLEAN /\ ThenOK(depth, entry.then)

\* A part of a menu, and a menu: its first entry is always enabled.
PartOK(depth, items) == \E S : items \in Seq(S) /\ \A e \in S : EntryOK(depth, e)
MenuOK(depth, items) == PartOK(depth, items) /\ items # <<>> /\ items[1].enabled

\* A menu is put together of parts.
LEMMA PartsOK ==
    ASSUME NEW depth, NEW s, PartOK(depth, s), NEW t, PartOK(depth, t)
    PROVE  PartOK(depth, s \o t) /\ (MenuOK(depth, s) => MenuOK(depth, s \o t))
<1>1. PICK S : s \in Seq(S) /\ \A e \in S : EntryOK(depth, e)
  BY DEF PartOK
<1>2. PICK T : t \in Seq(T) /\ \A e \in T : EntryOK(depth, e)
  BY DEF PartOK
<1>3. s \in Seq(S \union T) /\ t \in Seq(S \union T)
  BY <1>1, <1>2
<1>4. s \o t \in Seq(S \union T) /\ Len(s \o t) = Len(s) + Len(t)
  BY <1>3
<1>5. PartOK(depth, s \o t)
  <2>1. \A e \in S \union T : EntryOK(depth, e)
    BY <1>1, <1>2
  <2> QED
    BY <1>4, <2>1 DEF PartOK
<1>6. ASSUME MenuOK(depth, s)
      PROVE  s \o t # <<>> /\ (s \o t)[1].enabled
  <2>1. Len(s) \in Nat /\ Len(s) # 0 /\ Len(t) \in Nat
    BY <1>3, <1>6 DEF MenuOK
  <2>2. (s \o t)[1] = s[1]
    BY <1>3, <2>1
  <2>3. s \o t # <<>>
    BY <1>4, <2>1
  <2> QED
    BY <1>6, <2>2, <2>3 DEF MenuOK
<1> QED
  BY <1>5, <1>6 DEF MenuOK

\* An entry is as sound as what it leads to, whether it is enabled or not.
LEMMA EntryFacts ==
    ASSUME NEW d, NEW key, NEW then, ThenOK(d, then)
    PROVE  /\ EntryOK(d, Always(key, then)) /\ Always(key, then).enabled
           /\ \A on \in BOOLEAN : \A questions :
                /\ EntryOK(d, Entry(key, on, questions, then))
                /\ Entry(key, on, questions, then).enabled = on
  BY DEF Always, Entry, EntryOK

\* The sections of the dashboard, in a form the provers can look into.
LEMMA SectionNames ==
    /\ {Sections[i] : i \in DOMAIN Sections} =
          {"scan", "monitor", "daemon", "screening", "policy", "reputation", "intelligence",
           "number_intel", "blocks", "reports", "history", "diagnostics", "settings", "about"}
    /\ Len(Sections) = 14 /\ DOMAIN Sections = 1..14
<1>1. Len(Sections) = 14 /\ DOMAIN Sections = 1..14
  BY DEF Sections
<1>2. /\ Sections[1] = "scan" /\ Sections[2] = "monitor" /\ Sections[3] = "daemon"
      /\ Sections[4] = "screening" /\ Sections[5] = "policy" /\ Sections[6] = "reputation"
      /\ Sections[7] = "intelligence" /\ Sections[8] = "number_intel" /\ Sections[9] = "blocks"
      /\ Sections[10] = "reports" /\ Sections[11] = "history" /\ Sections[12] = "diagnostics"
      /\ Sections[13] = "settings" /\ Sections[14] = "about"
  BY DEF Sections
<1>3. 1..14 = {1, 2, 3, 4, 5, 6, 7, 8, 9, 10, 11, 12, 13, 14}
  OBVIOUS
<1>4. {Sections[i] : i \in {1, 2, 3, 4, 5, 6, 7, 8, 9, 10, 11, 12, 13, 14}} =
         {"scan", "monitor", "daemon", "screening", "policy", "reputation", "intelligence",
          "number_intel", "blocks", "reports", "history", "diagnostics", "settings", "about"}
  BY <1>2
<1> QED
  BY <1>1, <1>3, <1>4

\* What entries lead to.
LEMMA Leads ==
    /\ \A x : x \notin {"dashboard", "default_scan"} \union {Sections[i] : i \in DOMAIN Sections}
                 => ThenOK(2, Open(x))
    /\ ThenOK(2, Open("default_scan"))
    /\ \A i \in DOMAIN Sections : ThenOK(1, Open(Sections[i]))
    /\ \A d :
          /\ \A x \in TaskNames : ThenOK(d, Run(x))
          /\ \A x \in {"looks", "defaults", "timed", "manual", "basic", "advanced"} :
                ThenOK(d, Choose(x))
          /\ ThenOK(d, Reread)
          /\ \A k \in {"leave", "quit"} : \A x : ThenOK(d, Then(k, x))
<1>1. ASSUME NEW x,
             x \notin {"dashboard", "default_scan"} \union {Sections[i] : i \in DOMAIN Sections}
      PROVE  ThenOK(2, Open(x))
  BY <1>1 DEF Depth, Open, Then, ThenOK
<1>2. ThenOK(2, Open("default_scan"))
  BY DEF Open, Then, ThenOK
<1>3. ASSUME NEW i \in DOMAIN Sections
      PROVE  ThenOK(1, Open(Sections[i]))
  <2>1. Sections[i] # "dashboard" /\ Sections[i] # "default_scan"
    BY SectionNames
  <2> QED
    BY <2>1 DEF Depth, Open, Then, ThenOK
<1>4. ASSUME NEW d
      PROVE  /\ \A x \in TaskNames : ThenOK(d, Run(x))
             /\ \A x \in {"looks", "defaults", "timed", "manual", "basic", "advanced"} :
                   ThenOK(d, Choose(x))
             /\ ThenOK(d, Reread)
             /\ \A k \in {"leave", "quit"} : \A x : ThenOK(d, Then(k, x))
  BY DEF Run, Choose, Reread, Then, ThenOK
<1> QED
  BY <1>1, <1>2, <1>3, <1>4

\* What is under an entry of a section.
LEMMA Deeper ==
    ASSUME NEW x,
           x \notin {"dashboard", "default_scan", "scan", "monitor", "daemon", "screening", "policy",
                    "reputation", "intelligence", "number_intel", "blocks", "reports", "history",
                    "diagnostics", "settings", "about"}
    PROVE  ThenOK(2, Open(x))
<1>1. x \notin {"dashboard", "default_scan"} \union {Sections[i] : i \in DOMAIN Sections}
  BY SectionNames
<1> QED
  BY <1>1, Leads

\* The menu of the scan section.
LEMMA ScanMenuOK ==
    ASSUME NEW s
    PROVE  MenuOK(2, ScanMenu(s))
<1> DEFINE first == Entry("basic", TRUE, <<"number">>, Open("default_scan"))
           S == {first,
                 Entry("advanced", TRUE, <<"number">>, Open("advanced_scan")),
                 Always("history", Open("scan_history")),
                 Entry("compare", TRUE, <<"number", "number">>, Open("scan_compare"))}
<1>1. /\ ThenOK(2, Open("default_scan"))
      /\ ThenOK(2, Open("advanced_scan"))
      /\ ThenOK(2, Open("scan_history"))
      /\ ThenOK(2, Open("scan_compare"))
  BY Leads, Deeper DEF TaskNames
<1>2. first.enabled /\ \A x \in S : EntryOK(2, x)
  BY <1>1 DEF Entry, Always, EntryOK
<1>3. ScanMenu(s) \in Seq(S)
  BY DEF ScanMenu
<1>4. ScanMenu(s) # <<>> /\ ScanMenu(s)[1] = first
  BY DEF ScanMenu
<1> HIDE DEF first, S
<1> QED
  BY <1>2, <1>3, <1>4 DEF MenuOK, PartOK

\* The menu of the screening section: every switch has its task.
LEMMA ScreeningMenuOK ==
    ASSUME NEW s, s.running \in BOOLEAN, s.active \in BOOLEAN,
           s.emergency \in BOOLEAN, s.enabled \in BOOLEAN
    PROVE  MenuOK(2, ScreeningMenu(s))
<1> DEFINE first == Always("status", Reread)
           S == {first,
                 Entry("health", s.running, <<>>, Open("screening_health")),
                 Always("metrics", Open("screening_metrics")),
                 Entry("dry_run", s.active, <<>>, Run("dry_run")),
                 Entry("active", ~s.emergency, <<"handover">>, Run("active")),
                 Entry("enable", ~s.enabled, <<>>, Run("enable")),
                 Entry("disable", s.enabled, <<>>, Run("disable"))}
<1>1. /\ ThenOK(2, Reread)
      /\ ThenOK(2, Open("screening_health"))
      /\ ThenOK(2, Open("screening_metrics"))
      /\ ThenOK(2, Run("dry_run"))
      /\ ThenOK(2, Run("active"))
      /\ ThenOK(2, Run("enable"))
      /\ ThenOK(2, Run("disable"))
  BY Leads, Deeper DEF TaskNames
<1>2. first.enabled /\ \A x \in S : EntryOK(2, x)
  BY <1>1 DEF Entry, Always, EntryOK
<1>3. ScreeningMenu(s) \in Seq(S)
  BY DEF ScreeningMenu
<1>4. ScreeningMenu(s) # <<>> /\ ScreeningMenu(s)[1] = first
  BY DEF ScreeningMenu
<1> HIDE DEF first, S
<1> QED
  BY <1>2, <1>3, <1>4 DEF MenuOK, PartOK

\* The menu of the daemon section.
LEMMA DaemonMenuOK ==
    ASSUME NEW s, s.running \in BOOLEAN
    PROVE  MenuOK(2, DaemonMenu(s))
<1> DEFINE first == Always("status", Reread)
           S == {first,
                 Entry("start", ~s.running, <<>>, Run("start")),
                 Entry("stop", s.running, <<"confirm">>, Run("stop")),
                 Entry("restart", TRUE, <<"confirm">>, Run(IF s.running THEN "restart" ELSE "start")),
                 Entry("health", s.running, <<>>, Open("daemon_health")),
                 Always("metrics", Open("daemon_metrics"))}
<1>1. /\ ThenOK(2, Reread)
      /\ ThenOK(2, Run("start"))
      /\ ThenOK(2, Run("stop"))
      /\ ThenOK(2, Run(IF s.running THEN "restart" ELSE "start"))
      /\ ThenOK(2, Open("daemon_health"))
      /\ ThenOK(2, Open("daemon_metrics"))
  BY Leads, Deeper DEF TaskNames
<1>2. first.enabled /\ \A x \in S : EntryOK(2, x)
  BY <1>1 DEF Entry, Always, EntryOK
<1>3. DaemonMenu(s) \in Seq(S)
  BY DEF DaemonMenu
<1>4. DaemonMenu(s) # <<>> /\ DaemonMenu(s)[1] = first
  BY DEF DaemonMenu
<1> HIDE DEF first, S
<1> QED
  BY <1>2, <1>3, <1>4 DEF MenuOK, PartOK

\* The menu of the lists: entries that need rows are disabled without them.
LEMMA BlocksMenuOK ==
    ASSUME NEW s
    PROVE  MenuOK(2, BlocksMenu(s))
<1> DEFINE first == Always("blacklist", Open("blacklist"))
           S == {first,
                 Always("whitelist", Open("whitelist")),
                 Entry("add_block", TRUE, <<"number", "confirm", "reason">>, Run("block")),
                 Entry("add_allow", TRUE, <<"number", "confirm", "reason">>, Run("allow")),
                 Entry("remove_block", s.black > 0, <<"number", "confirm">>, Run("unblock")),
                 Entry("remove_allow", s.white > 0, <<"number", "confirm">>, Run("unallow")),
                 Always("recent", Open("blocks_recent")),
                 Entry("inspect", s.decisions > 0, <<"value">>, Open("block_detail"))}
<1>1. /\ ThenOK(2, Open("blacklist"))
      /\ ThenOK(2, Open("whitelist"))
      /\ ThenOK(2, Run("block"))
      /\ ThenOK(2, Run("allow"))
      /\ ThenOK(2, Run("unblock"))
      /\ ThenOK(2, Run("unallow"))
      /\ ThenOK(2, Open("blocks_recent"))
      /\ ThenOK(2, Open("block_detail"))
  BY Leads, Deeper DEF TaskNames
<1>2. first.enabled /\ \A x \in S : EntryOK(2, x)
  BY <1>1 DEF Entry, Always, EntryOK
<1>3. BlocksMenu(s) \in Seq(S)
  BY DEF BlocksMenu
<1>4. BlocksMenu(s) # <<>> /\ BlocksMenu(s)[1] = first
  BY DEF BlocksMenu
<1> HIDE DEF first, S
<1> QED
  BY <1>2, <1>3, <1>4 DEF MenuOK, PartOK

\* The menu of the reputation section.
LEMMA ReputationMenuOK ==
    ASSUME NEW s
    PROVE  MenuOK(2, ReputationMenu(s))
<1> DEFINE first == Entry("lookup", TRUE, <<"number">>, Open("reputation_detail"))
           S == {first,
                 Always("recent", Open("reputation_recent")),
                 Entry("history", TRUE, <<"number">>, Open("reputation_history")),
                 Entry("trust", TRUE, <<"number", "confirm">>, Then("leave", "trust"))}
<1>1. /\ ThenOK(2, Open("reputation_detail"))
      /\ ThenOK(2, Open("reputation_recent"))
      /\ ThenOK(2, Open("reputation_history"))
      /\ ThenOK(2, Then("leave", "trust"))
  BY Leads, Deeper DEF TaskNames
<1>2. first.enabled /\ \A x \in S : EntryOK(2, x)
  BY <1>1 DEF Entry, Always, EntryOK
<1>3. ReputationMenu(s) \in Seq(S)
  BY DEF ReputationMenu
<1>4. ReputationMenu(s) # <<>> /\ ReputationMenu(s)[1] = first
  BY DEF ReputationMenu
<1> HIDE DEF first, S
<1> QED
  BY <1>2, <1>3, <1>4 DEF MenuOK, PartOK

\* The menu of the number intelligence section.
LEMMA NumberMenuOK ==
    ASSUME NEW s
    PROVE  MenuOK(2, NumberMenu(s))
<1> DEFINE first == Entry("scan", TRUE, <<"number">>, Open("number_scan"))
           S == {first,
                 Always("saved", Open("contacts")),
                 Always("imported", Open("contact_scan")),
                 Always("history", Open("scan_history")),
                 Entry("compare", TRUE, <<"number", "number">>, Open("number_compare")),
                 Always("export", Open("number_export"))}
<1>1. /\ ThenOK(2, Open("number_scan"))
      /\ ThenOK(2, Open("contacts"))
      /\ ThenOK(2, Open("contact_scan"))
      /\ ThenOK(2, Open("scan_history"))
      /\ ThenOK(2, Open("number_compare"))
      /\ ThenOK(2, Open("number_export"))
  BY Leads, Deeper DEF TaskNames
<1>2. first.enabled /\ \A x \in S : EntryOK(2, x)
  BY <1>1 DEF Entry, Always, EntryOK
<1>3. NumberMenu(s) \in Seq(S)
  BY DEF NumberMenu
<1>4. NumberMenu(s) # <<>> /\ NumberMenu(s)[1] = first
  BY DEF NumberMenu
<1> HIDE DEF first, S
<1> QED
  BY <1>2, <1>3, <1>4 DEF MenuOK, PartOK

\* The menu of the reports section.
LEMMA ReportsMenuOK ==
    ASSUME NEW s
    PROVE  MenuOK(2, ReportsMenu(s))
<1> DEFINE first == Entry("submit", TRUE, <<"number", "reason", "confirm">>, Run("report"))
           S == {first,
                 Always("recent", Open("reports_recent")),
                 Entry("number", TRUE, <<"number">>, Open("reports_number"))}
<1>1. /\ ThenOK(2, Run("report"))
      /\ ThenOK(2, Open("reports_recent"))
      /\ ThenOK(2, Open("reports_number"))
  BY Leads, Deeper DEF TaskNames
<1>2. first.enabled /\ \A x \in S : EntryOK(2, x)
  BY <1>1 DEF Entry, Always, EntryOK
<1>3. ReportsMenu(s) \in Seq(S)
  BY DEF ReportsMenu
<1>4. ReportsMenu(s) # <<>> /\ ReportsMenu(s)[1] = first
  BY DEF ReportsMenu
<1> HIDE DEF first, S
<1> QED
  BY <1>2, <1>3, <1>4 DEF MenuOK, PartOK

\* The menu of the history section.
LEMMA HistoryMenuOK ==
    ASSUME NEW s
    PROVE  MenuOK(2, HistoryMenu(s))
<1> DEFINE first == Always("events", Open("history_events"))
           S == {first,
                 Always("screening", Open("history_screening")),
                 Entry("number", TRUE, <<"number">>, Open("history_number"))}
<1>1. /\ ThenOK(2, Open("history_events"))
      /\ ThenOK(2, Open("history_screening"))
      /\ ThenOK(2, Open("history_number"))
  BY Leads, Deeper DEF TaskNames
<1>2. first.enabled /\ \A x \in S : EntryOK(2, x)
  BY <1>1 DEF Entry, Always, EntryOK
<1>3. HistoryMenu(s) \in Seq(S)
  BY DEF HistoryMenu
<1>4. HistoryMenu(s) # <<>> /\ HistoryMenu(s)[1] = first
  BY DEF HistoryMenu
<1> HIDE DEF first, S
<1> QED
  BY <1>2, <1>3, <1>4 DEF MenuOK, PartOK

\* The menu of the settings section: what is chosen there is a preference.
LEMMA SettingsMenuOK ==
    ASSUME NEW s
    PROVE  MenuOK(2, SettingsMenu(s))
<1> DEFINE first == Always("language", Open("settings_looks"))
           S == {first,
                 Always("appearance", Open("settings_looks")),
                 Always("animation", Choose("looks")),
                 Always("refresh", Open("settings_refresh")),
                 Always("scan_mode", Open("settings_scan_mode")),
                 Always("notifications", Choose("looks")),
                 Always("data", Open("settings_data")),
                 Entry("reset", TRUE, <<"confirm">>, Choose("defaults"))}
<1>1. /\ ThenOK(2, Open("settings_looks"))
      /\ ThenOK(2, Open("settings_refresh"))
      /\ ThenOK(2, Open("settings_scan_mode"))
      /\ ThenOK(2, Open("settings_data"))
      /\ ThenOK(2, Choose("looks"))
      /\ ThenOK(2, Choose("defaults"))
  BY Leads, Deeper DEF TaskNames
<1>2. first.enabled /\ \A x \in S : EntryOK(2, x)
  BY <1>1 DEF Entry, Always, EntryOK
<1>3. SettingsMenu(s) \in Seq(S)
  BY DEF SettingsMenu
<1>4. SettingsMenu(s) # <<>> /\ SettingsMenu(s)[1] = first
  BY DEF SettingsMenu
<1> HIDE DEF first, S
<1> QED
  BY <1>2, <1>3, <1>4 DEF MenuOK, PartOK

\* The menu of the policy section, put together of three parts.
LEMMA PolicyMenuOK ==
    ASSUME NEW s, s.emergency \in BOOLEAN
    PROVE  MenuOK(2, PolicyMenu(s))
<1> DEFINE first  == <<Always("current", Reread),
                       Entry("test", TRUE, <<"value", "value">>, Open("policy_test"))>>
           middle == [i \in DOMAIN PolicyNames |->
                         Entry(PolicyNames[i], s.policy # PolicyNames[i], <<>>, Run(PolicyNames[i]))]
           last   == <<IF s.emergency
                       THEN Entry("emergency_reset", TRUE, <<"confirm">>, Run("emergency_reset"))
                       ELSE Entry("emergency", TRUE, <<"confirm">>, Run("emergency_off"))>>
<1>1. /\ ThenOK(2, Reread) /\ ThenOK(2, Open("policy_test"))
      /\ ThenOK(2, Run("emergency_reset")) /\ ThenOK(2, Run("emergency_off"))
      /\ \A i \in DOMAIN PolicyNames : ThenOK(2, Run(PolicyNames[i]))
  BY Leads, Deeper DEF TaskNames, PolicyChoices
<1>2. MenuOK(2, first)
  <2> DEFINE S == {Always("current", Reread),
                   Entry("test", TRUE, <<"value", "value">>, Open("policy_test"))}
  <2>0. /\ EntryOK(2, Always("current", Reread)) /\ Always("current", Reread).enabled
        /\ EntryOK(2, Entry("test", TRUE, <<"value", "value">>, Open("policy_test")))
        /\ Entry("test", TRUE, <<"value", "value">>, Open("policy_test")).enabled
    BY <1>1, EntryFacts
  <2>1. \A x \in S : EntryOK(2, x) /\ x.enabled
    BY <2>0
  <2>2. first \in Seq(S)
    OBVIOUS
  <2>3. first # <<>> /\ first[1] \in S
    OBVIOUS
  <2> HIDE DEF first, S
  <2> QED
    BY <2>1, <2>2, <2>3 DEF MenuOK, PartOK
<1>3. PartOK(2, middle)
  <2> DEFINE S == {middle[i] : i \in 1..3}
  <2>1. DOMAIN PolicyNames = 1..3
    BY DEF PolicyNames
  <2>2. \A i \in 1..3 : EntryOK(2, middle[i])
    BY <1>1, <2>1 DEF Entry, EntryOK
  <2>3. middle = [i \in 1..3 |-> middle[i]] /\ \A i \in 1..3 : middle[i] \in S
    BY <2>1
  <2>4. \A e \in S : EntryOK(2, e)
    BY <2>2
  <2> HIDE DEF middle, S
  <2>5. middle \in Seq(S)
    BY <2>3
  <2> QED
    BY <2>4, <2>5 DEF PartOK
<1>4. PartOK(2, last)
  <2> DEFINE only == IF s.emergency
                     THEN Entry("emergency_reset", TRUE, <<"confirm">>, Run("emergency_reset"))
                     ELSE Entry("emergency", TRUE, <<"confirm">>, Run("emergency_off"))
             S == {only}
  <2>0. EntryOK(2, only)
    <3>1. CASE s.emergency
      BY <1>1, <3>1, EntryFacts
    <3>2. CASE ~s.emergency
      BY <1>1, <3>2, EntryFacts
    <3> QED
      BY <3>1, <3>2
  <2>1. \A x \in S : EntryOK(2, x)
    BY <2>0
  <2> HIDE DEF only
  <2>2. <<only>> \in Seq(S)
    OBVIOUS
  <2> HIDE DEF S
  <2>3. PartOK(2, <<only>>)
    BY <2>1, <2>2 DEF PartOK
  <2> QED
    BY <2>3 DEF only
<1> HIDE DEF first, middle, last
<1>5. MenuOK(2, first \o middle)
  BY <1>2, <1>3, PartsOK DEF MenuOK
<1>6. MenuOK(2, first \o middle \o last)
  BY <1>4, <1>5, PartsOK DEF MenuOK
<1> QED
  BY <1>6 DEF PolicyMenu, first, middle, last

\* The menu of the intelligence section, put together of two parts.
LEMMA IntelligenceMenuOK == \A s : MenuOK(2, IntelligenceMenu(s))
<1> TAKE s
<1> DEFINE keys == <<"search", "behavior", "timeline", "trends", "patterns">>
           middle == [i \in 1..5 |->
               LET key == <<"search", "behavior", "timeline", "trends", "patterns">>[i]
               IN  Entry(key, TRUE, <<"number">>,
                         Open(IF key = "timeline" THEN "intelligence_timeline"
                              ELSE "intelligence_detail"))]
           last == <<Always("snapshots", Open("intelligence_snapshots")),
                     Always("retention", Open("intelligence_retention"))>>
<1>1. /\ ThenOK(2, Open("intelligence_timeline")) /\ ThenOK(2, Open("intelligence_detail"))
      /\ ThenOK(2, Open("intelligence_snapshots")) /\ ThenOK(2, Open("intelligence_retention"))
  BY Deeper
<1>2. MenuOK(2, middle)
  <2> DEFINE S == {middle[i] : i \in 1..5}
  <2>1. \A i \in 1..5 : EntryOK(2, middle[i]) /\ middle[i].enabled
    BY <1>1 DEF Entry, EntryOK
  <2>2. middle = [i \in 1..5 |-> middle[i]] /\ \A i \in 1..5 : middle[i] \in S
    OBVIOUS
  <2>3. \A e \in S : EntryOK(2, e)
    BY <2>1
  <2> HIDE DEF middle, S
  <2>4. middle \in Seq(S) /\ middle # <<>> /\ 1 \in 1..5
    BY <2>2
  <2> QED
    BY <2>1, <2>3, <2>4 DEF MenuOK, PartOK
<1>3. PartOK(2, last)
  <2> DEFINE S == {Always("snapshots", Open("intelligence_snapshots")),
                   Always("retention", Open("intelligence_retention"))}
  <2>1. \A x \in S : EntryOK(2, x)
    BY <1>1, EntryFacts
  <2>2. last \in Seq(S)
    OBVIOUS
  <2> HIDE DEF last, S
  <2> QED
    BY <2>1, <2>2 DEF PartOK
<1> HIDE DEF middle, last
<1>4. MenuOK(2, middle \o last)
  BY <1>2, <1>3, PartsOK DEF MenuOK
<1> QED
  BY <1>4 DEF IntelligenceMenu, middle, last

\* The menus of a choice lead nowhere, so they may be at any depth.
LEMMA ChoiceMenuOK ==
    ASSUME NEW d, NEW screen
    PROVE  MenuOK(d, ChoiceMenu(screen))
<1> DEFINE S == {Always("2", Choose("timed")), Always("0", Choose("manual")),
                 Always("BASIC", Choose("basic")), Always("ADVANCED", Choose("advanced")),
                 Always("one", Choose("looks")), Always("another", Choose("looks"))}
<1>1. \A x \in {"looks", "timed", "manual", "basic", "advanced"} : ThenOK(d, Choose(x))
  BY Leads
<1>2. \A x \in S : EntryOK(d, x) /\ x.enabled
  <2>1. \A k, x : x \in {"looks", "timed", "manual", "basic", "advanced"} =>
           EntryOK(d, Always(k, Choose(x))) /\ Always(k, Choose(x)).enabled
    BY <1>1, EntryFacts
  <2> QED
    BY <2>1
<1>3. \A x, y \in S : <<x, y>> \in Seq(S) /\ <<x, y>> # <<>> /\ <<x, y>>[1] \in S
  OBVIOUS
<1>4. PICK x \in S, y \in S : ChoiceMenu(screen) = <<x, y>>
  BY DEF ChoiceMenu
<1> HIDE DEF S
<1> QED
  BY <1>2, <1>3, <1>4 DEF MenuOK, PartOK

\* The dashboard leads to sections, starts the daemon, or ends the program.
LEMMA DashboardMenuOK ==
    ASSUME NEW s, s.running \in BOOLEAN
    PROVE  MenuOK(1, DashboardMenu(s))
<1> DEFINE start == IF s.running THEN <<>> ELSE <<Always("start_daemon", Run("start"))>>
           middle == [i \in DOMAIN Sections |-> Always(Sections[i], Open(Sections[i]))]
           exit == <<Always("exit", Then("quit", "all"))>>
<1>1. ThenOK(1, Run("start")) /\ ThenOK(1, Then("quit", "all"))
  BY Leads DEF TaskNames
<1>2. /\ EntryOK(1, Always("start_daemon", Run("start")))
      /\ EntryOK(1, Always("exit", Then("quit", "all")))
  BY <1>1, EntryFacts
<1>3. PartOK(1, exit)
  <2> DEFINE S == {Always("exit", Then("quit", "all"))}
  <2>1. (\A x \in S : EntryOK(1, x)) /\ exit \in Seq(S)
    BY <1>2
  <2> HIDE DEF exit, S
  <2> QED
    BY <2>1 DEF PartOK
<1>4. MenuOK(1, middle)
  <2> DEFINE S == {middle[i] : i \in 1..14}
  <2>1. \A i \in 1..14 : middle[i] = Always(Sections[i], Open(Sections[i]))
    BY SectionNames
  <2>2. \A i \in 1..14 : EntryOK(1, middle[i]) /\ middle[i].enabled
    BY <2>1, SectionNames, Leads, EntryFacts
  <2>3. middle \in Seq(S) /\ middle # <<>>
    <3>1. middle = [i \in 1..14 |-> middle[i]]
      BY SectionNames
    <3>2. \A i \in 1..14 : middle[i] \in S
      OBVIOUS
    <3> HIDE DEF middle, S
    <3> QED
      BY <3>1, <3>2
  <2>4. \A e \in S : EntryOK(1, e)
    BY <2>2
  <2> HIDE DEF middle, S
  <2> QED
    BY <2>2, <2>3, <2>4 DEF MenuOK, PartOK
<1>5. MenuOK(1, start \o middle)
  <2>1. CASE s.running
    <3>1. <<>> \o middle = middle
      <4>1. PICK S : middle \in Seq(S)
        BY <1>4 DEF MenuOK, PartOK
      <4> HIDE DEF middle
      <4> QED
        BY <4>1
    <3> HIDE DEF middle
    <3> QED
      BY <1>4, <2>1, <3>1
  <2>2. CASE ~s.running
    <3>1. MenuOK(1, start)
      <4> DEFINE S == {Always("start_daemon", Run("start"))}
      <4>1. \A x \in S : EntryOK(1, x) /\ x.enabled
        BY <1>1, EntryFacts
      <4>2. start \in Seq(S) /\ start # <<>> /\ start[1] \in S
        BY <2>2
      <4> HIDE DEF start, S
      <4> QED
        BY <4>1, <4>2 DEF MenuOK, PartOK
    <3> QED
      BY <1>4, <3>1, PartsOK DEF MenuOK
  <2> QED
    BY <2>1, <2>2
<1> HIDE DEF start, middle, exit
<1>6. MenuOK(1, start \o middle \o exit)
  BY <1>3, <1>5, PartsOK DEF MenuOK
<1> QED
  BY <1>6 DEF DashboardMenu, start, middle, exit

\* The lists are no menus.
LEMMA ListNames ==
    /\ DOMAIN ListOf = {"blacklist", "whitelist", "blocks_recent"}
    /\ OtherLists = {"reputation_recent", "reputation_history", "intelligence_timeline",
                     "intelligence_snapshots", "reports_recent", "reports_number",
                     "history_events", "history_screening", "history_number", "scan_history",
                     "contacts"}
    /\ MenuScreens \intersect ListScreens = {}
<1>1. DOMAIN ListOf = {"blacklist", "whitelist", "blocks_recent"}
  BY DEF ListOf
<1>2. OtherLists = {"reputation_recent", "reputation_history", "intelligence_timeline",
                    "intelligence_snapshots", "reports_recent", "reports_number",
                    "history_events", "history_screening", "history_number", "scan_history",
                    "contacts"}
  BY DEF OtherLists, ReputationLists, IntelligenceLists, ReportLists, HistoryLists, NumberLists
<1>3. MenuScreens \intersect ListScreens = {}
  BY <1>1, <1>2 DEF ListScreens, MenuScreens, Choices
<1> QED
  BY <1>1, <1>2, <1>3

\* The facts a screen reads, one screen at a time.
LEMMA ReadsOf ==
    /\ Reads("dashboard") = {"running", "emergency", "enabled", "active", "policy"}
    /\ Reads("screening") = {"running", "emergency", "enabled", "active", "policy"}
    /\ Reads("policy") = {"emergency", "enabled", "active", "policy"}
    /\ Reads("daemon") = {"running"}
    /\ \A x \in DOMAIN ListOf : Reads(x) = {ListOf[x]}
    /\ \A x \in OtherLists : Reads(x) = {"others"}
<1>1. Reads("dashboard") = {"running", "emergency", "enabled", "active", "policy"}
  BY ListNames DEF Reads, Configured
<1>2. Reads("screening") = {"running", "emergency", "enabled", "active", "policy"}
  BY ListNames DEF Reads, Configured
<1>3. Reads("policy") = {"emergency", "enabled", "active", "policy"}
  BY ListNames DEF Reads, Configured
<1>4. Reads("daemon") = {"running"}
  BY ListNames DEF Reads
<1>5. ASSUME NEW x \in DOMAIN ListOf PROVE Reads(x) = {ListOf[x]}
  BY ListNames DEF Reads
<1>6. ASSUME NEW x \in OtherLists PROVE Reads(x) = {"others"}
  BY ListNames DEF Reads
<1> QED
  BY <1>1, <1>2, <1>3, <1>4, <1>5, <1>6

\* The sections that have a menu lie under the dashboard, the lists of choices one deeper.
LEMMA MenuDepths ==
    /\ Depth("dashboard") = 1
    /\ \A x \in MenuScreens \ ({"dashboard"} \union Choices) : Depth(x) = 2
<1>1. \A x \in MenuScreens \ ({"dashboard"} \union Choices) :
         x \in {Sections[i] : i \in DOMAIN Sections} /\ x # "dashboard"
  BY SectionNames DEF MenuScreens
<1> QED
  BY <1>1 DEF Depth

\* Every menu that is built from what there is to read can be used.
LEMMA MenuFits ==
    ASSUME NEW screen \in MenuScreens, NEW f \in Facts
    PROVE  MenuOK(Depth(screen), Menu(screen, Saw(screen, f)))
<1> DEFINE s == Saw(screen, f)
<1>1. /\ f.running \in BOOLEAN /\ f.active \in BOOLEAN
      /\ f.emergency \in BOOLEAN /\ f.enabled \in BOOLEAN
  BY DEF Facts
<1>2. CASE screen = "dashboard"
  <2>1. s.running \in BOOLEAN
    BY <1>1, <1>2, ReadsOf DEF Saw
  <2>2. MenuOK(1, DashboardMenu(s))
    BY <2>1, DashboardMenuOK
  <2> QED
    BY <1>2, <2>2, MenuDepths DEF Menu, Choices
<1>3. CASE screen = "screening"
  <2>1. /\ s.running \in BOOLEAN /\ s.active \in BOOLEAN
        /\ s.emergency \in BOOLEAN /\ s.enabled \in BOOLEAN
    BY <1>1, <1>3, ReadsOf DEF Saw
  <2>2. MenuOK(2, ScreeningMenu(s))
    BY <2>1, ScreeningMenuOK
  <2> QED
    BY <1>3, <2>2, MenuDepths DEF Menu, MenuScreens, Choices
<1>4. CASE screen = "policy"
  <2>1. s.emergency \in BOOLEAN
    BY <1>1, <1>4, ReadsOf DEF Saw
  <2>2. MenuOK(2, PolicyMenu(s))
    BY <2>1, PolicyMenuOK
  <2> QED
    BY <1>4, <2>2, MenuDepths DEF Menu, MenuScreens, Choices
<1>5. CASE screen = "daemon"
  <2>1. s.running \in BOOLEAN
    BY <1>1, <1>5, ReadsOf DEF Saw
  <2>2. MenuOK(2, DaemonMenu(s))
    BY <2>1, DaemonMenuOK
  <2> QED
    BY <1>5, <2>2, MenuDepths DEF Menu, MenuScreens, Choices
<1>6. CASE screen \in {"scan", "blocks", "reputation", "intelligence", "number_intel", "reports",
                       "history", "settings"}
  <2>1. Depth(screen) = 2
    BY <1>6, MenuDepths DEF MenuScreens, Choices
  <2>2. /\ MenuOK(2, ScanMenu(s)) /\ MenuOK(2, BlocksMenu(s)) /\ MenuOK(2, ReputationMenu(s))
        /\ MenuOK(2, IntelligenceMenu(s)) /\ MenuOK(2, NumberMenu(s))
        /\ MenuOK(2, ReportsMenu(s)) /\ MenuOK(2, HistoryMenu(s)) /\ MenuOK(2, SettingsMenu(s))
    BY ScanMenuOK, BlocksMenuOK, ReputationMenuOK, IntelligenceMenuOK, NumberMenuOK,
       ReportsMenuOK, HistoryMenuOK, SettingsMenuOK
  <2> HIDE DEF s
  <2>3. \/ Menu(screen, s) = ScanMenu(s) \/ Menu(screen, s) = BlocksMenu(s)
        \/ Menu(screen, s) = ReputationMenu(s) \/ Menu(screen, s) = IntelligenceMenu(s)
        \/ Menu(screen, s) = NumberMenu(s) \/ Menu(screen, s) = ReportsMenu(s)
        \/ Menu(screen, s) = HistoryMenu(s) \/ Menu(screen, s) = SettingsMenu(s)
    BY <1>6 DEF Menu, Choices
  <2>4. MenuOK(2, Menu(screen, s))
    BY <2>2, <2>3
  <2> QED
    BY <2>1, <2>4 DEF s
<1>7. CASE screen \in Choices
  <2>1. Menu(screen, s) = ChoiceMenu(screen)
    BY <1>7 DEF Menu, Choices
  <2> QED
    BY <2>1, ChoiceMenuOK
<1> QED
  BY <1>2, <1>3, <1>4, <1>5, <1>6, <1>7 DEF MenuScreens

\* What can be done with a menu.
LEMMA MenuFacts ==
    ASSUME NEW d, NEW items, MenuOK(d, items)
    PROVE  \E n \in Nat \ {0} :
              /\ Len(items) = n /\ DOMAIN items = 1..n
              /\ \A i \in 1..n : items[i].enabled \in BOOLEAN /\ ThenOK(d, items[i].then)
              /\ items[1].enabled
<1>1. PICK S : items \in Seq(S) /\ \A e \in S : EntryOK(d, e)
  BY DEF MenuOK, PartOK
<1>2. PICK n \in Nat : n = Len(items)
  BY <1>1
<1>3. n # 0
  BY <1>1, <1>2 DEF MenuOK
<1>4. \A i \in 1..n : items[i] \in S
  BY <1>1, <1>2
<1> QED
  BY <1>1, <1>2, <1>3, <1>4 DEF MenuOK, EntryOK

\* The order of the natural numbers.
Smaller == {pair \in Nat \X Nat : pair[1] < pair[2]}

\* A set of natural numbers that has a member has a least one.
LEMMA LeastMember ==
    ASSUME NEW S \in SUBSET Nat, S # {}
    PROVE  \E i \in S : \A j \in S : i <= j
<1>1. IsWellFoundedOn(Smaller, Nat)
  BY NatLessThanWellFounded DEF OpToRel, Smaller
<1>2. PICK i \in S : \A j \in S : ~(<<j, i>> \in Smaller)
  BY <1>1, WFMin
<1>3. ASSUME NEW j \in S PROVE i <= j
  <2>1. i \in Nat /\ j \in Nat /\ ~(<<j, i>> \in Smaller)
    BY <1>2
  <2> QED
    BY <2>1 DEF Smaller
<1> QED
  BY <1>3

\* A step through a menu comes around, and ends where something is enabled.
LEMMA MoveFits ==
    ASSUME NEW d, NEW items, MenuOK(d, items), NEW at \in DOMAIN items, NEW step \in {1, -1}
    PROVE  Move(items, at, step) \in DOMAIN items /\ items[Move(items, at, step)].enabled
<1>1. PICK n \in Nat \ {0} :
         /\ Len(items) = n /\ DOMAIN items = 1..n
         /\ items[1].enabled
  BY MenuFacts
<1> DEFINE Steps(i) == ((at - 1 + step * i) % n) + 1
           reached == {i \in 1..n : items[Steps(i)].enabled}
<1>2. \A i \in 1..n : Steps(i) \in 1..n
  BY <1>1
<1>3. reached # {}
  <2>1. n % n = 0 /\ 0 % n = 0 /\ (-n) % n = 0
    <3>1. n % n = 0 /\ 0 % n = 0
      BY Multiples
    <3>2. (-n) % n = 0
      OBVIOUS
    <3> QED
      BY <3>1, <3>2
  <2>2. CASE step = 1
    <3>1. n - at + 1 \in 1..n /\ at - 1 + 1 * (n - at + 1) = n
      BY <1>1
    <3>2. Steps(n - at + 1) = 1
      BY <2>1, <2>2, <3>1
    <3> QED
      BY <1>1, <3>1, <3>2
  <2>3. CASE step = -1 /\ at # 1
    <3>1. at - 1 \in 1..n /\ at - 1 + (-1) * (at - 1) = 0
      BY <1>1, <2>3
    <3>2. Steps(at - 1) = 1
      BY <2>1, <2>3, <3>1
    <3> QED
      BY <1>1, <3>1, <3>2
  <2>4. CASE step = -1 /\ at = 1
    <3>1. n \in 1..n /\ at - 1 + (-1) * n = -n
      BY <1>1, <2>4
    <3>2. Steps(n) = 1
      BY <2>1, <2>4, <3>1
    <3> QED
      BY <1>1, <3>1, <3>2
  <2> QED
    BY <2>2, <2>3, <2>4
<1>4. reached \in SUBSET Nat
  OBVIOUS
<1>5. PICK i : i = CHOOSE k \in reached : \A j \in reached : k <= j
  OBVIOUS
<1>6. i \in reached
  BY <1>3, <1>4, <1>5, LeastMember
<1>7. Move(items, at, step) = Steps(i)
  BY <1>1, <1>3, <1>5 DEF Move
<1> QED
  BY <1>1, <1>2, <1>6, <1>7

\* The cursor of a menu that is built finds an entry that is enabled.
LEMMA OnEnabledFits ==
    ASSUME NEW d, NEW items, MenuOK(d, items), NEW at \in DOMAIN items
    PROVE  OnEnabled(items, at) \in DOMAIN items /\ items[OnEnabled(items, at)].enabled
BY MoveFits DEF OnEnabled

\* The entry the cursor was on, or the first, is one of the new menu.
LEMMA PositionFits ==
    ASSUME NEW d, NEW items, MenuOK(d, items), NEW key
    PROVE  Position(items, key) \in DOMAIN items
<1>1. 1 \in DOMAIN items
  BY MenuFacts
<1> QED
  BY <1>1 DEF Position

--------------------------------------------------------------------------------
(* Frames.                                                                    *)

\* A frame shows something that was there to read, the cursor of a menu is on an entry that
\* is enabled, and the page of a list has rows if there are any.
FrameOK(frame) ==
    /\ \E f \in Facts, at \in Nat :
          frame = [screen |-> frame.screen, saw |-> Saw(frame.screen, f), at |-> at]
    /\ frame.screen \in MenuScreens =>
          frame.at \in DOMAIN Items(frame) /\ Items(frame)[frame.at].enabled
    /\ frame.screen \in ListScreens =>
          frame.at % PageSize = 0 /\ (frame.at = 0 \/ frame.at < Total(frame))

\* What a screen that shows the settings of this process says of them.
ShownIn(frame, f) == \A x \in OwnFacts \intersect Reads(frame.screen) : frame.saw[x] = f[x]

\* A frame that was just read shows the settings as they are.
LEMMA FreshIsShown ==
    ASSUME NEW f, NEW frame, frame.saw = Saw(frame.screen, f)
    PROVE  ShownIn(frame, f)
BY DEF ShownIn, Saw

\* A list has a number of rows.
LEMMA TotalIsNat ==
    ASSUME NEW frame, frame.screen \in ListScreens, NEW f \in Facts,
           frame.saw = Saw(frame.screen, f)
    PROVE  Total(frame) \in Nat
<1>1. \E x \in Lists : Reads(frame.screen) = {x}
  <2>1. CASE frame.screen \in DOMAIN ListOf
    <3>1. ListOf[frame.screen] \in Lists
      BY <2>1, ListNames DEF ListOf, Lists
    <3> QED
      BY <2>1, <3>1, ReadsOf
  <2>2. CASE frame.screen \in OtherLists
    BY <2>2, ReadsOf DEF Lists
  <2> QED
    BY <2>1, <2>2 DEF ListScreens
<1>2. PICK x \in Lists : Reads(frame.screen) = {x}
  BY <1>1
<1>3. Total(frame) = frame.saw[x]
  BY <1>2 DEF Total
<1>4. frame.saw[x] = f[x]
  BY <1>2 DEF Saw
<1>5. f[x] \in Nat
  BY <1>2, InterfaceAssumption DEF Facts, Lists
<1> QED
  BY <1>3, <1>4, <1>5

\* The menu of a screen that shows what there is to read.
LEMMA ItemsFit ==
    ASSUME NEW frame, frame.screen \in MenuScreens, NEW f \in Facts,
           frame.saw = Saw(frame.screen, f)
    PROVE  MenuOK(Depth(frame.screen), Items(frame))
BY MenuFits DEF Items

\* A cursor that is put on an entry that is enabled, and an offset that is that of a page
\* with rows, leave the rest of a frame alone.
LEMMA PlacedFits ==
    ASSUME NEW screen, NEW f \in Facts, NEW at,
           screen \in MenuScreens =>
               at \in DOMAIN Menu(screen, Saw(screen, f)) /\ Menu(screen, Saw(screen, f))[at].enabled,
           screen \in ListScreens =>
               /\ at \in Nat /\ at % PageSize = 0
               /\ \/ at = 0
                  \/ at < Total([screen |-> screen, saw |-> Saw(screen, f), at |-> at]),
           screen \notin MenuScreens \union ListScreens => at \in Nat
    PROVE  FrameOK([screen |-> screen, saw |-> Saw(screen, f), at |-> at])
<1> DEFINE frame == [screen |-> screen, saw |-> Saw(screen, f), at |-> at]
<1>1. frame.screen = screen /\ frame.saw = Saw(screen, f) /\ frame.at = at
  OBVIOUS
<1>2. at \in Nat
  <2>1. CASE screen \in MenuScreens
    <3>1. MenuOK(Depth(screen), Menu(screen, Saw(screen, f)))
      BY <2>1, MenuFits
    <3>2. PICK n \in Nat \ {0} : DOMAIN Menu(screen, Saw(screen, f)) = 1..n
      BY <3>1, MenuFacts
    <3> QED
      BY <2>1, <3>2
  <2> QED
    BY <2>1
<1>3. frame = [screen |-> frame.screen, saw |-> Saw(frame.screen, f), at |-> at]
  BY <1>1
<1>4. Items(frame) = Menu(screen, Saw(screen, f))
  BY <1>1 DEF Items
<1> HIDE DEF frame
<1>5. FrameOK(frame)
  <2>1. \E g \in Facts, n \in Nat :
           frame = [screen |-> frame.screen, saw |-> Saw(frame.screen, g), at |-> n]
    BY <1>2, <1>3
  <2>2. frame.screen \in MenuScreens =>
           frame.at \in DOMAIN Items(frame) /\ Items(frame)[frame.at].enabled
    BY <1>1, <1>4
  <2>3. frame.screen \in ListScreens =>
           frame.at % PageSize = 0 /\ (frame.at = 0 \/ frame.at < Total(frame))
    BY <1>1 DEF frame
  <2> QED
    BY <2>1, <2>2, <2>3 DEF FrameOK
<1> QED
  BY <1>5 DEF frame

\* A screen that is entered.
LEMMA EnterFits ==
    ASSUME NEW screen, NEW f \in Facts
    PROVE  /\ FrameOK(Enter(screen, f))
           /\ Enter(screen, f).screen = screen
           /\ ShownIn(Enter(screen, f), f)
<1> DEFINE items == Menu(screen, Saw(screen, f))
           at == IF screen \in MenuScreens THEN OnEnabled(items, 1) ELSE 0
           frame == [screen |-> screen, saw |-> Saw(screen, f), at |-> at]
<1>1. Enter(screen, f) = frame
  BY DEF Enter, Items
<1>2. screen \in MenuScreens => at \in DOMAIN items /\ items[at].enabled
  <2>1. ASSUME screen \in MenuScreens
        PROVE  OnEnabled(items, 1) \in DOMAIN items /\ items[OnEnabled(items, 1)].enabled
    <3>1. MenuOK(Depth(screen), items)
      BY <2>1, MenuFits
    <3>2. 1 \in DOMAIN items
      BY <3>1, MenuFacts
    <3> HIDE DEF items
    <3> QED
      BY <3>1, <3>2, OnEnabledFits
  <2> QED
    BY <2>1
<1>3. screen \notin MenuScreens => at = 0
  OBVIOUS
<1>4. 0 % PageSize = 0
  BY InterfaceAssumption, Multiples
<1>5. FrameOK(frame)
  <2>1. screen \in ListScreens => screen \notin MenuScreens
    BY ListNames
  <2> HIDE DEF at
  <2> QED
    BY <1>2, <1>3, <1>4, <2>1, PlacedFits
<1>6. frame.screen = screen /\ frame.saw = Saw(frame.screen, f)
  OBVIOUS
<1> HIDE DEF frame
<1> QED
  BY <1>1, <1>5, <1>6, FreshIsShown

\* A screen that is read again.
LEMMA RefreshedFits ==
    ASSUME NEW frame, FrameOK(frame), NEW f \in Facts
    PROVE  /\ FrameOK(Refreshed(frame, f))
           /\ Refreshed(frame, f).screen = frame.screen
           /\ ShownIn(Refreshed(frame, f), f)
<1> DEFINE screen == frame.screen
           fresh == [screen |-> screen, saw |-> Saw(screen, f), at |-> frame.at]
           items == Menu(screen, Saw(screen, f))
           key == Items(frame)[frame.at].key
           last == LastPage(Total(fresh))
           at == IF screen \in MenuScreens THEN OnEnabled(items, Position(items, key))
                 ELSE IF screen \in ListScreens THEN IF frame.at > last THEN last ELSE frame.at
                 ELSE frame.at
           new == [screen |-> screen, saw |-> Saw(screen, f), at |-> at]
<1>1. PICK g \in Facts, n \in Nat : frame = [screen |-> screen, saw |-> Saw(screen, g), at |-> n]
  BY DEF FrameOK
<1>2. frame.at = n /\ n \in Nat
  BY <1>1
<1>3. [frame EXCEPT !.saw = Saw(frame.screen, f)] = fresh
  BY <1>1
<1>4. Refreshed(frame, f) = new
  <2>1. /\ Items(fresh) = items /\ fresh.at = frame.at
        /\ \A x : [fresh EXCEPT !.at = x] = [screen |-> screen, saw |-> Saw(screen, f), at |-> x]
    BY DEF Items
  <2>2. Rebuilt(frame, fresh) =
           [screen |-> screen, saw |-> Saw(screen, f), at |-> OnEnabled(items, Position(items, key))]
    BY <2>1 DEF Rebuilt
  <2>3. Clamped(fresh) =
           [screen |-> screen, saw |-> Saw(screen, f),
            at |-> IF frame.at > last THEN last ELSE frame.at]
    BY <2>1 DEF Clamped
  <2>4. Refreshed(frame, f) =
           IF screen \in MenuScreens THEN Rebuilt(frame, fresh)
           ELSE IF screen \in ListScreens THEN Clamped(fresh) ELSE fresh
    BY <1>3 DEF Refreshed
  <2> HIDE DEF items, key, last
  <2> QED
    BY <2>2, <2>3, <2>4
<1>5. screen \in MenuScreens => at \in DOMAIN items /\ items[at].enabled
  <2>1. ASSUME screen \in MenuScreens
        PROVE  OnEnabled(items, Position(items, key)) \in DOMAIN items
               /\ items[OnEnabled(items, Position(items, key))].enabled
    <3>1. MenuOK(Depth(screen), items)
      BY <2>1, MenuFits
    <3> HIDE DEF items
    <3>2. Position(items, key) \in DOMAIN items
      BY <3>1, PositionFits
    <3> QED
      BY <3>1, <3>2, OnEnabledFits
  <2> QED
    BY <2>1
<1>6. ASSUME screen \in ListScreens
      PROVE  at \in Nat /\ at % PageSize = 0 /\ (at = 0 \/ at < Total(fresh))
  <2>1. screen \notin MenuScreens
    BY <1>6, ListNames
  <2>2. Total(fresh) \in Nat
    BY <1>6, TotalIsNat
  <2>3. last \in Nat /\ last % PageSize = 0 /\ (last = 0 \/ last < Total(fresh))
    BY <2>2, LastPages
  <2>4. frame.at % PageSize = 0
    BY <1>6 DEF FrameOK
  <2>5. at = IF n > last THEN last ELSE n
    BY <1>2, <1>6, <2>1
  <2> HIDE DEF last, at, fresh
  <2> QED
    BY <1>2, <2>2, <2>3, <2>4, <2>5
<1>7. screen \notin MenuScreens \union ListScreens => at = n
  BY <1>2
<1>8. Total(new) = Total(fresh)
  BY DEF Total
<1>9. FrameOK(new)
  <2> HIDE DEF at
  <2> QED
    BY <1>2, <1>5, <1>6, <1>7, <1>8, PlacedFits
<1>10. new.screen = screen /\ new.saw = Saw(new.screen, f)
  OBVIOUS
<1> HIDE DEF new
<1> QED
  BY <1>4, <1>9, <1>10, FreshIsShown

--------------------------------------------------------------------------------
(* Stacks.                                                                    *)

\* The dashboard is at the bottom, and every screen lies deeper than those under it.
Sound(s) ==
    /\ \E S : s \in Seq(S) /\ \A frame \in S : FrameOK(frame)
    /\ s # <<>> /\ s[1].screen = "dashboard"
    /\ \A i, j \in DOMAIN s : i < j => Depth(s[i].screen) < Depth(s[j].screen)

\* There are four depths.
LEMMA DepthRange == \A x : Depth(x) \in 1..4
BY DEF Depth

\* So there are few of them, none of them twice, and the top is sound like all others.
LEMMA SoundFacts ==
    ASSUME NEW s, Sound(s)
    PROVE  /\ \E n \in 1..4 : /\ Len(s) = n /\ DOMAIN s = 1..n
                              /\ s = [i \in 1..n |-> s[i]]
                              /\ TopOf(s) = s[n]
           /\ FrameOK(TopOf(s))
           /\ \A i, j \in DOMAIN s : s[i].screen = s[j].screen => i = j
<1>1. PICK S : s \in Seq(S) /\ \A frame \in S : FrameOK(frame)
  BY DEF Sound
<1>2. PICK n \in Nat : n = Len(s)
  BY <1>1
<1>3. DOMAIN s = 1..n /\ n # 0 /\ s = [i \in 1..n |-> s[i]] /\ \A i \in 1..n : s[i] \in S
  BY <1>1, <1>2 DEF Sound
<1>4. \A i, j \in 1..n : i < j => Depth(s[i].screen) < Depth(s[j].screen)
  BY <1>3 DEF Sound
<1>5. n <= 4
  <2> SUFFICES ASSUME n >= 5
               PROVE  FALSE
    BY <1>2
  <2> DEFINE d(i) == Depth(s[i].screen)
  <2>1. d(1) < d(2) /\ d(2) < d(3) /\ d(3) < d(4) /\ d(4) < d(5)
    BY <1>4
  <2>2. d(1) \in 1..4 /\ d(2) \in 1..4 /\ d(3) \in 1..4 /\ d(4) \in 1..4 /\ d(5) \in 1..4
    BY DepthRange
  <2> HIDE DEF d
  <2> QED
    BY <2>1, <2>2
<1>6. \A i, j \in 1..n : s[i].screen = s[j].screen => i = j
  <2> SUFFICES ASSUME NEW i \in 1..n, NEW j \in 1..n, i < j, s[i].screen = s[j].screen
               PROVE  FALSE
    OBVIOUS
  <2>1. Depth(s[i].screen) < Depth(s[j].screen) /\ Depth(s[i].screen) \in 1..4
    BY <1>4, DepthRange
  <2> QED
    BY <2>1
<1>7. n \in 1..4 /\ TopOf(s) = s[n] /\ FrameOK(s[n])
  <2>1. n \in 1..4
    <3>1. n # 0
      BY <1>3
    <3> QED
      BY <1>5, <3>1
  <2>2. TopOf(s) = s[n]
    BY <1>2 DEF TopOf
  <2>3. FrameOK(s[n])
    BY <1>1, <1>3, <2>1
  <2> QED
    BY <2>1, <2>2, <2>3
<1>8. \E m \in 1..4 : /\ Len(s) = m /\ DOMAIN s = 1..m
                     /\ s = [i \in 1..m |-> s[i]] /\ TopOf(s) = s[m]
  BY <1>2, <1>3, <1>7
<1>9. \A i, j \in DOMAIN s : s[i].screen = s[j].screen => i = j
  BY <1>3, <1>6
<1> QED
  BY <1>7, <1>8, <1>9

\* The top of a stack may be drawn again,
LEMMA OnTopFits ==
    ASSUME NEW s, Sound(s), NEW frame, FrameOK(frame), frame.screen = TopOf(s).screen
    PROVE  Sound(OnTop(s, frame)) /\ TopOf(OnTop(s, frame)) = frame
<1>1. PICK n \in 1..4 : Len(s) = n /\ DOMAIN s = 1..n /\ TopOf(s) = s[n]
  BY SoundFacts
<1>2. PICK S : s \in Seq(S) /\ \A x \in S : FrameOK(x)
  BY DEF Sound
<1> DEFINE T == S \union {frame}
           r == OnTop(s, frame)
<1>3. s \in Seq(T) /\ frame \in T /\ \A x \in T : FrameOK(x)
  BY <1>2
<1> HIDE DEF T
<1>4. /\ Below(s) \in Seq(T) /\ Len(Below(s)) = n - 1
      /\ \A i \in 1..(n - 1) : Below(s)[i] = s[i]
  <2>1. Below(s) = SubSeq(s, 1, n - 1) /\ n - 1 \in 0..Len(s)
    BY <1>1 DEF Below
  <2>2. n - 1 \in Int /\ 1 \in 1..(Len(s) + 1) /\ n - 1 \in 0..Len(s)
    BY <1>1
  <2>3. SubSeq(s, 1, n - 1) \in Seq(T)
    BY <1>3, <2>2, SubSeqProperties
  <2>4. Len(SubSeq(s, 1, n - 1)) = n - 1
    BY <1>1, <1>3, <2>2, SubSeqProperties
  <2>5. \A i \in 1..(n - 1) : SubSeq(s, 1, n - 1)[i] = s[i]
    BY <1>1, <1>3, <2>2, SubSeqProperties
  <2> QED
    BY <2>1, <2>3, <2>4, <2>5
<1>5. r \in Seq(T) /\ Len(r) = n /\ r[n] = frame /\ \A i \in 1..(n - 1) : r[i] = s[i]
  BY <1>3, <1>4 DEF OnTop
<1> HIDE DEF r
<1>6. \A i \in 1..n : r[i].screen = s[i].screen
  BY <1>1, <1>5
<1>7. DOMAIN r = 1..n /\ r # <<>>
  BY <1>5
<1>8. Sound(r)
  <2>1. r[1].screen = "dashboard"
    BY <1>6 DEF Sound
  <2>2. \A i, j \in DOMAIN r : i < j => Depth(r[i].screen) < Depth(r[j].screen)
    BY <1>1, <1>6, <1>7 DEF Sound
  <2> QED
    BY <1>3, <1>5, <1>7, <2>1, <2>2 DEF Sound
<1>9. TopOf(r) = frame
  BY <1>5 DEF TopOf
<1> QED
  BY <1>8, <1>9 DEF r

\* covered by a deeper one,
LEMMA PushedFits ==
    ASSUME NEW s, Sound(s), NEW frame, FrameOK(frame),
           Depth(TopOf(s).screen) < Depth(frame.screen)
    PROVE  Sound(Pushed(s, frame)) /\ TopOf(Pushed(s, frame)) = frame
<1>1. PICK n \in 1..4 : Len(s) = n /\ DOMAIN s = 1..n /\ TopOf(s) = s[n]
  BY SoundFacts
<1>2. PICK S : s \in Seq(S) /\ \A x \in S : FrameOK(x)
  BY DEF Sound
<1> DEFINE T == S \union {frame}
           r == Append(s, frame)
<1>3. s \in Seq(T) /\ frame \in T /\ \A x \in T : FrameOK(x)
  BY <1>2
<1>4. Pushed(s, frame) = r
  BY <1>1, InterfaceAssumption DEF Pushed
<1> HIDE DEF T
<1>5. r \in Seq(T) /\ Len(r) = n + 1 /\ r[n + 1] = frame /\ \A i \in 1..n : r[i] = s[i]
  BY <1>1, <1>3
<1> HIDE DEF r
<1>6. DOMAIN r = 1..(n + 1) /\ r # <<>>
  BY <1>5
<1>7. ASSUME NEW i \in 1..(n + 1), NEW j \in 1..(n + 1), i < j
      PROVE  Depth(r[i].screen) < Depth(r[j].screen)
  <2>1. CASE j \in 1..n
    BY <1>1, <1>5, <1>7, <2>1, SMTT(60) DEF Sound
  <2>2. CASE j = n + 1
    <3>1. i \in 1..n /\ r[i] = s[i] /\ r[j] = frame
      BY <1>5, <1>7, <2>2
    <3>2. Depth(s[n].screen) < Depth(frame.screen)
      BY <1>1
    <3>3. i = n \/ Depth(s[i].screen) < Depth(s[n].screen)
      BY <1>1, <3>1 DEF Sound
    <3>4. /\ Depth(s[i].screen) \in 1..4 /\ Depth(s[n].screen) \in 1..4
          /\ Depth(frame.screen) \in 1..4
      BY DepthRange
    <3> QED
      BY <3>1, <3>2, <3>3, <3>4
  <2> QED
    BY <2>1, <2>2
<1>8. Sound(r)
  <2>1. r[1].screen = "dashboard"
    BY <1>1, <1>5 DEF Sound
  <2> QED
    BY <1>3, <1>5, <1>6, <1>7, <2>1 DEF Sound
<1>9. TopOf(r) = frame
  BY <1>5 DEF TopOf
<1> QED
  BY <1>4, <1>8, <1>9

\* and taken away down to any screen but the last.
LEMMA PrefixFits ==
    ASSUME NEW s, Sound(s), NEW k \in 1..Len(s)
    PROVE  Sound(SubSeq(s, 1, k))
<1>1. PICK n \in 1..4 : Len(s) = n /\ DOMAIN s = 1..n
  BY SoundFacts
<1>2. PICK S : s \in Seq(S) /\ \A x \in S : FrameOK(x)
  BY DEF Sound
<1> DEFINE r == SubSeq(s, 1, k)
<1>3. r \in Seq(S) /\ Len(r) = k /\ \A i \in 1..k : r[i] = s[i]
  BY <1>1, <1>2, SubSeqProperties
<1> HIDE DEF r
<1>4. DOMAIN r = 1..k /\ r # <<>> /\ 1 \in 1..k /\ 1..k \subseteq 1..n
  BY <1>1, <1>3
<1>5. r[1].screen = "dashboard"
  BY <1>3, <1>4 DEF Sound
<1>6. \A i, j \in DOMAIN r : i < j => Depth(r[i].screen) < Depth(r[j].screen)
  BY <1>1, <1>3, <1>4 DEF Sound
<1>7. Sound(r)
  BY <1>2, <1>3, <1>4, <1>5, <1>6 DEF Sound
<1> QED
  BY <1>7 DEF r

--------------------------------------------------------------------------------
(* Steps.                                                                     *)

\* A frame whose cursor or offset is moved.
LEMMA CursorFits ==
    ASSUME NEW frame, FrameOK(frame), frame.screen \in MenuScreens,
           NEW i \in DOMAIN Items(frame), Items(frame)[i].enabled
    PROVE  FrameOK([frame EXCEPT !.at = i])
<1>1. PICK f \in Facts, n \in Nat :
         frame = [screen |-> frame.screen, saw |-> Saw(frame.screen, f), at |-> n]
  BY DEF FrameOK
<1>2. [frame EXCEPT !.at = i] = [screen |-> frame.screen, saw |-> Saw(frame.screen, f), at |-> i]
  BY <1>1
<1>3. Items(frame) = Menu(frame.screen, Saw(frame.screen, f))
  BY <1>1 DEF Items
<1>4. frame.screen \notin ListScreens
  BY ListNames
<1> QED
  BY <1>2, <1>3, <1>4, PlacedFits

\* A list whose offset is moved by a page, to the start or to the end.
LEMMA PageFits ==
    ASSUME NEW frame, FrameOK(frame), frame.screen \in ListScreens,
           NEW at \in {IF frame.at + PageSize < Total(frame) THEN frame.at + PageSize ELSE frame.at,
                       IF frame.at > PageSize THEN frame.at - PageSize ELSE 0,
                       0, LastPage(Total(frame))}
    PROVE  FrameOK([frame EXCEPT !.at = at])
<1>1. PICK f \in Facts, n \in Nat :
         frame = [screen |-> frame.screen, saw |-> Saw(frame.screen, f), at |-> n]
  BY DEF FrameOK
<1>2. [frame EXCEPT !.at = at] = [screen |-> frame.screen, saw |-> Saw(frame.screen, f), at |-> at]
  BY <1>1
<1>3. frame.at = n /\ frame.saw = Saw(frame.screen, f)
  BY <1>1
<1>4. PICK total \in Nat : total = Total(frame)
  BY <1>3, TotalIsNat
<1>5. frame.screen \notin MenuScreens
  BY ListNames
<1>6. n % PageSize = 0 /\ (n = 0 \/ n < total)
  BY <1>3, <1>4 DEF FrameOK
<1>7. at \in Nat /\ at % PageSize = 0 /\ (at = 0 \/ at < total)
  <2>1. CASE at = LastPage(total)
    BY <2>1, LastPages
  <2>2. CASE at = 0
    BY <2>2, InterfaceAssumption, Multiples
  <2>3. CASE at = n
    BY <1>6, <2>3
  <2>4. CASE at = n + PageSize /\ n + PageSize < total
    <3>1. (n + PageSize) % PageSize = 0
      BY <1>6, InterfaceAssumption, Multiples
    <3> QED
      BY <2>4, <3>1, InterfaceAssumption
  <2>5. CASE at = n - PageSize /\ n > PageSize
    <3>1. (n - PageSize) % PageSize = 0 /\ n - PageSize \in Nat
      BY <1>6, <2>5, InterfaceAssumption, Multiples
    <3> QED
      BY <1>6, <2>5, <3>1, InterfaceAssumption
  <2>6. \/ at = LastPage(total) \/ at = 0 \/ at = n
        \/ at = n + PageSize /\ n + PageSize < total
        \/ at = n - PageSize /\ n > PageSize
    BY <1>3, <1>4
  <2> QED
    BY <2>1, <2>2, <2>3, <2>4, <2>5, <2>6
<1>8. Total([screen |-> frame.screen, saw |-> Saw(frame.screen, f), at |-> at]) = Total(frame)
  BY <1>3 DEF Total
<1> QED
  BY <1>2, <1>4, <1>5, <1>7, <1>8, PlacedFits

\* A task leaves something there is to read.
LEMMA TasksTyped ==
    ASSUME NEW name \in TaskNames, NEW f \in Facts
    PROVE  Outcomes(name, f) \subseteq Facts
<1>1. PolicyChoices = {"RELAXED", "BALANCED", "STRICT"}
  <2>1. DOMAIN PolicyNames = {1, 2, 3}
    BY DEF PolicyNames
  <2>2. /\ PolicyNames[1] = "RELAXED" /\ PolicyNames[2] = "BALANCED"
        /\ PolicyNames[3] = "STRICT"
    BY DEF PolicyNames
  <2> QED
    BY <2>1, <2>2 DEF PolicyChoices
<1>2. \A x \in {"running", "emergency", "enabled", "active"}, b \in BOOLEAN :
         [f EXCEPT ![x] = b] \in Facts
  BY DEF Facts
<1>3. \A x \in Lists, by \in Int : Counted(f, x, by) \in Facts
  BY DEF Counted, Facts, Lists
<1>4. CASE name \in PolicyChoices
  <2>1. [f EXCEPT !.policy = name] \in Facts
    BY <1>4 DEF Facts
  <2>2. Outcomes(name, f) = {[f EXCEPT !.policy = name]}
    BY <1>1, <1>4 DEF Outcomes
  <2> QED
    BY <2>1, <2>2
<1>5. CASE name \in {"enable", "disable", "dry_run", "active", "emergency_off", "emergency_reset"}
  <2>1. \A b, c \in BOOLEAN : [f EXCEPT !.enabled = b, !.active = c] \in Facts
    BY DEF Facts
  <2>2. \A a, b, c \in BOOLEAN :
           [f EXCEPT !.emergency = a, !.enabled = b, !.active = c] \in Facts
    BY DEF Facts
  <2>3. CASE name = "enable"
    BY <1>1, <2>1, <2>3 DEF Outcomes
  <2>4. CASE name = "disable"
    BY <1>1, <2>1, <2>4 DEF Outcomes
  <2>5. CASE name = "dry_run"
    <3>1. [f EXCEPT !.active = FALSE] \in Facts
      BY DEF Facts
    <3> QED
      BY <1>1, <2>5, <3>1 DEF Outcomes
  <2>6. CASE name = "active"
    BY <1>1, <2>1, <2>6 DEF Outcomes
  <2>7. CASE name = "emergency_off"
    BY <1>1, <2>2, <2>7 DEF Outcomes
  <2>8. CASE name = "emergency_reset"
    BY <1>1, <2>2, <2>8 DEF Outcomes
  <2> QED
    BY <1>5, <2>3, <2>4, <2>5, <2>6, <2>7, <2>8
<1>6. CASE name \in {"start", "stop", "restart"}
  <2>1. \A b \in BOOLEAN : [f EXCEPT !.running = b] \in Facts
    BY DEF Facts
  <2> QED
    BY <1>1, <1>6, <2>1 DEF Outcomes
<1>7. CASE name \in {"block", "allow", "unblock", "unallow", "report"}
  <2>1. /\ Counted(f, "black", 1) \in Facts /\ Counted(f, "black", -1) \in Facts
        /\ Counted(f, "white", 1) \in Facts /\ Counted(f, "white", -1) \in Facts
        /\ Counted(f, "others", 1) \in Facts
    BY <1>3 DEF Lists
  <2> QED
    BY <1>1, <1>7, <2>1 DEF Outcomes
<1> QED
  BY <1>4, <1>5, <1>6, <1>7 DEF TaskNames

\* Where the user is, and what is to be done there.
Placed == Sound(stack) /\ ShownIn(Top, facts)

\* What there is to read, and the preferences, are of their types.
UiTypes == facts \in Facts /\ prefs \in Prefs /\ prefsFile \in Prefs

\* What an entry, or an answer, leads to.
LEMMA PerformFits ==
    ASSUME UiTypes, NEW s, Sound(s), ShownIn(TopOf(s), facts),
           NEW then, ThenOK(Depth(TopOf(s).screen), then), Perform(s, then)
    PROVE  UiTypes' /\ phase' \in {"loop", "closing"} /\ Placed'
<1> DEFINE top == TopOf(s)
<1>1. FrameOK(top)
  BY SoundFacts
<1>2. facts \in Facts /\ prefs \in Prefs /\ prefsFile \in Prefs
  BY DEF UiTypes
<1>3. ASSUME NEW screen, Depth(screen) > Depth(top.screen), Opens(s, screen)
      PROVE  UiTypes' /\ phase' \in {"loop", "closing"} /\ Placed'
  <2> DEFINE frame == Enter(screen, facts)
             new == Pushed(s, frame)
  <2>1. FrameOK(frame) /\ frame.screen = screen /\ ShownIn(frame, facts)
    BY <1>2, EnterFits
  <2>2. stack' = new /\ facts' = facts /\ prefs' = prefs /\ prefsFile' = prefsFile /\ phase' = "loop"
    BY <1>3 DEF Opens
  <2> HIDE DEF frame
  <2>3. Depth(top.screen) < Depth(frame.screen)
    <3>1. Depth(screen) \in 1..4 /\ Depth(top.screen) \in 1..4
      BY DepthRange
    <3> QED
      BY <1>3, <2>1, <3>1
  <2>4. Sound(new) /\ TopOf(new) = frame
    BY <2>1, <2>3, PushedFits
  <2> HIDE DEF new
  <2> QED
    BY <1>2, <2>1, <2>2, <2>4 DEF UiTypes, Placed, Top
<1>4. CASE then.kind = "open"
  <2>1. then.what = "default_scan" => Depth(top.screen) = 2
    BY <1>4 DEF ThenOK
  <2>2. then.what # "default_scan" => Depth(then.what) > Depth(top.screen)
    BY <1>4 DEF ThenOK
  <2>3. CASE then.what = "default_scan"
    <3>1. PICK screen \in {"advanced_scan", "scan_result"} : Opens(s, screen)
      BY <1>4, <2>3 DEF Perform
    <3>2. Depth("advanced_scan") > 2 /\ Depth("scan_result") > 2
      BY SectionNames DEF Depth
    <3>3. Depth(screen) > Depth(top.screen)
      BY <2>1, <2>3, <3>2
    <3> QED
      BY <1>3, <3>1, <3>3
  <2>4. CASE then.what # "default_scan"
    <3>1. Opens(s, then.what)
      BY <1>4, <2>4 DEF Perform
    <3> QED
      BY <1>3, <2>2, <2>4, <3>1
  <2> QED
    BY <2>3, <2>4
<1>5. CASE then.kind = "run"
  <2>1. then.what \in TaskNames
    BY <1>5 DEF ThenOK
  <2>2. Runs(s, then.what)
    BY <1>5 DEF Perform
  <2>3. /\ facts' \in Facts /\ prefs' = prefs /\ prefsFile' = prefsFile /\ phase' = "loop"
        /\ stack' = OnTop(s, Refreshed(top, facts'))
    BY <1>2, <2>1, <2>2, TasksTyped DEF Runs
  <2>4. PICK f \in Facts : f = facts'
    BY <2>3
  <2> DEFINE frame == Refreshed(top, f)
             new == OnTop(s, frame)
  <2>5. FrameOK(frame) /\ frame.screen = top.screen /\ ShownIn(frame, f)
    BY <1>1, RefreshedFits
  <2>6. stack' = new
    BY <2>3, <2>4
  <2> HIDE DEF frame
  <2>7. Sound(new) /\ TopOf(new) = frame
    BY <2>5, OnTopFits
  <2> HIDE DEF new
  <2> QED
    BY <1>2, <2>3, <2>4, <2>5, <2>6, <2>7 DEF UiTypes, Placed, Top
<1>6. CASE then.kind = "choose"
  <2>1. then.what \in {"looks", "defaults", "timed", "manual", "basic", "advanced"}
    BY <1>6 DEF ThenOK
  <2>2. Chooses(s, then.what)
    BY <1>6 DEF Perform
  <2>3. Preferred(then.what) \in Prefs
    BY <1>2, <2>1 DEF Preferred, Prefs, DefaultPrefs
  <2>4. /\ stack' = s /\ phase' = "loop" /\ facts' = facts
        /\ prefs' \in Prefs /\ prefsFile' \in Prefs
    BY <1>2, <2>2, <2>3 DEF Chooses
  <2> QED
    BY <1>2, <2>4 DEF UiTypes, Placed, Top
<1>7. CASE then.kind \in {"reread", "leave", "quit"}
  <2> DEFINE frame == Refreshed(top, facts)
             new == IF then.kind = "reread" THEN OnTop(s, frame) ELSE s
  <2>1. /\ stack' = new /\ phase' \in {"loop", "closing"}
        /\ facts' = facts /\ prefs' = prefs /\ prefsFile' = prefsFile
    BY <1>7 DEF Perform, Plainly
  <2>2. FrameOK(frame) /\ frame.screen = top.screen /\ ShownIn(frame, facts)
    BY <1>1, <1>2, RefreshedFits
  <2> HIDE DEF frame
  <2>3. Sound(OnTop(s, frame)) /\ TopOf(OnTop(s, frame)) = frame
    BY <2>2, OnTopFits
  <2>4. Sound(new) /\ ShownIn(TopOf(new), facts)
    BY <2>2, <2>3
  <2> HIDE DEF new
  <2> QED
    BY <1>2, <2>1, <2>4 DEF UiTypes, Placed, Top
<1> QED
  BY <1>4, <1>5, <1>6, <1>7 DEF ThenOK

--------------------------------------------------------------------------------
(* The invariant of the interface.                                            *)

\* Nothing is open before the start; where the user is, everything is in place; and what a
\* prompt asks for leads deeper than the screen that asks.
UiInv ==
    /\ UiTypes
    /\ phase \in {"off", "startup", "loop", "prompt", "handover", "closing"} /\ raw \in BOOLEAN
    /\ TerminalGivenBack
    /\ phase \in {"off", "startup"} => stack = <<>>
    /\ phase \in {"loop", "prompt", "handover"} => Placed
    /\ phase \in {"prompt", "handover"} => ThenOK(Depth(Top.screen), pending.then)

\* Before run is called nothing is open, and the terminal belongs to the shell.
LEMMA UiStarts == InterfaceInit => UiInv
<1> SUFFICES ASSUME InterfaceInit
             PROVE  UiInv
  OBVIOUS
<1>1. DefaultPrefs \in Prefs
  BY DEF Prefs, DefaultPrefs
<1>2. UiTypes
  BY <1>1 DEF InterfaceInit, UiTypes
<1> QED
  BY <1>2 DEF InterfaceInit, UiInv, TerminalGivenBack

\* Starting opens the dashboard, and the end of run closes everything.
LEMMA ComesAndGoes == UiInv /\ (Launch \/ StartUp \/ Quit \/ Close) => UiInv'
<1> SUFFICES ASSUME UiInv
             PROVE  Launch \/ StartUp \/ Quit \/ Close => UiInv'
  OBVIOUS
<1>1. ASSUME Launch PROVE UiInv'
  BY <1>1 DEF Launch, UiInv, UiTypes, TerminalGivenBack
<1>2. ASSUME StartUp PROVE UiInv'
  <2> DEFINE frame == Enter("dashboard", facts)
  <2>1. stack' = <<frame>> /\ facts' = facts /\ prefs' = prefs /\ prefsFile' = prefsFile
        /\ phase' = "loop" /\ raw' = raw /\ raw
    BY <1>2 DEF StartUp, UiInv, TerminalGivenBack
  <2>2. FrameOK(frame) /\ frame.screen = "dashboard" /\ ShownIn(frame, facts)
    BY EnterFits DEF UiInv, UiTypes
  <2> HIDE DEF frame
  <2>3. /\ <<frame>> \in Seq({frame}) /\ Len(<<frame>>) = 1 /\ DOMAIN <<frame>> = {1}
        /\ <<frame>>[1] = frame /\ <<frame>> # <<>>
    OBVIOUS
  <2>4. \E S : <<frame>> \in Seq(S) /\ \A x \in S : FrameOK(x)
    <3> DEFINE S == {frame}
    <3>1. <<frame>> \in Seq(S) /\ \A x \in S : FrameOK(x)
      BY <2>2, <2>3
    <3> HIDE DEF S
    <3> QED
      BY <3>1
  <2>5. Sound(<<frame>>) /\ TopOf(<<frame>>) = frame
    BY <2>2, <2>3, <2>4 DEF Sound, TopOf
  <2> QED
    BY <2>1, <2>2, <2>5 DEF UiInv, UiTypes, Placed, Top, TerminalGivenBack
<1>3. ASSUME Quit PROVE UiInv'
  BY <1>3 DEF Quit, UiInv, UiTypes, TerminalGivenBack
<1>4. ASSUME Close PROVE UiInv'
  BY <1>4 DEF Close, UiInv, UiTypes, TerminalGivenBack
<1> QED
  BY <1>1, <1>2, <1>3, <1>4

\* A stack that stands where the interface is, with a sound frame that shows its settings on
\* top, is one the loop may go on with.
LEMMA GoesOn ==
    ASSUME UiInv, phase = "loop", NEW s, Sound(s), ShownIn(TopOf(s), facts),
           stack' = s, phase' = "loop",
           UNCHANGED <<facts, raw, prefs, prefsFile>>
    PROVE  UiInv'
BY DEF UiInv, UiTypes, Placed, Top, TerminalGivenBack

\* A question is asked where an entry, or a letter, leads deeper.
LEMMA AskFits ==
    ASSUME UiInv, NEW s, Sound(s), ShownIn(TopOf(s), facts), NEW questions, NEW then,
           ThenOK(Depth(TopOf(s).screen), then), Ask(s, questions, then)
    PROVE  UiInv'
<1>1. /\ facts' = facts /\ prefs' = prefs /\ prefsFile' = prefsFile
      /\ stack' = s /\ raw' = FALSE /\ phase' \in {"prompt", "handover"}
      /\ pending' = [questions |-> questions, then |-> then]
  BY DEF Ask
<1>2. pending'.then = then
  BY <1>1
<1> QED
  BY <1>1, <1>2 DEF UiInv, UiTypes, Placed, Top, TerminalGivenBack

\* An entry that the cursor or a digit takes is enabled, and one of the menu.
LEMMA ActivateFits == ASSUME UiInv, NEW i, Activate(i) PROVE UiInv'
<1> DEFINE items == Items(Top)
           frame == [Top EXCEPT !.at = i]
           s == OnTop(stack, frame)
<1>1. phase = "loop" /\ Placed /\ UiTypes /\ raw
  BY DEF Activate, UiInv, TerminalGivenBack
<1>2. Sound(stack) /\ ShownIn(Top, facts) /\ FrameOK(Top) /\ Top = TopOf(stack)
  BY <1>1, SoundFacts DEF Placed, Top
<1>3. Top.screen \in MenuScreens /\ i \in DOMAIN items /\ items[i].enabled
  BY <1>2 DEF Activate, FrameOK
<1>4. FrameOK(frame)
  BY <1>2, <1>3, CursorFits
<1>5. frame.screen = Top.screen /\ frame.saw = Top.saw
  <2>1. PICK f \in Facts, n \in Nat :
           Top = [screen |-> Top.screen, saw |-> Saw(Top.screen, f), at |-> n]
    BY <1>2 DEF FrameOK
  <2> QED
    BY <2>1
<1>6. Sound(s) /\ TopOf(s) = frame
  BY <1>2, <1>4, <1>5, OnTopFits
<1>7. ShownIn(frame, facts)
  BY <1>2, <1>5 DEF ShownIn
<1>8. ThenOK(Depth(Top.screen), items[i].then)
  <2>1. PICK f \in Facts, n \in Nat :
           Top = [screen |-> Top.screen, saw |-> Saw(Top.screen, f), at |-> n]
    BY <1>2 DEF FrameOK
  <2>2. Top.saw = Saw(Top.screen, f)
    BY <2>1
  <2>3. MenuOK(Depth(Top.screen), items)
    BY <1>3, <2>2, ItemsFit
  <2> QED
    BY <1>3, <2>3, MenuFacts
<1>9. PICK questions, then : questions = items[i].questions /\ then = items[i].then
  OBVIOUS
<1>10. \/ Perform(s, then) /\ UNCHANGED <<raw, pending>>
       \/ Ask(s, questions, then)
  BY <1>9 DEF Activate
<1> HIDE DEF frame, s, items
<1>11. ThenOK(Depth(TopOf(s).screen), then)
  BY <1>5, <1>6, <1>8, <1>9
<1>12. CASE Perform(s, then) /\ UNCHANGED <<raw, pending>>
  <2>1. UiTypes' /\ phase' \in {"loop", "closing"} /\ Placed'
    BY <1>1, <1>6, <1>7, <1>11, <1>12, PerformFits
  <2>2. raw' = TRUE
    BY <1>1, <1>12 DEF UiInv
  <2> QED
    BY <2>1, <2>2 DEF UiInv, TerminalGivenBack
<1>13. CASE Ask(s, questions, then)
  BY <1>6, <1>7, <1>11, <1>13, AskFits
<1> QED
  BY <1>10, <1>12, <1>13

\* The arrow keys put the cursor where something is enabled,
LEMMA CursorMoves == UiInv /\ Cursor => UiInv'
<1> SUFFICES ASSUME UiInv, Cursor
             PROVE  UiInv'
  OBVIOUS
<1> DEFINE items == Items(Top)
           enabled == {i \in DOMAIN items : items[i].enabled}
<1>1. phase = "loop" /\ Top.screen \in MenuScreens /\ Sound(stack) /\ ShownIn(Top, facts)
  BY DEF Cursor, UiInv, Placed
<1>2. FrameOK(Top) /\ Top = TopOf(stack)
  BY <1>1, SoundFacts DEF Top
<1>3. PICK f \in Facts, n \in Nat :
         Top = [screen |-> Top.screen, saw |-> Saw(Top.screen, f), at |-> n]
  BY <1>2 DEF FrameOK
<1>4. Top.saw = Saw(Top.screen, f)
  BY <1>3
<1>5. MenuOK(Depth(Top.screen), items)
  BY <1>1, <1>4, ItemsFit
<1>6. Top.at \in DOMAIN items
  BY <1>1, <1>2 DEF FrameOK
<1>7. PICK at \in {Move(items, Top.at, 1), Move(items, Top.at, -1)}
                    \union {i \in enabled : \A j \in enabled : i <= j}
                    \union {i \in enabled : \A j \in enabled : i >= j} :
         stack' = OnTop(stack, [Top EXCEPT !.at = at])
  BY DEF Cursor
<1>8. at \in DOMAIN items /\ items[at].enabled
  <2> HIDE DEF items
  <2>1. /\ Move(items, Top.at, 1) \in DOMAIN items /\ items[Move(items, Top.at, 1)].enabled
        /\ Move(items, Top.at, -1) \in DOMAIN items /\ items[Move(items, Top.at, -1)].enabled
    BY <1>5, <1>6, MoveFits
  <2> QED
    BY <1>7, <2>1
<1> DEFINE frame == [Top EXCEPT !.at = at]
<1>9. FrameOK(frame)
  BY <1>1, <1>2, <1>8, CursorFits
<1>10. frame.screen = Top.screen /\ frame.saw = Top.saw
  BY <1>3
<1>11. stack' = OnTop(stack, frame) /\ phase' = "loop" /\ UNCHANGED <<facts, raw, prefs, prefsFile>>
  BY <1>1, <1>7 DEF Cursor
<1> HIDE DEF frame, items
<1>12. Sound(OnTop(stack, frame)) /\ TopOf(OnTop(stack, frame)) = frame
  BY <1>1, <1>2, <1>9, <1>10, OnTopFits
<1>13. ShownIn(frame, facts)
  BY <1>1, <1>10 DEF ShownIn
<1> QED
  BY <1>1, <1>11, <1>12, <1>13, GoesOn

\* and the page keys put the offset of a list where there are rows.
LEMMA PageMoves == UiInv /\ Page => UiInv'
<1> SUFFICES ASSUME UiInv, Page
             PROVE  UiInv'
  OBVIOUS
<1>1. phase = "loop" /\ Top.screen \in ListScreens /\ Sound(stack) /\ ShownIn(Top, facts)
  BY DEF Page, UiInv, Placed
<1>2. FrameOK(Top) /\ Top = TopOf(stack)
  BY <1>1, SoundFacts DEF Top
<1>3. PICK f \in Facts, n \in Nat :
         Top = [screen |-> Top.screen, saw |-> Saw(Top.screen, f), at |-> n]
  BY <1>2 DEF FrameOK
<1>4. PICK at \in {IF Top.at + PageSize < Total(Top) THEN Top.at + PageSize ELSE Top.at,
                   IF Top.at > PageSize THEN Top.at - PageSize ELSE 0,
                   0, LastPage(Total(Top))} :
         stack' = OnTop(stack, [Top EXCEPT !.at = at])
  BY DEF Page
<1> DEFINE frame == [Top EXCEPT !.at = at]
<1>5. FrameOK(frame)
  BY <1>1, <1>2, <1>4, PageFits
<1>6. frame.screen = Top.screen /\ frame.saw = Top.saw
  BY <1>3
<1>7. stack' = OnTop(stack, frame) /\ phase' = "loop" /\ UNCHANGED <<facts, raw, prefs, prefsFile>>
  BY <1>1, <1>4 DEF Page
<1> HIDE DEF frame
<1>8. Sound(OnTop(stack, frame)) /\ TopOf(OnTop(stack, frame)) = frame
  BY <1>1, <1>2, <1>5, <1>6, OnTopFits
<1>9. ShownIn(frame, facts)
  BY <1>1, <1>6 DEF ShownIn
<1> QED
  BY <1>1, <1>7, <1>8, <1>9, GoesOn

\* The letters of a screen lead deeper like its entries.
LEMMA LetterFits == UiInv /\ Letter => UiInv'
<1> SUFFICES ASSUME UiInv, Letter
             PROVE  UiInv'
  OBVIOUS
<1>1. phase = "loop" /\ Sound(stack) /\ ShownIn(TopOf(stack), facts) /\ UiTypes /\ raw = TRUE
  BY DEF Letter, UiInv, Placed, Top, TerminalGivenBack
<1>2. CASE /\ Top.screen = "scan_result"
           /\ \E screen \in {"advanced_scan", "scan_history"} : Opens(stack, screen)
           /\ UNCHANGED <<raw, pending>>
  <2>1. PICK screen \in {"advanced_scan", "scan_history"} : Opens(stack, screen)
    BY <1>2
  <2>2. Depth("scan_result") = 3 /\ Depth(screen) = 4
    BY SectionNames DEF Depth
  <2> DEFINE then == Open(screen)
  <2>3. then.kind = "open" /\ then.what = screen /\ screen # "default_scan"
    BY DEF Open, Then
  <2>4. ThenOK(Depth(TopOf(stack).screen), then)
    BY <1>2, <2>2, <2>3 DEF ThenOK, Top
  <2>5. Perform(stack, then)
    BY <2>1, <2>3 DEF Perform
  <2> HIDE DEF then
  <2>6. UiTypes' /\ phase' \in {"loop", "closing"} /\ Placed'
    BY <1>1, <2>4, <2>5, PerformFits
  <2> QED
    BY <1>1, <1>2, <2>6 DEF UiInv, TerminalGivenBack
<1>3. CASE Top.screen = "blocks_recent" /\ Ask(stack, <<"value">>, Open("block_detail"))
  <2>1. Depth("blocks_recent") = 3 /\ Depth("block_detail") = 4
    BY SectionNames DEF Depth
  <2>2. ThenOK(Depth(TopOf(stack).screen), Open("block_detail"))
    BY <1>3, <2>1 DEF ThenOK, Open, Then, Top
  <2> QED
    BY <1>1, <1>3, <2>2, AskFits
<1> QED
  BY <1>2, <1>3 DEF Letter

\* A screen that comes to the top, or is read again there, shows what there is.
LEMMA ReloadedFits ==
    ASSUME UiInv, phase = "loop", NEW s, Sound(s), Reloaded(s)
    PROVE  UiInv'
<1> DEFINE frame == Refreshed(TopOf(s), facts)
<1>1. FrameOK(TopOf(s))
  BY SoundFacts
<1>2. FrameOK(frame) /\ frame.screen = TopOf(s).screen /\ ShownIn(frame, facts)
  BY <1>1, RefreshedFits DEF UiInv, UiTypes
<1>3. stack' = OnTop(s, frame) /\ phase' = "loop" /\ UNCHANGED <<facts, raw, prefs, prefsFile>>
  BY DEF Reloaded
<1> HIDE DEF frame
<1>4. Sound(OnTop(s, frame)) /\ TopOf(OnTop(s, frame)) = frame
  BY <1>2, OnTopFits
<1> QED
  BY <1>2, <1>3, <1>4, GoesOn

\* Going back, going home and refreshing keep a part of the stack.
LEMMA ReturnFits == UiInv /\ (Back \/ Home \/ Refresh \/ Tick) => UiInv'
<1> SUFFICES ASSUME UiInv, Back \/ Home \/ Refresh \/ Tick
             PROVE  UiInv'
  OBVIOUS
<1>1. phase = "loop" /\ Sound(stack)
  BY DEF Back, Home, Refresh, Tick, UiInv, Placed
<1>2. PICK n \in 1..4 : Len(stack) = n
  BY <1>1, SoundFacts
<1>3. CASE Back
  <2>1. n > 1 /\ Reloaded(SubSeq(stack, 1, n - 1))
    BY <1>2, <1>3 DEF Back, Below
  <2>2. n - 1 \in 1..Len(stack)
    BY <1>2, <2>1
  <2> QED
    BY <1>1, <2>1, <2>2, PrefixFits, ReloadedFits
<1>4. CASE Home
  <2>1. 1 \in 1..Len(stack)
    BY <1>2
  <2> QED
    BY <1>1, <1>4, <2>1, PrefixFits, ReloadedFits DEF Home
<1>5. CASE Refresh \/ Tick
  BY <1>1, <1>5, ReloadedFits DEF Refresh, Tick
<1> QED
  BY <1>3, <1>4, <1>5

\* While something is asked the screens stay as they are; what the last answer leads to is
\* done where the question was asked.
LEMMA AnswerFits == UiInv /\ (Answer \/ Cancel) => UiInv'
<1> SUFFICES ASSUME UiInv, Answer \/ Cancel
             PROVE  UiInv'
  OBVIOUS
<1>1. /\ phase \in {"prompt", "handover"} /\ Sound(stack) /\ ShownIn(TopOf(stack), facts)
      /\ UiTypes /\ ThenOK(Depth(TopOf(stack).screen), pending.then)
  BY DEF Answer, Cancel, UiInv, Placed, Top
<1>2. CASE Cancel
  BY <1>1, <1>2 DEF Cancel, UiInv, UiTypes, Placed, Top, TerminalGivenBack
<1>3. CASE Answer /\ Len(pending.questions) > 1
  <2>1. /\ pending' = [pending EXCEPT !.questions = Tail(@)]
        /\ UNCHANGED <<facts, phase, raw, stack, prefs, prefsFile>>
    BY <1>3 DEF Answer
  <2>2. pending'.then = pending.then
    BY <2>1
  <2> QED
    BY <1>1, <2>1, <2>2 DEF UiInv, UiTypes, Placed, Top, TerminalGivenBack
<1>4. CASE Answer /\ ~(Len(pending.questions) > 1)
  <2>1. Perform(stack, pending.then) /\ raw' = TRUE
    BY <1>4 DEF Answer
  <2>2. UiTypes' /\ phase' \in {"loop", "closing"} /\ Placed'
    BY <1>1, <2>1, PerformFits
  <2> QED
    BY <2>1, <2>2 DEF UiInv, TerminalGivenBack
<1> QED
  BY <1>2, <1>3, <1>4

\* Nobody else changes the configuration of this process.
LEMMA OthersFit == UiInv /\ Others => UiInv'
<1> SUFFICES ASSUME UiInv, Others
             PROVE  UiInv'
  OBVIOUS
<1>1. facts' \in Facts /\ \A x \in OwnFacts : facts'[x] = facts[x]
  <2>1. facts \in Facts
    BY DEF UiInv, UiTypes
  <2>2. CASE \E x \in {"running", "emergency"} : facts' = [facts EXCEPT ![x] = ~@]
    BY <2>1, <2>2 DEF Facts, OwnFacts
  <2>3. CASE \E x \in Lists, n \in Rows : facts' = [facts EXCEPT ![x] = n]
    BY <2>1, <2>3 DEF Facts, OwnFacts, Lists
  <2> QED
    BY <2>2, <2>3 DEF Others
<1>2. UNCHANGED <<phase, raw, stack, prefs, prefsFile, pending>>
  BY DEF Others, uiVars
<1>3. Placed => Placed'
  BY <1>1, <1>2 DEF Placed, ShownIn, Top
<1> QED
  BY <1>1, <1>2, <1>3 DEF UiInv, UiTypes, Top, TerminalGivenBack

\* Every step of the interface, and of the others, keeps the invariant.
LEMMA UiKept == UiInv /\ [InterfaceNext]_interfaceVars => UiInv'
<1> SUFFICES ASSUME UiInv, [InterfaceNext]_interfaceVars
             PROVE  UiInv'
  OBVIOUS
<1>1. CASE Key
  <2>1. CASE \E i \in 1..Len(Sections) + 2 : Activate(i)
    BY <2>1, ActivateFits
  <2> QED
    BY <1>1, <2>1, CursorMoves, PageMoves, LetterFits, ReturnFits, AnswerFits, ComesAndGoes DEF Key
<1>2. CASE UNCHANGED interfaceVars
  BY <1>2 DEF interfaceVars, uiVars, UiInv, UiTypes, Placed, Top, TerminalGivenBack
<1> QED
  BY <1>1, <1>2, ComesAndGoes, ReturnFits, OthersFit DEF InterfaceNext

\* The invariant says what the user can rely on.
LEMMA UiSuffices == UiInv => NavigationSound /\ OwnSettingsShown
<1> SUFFICES ASSUME UiInv
             PROVE  NavigationSound /\ OwnSettingsShown
  OBVIOUS
<1>1. phase \in {"loop", "prompt", "handover"} => stack # <<>>
  BY DEF UiInv, Placed, Sound
<1>2. InterfaceTypeOK /\ TerminalGivenBack
  BY <1>1 DEF UiInv, UiTypes, InterfaceTypeOK
<1>3. ASSUME phase \in {"loop", "prompt", "handover"}
      PROVE  /\ stack[1].screen = "dashboard"
             /\ Len(stack) < MaxDepth
             /\ \A i, j \in DOMAIN stack : stack[i].screen = stack[j].screen => i = j
             /\ Top.screen \in MenuScreens => Items(Top)[Top.at].enabled
             /\ Top.screen \in ListScreens =>
                   Top.at % PageSize = 0 /\ (Top.at = 0 \/ Top.at < Total(Top))
  <2>1. Sound(stack)
    BY <1>3 DEF UiInv, Placed
  <2>2. /\ FrameOK(Top)
        /\ \A i, j \in DOMAIN stack : stack[i].screen = stack[j].screen => i = j
    BY <2>1, SoundFacts DEF Top
  <2>3. PICK n \in 1..4 : Len(stack) = n
    BY <2>1, SoundFacts
  <2>4. Len(stack) < MaxDepth
    BY <2>3, InterfaceAssumption
  <2>5. stack[1].screen = "dashboard"
    BY <2>1 DEF Sound
  <2> QED
    BY <2>2, <2>4, <2>5 DEF FrameOK
<1>4. OwnSettingsShown
  BY DEF UiInv, Placed, ShownIn, OwnSettingsShown
<1> QED
  BY <1>2, <1>3, <1>4 DEF NavigationSound

\* Whatever keys are pressed and whatever other processes change meanwhile, the user is
\* somewhere in the interface: the dashboard is at the bottom, no screen covers itself, the
\* limit of the stack is never reached, the cursor is on an entry that is enabled and a page
\* has rows (ScreenStack, Menu, Pager, _suspend).
THEOREM NavigationIsSound == InterfaceSpec => []NavigationSound
<1>1. InterfaceSpec => []UiInv
  BY UiStarts, UiKept, PTL DEF InterfaceSpec
<1> QED
  BY <1>1, UiSuffices, PTL

\* What the top screen says of the configuration of this process is what the process has.
THEOREM OwnSettingsAreShown == InterfaceSpec => []OwnSettingsShown
<1>1. InterfaceSpec => []UiInv
  BY UiStarts, UiKept, PTL DEF InterfaceSpec
<1> QED
  BY <1>1, UiSuffices, PTL

--------------------------------------------------------------------------------
(* The cursor under a refresh by the timer.                                   *)

\* What KeepsAim asks of the entry before, the entry after and the new menu, built from `s`.
Kept(before, after, items, s) ==
    \/ after.key = before.key
    \/ /\ ~Usable(before.key, items)
       /\ Unasked(after) => before.key = "active" /\ s.emergency

\* Where the cursor goes that was on an entry with this key.
Goes(items, key) == OnEnabled(items, Position(items, key))

\* The next entry, if that one is enabled.
LEMMA NextEnabled ==
    ASSUME NEW items, NEW n \in Nat, Len(items) = n, NEW at \in 1..n, at < n,
           items[at + 1].enabled
    PROVE  Move(items, at, 1) = at + 1
<1> DEFINE Steps(i) == ((at - 1 + 1 * i) % n) + 1
           reached == {i \in 1..n : items[Steps(i)].enabled}
<1>1. at % n = at
  OBVIOUS
<1>2. Steps(1) = at + 1
  BY <1>1
<1>3. 1 \in reached
  BY <1>2
<1>4. \A j \in reached : 1 <= j
  OBVIOUS
<1>5. PICK i : i = CHOOSE k \in reached : \A j \in reached : k <= j
  OBVIOUS
<1>6. i \in reached /\ i <= 1
  BY <1>3, <1>4, <1>5
<1>7. i = 1
  BY <1>4, <1>6
<1>8. Move(items, at, 1) = Steps(i)
  BY <1>3, <1>5 DEF Move
<1> QED
  BY <1>2, <1>7, <1>8

\* An entry whose key no other has is found again.
LEMMA FoundAgain ==
    ASSUME NEW items, NEW p \in DOMAIN items,
           \A i \in DOMAIN items : items[i].key = items[p].key => i = p
    PROVE  Position(items, items[p].key) = p
BY DEF Position

\* In a menu without two entries of the same key the cursor stays, or goes on to the next
\* entry.
LEMMA StaysOrGoesOn ==
    ASSUME NEW items, NEW n \in Nat, Len(items) = n, DOMAIN items = 1..n, NEW p \in 1..n,
           NEW before, before.key = items[p].key, NEW s,
           \A i, j \in 1..n : items[i].key = items[j].key => i = j,
           ~items[p].enabled => \/ /\ p < n /\ items[p + 1].enabled
                                   /\ ~Unasked(items[p + 1])
                                \/ before.key = "active" /\ s.emergency
    PROVE  Kept(before, items[Goes(items, before.key)], items, s)
<1>1. Position(items, before.key) = p
  BY FoundAgain
<1>2. CASE items[p].enabled
  <2>1. Goes(items, before.key) = p
    BY <1>1, <1>2 DEF Goes, OnEnabled
  <2> QED
    BY <2>1 DEF Kept
<1>3. CASE ~items[p].enabled
  <2>1. ~Usable(before.key, items)
    BY <1>3 DEF Usable
  <2>2. CASE before.key = "active" /\ s.emergency
    BY <2>1, <2>2 DEF Kept
  <2>3. CASE p < n /\ items[p + 1].enabled /\ ~Unasked(items[p + 1])
    <3>1. Move(items, p, 1) = p + 1
      BY <2>3, NextEnabled
    <3>2. Goes(items, before.key) = p + 1
      BY <1>1, <1>3, <3>1 DEF Goes, OnEnabled
    <3> QED
      BY <2>1, <2>3, <3>2 DEF Kept
  <2> QED
    BY <1>3, <2>2, <2>3
<1> QED
  BY <1>2, <1>3

\* The daemon section: what starting and stopping disables is followed by what asks first.
LEMMA DaemonAims ==
    ASSUME NEW old, NEW new, new.running \in BOOLEAN, NEW at \in DOMAIN DaemonMenu(old)
    PROVE  Kept(DaemonMenu(old)[at],
                DaemonMenu(new)[Goes(DaemonMenu(new), DaemonMenu(old)[at].key)],
                DaemonMenu(new), new)
<1> DEFINE items == DaemonMenu(new)
<1>1. /\ Len(items) = 6 /\ DOMAIN items = 1..6
      /\ items[1].key = "status" /\ items[2].key = "start" /\ items[3].key = "stop"
      /\ items[4].key = "restart" /\ items[5].key = "health" /\ items[6].key = "metrics"
  BY DEF DaemonMenu, Entry, Always
<1>2. /\ items[1].enabled /\ items[4].enabled /\ items[6].enabled
      /\ items[2].enabled = ~new.running
      /\ items[3].enabled = new.running /\ items[5].enabled = new.running
  BY DEF DaemonMenu, Entry, Always
<1>3. ~Unasked(items[3]) /\ ~Unasked(items[4]) /\ ~Unasked(items[6])
  BY DEF DaemonMenu, Entry, Always, Unasked, Open, Run, Then
<1>4. at \in 1..6 /\ DaemonMenu(old)[at].key = items[at].key
  <2>1. DOMAIN DaemonMenu(old) = 1..6
    BY DEF DaemonMenu
  <2>2. /\ DaemonMenu(old)[1].key = "status" /\ DaemonMenu(old)[2].key = "start"
        /\ DaemonMenu(old)[3].key = "stop" /\ DaemonMenu(old)[4].key = "restart"
        /\ DaemonMenu(old)[5].key = "health" /\ DaemonMenu(old)[6].key = "metrics"
    BY DEF DaemonMenu, Entry, Always
  <2> HIDE DEF items
  <2> QED
    BY <1>1, <2>1, <2>2
<1> HIDE DEF items
<1>5. \A i, j \in 1..6 : items[i].key = items[j].key => i = j
  BY <1>1
<1>6. ASSUME ~items[at].enabled
      PROVE  at < 6 /\ items[at + 1].enabled /\ ~Unasked(items[at + 1])
  <2>1. at \in {2, 3, 5}
    <3>1. at # 1 /\ at # 4 /\ at # 6
      BY <1>2, <1>6
    <3> QED
      BY <1>4, <3>1
  <2>2. CASE at = 2
    <3>1. ~items[2].enabled
      BY <1>6, <2>2
    <3>2. items[3].enabled
      BY <1>2, <3>1
    <3> QED
      BY <1>3, <2>2, <3>2
  <2>3. CASE at = 3
    BY <1>2, <1>3, <2>3
  <2>4. CASE at = 5
    BY <1>2, <1>3, <2>4
  <2> QED
    BY <2>1, <2>2, <2>3, <2>4
<1>7. Kept(DaemonMenu(old)[at], items[Goes(items, DaemonMenu(old)[at].key)], items, new)
  BY <1>1, <1>4, <1>5, <1>6, StaysOrGoesOn
<1> QED
  BY <1>7 DEF items

\* The screening section: what this process has disabled was so before, and of what others
\* disable, "health" is followed by what only opens and "active" is the exception.
LEMMA ScreeningAims ==
    ASSUME NEW old, NEW new, new.running \in BOOLEAN, new.active \in BOOLEAN,
           new.emergency \in BOOLEAN, new.enabled \in BOOLEAN,
           old.active = new.active, old.enabled = new.enabled,
           NEW at \in DOMAIN ScreeningMenu(old), ScreeningMenu(old)[at].enabled
    PROVE  Kept(ScreeningMenu(old)[at],
                ScreeningMenu(new)[Goes(ScreeningMenu(new), ScreeningMenu(old)[at].key)],
                ScreeningMenu(new), new)
<1> DEFINE items == ScreeningMenu(new)
           before == ScreeningMenu(old)
<1>1. /\ Len(items) = 7 /\ DOMAIN items = 1..7
      /\ items[1].key = "status" /\ items[2].key = "health" /\ items[3].key = "metrics"
      /\ items[4].key = "dry_run" /\ items[5].key = "active" /\ items[6].key = "enable"
      /\ items[7].key = "disable"
  BY DEF ScreeningMenu, Entry, Always
<1>2. /\ items[1].enabled /\ items[3].enabled
      /\ items[4].enabled = new.active /\ items[5].enabled = ~new.emergency
      /\ items[6].enabled = ~new.enabled /\ items[7].enabled = new.enabled
  BY DEF ScreeningMenu, Entry, Always
<1>3. ~Unasked(items[3])
  BY DEF ScreeningMenu, Entry, Always, Unasked, Open, Then
<1>4. at \in 1..7 /\ before[at].key = items[at].key
  <2>1. DOMAIN before = 1..7
    BY DEF ScreeningMenu
  <2>2. /\ before[1].key = "status" /\ before[2].key = "health"
        /\ before[3].key = "metrics" /\ before[4].key = "dry_run"
        /\ before[5].key = "active" /\ before[6].key = "enable"
        /\ before[7].key = "disable"
    BY DEF ScreeningMenu, Entry, Always
  <2> HIDE DEF items, before
  <2>3. at \in 1..7
    BY <2>1 DEF before
  <2> QED
    BY <1>1, <2>2, <2>3
<1>5. /\ before[4].enabled = old.active /\ before[6].enabled = ~old.enabled
      /\ before[7].enabled = old.enabled
  BY DEF ScreeningMenu, Entry, Always
<1>6. before[at].enabled
  OBVIOUS
<1> HIDE DEF items, before
<1>7. \A i, j \in 1..7 : items[i].key = items[j].key => i = j
  BY <1>1
<1>8. ASSUME ~items[at].enabled
      PROVE  \/ at < 7 /\ items[at + 1].enabled /\ ~Unasked(items[at + 1])
             \/ before[at].key = "active" /\ new.emergency
  <2>1. at \in {2, 5}
    <3>1. at # 1 /\ at # 3
      BY <1>2, <1>8
    <3>2. at # 4
      BY <1>2, <1>5, <1>6, <1>8
    <3>3. at # 6
      BY <1>2, <1>5, <1>6, <1>8
    <3>4. at # 7
      BY <1>2, <1>5, <1>6, <1>8
    <3> QED
      BY <1>4, <3>1, <3>2, <3>3, <3>4
  <2>2. CASE at = 2
    BY <1>2, <1>3, <2>2
  <2>3. CASE at = 5
    <3>1. before[at].key = "active"
      BY <1>1, <1>4, <2>3
    <3>2. new.emergency
      BY <1>2, <1>8, <2>3
    <3> QED
      BY <3>1, <3>2
  <2> QED
    BY <2>1, <2>2, <2>3
<1>9. Kept(before[at], items[Goes(items, before[at].key)], items, new)
  BY <1>1, <1>4, <1>7, <1>8, StaysOrGoesOn
<1> QED
  BY <1>9 DEF items, before

\* What is in a concatenation.
Elements(st, s, t) ==
    /\ \A i \in DOMAIN st : \/ \E j \in DOMAIN s : st[i] = s[j]
                            \/ \E j \in DOMAIN t : st[i] = t[j]
    /\ \A j \in DOMAIN s : \E i \in DOMAIN st : st[i] = s[j]
    /\ \A j \in DOMAIN t : \E i \in DOMAIN st : st[i] = t[j]
    /\ DOMAIN t # {} => 1 \in DOMAIN st
    /\ s = <<>> /\ DOMAIN t # {} => st[1] = t[1]

LEMMA ConcatElements ==
    ASSUME NEW S, NEW s \in Seq(S), NEW t \in Seq(S)
    PROVE  Elements(s \o t, s, t)
<1> DEFINE st == s \o t
<1>1. PICK m \in Nat : m = Len(s) /\ DOMAIN s = 1..m
  BY LenProperties
<1>2. PICK n \in Nat : n = Len(t) /\ DOMAIN t = 1..n
  BY LenProperties
<1>3. /\ st \in Seq(S) /\ Len(st) = m + n
      /\ \A i \in 1..(m + n) : st[i] = IF i <= m THEN s[i] ELSE t[i - m]
  BY ConcatProperties, <1>1, <1>2
<1>4. DOMAIN st = 1..(m + n)
  BY <1>3, LenProperties
<1> HIDE DEF st
<1>5. \A i \in 1..(m + n) : i <= m => i \in 1..m
  OBVIOUS
<1>6. \A i \in 1..(m + n) : ~(i <= m) => i - m \in 1..n
  OBVIOUS
<1>7. \A j \in 1..m : j \in 1..(m + n) /\ j <= m
  OBVIOUS
<1>8. \A j \in 1..n : j + m \in 1..(m + n) /\ ~(j + m <= m) /\ (j + m) - m = j
  OBVIOUS
<1>9. \A i \in DOMAIN st : \/ \E j \in DOMAIN s : st[i] = s[j]
                           \/ \E j \in DOMAIN t : st[i] = t[j]
  BY <1>1, <1>2, <1>3, <1>4, <1>5, <1>6, Zenon
<1>10. \A j \in DOMAIN s : \E i \in DOMAIN st : st[i] = s[j]
  BY <1>1, <1>3, <1>4, <1>7, Zenon
<1>11. \A j \in DOMAIN t : \E i \in DOMAIN st : st[i] = t[j]
  BY <1>2, <1>3, <1>4, <1>8, Zenon
<1>12. ASSUME DOMAIN t # {}
       PROVE  1 \in DOMAIN st /\ (s = <<>> => st[1] = t[1])
  <2>1. n # 0
    BY <1>2, <1>12
  <2>2. 1 \in 1..(m + n)
    BY <2>1
  <2>3. s = <<>> => m = 0
    BY <1>1
  <2>4. 1 \in DOMAIN st
    BY <1>4, <2>2
  <2>5. ASSUME s = <<>>
        PROVE  st[1] = t[1]
    <3>1. m = 0
      BY <2>3, <2>5
    <3>2. 1 > m /\ 1 - m = 1
      BY <3>1
    <3>3. st[1] = IF 1 <= m THEN s[1] ELSE t[1 - m]
      BY <1>3, <2>2, Zenon
    <3>4. ~(1 <= m)
      BY <3>1
    <3> QED
      BY <3>2, <3>3, <3>4, Zenon
  <2> QED
    BY <2>4, <2>5
<1>13. Elements(st, s, t)
  BY <1>9, <1>10, <1>11, <1>12, Zenon DEF Elements
<1> QED
  BY <1>13 DEF st

\* What the dashboard offers: everything is enabled; only the entry that starts the daemon
\* comes and goes, and where it is not, the first entry opens a section.
OnDashboard(items, running) ==
    /\ \A i \in DOMAIN items :
          \/ items[i] = Always("start_daemon", Run("start")) /\ ~running
          \/ items[i] = Always("exit", Then("quit", "all"))
          \/ \E j \in 1..14 : items[i] = Always(Sections[j], Open(Sections[j]))
    /\ ~running => \E i \in DOMAIN items : items[i] = Always("start_daemon", Run("start"))
    /\ \E i \in DOMAIN items : items[i] = Always("exit", Then("quit", "all"))
    /\ \A j \in 1..14 :
          \E i \in DOMAIN items : items[i] = Always(Sections[j], Open(Sections[j]))
    /\ 1 \in DOMAIN items
    /\ running => items[1] = Always(Sections[1], Open(Sections[1]))

LEMMA DashboardEntries ==
    ASSUME NEW s, s.running \in BOOLEAN
    PROVE  OnDashboard(DashboardMenu(s), s.running)
<1> DEFINE first == Always("start_daemon", Run("start"))
           last == Always("exit", Then("quit", "all"))
           start == IF s.running THEN <<>> ELSE <<first>>
           middle == [i \in DOMAIN Sections |-> Always(Sections[i], Open(Sections[i]))]
           exit == <<last>>
           T == {first, last} \union {Always(Sections[i], Open(Sections[i])) : i \in 1..14}
           most == start \o middle
           items == most \o exit
<1>1. first \in T /\ last \in T
  OBVIOUS
<1>2. DashboardMenu(s) = items
  BY DEF DashboardMenu
<1>3. /\ middle \in Seq(T) /\ DOMAIN middle = 1..14
      /\ \A i \in 1..14 : middle[i] = Always(Sections[i], Open(Sections[i]))
  <2>1. DOMAIN Sections = 1..14
    BY SectionNames
  <2>2. \A i \in 1..14 : Always(Sections[i], Open(Sections[i])) \in T
    OBVIOUS
  <2> HIDE DEF T
  <2>3. 14 \in Nat
    OBVIOUS
  <2> QED
    BY <2>1, <2>2, <2>3
<1> HIDE DEF first, last, T, middle
<1>4. /\ start \in Seq(T)
      /\ s.running => start = <<>> /\ DOMAIN start = {}
      /\ ~s.running => DOMAIN start = {1} /\ start[1] = first
  BY <1>1
<1>5. exit \in Seq(T) /\ DOMAIN exit = {1} /\ exit[1] = last
  BY <1>1
<1> HIDE DEF start, exit
<1>6. most \in Seq(T)
  BY <1>3, <1>4, ConcatProperties
<1>7. Elements(most, start, middle)
  BY <1>3, <1>4, ConcatElements
<1>8. 1 \in DOMAIN middle /\ DOMAIN middle # {}
  BY <1>3
<1> HIDE DEF most
<1>9. Elements(items, most, exit)
  BY <1>5, <1>6, ConcatElements
<1>10. items[1] = most[1]
  <2>1. PICK m \in Nat : m = Len(most) /\ DOMAIN most = 1..m
    BY <1>6, LenProperties
  <2>2. 1 \in 1..m
    BY <1>7, <1>8, <2>1, Zenon DEF Elements
  <2>3. PICK n \in Nat : n = Len(exit)
    BY <1>5, LenProperties
  <2>4. \A i \in 1..(m + n) : items[i] = IF i <= m THEN most[i] ELSE exit[i - m]
    BY <1>5, <1>6, <2>1, <2>3, ConcatProperties
  <2>5. 1 <= m /\ 1 \in 1..(m + n)
    BY <2>2
  <2> HIDE DEF items
  <2> QED
    BY <2>4, <2>5, Zenon
<1> HIDE DEF items
<1>11. \A i \in DOMAIN items :
          \/ items[i] = first /\ ~s.running
          \/ items[i] = last
          \/ \E j \in 1..14 : items[i] = Always(Sections[j], Open(Sections[j]))
  <2> TAKE i \in DOMAIN items
  <2>1. CASE \E j \in DOMAIN exit : items[i] = exit[j]
    BY <1>5, <2>1
  <2>2. CASE \E j \in DOMAIN most : items[i] = most[j]
    <3>1. PICK j \in DOMAIN most : items[i] = most[j]
      BY <2>2
    <3>2. CASE \E k \in DOMAIN start : most[j] = start[k]
      BY <1>4, <3>1, <3>2
    <3>3. CASE \E k \in DOMAIN middle : most[j] = middle[k]
      BY <1>3, <3>1, <3>3, Zenon
    <3> QED
      BY <1>7, <3>2, <3>3 DEF Elements
  <2> QED
    BY <1>9, <2>1, <2>2 DEF Elements
<1>12. ~s.running => \E i \in DOMAIN items : items[i] = first
  <2> SUFFICES ASSUME ~s.running
               PROVE  \E i \in DOMAIN items : items[i] = first
    OBVIOUS
  <2>1. PICK j \in DOMAIN most : most[j] = first
    BY <1>4, <1>7 DEF Elements
  <2> QED
    BY <1>9, <2>1 DEF Elements
<1>13. \E i \in DOMAIN items : items[i] = last
  BY <1>5, <1>9 DEF Elements
<1>14. \A j \in 1..14 : \E i \in DOMAIN items : items[i] = Always(Sections[j], Open(Sections[j]))
  <2> TAKE j \in 1..14
  <2>1. PICK k \in DOMAIN most : most[k] = middle[j]
    BY <1>3, <1>7 DEF Elements
  <2>2. PICK i \in DOMAIN items : items[i] = most[k]
    BY <1>9 DEF Elements
  <2> QED
    BY <1>3, <2>1, <2>2, Zenon
<1>15. 1 \in DOMAIN items
  BY <1>5, <1>9 DEF Elements
<1>16. s.running => items[1] = Always(Sections[1], Open(Sections[1]))
  BY <1>3, <1>4, <1>7, <1>8, <1>10, Zenon DEF Elements
<1>17. OnDashboard(items, s.running)
  BY <1>11, <1>12, <1>13, <1>14, <1>15, <1>16, Zenon DEF OnDashboard, first, last
<1> QED
  BY <1>2, <1>17

\* The dashboard: only the entry that starts the daemon goes, and what is first then opens
\* a section.
LEMMA DashboardAims ==
    ASSUME NEW old, old.running \in BOOLEAN, NEW new, new.running \in BOOLEAN,
           NEW at \in DOMAIN DashboardMenu(old)
    PROVE  Kept(DashboardMenu(old)[at],
                DashboardMenu(new)[Goes(DashboardMenu(new), DashboardMenu(old)[at].key)],
                DashboardMenu(new), new)
<1> DEFINE items == DashboardMenu(new)
           before == DashboardMenu(old)
           key == before[at].key
<1>1. OnDashboard(items, new.running) /\ OnDashboard(before, old.running)
  BY DashboardEntries
<1>2. at \in DOMAIN before
  OBVIOUS
<1> HIDE DEF items, before
<1>3. \A i \in DOMAIN items : items[i].enabled
  BY <1>1 DEF OnDashboard, Always, Entry
<1>4. \/ \E i \in DOMAIN items : items[i].key = key
      \/ new.running
  <2>1. CASE before[at] = Always("start_daemon", Run("start"))
    <3>1. ~new.running => \E i \in DOMAIN items : items[i] = before[at]
      BY <1>1, <2>1, Zenon DEF OnDashboard
    <3> QED
      BY <3>1
  <2>2. CASE before[at] = Always("exit", Then("quit", "all"))
    <3>1. \E i \in DOMAIN items : items[i] = before[at]
      BY <1>1, <2>2, Zenon DEF OnDashboard
    <3> QED
      BY <3>1
  <2>3. CASE \E j \in 1..14 : before[at] = Always(Sections[j], Open(Sections[j]))
    <3>1. PICK j \in 1..14 : before[at] = Always(Sections[j], Open(Sections[j]))
      BY <2>3
    <3>2. \E i \in DOMAIN items : items[i] = before[at]
      BY <1>1, <3>1, ZenonT(60) DEF OnDashboard
    <3> QED
      BY <3>2
  <2> QED
    BY <1>1, <1>2, <2>1, <2>2, <2>3 DEF OnDashboard
<1> HIDE DEF key
<1>5. CASE \E i \in DOMAIN items : items[i].key = key
  <2> DEFINE p == Position(items, key)
  <2>1. p \in DOMAIN items /\ items[p].key = key
    BY <1>5 DEF Position
  <2>2. Goes(items, key) = p
    BY <1>3, <2>1 DEF Goes, OnEnabled
  <2>3. items[Goes(items, key)].key = key
    BY <2>1, <2>2
  <2> HIDE DEF p
  <2>4. Kept(before[at], items[Goes(items, key)], items, new)
    BY <2>3 DEF Kept, key
  <2> QED
    BY <2>4 DEF items, before, key
<1>6. CASE ~\E i \in DOMAIN items : items[i].key = key
  <2>1. new.running /\ 1 \in DOMAIN items
    BY <1>1, <1>4, <1>6 DEF OnDashboard
  <2>2. Position(items, key) = 1
    BY <1>6 DEF Position
  <2>3. Goes(items, key) = 1
    BY <1>3, <2>1, <2>2 DEF Goes, OnEnabled
  <2>4. items[1] = Always(Sections[1], Open(Sections[1]))
    BY <1>1, <2>1 DEF OnDashboard
  <2>5. ~Unasked(items[1])
    BY <2>4 DEF Unasked, Always, Entry, Open, Then
  <2>6. ~Usable(key, items)
    BY <1>6 DEF Usable
  <2>7. Kept(before[at], items[Goes(items, key)], items, new)
    BY <2>3, <2>5, <2>6 DEF Kept, key
  <2> QED
    BY <2>7 DEF items, before, key
<1> QED
  BY <1>5, <1>6

\* What a menu screen is after a refresh.
LEMMA RefreshedMenu ==
    ASSUME NEW frame, FrameOK(frame), NEW f, frame.screen \in MenuScreens
    PROVE  LET s == Saw(frame.screen, f)
               items == Menu(frame.screen, s)
           IN  Refreshed(frame, f) =
                   [screen |-> frame.screen, saw |-> s, at |-> Goes(items, Aim(frame).key)]
<1> DEFINE screen == frame.screen
           s == Saw(screen, f)
           items == Menu(screen, s)
           key == Items(frame)[frame.at].key
           fresh == [screen |-> screen, saw |-> s, at |-> frame.at]
<1>1. [frame EXCEPT !.saw = Saw(frame.screen, f)] = fresh
  BY DEF FrameOK
<1>2. /\ Items(fresh) = items
      /\ \A x : [fresh EXCEPT !.at = x] = [screen |-> screen, saw |-> s, at |-> x]
  BY DEF Items
<1>3. Rebuilt(frame, fresh) = [screen |-> screen, saw |-> s, at |-> Goes(items, key)]
  BY <1>2 DEF Rebuilt, Goes
<1>4. Refreshed(frame, f) = Rebuilt(frame, fresh)
  BY <1>1 DEF Refreshed
<1> QED
  BY <1>3, <1>4 DEF Aim

\* The live screens with a menu are the dashboard, screening and the daemon section.
LEMMA LiveMenus ==
    /\ LiveScreens \intersect MenuScreens = {"dashboard", "screening", "daemon"}
    /\ \A s : /\ Menu("dashboard", s) = DashboardMenu(s)
              /\ Menu("screening", s) = ScreeningMenu(s)
              /\ Menu("daemon", s) = DaemonMenu(s)
BY DEF LiveScreens, MenuScreens, Choices, Menu

\* A refresh of one of them keeps what Enter aims at.
LEMMA RefreshAims ==
    ASSUME NEW frame, FrameOK(frame), frame.screen \in LiveScreens \intersect MenuScreens,
           NEW f \in Facts, ShownIn(frame, f)
    PROVE  KeepsAim(frame, Refreshed(frame, f))
<1> DEFINE screen == frame.screen
           old == frame.saw
           new == Saw(screen, f)
           at == frame.at
           items == Menu(screen, new)
           before == Menu(screen, old)
           to == Goes(items, before[at].key)
           result == [screen |-> screen, saw |-> new, at |-> to]
<1>1. Refreshed(frame, f) = result
  <2>1. Aim(frame).key = before[at].key
    BY DEF Aim, Items
  <2> QED
    BY <2>1, RefreshedMenu
<1>2. PICK g \in Facts : old = Saw(screen, g)
  BY DEF FrameOK
<1>3. at \in DOMAIN before /\ before[at].enabled
  BY DEF FrameOK, Items
<1>4. screen \in {"dashboard", "screening", "daemon"}
  BY LiveMenus
<1>5. \A h \in Facts : /\ h.running \in BOOLEAN /\ h.emergency \in BOOLEAN
                       /\ h.enabled \in BOOLEAN /\ h.active \in BOOLEAN
  BY DEF Facts
<1>6. /\ "running" \in Reads(screen)
      /\ screen # "daemon" => {"emergency", "enabled", "active"} \subseteq Reads(screen)
  BY <1>4, ReadsOf
<1>7. /\ new.running \in BOOLEAN /\ old.running \in BOOLEAN
      /\ screen # "daemon" => /\ new.emergency \in BOOLEAN /\ new.enabled \in BOOLEAN
                              /\ new.active \in BOOLEAN
                              /\ old.enabled = new.enabled /\ old.active = new.active
  <2>1. new.running = f.running /\ old.running = g.running
    BY <1>2, <1>6 DEF Saw
  <2>2. ASSUME screen # "daemon"
        PROVE  /\ new.emergency = f.emergency /\ new.enabled = f.enabled
               /\ new.active = f.active
               /\ old.enabled = f.enabled /\ old.active = f.active
    <3>1. /\ new.emergency = f.emergency /\ new.enabled = f.enabled
          /\ new.active = f.active
      BY <1>6, <2>2 DEF Saw
    <3>2. old.enabled = f.enabled /\ old.active = f.active
      BY <1>6, <2>2 DEF ShownIn, OwnFacts
    <3> QED
      BY <3>1, <3>2
  <2> QED
    BY <1>5, <2>1, <2>2
<1>8. Kept(before[at], items[to], items, new)
  <2>1. CASE screen = "dashboard"
    <3>1. before = DashboardMenu(old) /\ items = DashboardMenu(new)
      BY <2>1, LiveMenus
    <3> HIDE DEF before, items, old, new
    <3> QED
      BY <1>3, <1>7, <3>1, DashboardAims
  <2>2. CASE screen = "screening"
    <3>1. before = ScreeningMenu(old) /\ items = ScreeningMenu(new)
      BY <2>2, LiveMenus
    <3> HIDE DEF before, items, old, new
    <3> QED
      BY <1>3, <1>7, <2>2, <3>1, ScreeningAims
  <2>3. CASE screen = "daemon"
    <3>1. before = DaemonMenu(old) /\ items = DaemonMenu(new)
      BY <2>3, LiveMenus
    <3> HIDE DEF before, items, old, new
    <3> QED
      BY <1>3, <1>7, <3>1, DaemonAims
  <2> QED
    BY <1>4, <2>1, <2>2, <2>3
<1>9. Items(result) = items /\ Aim(result) = items[to] /\ result.saw = new
  BY DEF Items, Aim
<1>10. Aim(frame) = before[at]
  BY DEF Aim, Items
<1> HIDE DEF result, items, before, to, new
<1>11. KeepsAim(frame, result)
  BY <1>8, <1>9, <1>10 DEF KeepsAim, Kept
<1> QED
  BY <1>1, <1>11

\* A refresh by the timer never moves the cursor off an entry that can still be chosen, and
\* never onto a task that runs unasked, but for the exception of the emergency marker: Enter
\* pressed while the screen changes does what was aimed at, or asks (Menu.replace, run).
THEOREM AimIsKept == InterfaceSpec => RefreshKeepsAim
<1>1. ASSUME UiInv, Tick, Top.screen \in MenuScreens
      PROVE  KeepsAim(Top, Top')
  <2> DEFINE frame == Refreshed(Top, facts)
  <2>1. /\ Sound(stack) /\ ShownIn(Top, facts) /\ facts \in Facts
        /\ Top.screen \in LiveScreens
        /\ stack' = OnTop(stack, frame)
    BY <1>1 DEF Tick, UiInv, UiTypes, Placed, Reloaded, Top
  <2>2. FrameOK(Top)
    BY <2>1, SoundFacts DEF Top
  <2>3. FrameOK(frame) /\ frame.screen = TopOf(stack).screen
    BY <2>1, <2>2, RefreshedFits DEF Top
  <2>4. KeepsAim(Top, frame)
    BY <1>1, <2>1, <2>2, RefreshAims
  <2> HIDE DEF frame
  <2>5. TopOf(OnTop(stack, frame)) = frame
    BY <2>1, <2>3, OnTopFits
  <2>6. Top' = frame
    BY <2>1, <2>5 DEF Top
  <2> QED
    BY <2>4, <2>6
<1>2. InterfaceSpec => []UiInv
  BY UiStarts, UiKept, PTL DEF InterfaceSpec
<1>3. UiInv /\ [InterfaceNext]_interfaceVars
          => [Tick /\ Top.screen \in MenuScreens => KeepsAim(Top, Top')]_interfaceVars
  BY <1>1
<1> QED
  BY <1>2, <1>3, PTL DEF InterfaceSpec, RefreshKeepsAim

================================================================================
