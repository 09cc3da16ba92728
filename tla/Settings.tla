------------------------------- MODULE Settings -------------------------------
(* The configuration file and the emergency marker, and everybody who reads   *)
(* and writes them: commands, which load the file, carry out one task and     *)
(* end; interfaces, which load it once and carry out tasks for hours with     *)
(* what they loaded; the daemon, which loads it again when asked; and the     *)
(* user's editor.                                                             *)
(* callshield/config.py, callshield/cli.py, callshield/policy/engine.py,      *)
(* callshield/ui/state/backend.py, callshield/ui/screens/screening.py,        *)
(* callshield/ui/screens/policy.py, callshield/daemon/service.py.             *)
(*                                                                            *)
(* The file is replaced as a whole (safe_write_text), so a save is a step.    *)
(* `policy` stands for every setting without rules of its own.                *)
EXTENDS Naturals, FiniteSets

CONSTANTS
    Commands,      \* command processes
    Interfaces,    \* processes of the terminal interface
    Policies,      \* values of screening_policy
    DefaultPolicy, \* its default
    Absent,        \* there is no file
    Corrupt,       \* a file that cannot be read or has an illegal value
    Down,          \* no daemon is running
    Free,          \* a reload that is not under way
    Asked          \* a reload that has read nothing yet

ASSUME SettingsAssumption ==
    /\ DefaultPolicy \in Policies
    /\ Commands \intersect Interfaces = {}

Processes == Commands \union Interfaces
Signal == "signal"  \* the reload of SIGHUP, on the main thread
ASSUME SignalAssumption == Signal \notin Processes
Reloads == Processes \union {Signal}

Modes == {"DRY_RUN", "ACTIVE"}
Written == [enabled : BOOLEAN, mode : Modes, confirmed : BOOLEAN, policy : Policies]

\* What _validate accepts.
Valid(c) == (c.mode = "ACTIVE") <=> c.confirmed
Config == {c \in Written : Valid(c)}

ASSUME MarkAssumption ==
    /\ Written \intersect {Absent, Corrupt, Down, Free, Asked} = {}
    /\ Asked # Free

VARIABLES
    file,    \* the configuration file
    marker,  \* the emergency marker exists
    daemon,  \* the configuration of the running daemon
    reload,  \* what a thread of the daemon that reloads has read
    pc,      \* where a process is
    task,    \* what it has been asked for
    cfg      \* its configuration object

diskVars    == <<file, marker>>
daemonVars  == <<daemon, reload>>
processVars == <<pc, task, cfg>>
vars == <<diskVars, daemonVars, processVars>>

Default == [enabled |-> FALSE, mode |-> "DRY_RUN", confirmed |-> FALSE,
            policy |-> DefaultPolicy]

Unconfirmed(c) == [c EXCEPT !.mode = "DRY_RUN", !.confirmed = FALSE]

\* Mutant: a mode that was never confirmed is taken as it is written.
Believed(c) == [c EXCEPT !.confirmed = c.mode = "ACTIVE"]

\* from_dict: what a file that parses is turned into.
FromDict(c) ==
    IF c.mode = "ACTIVE" /\ ~c.confirmed THEN [Unconfirmed(c) EXCEPT !.enabled = FALSE]
    ELSE IF c.mode = "DRY_RUN" THEN Unconfirmed(c)
    ELSE c

\* load_config without `strict`; what it does when there is no file is Creates.
Loaded == IF file \in Written THEN FromDict(file) ELSE Default
Creates == file' = IF file = Absent THEN Default ELSE file

Init ==
    /\ file \in {Absent, Default}
    /\ marker = FALSE
    /\ daemon = Down
    /\ reload = [r \in Reloads |-> Free]
    /\ pc = [p \in Processes |-> "gone"]
    /\ task = [p \in Processes |-> "none"]
    /\ cfg = [p \in Processes |-> Default]

--------------------------------------------------------------------------------
(* Tasks: what the handlers of the commands change.                           *)

\* Offered by the screening and policy screens too, which call the same handlers.
Announced == {"enable", "disable", "dry_run", "active", "policy",
              "emergency_off", "emergency_reset"}
\* `config set` and `config profile` tell nobody.
Unannounced == {"set_on", "set_off", "set_dry_run", "set_policy"}
Tasks == Announced \union Unannounced
Switches == {"emergency_off", "emergency_reset"}

TasksOf(p) == IF p \in Interfaces THEN Announced ELSE Tasks

\* What set_value refuses, and the first check of `screening mode active`.
Refused(p, t) ==
    \/ t = "set_on" /\ cfg[p].mode = "ACTIVE"
    \/ t = "active" /\ marker

\* The configurations a task may leave in the process, before it is saved.
Changed(c, t) ==
    CASE t \in {"enable"}                      -> {[Unconfirmed(c) EXCEPT !.enabled = TRUE]}
      [] t \in {"disable"} \union Switches     -> {[Unconfirmed(c) EXCEPT !.enabled = FALSE]}
      [] t \in {"dry_run", "set_dry_run"}      -> {Unconfirmed(c)}
      [] t \in {"policy", "set_policy"}        -> {[c EXCEPT !.policy = v] : v \in Policies}
      [] t = "set_on"                          -> {[c EXCEPT !.enabled = TRUE]}
      [] t = "set_off"                         -> {[c EXCEPT !.enabled = FALSE]}
      [] t = "active"                          -> {[c EXCEPT !.enabled = TRUE, !.mode = "ACTIVE",
                                                             !.confirmed = TRUE]}

--------------------------------------------------------------------------------
(* A process.                                                                 *)

Gone(p) ==
    /\ pc' = [pc EXCEPT ![p] = "gone"]
    /\ task' = [task EXCEPT ![p] = "none"]
    /\ cfg' = [cfg EXCEPT ![p] = Default]

\* A command ends; an interface keeps its configuration and waits for the next task.
Finish(p) ==
    \/ p \in Commands /\ Gone(p)
    \/ /\ p \in Interfaces
       /\ pc' = [pc EXCEPT ![p] = "ready"]
       /\ task' = [task EXCEPT ![p] = "none"]
       /\ UNCHANGED cfg

\* main() loads the configuration before it looks at the command.
Start(p) ==
    /\ pc[p] = "gone"
    /\ cfg' = [cfg EXCEPT ![p] = Loaded]
    /\ pc' = [pc EXCEPT ![p] = IF file = Absent THEN "create" ELSE "ready"]
    /\ UNCHANGED <<diskVars, daemonVars, task>>

\* There was no file a moment ago.
Create(p) ==
    /\ pc[p] = "create"
    /\ file' = Default
    /\ pc' = [pc EXCEPT ![p] = "ready"]
    /\ UNCHANGED <<marker, daemonVars, task, cfg>>

\* ACTIVE is asked for at the terminal; emergency commands turn to the marker first.
Begin(p) ==
    /\ pc[p] = "ready"
    /\ \E t \in TasksOf(p) :
        /\ ~Refused(p, t)
        /\ task' = [task EXCEPT ![p] = t]
        /\ \/ /\ t \in Switches \union {"active"}
              /\ pc' = [pc EXCEPT ![p] = IF t = "active" THEN "ask" ELSE "switch"]
              /\ UNCHANGED cfg
           \/ /\ t \notin Switches \union {"active"}
              /\ \E c \in Changed(cfg[p], t) : cfg' = [cfg EXCEPT ![p] = c]
              /\ pc' = [pc EXCEPT ![p] = "save"]
    /\ UNCHANGED <<diskVars, daemonVars>>

Confirm(p) ==
    /\ pc[p] = "ask"
    /\ \E c \in Changed(cfg[p], "active") : cfg' = [cfg EXCEPT ![p] = c]
    /\ pc' = [pc EXCEPT ![p] = "save"]
    /\ UNCHANGED <<diskVars, daemonVars, task>>

Decline(p) ==
    /\ pc[p] = "ask"
    /\ Finish(p)
    /\ UNCHANGED <<diskVars, daemonVars>>

\* Mutant: the switch is the marker alone.
SwitchAlone(p) ==
    /\ pc[p] = "switch"
    /\ marker' = (task[p] = "emergency_off")
    /\ pc' = [pc EXCEPT ![p] = "save"]
    /\ UNCHANGED <<file, daemonVars, task, cfg>>

\* enable_emergency_off, reset_emergency_off.
Switch(p) ==
    /\ pc[p] = "switch"
    /\ marker' = (task[p] = "emergency_off")
    /\ \E c \in Changed(cfg[p], task[p]) : cfg' = [cfg EXCEPT ![p] = c]
    /\ pc' = [pc EXCEPT ![p] = "save"]
    /\ UNCHANGED <<file, daemonVars, task>>

\* Mutant: the daemon is told before there is anything to read.
SaveLate(p) ==
    /\ pc[p] = "save"
    /\ file' = cfg[p]
    /\ IF task[p] \in Announced /\ reload[p] = Free /\ daemon # Down
       THEN reload' = [reload EXCEPT ![p] = IF file = Absent THEN Default ELSE FromDict(file)]
       ELSE UNCHANGED reload
    /\ Finish(p)
    /\ UNCHANGED <<marker, daemon>>

Save(p) ==
    /\ pc[p] = "save"
    /\ file' = cfg[p]
    /\ IF task[p] \in Announced
       THEN pc' = [pc EXCEPT ![p] = "notify"] /\ UNCHANGED <<task, cfg>>
       ELSE Finish(p)
    /\ UNCHANGED <<marker, daemonVars>>

\* The disk is full, or the process is interrupted: an interface goes on with the
\* configuration it could not save.
FailToSave(p) ==
    /\ pc[p] \in {"save", "switch"}
    /\ Finish(p)
    /\ UNCHANGED <<diskVars, daemonVars>>

\* _notify_screening_reload: daemon_status says RUNNING and the request is sent.
\* Bound: one reload on behalf of a process at a time.
Notify(p) ==
    /\ pc[p] = "notify" /\ daemon # Down /\ reload[p] = Free
    /\ reload' = [reload EXCEPT ![p] = Asked]
    /\ pc' = [pc EXCEPT ![p] = "wait"]
    /\ UNCHANGED <<diskVars, daemon, task, cfg>>

\* No daemon runs, it is too busy to take the request, or it has answered.
Notified(p) ==
    /\ \/ pc[p] = "notify"
       \/ pc[p] = "wait" /\ reload[p] = Free
    /\ Finish(p)
    /\ UNCHANGED <<diskVars, daemonVars>>

\* The answer takes longer than ipc_timeout: the reload goes on.
TimeOut(p) ==
    /\ pc[p] = "wait" /\ reload[p] # Free
    /\ Finish(p)
    /\ UNCHANGED <<diskVars, daemonVars>>

\* A process that is killed, and an interface that is quit.
Die(p) ==
    /\ pc[p] # "gone"
    /\ Gone(p)
    /\ UNCHANGED <<diskVars, daemonVars>>

Process(p) ==
    \/ Start(p) \/ Create(p) \/ Begin(p) \/ Confirm(p) \/ Decline(p) \/ Switch(p)
    \/ Save(p) \/ FailToSave(p) \/ Notify(p) \/ Notified(p) \/ TimeOut(p) \/ Die(p)

--------------------------------------------------------------------------------
(* The daemon.                                                                *)

DaemonStart ==
    /\ daemon = Down
    /\ daemon' = Loaded
    /\ Creates
    /\ UNCHANGED <<marker, reload, processVars>>

DaemonStop ==
    /\ daemon # Down
    /\ daemon' = Down
    /\ reload' = [r \in Reloads |-> Free]
    /\ UNCHANGED <<diskVars, processVars>>

Hangup ==
    /\ daemon # Down /\ reload[Signal] = Free
    /\ reload' = [reload EXCEPT ![Signal] = Asked]
    /\ UNCHANGED <<diskVars, daemon, processVars>>

\* _reload_config reads the file and later puts what it read in force.
ReloadRead(r) ==
    /\ reload[r] = Asked
    /\ reload' = [reload EXCEPT ![r] = Loaded]
    /\ Creates
    /\ UNCHANGED <<marker, daemon, processVars>>

ReloadAssign(r) ==
    /\ reload[r] \in Config
    /\ daemon' = reload[r]
    /\ reload' = [reload EXCEPT ![r] = Free]
    /\ UNCHANGED <<diskVars, processVars>>

\* The user writes the file by hand, or removes it.
Edit ==
    /\ file' \in Written \union {Absent, Corrupt}
    /\ UNCHANGED <<marker, daemonVars, processVars>>

Next ==
    \/ \E p \in Processes : Process(p)
    \/ DaemonStart \/ DaemonStop \/ Hangup
    \/ \E r \in Reloads : ReloadRead(r) \/ ReloadAssign(r)
    \/ Edit

Spec == Init /\ [][Next]_vars

--------------------------------------------------------------------------------
(* Properties.                                                                *)

\* Types.  Everything that is in force or may be saved passes _validate.
TypeOK ==
    /\ file \in Written \union {Absent, Corrupt}
    /\ marker \in BOOLEAN
    /\ daemon \in Config \union {Down}
    /\ reload \in [Reloads -> Config \union {Free, Asked}]
    /\ daemon = Down => reload = [r \in Reloads |-> Free]
    /\ pc \in [Processes -> {"gone", "create", "ready", "ask", "switch", "save",
                             "notify", "wait"}]
    /\ task \in [Processes -> Tasks \union {"none"}]
    /\ cfg \in [Processes -> Config]

\* The daemon may block calls.
Armed == daemon # Down /\ daemon.enabled /\ daemon.mode = "ACTIVE" /\ ~marker

\* Nothing is under way.
Quiet ==
    /\ \A p \in Processes : pc[p] \in {"gone", "ready"}
    /\ reload = [r \in Reloads |-> Free]
================================================================================
