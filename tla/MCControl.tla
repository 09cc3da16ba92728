------------------------------ MODULE MCControl ------------------------------
(* What the user controls the daemon with, for TLC: the settings file with    *)
(* everybody who writes it, and the terminal interface with everything a user *)
(* does in it.  A behavior is about one of the two; what the interface's      *)
(* tasks do to the file is the business of the first.                         *)
EXTENDS SettingsHistory, Interface

CONSTANTS c1, i1, RELAXED, BALANCED, Scenes, MaxEdits, MaxDone, MaxChanges

MaxTasks  == [careful |-> 4, free |-> 2]
MaxStarts == [careful |-> 2, free |-> 1]

VARIABLES
    scene,   \* the settings, "careful" or "free"; or the interface, "screens"
    tasks,   \* tasks begun
    edits,   \* edits by hand
    starts,  \* starts of the daemon
    focus,   \* the fact that others change under the interface
    done,    \* what the user has had done there
    changes  \* changes by others

bounds   == <<scene, tasks, edits, starts>>
screenBounds == <<focus, done, changes>>

Focuses == {"running", "emergency", "black", "others"}

MCInit ==
    /\ scene \in Scenes
    /\ HistoryInit /\ careful = (scene = "careful") /\ (scene = "screens" => file = Default)
    /\ tasks = 0 /\ edits = 0 /\ starts = 0
    /\ facts = [running |-> FALSE, emergency |-> FALSE, enabled |-> FALSE, active |-> FALSE,
                policy |-> "BALANCED", black |-> 0, white |-> 0, decisions |-> 0, others |-> 0]
    /\ InterfaceInit
    /\ focus \in IF scene = "screens" THEN Focuses ELSE {"none"}
    /\ done = 0 /\ changes = 0

--------------------------------------------------------------------------------
(* Settings.                                                                  *)

ProcessStep(p) ==
    \/ /\ PlainStep(p) \/ ConfirmStep(p) \/ SaveStep(p) \/ EndStep(p)
       /\ UNCHANGED bounds
    \/ /\ TaskStep(p)
       /\ ~careful => task'[p] \notin {"policy", "set_policy"}
       /\ tasks < MaxTasks[scene] /\ tasks' = tasks + 1
       /\ UNCHANGED <<scene, edits, starts>>

FileStep ==
    \/ /\ ReadStep /\ daemon = Down
       /\ starts < MaxStarts[scene] /\ starts' = starts + 1
       /\ UNCHANGED <<scene, tasks, edits>>
    \/ ReadStep /\ daemon # Down /\ UNCHANGED bounds
    \/ DaemonStep /\ UNCHANGED bounds
    \/ /\ edits < MaxEdits /\ edits' = edits + 1
       /\ EditStep
       /\ file' \in {Corrupt} \union {c \in Written : c.mode = "ACTIVE" /\ c.enabled /\ c.policy = DefaultPolicy}
       /\ UNCHANGED <<scene, tasks, starts>>

SettingsPart ==
    /\ scene # "screens"
    /\ (\E p \in Processes : ProcessStep(p)) \/ FileStep
    /\ UNCHANGED <<interfaceVars, screenBounds>>

--------------------------------------------------------------------------------
(* The interface.                                                             *)

UserStep ==
    /\ Launch \/ StartUp \/ Key \/ Tick \/ Close
    /\ done' = done + (IF facts' # facts \/ prefs' # prefs \/ (phase = "off" /\ phase' = "startup")
                       THEN 1 ELSE 0)
    /\ done' <= MaxDone
    /\ UNCHANGED changes

OthersStep ==
    /\ Others
    /\ changes < MaxChanges /\ changes' = changes + 1
    /\ \A x \in DOMAIN facts \ {focus} : facts'[x] = facts[x]
    /\ UNCHANGED done

InterfacePart ==
    /\ scene = "screens"
    /\ UserStep \/ OthersStep
    /\ UNCHANGED <<historyVars, bounds, focus>>

MCNext == SettingsPart \/ InterfacePart

MCSpec == MCInit /\ [][MCNext]_<<historyVars, bounds, interfaceVars, screenBounds>>
================================================================================
