------------------------------- MODULE Interface -------------------------------
(* The terminal interface: one process with a stack of screens, a loop that   *)
(* reads one key or lets a live screen refresh itself, prompts that give the  *)
(* terminal back for a line of input, and tasks that run the handlers of the  *)
(* commands.  Other processes change what the screens read.                   *)
(* callshield/ui/app.py, navigation/, components/menu.py, state/, screens/.   *)
(*                                                                            *)
(* A screen is known by its name and by what it reads; how it is drawn is     *)
(* left out, and so is a refresh that fails.  `enabled`, `active` and         *)
(* `policy` are the configuration object of this process, which nobody else   *)
(* changes; what its tasks mean for the file and the daemon is in Settings.   *)
EXTENDS Integers, Sequences, FiniteSets

CONSTANTS
    Rows,      \* bound: numbers of rows a list may have
    PageSize,  \* rows a list screen shows
    MaxDepth   \* MAX_DEPTH

ASSUME InterfaceAssumption ==
    /\ Rows \subseteq Nat
    /\ PageSize \in Nat \ {0}
    /\ MaxDepth \in Nat /\ MaxDepth > 4

VARIABLES
    phase,     \* "off", "startup", "loop", "prompt", "handover", "closing"
    raw,       \* the terminal delivers single keys and has no cursor
    stack,     \* the frames of the screens, the root first
    facts,     \* what there is to read
    prefs,     \* the preferences of this process
    prefsFile, \* the preferences in their file
    pending    \* the questions of the prompt that are left, and what they are for

uiVars == <<phase, raw, stack, prefs, prefsFile, pending>>
interfaceVars == <<facts, uiVars>>

PolicyNames == <<"RELAXED", "BALANCED", "STRICT">>
PolicyChoices == {PolicyNames[i] : i \in DOMAIN PolicyNames}
Lists == {"black", "white", "decisions", "others"}
Facts == [running : BOOLEAN, emergency : BOOLEAN, enabled : BOOLEAN, active : BOOLEAN,
          policy : PolicyChoices, black : Rows, white : Rows, decisions : Rows, others : Rows]
OwnFacts == {"enabled", "active", "policy"}

Prefs == [manual : BOOLEAN, advanced : BOOLEAN]
DefaultPrefs == [manual |-> FALSE, advanced |-> FALSE]

Nothing == [kind |-> "nothing", what |-> "nothing"]
NoPrompt == [questions |-> <<>>, then |-> Nothing]

--------------------------------------------------------------------------------
(* Menus: in their order the entries of a screen that read `s`, each with the *)
(* questions it asks and with what it does then.                              *)

Then(k, w) == [kind |-> k, what |-> w]
Open(w) == Then("open", w)
Run(t) == Then("run", t)
Choose(p) == Then("choose", p)
Reread == Then("reread", "all")

Entry(key, enabled, questions, then) ==
    [key |-> key, enabled |-> enabled, questions |-> questions, then |-> then]
Always(key, then) == Entry(key, TRUE, <<>>, then)

Sections == <<"scan", "monitor", "daemon", "screening", "policy", "reputation",
              "intelligence", "number_intel", "blocks", "reports", "history",
              "diagnostics", "settings", "about">>

DashboardMenu(s) ==
    (IF s.running THEN <<>> ELSE <<Always("start_daemon", Run("start"))>>)
        \o [i \in DOMAIN Sections |-> Always(Sections[i], Open(Sections[i]))]
        \o <<Always("exit", Then("quit", "all"))>>

ScanMenu(s) ==
    <<Entry("basic",    TRUE, <<"number">>, Open("default_scan")),
      Entry("advanced", TRUE, <<"number">>, Open("advanced_scan")),
      Always("history", Open("scan_history")),
      Entry("compare",  TRUE, <<"number", "number">>, Open("scan_compare"))>>

ScreeningMenu(s) ==
    <<Always("status", Reread),
      Entry("health", s.running, <<>>, Open("screening_health")),
      Always("metrics", Open("screening_metrics")),
      Entry("dry_run", s.active, <<>>, Run("dry_run")),
      Entry("active", ~s.emergency, <<"handover">>, Run("active")),
      Entry("enable", ~s.enabled, <<>>, Run("enable")),
      Entry("disable", s.enabled, <<>>, Run("disable"))>>

PolicyMenu(s) ==
    <<Always("current", Reread),
      Entry("test", TRUE, <<"value", "value">>, Open("policy_test"))>>
    \o [i \in DOMAIN PolicyNames |->
            Entry(PolicyNames[i], s.policy # PolicyNames[i], <<>>, Run(PolicyNames[i]))]
    \o <<IF s.emergency THEN Entry("emergency_reset", TRUE, <<"confirm">>, Run("emergency_reset"))
         ELSE Entry("emergency", TRUE, <<"confirm">>, Run("emergency_off"))>>

DaemonMenu(s) ==
    <<Always("status", Reread),
      Entry("start", ~s.running, <<>>, Run("start")),
      Entry("stop", s.running, <<"confirm">>, Run("stop")),
      Entry("restart", TRUE, <<"confirm">>, Run(IF s.running THEN "restart" ELSE "start")),
      Entry("health", s.running, <<>>, Open("daemon_health")),
      Always("metrics", Open("daemon_metrics"))>>

BlocksMenu(s) ==
    <<Always("blacklist", Open("blacklist")),
      Always("whitelist", Open("whitelist")),
      Entry("add_block", TRUE, <<"number", "confirm", "reason">>, Run("block")),
      Entry("add_allow", TRUE, <<"number", "confirm", "reason">>, Run("allow")),
      Entry("remove_block", s.black > 0, <<"number", "confirm">>, Run("unblock")),
      Entry("remove_allow", s.white > 0, <<"number", "confirm">>, Run("unallow")),
      Always("recent", Open("blocks_recent")),
      Entry("inspect", s.decisions > 0, <<"value">>, Open("block_detail"))>>

ReputationMenu(s) ==
    <<Entry("lookup", TRUE, <<"number">>, Open("reputation_detail")),
      Always("recent", Open("reputation_recent")),
      Entry("history", TRUE, <<"number">>, Open("reputation_history")),
      Entry("trust", TRUE, <<"number", "confirm">>, Then("leave", "trust"))>>

IntelligenceMenu(s) ==
    [i \in 1..5 |->
        LET key == <<"search", "behavior", "timeline", "trends", "patterns">>[i]
        IN  Entry(key, TRUE, <<"number">>,
                  Open(IF key = "timeline" THEN "intelligence_timeline" ELSE "intelligence_detail"))]
    \o <<Always("snapshots", Open("intelligence_snapshots")),
         Always("retention", Open("intelligence_retention"))>>

NumberMenu(s) ==
    <<Entry("scan", TRUE, <<"number">>, Open("number_scan")),
      Always("saved", Open("contacts")),
      Always("imported", Open("contact_scan")),
      Always("history", Open("scan_history")),
      Entry("compare", TRUE, <<"number", "number">>, Open("number_compare")),
      Always("export", Open("number_export"))>>

ReportsMenu(s) ==
    <<Entry("submit", TRUE, <<"number", "reason", "confirm">>, Run("report")),
      Always("recent", Open("reports_recent")),
      Entry("number", TRUE, <<"number">>, Open("reports_number"))>>

HistoryMenu(s) ==
    <<Always("events", Open("history_events")),
      Always("screening", Open("history_screening")),
      Entry("number", TRUE, <<"number">>, Open("history_number"))>>

\* Language, appearance, animation and notifications matter to the looks alone.
SettingsMenu(s) ==
    <<Always("language", Open("settings_looks")),
      Always("appearance", Open("settings_looks")),
      Always("animation", Choose("looks")),
      Always("refresh", Open("settings_refresh")),
      Always("scan_mode", Open("settings_scan_mode")),
      Always("notifications", Choose("looks")),
      Always("data", Open("settings_data")),
      Entry("reset", TRUE, <<"confirm">>, Choose("defaults"))>>

ChoiceMenu(screen) ==
    IF screen = "settings_refresh"
    THEN <<Always("2", Choose("timed")), Always("0", Choose("manual"))>>
    ELSE IF screen = "settings_scan_mode"
    THEN <<Always("BASIC", Choose("basic")), Always("ADVANCED", Choose("advanced"))>>
    ELSE <<Always("one", Choose("looks")), Always("another", Choose("looks"))>>

Choices == {"settings_looks", "settings_refresh", "settings_scan_mode"}
MenuScreens == {"dashboard", "scan", "screening", "policy", "daemon", "blocks", "reputation",
                "intelligence", "number_intel", "reports", "history", "settings"} \union Choices

Menu(screen, s) ==
    CASE screen = "dashboard"    -> DashboardMenu(s)
      [] screen = "scan"         -> ScanMenu(s)
      [] screen = "screening"    -> ScreeningMenu(s)
      [] screen = "policy"       -> PolicyMenu(s)
      [] screen = "daemon"       -> DaemonMenu(s)
      [] screen = "blocks"       -> BlocksMenu(s)
      [] screen = "reputation"   -> ReputationMenu(s)
      [] screen = "intelligence" -> IntelligenceMenu(s)
      [] screen = "number_intel" -> NumberMenu(s)
      [] screen = "reports"      -> ReportsMenu(s)
      [] screen = "history"      -> HistoryMenu(s)
      [] screen = "settings"     -> SettingsMenu(s)
      [] screen \in Choices      -> ChoiceMenu(screen)
      [] OTHER                   -> <<>>

--------------------------------------------------------------------------------
(* Frames.  A list screen shows a page of a list; what the others show does   *)
(* not matter.                                                                *)

ListOf == [blacklist |-> "black", whitelist |-> "white", blocks_recent |-> "decisions"]
ReputationLists   == {"reputation_recent", "reputation_history"}
IntelligenceLists == {"intelligence_timeline", "intelligence_snapshots"}
ReportLists       == {"reports_recent", "reports_number"}
HistoryLists      == {"history_events", "history_screening", "history_number"}
NumberLists       == {"scan_history", "contacts"}
OtherLists ==
    ReputationLists \union IntelligenceLists \union ReportLists \union HistoryLists
        \union NumberLists
ListScreens == DOMAIN ListOf \union OtherLists

LiveScreens == {"dashboard", "screening", "daemon", "daemon_metrics", "monitor"}

Configured == {"emergency", "enabled", "active", "policy"}

\* The facts a screen shows, builds its menu from or pages through.  A scan shows what the
\* configuration would have made of its number; policy_test keeps what it was opened with.
Reads(screen) ==
    CASE screen \in {"dashboard", "screening", "diagnostics"} -> {"running"} \union Configured
      [] screen \in {"policy", "scan_result", "advanced_scan"} -> Configured
      [] screen \in {"daemon", "daemon_metrics", "daemon_health", "monitor", "screening_health"} ->
            {"running"}
      [] screen = "blocks"        -> {"black", "white", "decisions"}
      [] screen \in DOMAIN ListOf -> {ListOf[screen]}
      [] screen \in OtherLists    -> {"others"}
      [] OTHER                    -> {}

Saw(screen, f) == [x \in Reads(screen) |-> f[x]]
Items(frame) == Menu(frame.screen, frame.saw)
Total(frame) == LET x == CHOOSE x \in Reads(frame.screen) : TRUE IN frame.saw[x]

\* Menu.move: the next entry in a direction that is enabled, around the ends.
Move(items, at, step) ==
    LET n == Len(items)
        Steps(i) == ((at - 1 + step * i) % n) + 1
        reached == {i \in 1..n : items[Steps(i)].enabled}
    IN  IF reached = {} THEN at ELSE Steps(CHOOSE i \in reached : \A j \in reached : i <= j)

OnEnabled(items, at) == IF items[at].enabled THEN at ELSE Move(items, at, 1)

Enter(screen, f) ==
    LET frame == [screen |-> screen, saw |-> Saw(screen, f), at |-> 0]
    IN  IF screen \in MenuScreens THEN [frame EXCEPT !.at = OnEnabled(Items(frame), 1)]
        ELSE frame

\* Menu.replace: the cursor stays on its entry, or goes to the first.
Position(items, key) ==
    LET same == {i \in DOMAIN items : items[i].key = key}
    IN  IF same = {} THEN 1 ELSE CHOOSE i \in same : TRUE

\* Mutant: an entry that was disabled meanwhile keeps the cursor.
RebuiltInPlace(old, frame) ==
    [frame EXCEPT !.at = Position(Items(frame), Items(old)[old.at].key)]

\* Mutant: the cursor stays where it is, whatever entry that is now.
RebuiltByIndex(old, frame) ==
    [frame EXCEPT !.at = OnEnabled(Items(frame), IF old.at \in DOMAIN Items(frame) THEN old.at
                                                 ELSE 1)]

Rebuilt(old, frame) ==
    LET at == Position(Items(frame), Items(old)[old.at].key)
    IN  [frame EXCEPT !.at = OnEnabled(Items(frame), at)]

\* Pager: pages of PageSize rows; the offset may have to go back when rows are deleted.
LastPage(total) == IF total = 0 THEN 0 ELSE ((total - 1) \div PageSize) * PageSize
Clamped(frame) ==
    [frame EXCEPT !.at = IF @ > LastPage(Total(frame)) THEN LastPage(Total(frame)) ELSE @]

\* refresh_current: what is read is read again, the menu is built again.
Refreshed(frame, f) ==
    LET fresh == [frame EXCEPT !.saw = Saw(frame.screen, f)]
    IN  IF frame.screen \in MenuScreens THEN Rebuilt(frame, fresh)
        ELSE IF frame.screen \in ListScreens THEN Clamped(fresh)
        ELSE fresh

TopOf(s) == s[Len(s)]
Below(s) == SubSeq(s, 1, Len(s) - 1)
OnTop(s, frame) == Append(Below(s), frame)

\* ScreenStack.push: at the limit the top makes room.
Pushed(s, frame) == IF Len(s) >= MaxDepth THEN OnTop(s, frame) ELSE Append(s, frame)

--------------------------------------------------------------------------------
(* Tasks: what the handler of a command may have done to the facts when it    *)
(* returns; a failure keeps its effect on the configuration object.           *)

Counted(f, x, by) == IF f[x] + by \in Rows THEN [f EXCEPT ![x] = @ + by] ELSE f

Outcomes(task, f) ==
    CASE task = "enable"    -> {[f EXCEPT !.enabled = TRUE, !.active = FALSE]}
      [] task = "disable"   -> {[f EXCEPT !.enabled = FALSE, !.active = FALSE]}
      [] task = "dry_run"   -> {[f EXCEPT !.active = FALSE]}
      [] task = "active"    -> {f} \union (IF f.emergency THEN {}
                                          ELSE {[f EXCEPT !.enabled = TRUE, !.active = TRUE]})
      [] task \in PolicyChoices  -> {[f EXCEPT !.policy = task]}
      [] task = "emergency_off" ->
            {f, [f EXCEPT !.emergency = TRUE, !.enabled = FALSE, !.active = FALSE]}
      [] task = "emergency_reset" ->
            {f, [f EXCEPT !.emergency = FALSE, !.enabled = FALSE, !.active = FALSE]}
      [] task = "start"     -> {f, [f EXCEPT !.running = TRUE]}
      [] task = "stop"      -> {f, [f EXCEPT !.running = FALSE]}
      [] task = "restart"   -> {f, [f EXCEPT !.running = FALSE], [f EXCEPT !.running = TRUE]}
      [] task = "block"     -> {f, Counted(f, "black", 1)}
      [] task = "allow"     -> {f, Counted(f, "white", 1)}
      [] task = "unblock"   -> {f, Counted(f, "black", -1)}
      [] task = "unallow"   -> {f, Counted(f, "white", -1)}
      [] task = "report"    -> {f, Counted(f, "others", 1)}

Preferred(choice) ==
    CASE choice = "looks"    -> prefs
      [] choice = "defaults" -> DefaultPrefs
      [] choice = "timed"    -> [prefs EXCEPT !.manual = FALSE]
      [] choice = "manual"   -> [prefs EXCEPT !.manual = TRUE]
      [] choice = "basic"    -> [prefs EXCEPT !.advanced = FALSE]
      [] choice = "advanced" -> [prefs EXCEPT !.advanced = TRUE]

--------------------------------------------------------------------------------
(* The program.                                                               *)

Top == TopOf(stack)

InterfaceInit ==
    /\ phase = "off" /\ raw = FALSE /\ stack = <<>>
    /\ facts \in Facts
    /\ prefs = DefaultPrefs /\ prefsFile = DefaultPrefs
    /\ pending = NoPrompt

\* Without a terminal, run prints a summary and is done.
Launch ==
    /\ phase = "off"
    /\ phase' = "startup" /\ raw' = TRUE
    /\ prefs' = prefsFile
    /\ UNCHANGED <<facts, stack, prefsFile, pending>>

\* The probes of the startup screen read what the dashboard reads.
StartUp ==
    /\ phase = "startup"
    /\ phase' = "loop" /\ stack' = <<Enter("dashboard", facts)>>
    /\ UNCHANGED <<facts, raw, prefs, prefsFile, pending>>

\* Control-C where no prompt is open, and the keys that quit.
Quit ==
    /\ phase \in {"startup", "loop"}
    /\ phase' = "closing"
    /\ UNCHANGED <<facts, raw, stack, prefs, prefsFile, pending>>

\* The end of run, however it comes about.
Close ==
    /\ phase = "closing"
    /\ phase' = "off" /\ raw' = FALSE /\ stack' = <<>>
    /\ UNCHANGED <<facts, prefs, prefsFile, pending>>

\* What an entry leads to when the stack is `s` and every question is answered.
Opens(s, screen) ==
    /\ stack' = Pushed(s, Enter(screen, facts))
    /\ phase' = "loop"
    /\ UNCHANGED <<facts, prefs, prefsFile>>

Runs(s, task) ==
    /\ facts' \in Outcomes(task, facts)
    /\ stack' = OnTop(s, Refreshed(TopOf(s), facts'))
    /\ phase' = "loop"
    /\ UNCHANGED <<prefs, prefsFile>>

\* set_preference and reset_preferences: the process has the new ones even if the file
\* cannot be written.
Chooses(s, choice) ==
    /\ prefs' = Preferred(choice)
    /\ prefsFile' \in {prefs', prefsFile}
    /\ stack' = s /\ phase' = "loop"
    /\ UNCHANGED facts

Plainly(s, then) ==
    /\ stack' = IF then.kind = "reread" THEN OnTop(s, Refreshed(TopOf(s), facts)) ELSE s
    /\ phase' = IF then.kind = "quit" THEN "closing" ELSE "loop"
    /\ UNCHANGED <<facts, prefs, prefsFile>>

Perform(s, then) ==
    \/ then.kind = "open" /\ then.what = "default_scan"
          /\ Opens(s, IF prefs.advanced THEN "advanced_scan" ELSE "scan_result")
    \/ then.kind = "open" /\ then.what # "default_scan" /\ Opens(s, then.what)
    \/ then.kind = "run" /\ Runs(s, then.what)
    \/ then.kind = "choose" /\ Chooses(s, then.what)
    \/ then.kind \in {"reread", "leave", "quit"} /\ Plainly(s, then)

\* The terminal is given back for a line, or for a command that asks for itself.
Ask(s, questions, then) ==
    /\ phase' = IF questions = <<"handover">> THEN "handover" ELSE "prompt"
    /\ raw' = FALSE
    /\ pending' = [questions |-> questions, then |-> then]
    /\ stack' = s
    /\ UNCHANGED <<facts, prefs, prefsFile>>

\* Enter takes the entry under the cursor, a digit one that is enabled.
Activate(i) ==
    /\ phase = "loop" /\ Top.screen \in MenuScreens
    /\ i \in DOMAIN Items(Top)
    /\ i = Top.at \/ (i <= 9 /\ Items(Top)[i].enabled)
    /\ LET entry == Items(Top)[i]
           s == OnTop(stack, [Top EXCEPT !.at = i])
       IN  IF entry.questions = <<>>
           THEN Perform(s, entry.then) /\ UNCHANGED <<raw, pending>>
           ELSE Ask(s, entry.questions, entry.then)

Cursor ==
    /\ phase = "loop" /\ Top.screen \in MenuScreens
    /\ LET items == Items(Top)
           enabled == {i \in DOMAIN items : items[i].enabled}
       IN  \E at \in {Move(items, Top.at, 1), Move(items, Top.at, -1)}
                     \union {i \in enabled : \A j \in enabled : i <= j}
                     \union {i \in enabled : \A j \in enabled : i >= j} :
              stack' = OnTop(stack, [Top EXCEPT !.at = at])
    /\ UNCHANGED <<facts, phase, raw, prefs, prefsFile, pending>>

Page ==
    /\ phase = "loop" /\ Top.screen \in ListScreens
    /\ \E at \in {IF Top.at + PageSize < Total(Top) THEN Top.at + PageSize ELSE Top.at,
                   IF Top.at > PageSize THEN Top.at - PageSize ELSE 0,
                   0, LastPage(Total(Top))} :
          stack' = OnTop(stack, [Top EXCEPT !.at = at])
    /\ UNCHANGED <<facts, phase, raw, prefs, prefsFile, pending>>

\* Letters that screens take for themselves.
Letter ==
    /\ phase = "loop"
    /\ \/ /\ Top.screen = "scan_result"
          /\ \E screen \in {"advanced_scan", "scan_history"} : Opens(stack, screen)
          /\ UNCHANGED <<raw, pending>>
       \/ /\ Top.screen = "blocks_recent"
          /\ Ask(stack, <<"value">>, Open("block_detail"))

\* A screen is read again: by its key, or when it comes to the top.
Reloaded(s) ==
    /\ stack' = OnTop(s, Refreshed(TopOf(s), facts))
    /\ UNCHANGED <<facts, phase, raw, prefs, prefsFile, pending>>

\* Mutant: the screen that comes to the top is the one that was left.
BackAsItWas ==
    /\ phase = "loop" /\ Len(stack) > 1
    /\ stack' = Below(stack)
    /\ UNCHANGED <<facts, phase, raw, prefs, prefsFile, pending>>

Back == phase = "loop" /\ Len(stack) > 1 /\ Reloaded(Below(stack))
Home == phase = "loop" /\ Reloaded(SubSeq(stack, 1, 1))
Refresh == phase = "loop" /\ Reloaded(stack)
Tick == phase = "loop" /\ Top.screen \in LiveScreens /\ ~prefs.manual /\ Reloaded(stack)

Answer ==
    /\ phase \in {"prompt", "handover"}
    /\ IF Len(pending.questions) > 1
       THEN /\ pending' = [pending EXCEPT !.questions = Tail(@)]
            /\ UNCHANGED <<facts, phase, raw, stack, prefs, prefsFile>>
       ELSE /\ Perform(stack, pending.then)
            /\ raw' = TRUE /\ pending' = NoPrompt

\* No line, an illegal one, "no", or control-C; a reason may be left out.
Cancel ==
    /\ phase = "prompt" /\ pending.questions[1] # "reason"
    /\ phase' = "loop" /\ raw' = TRUE /\ pending' = NoPrompt
    /\ UNCHANGED <<facts, stack, prefs, prefsFile>>

\* Other processes start and stop the daemon, set and remove the marker, fill and prune
\* the tables.
Others ==
    /\ \/ \E x \in {"running", "emergency"} : facts' = [facts EXCEPT ![x] = ~@]
       \/ \E x \in Lists, n \in Rows : facts' = [facts EXCEPT ![x] = n]
    /\ UNCHANGED uiVars

Key ==
    \/ \E i \in 1..Len(Sections) + 2 : Activate(i)
    \/ Cursor \/ Page \/ Letter \/ Back \/ Home \/ Refresh \/ Answer \/ Cancel \/ Quit

InterfaceNext == Launch \/ StartUp \/ Key \/ Tick \/ Close \/ Others

InterfaceSpec == InterfaceInit /\ [][InterfaceNext]_interfaceVars

--------------------------------------------------------------------------------
(* Properties.                                                                *)

InterfaceTypeOK ==
    /\ phase \in {"off", "startup", "loop", "prompt", "handover", "closing"}
    /\ raw \in BOOLEAN
    /\ facts \in Facts
    /\ prefs \in Prefs /\ prefsFile \in Prefs
    /\ stack = <<>> <=> phase \in {"off", "startup"} \/ (phase = "closing" /\ stack = <<>>)

\* Single keys are read in the loop alone; a prompt, a command that asks for itself and
\* the shell afterwards have the terminal as it was.
TerminalGivenBack ==
    /\ phase \in {"off", "prompt", "handover"} => ~raw
    /\ phase \in {"startup", "loop"} => raw

\* The user always is somewhere: the dashboard is at the bottom, no screen covers itself,
\* the limit of the stack is out of reach, the cursor is on an entry that is enabled, and
\* the page shown has rows if there are any, whatever other processes have deleted and
\* switched since the screen was read last; outside of the loop the terminal is as the
\* shell expects it (ScreenStack, Menu, Pager, _suspend).
NavigationSound ==
    /\ InterfaceTypeOK /\ TerminalGivenBack
    /\ phase \in {"loop", "prompt", "handover"} =>
           /\ stack[1].screen = "dashboard"
           /\ Len(stack) < MaxDepth
           /\ \A i, j \in DOMAIN stack : stack[i].screen = stack[j].screen => i = j
           /\ Top.screen \in MenuScreens => Items(Top)[Top.at].enabled
           /\ Top.screen \in ListScreens =>
                  Top.at % PageSize = 0 /\ (Top.at = 0 \/ Top.at < Total(Top))

\* What the screen on top says of the configuration of this process is what the process
\* has: after the task that changed it, and on every way back or home to a screen read
\* before the change (_back, _apply and refresh_current).
OwnSettingsShown ==
    phase = "loop" =>
        \A x \in OwnFacts \intersect Reads(Top.screen) : Top.saw[x] = facts[x]

\* A refresh by the timer, which may fall between the user's look and the Enter key, keeps
\* the cursor on its entry.  Only if that entry is gone or disabled the cursor moves, and
\* never onto a task that runs without a question, so Enter does not start, stop or switch
\* anything that was not aimed at (Menu.replace).  The one exception is in the menu of
\* screening: the emergency marker disables "active", and the next entry that is enabled is
\* "enable" or "disable".
Aim(frame) == Items(frame)[frame.at]
Unasked(entry) == entry.then.kind = "run" /\ entry.questions = <<>>
Usable(key, items) == \E i \in DOMAIN items : items[i].key = key /\ items[i].enabled

KeepsAim(old, new) ==
    \/ Aim(new).key = Aim(old).key
    \/ /\ ~Usable(Aim(old).key, Items(new))
       /\ Unasked(Aim(new)) => Aim(old).key = "active" /\ new.saw.emergency

RefreshKeepsAim ==
    [][Tick /\ Top.screen \in MenuScreens => KeepsAim(Top, Top')]_interfaceVars
================================================================================
