# CALLSHIELD: specifications, model checks and proofs

TLA+ models of CALLSHIELD, the call-screening daemon in `src/callshield` with its command
line, its terminal interface and its Android bridge in `src/android`; the TLC runs that
check them; and TLAPS proofs about them. `PROJECT.json` lists components, runs, mutants, the
lines each definition stands for, hazards, findings and theorems.

Run from this directory:

    tlasany M.tla                          # parse
    tlc -workers 2 -config X.cfg MCModule  # check one run
    tlapm MProofs.tla                      # check the proofs of a module

## 1. The system

One daemon process per user, started by the command line; short-lived command processes and
long-lived interfaces around it; one database and one configuration file for all of them.

| Component | State it keeps | Operations | Talks to |
|---|---|---|---|
| `daemon/service.py` DaemonService | configuration in force, IPC listener, set and slots of client workers, three stop flags | accept, dispatch a command, screen a call, confirm a rejection, reload, shut down | everything below |
| `events/queue.py` EventQueue | bounded queue, closed flag, three counters | put, get, close, wait until done | workers put, processor gets |
| `events/processor.py` EventProcessor | configuration of its own | process one event | detector, reputation, adaptive, policy, database |
| `security/replay.py` ReplayCache | request ids with expiry, bounded | check and store, expire, evict | every IPC request |
| `policy/` | none; reads configuration and the emergency marker file | decide | processor; revalidated by the service |
| `database.py` Database | SQLite: lists, events, reports, screening events, settings, schema version | transactions, migration | every thread and process opens its own connection |
| `detector.py`, `rules/`, `intelligence/` | none; reads a number's lists, events, reports | analyze, and record the result | processor, command line, interface |
| `adaptive/` | observations and snapshots in the database | add, update outcome, confirm, snapshot, prune | processor, feedback, commands |
| `reputation/` | profiles, history, trust in the database | calculate, save, trust, expire, prune | processor, command line |
| `universal/` | imported contacts in the database | import, upsert, remove, clear | command line, interface |
| `daemon/health.py` HealthMonitor | counters and gauges under one lock | count, snapshot | all daemon threads |
| `daemon/heartbeat.py`, `signals.py` | last beat; handlers run on the main thread | beat, shut down, reload | service |
| `daemon/process.py`, `recovery.py` | PID file and socket on disk | claim, recover, status, stop | daemon start-up, command line |
| `config.py`, `cli.py` | configuration file, emergency marker | load, validate, save; one command per process | daemon by IPC and signals |
| `ui/` | screen stack, cursors, prompts, preferences, a long-lived configuration | keys, push and pop, tasks, refresh | database, configuration, IPC |
| Android bridge (Kotlin) | a call that rings, a deadline | send a request, accept or refuse the response, reject the call, send feedback | daemon socket |

What is hard about it: the queue is closed while workers are inside `put`; shutdown joins
threads with timeouts; an analysis outlives the timeout of the request it belongs to; a
request is sent again after the cache forgot it or the daemon restarted; reloads and the
emergency switch come in between a decision and its response; feedback is lost or cut
short; a signal handler runs while its own thread holds a lock; two daemons start at once;
processes save the same configuration file from copies they loaded long ago; a migration is
interrupted or runs twice at once; tables with limits are filled from several connections;
analyses count what earlier analyses recorded; screens outlive what they have read.
`PROJECT.json` lists each with its line and the property that would catch it.

What makes each component right:

* event path: no event lost, counted twice or processed out of order; clients are told the
  truth; a clean shutdown leaves nothing behind;
* screening: each request id screened once; nothing blocks while blocking is forbidden;
  confirmed rejections really happened; every request answered in bounded time;
* policy and contract: errors allow; a block needs every condition; daemon, database and
  bridge agree on which responses are valid;
* replay protection: a request that was accepted is not accepted again while it is fresh;
* analysis: the user's lists have the last word, evidence adds up, and looking a number up
  is no evidence;
* process management: one daemon at a time, stale files never stop a start, `stop` tells
  the truth;
* configuration: ACTIVE only after a confirmation; emergency-off wins and is never undone
  as a side effect; what was saved reaches the daemon;
* storage: bounded tables, the newest rows are kept, trust that expires, migrations that
  survive a crash;
* interface: the stack is bounded and never empty, the cursor is on something, what is
  offered is what is in force, a refresh does not change what Enter does.

## 2. Modules

`EventService` is the abstract specification of the event path: a bounded backlog, taken
and finished in order, refused or taken but not both.

`EventPipeline` is the event path as the threads run it. `pc[r]` follows one request
through the accept loop and its worker; the processor, the callers of `request_shutdown`
and the main thread have a program counter each. A step is what a thread does between two
points where another can see the state, so `put` is four steps (closed check under the
lock, `put_nowait`, high-water mark under the lock again, answer) and
`_do_graceful_shutdown` is seven. It implements `EventService` under the mapping at its
end: the backlog is the event in the processor's hands followed by the queue.

`PolicyDecision` holds the pure functions of a screening decision: `Decide` (policy engine),
`Fallback` and `Finalize` (service), `Persistable` (what `add_screening_event` accepts),
`BridgeAccepts` and `BridgeRejectsCall` (Kotlin). A detection is its scores and flags, a
response the fields these functions read. `ScreeningContract` applies them to one request
under every combination of evidence, configuration and emergency state, with a change
between decision and response. Of the checks of the three parties those are modelled that
relate fields to each other; that numbers lie in their ranges (`database.py:1139-1175`,
`Protocol.kt:91-102`) is left out, for the service builds responses from numbers that do.

`Screening` extends `PolicyDecision` with the threads: a worker and an analysis thread per
delivery, the replay cache, screening rows, observations, the configuration on disk, in the
service and in the processor, the emergency marker, counters, the phone and its feedback,
and restarts. The same request id may arrive several times. `_finalize_screening` is four
steps, because it reads the marker and the configuration separately. The mode and the
confirmation it reads last are one step: in a valid configuration they say the same. The
health counters are incremented one by one, each under their lock: a worker owes increments
(`owed`) and makes them before anything else, and everybody may take steps in between.
An observation is inserted by the transaction that also prunes the table (`CleanUp`); other
events and processes prune it at any time (`CleanUpElsewhere`), which `pruned` remembers.

`ReplayCache` is the cache with a clock: freshness, expiry, eviction of the oldest entry.
`Screening` abstracts it to a set that may forget an id at any time at which no worker has
its request in hand; `ReplayCache` says when it does.

`Analysis` is `analyze_number` as a function of what the database knows of a number: nine
signals, score, confidence, level, verdict, reputation, action. `CallHistory` closes the
loop: an analysis is recorded and counted by the next one, up to a cap for each count, which is
a constant. `Decisions` states what analyses and policy together promise about such a number.
`Trend` has the two trends, over the timeline and over the reputation history, and the patterns
that follow from them. The reputation's trend compares averages, which are doubles: where
they are exactly the threshold apart, `RoundingError` and `Drift` say what the divisions make
of it, and the comparison what the subtraction does.

`DaemonLifecycle` is about the PID file and the socket file: daemons that recover, claim,
bind, serve and shut down, `callshield start` and `callshield stop`, crashes, and processes
that get a PID again, and daemons whose signal handler waits for its own thread (`hung`),
which serve no more and may have closed their listener (`StopAccepting`). A life is one
process from birth to death; the code knows it by its PID, and by its start time only in `stop`.
Every file-system call, signal and look at `/proc` is a step. The steps that clear files (`ComparePid`, `UnlinkPid`, `ProbeSocket`,
`UnlinkSocket`) are shared by recovery, shutdown and commands, as in `process.py`; `task`
says on whose behalf they run and what follows. The three PID paths are one file, files
belong to the user and have the right type, IPC is enabled. A configuration or database
error in `validate_startup` is a `Crash` before the first step.

`SignalLocks` is about locks only: each function is the list of locks it takes and gives
back, a thread is a stack of functions, and a signal puts its handler on the stack of the
main thread wherever that is. It covers what `EventPipeline` abstracts from, and says which
of its fairness assumptions a signal can break.

`Settings` is the configuration file and the emergency marker under everybody who reads and
writes them: commands, which load, do one task and end; interfaces, which keep what they
loaded for many tasks; the daemon, whose reloads read and assign in two steps; and an editor.
Loading repairs (`FromDict`), a missing file is created, a save may fail half-way through a
task, a notification may find no daemon or time out while its reload goes on.

`Interface` is the terminal interface: the stack of screens with their cursors and what they
have read, menus with their entries, conditions and questions, paged lists, prompts that give
the terminal back, tasks, live refresh, start-up, preferences in memory and in their file.
Every screen it can open is in its tables, with the facts it shows or builds its menu from
(`Reads`); how it prints them is not. Its tasks change the
configuration of its own process; what they mean for file and daemon is in `Settings`.

The database is modelled in parts that share no table. `ReputationStore` holds the profiles,
their histories and the trusted numbers, under several calls of
`ReputationEngine.calculate` and the trust commands. `ListStore` has blacklist and
whitelist, events, reports and contacts under commands and imports. `BehaviorStore` has
observations and snapshots under `snapshot`, outcomes and confirmations. `Migration` is
`_migrate`, opened by several processes, each of which may die between any two statements
SQLite commits separately. Everywhere a statement outside a transaction is a step and a
transaction is a step: `save_profile` decides whether to add a row to the history from a
profile it read before its transaction, `upsert` looks for a contact before it counts.

Three modules add what only a reader of the whole history knows, and the properties about
it. `ScreeningHistory` remembers what has forbidden a response to block since its worker
turned to it. `SettingsHistory` remembers whether ACTIVE was confirmed, whether emergency-off
is still to last, what was saved without telling the daemon, and whether the behavior is
`careful`. `Database` puts the four parts of the database side by side and remembers which
histories were written over (`overwritten`) and which profiles were saved again after they
had been pruned (`revived`), who migrates alone and where a migration was cut. They change
no variable of the modules they extend and hinder no step except in careful or lone
behaviors.

Every `MC...` module EXTENDS the modules of one run or family of runs and gives their
constants values. `MCDecisions`, `MCStores` and `MCControl` put several modules side by side:
a behavior chooses its part (or scene) at the start, takes the steps of that part's own
next-state relation and leaves the others at rest, so that their state spaces add up and do
not multiply. Within one part everything
interleaves. Parts are joined only where they share no state: they are different tables,
different functions or, in `MCControl`, the inside of a process and its file.

`PolicyLemmas` and the modules named `...Proofs` hold the proofs.

In every module a definition under a comment `Mutant:` is a wrong version of the definition
that follows it; `PROJECT.json` names the property that must find it.

## 3. Runs and bounds

| Run | Instance | What it shows |
|---|---|---|
| `event_pipeline_safety` | 3 requests, queue of 2, 2 slots | counters with the high-water mark, answers, clean shutdown; the pipeline implements `EventService` |
| `event_pipeline_liveness` | 2 requests, queue of 1, 1 slot | shutdown ends, clients answered, queued events processed |
| `decisions` | contract: 768 detections, all 9 valid configurations with the default thresholds; history: counts up to where no signal looks at them; trend: 5 observations of 5 scores; requests: 3 ids, cache of 2, lifetime 2 | the parties agree and block exactly when warranted; lists decide, evidence adds up, nobody is accused without any; trends are symmetric up to rounding; accepted requests are known |
| `screening` | resent: one call delivered twice, 1 restart, all failures; pruned: the same with pruning at any time, without failing analyses, to the end for one delivery and to the answers for two; changes: one delivery, 2 changes, one reloading thread | screened once, confirmations true, blocks observed unless pruned, counters balanced in every state, nothing blocks while forbidden, every request answered |
| `screening_unpersisted` | one delivery | finding: a BLOCK without a row |
| `lifecycle_patient` | 3 daemons, 2 of them and another program with one PID, 4 commands one at a time | a serving daemon can be found, leftovers never refuse a start, `stop` tells the truth |
| `lifecycle_overlap` | as before, 2 commands that overlap | an orderly exit leaves nothing, no stop request is lost unless the handler hangs |
| `lifecycle_claim` | as `lifecycle_overlap` | finding: two daemons claim the PID file |
| `locks_threads` | main, worker, IPC stop, 1 signal | the only circle is the main thread's own; otherwise a stop ends the daemon |
| `locks_stuck` | as `locks_threads` | finding: SIGTERM blocks the daemon |
| `stores` | reputation: limits of 1 profile, 2 trusted numbers, 1 row of history; lists: 2 clients, 3 phones, 1 contact; behavior: 2 snapshots, 2 callers, limits of 1; migration: 2 openers, 2 rows, every old version | tables stay bounded and keep the newest, trust in force is kept, histories explain risks, migrations lose nothing on a list |
| `control` | careful: 1 command at a time, 4 tasks; free: a command and an interface, 1 edit by hand; screens: all screens, 2 tasks, 2 changes by others | ACTIVE was confirmed, settings arrive, emergency-off lasts; navigation is sound, own settings are shown, a refresh keeps what Enter aims at |

Every run ends within four minutes with two workers on a machine of its own;
`lifecycle_patient` is the largest (about 1,260,000 states), `control` has about 600,000.

Three requests are enough for a full queue with a worker inside `put` and an event in the
processor's hands; two slots let two workers overlap and a third be refused. A second caller
of `request_shutdown` adds nothing to what the runs can see and is covered by the theorems,
which hold for both. Requests are symmetric and no liveness is checked under symmetry.

Two deliveries of one id are what the id-based properties relate; deliveries of different
ids share only counters. Both scenes start with screening in ACTIVE and no emergency, the
state in which there is something to lose. Two changes allow that state to be left and come
back while a response is built. Deliveries of one id differ in nothing, so the first to arrive
is always the same one; of two only the second to arrive may find the storage failing: if it
fails for both, neither blocks, and the scene "changes" has one that fails. One
reloading thread is enough there because the property reads only the configuration in force,
and one thread already assigns any sequence of saved configurations at any time; `Reloaders`
may be larger.

Scores of the contract lie on and just under each threshold of the three policies. Counts of
the history stop at the value beyond which no signal looks at them. Five observations reach
every branch of the trend (at least two for any, three for volatility), and the five scores
lie at, under and over its thresholds. Three ids overfill a cache of two; a lifetime of two
lets requests come from the past, from the future and at the last moment.

Four commands are a start, a crash or stop, a start and a stop; three daemons let a third
life bear the first one's PID. In `lifecycle_patient` a command begins when no command is
under way and every daemon serves or is gone, which is how a user at a prompt works;
crashes are not bound to that. In the lock runs the processor is left out, because it takes
the locks of the main loop in the same order, and one signal is enough for every place a
handler can interrupt.

In the reputation part overlapping calculations and the passing of time are two scenes,
because the first concerns what is stale in `save_profile` and the second what expires; in
the first, with two numbers, one trusted number is enough to be spared when profiles are pruned; in
the second a calculation still overlaps with trust commands, which is what may renew an
expired row. Three numbers overfill both tables. One row of history is enough, since
`HistoryExplainsRisk` reads the newest, and the two scores differ by less than 5 points but
in risk. Limits of one with two writers are where a check before the transaction and the
write in it can disagree. In the migration part two openers overlap, or one at a time dies
and another resumes (`alone`).

In the scene "careful" of `MCControl` commands come one after the other and each reaches the
daemon or finds none: that is what `SettingsArrive` and `EmergencyLasts` are about. In "free"
a command and an interface overlap in every way, notifications get lost and an editor
writes ACTIVE with or without its confirmation, or damages the file. Screens: a list is
empty, has one full page of two rows or a third row on a second page, which others can
delete; a fact that others change is chosen at the start.

`CHECK_DEADLOCK FALSE` is set because each model ends: the daemon exits, or all calls have
been handled and all bounds used.

## 4. Fairness

`EventPipeline!Fairness` is weak fairness of the accept loop, each worker, the processor,
each thread that has entered `request_shutdown`, and the main thread. Each of them is an
operating-system thread; every step it waits in has a timeout in the code (`accept` 0.5 s,
`dequeue` 0.25 s, joins, `wait_until_done`), except the analysis inside `process`, which the
model takes to return. Nothing is assumed of clients or of who stops the daemon. A signal
handler runs on the main thread; that it may find a lock held by the very code it
interrupted is not in this module but in `SignalLocks`, so `StopTerminates` is
about handlers that get through.

`DaemonLifecycle!Fairness` is weak fairness of each daemon and each command. The waits of the
main thread and of the commands have timeouts, with one exception: the handler of SIGTERM
takes locks without a timeout that the thread it interrupted may hold, while the daemon
serves (`metrics()`) and while it starts (`_ipc_stop.clear()`, `service.py:287`). Such a daemon
is in `hung` from the signal on and takes no further step, so fairness asks nothing of it and
`AskedDaemonsEnd` excepts it; the model lets any signal hang any daemon, and `SignalLocks` says
where the code does. Crashes and new commands are never assumed.

`SignalLocks!Fairness` is strong fairness of each thread: a lock that other threads take
and give back again and again is free infinitely often, and the scheduler is taken to let a
waiting thread have it at some time. `threading.Lock` promises no order; with weak fairness
alone the main thread could lose every race for a lock.

`Screening!Fairness` is weak fairness of the workers alone, the increments they owe included.
Analysis threads may hang, the phone may vanish; `RequestsAnswered` rests on
`completed.wait(timeout)` only.

## 5. Proofs

All theorems hold for every value of the constants that the ASSUMEs allow: any number of
requests, deliveries, processes, numbers and openers, all limits, thresholds and scores. The
bounds of section 3 are bounds of the runs only; where a module names one as a constant
(`MaxChanges`, `LastDay`, ...), a theorem holds for each of its values.

What the ASSUMEs ask for beyond kinds of values: marks for "nothing there" are no values of
the thing itself (`NoProfile`, `NoResponse`, `NoFile`, `Absent`, ...), sets that are counted
are finite, limits are positive where a table that may hold nothing would be meaningless, and
configurations are valid ones, which is what `_validate` sees to. The interface asks for pages
of at least one row and for a limit of the stack above four (`MAX_DEPTH` is 12).

**Event path** (`EventPipelineProofs`). `PipelineInv` is inductive: `TypeOK`; where an event is
(`pc[r]` in a stored state exactly when it is queued, in the processor's hands or finished, and
in only one of these places); the unfinished count of the queue equals the queued events plus
the one in hand; the accept loop has ended and the workers of the snapshot are gone when the
waits were patient. `AnswersAreTrue` alone is not inductive: without distinctness an event
could be both queued and finished. `CleanStopProcessesAll` needs the unfinished count and that
no worker is left that could still store.

`CountersBalance` speaks of moments at which nobody is between two updates of a counter, so it
is not inductive at all. `BalanceInv` says by how much each pair of counters may differ: by the
workers in the one state between the two updates (`AdmissionInv`, `DropsInv`, `PeakInv`), and
by the events outstanding (`OutcomesInv`). Every step moves one request from one such set to
another, so cardinalities change by one and no sum has to be unfolded.

`PipelineRefinesService` shows that every step of a thread is a step of `EventService` or
changes nothing there. Most of it is about the backlog: a sequence with the event in hand in
front of the queue, which taking an event out of the queue must leave as it is.

**Decision** (`PolicyLemmas`, `DecisionProofs`). `PolicyLemmas` has what `Decide`, `Finalize`
and `Fallback` return: the objection list of `decide` is empty exactly when a block is
warranted, revalidation keeps a BLOCK exactly when it is still allowed, and a fallback never
blocks. `ContractInv` says that a BLOCK in a decision or response is consistent (recommended,
ACTIVE, no policy error, no emergency), from which `PartiesAgreed` with its parts `FailOpen`,
`ResponsesStored` and `BridgeUnderstands`, and the action property `BlocksWarranted` follow.

**Screening** (`ScreeningProofs`). `ScreeningInv` relates the threads: an id in a worker's
hands is in the cache, so two workers never hold the same one (`HandInv`); a request that
passed the question whether it is stored is still not stored when its own row is inserted
(`UniqueInv`), which without `HandInv` another worker could undo; an analysis blocks only a
call it has observed, and the observation says BLOCK unless another analysis of the same id
overruled it or it was pruned (`AnalysisInv`, `BlockInv`); feedback is about a rejected call,
and every rejection still to be counted has a confirmed row of its own (`FeedbackInv`), because the
counter runs behind the table by the feedback under way. `ScreenedOnce`,
`ConfirmationsAreTrue`, `BlocksAreObserved` and `ScreeningCountersBalance` follow or are parts.
The balance of the counters holds in every state: what a worker may owe in which phase is a
list (`OwedInv`), each delivery is in one of the sets the balance counts (in hand, about to be
received, screened, processed or failed), and every step moves one delivery from one of them
to the next, with the counter that lies between them (`Tallies`, `Counted`).
`VetoInv` adds where a veto that has lasted so far is noticed: the emergency in the step after
`finalizing`, the switch in the next, the mode in the third; a veto that came later need not be.

**Replay protection** (`DecisionProofs`). What is inductive is `RecentIsKnown`: an id is held
for a lifetime after its acceptance unless as many others as the cache holds have been accepted
since. When the cache is full the entry that goes is the oldest, so all the others held have
later turns, which are distinct (`TurnsFit`): there are `MaxEntries - 1` of them and the one
that is coming in, so at least `MaxEntries` turns lie behind it (`NewerFit`).

**Analyses of a number** (`DecisionProofs`). `ScoreIs` and `ConfidenceIs` turn the score and
the confidence, sums over the set of signals that hit, into sums of seven terms each. A sum over
a set is a fold, that is a recursive function on finite sets; that it has the values its
recursion says, and that they do not depend on the order, is shown by the smallest finite set
for which it could fail (`SmallestSubset`, `FoldIsSum`). What each signal adds to score and
confidence is a table (`BlackWorth`, `BlockedWorth`, ...), for every profile and every count.

`NobodyAccused` needs what the history can be (`HistoryInv`): without reports and blocks no
recorded event is suspicious, because the analysis that recorded it accused nobody either; and
there are no more suspicious events than events. `NoAccusation` itself says nothing of the
suspicious events the next analysis will count. `ListsRule` needs that the blacklist alone makes
an analysis sure enough (`BlacklistIsSure`). In `MoreEvidence` the score grows term by term
(`ScoreGrows`). The confidence does not: another signal enters its average and may lower it.
The action is kept all the same, since a score at which BALANCED or STRICT blocks takes so
many signals that the confidence is over what they ask for (`BalancedIsSure`, `StrictIsSure`),
and RELAXED reaches its score by the blacklist only (`RelaxedBound`). So the action depends on
the score alone (`ActionByScore`), which is the reason why the property holds.

**Trends** (`DecisionProofs`). That turning a history upside down turns the trend
(`NoDirectionFavoured`) is shown for each thing a trend is found from: the last scores and the
current one (`CurrentTurned`), the spread (`SpreadTurned`: the highest and the lowest score
change places), the steps that matter, by the places they lead to, with those that go up, down
or another way than the one before (`StepsTurned`), and the sums of the two halves
(`SumTurned`: the sum of the turned scores is a hundred for each less the sum). The thresholds
have to be the same in both directions, which is where the code could be wrong. For the
reputation's averages that is not enough when they are exactly ten points apart, because the
doubles of a history and of its mirror image are rounded at different places; the property
excepts that case and still asks that one of the two is not called by the wrong direction.

**Daemon lifecycle** (`DaemonLifecycleProofs`). `ExitLeavesNothing` needs that a closing daemon
has its own PID in `seen` (`TaskFits`), that its socket file is gone before it turns to the PID
file (`SocketFirst`), and that a file it created holds its PID by then, so that the comparison
succeeds (`UnwrittenIsFresh`). Nothing is assumed of who bears which PID or of how commands
overlap. `RunningFound`, `NeverRefused` and `StopTellsTruth` are about commands that come one at
a time and carry `Patient` as a hypothesis; without it they are false (section 6), with it
`Next` still has crashes at any point, lives with equal PIDs, other programs and daemons that
hang. A daemon that hangs is still under way for `Patient`, so the next command begins when it
was killed, by the `stop` that asked it or by a crash; `RunningFound` asks its files of it but not
that it listens, and `StopTellsTruth` covers the `stop` that kills it. `PatientInv`
says for every program counter what its daemon or command may rely on: there is one command and
one daemon, which files are whose (`FilesFollow`), and that what a command has read of the PID
file is still what it says or that the file is gone (`CommandFits`). That a command which acts
on a PID acts on the daemon that is alive is part of it; that is the step at which PIDs that
are given again would bite.

**Locks** (`SignalLockProofs`). The functions of `SignalLocks` are lists of steps; `CodeHolds`
shows of each, by the combinators they are built from, that it gives back what it takes in the
opposite order, holds at most `EventQueue._lock` when it wants another lock, and then wants the
mutex of `queue.Queue`. `LockInv` says that each lock a thread owns is held by exactly one call
on its stack, at its place in its function, and that on the main thread handlers run on top of
its own function. A circle then has no room: a thread other than main that holds what another
waits for holds `EventQueue._lock` and waits for the mutex; the owner of the mutex waits for
nothing, or is the main thread, which then holds `EventQueue._lock` too, which is a
contradiction. What is left is the main thread that waits for itself, which `NoCircularWait`
allows and `locks_stuck` exhibits.

**Settings** (`ControlProofs`). `SettingsTyped`: every configuration that is in force, about to
be put in force or about to be saved is valid, whatever is written by hand; it needs that a
process about to turn the switch was asked to (`SwitchIsAsked`). `HistoryInv` adds the rest.
`ArmedInv` says that before ACTIVE is confirmed, or in careful behaviors after emergency-off,
nothing blocks anywhere: not in the daemon, in no process, in no reload and not in the file;
each copy has to be in it, because each may be saved or put in force later. In careful behaviors
`AloneInv` says that one process is at work and that the file still has what it saved, and
`ArrivalInv` that somebody is still about to tell the daemon whatever it does not know.

**Interface** (`ControlProofs`). `UiInv` puts the user somewhere in the interface. `Depth` gives
every screen one of four depths; `MenuFits` goes through all menus and shows that what an entry
opens lies deeper than its screen, and that the first entry is enabled whatever the screen has
read. So the depths on a stack increase (`Sound`), which is why no screen covers itself and why
`MAX_DEPTH`, of which the proof uses that it is more than four, is out of reach; and a step of
the cursor ends on an enabled entry (`MoveFits`, the least of the places it reaches). `FrameOK`
says of every frame, not of the top alone, that it is sound for what it has read: a frame that
is covered comes back to the top by a refresh, and others may have deleted rows meanwhile. What a
prompt still asks for is held to lead deeper than the screen that asks, which does not change
until the last answer. `OwnSettingsShown` is kept because only tasks change the configuration
object of the process, and every task is followed by a refresh of the screen it was started
from (`Placed`). The dashboard below shows the settings as well and is not refreshed then: what
it says is old until the way back or home reads it again.

`AimIsKept` goes through the menus of the three live screens that have one. In a menu whose
keys are distinct the cursor finds its entry again, and if that is disabled goes to the next
one that is not (`StaysOrGoesOn`). In the daemon section what starting and stopping disables is
followed by what asks first (`DaemonAims`); on the dashboard only "start" goes, and the first
entry is a section then (`DashboardAims`); in the menu of screening the settings of the process
cannot have changed since the menu was built, which is `OwnSettingsShown` again, so that only the
marker and the daemon can disable an entry under the cursor (`ScreeningAims`).

**Database** (`StoreProofs`).

* Reputation: a trust command leaves the unexpired rows and its own, and no calculation adds
  any (`TrustLimited`); `ProfilesLimited` rests on it, since pruning either reaches the limit for
  profiles or leaves those of trusted numbers only; `TrustStays` needs that the instant
  `get_trust` compares with has passed (`SinceIsPast`). `HistoriesExplain` follows the newest row
  through saves and prunes, for two exceptions apart: a number is in `overwritten` from a save
  over what another calculation about it wrote to its next change that counts, and has a
  history all the same; it is in `revived` from a save of a profile that was pruned between
  read and save, by a calculation about any number, until it has a history.
* Contacts: `ContactInv` counts the contacts together with the numbers that clients have seen
  in the table and are about to refresh, because each of them may be removed, replaced and
  brought back. When a contact is added the table is under its limit and only the other clients
  can be refreshing one.
* Behavior: `NewestRows` numbers the rows of a SELECT by counting what comes before them in the
  order of days and ids; `Ranked` shows that the numbers are distinct and leave no gap. What a
  cleanup keeps is then as many as may stay (`TablesStayBounded`), and what it drops has that
  many later ones that stay (`NewestObservationsStay`).
* Migration: `EntriesInv` says that nobody is between the rows and their copy when there are
  rows to lose. `LabelsInv` and `ResumeInv` say for every table and version where an opener may
  be: what a migration that died has left is always something the next one resumes, except in
  the one stretch the property names.

Induction over natural numbers is available only for a set that has a name, as the fact that it
has a least element (`LeastMember`); counts are compared by cardinalities of sets, and sums over
finite sets are unfolded as described above.

Only model-checked is liveness under fairness, which is out of the prover's reach:
`StopTerminates`, `ClientsAnswered`, `QueuedEventsHandled`, `AskedDaemonsEnd`, `StopEnds` and
`RequestsAnswered`. Every other property of a passing run is stated by a theorem.

## 6. Findings

* `screening_unpersisted`: a comment in `_persist_screening_result` and the README promise
  ALLOW when the database is contended or unavailable; a BLOCK is returned all the same.
* `lifecycle_claim`: `_write_pid` is described as an atomic claim; a start-up that finds a
  PID file created and not yet written takes it for stale, removes it without comparing
  anything and claims it too. With IPC enabled one of them then fails
  to bind and leaves; if it is the second, the first keeps serving without a PID file.
* `locks_stuck`: `request_shutdown` is called from signal handlers and takes locks that the
  main thread may hold at that moment (`metrics()` every second, `Event.wait`,
  `Event.clear`); none is reentrant, so the daemon waits for itself and only SIGKILL ends it.
  SIGHUP has the same problem with the lock of the health monitor.

Seen while modelling, and stated where a property has to make room for it:

* A contact that is refreshed while another client removes it and a third fills the table
  exceeds the limit by one, for each further client (`ContactsBounded`).
* A request carrying a time in the future is still fresh after its entry expired, and at the
  exact last moment of its window entry and freshness end together (`AcceptedIsKnown`).
* A first-version database with an empty table of numbers, whose migration dies after the
  tables were exchanged and before the columns of `events` were added, is stamped as current
  by the next opener without those columns (`cut` in `MigrationSound`). Two migrations that
  overlap may map reputation labels twice and lose them (`alone`).
* If the daemon misses the notification of `emergency-off` and the marker is reset, it goes
  on in the ACTIVE mode it has in memory until it reloads, although the file says disabled;
  `EmergencyLasts` therefore speaks of commands that reach the daemon.
* Two writers of the settings file lose one's change, and an interface saves the settings
  it loaded when it was started; what is saved is valid all the same (`SettingsTyped`).
* RELAXED screening may let a number through that is on the blacklist: its analysis gives
  90 points and RELAXED asks for 92 (`ListsDecide`).
* A number with reports gains points from being scanned again, because the recorded verdicts
  count as suspicious events (`NoAccusation` asks for no reports).
* Averages exactly ten points apart may make a trend STABLE by rounding, and the mirror image
  of the same history WORSENING or IMPROVING (`NoDirectionFavoured`): 9.999999999999993 is under
  the threshold and -10.0 is not over it.
* A calculation may save a profile that the pruning of another one, about another number, has
  deleted since it was read; if the change is small the profile comes back without a history
  (`revived` in `HistoryExplainsRisk`).
* A block's observation may be pruned before its outcome is written, by the transaction that
  adds one for another call (`BlocksAreObserved`).
* When others set the emergency marker while the cursor is on "active" in the menu of screening,
  the next refresh moves it to "enable" or "disable", which run without a question
  (`RefreshKeepsAim`). Digits are not covered by that property: on the dashboard they shift by
  one when the daemon starts or stops.
* Of two reloads that overlap the one that read first may assign last, and the older
  configuration stays in force until the next reload; that it forbids blocks while it is in force
  is what `ForbiddenNeverBlocks` says.

## 7. Not modelled

Text: formatting, logging, translation (`ui/i18n`), themes and tables of the interface, what
screens print, number parsing, JSON, vCard and CSV. These hold no state and take no decision
a property here could be about; they are also the largest files. Input and output: SQLite
itself (a transaction is a step), file permissions, installer, doctor, export.

Left out of the modelled parts: the queue gauge of `_sync_runtime_metrics` and per-verdict
counters (assigned, never read by control); the blocking form of `put` (no caller in the
daemon); the arithmetic of reputation scores and confidence, which is arbitrary in
`ReputationStore`; the pattern rules that only read counts; the branches of `decide` for
invalid policy names, modes and types, which no validated configuration reaches; the policy
reads its configuration and the emergency marker in one step, because the response is
revalidated against both; `process.start()`, which only tests call; profiles of settings
other than the screening ones; `scoring.py`, which the rules engine replaced. A reload keeps
the old value of settings that need a restart (`service.py:182-200`); they are none of those
in the models. The parts of the database never interleave with each other in a run; they share no table, and a
connection that finds the database locked fails, which every part has as a step.

Time: timeouts are choices; in `Screening` a cache entry may expire at any time at which no
worker has its request in hand (lifetimes start at 30 s, requests end within 5 s). Clocks are
not set back.
