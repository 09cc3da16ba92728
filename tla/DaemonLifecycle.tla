-------------------------- MODULE DaemonLifecycle --------------------------
(***************************************************************************)
(* Who owns the daemon's PID file and its Unix socket: start-ups,          *)
(* shut-downs, crashes, the command line's start and stop, and processes   *)
(* that get a process identifier again.                                    *)
(*                                                                         *)
(* A "life" is one process from its birth to its death; two lives may bear *)
(* the same PID, never at the same time.  /proc's start time, which stop   *)
(* compares, tells lives apart; everything else in the code knows a        *)
(* process by its PID alone.  Each file-system call, each signal and each  *)
(* look at /proc is a step of its own.                                     *)
(*                                                                         *)
(* Abstracted: the legacy PID path and the configured one are one file,    *)
(* all files belong to the user, ipc_enabled is true, and the work between *)
(* two touches of the files is left out (EventPipeline has the shutdown).  *)
(***************************************************************************)
EXTENDS Naturals, FiniteSets

CONSTANTS Daemons,     \* lives that run `python -m callshield _run-fg`
          Others,      \* lives of unrelated programs
          Commands,    \* invocations of `callshield start` or `callshield stop`
          PidOf,       \* the PID of each life
          Patient,     \* TRUE: a command begins only when nothing is under way
          NoFile, Unreadable, NoLife

Lives == Daemons \cup Others
Pids  == {PidOf[l] : l \in Lives}

ASSUME LivesAssumption == /\ Daemons \cap Others = {}
                          /\ Lives \cap Commands = {}
                          /\ PidOf \in [Lives -> Nat]
                          /\ Patient \in BOOLEAN
                          /\ NoLife \notin Lives
                          /\ {NoFile, Unreadable} \cap Nat = {} /\ NoFile # Unreadable
                          /\ NoFile \notin [by : Daemons, written : BOOLEAN]

Actors == Lives \cup Commands

VARIABLES pc,         \* where each life and each command is
          task,       \* on whose behalf it checks or clears the files
          seen,       \* what it last read in the PID file
          pidFile,    \* NoFile, or who created it and whether its PID is written
          endpoint,   \* the life that bound the socket file, or NoLife
          listening,  \* lives whose listener accepts connections
          asked,      \* lives sent SIGTERM, SIGKILL or the IPC stop command
          hung,       \* daemons whose signal handler waits for its own thread for ever
          chosen,     \* the life a command started, or whose identity it took
          report      \* what each command told the user

vars  == <<pc, task, seen, pidFile, endpoint, listening, asked, hung, chosen, report>>
files == <<pidFile, endpoint>>

-----------------------------------------------------------------------------
(* Processes and files, as the helpers of daemon/process.py see them.      *)

Alive(l) == pc[l] \notin {"unborn", "dead"}

\* _read_pid_from: nothing to read until the creator has written its PID.
Recorded == IF pidFile = NoFile THEN NoFile
            ELSE IF pidFile.written THEN PidOf[pidFile.by] ELSE Unreadable

\* os.kill(pid, 0)
Holders(pid)  == {l \in Lives : PidOf[l] = pid /\ Alive(l)}
PidAlive(pid) == Holders(pid) # {}

\* _pid_is_callshield: /proc shows the exact foreground command.
IsCallshield(pid) == Holders(pid) \cap Daemons # {}

\* status() on what was read from the record
Running(read) == read \in Pids /\ PidAlive(read) /\ IsCallshield(read)

\* _socket_is_active: a connect succeeds only while the owner listens.
SocketActive == endpoint \in listening

\* A process ends, whatever the reason: the kernel closes its listener.
Ends(l) == /\ pc' = [pc EXCEPT ![l] = "dead"]
           /\ listening' = listening \ {l}

Goes(a, where) == pc' = [pc EXCEPT ![a] = where]

Reports(c, what) == /\ Goes(c, "finished")
                    /\ report' = [report EXCEPT ![c] = what]

-----------------------------------------------------------------------------
(* Clearing, shared by recovery, shutdown and the command line.            *)

AfterPid(a) == IF task[a] = "recover" THEN "probe"
               ELSE IF task[a] = "claim" THEN "create"
               ELSE IF task[a] = "close" THEN "exit" ELSE "clearSocket"

\* What a stop command has to say once the files are cleared.
Cleared(a) == IF task[a] = "notRunning" THEN "not running"
              ELSE IF task[a] = "discard" THEN "recovered"
              ELSE IF task[a] = "unverified" THEN "unverified" ELSE "stopped"

\* recover_runtime gives up if _clear_socket has removed nothing.
AfterSocket(a, removed) ==
  \/ /\ task[a] = "start"
     /\ Goes(a, "spawn") /\ UNCHANGED <<report, listening>>
  \/ /\ task[a] \in {"stop", "notRunning", "discard", "unverified"}
     /\ Reports(a, Cleared(a)) /\ UNCHANGED listening
  \/ /\ task[a] = "recover" /\ removed
     /\ Goes(a, "claim") /\ UNCHANGED <<report, listening>>
  \/ /\ task[a] = "recover" /\ ~removed
     /\ Ends(a) /\ UNCHANGED report
  \/ /\ task[a] = "unbind"
     /\ Goes(a, "closing") /\ UNCHANGED <<report, listening>>
  \/ /\ task[a] = "close"
     /\ Goes(a, "clearPid") /\ UNCHANGED <<report, listening>>

\* _safe_unlink_pid: without an expected PID nothing is compared.
ComparePid(a) ==
  /\ pc[a] = "clearPid"
  /\ Goes(a, IF pidFile # NoFile /\ seen[a] \in {Unreadable, Recorded}
             THEN "unlinkPid" ELSE AfterPid(a))
  /\ UNCHANGED <<task, seen, files, listening, asked, hung, chosen, report>>

UnlinkPid(a) ==
  /\ pc[a] = "unlinkPid"
  /\ pidFile' = NoFile
  /\ Goes(a, AfterPid(a))
  /\ UNCHANGED <<task, seen, endpoint, listening, asked, hung, chosen, report>>

\* _clear_socket: probe again, then unlink.
ProbeSocket(a) ==
  /\ pc[a] = "clearSocket"
  /\ IF endpoint # NoLife /\ ~SocketActive
     THEN Goes(a, "unlinkSocket") /\ UNCHANGED <<report, listening>>
     ELSE AfterSocket(a, FALSE)
  /\ UNCHANGED <<task, seen, files, asked, hung, chosen>>

UnlinkSocket(a) ==
  /\ pc[a] = "unlinkSocket"
  /\ endpoint' = NoLife
  /\ AfterSocket(a, endpoint # NoLife)
  /\ UNCHANGED <<task, seen, pidFile, asked, hung, chosen>>

ReadStatus(a) ==
  /\ pc[a] = "status"
  /\ seen' = [seen EXCEPT ![a] = Recorded]
  /\ Goes(a, "judge")
  /\ UNCHANGED <<task, files, listening, asked, hung, chosen, report>>

-----------------------------------------------------------------------------
(* The daemon: recover_runtime, _write_pid, _start_ipc, graceful shutdown. *)

\* Refused: the exception leaves start() before its try, nothing is cleaned.
Refuse(d) == /\ Ends(d)
             /\ UNCHANGED <<task, seen, files, asked, hung, chosen, report>>

RecoverJudge(d) ==
  /\ pc[d] = "judge"
  /\ \/ /\ seen[d] = NoFile
        /\ Goes(d, "probe")
        /\ UNCHANGED <<task, seen, files, listening, asked, hung, chosen, report>>
     \/ Running(seen[d]) /\ Refuse(d)
     \/ /\ seen[d] # NoFile /\ ~Running(seen[d])
        /\ Goes(d, "clearPid")
        /\ UNCHANGED <<task, seen, files, listening, asked, hung, chosen, report>>

RecoverProbe(d) ==
  /\ pc[d] = "probe"
  /\ \/ SocketActive /\ Refuse(d)
     \/ /\ ~SocketActive
        /\ Goes(d, IF endpoint = NoLife THEN "claim" ELSE "clearSocket")
        /\ UNCHANGED <<task, seen, files, listening, asked, hung, chosen, report>>

ClaimRead(d) ==
  /\ pc[d] = "claim"
  /\ seen' = [seen EXCEPT ![d] = Recorded]
  /\ Goes(d, IF pidFile = NoFile THEN "create" ELSE "claimJudge")
  /\ UNCHANGED <<task, files, listening, asked, hung, chosen, report>>

\* A PID equal to one's own counts as a running daemon: IsCallshield holds of it.
ClaimJudge(d) ==
  /\ pc[d] = "claimJudge"
  /\ \/ Running(seen[d]) /\ Refuse(d)
     \/ /\ ~Running(seen[d])
        /\ task' = [task EXCEPT ![d] = "claim"]
        /\ Goes(d, "clearPid")
        /\ UNCHANGED <<seen, files, listening, asked, hung, chosen, report>>

\* os.open with O_CREAT | O_EXCL
ClaimCreate(d) ==
  /\ pc[d] = "create"
  /\ \/ pidFile # NoFile /\ Refuse(d)
     \/ /\ pidFile = NoFile
        /\ pidFile' = [by |-> d, written |-> FALSE]
        /\ Goes(d, "write")
        /\ UNCHANGED <<task, seen, endpoint, listening, asked, hung, chosen, report>>

\* The write goes to the file this life created, which may be unlinked by now.
\* The signal handlers are installed next.
ClaimWrite(d) ==
  /\ pc[d] = "write"
  /\ pidFile' = IF pidFile # NoFile /\ pidFile.by = d
                THEN [by |-> d, written |-> TRUE] ELSE pidFile
  /\ Goes(d, "claimed")
  /\ UNCHANGED <<task, seen, endpoint, listening, asked, hung, chosen, report>>

StartIpc(d) ==
  /\ pc[d] = "claimed"
  /\ Goes(d, IF endpoint = NoLife THEN "bind" ELSE "closing")
  /\ UNCHANGED <<task, seen, files, listening, asked, hung, chosen, report>>

Bind(d) ==
  /\ pc[d] = "bind"
  /\ \/ /\ endpoint = NoLife
        /\ endpoint' = d
        /\ Goes(d, "listen")
        /\ UNCHANGED <<task, pidFile>>
     \/ /\ endpoint # NoLife                        \* EADDRINUSE
        /\ task' = [task EXCEPT ![d] = "unbind"]
        /\ Goes(d, "clearSocket")
        /\ UNCHANGED files
  /\ UNCHANGED <<seen, listening, asked, hung, chosen, report>>

\* Mutant: start() clears the shutdown event.
ListenForgetting(d) ==
  /\ pc[d] = "listen"
  /\ listening' = listening \cup {d}
  /\ asked' = asked \ {d}
  /\ Goes(d, "running")
  /\ UNCHANGED <<task, seen, files, hung, chosen, report>>

Listen(d) ==
  /\ pc[d] = "listen"
  /\ listening' = listening \cup {d}
  /\ Goes(d, "running")
  /\ UNCHANGED <<task, seen, files, asked, hung, chosen, report>>

\* Mutant: the socket is cleared and the PID file forgotten.
CloseKeepingPid(d) ==
  /\ pc[d] = "closing" \/ (pc[d] = "running" /\ d \in asked)
  /\ listening' = listening \ {d}
  /\ task' = [task EXCEPT ![d] = "close"]
  /\ Goes(d, "clearSocket")
  /\ UNCHANGED <<seen, files, asked, hung, chosen, report>>

\* _do_graceful_shutdown: close the listener, clear the socket, clear its own PID.
Close(d) ==
  /\ pc[d] = "closing" \/ (pc[d] = "running" /\ d \in asked)
  /\ listening' = listening \ {d}
  /\ task' = [task EXCEPT ![d] = "close"]
  /\ seen' = [seen EXCEPT ![d] = PidOf[d]]
  /\ Goes(d, "clearSocket")
  /\ UNCHANGED <<files, asked, hung, chosen, report>>

Exit(d) == pc[d] = "exit" /\ Refuse(d)

\* The main thread does all this, unless a handler on top of it hangs.
DaemonStep(d) ==
  /\ d \notin hung
  /\ \/ ReadStatus(d) \/ RecoverJudge(d) \/ RecoverProbe(d)
     \/ ComparePid(d) \/ UnlinkPid(d) \/ ProbeSocket(d) \/ UnlinkSocket(d)
     \/ ClaimRead(d) \/ ClaimJudge(d) \/ ClaimCreate(d) \/ ClaimWrite(d)
     \/ StartIpc(d) \/ Bind(d) \/ Listen(d) \/ Close(d) \/ Exit(d)

\* _stop_ipc_accepting, by a handler before it hangs or by a worker of such a daemon.
StopAccepting(d) ==
  /\ d \in hung \cap listening
  /\ listening' = listening \ {d}
  /\ UNCHANGED <<pc, task, seen, files, asked, hung, chosen, report>>

-----------------------------------------------------------------------------
(* The command line: _cmd_start, _cmd_stop and process.stop().             *)

Quiet == /\ \A c \in Commands : pc[c] \in {"unborn", "finished"}
         /\ \A d \in Daemons : pc[d] \in {"unborn", "running", "dead"}
         /\ \A d \in Daemons : pc[d] = "running" => d \notin asked

Begin(c) ==
  /\ pc[c] = "unborn"
  /\ Patient => Quiet
  /\ \E what \in {"start", "stop"} : task' = [task EXCEPT ![c] = what]
  /\ Goes(c, "status")
  /\ UNCHANGED <<seen, files, listening, asked, hung, chosen, report>>

\* Mutant: what the PID file holds is cleared before it is judged.
StartClearingFirst(c) ==
  /\ pc[c] = "judge" /\ task[c] = "start"
  /\ Goes(c, IF seen[c] = NoFile THEN "spawn" ELSE "clearPid")
  /\ UNCHANGED <<task, seen, files, listening, asked, hung, chosen, report>>

\* Mutant: the command leaves stale files to the daemon it starts.
StartWithoutClearing(c) ==
  /\ pc[c] = "judge" /\ task[c] = "start"
  /\ IF Running(seen[c]) THEN Reports(c, "already running")
     ELSE Goes(c, "spawn") /\ UNCHANGED report
  /\ UNCHANGED <<task, seen, files, listening, asked, hung, chosen>>

StartJudge(c) ==
  /\ pc[c] = "judge" /\ task[c] = "start"
  /\ \/ Running(seen[c]) /\ Reports(c, "already running")
     \/ /\ ~Running(seen[c])
        /\ Goes(c, IF seen[c] = NoFile THEN "spawn" ELSE "clearPid")
        /\ UNCHANGED report
  /\ UNCHANGED <<task, seen, files, listening, asked, hung, chosen>>

\* subprocess.Popen; the kernel gives out a PID nobody bears.
Spawn(c) ==
  /\ pc[c] = "spawn"
  /\ \E d \in Daemons :
        /\ pc[d] = "unborn"
        /\ ~PidAlive(PidOf[d])
        /\ pc' = [pc EXCEPT ![c] = "await", ![d] = "status"]
        /\ task' = [task EXCEPT ![d] = "recover"]
        /\ chosen' = [chosen EXCEPT ![c] = d]
  /\ UNCHANGED <<seen, files, listening, asked, hung, report>>

\* SIGTERM: the handlers are in place once the PID is written.
HandlesSignals(d) ==
  \/ pc[d] \in {"claimed", "bind", "listen", "running", "closing", "exit"}
  \/ pc[d] \in {"clearSocket", "unlinkSocket"} /\ task[d] \in {"unbind", "close"}
  \/ pc[d] \in {"clearPid", "unlinkPid"} /\ task[d] = "close"

\* The caller moves on; a life that handles no signal ends at once.  The handler takes
\* locks that the thread it interrupts may hold (request_shutdown): then it waits for
\* ever.  SignalLocks has the locks and says when.
Signalled(c, where, targets, deadly) ==
  LET ended == {l \in targets : Alive(l) /\ (deadly \/ (l \in Daemons /\ ~HandlesSignals(l)))}
  IN  /\ asked' = asked \cup targets
      /\ \E stuck \in SUBSET ((targets \cap Daemons) \ ended) : hung' = hung \cup stuck
      /\ listening' = listening \ ended
      /\ pc' = [a \in Actors |-> IF a = c THEN where
                                 ELSE IF a \in ended THEN "dead" ELSE pc[a]]

\* Ready, or the child has ended, or five seconds are over and it is terminated.
Await(c) ==
  /\ pc[c] = "await"
  /\ \/ /\ Running(Recorded) /\ SocketActive
        /\ Reports(c, "started")
        /\ UNCHANGED <<listening, asked, hung>>
     \/ /\ ~Alive(chosen[c])
        /\ Reports(c, "failed")
        /\ UNCHANGED <<listening, asked, hung>>
     \/ /\ Alive(chosen[c])
        /\ Signalled(c, "finished", {chosen[c]}, FALSE)
        /\ report' = [report EXCEPT ![c] = "failed"]
  /\ UNCHANGED <<task, seen, files, chosen>>

StopJudge(c) ==
  /\ pc[c] = "judge" /\ task[c] = "stop"
  /\ \/ /\ seen[c] = NoFile
        /\ task' = [task EXCEPT ![c] = "notRunning"]
        /\ Goes(c, "clearSocket")
     \/ /\ seen[c] # NoFile /\ ~Running(seen[c])
        /\ task' = [task EXCEPT ![c] = "discard"]
        /\ Goes(c, "clearPid")
     \/ /\ Running(seen[c])
        /\ Goes(c, "request")
        /\ UNCHANGED task
  /\ UNCHANGED <<seen, files, listening, asked, hung, chosen, report>>

\* The IPC command "stop"; a daemon that is busy or gone leads to process.stop().
StopRequest(c) ==
  /\ pc[c] = "request"
  /\ \/ /\ SocketActive
        /\ asked' = asked \cup {endpoint}
        /\ Goes(c, "poll")
     \/ /\ Goes(c, "record")
        /\ UNCHANGED asked
  /\ UNCHANGED <<task, seen, files, listening, hung, chosen, report>>

\* Mutant: the answer to the IPC command is taken for the end of the daemon.
PollAtOnce(c) ==
  /\ pc[c] = "poll"
  /\ Reports(c, "stopped")
  /\ UNCHANGED <<task, seen, files, listening, asked, hung, chosen>>

StopPoll(c) ==
  /\ pc[c] = "poll"
  /\ \/ Recorded = NoFile /\ Reports(c, "stopped")
     \/ Goes(c, "record") /\ UNCHANGED report
  /\ UNCHANGED <<task, seen, files, listening, asked, hung, chosen>>

StopRecord(c) ==
  /\ pc[c] = "record"
  /\ seen' = [seen EXCEPT ![c] = Recorded]
  /\ IF Recorded = NoFile THEN Reports(c, "unverified")
     ELSE Goes(c, "verify") /\ UNCHANGED report
  /\ UNCHANGED <<task, files, listening, asked, hung, chosen>>

\* Alive and CALLSHIELD's, then the start time of that process.
StopVerify(c) ==
  /\ pc[c] = "verify"
  /\ IF Running(seen[c])
     THEN /\ Goes(c, "terminate")
          /\ chosen' = [chosen EXCEPT ![c] = CHOOSE l \in Holders(seen[c]) : TRUE]
          /\ UNCHANGED task
     ELSE /\ Goes(c, "clearPid")
          /\ task' = [task EXCEPT ![c] = IF seen[c] \in Pids /\ PidAlive(seen[c])
                                         THEN "unverified" ELSE "stop"]
          /\ UNCHANGED chosen
  /\ UNCHANGED <<seen, files, listening, asked, hung, report>>

StopTerminate(c) ==
  /\ pc[c] = "terminate"
  /\ Signalled(c, IF PidAlive(seen[c]) THEN "wait" ELSE "clearPid", Holders(seen[c]), FALSE)
  /\ UNCHANGED <<task, seen, files, chosen, report>>

\* Gone, or the timeout is over and the identity is looked at again.
StopWait(c) ==
  /\ pc[c] = "wait"
  /\ Goes(c, IF ~PidAlive(seen[c]) THEN "clearPid"
             ELSE IF Holders(seen[c]) = {chosen[c]} THEN "kill" ELSE "final")
  /\ UNCHANGED <<task, seen, files, listening, asked, hung, chosen, report>>

StopKill(c) ==
  /\ pc[c] = "kill"
  /\ Signalled(c, "final", Holders(seen[c]), TRUE)
  /\ UNCHANGED <<task, seen, files, chosen, report>>

StopFinal(c) ==
  /\ pc[c] = "final"
  /\ IF PidAlive(seen[c]) THEN Reports(c, "error") ELSE Goes(c, "clearPid") /\ UNCHANGED report
  /\ UNCHANGED <<task, seen, files, listening, asked, hung, chosen>>

CommandStep(c) ==
  \/ ReadStatus(c) \/ ComparePid(c) \/ UnlinkPid(c) \/ ProbeSocket(c) \/ UnlinkSocket(c)
  \/ StartJudge(c) \/ Spawn(c) \/ Await(c)
  \/ StopJudge(c) \/ StopRequest(c) \/ StopPoll(c) \/ StopRecord(c) \/ StopVerify(c)
  \/ StopTerminate(c) \/ StopWait(c) \/ StopKill(c) \/ StopFinal(c)

-----------------------------------------------------------------------------
(* The rest of the machine.                                                *)

\* A daemon is killed or fails, at any moment; an unrelated program ends.
Crash(l) == /\ Alive(l)
            /\ Refuse(l)

\* An unrelated program starts and gets a PID nobody bears.
Appear(o) == /\ pc[o] = "unborn"
             /\ ~PidAlive(PidOf[o])
             /\ Goes(o, "other")
             /\ UNCHANGED <<task, seen, files, listening, asked, hung, chosen, report>>

Init == /\ pc = [a \in Actors |-> "unborn"]
        /\ task = [a \in Actors |-> "none"]
        /\ seen = [a \in Actors |-> NoFile]
        /\ pidFile = NoFile /\ endpoint = NoLife
        /\ listening = {} /\ asked = {} /\ hung = {}
        /\ chosen = [c \in Commands |-> NoLife]
        /\ report = [c \in Commands |-> "none"]

Next == \/ \E d \in Daemons : DaemonStep(d) \/ StopAccepting(d)
        \/ \E c \in Commands : Begin(c) \/ CommandStep(c)
        \/ \E l \in Lives : Crash(l)
        \/ \E o \in Others : Appear(o)

Spec == Init /\ [][Next]_vars

\* Processes that can run do, a daemon that hangs cannot; nothing says that a crash or a
\* command ever comes.
Fairness == /\ \A d \in Daemons : WF_vars(DaemonStep(d))
            /\ \A c \in Commands : WF_vars(CommandStep(c))

FairSpec == Spec /\ Fairness

-----------------------------------------------------------------------------
(* Properties.                                                             *)

DaemonPcs == {"unborn", "status", "judge", "probe", "claim", "claimJudge", "create",
              "write", "claimed", "bind", "listen", "running", "closing", "exit",
              "clearPid", "unlinkPid", "clearSocket", "unlinkSocket", "dead"}
CommandPcs == {"unborn", "status", "judge", "spawn", "await", "request", "poll", "record",
               "verify", "terminate", "wait", "kill", "final", "finished",
               "clearPid", "unlinkPid", "clearSocket", "unlinkSocket"}
OtherPcs   == {"unborn", "other", "dead"}
DaemonTasks  == {"none", "recover", "claim", "unbind", "close"}
CommandTasks == {"none", "start", "stop", "notRunning", "discard", "unverified"}
Messages == {"none", "already running", "started", "failed", "not running",
             "recovered", "stopped", "unverified", "error"}

PcOK == /\ pc \in [Actors -> DaemonPcs \cup CommandPcs \cup OtherPcs]
        /\ \A d \in Daemons : pc[d] \in DaemonPcs
        /\ \A c \in Commands : pc[c] \in CommandPcs
        /\ \A o \in Others : pc[o] \in OtherPcs

TaskOK == /\ task \in [Actors -> DaemonTasks \cup CommandTasks]
          /\ \A d \in Daemons : task[d] \in DaemonTasks
          /\ \A c \in Commands : task[c] \in CommandTasks

FilesOK == /\ pidFile \in {NoFile} \cup [by : Daemons, written : BOOLEAN]
           /\ endpoint \in Daemons \cup {NoLife}
           /\ seen \in [Actors -> Pids \cup {NoFile, Unreadable}]

KnownOK == /\ asked \subseteq Lives
           /\ hung \subseteq Daemons \cap asked
           /\ chosen \in [Commands -> Lives \cup {NoLife}]
           /\ \A c \in Commands : pc[c] = "await" => chosen[c] \in Daemons
           /\ report \in [Commands -> Messages]

ListenersRun == listening \subseteq {d \in Daemons : pc[d] = "running"}

TypeOK == PcOK /\ TaskOK /\ FilesOK /\ KnownOK /\ ListenersRun

Claimed(d) == pc[d] \in {"write", "claimed", "bind", "listen", "running"}

\* At most one process at a time has the PID file claimed and is starting or
\* serving (_write_pid: "Atomically claim the PID file for the current process").
ClaimIsExclusive == \A d, e \in Daemons : Claimed(d) /\ Claimed(e) => d = e

\* A daemon that serves can be found: the PID file names it and the socket file is
\* the one it listens on; without either, status says STOPPED and stop stops nothing.
\* One that hangs keeps both but may not listen.
RunningIsFound ==
  /\ TypeOK
  /\ \A d \in Daemons : pc[d] = "running" =>
        /\ pidFile = [by |-> d, written |-> TRUE] /\ endpoint = d
        /\ SocketActive \/ d \in hung

\* Whatever a crash left behind (a PID file whose PID now belongs to somebody else
\* or to the new daemon itself, a dead socket), a daemon launched by the start
\* command is neither refused by recover_runtime or _write_pid nor fails in
\* _start_ipc.
LeftoversNeverRefuse ==
  [][\A d \in Daemons : DaemonStep(d) /\ pc'[d] \in {"dead", "closing"} => pc[d] = "exit"]_vars

\* When stop says the daemon is stopped, no daemon is left but one that has nothing
\* left to do, and neither file is there, even if the daemon hung at the first signal.
StoppedIsTrue ==
  [][\A c \in Commands : report'[c] = "stopped" /\ report[c] # "stopped" =>
        /\ \A d \in Daemons : Alive(d) => pc[d] = "exit"
        /\ pidFile' = NoFile /\ endpoint' = NoLife]_vars

\* A daemon that shuts down in order leaves nothing of its own, whoever else starts,
\* stops or clears meanwhile (the end of _do_graceful_shutdown).
ExitLeavesNothing ==
  \A d \in Daemons : pc[d] = "exit" =>
     endpoint # d /\ (pidFile # NoFile => pidFile.by # d)

\* What ExitLeavesNothing rests on: where a daemon may be for which task, ...
TaskFits ==
  \A d \in Daemons :
     /\ pc[d] \in {"status", "judge", "probe"} => task[d] = "recover"
     /\ pc[d] \in {"clearPid", "unlinkPid"} => task[d] \in {"recover", "claim", "close"}
     /\ pc[d] \in {"clearSocket", "unlinkSocket"} => task[d] \in {"recover", "unbind", "close"}
     /\ task[d] = "close" =>
           /\ pc[d] \in {"clearSocket", "unlinkSocket", "clearPid", "unlinkPid", "exit", "dead"}
           /\ seen[d] = PidOf[d]

\* ... a PID file without a PID belongs to a daemon about to write it, or to a dead one, ...
UnwrittenIsFresh ==
  pidFile # NoFile /\ ~pidFile.written => pc[pidFile.by] \in {"write", "dead"}

\* ... and the socket file is gone before a daemon that closes clears its PID.
SocketFirst ==
  \A d \in Daemons :
     task[d] = "close" /\ pc[d] \in {"clearPid", "unlinkPid"} => endpoint # d

LifecycleInv == TypeOK /\ TaskFits /\ UnwrittenIsFresh /\ SocketFirst /\ ExitLeavesNothing

\* A stop request is never lost, in whatever phase of its start-up it reaches the
\* daemon, by a signal or by IPC, unless the signal handler waits for the very thread it
\* interrupted (request_shutdown): such a daemon stays until it is killed.
AskedDaemonsEnd == \A d \in Daemons : d \in asked ~> (pc[d] = "dead" \/ d \in hung)
=============================================================================
