----------------------- MODULE DaemonLifecycleProofs -----------------------
(***************************************************************************)
(* For any number of daemons, commands and unrelated programs: the type    *)
(* invariant; that a daemon which shuts down in order leaves neither its   *)
(* socket file nor its PID file behind; and, while commands come one at a  *)
(* time, that a serving daemon can be found, that leftovers of a crash     *)
(* refuse no start, and that stop tells the truth.                         *)
(***************************************************************************)
EXTENDS DaemonLifecycle, TLAPS

USE DEF Goes, Reports, files

\* What happens to a life without a step of its main thread or of a command.
Outside(l) == \/ Crash(l)
              \/ l \in Others /\ Appear(l)
              \/ l \in Daemons /\ StopAccepting(l)

-----------------------------------------------------------------------------
(* The parts of the type invariant, one lemma each.                        *)

\* Every actor stays in a phase of its own kind, whatever clearing it shares.
LEMMA PcStep ==
  ASSUME TypeOK, Next
  PROVE  PcOK'
<1> USE LivesAssumption DEF TypeOK, Actors, Lives, PcOK, DaemonPcs, CommandPcs, OtherPcs
<1>1. ASSUME NEW a \in Daemons \cup Commands, ReadStatus(a) \/ ComparePid(a) \/ UnlinkPid(a)
      PROVE  PcOK'
  BY <1>1 DEF ReadStatus, ComparePid, UnlinkPid, AfterPid, TaskOK, DaemonTasks, CommandTasks
<1>2. ASSUME NEW a \in Daemons \cup Commands, ProbeSocket(a)
      PROVE  PcOK'
  BY <1>2, SMTT(30) DEF ProbeSocket, AfterSocket, Ends, TaskOK, DaemonTasks, CommandTasks
<1>3. ASSUME NEW a \in Daemons \cup Commands, UnlinkSocket(a)
      PROVE  PcOK'
  BY <1>3, SMTT(30) DEF UnlinkSocket, AfterSocket, Ends, TaskOK, DaemonTasks, CommandTasks
<1>4. ASSUME NEW d \in Daemons,
             \/ RecoverJudge(d) \/ RecoverProbe(d) \/ ClaimRead(d) \/ ClaimJudge(d)
             \/ ClaimCreate(d) \/ ClaimWrite(d) \/ StartIpc(d) \/ Bind(d) \/ Listen(d)
             \/ Close(d) \/ Exit(d)
      PROVE  PcOK'
  BY <1>4 DEF RecoverJudge, RecoverProbe, ClaimRead, ClaimJudge, ClaimCreate, ClaimWrite,
              StartIpc, Bind, Listen, Close, Exit, Refuse, Ends
<1>5. ASSUME NEW c \in Commands,
             \/ Begin(c) \/ StartJudge(c) \/ StopJudge(c) \/ StopRequest(c) \/ StopPoll(c)
             \/ StopRecord(c) \/ StopVerify(c) \/ StopWait(c) \/ StopFinal(c)
      PROVE  PcOK'
  <2>1. \E where \in CommandPcs : pc' = [pc EXCEPT ![c] = where]
    BY <1>5 DEF Begin, StartJudge, StopJudge, StopRequest, StopPoll, StopRecord, StopVerify,
                StopWait, StopFinal
  <2> QED
    BY <2>1
<1>6. ASSUME NEW c \in Commands, Spawn(c)
      PROVE  PcOK'
  BY <1>6 DEF Spawn
<1>7. ASSUME NEW c \in Commands, Await(c) \/ StopTerminate(c) \/ StopKill(c)
      PROVE  PcOK'
  BY <1>7 DEF Await, StopTerminate, StopKill, Signalled, Alive, Holders
<1>8. ASSUME NEW l \in Lives, Outside(l)
      PROVE  PcOK'
  BY <1>8 DEF Outside, Crash, Refuse, Ends, Appear, StopAccepting
<1> QED
  BY <1>1, <1>2, <1>3, <1>4, <1>5, <1>6, <1>7, <1>8
  DEF Next, Outside, DaemonStep, CommandStep, Lives

\* A daemon's task is a daemon's, a command's a command's.
LEMMA TaskStep ==
  ASSUME TypeOK, Next
  PROVE  TaskOK'
<1> USE LivesAssumption DEF TypeOK, Actors, Lives, TaskOK, DaemonTasks, CommandTasks
<1>1. ASSUME NEW a \in Daemons \cup Commands,
             \/ ReadStatus(a) \/ ComparePid(a) \/ UnlinkPid(a)
             \/ ProbeSocket(a) \/ UnlinkSocket(a)
      PROVE  TaskOK'
  BY <1>1 DEF ReadStatus, ComparePid, UnlinkPid, ProbeSocket, UnlinkSocket, AfterSocket
<1>2. ASSUME NEW d \in Daemons,
             \/ RecoverJudge(d) \/ RecoverProbe(d) \/ ClaimRead(d) \/ ClaimJudge(d)
             \/ ClaimCreate(d) \/ ClaimWrite(d) \/ StartIpc(d) \/ Bind(d) \/ Listen(d)
             \/ Close(d) \/ Exit(d)
      PROVE  TaskOK'
  BY <1>2 DEF RecoverJudge, RecoverProbe, ClaimRead, ClaimJudge, ClaimCreate, ClaimWrite,
              StartIpc, Bind, Listen, Close, Exit, Refuse
<1>3. ASSUME NEW c \in Commands,
             \/ Begin(c) \/ StartJudge(c) \/ Spawn(c) \/ Await(c) \/ StopJudge(c)
             \/ StopRequest(c) \/ StopPoll(c) \/ StopRecord(c) \/ StopVerify(c)
             \/ StopTerminate(c) \/ StopWait(c) \/ StopKill(c) \/ StopFinal(c)
      PROVE  TaskOK'
  BY <1>3, ZenonT(60)
  DEF Begin, StartJudge, Spawn, Await, StopJudge, StopRequest, StopPoll, StopRecord,
              StopVerify, StopTerminate, StopWait, StopKill, StopFinal
<1>4. ASSUME NEW l \in Lives, Outside(l)
      PROVE  TaskOK'
  BY <1>4 DEF Outside, Crash, Refuse, Appear, StopAccepting
<1> QED
  BY <1>1, <1>2, <1>3, <1>4 DEF Next, Outside, DaemonStep, CommandStep, Lives

\* Whatever is read in the PID file is a PID, unreadable or nothing.
LEMMA RecordedType ==
  ASSUME FilesOK
  PROVE  Recorded \in Pids \cup {NoFile, Unreadable}
  BY DEF FilesOK, Recorded, Pids, Lives

\* The files belong to daemons; what was read of them is kept.
LEMMA FilesStep ==
  ASSUME TypeOK, Next
  PROVE  FilesOK'
<1> USE RecordedType DEF TypeOK, FilesOK, Actors, Lives
<1>1. ASSUME NEW a \in Daemons \cup Commands,
             \/ ReadStatus(a) \/ ComparePid(a) \/ UnlinkPid(a)
             \/ ProbeSocket(a) \/ UnlinkSocket(a)
      PROVE  FilesOK'
  <2>1. UNCHANGED seen \/ seen' = [seen EXCEPT ![a] = Recorded]
    BY <1>1 DEF ReadStatus, ComparePid, UnlinkPid, ProbeSocket, UnlinkSocket, AfterSocket
  <2>2. pidFile' \in {pidFile, NoFile} /\ endpoint' \in {endpoint, NoLife}
    BY <1>1 DEF ReadStatus, ComparePid, UnlinkPid, ProbeSocket, UnlinkSocket, AfterSocket
  <2> QED
    BY <2>1, <2>2
<1>2. ASSUME NEW d \in Daemons,
             \/ RecoverJudge(d) \/ RecoverProbe(d) \/ ClaimRead(d) \/ ClaimJudge(d)
             \/ ClaimCreate(d) \/ ClaimWrite(d) \/ StartIpc(d) \/ Bind(d) \/ Listen(d)
             \/ Close(d) \/ Exit(d)
      PROVE  FilesOK'
  <2> USE DEF RecoverJudge, RecoverProbe, ClaimRead, ClaimJudge, ClaimCreate, ClaimWrite,
              StartIpc, Bind, Listen, Close, Exit, Refuse
  <2>1. \/ UNCHANGED seen
        \/ seen' = [seen EXCEPT ![d] = Recorded] \/ seen' = [seen EXCEPT ![d] = PidOf[d]]
    BY <1>2
  <2>2. PidOf[d] \in Pids
    BY DEF Pids
  <2>3. \/ UNCHANGED pidFile
        \/ pidFile' = [by |-> d, written |-> FALSE] \/ pidFile' = [by |-> d, written |-> TRUE]
    <3>1. CASE ClaimCreate(d)
      BY <3>1
    <3>2. CASE ClaimWrite(d)
      BY <3>2
    <3>3. CASE ~(ClaimCreate(d) \/ ClaimWrite(d))
      <4>1. UNCHANGED pidFile
        BY <1>2, <3>3
      <4> QED
        BY <4>1
    <3> QED
      BY <3>1, <3>2, <3>3
  <2>4. endpoint' \in {endpoint, d}
    BY <1>2
  <2> HIDE DEF RecoverJudge, RecoverProbe, ClaimRead, ClaimJudge, ClaimCreate, ClaimWrite,
               StartIpc, Bind, Listen, Close, Exit, Refuse
  <2>5. pidFile' \in {NoFile} \cup [by : Daemons, written : BOOLEAN]
    <3>1. /\ [by |-> d, written |-> FALSE] \in [by : Daemons, written : BOOLEAN]
          /\ [by |-> d, written |-> TRUE] \in [by : Daemons, written : BOOLEAN]
      OBVIOUS
    <3> QED
      BY <2>3, <3>1, Zenon
  <2> QED
    BY <2>1, <2>2, <2>4, <2>5
<1>3. ASSUME NEW c \in Commands,
             \/ Begin(c) \/ StartJudge(c) \/ Spawn(c) \/ Await(c) \/ StopJudge(c)
             \/ StopRequest(c) \/ StopPoll(c) \/ StopRecord(c) \/ StopVerify(c)
             \/ StopTerminate(c) \/ StopWait(c) \/ StopKill(c) \/ StopFinal(c)
      PROVE  FilesOK'
  <2>1. UNCHANGED files /\ (UNCHANGED seen \/ seen' = [seen EXCEPT ![c] = Recorded])
    BY <1>3 DEF Begin, StartJudge, Spawn, Await, StopJudge, StopRequest, StopPoll,
                StopRecord, StopVerify, StopTerminate, StopWait, StopKill, StopFinal
  <2> QED
    BY <2>1
<1>4. ASSUME NEW l \in Lives, Outside(l)
      PROVE  FilesOK'
  BY <1>4 DEF Outside, Crash, Refuse, Appear, StopAccepting
<1> QED
  BY <1>1, <1>2, <1>3, <1>4 DEF Next, Outside, DaemonStep, CommandStep, Lives

\* Signals go to lives, whoever still bears a PID or was started by the command.
LEMMA KnownStep ==
  ASSUME TypeOK, Next
  PROVE  KnownOK'
<1> USE DEF TypeOK, KnownOK
<1>1. ASSUME NEW a \in Daemons \cup Commands,
             \/ ReadStatus(a) \/ ComparePid(a) \/ UnlinkPid(a)
             \/ ProbeSocket(a) \/ UnlinkSocket(a)
      PROVE  KnownOK'
  <2>1. report' \in [Commands -> Messages]
    BY <1>1 DEF ReadStatus, ComparePid, UnlinkPid, ProbeSocket, UnlinkSocket, AfterSocket,
                Cleared, Messages
  <2>2. \A c \in Commands : pc'[c] = "await" => pc[c] = "await"
    BY <1>1, LivesAssumption
    DEF PcOK, Actors, Lives, ReadStatus, ComparePid, UnlinkPid, ProbeSocket, UnlinkSocket,
        AfterPid, AfterSocket, Ends
  <2>3. UNCHANGED <<asked, hung, chosen>>
    BY <1>1 DEF ReadStatus, ComparePid, UnlinkPid, ProbeSocket, UnlinkSocket
  <2> QED
    BY <2>1, <2>2, <2>3
<1>2. ASSUME NEW d \in Daemons,
             \/ RecoverJudge(d) \/ RecoverProbe(d) \/ ClaimRead(d) \/ ClaimJudge(d)
             \/ ClaimCreate(d) \/ ClaimWrite(d) \/ StartIpc(d) \/ Bind(d) \/ Listen(d)
             \/ Close(d) \/ Exit(d)
      PROVE  KnownOK'
  BY <1>2, LivesAssumption
  DEF PcOK, Actors, Lives, RecoverJudge, RecoverProbe, ClaimRead, ClaimJudge, ClaimCreate,
      ClaimWrite, StartIpc, Bind, Listen, Close, Exit, Refuse, Ends
<1>3. ASSUME NEW c \in Commands,
             \/ Begin(c) \/ StartJudge(c) \/ StopJudge(c) \/ StopPoll(c) \/ StopRecord(c)
             \/ StopWait(c) \/ StopFinal(c)
      PROVE  KnownOK'
  <2>1. UNCHANGED <<asked, hung, chosen>>
    BY <1>3 DEF Begin, StartJudge, StopJudge, StopPoll, StopRecord, StopWait, StopFinal
  <2>2. UNCHANGED report \/ \E what \in Messages : report' = [report EXCEPT ![c] = what]
    BY <1>3 DEF Begin, StartJudge, StopJudge, StopPoll, StopRecord, StopWait, StopFinal,
                Messages
  <2>3. \A e \in Commands : pc'[e] = "await" => pc[e] = "await"
    BY <1>3 DEF PcOK, Actors, Begin, StartJudge, StopJudge, StopPoll, StopRecord, StopWait,
                StopFinal
  <2> QED
    BY <2>1, <2>2, <2>3
<1>4. ASSUME NEW c \in Commands, Spawn(c)
      PROVE  KnownOK'
  <2> PICK d \in Daemons : /\ pc' = [pc EXCEPT ![c] = "await", ![d] = "status"]
                           /\ chosen' = [chosen EXCEPT ![c] = d]
    BY <1>4 DEF Spawn
  <2>1. chosen' \in [Commands -> Lives \cup {NoLife}] /\ chosen'[c] \in Daemons
    BY DEF Lives
  <2>2. \A e \in Commands \ {c} : pc'[e] = "await" => chosen'[e] \in Daemons
    BY DEF PcOK, Actors, Lives
  <2> QED
    BY <1>4, <2>1, <2>2 DEF Spawn
<1>5. ASSUME NEW c \in Commands, Await(c)
      PROVE  KnownOK'
  <2>1. chosen[c] \in Daemons
    BY <1>5 DEF Await
  <2>2. asked' \subseteq Lives /\ hung' \subseteq Daemons \cap asked'
    BY <1>5, <2>1 DEF Await, Signalled, Lives
  <2>3. report' \in [Commands -> Messages]
    BY <1>5 DEF Await, Messages
  <2>4. \A e \in Commands : pc'[e] = "await" => pc[e] = "await"
    BY <1>5 DEF PcOK, Await, Signalled, Actors
  <2> QED
    BY <1>5, <2>2, <2>3, <2>4 DEF Await
<1>6. ASSUME NEW c \in Commands, StopRequest(c)
      PROVE  KnownOK'
  <2>1. SocketActive => endpoint \in Lives
    BY DEF SocketActive, ListenersRun, Lives
  <2>2. asked' \subseteq Lives
    BY <1>6, <2>1 DEF StopRequest
  <2> QED
    BY <1>6, <2>2 DEF PcOK, StopRequest, Actors
<1>7. ASSUME NEW c \in Commands, StopVerify(c)
      PROVE  KnownOK'
  <2>1. Running(seen[c]) => (CHOOSE l \in Holders(seen[c]) : TRUE) \in Lives
    BY DEF Running, PidAlive, Holders
  <2> QED
    BY <1>7, <2>1 DEF PcOK, StopVerify, Actors
<1>8. ASSUME NEW c \in Commands, StopTerminate(c) \/ StopKill(c)
      PROVE  KnownOK'
  BY <1>8 DEF PcOK, StopTerminate, StopKill, Signalled, Holders, Actors
<1>9. ASSUME NEW l \in Lives, Outside(l)
      PROVE  KnownOK'
  BY <1>9, LivesAssumption DEF PcOK, Actors, Outside, Crash, Refuse, Ends, Appear, StopAccepting
<1> HIDE DEF TypeOK, KnownOK
<1> QED
  BY <1>1, <1>2, <1>3, <1>4, <1>5, <1>6, <1>7, <1>8, <1>9
  DEF Next, Outside, DaemonStep, CommandStep, Lives

\* Only a daemon that runs listens: whatever ends it, its listener is closed with it.
LEMMA ListenersStep ==
  ASSUME TypeOK, Next
  PROVE  ListenersRun'
<1> USE LivesAssumption DEF TypeOK, PcOK, ListenersRun, Actors, Lives
<1>1. ASSUME NEW a \in Daemons \cup Commands,
             \/ ReadStatus(a) \/ ComparePid(a) \/ UnlinkPid(a)
             \/ ProbeSocket(a) \/ UnlinkSocket(a)
      PROVE  ListenersRun'
  BY <1>1 DEF ReadStatus, ComparePid, UnlinkPid, ProbeSocket, UnlinkSocket, AfterPid,
              AfterSocket, Ends
<1>2. ASSUME NEW d \in Daemons,
             \/ RecoverJudge(d) \/ RecoverProbe(d) \/ ClaimRead(d) \/ ClaimJudge(d)
             \/ ClaimCreate(d) \/ ClaimWrite(d) \/ StartIpc(d) \/ Bind(d) \/ Listen(d)
             \/ Close(d) \/ Exit(d)
      PROVE  ListenersRun'
  BY <1>2 DEF RecoverJudge, RecoverProbe, ClaimRead, ClaimJudge, ClaimCreate, ClaimWrite,
              StartIpc, Bind, Listen, Close, Exit, Refuse, Ends
<1>3. ASSUME NEW c \in Commands,
             \/ Begin(c) \/ StartJudge(c) \/ Spawn(c) \/ Await(c) \/ StopJudge(c)
             \/ StopRequest(c) \/ StopPoll(c) \/ StopRecord(c) \/ StopVerify(c)
             \/ StopTerminate(c) \/ StopWait(c) \/ StopKill(c) \/ StopFinal(c)
      PROVE  ListenersRun'
  BY <1>3 DEF Begin, StartJudge, Spawn, Await, StopJudge, StopRequest, StopPoll, StopRecord,
              StopVerify, StopTerminate, StopWait, StopKill, StopFinal, Signalled, Holders
<1>4. ASSUME NEW l \in Lives, Outside(l)
      PROVE  ListenersRun'
  BY <1>4 DEF Outside, Crash, Refuse, Ends, Appear, StopAccepting
<1> QED
  BY <1>1, <1>2, <1>3, <1>4 DEF Next, Outside, DaemonStep, CommandStep, Lives

\* At the start, with no process and no file, the type invariant holds.
LEMMA TypeInit ==
  ASSUME Init
  PROVE  TypeOK
  BY LivesAssumption
  DEF Init, TypeOK, PcOK, TaskOK, FilesOK, KnownOK, ListenersRun, Actors, Lives, DaemonPcs,
      CommandPcs, OtherPcs, DaemonTasks, CommandTasks, Messages

\* Every step of a daemon, a command or the outside keeps the type invariant: its parts, one by one.
LEMMA TypeStep ==
  ASSUME TypeOK, [Next]_vars
  PROVE  TypeOK'
<1>1. CASE Next
  BY <1>1, PcStep, TaskStep, FilesStep, KnownStep, ListenersStep DEF TypeOK
<1>2. CASE UNCHANGED vars
  BY <1>2 DEF vars, TypeOK, PcOK, TaskOK, FilesOK, KnownOK, ListenersRun
<1> QED
  BY <1>1, <1>2

\* Each process and command stays within its own phases and tasks, and only a daemon
\* that runs has a listener.
THEOREM TypeCorrect == Spec => []TypeOK
  BY TypeInit, TypeStep, PTL DEF Spec

-----------------------------------------------------------------------------
(* An orderly end.  The exit of a daemon is safe because the socket goes   *)
(* first and the PID file is compared with the daemon's own PID; only a    *)
(* daemon that is still about to write can own a file without a PID.       *)

\* The inductive invariant holds at the start: no daemon is closing or clearing.
LEMMA InvInit ==
  ASSUME Init
  PROVE  LifecycleInv
<1>1. TypeOK
  BY TypeInit
<1> QED
  BY <1>1, LivesAssumption
  DEF Init, LifecycleInv, TaskFits, UnwrittenIsFresh, SocketFirst, ExitLeavesNothing,
      Actors, Lives

\* Probing and unlinking the socket: only the tasks that fit the clearer's kind apply.
LEMMA SocketClearingKeeps ==
  ASSUME LifecycleInv, TypeOK', NEW a \in Daemons \cup Commands,
         ProbeSocket(a) \/ UnlinkSocket(a)
  PROVE  LifecycleInv'
<1> USE LivesAssumption
    DEF LifecycleInv, TypeOK, PcOK, TaskOK, FilesOK, ListenersRun, Actors, Lives,
        ProbeSocket, UnlinkSocket, AfterSocket, Ends
<1>1. TaskFits'
  BY DEF TaskFits, DaemonTasks, CommandTasks
<1>2. UnwrittenIsFresh'
  BY DEF UnwrittenIsFresh
<1>3. SocketFirst'
  BY DEF SocketFirst, TaskFits, SocketActive
<1>4. ExitLeavesNothing'
  BY DEF ExitLeavesNothing, TaskFits
<1> QED
  BY <1>1, <1>2, <1>3, <1>4

\* Every step keeps the inductive invariant, part by part and action by action.
LEMMA InvStep ==
  ASSUME LifecycleInv, [Next]_vars
  PROVE  LifecycleInv'
<1>1. TypeOK'
  BY TypeStep DEF LifecycleInv
<1> USE <1>1, LivesAssumption DEF LifecycleInv, TypeOK, PcOK, TaskOK, FilesOK, Actors, Lives
<1> USE DEF TaskFits, UnwrittenIsFresh, SocketFirst, ExitLeavesNothing
<1>2. ASSUME NEW a \in Daemons \cup Commands, ReadStatus(a) \/ ComparePid(a) \/ UnlinkPid(a)
      PROVE  LifecycleInv'
  <2>1. CASE ReadStatus(a)
    BY <2>1 DEF ReadStatus
  <2>2. CASE ComparePid(a)
    BY <2>2 DEF ComparePid, AfterPid, Recorded
  <2>3. CASE UnlinkPid(a)
    BY <2>3 DEF UnlinkPid, AfterPid
  <2> QED
    BY <1>2, <2>1, <2>2, <2>3
<1>3. ASSUME NEW d \in Daemons,
             \/ RecoverJudge(d) \/ RecoverProbe(d) \/ ClaimRead(d) \/ ClaimJudge(d)
             \/ ClaimCreate(d) \/ ClaimWrite(d) \/ StartIpc(d) \/ Bind(d) \/ Listen(d)
             \/ Close(d) \/ Exit(d)
      PROVE  LifecycleInv'
  <2> USE DEF Refuse, Ends
  <2>1. CASE RecoverJudge(d) \/ RecoverProbe(d) \/ ClaimRead(d) \/ ClaimJudge(d)
    BY <2>1 DEF RecoverJudge, RecoverProbe, ClaimRead, ClaimJudge
  <2>2. CASE ClaimCreate(d) \/ ClaimWrite(d)
    BY <2>2 DEF ClaimCreate, ClaimWrite
  <2>3. CASE StartIpc(d) \/ Bind(d) \/ Listen(d)
    BY <2>3 DEF StartIpc, Bind, Listen
  <2>4. CASE Close(d) \/ Exit(d)
    BY <2>4 DEF Close, Exit
  <2> QED
    BY <1>3, <2>1, <2>2, <2>3, <2>4
<1>4. ASSUME NEW c \in Commands,
             \/ Begin(c) \/ StartJudge(c) \/ Spawn(c) \/ Await(c) \/ StopJudge(c)
             \/ StopRequest(c) \/ StopPoll(c) \/ StopRecord(c) \/ StopVerify(c)
             \/ StopTerminate(c) \/ StopWait(c) \/ StopKill(c) \/ StopFinal(c)
      PROVE  LifecycleInv'
  <2>1. CASE Begin(c)
    BY <2>1 DEF Begin
  <2>2. CASE StartJudge(c)
    <3>1. /\ UNCHANGED <<task, seen, pidFile, endpoint>>
          /\ \A d \in Daemons : pc'[d] = pc[d]
      BY <2>2 DEF StartJudge
    <3> QED
      BY <3>1
  <2>3. CASE StopJudge(c) \/ StopRequest(c) \/ StopPoll(c)
    BY <2>3 DEF StopJudge, StopRequest, StopPoll
  <2>4. CASE StopRecord(c) \/ StopVerify(c) \/ StopWait(c) \/ StopFinal(c)
    BY <2>4 DEF StopRecord, StopVerify, StopWait, StopFinal
  <2>5. CASE Spawn(c)
    BY <2>5 DEF Spawn
  <2>6. CASE Await(c) \/ StopTerminate(c) \/ StopKill(c)
    BY <2>6 DEF Await, StopTerminate, StopKill, Signalled, Alive
  <2> QED
    BY <1>4, <2>1, <2>2, <2>3, <2>4, <2>5, <2>6
<1>5. ASSUME NEW l \in Lives, Outside(l)
      PROVE  LifecycleInv'
  BY <1>5 DEF Outside, Crash, Refuse, Ends, Appear, StopAccepting
<1>6. CASE UNCHANGED vars
  BY <1>6 DEF vars
<1> HIDE <1>1 DEF LifecycleInv, TypeOK
<1> QED
  BY <1>1, <1>2, <1>3, <1>4, <1>5, <1>6, SocketClearingKeeps
  DEF Next, Outside, DaemonStep, CommandStep, Lives

\* A daemon that shuts down in order leaves nothing of its own behind, whoever else
\* starts, stops or clears meanwhile.
THEOREM ExitCorrect == Spec => []ExitLeavesNothing
<1>1. LifecycleInv => ExitLeavesNothing
  BY DEF LifecycleInv
<1> QED
  BY <1>1, InvInit, InvStep, PTL DEF Spec
-----------------------------------------------------------------------------
(* One command at a time.  What the files say follows from the phase of    *)
(* the one daemon there is, and what a command knows of them from its own. *)

Active(c) == pc[c] \notin {"unborn", "finished"}
NobodyServes == \A d \in Daemons : ~Alive(d)

\* The files while daemon d is where it is; it is never refused and never unbinds.
FilesFollow(d) ==
  /\ pc[d] \notin {"claimJudge", "closing"} /\ task[d] \notin {"claim", "unbind"}
  /\ pc[d] \in {"clearPid", "unlinkPid"} => task[d] = "close"
  /\ pc[d] \in {"status", "judge", "probe", "claim", "create"} => pidFile = NoFile
  /\ pc[d] = "judge" => seen[d] = NoFile
  /\ pc[d] \in {"clearSocket", "unlinkSocket"} /\ task[d] = "recover" =>
        pidFile = NoFile /\ endpoint # NoLife
  /\ pc[d] \in {"claim", "create", "write", "claimed", "bind", "clearPid", "unlinkPid"} =>
        endpoint = NoLife
  /\ pc[d] = "write" => pidFile = [by |-> d, written |-> FALSE]
  /\ pc[d] \in {"claimed", "bind", "listen", "running", "clearPid", "unlinkPid"} =>
        pidFile = [by |-> d, written |-> TRUE]
  /\ pc[d] \in {"listen", "running"} => endpoint = d
  /\ pc[d] = "running" => d \in listening \/ d \in hung
  /\ pc[d] \in {"clearSocket", "unlinkSocket"} /\ task[d] = "close" =>
        pidFile = [by |-> d, written |-> TRUE] /\ endpoint = d
  /\ pc[d] = "exit" => pidFile = NoFile /\ endpoint = NoLife

\* Started, and on its way out at most.
Served(d) == pc[d] \in {"running", "exit"} \/ task[d] = "close"

\* What command c may rely on where it is.
CommandFits(c) ==
  /\ pc[c] \in {"status", "judge"} =>
        /\ task[c] \in {"start", "stop"}
        /\ \A d \in Daemons : Alive(d) => pc[d] = "running" /\ d \notin asked
  /\ pc[c] = "judge" => seen[c] = Recorded
  /\ pc[c] \in {"spawn", "clearPid", "unlinkPid", "clearSocket", "unlinkSocket"} => NobodyServes
  /\ pc[c] = "spawn" => task[c] = "start"
  /\ pc[c] \in {"spawn", "clearSocket", "unlinkSocket"} => pidFile = NoFile
  /\ pc[c] \in {"clearPid", "unlinkPid"} => pidFile = NoFile \/ seen[c] = Recorded
  /\ pc[c] \in {"request", "poll", "record", "verify", "terminate", "wait", "kill", "final"} =>
        /\ \A d \in Daemons : Alive(d) => Served(d)
        /\ pidFile = NoFile => endpoint = NoLife
  /\ pc[c] \in {"verify", "terminate", "wait", "kill", "final"} =>
        /\ pidFile = NoFile \/ seen[c] = Recorded
        /\ \A d \in Daemons : Alive(d) => seen[c] = PidOf[d]

OneCommand == \A c, e \in Commands : Active(c) /\ Active(e) => c = e
OneDaemon  == \A d, e \in Daemons : Alive(d) /\ Alive(e) => d = e
FilesInv   == \A d \in Daemons : Alive(d) => FilesFollow(d)
CommandInv == \A c \in Commands : Active(c) => CommandFits(c)

PatientInv == LifecycleInv /\ OneCommand /\ OneDaemon /\ FilesInv /\ CommandInv

\* A socket that answers is that of the daemon that runs.
LEMMA OnlyRunningAnswers ==
  ASSUME PatientInv
  PROVE  /\ \A d \in Daemons : Alive(d) /\ pc[d] # "running" => ~SocketActive
         /\ NobodyServes => ~SocketActive
  BY DEF PatientInv, LifecycleInv, TypeOK, PcOK, ListenersRun, OneDaemon, NobodyServes, Alive,
         SocketActive

\* The files keep up with the one daemon; it ends where an orderly exit ends, and it
\* is never sent back from its start-up.
LEMMA DaemonFiles ==
  ASSUME PatientInv, NEW d \in Daemons, DaemonStep(d)
  PROVE  /\ pc'[d] \in {"dead", "closing"} => pc[d] = "exit"
         /\ pc'[d] # "dead" => FilesFollow(d)'
<1> DEFINE Good == /\ pc'[d] \in {"dead", "closing"} => pc[d] = "exit"
                   /\ pc'[d] # "dead" => FilesFollow(d)'
<1> SUFFICES Good
  OBVIOUS
<1>0. PcOK /\ TaskOK /\ FilesOK /\ ListenersRun /\ TaskFits
  BY DEF PatientInv, LifecycleInv, TypeOK
<1>1. Alive(d) => FilesFollow(d)
  BY DEF PatientInv, FilesInv
<1>2. Alive(d) /\ pc[d] # "running" => ~SocketActive
  BY OnlyRunningAnswers
<1> USE <1>0, <1>1, <1>2, LivesAssumption
    DEF PcOK, TaskOK, FilesOK, TaskFits, ListenersRun, Actors, Lives, FilesFollow, Alive,
        Refuse, Ends
<1>3. CASE ReadStatus(d) \/ RecoverJudge(d) \/ RecoverProbe(d)
  <2>1. ~Running(NoFile)
    BY DEF Running, Pids
  <2>2. CASE ReadStatus(d)
    BY <2>2 DEF ReadStatus, Recorded
  <2>3. CASE RecoverJudge(d)
    BY <2>1, <2>3 DEF RecoverJudge
  <2>4. CASE RecoverProbe(d)
    BY <2>4 DEF RecoverProbe
  <2> QED
    BY <1>3, <2>2, <2>3, <2>4
<1>4. CASE ComparePid(d)
  BY <1>4 DEF ComparePid, AfterPid, Recorded
<1>5. CASE UnlinkPid(d)
  BY <1>5 DEF UnlinkPid, AfterPid
<1>6. CASE ProbeSocket(d)
  BY <1>6 DEF ProbeSocket, AfterSocket
<1>7. CASE UnlinkSocket(d)
  BY <1>7 DEF UnlinkSocket, AfterSocket
<1>8. CASE ClaimRead(d) \/ ClaimJudge(d)
  BY <1>8 DEF ClaimRead, ClaimJudge
<1>9. CASE ClaimCreate(d)
  <2>1. pc[d] = "create" /\ pidFile = NoFile
    BY <1>9 DEF ClaimCreate
  <2>2. /\ pc' = [pc EXCEPT ![d] = "write"]
        /\ pidFile' = [by |-> d, written |-> FALSE]
        /\ UNCHANGED <<task, endpoint>>
    BY <1>9, <2>1 DEF ClaimCreate
  <2>3. pc'[d] = "write"
    BY <2>2
  <2> QED
    BY <2>1, <2>2, <2>3
<1>10. CASE ClaimWrite(d)
  <2>1. pc[d] = "write" /\ pidFile = [by |-> d, written |-> FALSE] /\ endpoint = NoLife
    BY <1>10 DEF ClaimWrite
  <2>2. /\ pc' = [pc EXCEPT ![d] = "claimed"]
        /\ pidFile # NoFile /\ pidFile.by = d => pidFile' = [by |-> d, written |-> TRUE]
        /\ UNCHANGED <<task, endpoint>>
    BY <1>10 DEF ClaimWrite
  <2>3. pidFile # NoFile /\ pidFile.by = d
    <3>1. pidFile \in [by : Daemons, written : BOOLEAN] /\ pidFile.by = d
      BY <2>1
    <3> QED
      BY <3>1
  <2> QED
    BY <2>1, <2>2, <2>3
<1>11. CASE StartIpc(d) \/ Bind(d)
  BY <1>11 DEF StartIpc, Bind
<1>12. CASE Listen(d)
  BY <1>12 DEF Listen
<1>13. CASE Close(d) \/ Exit(d)
  BY <1>13 DEF Close, Exit
<1> HIDE DEF Good
<1> QED
  BY <1>3, <1>4, <1>5, <1>6, <1>7, <1>8, <1>9, <1>10, <1>11, <1>12, <1>13 DEF DaemonStep

\* A daemon's step concerns no other process; what it does to the files, a command
\* that stops it expects.
LEMMA DaemonKeeps ==
  ASSUME PatientInv, NEW d \in Daemons, DaemonStep(d)
  PROVE  OneCommand' /\ OneDaemon' /\ FilesInv' /\ CommandInv'
<1>0. PcOK /\ TaskOK /\ FilesOK /\ ListenersRun /\ TaskFits
  BY DEF PatientInv, LifecycleInv, TypeOK
<1> USE <1>0, LivesAssumption DEF PcOK, TaskOK, FilesOK, Actors, Lives
<1>1. Alive(d)
  BY DEF DaemonStep, ReadStatus, RecoverJudge, RecoverProbe, ComparePid, UnlinkPid,
         ProbeSocket, UnlinkSocket, ClaimRead, ClaimJudge, ClaimCreate, ClaimWrite, StartIpc,
         Bind, Listen, Close, Exit, Alive
<1>2. /\ \A a \in Actors \ {d} : pc'[a] = pc[a] /\ task'[a] = task[a] /\ seen'[a] = seen[a]
      /\ UNCHANGED asked
  <2>1. /\ \E where \in DaemonPcs : pc' = [pc EXCEPT ![d] = where]
        /\ UNCHANGED asked
    BY DEF DaemonStep, ReadStatus, RecoverJudge, RecoverProbe, ComparePid, UnlinkPid,
           ProbeSocket, UnlinkSocket, ClaimRead, ClaimJudge, ClaimCreate, ClaimWrite, StartIpc,
           Bind, Listen, Close, Exit, Refuse, Ends, AfterPid, AfterSocket, DaemonTasks, DaemonPcs
  <2>2. \/ UNCHANGED task
        \/ \E what \in DaemonTasks : task' = [task EXCEPT ![d] = what]
    BY DEF DaemonStep, ReadStatus, RecoverJudge, RecoverProbe, ComparePid, UnlinkPid,
           ProbeSocket, UnlinkSocket, ClaimRead, ClaimJudge, ClaimCreate, ClaimWrite, StartIpc,
           Bind, Listen, Close, Exit, Refuse, AfterSocket, DaemonTasks
  <2>3. \/ UNCHANGED seen
        \/ \E what : seen' = [seen EXCEPT ![d] = what]
    BY DEF DaemonStep, ReadStatus, RecoverJudge, RecoverProbe, ComparePid, UnlinkPid,
           ProbeSocket, UnlinkSocket, ClaimRead, ClaimJudge, ClaimCreate, ClaimWrite, StartIpc,
           Bind, Listen, Close, Exit, Refuse, AfterSocket
  <2> QED
    BY <2>1, <2>2, <2>3
<1>3. \A e \in Daemons \ {d} : ~Alive(e) /\ ~Alive(e)'
  BY <1>1, <1>2 DEF PatientInv, OneDaemon, Alive
<1>4. OneCommand' /\ OneDaemon'
  BY <1>2, <1>3 DEF PatientInv, OneCommand, OneDaemon, Active
<1>5. FilesInv'
  BY <1>3, DaemonFiles DEF FilesInv, Alive
<1>6. CommandInv'
  <2> SUFFICES ASSUME NEW c \in Commands, Active(c)' PROVE CommandFits(c)'
    BY DEF CommandInv
  <2>1. /\ Active(c) /\ CommandFits(c) /\ pc'[c] = pc[c] /\ task'[c] = task[c] /\ seen'[c] = seen[c]
    BY <1>2 DEF PatientInv, CommandInv, Active
  <2>2. FilesFollow(d)
    BY <1>1 DEF PatientInv, FilesInv
  <2>3. pc[c] \notin {"spawn", "clearPid", "unlinkPid", "clearSocket", "unlinkSocket"}
    BY <1>1, <2>1 DEF CommandFits, NobodyServes
  <2>4. ASSUME Served(d)
        PROVE  /\ pc[d] = "running" => d \in asked
               /\ pc'[d] # "dead" => Served(d)'
               /\ pidFile' \in {pidFile, NoFile}
               /\ (pidFile = NoFile => endpoint = NoLife)
                     => (pidFile' = NoFile => endpoint' = NoLife)
    <3> USE <1>0, <2>2, <2>4 DEF Served, TaskFits, FilesFollow, Refuse, Ends
    <3>1. CASE Close(d) \/ Exit(d)
      BY <3>1 DEF Close, Exit
    <3>2. CASE ComparePid(d)
      BY <3>2 DEF ComparePid, AfterPid
    <3>3. CASE UnlinkPid(d)
      BY <3>3 DEF UnlinkPid, AfterPid
    <3>4. CASE ProbeSocket(d)
      BY <3>4 DEF ProbeSocket, AfterSocket
    <3>5. CASE UnlinkSocket(d)
      BY <3>5 DEF UnlinkSocket, AfterSocket
    <3>6. ~(\/ ReadStatus(d) \/ RecoverJudge(d) \/ RecoverProbe(d) \/ ClaimRead(d) \/ ClaimJudge(d)
            \/ ClaimCreate(d) \/ ClaimWrite(d) \/ StartIpc(d) \/ Bind(d) \/ Listen(d))
      BY DEF ReadStatus, RecoverJudge, RecoverProbe, ClaimRead, ClaimJudge, ClaimCreate,
             ClaimWrite, StartIpc, Bind, Listen
    <3> QED
      BY <3>1, <3>2, <3>3, <3>4, <3>5, <3>6 DEF DaemonStep
  <2>5. pc[c] \in {"status", "judge"} => FALSE
    BY <1>1, <2>1, <2>4 DEF CommandFits, Served
  <2>6. CASE pc[c] = "await"
    BY <2>1, <2>6 DEF CommandFits
  <2>7. CASE pc[c] \in {"request", "poll", "record", "verify", "terminate", "wait", "kill", "final"}
    <3>1. Served(d)
      BY <1>1, <2>1, <2>7 DEF CommandFits
    <3>2. Recorded' = Recorded \/ pidFile' = NoFile
      BY <2>4, <3>1 DEF Recorded
    <3> QED
      BY <1>1, <1>2, <1>3, <2>1, <2>4, <2>7, <3>1, <3>2 DEF CommandFits, Alive
  <2> QED
    BY <2>1, <2>3, <2>5, <2>6, <2>7 DEF Active, CommandPcs
<1> QED
  BY <1>4, <1>5, <1>6

\* A command alone makes the files what its next step expects, and touches them only
\* where there is no daemon.
LEMMA CommandKeeps ==
  ASSUME PatientInv, NEW c \in Commands, CommandStep(c)
  PROVE  OneCommand' /\ OneDaemon' /\ FilesInv' /\ CommandInv'
<1>0. PcOK /\ TaskOK /\ FilesOK /\ KnownOK /\ ListenersRun /\ TaskFits
  BY DEF PatientInv, LifecycleInv, TypeOK
<1> USE <1>0, LivesAssumption DEF PcOK, TaskOK, FilesOK, Actors, Lives
<1>1. Active(c)
  BY DEF CommandStep, ReadStatus, ComparePid, UnlinkPid, ProbeSocket, UnlinkSocket, StartJudge,
         Spawn, Await, StopJudge, StopRequest, StopPoll, StopRecord, StopVerify, StopTerminate,
         StopWait, StopKill, StopFinal, Active
<1>2. CommandFits(c) /\ \A e \in Commands \ {c} : ~Active(e)
  BY <1>1 DEF PatientInv, CommandInv, OneCommand
<1>3. NobodyServes => ~SocketActive
  BY OnlyRunningAnswers
<1>4. ASSUME \A e \in Commands \ {c} : pc'[e] = pc[e],
             pc'[c] # "finished" => CommandFits(c)'
      PROVE  OneCommand' /\ CommandInv'
  BY <1>2, <1>4 DEF OneCommand, CommandInv, Active
<1>hangs. hung \subseteq hung'
  BY DEF CommandStep, ReadStatus, ComparePid, UnlinkPid, ProbeSocket, UnlinkSocket, StartJudge,
         Spawn, Await, StopJudge, StopRequest, StopPoll, StopRecord, StopVerify, StopTerminate,
         StopWait, StopKill, StopFinal, Signalled
<1>5. ASSUME \A d \in Daemons : pc'[d] = pc[d] \/ ~Alive(d)',
             \/ UNCHANGED <<task, seen>>
             \/ \A d \in Daemons : task'[d] = task[d] /\ seen'[d] = seen[d],
             \A d \in listening : Alive(d)' => d \in listening',
             UNCHANGED files \/ NobodyServes
      PROVE  OneDaemon' /\ FilesInv'
  BY <1>5, <1>hangs DEF PatientInv, OneDaemon, FilesInv, FilesFollow, Alive, NobodyServes
<1>6. CASE ReadStatus(c)
  <2> USE <1>6 DEF ReadStatus
  <2>1. CommandFits(c)'
    BY <1>2 DEF CommandFits, Alive, Recorded
  <2> QED
    BY <1>4, <1>5, <2>1
<1>7. CASE ComparePid(c)
  <2> USE <1>7 DEF ComparePid, AfterPid
  <2>1. task[c] \in CommandTasks
    OBVIOUS
  <2>2. CommandFits(c)'
    BY <1>2, <2>1 DEF CommandFits, Alive, Recorded, NobodyServes, CommandTasks
  <2> QED
    BY <1>4, <1>5, <2>1, <2>2
<1>8. CASE UnlinkPid(c)
  <2> USE <1>8 DEF UnlinkPid, AfterPid
  <2>1. NobodyServes /\ task[c] \in CommandTasks
    BY <1>2 DEF CommandFits
  <2>2. CommandFits(c)'
    BY <1>2, <2>1 DEF CommandFits, Alive, NobodyServes, CommandTasks
  <2> QED
    BY <1>4, <1>5, <2>1, <2>2
<1>9. CASE ProbeSocket(c) \/ UnlinkSocket(c)
  <2> USE <1>9 DEF ProbeSocket, UnlinkSocket, AfterSocket
  <2>1. NobodyServes /\ task[c] \in CommandTasks
    BY <1>2 DEF CommandFits
  <2>2. /\ \A a \in Actors \ {c} : pc'[a] = pc[a]
        /\ UNCHANGED <<task, seen, pidFile, asked, listening>>
        /\ pc'[c] \in {"unlinkSocket", "spawn", "finished"}
        /\ pc'[c] = "spawn" => task[c] = "start"
    BY <2>1 DEF CommandTasks
  <2> HIDE <1>9 DEF ProbeSocket, UnlinkSocket, AfterSocket
  <2>3. pc'[c] # "finished" => CommandFits(c)'
    BY <1>2, <1>9, <2>1, <2>2 DEF CommandFits, Alive, NobodyServes, ProbeSocket, UnlinkSocket
  <2> QED
    BY <1>4, <1>5, <2>1, <2>2, <2>3
<1>10. pc[c] = "judge" /\ ~Running(seen[c]) => NobodyServes
  <2> SUFFICES ASSUME pc[c] = "judge", NEW d \in Daemons, Alive(d) PROVE Running(seen[c])
    BY DEF NobodyServes
  <2>1. pidFile = [by |-> d, written |-> TRUE] /\ seen[c] = Recorded
    BY <1>2 DEF CommandFits, PatientInv, FilesInv, FilesFollow
  <2>2. pidFile # NoFile
    <3>1. pidFile \in [by : Daemons, written : BOOLEAN]
      BY <2>1
    <3> QED
      BY <3>1
  <2>3. seen[c] = PidOf[d]
    BY <2>1, <2>2 DEF Recorded
  <2> QED
    BY <2>3 DEF Running, PidAlive, IsCallshield, Holders, Pids
<1>11. CASE StartJudge(c)
  <2> USE <1>11 DEF StartJudge
  <2>1. seen[c] = NoFile => pidFile = NoFile
    BY <1>2 DEF CommandFits, Recorded
  <2>2. pc'[c] # "finished" => CommandFits(c)'
    BY <1>2, <1>10, <2>1, ZenonT(60) DEF CommandFits, Alive, NobodyServes, Recorded
  <2> QED
    BY <1>4, <1>5, <2>2, ZenonT(60)
<1>12. CASE Spawn(c)
  <2> PICK d \in Daemons : /\ pc[d] = "unborn"
                           /\ pc' = [pc EXCEPT ![c] = "await", ![d] = "status"]
                           /\ task' = [task EXCEPT ![d] = "recover"]
    BY <1>12 DEF Spawn
  <2>1. /\ NobodyServes /\ pidFile = NoFile
        /\ UNCHANGED <<seen, files, listening>>
    BY <1>2, <1>12 DEF Spawn, CommandFits
  <2>2. CommandFits(c)'
    BY DEF CommandFits
  <2>3. FilesFollow(d)' /\ \A e \in Daemons \ {d} : ~Alive(e)'
    BY <2>1 DEF FilesFollow, NobodyServes, Alive
  <2> QED
    BY <1>4, <2>2, <2>3 DEF OneDaemon, FilesInv
<1>13. CASE Await(c)
  <2> USE <1>13 DEF Await, Signalled
  <2>1. pc'[c] = "finished" /\ \A e \in Commands \ {c} : pc'[e] = pc[e]
    BY DEF KnownOK
  <2>2. /\ \A d \in Daemons : pc'[d] = pc[d] \/ ~Alive(d)'
        /\ \A d \in listening : Alive(d)' => d \in listening'
    BY DEF Alive, KnownOK
  <2> QED
    BY <1>4, <1>5, <2>1, <2>2
<1>14. CASE StopJudge(c)
  <2> USE <1>14 DEF StopJudge
  <2>1. CASE ~Running(seen[c])
    <3>1. CommandFits(c)'
      BY <1>2, <1>10, <2>1 DEF CommandFits, Alive, NobodyServes, Recorded
    <3> QED
      BY <1>4, <1>5, <3>1
  <2>2. CASE Running(seen[c])
    <3>1. seen[c] # NoFile
      BY <2>2 DEF Running, Pids
    <3>2. pidFile # NoFile
      BY <1>2, <3>1 DEF CommandFits, Recorded
    <3>3. /\ pc' = [pc EXCEPT ![c] = "request"]
          /\ UNCHANGED <<task, seen, files, listening>>
      BY <2>2, <3>1
    <3>4. CommandFits(c)'
      BY <1>2, <3>2, <3>3 DEF CommandFits, Alive, Served
    <3> QED
      BY <1>4, <1>5, <3>3, <3>4
  <2> QED
    BY <2>1, <2>2
<1>15. CASE StopRequest(c) \/ StopPoll(c)
  <2> USE <1>15 DEF StopRequest, StopPoll
  <2>1. pc'[c] # "finished" => CommandFits(c)'
    BY <1>2 DEF CommandFits, Alive, Served
  <2> QED
    BY <1>4, <1>5, <2>1
<1>16. CASE StopRecord(c)
  <2> USE <1>16 DEF StopRecord
  <2>1. ASSUME Recorded # NoFile, NEW d \in Daemons, Alive(d)
        PROVE  Recorded = PidOf[d]
    <3>1. FilesFollow(d) /\ Served(d) /\ pidFile # NoFile
      BY <1>2, <2>1 DEF CommandFits, PatientInv, FilesInv, Recorded
    <3>2. pidFile = [by |-> d, written |-> TRUE]
      BY <2>1, <3>1 DEF FilesFollow, Served, TaskFits, Alive
    <3> QED
      BY <3>1, <3>2 DEF Recorded
  <2>2. pc'[c] # "finished" => CommandFits(c)'
    BY <1>2, <2>1 DEF CommandFits, Alive, Served, Recorded
  <2> QED
    BY <1>4, <1>5, <2>2
<1>17. pc[c] \in {"verify", "terminate", "wait", "kill", "final"} /\ ~PidAlive(seen[c])
          => NobodyServes
  BY <1>2 DEF CommandFits, PidAlive, Holders, NobodyServes, Lives
<1>18. pc[c] = "verify" /\ ~Running(seen[c]) => NobodyServes
  BY <1>2 DEF CommandFits, Running, PidAlive, IsCallshield, Holders, NobodyServes, Lives, Pids
<1>19. CASE StopVerify(c)
  <2> USE <1>19 DEF StopVerify
  <2>1. CommandFits(c)'
    BY <1>2, <1>18 DEF CommandFits, Alive, Served, Recorded, NobodyServes
  <2> QED
    BY <1>4, <1>5, <2>1
<1>20. CASE StopTerminate(c) \/ StopKill(c)
  <2> USE <1>20 DEF StopTerminate, StopKill, Signalled
  <2>1. /\ \A d \in Daemons : pc'[d] = pc[d] \/ ~Alive(d)'
        /\ \A d \in listening : Alive(d)' => d \in listening'
        /\ \A e \in Commands \ {c} : pc'[e] = pc[e]
        /\ UNCHANGED <<task, seen, files>>
    BY DEF Alive, Holders
  <2>2. /\ pc[c] \in {"terminate", "kill"} /\ pc'[c] \in {"wait", "clearPid", "final"}
        /\ pc'[c] = "clearPid" => ~PidAlive(seen[c])
    BY DEF Holders
  <2> HIDE <1>20 DEF StopTerminate, StopKill, Signalled
  <2>3. CommandFits(c)'
    BY <1>2, <1>17, <2>1, <2>2 DEF CommandFits, Alive, Served, Recorded, NobodyServes
  <2> QED
    BY <1>4, <1>5, <2>1, <2>3
<1>21. CASE StopWait(c) \/ StopFinal(c)
  <2> USE <1>21 DEF StopWait, StopFinal
  <2>1. pc'[c] # "finished" => CommandFits(c)'
    BY <1>2, <1>17 DEF CommandFits, Alive, Served, Recorded, NobodyServes
  <2> QED
    BY <1>4, <1>5, <2>1
<1> QED
  BY <1>6, <1>7, <1>8, <1>9, <1>11, <1>12, <1>13, <1>14, <1>15, <1>16, <1>19, <1>20, <1>21
  DEF CommandStep

\* A command begins when the daemon serves or is gone, and nothing asks it to stop.
LEMMA BeginKeeps ==
  ASSUME PatientInv, Patient, NEW c \in Commands, Begin(c)
  PROVE  OneCommand' /\ OneDaemon' /\ FilesInv' /\ CommandInv'
<1>0. PcOK /\ TaskOK /\ FilesOK
  BY DEF PatientInv, LifecycleInv, TypeOK
<1> USE <1>0, LivesAssumption DEF PcOK, TaskOK, FilesOK, Actors, Lives, Begin
<1>1. OneCommand' /\ CommandInv'
  BY DEF Quiet, OneCommand, CommandInv, CommandFits, Active, Alive
<1>2. OneDaemon' /\ FilesInv'
  BY DEF PatientInv, OneDaemon, FilesInv, FilesFollow, Alive
<1> QED
  BY <1>1, <1>2

\* What dies leaves the files as they are; a program that appears is no daemon.
LEMMA OutsideKeeps ==
  ASSUME PatientInv, NEW l \in Lives, Outside(l)
  PROVE  OneCommand' /\ OneDaemon' /\ FilesInv' /\ CommandInv'
<1>0. PcOK /\ TaskOK /\ FilesOK
  BY DEF PatientInv, LifecycleInv, TypeOK
<1> USE <1>0, LivesAssumption DEF PcOK, TaskOK, FilesOK, Actors, Lives
<1>1. /\ \A a \in Actors \ {l} : pc'[a] = pc[a]
      /\ l \in Daemons => ~Alive(l)' \/ (pc' = pc /\ l \in hung)
      /\ listening' \in {listening, listening \ {l}}
      /\ UNCHANGED <<task, seen, files, asked, hung>>
  BY DEF Outside, Crash, Appear, StopAccepting, Refuse, Ends, Alive
<1>2. OneDaemon' /\ FilesInv'
  BY <1>1 DEF PatientInv, OneDaemon, FilesInv, FilesFollow, Alive
<1>3. OneCommand' /\ CommandInv'
  BY <1>1 DEF PatientInv, OneCommand, CommandInv, CommandFits, NobodyServes, Served, Active,
              Alive, Recorded
<1> QED
  BY <1>2, <1>3

\* Nothing runs at the start.
LEMMA PatientInit ==
  ASSUME Init
  PROVE  PatientInv
<1>1. LifecycleInv
  BY InvInit
<1> QED
  BY <1>1, LivesAssumption
  DEF Init, PatientInv, OneCommand, OneDaemon, FilesInv, CommandInv, Active, Alive, Actors, Lives

\* Every step keeps the invariant, while commands come one at a time.
LEMMA PatientStep ==
  ASSUME Patient, PatientInv, [Next]_vars
  PROVE  PatientInv'
<1>1. LifecycleInv'
  BY InvStep DEF PatientInv
<1>2. OneCommand' /\ OneDaemon' /\ FilesInv' /\ CommandInv'
  <2>1. CASE Next
    BY <2>1, DaemonKeeps, CommandKeeps, BeginKeeps, OutsideKeeps DEF Next, Outside, Lives
  <2>2. CASE UNCHANGED vars
    BY <2>2
    DEF vars, PatientInv, OneCommand, OneDaemon, FilesInv, CommandInv, FilesFollow, CommandFits,
        NobodyServes, Served, Active, Alive, Recorded
  <2> QED
    BY <2>1, <2>2
<1> QED
  BY <1>1, <1>2 DEF PatientInv

\* While commands come one at a time, there is one daemon at most, the files say where
\* it is, and each command knows what it may rely on.
THEOREM PatientInvariant == ASSUME Patient PROVE Spec => []PatientInv
  BY PatientInit, PatientStep, PTL DEF Spec

\* Then a daemon that serves can be found: the PID file names it, and the socket file is
\* the one it listens on.
THEOREM RunningFound == ASSUME Patient PROVE Spec => []RunningIsFound
<1>1. PatientInv => RunningIsFound
  BY DEF PatientInv, LifecycleInv, RunningIsFound, FilesInv, FilesFollow, Alive, SocketActive
<1> QED
  BY <1>1, PatientInvariant, PTL

\* Then nothing a crash left behind refuses a daemon that the start command launches.
THEOREM NeverRefused == ASSUME Patient PROVE Spec => LeftoversNeverRefuse
<1>1. PatientInv => [\A d \in Daemons : DaemonStep(d) /\ pc'[d] \in {"dead", "closing"}
                                            => pc[d] = "exit"]_vars
  BY DaemonFiles
<1> QED
  BY <1>1, PatientInvariant, PTL DEF LeftoversNeverRefuse

\* The two places where a stop command says "stopped": the files are gone, and a daemon
\* that is left has only to exit.
LEMMA StopReports ==
  ASSUME PatientInv, Next, NEW c \in Commands, report'[c] = "stopped", report[c] # "stopped"
  PROVE  /\ \A d \in Daemons : Alive(d) => pc[d] = "exit"
         /\ pidFile' = NoFile /\ endpoint' = NoLife
<1>0. PcOK /\ TaskOK /\ FilesOK /\ KnownOK /\ TaskFits
  BY DEF PatientInv, LifecycleInv, TypeOK
<1> USE <1>0, LivesAssumption DEF PcOK, TaskOK, FilesOK, KnownOK, Actors, Lives
<1>1. ~(\E d \in Daemons : DaemonStep(d))
  <2> SUFFICES ASSUME NEW d \in Daemons, DaemonStep(d) PROVE UNCHANGED report
    OBVIOUS
  <2>1. task[d] \in DaemonTasks
    OBVIOUS
  <2> QED
    BY <2>1
    DEF DaemonStep, ReadStatus, RecoverJudge, RecoverProbe, ComparePid, UnlinkPid,
        ProbeSocket, UnlinkSocket, ClaimRead, ClaimJudge, ClaimCreate, ClaimWrite, StartIpc,
        Bind, Listen, Close, Exit, Refuse, AfterSocket, DaemonTasks
<1>2. ~(\E l \in Lives : Outside(l))
  BY DEF Outside, Crash, Refuse, Appear, StopAccepting
<1>3. PICK e \in Commands : Begin(e) \/ CommandStep(e)
  BY <1>1, <1>2 DEF Next, Outside, Lives
<1>4. \/ (ProbeSocket(c) \/ UnlinkSocket(c)) /\ task[c] = "stop"
      \/ StopPoll(c) /\ Recorded = NoFile
  <2>1. ~(\/ Begin(e) \/ ReadStatus(e) \/ ComparePid(e) \/ UnlinkPid(e) \/ Spawn(e) \/ StopJudge(e)
          \/ StopRequest(e) \/ StopVerify(e) \/ StopTerminate(e) \/ StopWait(e) \/ StopKill(e))
    BY DEF Begin, ReadStatus, ComparePid, UnlinkPid, Spawn, StopJudge, StopRequest, StopVerify,
           StopTerminate, StopWait, StopKill
  <2>2. ASSUME StartJudge(e) \/ Await(e) \/ StopRecord(e) \/ StopFinal(e)
        PROVE  FALSE
    <3>1. \/ UNCHANGED report
          \/ \E what \in {"already running", "started", "failed", "unverified", "error"} :
                report' = [report EXCEPT ![e] = what]
      BY <2>2 DEF StartJudge, Await, StopRecord, StopFinal
    <3> QED
      BY <3>1
  <2>3. ASSUME ProbeSocket(e) \/ UnlinkSocket(e)
        PROVE  e = c /\ task[c] = "stop"
    <3>1. \/ UNCHANGED report
          \/ /\ task[e] \in {"stop", "notRunning", "discard", "unverified"}
             /\ report' = [report EXCEPT ![e] = Cleared(e)]
      BY <2>3 DEF ProbeSocket, UnlinkSocket, AfterSocket
    <3> QED
      BY <3>1 DEF Cleared
  <2>4. ASSUME StopPoll(e)
        PROVE  e = c /\ Recorded = NoFile
    BY <2>4 DEF StopPoll
  <2> QED
    BY <1>3, <2>1, <2>2, <2>3, <2>4 DEF CommandStep
<1>5. CommandFits(c)
  BY <1>4 DEF PatientInv, CommandInv, Active, ProbeSocket, UnlinkSocket, StopPoll
<1>6. CASE (ProbeSocket(c) \/ UnlinkSocket(c)) /\ task[c] = "stop"
  <2>1. NobodyServes /\ ~SocketActive /\ pidFile = NoFile
    BY <1>5, <1>6, OnlyRunningAnswers DEF CommandFits, ProbeSocket, UnlinkSocket
  <2>2. CASE ProbeSocket(c)
    BY <2>1, <2>2 DEF ProbeSocket, NobodyServes
  <2>3. CASE UnlinkSocket(c)
    BY <2>1, <2>3 DEF UnlinkSocket, NobodyServes
  <2> QED
    BY <1>6, <2>2, <2>3
<1>7. CASE StopPoll(c) /\ Recorded = NoFile
  <2>1. pidFile = NoFile
    BY <1>7 DEF Recorded
  <2>2. endpoint = NoLife /\ \A d \in Daemons : Alive(d) => Served(d) /\ FilesFollow(d)
    BY <1>5, <1>7, <2>1 DEF StopPoll, CommandFits, PatientInv, FilesInv
  <2>3. \A d \in Daemons : NoFile # [by |-> d, written |-> TRUE]
    <3>1. \A d \in Daemons : [by |-> d, written |-> TRUE] \in [by : Daemons, written : BOOLEAN]
      OBVIOUS
    <3> QED
      BY <3>1
  <2>4. \A d \in Daemons : Alive(d) => pc[d] = "exit"
    BY <2>1, <2>2, <2>3 DEF Served, FilesFollow, TaskFits, Alive
  <2> QED
    BY <1>7, <2>1, <2>2, <2>4 DEF StopPoll
<1> QED
  BY <1>4, <1>6, <1>7

\* Then a stop command that says "stopped" tells the truth.
THEOREM StopTellsTruth == ASSUME Patient PROVE Spec => StoppedIsTrue
<1>1. PatientInv /\ [Next]_vars =>
        [\A c \in Commands : report'[c] = "stopped" /\ report[c] # "stopped" =>
            /\ \A d \in Daemons : Alive(d) => pc[d] = "exit"
            /\ pidFile' = NoFile /\ endpoint' = NoLife]_vars
  BY StopReports
<1> QED
  BY <1>1, PatientInvariant, PTL DEF Spec, StoppedIsTrue
=============================================================================
