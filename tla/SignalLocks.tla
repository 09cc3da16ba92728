---------------------------- MODULE SignalLocks ----------------------------
(***************************************************************************)
(* The locks of the daemon's threads and of its signal handlers.           *)
(*                                                                         *)
(* Python runs a signal handler on the main thread, on top of whatever     *)
(* that thread is doing, between any two steps and while it waits for a    *)
(* lock.  No lock of the daemon is reentrant (threading.Lock, the mutex of *)
(* queue.Queue, the condition inside threading.Event), and is_set() takes  *)
(* none.                                                                   *)
(*                                                                         *)
(* A function is the list of locks it takes and gives back, in order, with *)
(* the points where it looks at or sets the shutdown event.  What it does  *)
(* to other data is in EventPipeline; logging (reentrant locks) and locks  *)
(* that neither a handler nor two threads share are left out.              *)
(***************************************************************************)
EXTENDS Naturals, Sequences

CONSTANTS Threads,     \* "main" and those of the other threads that are looked at
          MaxSignals,  \* signals delivered in all
          Nobody

ASSUME ThreadsAssumption ==
  /\ "main" \in Threads
  /\ Threads \subseteq {"main", "processor", "worker", "heartbeat", "stopper"}
  /\ Nobody \notin Threads
ASSUME SignalsAssumption == MaxSignals \in Nat

VARIABLES stack,     \* what each thread runs, the innermost function last
          owner,     \* who holds each lock
          shutdown,  \* the event _shutdown
          signals,   \* signals delivered
          asked      \* a stop was asked for, by a signal or by IPC

vars == <<stack, owner, shutdown, signals, asked>>

Locks == {"queue", "mutex", "health", "heartbeat", "event", "ipcStop",
          "initiated", "clients", "cleanup"}

-----------------------------------------------------------------------------
(* Functions as lists of what they do.                                     *)

Take(l) == <<"take", l>>
Give(l) == <<"give", l>>
Nap     == <<"nap", "">>         \* a wait that ends, by its timeout if by nothing else
Set     == <<"set", "">>         \* _shutdown's flag
Return  == <<"return", "">>      \* leave the function if _shutdown is set
Branch  == <<"branch", "">>      \* leave the loop if _shutdown is set

Region(l)    == <<Take(l), Give(l)>>
Nested(l, k) == <<Take(l)>> \o Region(k) \o <<Give(l)>>

\* Mutant: the size is read first and the counters under its lock.
MetricsInverted == Nested("mutex", "queue")

\* EventQueue.metrics: qsize() under _lock takes the mutex of queue.Queue.
Metrics == Nested("queue", "mutex")

\* _sync_runtime_metrics
Sync == Metrics \o Region("health") \o Region("health")

\* Heartbeat.beat
Beat == Region("heartbeat") \o Region("health")

\* Mutant: the main loop is never told.
RequestQuietly == <<Return>> \o Region("queue") \o Region("ipcStop") \o Region("event")

\* request_shutdown
RequestShutdown ==
  <<Return>> \o Region("queue") \o Region("ipcStop") \o <<Take("event"), Set, Give("event")>>

\* start(): check_db, heartbeat.start, _ipc_stop.clear, set_state
Starting == Region("health") \o Beat \o Region("ipcStop") \o Region("health")

\* One turn of the main loop: Event.wait, then check_db and the metrics.
MainLoop == Region("event") \o <<Nap>> \o Region("event") \o <<Branch>>
            \o Region("health") \o Sync

\* _do_graceful_shutdown
Stopping == Region("cleanup") \o Region("health") \o Region("queue") \o Region("ipcStop")
            \o <<Take("event"), Set, Give("event"), Nap>> \o Region("clients")
            \o <<Nap>> \o Sync \o Region("health") \o Region("health")

\* One turn of _processor_loop: dequeue, count, task_done, metrics.
Processing == Region("mutex") \o Region("health") \o Region("mutex") \o Sync

\* An IPC worker with an event: count it, EventQueue.put, leave the set of clients.
Accepting == Region("health") \o Region("queue") \o Region("mutex")
             \o Nested("queue", "mutex") \o Region("clients")

\* _handle_sigterm and _handle_sigint; _handle_sighup
HandleSigterm == Region("initiated") \o RequestShutdown
HandleSighup  == Region("health") \o Region("heartbeat")

\* An IPC worker with the command "screening_config": _reload_config on its thread.
Reloading == HandleSighup \o Region("clients")

\* One turn of Heartbeat._run.
Beating == Region("heartbeat") \o Beat \o <<Nap>>

Code == [starting |-> Starting, loop |-> MainLoop, stopping |-> Stopping,
         processing |-> Processing, accepting |-> Accepting, reloading |-> Reloading,
         beating |-> Beating,
         request |-> RequestShutdown, sigterm |-> HandleSigterm, sighup |-> HandleSighup]

-----------------------------------------------------------------------------
(* Threads.                                                                *)

Ended == stack["main"] = <<>>

Top(t)    == stack[t][Len(stack[t])]
Rest(t)   == SubSeq(stack[t], 1, Len(stack[t]) - 1)
Busy(t)   == stack[t] # <<>> /\ Top(t).at <= Len(Code[Top(t).code])
Doing(t)  == Code[Top(t).code][Top(t).at]
Advanced(t) == Append(Rest(t), [Top(t) EXCEPT !.at = @ + 1])
Enter(f)  == [code |-> f, at |-> 1]

Moves(t, to) == stack' = [stack EXCEPT ![t] = to]

TakeLock(t) ==
  /\ Doing(t)[1] = "take" /\ owner[Doing(t)[2]] = Nobody
  /\ owner' = [owner EXCEPT ![Doing(t)[2]] = t]
  /\ Moves(t, Advanced(t))
  /\ UNCHANGED shutdown

GiveLock(t) ==
  /\ Doing(t)[1] = "give"
  /\ owner' = [owner EXCEPT ![Doing(t)[2]] = Nobody]
  /\ Moves(t, Advanced(t))
  /\ UNCHANGED shutdown

WakeUp(t) ==
  /\ Doing(t)[1] = "nap"
  /\ Moves(t, Advanced(t))
  /\ UNCHANGED <<owner, shutdown>>

SetShutdown(t) ==
  /\ Doing(t)[1] = "set"
  /\ shutdown' = TRUE
  /\ Moves(t, Advanced(t))
  /\ UNCHANGED owner

LookAtShutdown(t) ==
  /\ Doing(t)[1] \in {"return", "branch"}
  /\ Moves(t, IF ~shutdown THEN Advanced(t)
              ELSE IF Doing(t)[1] = "return" THEN Rest(t)
              ELSE Append(Rest(t), Enter("stopping")))
  /\ UNCHANGED <<owner, shutdown>>

\* The end of a function: loops begin anew, everything else returns.
Finish(t) ==
  /\ stack[t] # <<>> /\ ~Busy(t)
  /\ Moves(t, CASE Top(t).code \in {"starting", "loop"} -> <<Enter("loop")>>
                [] Top(t).code \in {"processing", "beating"} -> <<Enter(Top(t).code)>>
                [] OTHER -> Rest(t))
  /\ UNCHANGED <<owner, shutdown>>

Step(t) ==
  /\ ~Ended
  /\ \/ Busy(t) /\ (TakeLock(t) \/ GiveLock(t) \/ WakeUp(t) \/ SetShutdown(t) \/ LookAtShutdown(t))
     \/ Finish(t)
  /\ UNCHANGED <<signals, asked>>

\* A client's "stop": the thread of _delayed_shutdown.
AskByIpc ==
  /\ ~Ended /\ "stopper" \in Threads /\ stack["stopper"] = <<>>
  /\ asked' = TRUE
  /\ Moves("stopper", <<Enter("request")>>)
  /\ UNCHANGED <<owner, shutdown, signals>>

\* A client's event or screening_config.
AcceptRequest ==
  /\ ~Ended /\ "worker" \in Threads /\ stack["worker"] = <<>>
  /\ \E f \in {"accepting", "reloading"} : Moves("worker", <<Enter(f)>>)
  /\ UNCHANGED <<owner, shutdown, signals, asked>>

\* A signal: its handler runs on top of what the main thread is doing.
Interrupt(handler) ==
  /\ ~Ended /\ signals < MaxSignals
  /\ signals' = signals + 1
  /\ asked' = (asked \/ handler = "sigterm")
  /\ Moves("main", Append(stack["main"], Enter(handler)))
  /\ UNCHANGED <<owner, shutdown>>

Init ==
  /\ stack = [t \in Threads |->
                CASE t = "main"      -> <<Enter("starting")>>
                  [] t = "processor" -> <<Enter("processing")>>
                  [] t = "heartbeat" -> <<Enter("beating")>>
                  [] OTHER           -> <<>>]
  /\ owner = [l \in Locks |-> Nobody]
  /\ shutdown = FALSE /\ signals = 0 /\ asked = FALSE

Next ==
  \/ \E t \in Threads : Step(t)
  \/ AskByIpc \/ AcceptRequest
  \/ \E handler \in {"sigterm", "sighup"} : Interrupt(handler)

Spec == Init /\ [][Next]_vars

\* Threads that can run do, and one that finds a lock free time and again gets it.
Fairness == \A t \in Threads : SF_vars(Step(t))

FairSpec == Spec /\ Fairness

-----------------------------------------------------------------------------
(* Properties.                                                             *)

TypeOK ==
  /\ stack \in [Threads -> Seq([code : DOMAIN Code, at : Nat])]
  /\ \A t \in Threads : Len(stack[t]) <= (IF t = "main" THEN 1 + signals ELSE 1)
  /\ owner \in [Locks -> Threads \cup {Nobody}]
  /\ shutdown \in BOOLEAN /\ asked \in BOOLEAN
  /\ signals \in 0..MaxSignals

\* Whom a thread waits for: the holder of the lock it is about to take.
WaitsFor(t) ==
  IF Busy(t) /\ Doing(t)[1] = "take" THEN owner[Doing(t)[2]] ELSE Nobody

\* The handler on top of the main thread wants a lock that the code under it holds.
SelfBlocked == WaitsFor("main") = "main"

\* Threads never wait for each other in a circle; the one way to block for ever is
\* the main thread waiting for itself in a signal handler (EventQueue._lock is always
\* taken before the mutex of queue.Queue, everything else on its own).
NoCircularWait ==
  /\ TypeOK
  /\ \A S \in SUBSET Threads :
        S # {} /\ (\A t \in S : WaitsFor(t) \in S) => "main" \in S /\ SelfBlocked

\* A stop that was asked for ends the daemon, unless the main thread blocked itself:
\* the one way to lose it.
StopEnds == asked ~> Ended \/ SelfBlocked

\* "Stop accepting work and wake the main loop; safe to call repeatedly."
\* (request_shutdown, called by the handlers of SIGTERM and SIGINT): it returns.
StopSignalsGetThrough == ~(SelfBlocked /\ Top("main").code = "sigterm")
=============================================================================
