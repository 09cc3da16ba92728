---------------------------- MODULE EventPipeline ----------------------------
(* The daemon's event path: the IPC accept loop and its bounded client        *)
(* workers, the closable bounded queue between them and the processor thread, *)
(* and the graceful shutdown that has to drain that queue.                    *)
(* callshield/daemon/service.py, callshield/events/queue.py.                  *)
(*                                                                            *)
(* Each request carries one "event" command on a connection of its own, as    *)
(* the IPC protocol requires.  A step of the model is a step of a thread      *)
(* between two points where other threads can see the state: a locked region, *)
(* a queue operation, a flag.                                                 *)
EXTENDS Naturals, Sequences, FiniteSets, Functions

CONSTANTS
    Requests,    \* the event requests clients may send
    Capacity,    \* EventQueue.maxsize
    MaxWorkers,  \* MAX_IPC_WORKERS, the client slots of the accept loop
    Stoppers,    \* who may call request_shutdown: "signal", "ipc"
    NoRequest    \* not a request: no connection in hand, no event being processed

ASSUME PipelineAssumption ==
    /\ IsFiniteSet(Requests)
    /\ Capacity \in Nat \ {0}
    /\ MaxWorkers \in Nat \ {0}
    /\ Stoppers \in {{"signal"}, {"signal", "ipc"}}
    /\ NoRequest \notin Requests

VARIABLES
    pc,          \* how far each request has come, over all the threads that touch it
    clients,     \* _ipc_clients: requests whose worker thread holds a client slot
    ipc,         \* the accept loop: "accepting", "connected", "exited"
    connection,  \* the connection the accept loop has in hand
    ipcStop,     \* _ipc_stop set and the listener closed
    closed,      \* EventQueue._closed
    shutdown,    \* the _shutdown event
    queue,       \* the underlying queue.Queue
    unfinished,  \* queue.Queue.unfinished_tasks
    metrics,     \* EventQueue._received, _dropped and _peak
    health,      \* HealthMonitor counters of the event path
    processor,   \* the processor thread
    current,     \* the event it has dequeued
    handled,     \* the events it has finished, in order
    stopper,     \* the callers of request_shutdown
    main,        \* the main thread, in start() and _do_graceful_shutdown()
    joining,     \* the workers _do_graceful_shutdown waits for
    patient,     \* no join of _do_graceful_shutdown has timed out
    drained,     \* what wait_until_done returned
    saved        \* the counters _persist_metrics wrote

threadVars == <<pc, clients, ipc, connection>>
flagVars   == <<ipcStop, closed, shutdown>>
queueVars  == <<queue, unfinished, metrics>>
workVars   == <<processor, current, handled>>
stopVars   == <<main, joining, patient, drained, saved>>
vars == <<threadVars, flagVars, queueVars, health, workVars, stopper, stopVars>>

WorkerStates ==
    {"started", "received", "admitted", "overflow", "stored", "accepted",
     "rejected", "refused", "invalid"}
AnsweredStates == {"okSent", "errorSent", "busySent"}
PcStates == {"new", "connected"} \union WorkerStates \union AnsweredStates
\* put() has stored the event.
StoredStates == {"stored", "accepted", "okSent"}
\* inc_received has counted the event, no other counter has yet.
CountedStates ==
    {"received", "admitted", "overflow", "rejected"} \union StoredStates

Counters == [received : Nat, processed : Nat, failed : Nat, dropped : Nat]
QueueMetrics == [received : Nat, dropped : Nat, peak : Nat]
ZeroCounters == [received |-> 0, processed |-> 0, failed |-> 0, dropped |-> 0]

Running == main # "exited"
Queued  == Range(queue)
Handled == Range(handled)

TypeOK ==
    /\ pc \in [Requests -> PcStates]
    /\ clients \subseteq Requests
    /\ ipc \in {"accepting", "connected", "exited"}
    /\ connection \in Requests \union {NoRequest}
    /\ ipcStop \in BOOLEAN /\ closed \in BOOLEAN /\ shutdown \in BOOLEAN
    /\ queue \in Seq(Requests)
    /\ unfinished \in Nat
    /\ metrics \in QueueMetrics
    /\ health \in Counters
    /\ processor \in {"waiting", "idle", "handling", "finishing", "exited"}
    /\ current \in Requests \union {NoRequest}
    /\ handled \in Seq(Requests)
    /\ stopper \in [Stoppers -> {"none", "closing", "stopping", "setting", "done"}]
    /\ main \in {"running", "joinIpc", "snapshot", "joinClients", "draining",
                 "joinProcessor", "saving", "exited"}
    /\ joining \subseteq Requests
    /\ patient \in BOOLEAN /\ drained \in BOOLEAN
    /\ saved \in Counters

Init ==
    /\ pc = [r \in Requests |-> "new"]
    /\ clients = {}
    /\ ipc = "accepting" /\ connection = NoRequest
    /\ ipcStop = FALSE /\ closed = FALSE /\ shutdown = FALSE
    /\ queue = <<>> /\ unfinished = 0
    /\ metrics = [received |-> 0, dropped |-> 0, peak |-> 0]
    /\ health = ZeroCounters
    /\ processor = "waiting" /\ current = NoRequest /\ handled = <<>>
    /\ stopper = [s \in Stoppers |-> "none"]
    /\ main = "running" /\ joining = {} /\ patient = TRUE /\ drained = FALSE
    /\ saved = ZeroCounters

------------------------------------------------------------------------------
(* The accept loop, _ipc_loop.                                                *)

Accept(r) ==
    /\ Running /\ ipc = "accepting" /\ ~ipcStop
    /\ pc[r] = "new"
    /\ ipc' = "connected" /\ connection' = r
    /\ pc' = [pc EXCEPT ![r] = "connected"]
    /\ UNCHANGED <<clients, flagVars, queueVars, health, workVars, stopper, stopVars>>

AfterConnection == IF ipcStop THEN "exited" ELSE "accepting"

\* A client slot is free: register the worker and start it.
StartWorker(r) ==
    /\ Running /\ ipc = "connected" /\ connection = r
    /\ Cardinality(clients) < MaxWorkers
    /\ clients' = clients \union {r}
    /\ pc' = [pc EXCEPT ![r] = "started"]
    /\ ipc' = AfterConnection /\ connection' = NoRequest
    /\ UNCHANGED <<flagVars, queueVars, health, workVars, stopper, stopVars>>

\* All slots are taken: answer "IPC busy".
RefuseBusy(r) ==
    /\ Running /\ ipc = "connected" /\ connection = r
    /\ Cardinality(clients) >= MaxWorkers
    /\ pc' = [pc EXCEPT ![r] = "busySent"]
    /\ ipc' = AfterConnection /\ connection' = NoRequest
    /\ UNCHANGED <<clients, flagVars, queueVars, health, workVars, stopper, stopVars>>

StopAccepting ==
    /\ Running /\ ipc = "accepting" /\ ipcStop
    /\ ipc' = "exited"
    /\ UNCHANGED <<pc, clients, connection, flagVars, queueVars, health,
                   workVars, stopper, stopVars>>

------------------------------------------------------------------------------
(* A client worker: _accept_event, and EventQueue.put inside it.              *)

Worker(r, from, to) ==
    /\ Running /\ pc[r] = from
    /\ pc' = [pc EXCEPT ![r] = to]
    /\ UNCHANGED <<ipc, connection, flagVars, workVars, stopper, stopVars>>

\* The request cannot be read or its event does not validate: nothing is counted.
RejectInvalid(r) ==
    /\ Worker(r, "started", "invalid")
    /\ UNCHANGED <<clients, queueVars, health>>

CountReceived(r) ==
    /\ Worker(r, "started", "received")
    /\ health' = [health EXCEPT !.received = @ + 1]
    /\ UNCHANGED <<clients, queueVars>>

\* put: the closed flag is read under the lock, which is then released.
PassClosedCheck(r) ==
    /\ ~closed
    /\ Worker(r, "received", "admitted")
    /\ metrics' = [metrics EXCEPT !.received = @ + 1]
    /\ UNCHANGED <<clients, queue, unfinished, health>>

FailClosedCheck(r) ==
    /\ closed
    /\ Worker(r, "received", "rejected")
    /\ metrics' = [metrics EXCEPT !.received = @ + 1, !.dropped = @ + 1]
    /\ UNCHANGED <<clients, queue, unfinished, health>>

\* put: put_nowait, outside the lock.
StoreEvent(r) ==
    /\ Len(queue) < Capacity
    /\ Worker(r, "admitted", "stored")
    /\ queue' = Append(queue, r)
    /\ unfinished' = unfinished + 1
    /\ UNCHANGED <<clients, metrics, health>>

\* Mutant: a full queue is reported as an accepted event.
FindFullAsStored(r) ==
    /\ Len(queue) >= Capacity
    /\ Worker(r, "admitted", "stored")
    /\ UNCHANGED <<clients, queueVars, health>>

FindFull(r) ==
    /\ Len(queue) >= Capacity
    /\ Worker(r, "admitted", "overflow")
    /\ UNCHANGED <<clients, queueVars, health>>

CountOverflow(r) ==
    /\ Worker(r, "overflow", "rejected")
    /\ metrics' = [metrics EXCEPT !.dropped = @ + 1]
    /\ UNCHANGED <<clients, queue, unfinished, health>>

\* put: the high-water mark, under the lock again.
RecordPeak(r) ==
    /\ Worker(r, "stored", "accepted")
    /\ metrics' = [metrics EXCEPT !.peak = IF Len(queue) > @ THEN Len(queue) ELSE @]
    /\ UNCHANGED <<clients, queue, unfinished, health>>

\* Mutant: an event refused by the queue is not counted as dropped.
CountNoDrop(r) ==
    /\ Worker(r, "rejected", "refused")
    /\ UNCHANGED <<clients, queueVars, health>>

CountDropped(r) ==
    /\ Worker(r, "rejected", "refused")
    /\ health' = [health EXCEPT !.dropped = @ + 1]
    /\ UNCHANGED <<clients, queueVars>>

\* Mutant: only accepted events are answered.
AnswerAccepted(r) ==
    /\ Worker(r, "accepted", "okSent")
    /\ clients' = clients \ {r}
    /\ UNCHANGED <<queueVars, health>>

\* Send the response and give the client slot back.
Answer(r) ==
    /\ \/ Worker(r, "accepted", "okSent")
       \/ Worker(r, "refused", "errorSent")
       \/ Worker(r, "invalid", "errorSent")
    /\ clients' = clients \ {r}
    /\ UNCHANGED <<queueVars, health>>

------------------------------------------------------------------------------
(* The processor thread, _processor_loop.                                     *)

Processor(from, to) ==
    /\ Running /\ processor = from
    /\ processor' = to
    /\ UNCHANGED <<threadVars, flagVars, stopper, stopVars, metrics>>

\* Mutant: the newest event is taken first.
DequeueNewest ==
    /\ queue # <<>>
    /\ Processor("waiting", "handling")
    /\ current' = queue[Len(queue)]
    /\ queue' = SubSeq(queue, 1, Len(queue) - 1)
    /\ UNCHANGED <<unfinished, health, handled>>

Dequeue ==
    /\ queue # <<>>
    /\ Processor("waiting", "handling")
    /\ current' = Head(queue)
    /\ queue' = Tail(queue)
    /\ UNCHANGED <<unfinished, health, handled>>

\* Mutant: task_done also runs when get() timed out.
DequeueTimeoutDone ==
    /\ queue = <<>>
    /\ Processor("waiting", "idle")
    /\ unfinished' = unfinished - 1
    /\ UNCHANGED <<queue, health, current, handled>>

DequeueTimeout ==
    /\ queue = <<>>
    /\ Processor("waiting", "idle")
    /\ UNCHANGED <<queue, unfinished, health, current, handled>>

\* Mutant: the loop is left as soon as the queue is empty.
CheckExitIdle ==
    /\ Processor("idle", IF queue = <<>> THEN "exited" ELSE "waiting")
    /\ UNCHANGED <<queue, unfinished, health, current, handled>>

\* After a timeout: leave the loop only on shutdown with an empty queue.
CheckExit ==
    /\ Processor("idle", IF shutdown /\ queue = <<>> THEN "exited" ELSE "waiting")
    /\ UNCHANGED <<queue, unfinished, health, current, handled>>

FinishEvent ==
    /\ Processor("handling", "finishing")
    /\ handled' = Append(handled, current)
    /\ UNCHANGED <<queue, unfinished, current>>

\* process() returned status "processed".
EventProcessed ==
    /\ FinishEvent
    /\ health' = [health EXCEPT !.processed = @ + 1]

\* process() returned another status, or raised.
EventFailed ==
    /\ FinishEvent
    /\ health' = [health EXCEPT !.failed = @ + 1]

TaskDone ==
    /\ Processor("finishing", "waiting")
    /\ unfinished' = unfinished - 1
    /\ current' = NoRequest
    /\ UNCHANGED <<queue, health, handled>>

------------------------------------------------------------------------------
(* request_shutdown, run by a signal handler or by the IPC stop thread.       *)

Stopper(s, from, to) ==
    /\ Running /\ stopper[s] = from
    /\ stopper' = [stopper EXCEPT ![s] = to]
    /\ UNCHANGED <<threadVars, queueVars, health, workVars, stopVars>>

RequestShutdown(s) ==
    /\ Stopper(s, "none", IF shutdown THEN "done" ELSE "closing")
    /\ UNCHANGED flagVars

CloseQueue(s) ==
    /\ Stopper(s, "closing", "stopping")
    /\ closed' = TRUE
    /\ UNCHANGED <<ipcStop, shutdown>>

StopListener(s) ==
    /\ Stopper(s, "stopping", "setting")
    /\ ipcStop' = TRUE
    /\ UNCHANGED <<closed, shutdown>>

\* Mutant: the shutdown event is not set.
SetNothing(s) ==
    /\ Stopper(s, "setting", "done")
    /\ UNCHANGED <<closed, ipcStop, shutdown>>

SetShutdown(s) ==
    /\ Stopper(s, "setting", "done")
    /\ shutdown' = TRUE
    /\ UNCHANGED <<closed, ipcStop>>

------------------------------------------------------------------------------
(* The main thread, start() and _do_graceful_shutdown().  A signal handler    *)
(* runs on this thread, which waits for it.                                   *)

Main(from, to) ==
    /\ main = from /\ stopper["signal"] \in {"none", "done"}
    /\ main' = to
    /\ UNCHANGED <<threadVars, queueVars, health, workVars, stopper>>

BeginShutdown ==
    /\ shutdown
    /\ Main("running", "joinIpc")
    /\ closed' = TRUE /\ ipcStop' = TRUE /\ shutdown' = TRUE
    /\ UNCHANGED <<joining, patient, drained, saved>>

\* Each wait ends when its condition holds or when its timeout expires.
JoinIpc ==
    /\ Main("joinIpc", "snapshot")
    /\ patient' = (ipc = "exited")
    /\ UNCHANGED <<flagVars, joining, drained, saved>>

\* Mutant: the workers are not waited for.
SnapshotNothing ==
    /\ Main("snapshot", "joinClients")
    /\ joining' = {}
    /\ UNCHANGED <<flagVars, patient, drained, saved>>

SnapshotClients ==
    /\ Main("snapshot", "joinClients")
    /\ joining' = clients
    /\ UNCHANGED <<flagVars, patient, drained, saved>>

JoinClients ==
    /\ Main("joinClients", "draining")
    /\ patient' = (patient /\ joining \intersect clients = {})
    /\ UNCHANGED <<flagVars, joining, drained, saved>>

WaitUntilDone ==
    /\ Main("draining", "joinProcessor")
    /\ drained' = (unfinished = 0)
    /\ UNCHANGED <<flagVars, joining, patient, saved>>

JoinProcessor ==
    /\ Main("joinProcessor", "saving")
    /\ UNCHANGED <<flagVars, joining, patient, drained, saved>>

\* _persist_metrics; the process then ends and its daemon threads with it.
PersistMetrics ==
    /\ Main("saving", "exited")
    /\ saved' = health
    /\ UNCHANGED <<flagVars, joining, patient, drained>>

------------------------------------------------------------------------------
AcceptLoop ==
    \/ \E r \in Requests : StartWorker(r) \/ RefuseBusy(r)
    \/ StopAccepting

ClientStep(r) ==
    \/ RejectInvalid(r) \/ CountReceived(r)
    \/ PassClosedCheck(r) \/ FailClosedCheck(r)
    \/ StoreEvent(r) \/ FindFull(r) \/ CountOverflow(r)
    \/ RecordPeak(r) \/ CountDropped(r) \/ Answer(r)

ProcessorStep ==
    \/ Dequeue \/ DequeueTimeout \/ CheckExit
    \/ EventProcessed \/ EventFailed \/ TaskDone

StopperStep(s) == CloseQueue(s) \/ StopListener(s) \/ SetShutdown(s)

MainStep ==
    \/ BeginShutdown \/ JoinIpc \/ SnapshotClients \/ JoinClients
    \/ WaitUntilDone \/ JoinProcessor \/ PersistMetrics

Next ==
    \/ \E r \in Requests : Accept(r) \/ ClientStep(r)
    \/ AcceptLoop
    \/ ProcessorStep
    \/ \E s \in Stoppers : RequestShutdown(s) \/ StopperStep(s)
    \/ MainStep

Spec == Init /\ [][Next]_vars

\* Threads that can run do; clients and stop requests come when they like.
Fairness ==
    /\ WF_vars(AcceptLoop)
    /\ \A r \in Requests : WF_vars(ClientStep(r))
    /\ WF_vars(ProcessorStep)
    /\ \A s \in Stoppers : WF_vars(StopperStep(s))
    /\ WF_vars(MainStep)

FairSpec == Spec /\ Fairness

------------------------------------------------------------------------------
(* Properties.                                                                *)

\* put() stored the event, so the client is or will be told "ok".
Stored == {r \in Requests : pc[r] \in StoredStates}

\* Received events that no outcome counter has counted yet.
Outstanding == {r \in Requests : pc[r] \in CountedStates} \ Handled

CleanStop == main \in {"saving", "exited"} /\ patient /\ drained

\* Every event the daemon counts as received is processed, failed, dropped or
\* still on its way: no interleaving of workers, processor and shutdown loses a
\* count or counts an event twice (HealthMonitor, _accept_event, _processor_loop).
\* The last-session metrics of a clean stop add up and agree with the queue's own
\* (_persist_metrics), and the high-water mark lags the queue by no more than the
\* workers that have stored an event and not yet taken the lock again (EventQueue.put).
CountersBalance ==
    /\ health.received =
           health.processed + health.failed + health.dropped + Cardinality(Outstanding)
    /\ CleanStop /\ main = "exited" =>
           /\ saved.received = saved.processed + saved.failed + saved.dropped
           /\ metrics.received = saved.received /\ metrics.dropped = saved.dropped
    /\ Len(queue) <= metrics.peak + Cardinality({r \in Requests : pc[r] = "stored"})

\* An answered client is believed: "ok" only for an event that is in the daemon's
\* hands or finished, an error only for one that never will be (_accept_event).
AnswersAreTrue ==
    \A r \in Requests :
        /\ pc[r] \in StoredStates <=> r \in Queued \union {current} \union Handled
        /\ pc[r] \in {"refused", "errorSent", "busySent"} =>
               r \notin Queued \union {current} \union Handled

\* A shutdown in which no wait timed out has processed every event a client was
\* told is accepted, although workers may store events after the queue is closed
\* (_do_graceful_shutdown: join the workers, then wait_until_done).
CleanStopProcessesAll == CleanStop => Stored \subseteq Handled

\* A requested shutdown ends the process, whatever the other threads do
\* (_do_graceful_shutdown waits with timeouts only).
StopTerminates == (\E s \in Stoppers : stopper[s] # "none") ~> main = "exited"

\* A client whose worker has started is answered, unless the process ends first.
ClientsAnswered ==
    \A r \in Requests :
        pc[r] \in WorkerStates ~> pc[r] \in AnsweredStates \/ main = "exited"

\* An event that is queued is processed, unless the process ends first: without a
\* shutdown the processor never gives up (_processor_loop).
QueuedEventsHandled ==
    \A r \in Requests : r \in Queued ~> r \in Handled \/ main = "exited"

------------------------------------------------------------------------------
(* The pipeline implements EventService: an event is taken by put_nowait and  *)
(* finished when process() returns, so the backlog is the event in the        *)
(* processor's hands followed by the queue.                                   *)

Refused ==
    {r \in Requests :
        pc[r] \in {"overflow", "rejected", "refused", "invalid", "errorSent", "busySent"}}

Backlog == (IF processor = "handling" THEN <<current>> ELSE <<>>) \o queue

Service == INSTANCE EventService WITH
    Events   <- Requests,
    Limit    <- Capacity + 1,
    backlog  <- Backlog,
    finished <- handled,
    refused  <- Refused,
    halted   <- (main = "exited")

\* Every step of the threads is a step of the service or changes nothing in it:
\* events are finished in the order put_nowait stored them, each at most once.
ImplementsService == Service!ServiceSpec
==============================================================================
