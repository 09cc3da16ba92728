-------------------------- MODULE EventPipelineProofs --------------------------
(* Theorems about EventPipeline, for every set of requests, queue capacity    *)
(* and number of client slots.                                                *)
EXTENDS EventPipeline, FiniteSetTheorems, SequenceTheorems, TLAPS

--------------------------------------------------------------------------------
(* FIFO queues as sequences: what Append, Head and Tail do to the elements.    *)

\* The elements of a sequence over S are members of S.
LEMMA RangeInSet ==
    ASSUME NEW S, NEW q \in Seq(S)
    PROVE  Range(q) \subseteq S
BY RangeOfSeq

\* The empty queue has no elements.
LEMMA NoElements == Range(<<>>) = {} /\ Len(<<>>) = 0
<1>1. <<>> \in Seq({}) /\ Len(<<>>) = 0
  BY EmptySeq
<1>2. Range(<<>>) \subseteq {}
  BY <1>1, RangeInSet
<1> QED BY <1>1, <1>2

\* Appending adds one element.
LEMMA RangeAppend ==
    ASSUME NEW S, NEW q \in Seq(S), NEW e \in S
    PROVE  Range(Append(q, e)) = Range(q) \union {e}
<1> DEFINE a == Append(q, e)
<1>1. /\ a \in Seq(S) /\ Len(a) = Len(q) + 1 /\ Len(q) \in Nat
      /\ \A i \in 1..Len(q) : a[i] = q[i]
      /\ a[Len(q) + 1] = e
  BY AppendProperties, LenProperties
<1>2. /\ Range(a) = {a[i] : i \in 1..Len(a)}
      /\ Range(q) = {q[i] : i \in 1..Len(q)}
  BY <1>1, RangeEquality
<1>3. 1..Len(a) = (1..Len(q)) \union {Len(q) + 1}
  BY <1>1
<1> HIDE DEF a
<1>4. Range(a) = {a[i] : i \in 1..Len(q)} \union {a[Len(q) + 1]}
  BY <1>2, <1>3
<1>5. {a[i] : i \in 1..Len(q)} = {q[i] : i \in 1..Len(q)}
  BY <1>1
<1> QED BY <1>1, <1>2, <1>4, <1>5 DEF a

\* Taking the head off a nonempty queue splits its elements.
LEMMA RangeHeadTail ==
    ASSUME NEW S, NEW q \in Seq(S), q # <<>>
    PROVE  Range(q) = {Head(q)} \union Range(Tail(q))
<1> DEFINE t == Tail(q)
<1>1. /\ t \in Seq(S) /\ Len(q) \in Nat \ {0} /\ Len(t) = Len(q) - 1
      /\ \A i \in 1..Len(t) : t[i] = q[i + 1]
      /\ Head(q) = q[1]
  BY HeadTailProperties, LenProperties
<1>2. /\ Range(t) = {t[i] : i \in 1..Len(t)}
      /\ Range(q) = {q[i] : i \in 1..Len(q)}
  BY <1>1, RangeEquality, ZenonT(60)
<1>3. ASSUME NEW x \in Range(q) PROVE x = q[1] \/ x \in Range(t)
  <2>1. PICK i \in 1..Len(q) : x = q[i]
    BY <1>2
  <2>2. CASE i = 1
    BY <2>1, <2>2
  <2>3. CASE i # 1
    <3>1. i - 1 \in 1..Len(t) /\ (i - 1) + 1 = i
      BY <1>1, <2>3
    <3>2. t[i - 1] = q[i]
      BY <1>1, <3>1
    <3> QED BY <1>2, <2>1, <3>1, <3>2
  <2> QED BY <2>2, <2>3
<1>4. ASSUME NEW x \in Range(t) PROVE x \in Range(q)
  <2>1. PICK i \in 1..Len(t) : x = t[i]
    BY <1>2
  <2>2. i + 1 \in 1..Len(q) /\ x = q[i + 1]
    BY <1>1, <2>1
  <2> QED BY <1>2, <2>2
<1>5. q[1] \in Range(q)
  BY <1>1, <1>2
<1> QED BY <1>1, <1>3, <1>4, <1>5

\* No element is in the queue twice.
Distinct(q) == \A i, j \in 1..Len(q) : q[i] = q[j] => i = j

\* Appending a new element keeps the elements distinct.
LEMMA DistinctAppend ==
    ASSUME NEW S, NEW q \in Seq(S), NEW e \in S, Distinct(q), e \notin Range(q)
    PROVE  Distinct(Append(q, e))
<1> DEFINE a == Append(q, e)
<1>1. /\ a \in Seq(S) /\ Len(a) = Len(q) + 1 /\ Len(q) \in Nat
      /\ \A i \in 1..Len(q) : a[i] = q[i]
      /\ a[Len(q) + 1] = e
  BY AppendProperties, LenProperties
<1>2. \A i \in 1..Len(q) : q[i] # e
  BY RangeEquality
<1> HIDE DEF a
<1>3. SUFFICES ASSUME NEW i \in 1..Len(a), NEW j \in 1..Len(a), a[i] = a[j]
               PROVE  i = j
  BY DEF Distinct, a
<1> QED BY <1>1, <1>2, <1>3 DEF Distinct

\* The tail of a sequence of distinct elements is one, without the head.
LEMMA DistinctTail ==
    ASSUME NEW S, NEW q \in Seq(S), q # <<>>, Distinct(q)
    PROVE  Distinct(Tail(q)) /\ Head(q) \notin Range(Tail(q))
<1> DEFINE t == Tail(q)
<1>1. /\ t \in Seq(S) /\ Len(q) \in Nat \ {0} /\ Len(t) = Len(q) - 1
      /\ \A i \in 1..Len(t) : t[i] = q[i + 1]
      /\ Head(q) = q[1]
  BY HeadTailProperties, LenProperties
<1>2. \A i \in 1..Len(t) : i + 1 \in 1..Len(q)
  BY <1>1
<1> HIDE DEF t
<1>3. Distinct(t)
  BY <1>1, <1>2 DEF Distinct
<1>4. \A i \in 1..Len(t) : t[i] # q[1]
  BY <1>1, <1>2 DEF Distinct
<1>5. Range(t) = {t[i] : i \in 1..Len(t)}
  BY <1>1, RangeEquality
<1> QED BY <1>1, <1>3, <1>4, <1>5 DEF t

\* An element put in front of a queue is its head, and the queue its tail.
LEMMA ConsProperties ==
    ASSUME NEW S, NEW c \in S, NEW q \in Seq(S)
    PROVE  /\ <<c>> \o q \in Seq(S) /\ <<c>> \o q # <<>>
           /\ Len(<<c>> \o q) = Len(q) + 1
           /\ Head(<<c>> \o q) = c
           /\ Tail(<<c>> \o q) = q
<1> DEFINE b == <<c>> \o q
<1>1. <<c>> \in Seq(S) /\ Len(<<c>>) = 1 /\ <<c>>[1] = c /\ Len(q) \in Nat
  BY LenProperties
<1>2. /\ b \in Seq(S) /\ Len(b) = 1 + Len(q)
      /\ \A i \in 1..(1 + Len(q)) : b[i] = IF i <= 1 THEN <<c>>[i] ELSE q[i - 1]
  BY <1>1, ConcatProperties
<1> HIDE DEF b
<1>3. b # <<>>
  BY <1>1, <1>2, EmptySeq
<1>4. /\ Head(b) = b[1] /\ Tail(b) \in Seq(S) /\ Len(Tail(b)) = Len(q)
      /\ \A i \in 1..Len(q) : Tail(b)[i] = b[i + 1]
  <2>1. /\ Tail(b) \in Seq(S) /\ Len(Tail(b)) = Len(b) - 1
        /\ \A i \in 1..Len(Tail(b)) : Tail(b)[i] = b[i + 1]
    BY <1>2, <1>3, HeadTailProperties
  <2> QED BY <1>1, <1>2, <1>3, <2>1
<1>5. \A i \in 1..Len(q) : b[i + 1] = q[i]
  <2> TAKE i \in 1..Len(q)
  <2>1. i + 1 \in 1..(1 + Len(q)) /\ ~(i + 1 <= 1) /\ (i + 1) - 1 = i
    BY <1>1
  <2> QED BY <1>2, <2>1
<1>6. Tail(b) = q
  BY <1>4, <1>5, SeqEqual
<1>7. b[1] = c
  BY <1>1, <1>2
<1> QED BY <1>1, <1>2, <1>3, <1>4, <1>6, <1>7 DEF b

\* Appending behind does not depend on what is in front.
LEMMA ConsAppend ==
    ASSUME NEW S, NEW c \in S, NEW q \in Seq(S), NEW e \in S
    PROVE  <<c>> \o Append(q, e) = Append(<<c>> \o q, e)
<1>1. <<c>> \in Seq(S) /\ <<e>> \in Seq(S)
  OBVIOUS
<1>2. <<c>> \o q \in Seq(S)
  BY ConsProperties
<1>3. Append(q, e) = q \o <<e>> /\ Append(<<c>> \o q, e) = (<<c>> \o q) \o <<e>>
  BY <1>2, AppendIsConcat
<1> QED BY <1>1, <1>3, ConcatAssociative

\* A nonempty queue is its head in front of its tail.
LEMMA ConsHeadTail ==
    ASSUME NEW S, NEW q \in Seq(S), q # <<>>
    PROVE  <<Head(q)>> \o Tail(q) = q
<1>1. /\ Head(q) \in S /\ Tail(q) \in Seq(S) /\ Len(q) \in Nat
      /\ Len(Tail(q)) = Len(q) - 1
      /\ \A i \in 1..Len(Tail(q)) : Tail(q)[i] = q[i + 1]
      /\ Head(q) = q[1]
  BY HeadTailProperties, LenProperties
<1> DEFINE b == <<Head(q)>> \o Tail(q)
<1>2. /\ b \in Seq(S) /\ Len(b) = Len(Tail(q)) + 1 /\ b # <<>>
      /\ Head(b) = Head(q) /\ Tail(b) = Tail(q)
  BY <1>1, ConsProperties
<1> HIDE DEF b
<1>3. /\ Head(b) = b[1]
      /\ \A i \in 1..Len(Tail(b)) : Tail(b)[i] = b[i + 1]
  BY <1>2, HeadTailProperties
<1>4. ASSUME NEW i \in 1..Len(b) PROVE b[i] = q[i]
  <2>1. CASE i = 1
    BY <1>1, <1>2, <1>3, <2>1
  <2>2. CASE i # 1
    <3>1. i - 1 \in 1..Len(Tail(q)) /\ (i - 1) + 1 = i
      BY <1>1, <1>2, <2>2
    <3> QED BY <1>1, <1>2, <1>3, <3>1
  <2> QED BY <2>1, <2>2
<1>5. Len(b) = Len(q)
  BY <1>1, <1>2
<1>6. b = q
  BY <1>2, <1>4, <1>5, SeqEqual
<1> QED BY <1>6 DEF b

\* The elements of a queue with one more in front.
LEMMA ConsRange ==
    ASSUME NEW S, NEW c \in S, NEW q \in Seq(S)
    PROVE  Range(<<c>> \o q) = {c} \union Range(q)
<1> DEFINE b == <<c>> \o q
<1>1. b \in Seq(S) /\ b # <<>> /\ Head(b) = c /\ Tail(b) = q
  BY ConsProperties
<1> HIDE DEF b
<1>2. Range(b) = {c} \union Range(q)
  BY <1>1, RangeHeadTail
<1> QED BY <1>2 DEF b

--------------------------------------------------------------------------------
(* The inductive invariant, in named parts.                                   *)

\* A client slot is held exactly while a worker is between start and answer.
SlotsInv == clients = {r \in Requests : pc[r] \in WorkerStates}

\* The accept loop has a connection in hand exactly while it is dispatching it.
ConnectionInv ==
    \A r \in Requests : pc[r] = "connected" <=> ipc = "connected" /\ connection = r

\* Where a stored event is, and that it is in one place only.
PlacesInv ==
    /\ \A r \in Requests : pc[r] \in StoredStates <=> r \in Queued \union {current} \union Handled
    /\ \A r \in Queued : r \notin Handled /\ r # current
    /\ Distinct(queue)
    /\ processor = "handling" => current \notin Handled

\* unfinished_tasks counts the queue and the event in the processor's hands.
UnfinishedInv ==
    /\ unfinished = Len(queue) + (IF current = NoRequest THEN 0 ELSE 1)
    /\ current # NoRequest <=> processor \in {"handling", "finishing"}
    /\ processor = "finishing" => current \in Handled

\* How far the shutdown has come, and what it has waited for.
StagesInv ==
    /\ main # "running" => closed /\ ipcStop /\ shutdown
    /\ patient /\ main \notin {"running", "joinIpc"} => ipc = "exited"
    /\ patient /\ main = "joinClients" => clients \subseteq joining
    /\ patient /\ main \in {"draining", "joinProcessor", "saving", "exited"} => clients = {}
    /\ patient /\ drained /\ main \in {"joinProcessor", "saving", "exited"} => unfinished = 0
    /\ main = "exited" => saved = health

PipelineInv ==
    /\ TypeOK
    /\ SlotsInv
    /\ ConnectionInv
    /\ PlacesInv
    /\ UnfinishedInv
    /\ StagesInv

--------------------------------------------------------------------------------
(* The type invariant.                                                        *)

\* Setting one counter of a record of counters.
LEMMA MetricsUpdate ==
    ASSUME NEW m \in QueueMetrics, NEW n \in Nat
    PROVE  /\ [m EXCEPT !.received = n] \in QueueMetrics
           /\ [m EXCEPT !.dropped = n] \in QueueMetrics
           /\ [m EXCEPT !.peak = n] \in QueueMetrics
BY DEF QueueMetrics

\* A type-correct change of one queue counter keeps all of them natural numbers.
LEMMA CountersUpdate ==
    ASSUME NEW c \in Counters, NEW n \in Nat
    PROVE  /\ [c EXCEPT !.received = n] \in Counters
           /\ [c EXCEPT !.processed = n] \in Counters
           /\ [c EXCEPT !.failed = n] \in Counters
           /\ [c EXCEPT !.dropped = n] \in Counters
BY DEF Counters

\* The variables keep their types in every state of the daemon.
LEMMA TypeStep == TypeOK /\ UnfinishedInv /\ [Next]_vars => TypeOK'
<1> SUFFICES ASSUME TypeOK, UnfinishedInv, [Next]_vars PROVE TypeOK'
  OBVIOUS
<1>0. {"connected", "started", "received", "admitted", "overflow", "stored", "accepted",
      "rejected", "refused", "invalid", "okSent", "errorSent", "busySent"} \subseteq PcStates
  BY DEF PcStates, WorkerStates, AnsweredStates
<1>1. ASSUME NEW r \in Requests, Accept(r) PROVE TypeOK'
  BY <1>0, <1>1 DEF TypeOK, threadVars, flagVars, queueVars, workVars, stopVars, Accept
<1>2. ASSUME NEW r \in Requests, StartWorker(r) PROVE TypeOK'
  BY <1>0, <1>2 DEF TypeOK, threadVars, flagVars, queueVars, workVars, stopVars, StartWorker, AfterConnection
<1>3. ASSUME NEW r \in Requests, RefuseBusy(r) PROVE TypeOK'
  BY <1>0, <1>3 DEF TypeOK, threadVars, flagVars, queueVars, workVars, stopVars, RefuseBusy, AfterConnection
<1>4. ASSUME StopAccepting PROVE TypeOK'
  BY <1>0, <1>4 DEF TypeOK, threadVars, flagVars, queueVars, workVars, stopVars, StopAccepting
<1>5. ASSUME NEW r \in Requests, RejectInvalid(r) PROVE TypeOK'
  BY <1>0, <1>5 DEF TypeOK, threadVars, flagVars, queueVars, workVars, stopVars, RejectInvalid, Worker
<1>6. ASSUME NEW r \in Requests, CountReceived(r) PROVE TypeOK'
  <2>1. health' \in Counters
    <3>1. health \in Counters /\ health.received + 1 \in Nat
      BY DEF TypeOK, Counters
    <3> QED BY <1>6, <3>1, CountersUpdate DEF CountReceived
  <2> QED
    BY <1>0, <1>6, <2>1
       DEF TypeOK, flagVars, queueVars, workVars, stopVars, CountReceived, Worker
<1>7. ASSUME NEW r \in Requests, PassClosedCheck(r) PROVE TypeOK'
  <2>1. metrics' \in QueueMetrics
    <3>1. metrics \in QueueMetrics /\ metrics.received + 1 \in Nat
      BY DEF TypeOK, QueueMetrics
    <3> QED BY <1>7, <3>1, MetricsUpdate DEF PassClosedCheck
  <2> QED
    BY <1>0, <1>7, <2>1
       DEF TypeOK, threadVars, flagVars, queueVars, workVars, stopVars, PassClosedCheck, Worker
<1>8. ASSUME NEW r \in Requests, FailClosedCheck(r) PROVE TypeOK'
  <2>1. metrics' \in QueueMetrics
    <3>1. metrics \in QueueMetrics /\ metrics.received + 1 \in Nat /\ metrics.dropped + 1 \in Nat
      BY DEF TypeOK, QueueMetrics
    <3> QED BY <1>8, <3>1, MetricsUpdate DEF FailClosedCheck
  <2> QED BY <1>0, <1>8, <2>1 DEF TypeOK, flagVars, workVars, stopVars, FailClosedCheck, Worker
<1>9. ASSUME NEW r \in Requests, StoreEvent(r) PROVE TypeOK'
  <2>1. queue' \in Seq(Requests) /\ unfinished' \in Nat
    BY AppendProperties, <1>9 DEF TypeOK, StoreEvent
  <2>2. pc' \in [Requests -> PcStates]
    BY <1>0, <1>9 DEF TypeOK, StoreEvent, Worker
  <2> QED BY <1>9, <2>1, <2>2 DEF TypeOK, flagVars, workVars, stopVars, StoreEvent, Worker
<1>10. ASSUME NEW r \in Requests, FindFull(r) PROVE TypeOK'
  BY <1>0, <1>10 DEF TypeOK, threadVars, flagVars, queueVars, workVars, stopVars, FindFull, Worker
<1>11. ASSUME NEW r \in Requests, CountOverflow(r) PROVE TypeOK'
  <2>1. metrics' \in QueueMetrics
    <3>1. metrics \in QueueMetrics /\ metrics.dropped + 1 \in Nat
      BY DEF TypeOK, QueueMetrics
    <3> QED BY <1>11, <3>1, MetricsUpdate DEF CountOverflow
  <2> QED
    BY <1>0, <1>11, <2>1
       DEF TypeOK, threadVars, flagVars, queueVars, workVars, stopVars, CountOverflow, Worker
<1>12. ASSUME NEW r \in Requests, RecordPeak(r) PROVE TypeOK'
  <2>1. metrics' \in QueueMetrics
    <3>1. metrics \in QueueMetrics /\ metrics.peak \in Nat /\ Len(queue) \in Nat
      BY LenProperties DEF TypeOK, QueueMetrics
    <3> QED BY <1>12, <3>1, MetricsUpdate DEF RecordPeak
  <2> QED
    BY <1>0, <1>12, <2>1
       DEF TypeOK, threadVars, flagVars, queueVars, workVars, stopVars, RecordPeak, Worker
<1>13. ASSUME NEW r \in Requests, CountDropped(r) PROVE TypeOK'
  <2>1. health' \in Counters
    <3>1. health \in Counters /\ health.dropped + 1 \in Nat
      BY DEF TypeOK, Counters
    <3> QED BY <1>13, <3>1, CountersUpdate DEF CountDropped
  <2> QED
    BY <1>0, <1>13, <2>1
       DEF TypeOK, flagVars, queueVars, workVars, stopVars, CountDropped, Worker
<1>14. ASSUME NEW r \in Requests, Answer(r) PROVE TypeOK'
  <2>1. \E to \in {"okSent", "errorSent"} : pc' = [pc EXCEPT ![r] = to]
    BY <1>14 DEF Answer, Worker
  <2>2. pc' \in [Requests -> PcStates] /\ clients' \subseteq Requests
    BY <1>0, <1>14, <2>1 DEF TypeOK, Answer
  <2>3. UNCHANGED <<ipc, connection, flagVars, workVars, stopper, stopVars, queueVars, health>>
    BY <1>14 DEF Answer, Worker
  <2> QED BY <2>2, <2>3 DEF TypeOK, flagVars, workVars, stopVars, queueVars
<1>15. ASSUME Dequeue PROVE TypeOK'
  BY HeadTailProperties, <1>15 DEF TypeOK, threadVars, flagVars, queueVars, workVars, stopVars, Dequeue, Processor
<1>16. ASSUME DequeueTimeout PROVE TypeOK'
  BY <1>16 DEF TypeOK, threadVars, flagVars, queueVars, workVars, stopVars, DequeueTimeout, Processor
<1>17. ASSUME CheckExit PROVE TypeOK'
  BY <1>17 DEF TypeOK, threadVars, flagVars, queueVars, workVars, stopVars, CheckExit, Processor
<1>18. ASSUME EventProcessed \/ EventFailed PROVE TypeOK'
  <2>1. health' \in Counters
    <3>1. health \in Counters /\ health.processed + 1 \in Nat /\ health.failed + 1 \in Nat
      BY DEF TypeOK, Counters
    <3> QED BY <1>18, <3>1, CountersUpdate DEF EventProcessed, EventFailed
  <2>2. FinishEvent
    BY <1>18 DEF EventProcessed, EventFailed
  <2>3. handled' \in Seq(Requests)
    BY <2>2, UnfinishedInv, AppendProperties DEF TypeOK, UnfinishedInv, FinishEvent, Processor
  <2> QED
    BY <2>1, <2>2, <2>3
       DEF TypeOK, threadVars, flagVars, stopVars, FinishEvent, Processor
<1>19. ASSUME TaskDone PROVE TypeOK'
  <2>1. unfinished' \in Nat
    BY LenProperties, <1>19 DEF TypeOK, TaskDone, Processor, UnfinishedInv
  <2> QED
    BY <1>19, <2>1
       DEF TypeOK, threadVars, flagVars, queueVars, workVars, stopVars, TaskDone, Processor
<1>20. ASSUME NEW s \in Stoppers, RequestShutdown(s) PROVE TypeOK'
  BY <1>20 DEF TypeOK, threadVars, flagVars, queueVars, workVars, stopVars, RequestShutdown, Stopper
<1>21. ASSUME NEW s \in Stoppers, CloseQueue(s) PROVE TypeOK'
  BY <1>21 DEF TypeOK, threadVars, flagVars, queueVars, workVars, stopVars, CloseQueue, Stopper
<1>22. ASSUME NEW s \in Stoppers, StopListener(s) PROVE TypeOK'
  BY <1>22 DEF TypeOK, threadVars, flagVars, queueVars, workVars, stopVars, StopListener, Stopper
<1>23. ASSUME NEW s \in Stoppers, SetShutdown(s) PROVE TypeOK'
  BY <1>23 DEF TypeOK, threadVars, flagVars, queueVars, workVars, stopVars, SetShutdown, Stopper
<1>24. ASSUME BeginShutdown PROVE TypeOK'
  BY <1>24 DEF TypeOK, threadVars, flagVars, queueVars, workVars, stopVars, BeginShutdown, Main
<1>25. ASSUME JoinIpc PROVE TypeOK'
  BY <1>25 DEF TypeOK, threadVars, flagVars, queueVars, workVars, stopVars, JoinIpc, Main
<1>26. ASSUME SnapshotClients PROVE TypeOK'
  BY <1>26 DEF TypeOK, threadVars, flagVars, queueVars, workVars, stopVars, SnapshotClients, Main
<1>27. ASSUME JoinClients PROVE TypeOK'
  BY <1>27 DEF TypeOK, threadVars, flagVars, queueVars, workVars, stopVars, JoinClients, Main
<1>28. ASSUME WaitUntilDone PROVE TypeOK'
  BY <1>28 DEF TypeOK, threadVars, flagVars, queueVars, workVars, stopVars, WaitUntilDone, Main
<1>29. ASSUME JoinProcessor PROVE TypeOK'
  BY <1>29 DEF TypeOK, threadVars, flagVars, queueVars, workVars, stopVars, JoinProcessor, Main
<1>30. ASSUME PersistMetrics PROVE TypeOK'
  BY <1>30 DEF TypeOK, threadVars, flagVars, queueVars, workVars, stopVars, PersistMetrics, Main
<1>31. CASE UNCHANGED vars
  BY <1>31 DEF TypeOK, vars, threadVars, flagVars, queueVars, workVars, stopVars
<1> QED
  BY <1>1, <1>2, <1>3, <1>4, <1>5, <1>6, <1>7, <1>8, <1>9, <1>10, <1>11, <1>12, <1>13, <1>14, <1>15, <1>16, <1>17, <1>18, <1>19, <1>20, <1>21, <1>22, <1>23, <1>24, <1>25, <1>26, <1>27, <1>28, <1>29, <1>30, <1>31
     DEF Next, AcceptLoop, ClientStep, ProcessorStep, StopperStep, MainStep

--------------------------------------------------------------------------------
(* Which thread changes what.                                                 *)

\* A client step moves its own request along and touches no flag and no other thread.
LEMMA ClientFrame ==
    ASSUME NEW r \in Requests, ClientStep(r)
    PROVE  \/ \E from, to \in WorkerStates : Worker(r, from, to) /\ UNCHANGED clients
           \/ Answer(r)
BY DEF ClientStep, RejectInvalid, CountReceived, PassClosedCheck, FailClosedCheck,
       StoreEvent, FindFull, CountOverflow, RecordPeak, CountDropped, WorkerStates

\* Only StoreEvent puts a request among the stored ones; only it changes the queue.
LEMMA ClientStores ==
    ASSUME NEW r \in Requests, ClientStep(r)
    PROVE  \/ StoreEvent(r)
           \/ /\ UNCHANGED <<queue, unfinished, current, handled, processor>>
              /\ \E from, to \in PcStates :
                    /\ pc[r] = from /\ pc' = [pc EXCEPT ![r] = to]
                    /\ from \in StoredStates <=> to \in StoredStates
<1> USE DEF Worker, workVars, queueVars, PcStates, WorkerStates, AnsweredStates, StoredStates
<1>1. CASE RejectInvalid(r)    BY <1>1 DEF RejectInvalid
<1>2. CASE CountReceived(r)    BY <1>2 DEF CountReceived
<1>3. CASE PassClosedCheck(r)  BY <1>3 DEF PassClosedCheck
<1>4. CASE FailClosedCheck(r)  BY <1>4 DEF FailClosedCheck
<1>5. CASE FindFull(r)         BY <1>5 DEF FindFull
<1>6. CASE CountOverflow(r)    BY <1>6 DEF CountOverflow
<1>7. CASE RecordPeak(r)       BY <1>7 DEF RecordPeak
<1>8. CASE CountDropped(r)     BY <1>8 DEF CountDropped
<1>9. CASE Answer(r)           BY <1>9 DEF Answer
<1> QED BY <1>1, <1>2, <1>3, <1>4, <1>5, <1>6, <1>7, <1>8, <1>9 DEF ClientStep

\* The processor, the stoppers and the main thread leave the requests alone.
LEMMA OtherFrame ==
    ASSUME \/ ProcessorStep
           \/ \E s \in Stoppers : RequestShutdown(s) \/ StopperStep(s)
           \/ MainStep
    PROVE  UNCHANGED threadVars
BY DEF ProcessorStep, Dequeue, DequeueTimeout, CheckExit, EventProcessed, EventFailed,
       FinishEvent, TaskDone, Processor,
       StopperStep, RequestShutdown, CloseQueue, StopListener, SetShutdown, Stopper,
       MainStep, BeginShutdown, JoinIpc, SnapshotClients, JoinClients, WaitUntilDone,
       JoinProcessor, PersistMetrics, Main

\* The stoppers and the main thread leave the queue and the processor alone.
LEMMA ControlFrame ==
    ASSUME \/ \E s \in Stoppers : RequestShutdown(s) \/ StopperStep(s)
           \/ MainStep
    PROVE  UNCHANGED <<queueVars, workVars, health>>
BY DEF StopperStep, RequestShutdown, CloseQueue, StopListener, SetShutdown, Stopper,
       MainStep, BeginShutdown, JoinIpc, SnapshotClients, JoinClients, WaitUntilDone,
       JoinProcessor, PersistMetrics, Main

--------------------------------------------------------------------------------
(* The parts of the invariant, each preserved by every step.                  *)

\* Client slots are taken and given back with the worker's life.
LEMMA SlotsStep == TypeOK /\ SlotsInv /\ ConnectionInv /\ [Next]_vars => SlotsInv'
<1> SUFFICES ASSUME TypeOK, SlotsInv, ConnectionInv, [Next]_vars PROVE SlotsInv'
  OBVIOUS
<1>1. ASSUME NEW r \in Requests, Accept(r) PROVE SlotsInv'
  BY <1>1 DEF Accept, SlotsInv, TypeOK, WorkerStates
<1>2. ASSUME NEW r \in Requests, StartWorker(r) PROVE SlotsInv'
  BY <1>2 DEF StartWorker, SlotsInv, TypeOK, WorkerStates
<1>3. ASSUME NEW r \in Requests, RefuseBusy(r) PROVE SlotsInv'
  BY <1>3 DEF RefuseBusy, SlotsInv, ConnectionInv, TypeOK, WorkerStates
<1>4. ASSUME NEW r \in Requests, ClientStep(r) PROVE SlotsInv'
  <2>1. ASSUME NEW from \in WorkerStates, NEW to \in WorkerStates, Worker(r, from, to),
               UNCHANGED clients
        PROVE  SlotsInv'
    BY <2>1 DEF Worker, SlotsInv, TypeOK
  <2>2. CASE Answer(r)
    BY <2>2 DEF Answer, Worker, SlotsInv, TypeOK, WorkerStates
  <2> QED BY <1>4, <2>1, <2>2, ClientFrame
<1>5. CASE UNCHANGED threadVars \/ StopAccepting \/ UNCHANGED vars
  BY <1>5 DEF SlotsInv, threadVars, vars, StopAccepting
<1> QED BY <1>1, <1>2, <1>3, <1>4, <1>5, OtherFrame DEF Next, AcceptLoop

\* The accept loop dispatches the connection it accepted and no other.
LEMMA ConnectionStep == TypeOK /\ ConnectionInv /\ [Next]_vars => ConnectionInv'
<1> SUFFICES ASSUME TypeOK, ConnectionInv, [Next]_vars PROVE ConnectionInv'
  OBVIOUS
<1>1. ASSUME NEW r \in Requests, Accept(r) PROVE ConnectionInv'
  BY <1>1 DEF Accept, ConnectionInv, TypeOK
<1>2. ASSUME NEW r \in Requests, StartWorker(r) \/ RefuseBusy(r) PROVE ConnectionInv'
  BY <1>2 DEF StartWorker, RefuseBusy, AfterConnection, ConnectionInv, TypeOK
<1>3. ASSUME NEW r \in Requests, ClientStep(r) PROVE ConnectionInv'
  <2>1. ASSUME NEW from \in WorkerStates, NEW to \in WorkerStates, Worker(r, from, to)
        PROVE  ConnectionInv'
    BY <2>1 DEF Worker, ConnectionInv, TypeOK, WorkerStates
  <2>2. CASE Answer(r)
    BY <2>2 DEF Answer, Worker, ConnectionInv, TypeOK
  <2> QED BY <1>3, <2>1, <2>2, ClientFrame
<1>4. CASE UNCHANGED threadVars \/ StopAccepting \/ UNCHANGED vars
  BY <1>4 DEF ConnectionInv, threadVars, vars, StopAccepting
<1> QED BY <1>1, <1>2, <1>3, <1>4, OtherFrame DEF Next, AcceptLoop

\* A stored event moves from the queue to the processor to the finished ones.
LEMMA PlacesStep ==
    TypeOK /\ ConnectionInv /\ PlacesInv /\ UnfinishedInv /\ [Next]_vars => PlacesInv'
<1> SUFFICES ASSUME TypeOK, ConnectionInv, PlacesInv, UnfinishedInv, [Next]_vars
             PROVE  PlacesInv'
  OBVIOUS
<1>0. /\ queue \in Seq(Requests) /\ handled \in Seq(Requests)
      /\ Queued \subseteq Requests /\ Handled \subseteq Requests
      /\ NoRequest \notin Requests
  BY RangeInSet, PipelineAssumption DEF TypeOK, Queued, Handled
<1>1. ASSUME NEW r \in Requests, NEW from \in PcStates, NEW to \in PcStates,
             pc[r] = from, pc' = [pc EXCEPT ![r] = to],
             from \in StoredStates <=> to \in StoredStates,
             UNCHANGED <<queue, current, handled, processor>>
      PROVE  PlacesInv'
  BY <1>1 DEF PlacesInv, TypeOK, Queued, Handled
<1>2. ASSUME NEW r \in Requests, Accept(r) \/ StartWorker(r) \/ RefuseBusy(r) PROVE PlacesInv'
  <2>1. \E from, to \in PcStates \ StoredStates : pc[r] = from /\ pc' = [pc EXCEPT ![r] = to]
    BY <1>2 DEF Accept, StartWorker, RefuseBusy, ConnectionInv, PcStates, StoredStates,
                WorkerStates, AnsweredStates
  <2>2. UNCHANGED <<queue, current, handled, processor>>
    BY <1>2 DEF Accept, StartWorker, RefuseBusy, queueVars, workVars
  <2> QED BY <1>1, <2>1, <2>2
<1>3. ASSUME NEW r \in Requests, StoreEvent(r) PROVE PlacesInv'
  <2>1. /\ pc[r] = "admitted" /\ pc' = [pc EXCEPT ![r] = "stored"]
        /\ queue' = Append(queue, r)
        /\ UNCHANGED <<current, handled, processor>>
    BY <1>3 DEF StoreEvent, Worker, workVars
  <2>2. r \notin Queued \union {current} \union Handled
    BY <2>1 DEF PlacesInv, StoredStates
  <2>3. Queued' = Queued \union {r} /\ Handled' = Handled
    BY <1>0, <2>1, RangeAppend DEF Queued, Handled
  <2>4. Distinct(queue')
    BY <1>0, <2>1, <2>2, DistinctAppend DEF PlacesInv, Queued
  <2> QED BY <2>1, <2>2, <2>3, <2>4 DEF PlacesInv, TypeOK, StoredStates
<1>4. ASSUME NEW r \in Requests, ClientStep(r) PROVE PlacesInv'
  BY <1>1, <1>3, <1>4, ClientStores
<1>5. ASSUME Dequeue PROVE PlacesInv'
  <2>1. /\ queue # <<>> /\ queue' = Tail(queue) /\ current' = Head(queue)
        /\ current = NoRequest
        /\ UNCHANGED <<pc, handled>>
    BY <1>5 DEF Dequeue, Processor, threadVars, UnfinishedInv
  <2>2. Queued = {current'} \union Queued' /\ Handled' = Handled
    BY <1>0, <2>1, RangeHeadTail DEF Queued, Handled
  <2>3. Distinct(queue') /\ current' \notin Queued'
    BY <1>0, <2>1, DistinctTail DEF PlacesInv, Queued
  <2> QED BY <1>0, <2>1, <2>2, <2>3 DEF PlacesInv
<1>6. ASSUME EventProcessed \/ EventFailed PROVE PlacesInv'
  <2>1. /\ processor = "handling" /\ processor' = "finishing"
        /\ handled' = Append(handled, current)
        /\ UNCHANGED <<pc, queue, current>>
    BY <1>6 DEF EventProcessed, EventFailed, FinishEvent, Processor, threadVars
  <2>2. current \in Requests
    BY <2>1 DEF TypeOK, UnfinishedInv
  <2>3. Queued' = Queued /\ Handled' = Handled \union {current}
    BY <1>0, <2>1, <2>2, RangeAppend DEF Queued, Handled
  <2> QED BY <2>1, <2>3 DEF PlacesInv
<1>7. ASSUME TaskDone PROVE PlacesInv'
  <2>1. /\ current \in Handled /\ current' = NoRequest /\ processor' = "waiting"
        /\ UNCHANGED <<pc, queue, handled>>
    BY <1>7 DEF TaskDone, Processor, threadVars, UnfinishedInv
  <2>2. Queued' = Queued /\ Handled' = Handled
    BY <2>1 DEF Queued, Handled
  <2> QED BY <1>0, <2>1, <2>2 DEF PlacesInv
<1>8. CASE DequeueTimeout \/ CheckExit
  BY <1>8 DEF PlacesInv, Queued, Handled, DequeueTimeout, CheckExit, Processor, threadVars,
              UnfinishedInv
<1>9. CASE UNCHANGED vars \/ UNCHANGED <<queueVars, workVars, pc>>
  BY <1>9 DEF PlacesInv, Queued, Handled, vars, threadVars, queueVars, workVars
<1>10. CASE StopAccepting
  BY <1>9, <1>10 DEF StopAccepting
<1> QED
  BY <1>2, <1>4, <1>5, <1>6, <1>7, <1>8, <1>9, <1>10, OtherFrame, ControlFrame
     DEF Next, AcceptLoop, ProcessorStep, threadVars

\* unfinished_tasks follows put_nowait and task_done.
LEMMA UnfinishedStep ==
    TypeOK /\ UnfinishedInv /\ [Next]_vars => UnfinishedInv'
<1> SUFFICES ASSUME TypeOK, UnfinishedInv, [Next]_vars PROVE UnfinishedInv'
  OBVIOUS
<1>0. queue \in Seq(Requests) /\ handled \in Seq(Requests) /\ NoRequest \notin Requests
  BY PipelineAssumption DEF TypeOK
<1>1. CASE UNCHANGED <<queue, unfinished, current, handled, processor>>
  BY <1>1 DEF UnfinishedInv, Handled
<1>2. ASSUME NEW r \in Requests, StoreEvent(r) PROVE UnfinishedInv'
  <2>1. /\ Len(queue') = Len(queue) + 1 /\ Len(queue) \in Nat
        /\ unfinished' = unfinished + 1
        /\ UNCHANGED <<current, handled, processor>>
    BY <1>0, <1>2, AppendProperties, LenProperties DEF StoreEvent, Worker, workVars
  <2> QED BY <2>1 DEF UnfinishedInv, Handled
<1>3. ASSUME NEW r \in Requests, ClientStep(r) PROVE UnfinishedInv'
  BY <1>1, <1>2, <1>3, ClientStores
<1>4. ASSUME Dequeue PROVE UnfinishedInv'
  <2>1. /\ Len(queue') = Len(queue) - 1 /\ Len(queue) \in Nat
        /\ current' \in Requests /\ current = NoRequest
        /\ processor' = "handling"
        /\ UNCHANGED <<unfinished, handled>>
    BY <1>0, <1>4, HeadTailProperties, LenProperties DEF Dequeue, Processor, UnfinishedInv
  <2> QED BY <1>0, <2>1 DEF UnfinishedInv
<1>5. ASSUME EventProcessed \/ EventFailed PROVE UnfinishedInv'
  <2>1. /\ processor = "handling" /\ processor' = "finishing"
        /\ handled' = Append(handled, current)
        /\ UNCHANGED <<queue, unfinished, current>>
    BY <1>5 DEF EventProcessed, EventFailed, FinishEvent, Processor
  <2>2. current \in Requests
    BY <2>1 DEF TypeOK, UnfinishedInv
  <2>3. current \in Handled'
    BY <1>0, <2>1, <2>2, RangeAppend DEF Handled
  <2> QED BY <2>1, <2>3 DEF UnfinishedInv
<1>6. ASSUME TaskDone PROVE UnfinishedInv'
  <2>1. Len(queue) \in Nat
    BY <1>0, LenProperties
  <2> QED BY <1>6, <2>1 DEF TaskDone, Processor, UnfinishedInv
<1>7. CASE DequeueTimeout \/ CheckExit
  BY <1>7 DEF DequeueTimeout, CheckExit, Processor, UnfinishedInv, Handled
<1>8. ASSUME \E r \in Requests : Accept(r) \/ StartWorker(r) \/ RefuseBusy(r)
      PROVE  UnfinishedInv'
  BY <1>1, <1>8 DEF Accept, StartWorker, RefuseBusy, queueVars, workVars
<1>9. CASE UNCHANGED vars \/ UNCHANGED <<queueVars, workVars, health>> \/ StopAccepting
  BY <1>1, <1>9 DEF vars, queueVars, workVars, StopAccepting
<1> QED
  BY <1>3, <1>4, <1>5, <1>6, <1>7, <1>8, <1>9, ControlFrame
     DEF Next, AcceptLoop, ProcessorStep

\* While a clean shutdown is past the join of the accept loop, no worker starts;
\* past the join of the workers, none is left to store an event.
LEMMA StagesStep == PipelineInv /\ [Next]_vars => StagesInv'
<1> SUFFICES ASSUME PipelineInv, [Next]_vars PROVE StagesInv'
  OBVIOUS
<1> USE DEF PipelineInv
<1>1. CASE UNCHANGED <<main, clients, ipc, closed, ipcStop, shutdown, joining, patient,
                       drained, unfinished, saved, health>>
  BY <1>1 DEF StagesInv
<1>2. ASSUME NEW r \in Requests, Accept(r) PROVE StagesInv'
  BY <1>2 DEF Accept, flagVars, queueVars, stopVars, StagesInv, Running
<1>3. ASSUME NEW r \in Requests, StartWorker(r) \/ RefuseBusy(r) PROVE StagesInv'
  <2>1. /\ ipc = "connected" /\ main # "exited"
        /\ UNCHANGED <<main, closed, ipcStop, shutdown, joining, patient, drained,
                      unfinished, health, saved>>
    BY <1>3 DEF StartWorker, RefuseBusy, flagVars, queueVars, stopVars, Running
  <2>2. patient => main \in {"running", "joinIpc"}
    BY <2>1 DEF StagesInv
  <2> QED BY <2>1, <2>2 DEF StagesInv, TypeOK
<1>4. CASE StopAccepting
  BY <1>4 DEF StopAccepting, flagVars, queueVars, stopVars, StagesInv, TypeOK
<1>5. ASSUME NEW r \in Requests, ClientStep(r) PROVE StagesInv'
  <2>1. /\ clients' \subseteq clients /\ r \in clients
        /\ main # "exited"
        /\ UNCHANGED <<main, ipc, closed, ipcStop, shutdown, joining, patient, drained, saved>>
    BY <1>5, ClientFrame
       DEF Worker, Answer, flagVars, stopVars, Running, SlotsInv, WorkerStates
  <2>2. clients # {}
    BY <2>1
  <2>3. patient => main \in {"running", "joinIpc", "snapshot", "joinClients"}
    BY <2>1, <2>2 DEF StagesInv, TypeOK
  <2> QED BY <2>1, <2>3 DEF StagesInv
<1>6. CASE ProcessorStep
  <2>1. /\ main # "exited"
        /\ UNCHANGED <<main, clients, ipc, closed, ipcStop, shutdown, joining, patient,
                      drained, saved>>
        /\ unfinished = 0 => unfinished' = unfinished
    BY <1>6, LenProperties
       DEF ProcessorStep, Dequeue, DequeueTimeout, CheckExit, EventProcessed, EventFailed,
           FinishEvent, TaskDone, Processor, threadVars, flagVars, stopVars, Running,
           UnfinishedInv, TypeOK
  <2> QED BY <2>1 DEF StagesInv
<1>7. ASSUME NEW s \in Stoppers, RequestShutdown(s) \/ StopperStep(s) PROVE StagesInv'
  <2>1. /\ UNCHANGED <<main, clients, ipc, joining, patient, drained, unfinished, health, saved>>
        /\ closed' \in {closed, TRUE} /\ ipcStop' \in {ipcStop, TRUE}
        /\ shutdown' \in {shutdown, TRUE}
    BY <1>7 DEF RequestShutdown, StopperStep, CloseQueue, StopListener, SetShutdown, Stopper,
                threadVars, flagVars, queueVars, stopVars
  <2>2. main # "running" => closed' = TRUE /\ ipcStop' = TRUE /\ shutdown' = TRUE
    BY <2>1 DEF StagesInv, TypeOK
  <2> QED BY <2>1, <2>2 DEF StagesInv
<1>8. CASE MainStep
  <2> USE DEF Main, threadVars, flagVars, queueVars, StagesInv, TypeOK
  <2>1. CASE BeginShutdown    BY <2>1 DEF BeginShutdown
  <2>2. CASE JoinIpc          BY <2>2 DEF JoinIpc
  <2>3. CASE SnapshotClients  BY <2>3 DEF SnapshotClients
  <2>4. CASE JoinClients      BY <2>4 DEF JoinClients
  <2>5. CASE WaitUntilDone    BY <2>5 DEF WaitUntilDone
  <2>6. CASE JoinProcessor    BY <2>6 DEF JoinProcessor
  <2>7. CASE PersistMetrics   BY <2>7 DEF PersistMetrics
  <2> QED BY <1>8, <2>1, <2>2, <2>3, <2>4, <2>5, <2>6, <2>7 DEF MainStep
<1>9. CASE UNCHANGED vars
  BY <1>1, <1>9 DEF vars, threadVars, flagVars, queueVars, stopVars
<1> QED
  BY <1>2, <1>3, <1>4, <1>5, <1>6, <1>7, <1>8, <1>9 DEF Next, AcceptLoop

\* An idle daemon with an empty queue satisfies the invariant.
LEMMA PipelineInit == Init => PipelineInv
<1> SUFFICES ASSUME Init PROVE PipelineInv
  OBVIOUS
<1> USE DEF Init
<1>1. TypeOK
  <2>1. "new" \in PcStates /\ <<>> \in Seq(Requests)
    BY EmptySeq DEF PcStates
  <2>2. ZeroCounters \in Counters /\ metrics \in QueueMetrics
    BY DEF Counters, ZeroCounters, QueueMetrics
  <2> QED BY <2>1, <2>2 DEF TypeOK
<1>2. SlotsInv /\ ConnectionInv /\ StagesInv
  BY PipelineAssumption DEF SlotsInv, ConnectionInv, StagesInv, WorkerStates
<1>3. Queued = {} /\ Handled = {} /\ Len(queue) = 0
  BY NoElements DEF Queued, Handled
<1>4. PlacesInv
  BY <1>3, PipelineAssumption DEF PlacesInv, Distinct, StoredStates
<1>5. UnfinishedInv
  BY <1>3 DEF UnfinishedInv
<1> QED BY <1>1, <1>2, <1>4, <1>5 DEF PipelineInv

\* Every step of every thread keeps the invariant.
LEMMA PipelineStep == PipelineInv /\ [Next]_vars => PipelineInv'
BY TypeStep, SlotsStep, ConnectionStep, PlacesStep, UnfinishedStep, StagesStep
   DEF PipelineInv

--------------------------------------------------------------------------------
(* No count is lost: the balance of the counters.                             *)

\* The requests at one point of their way.
At(f, s) == {r \in Requests : f[r] = s}

\* The counters agree up to the workers that are between two updates of them: every
\* received event is in an outcome counter or outstanding,
OutcomesInv ==
    health.received =
        health.processed + health.failed + health.dropped + Cardinality(Outstanding)

\* the daemon counts an event before the queue does,
AdmissionInv == health.received = metrics.received + Cardinality(At(pc, "received"))

\* the queue counts a drop before the daemon does,
DropsInv == metrics.dropped = health.dropped + Cardinality(At(pc, "rejected"))

\* and an event is in the queue before the high-water mark is raised.
PeakInv == Len(queue) <= metrics.peak + Cardinality(At(pc, "stored"))

BalanceInv == OutcomesInv /\ AdmissionInv /\ DropsInv /\ PeakInv

\* A set of requests is finite and has a natural number of members.
LEMMA RequestCount ==
    ASSUME NEW S \in SUBSET Requests
    PROVE  IsFiniteSet(S) /\ Cardinality(S) \in Nat
BY PipelineAssumption, FS_Subset, FS_CardinalityType

\* So has every point of their way.
LEMMA AtCount ==
    ASSUME NEW f, NEW s
    PROVE  At(f, s) \in SUBSET Requests /\ Cardinality(At(f, s)) \in Nat
<1>1. At(f, s) \in SUBSET Requests
  BY DEF At
<1> QED BY <1>1, RequestCount

\* One more member counts one more.
LEMMA CountOneMore ==
    ASSUME NEW S \in SUBSET Requests, NEW r, r \notin S
    PROVE  Cardinality(S \union {r}) = Cardinality(S) + 1
BY RequestCount, FS_AddElement

\* One member less counts one less.
LEMMA CountOneLess ==
    ASSUME NEW S \in SUBSET Requests, NEW r \in S
    PROVE  Cardinality(S) = Cardinality(S \ {r}) + 1
<1>1. S \ {r} \in SUBSET Requests /\ (S \ {r}) \union {r} = S
  OBVIOUS
<1> QED BY <1>1, CountOneMore

\* A request that moves is counted where it arrives and no longer where it was.
LEMMA MoveCounts ==
    ASSUME TypeOK, NEW r \in Requests, NEW from, NEW to, from # to,
           pc[r] = from, pc' = [pc EXCEPT ![r] = to]
    PROVE  /\ Cardinality(At(pc', to)) = Cardinality(At(pc, to)) + 1
           /\ Cardinality(At(pc, from)) = Cardinality(At(pc', from)) + 1
<1>1. At(pc', to) = At(pc, to) \union {r} /\ r \notin At(pc, to)
  BY DEF At, TypeOK
<1>2. At(pc, from) = At(pc', from) \union {r} /\ r \notin At(pc', from)
  BY DEF At, TypeOK
<1>3. At(pc, to) \in SUBSET Requests /\ At(pc', from) \in SUBSET Requests
  BY DEF At
<1>4. Cardinality(At(pc', to)) = Cardinality(At(pc, to)) + 1
  BY <1>1, <1>3, CountOneMore
<1>5. Cardinality(At(pc, from)) = Cardinality(At(pc', from)) + 1
  BY <1>2, <1>3, CountOneMore
<1> QED BY <1>4, <1>5
\* Its move does not show anywhere else.
LEMMA MovePasses ==
    ASSUME TypeOK, NEW r \in Requests, NEW to, NEW s, pc[r] # s, to # s,
           pc' = [pc EXCEPT ![r] = to]
    PROVE  At(pc', s) = At(pc, s)
BY DEF At, TypeOK

\* Moving between two counted or two uncounted states leaves an event where it was
\* in the balance.
LEMMA MoveOutstanding ==
    ASSUME TypeOK, NEW r \in Requests, NEW to, pc' = [pc EXCEPT ![r] = to],
           pc[r] \in CountedStates <=> to \in CountedStates,
           UNCHANGED handled
    PROVE  Outstanding' = Outstanding
<1>1. Handled' = Handled
  BY DEF Handled
<1> QED BY <1>1 DEF Outstanding, TypeOK

\* No step of any thread loses a count or counts an event twice.
LEMMA BalanceStep == PipelineInv /\ PipelineInv' /\ BalanceInv /\ [Next]_vars => BalanceInv'
<1> SUFFICES ASSUME PipelineInv, PipelineInv', OutcomesInv, AdmissionInv, DropsInv, PeakInv,
                    [Next]_vars
             PROVE  BalanceInv'
  BY DEF BalanceInv
<1>0. TypeOK /\ TypeOK' /\ PlacesInv
  BY DEF PipelineInv
<1>a. /\ health \in Counters /\ metrics \in QueueMetrics
      /\ queue \in Seq(Requests)
  BY <1>0 DEF TypeOK
<1>b. /\ health.received \in Nat /\ health.processed \in Nat
      /\ health.failed \in Nat /\ health.dropped \in Nat
  BY <1>a DEF Counters
<1>c. metrics.received \in Nat /\ metrics.dropped \in Nat /\ metrics.peak \in Nat
  BY <1>a DEF QueueMetrics
<1>d. Len(queue) \in Nat
  BY <1>a, LenProperties
<1>e. Outstanding \in SUBSET Requests /\ Cardinality(Outstanding) \in Nat
  BY RequestCount DEF Outstanding
<1>f. Cardinality(At(pc, "received")) \in Nat /\ Cardinality(At(pc', "received")) \in Nat
  BY AtCount
<1>g. Cardinality(At(pc, "rejected")) \in Nat /\ Cardinality(At(pc', "rejected")) \in Nat
  BY AtCount
<1>h. Cardinality(At(pc, "stored")) \in Nat /\ Cardinality(At(pc', "stored")) \in Nat
  BY AtCount
<1>1. CASE UNCHANGED <<pc, handled, health, metrics, queue>>
  BY <1>1 DEF BalanceInv, OutcomesInv, AdmissionInv, DropsInv, PeakInv, Outstanding, Handled
<1>2. ASSUME NEW r \in Requests, NEW to, pc' = [pc EXCEPT ![r] = to],
             pc[r] \notin {"received", "rejected", "stored"},
             to \notin {"received", "rejected", "stored"},
             pc[r] \in CountedStates <=> to \in CountedStates,
             UNCHANGED <<handled, health, queue, metrics>>
      PROVE  BalanceInv'
  <2>1. Outstanding' = Outstanding
    BY <1>0, <1>2, MoveOutstanding
  <2>2. /\ At(pc', "received") = At(pc, "received")
        /\ At(pc', "rejected") = At(pc, "rejected")
        /\ At(pc', "stored") = At(pc, "stored")
    BY <1>0, <1>2, MovePasses
  <2> QED BY <1>2, <2>1, <2>2 DEF BalanceInv, OutcomesInv, AdmissionInv, DropsInv, PeakInv
<1>3. ASSUME NEW r \in Requests, Accept(r) \/ StartWorker(r) \/ RefuseBusy(r)
      PROVE  BalanceInv'
  <2>1. UNCHANGED <<handled, health, queue, metrics>>
    BY <1>3 DEF Accept, StartWorker, RefuseBusy, workVars, queueVars
  <2>2. \/ pc[r] = "new" /\ pc' = [pc EXCEPT ![r] = "connected"]
        \/ pc[r] = "connected" /\ pc' = [pc EXCEPT ![r] = "started"]
        \/ pc[r] = "connected" /\ pc' = [pc EXCEPT ![r] = "busySent"]
    BY <1>3 DEF Accept, StartWorker, RefuseBusy, ConnectionInv, PipelineInv
  <2> QED BY <1>2, <2>1, <2>2 DEF CountedStates, StoredStates
<1>4. ASSUME NEW r \in Requests, RejectInvalid(r) \/ FindFull(r) \/ Answer(r)
      PROVE  BalanceInv'
  <2>1. UNCHANGED <<handled, health, queue, metrics>>
    BY <1>4 DEF RejectInvalid, FindFull, Answer, Worker, workVars, queueVars
  <2>2. \/ pc[r] = "started" /\ pc' = [pc EXCEPT ![r] = "invalid"]
        \/ pc[r] = "admitted" /\ pc' = [pc EXCEPT ![r] = "overflow"]
        \/ pc[r] = "accepted" /\ pc' = [pc EXCEPT ![r] = "okSent"]
        \/ pc[r] = "refused" /\ pc' = [pc EXCEPT ![r] = "errorSent"]
        \/ pc[r] = "invalid" /\ pc' = [pc EXCEPT ![r] = "errorSent"]
    BY <1>4 DEF RejectInvalid, FindFull, Answer, Worker
  <2> QED BY <1>2, <2>1, <2>2 DEF CountedStates, StoredStates
<1>5. ASSUME NEW r \in Requests, CountReceived(r) PROVE BalanceInv'
  <2>1. UNCHANGED <<handled, queue, metrics>>
    BY <1>5 DEF CountReceived, Worker, workVars, queueVars
  <2>2. /\ pc[r] = "started" /\ pc' = [pc EXCEPT ![r] = "received"]
        /\ health' = [health EXCEPT !.received = @ + 1]
    BY <1>5 DEF CountReceived, Worker
  <2>3. /\ health'.received = health.received + 1
        /\ UNCHANGED <<health.processed, health.failed, health.dropped>>
    BY <1>a, <2>2 DEF Counters
  <2>4. Cardinality(At(pc', "received")) = Cardinality(At(pc, "received")) + 1
    BY <1>0, <2>2, MoveCounts, ZenonT(60)
  <2>5. At(pc', "rejected") = At(pc, "rejected") /\ At(pc', "stored") = At(pc, "stored")
    BY <1>0, <2>2, MovePasses
  <2>6. r \notin Handled
    BY <1>0, <2>2 DEF PlacesInv, StoredStates
  <2>7. Outstanding' = Outstanding \union {r} /\ r \notin Outstanding
    BY <1>0, <2>1, <2>2, <2>6 DEF Outstanding, Handled, TypeOK, CountedStates, StoredStates
  <2>8. Cardinality(Outstanding') = Cardinality(Outstanding) + 1
    BY <1>e, <2>7, CountOneMore
  <2>9. OutcomesInv'
    BY <1>b, <1>e, <2>3, <2>8 DEF OutcomesInv
  <2>10. AdmissionInv'
    BY <1>c, <1>f, <2>1, <2>3, <2>4 DEF AdmissionInv
  <2>11. DropsInv'
    BY <2>1, <2>3, <2>5 DEF DropsInv
  <2>12. PeakInv'
    BY <2>1, <2>5 DEF PeakInv
  <2> QED BY <2>9, <2>10, <2>11, <2>12 DEF BalanceInv
<1>6. ASSUME NEW r \in Requests, PassClosedCheck(r) PROVE BalanceInv'
  <2>1. UNCHANGED <<handled, queue, health>>
    BY <1>6 DEF PassClosedCheck, Worker, workVars
  <2>2. /\ pc[r] = "received" /\ pc' = [pc EXCEPT ![r] = "admitted"]
        /\ metrics' = [metrics EXCEPT !.received = @ + 1]
    BY <1>6 DEF PassClosedCheck, Worker
  <2>3. /\ metrics'.received = metrics.received + 1
        /\ UNCHANGED <<metrics.dropped, metrics.peak>>
    BY <1>a, <1>d, <2>2 DEF QueueMetrics
  <2>4. Cardinality(At(pc, "received")) = Cardinality(At(pc', "received")) + 1
    BY <1>0, <2>2, MoveCounts
  <2>5. At(pc', "rejected") = At(pc, "rejected") /\ At(pc', "stored") = At(pc, "stored")
    BY <1>0, <2>2, MovePasses
  <2>6. Outstanding' = Outstanding
    BY <1>0, <2>1, <2>2, MoveOutstanding DEF CountedStates, StoredStates
  <2>7. OutcomesInv'
    BY <2>1, <2>6 DEF OutcomesInv
  <2>8. AdmissionInv'
    BY <1>c, <1>f, <2>1, <2>3, <2>4 DEF AdmissionInv
  <2>9. DropsInv'
    BY <2>1, <2>3, <2>5 DEF DropsInv
  <2>10. PeakInv'
    BY <2>1, <2>3, <2>5 DEF PeakInv
  <2> QED BY <2>7, <2>8, <2>9, <2>10 DEF BalanceInv
<1>7. ASSUME NEW r \in Requests, FailClosedCheck(r) PROVE BalanceInv'
  <2>1. UNCHANGED <<handled, queue, health>>
    BY <1>7 DEF FailClosedCheck, Worker, workVars
  <2>2. /\ pc[r] = "received" /\ pc' = [pc EXCEPT ![r] = "rejected"]
        /\ metrics' = [metrics EXCEPT !.received = @ + 1, !.dropped = @ + 1]
    BY <1>7 DEF FailClosedCheck, Worker
  <2>3. /\ metrics'.received = metrics.received + 1
        /\ metrics'.dropped = metrics.dropped + 1
        /\ UNCHANGED metrics.peak
    BY <1>a, <1>d, <2>2 DEF QueueMetrics
  <2>4. /\ Cardinality(At(pc', "rejected")) = Cardinality(At(pc, "rejected")) + 1
        /\ Cardinality(At(pc, "received")) = Cardinality(At(pc', "received")) + 1
    BY <1>0, <2>2, MoveCounts
  <2>5. At(pc', "stored") = At(pc, "stored")
    BY <1>0, <2>2, MovePasses
  <2>6. Outstanding' = Outstanding
    BY <1>0, <2>1, <2>2, MoveOutstanding DEF CountedStates, StoredStates
  <2>7. OutcomesInv'
    BY <2>1, <2>6 DEF OutcomesInv
  <2>8. AdmissionInv'
    BY <1>c, <1>f, <2>1, <2>3, <2>4 DEF AdmissionInv
  <2>9. DropsInv'
    BY <1>b, <1>c, <1>g, <2>1, <2>3, <2>4 DEF DropsInv
  <2>10. PeakInv'
    BY <2>1, <2>3, <2>5 DEF PeakInv
  <2> QED BY <2>7, <2>8, <2>9, <2>10 DEF BalanceInv
<1>8. ASSUME NEW r \in Requests, StoreEvent(r) PROVE BalanceInv'
  <2>1. UNCHANGED <<handled, metrics, health>>
    BY <1>8 DEF StoreEvent, Worker, workVars
  <2>2. /\ pc[r] = "admitted" /\ pc' = [pc EXCEPT ![r] = "stored"]
        /\ queue' = Append(queue, r)
    BY <1>8 DEF StoreEvent, Worker
  <2>3. Len(queue') = Len(queue) + 1
    BY <1>a, <1>d, <2>2, AppendProperties
  <2>4. Cardinality(At(pc', "stored")) = Cardinality(At(pc, "stored")) + 1
    BY <1>0, <2>2, MoveCounts, ZenonT(60)
  <2>5. At(pc', "received") = At(pc, "received") /\ At(pc', "rejected") = At(pc, "rejected")
    BY <1>0, <2>2, MovePasses
  <2>6. Outstanding' = Outstanding
    BY <1>0, <2>1, <2>2, MoveOutstanding DEF CountedStates, StoredStates
  <2>7. OutcomesInv'
    BY <2>1, <2>6 DEF OutcomesInv
  <2>8. AdmissionInv'
    BY <2>1, <2>5 DEF AdmissionInv
  <2>9. DropsInv'
    BY <2>1, <2>5 DEF DropsInv
  <2>10. PeakInv'
    BY <1>c, <1>d, <1>h, <2>1, <2>3, <2>4 DEF PeakInv
  <2> QED BY <2>7, <2>8, <2>9, <2>10 DEF BalanceInv
<1>9. ASSUME NEW r \in Requests, CountOverflow(r) PROVE BalanceInv'
  <2>1. UNCHANGED <<handled, queue, health>>
    BY <1>9 DEF CountOverflow, Worker, workVars
  <2>2. /\ pc[r] = "overflow" /\ pc' = [pc EXCEPT ![r] = "rejected"]
        /\ metrics' = [metrics EXCEPT !.dropped = @ + 1]
    BY <1>9 DEF CountOverflow, Worker
  <2>3. /\ metrics'.dropped = metrics.dropped + 1
        /\ UNCHANGED <<metrics.received, metrics.peak>>
    BY <1>a, <1>d, <2>2 DEF QueueMetrics
  <2>4. Cardinality(At(pc', "rejected")) = Cardinality(At(pc, "rejected")) + 1
    BY <1>0, <2>2, MoveCounts, ZenonT(60)
  <2>5. At(pc', "received") = At(pc, "received") /\ At(pc', "stored") = At(pc, "stored")
    BY <1>0, <2>2, MovePasses
  <2>6. Outstanding' = Outstanding
    BY <1>0, <2>1, <2>2, MoveOutstanding DEF CountedStates, StoredStates
  <2>7. OutcomesInv'
    BY <2>1, <2>6 DEF OutcomesInv
  <2>8. AdmissionInv'
    BY <2>1, <2>3, <2>5 DEF AdmissionInv
  <2>9. DropsInv'
    BY <1>b, <1>c, <1>g, <2>1, <2>3, <2>4 DEF DropsInv
  <2>10. PeakInv'
    BY <2>1, <2>3, <2>5 DEF PeakInv
  <2> QED BY <2>7, <2>8, <2>9, <2>10 DEF BalanceInv
<1>10. ASSUME NEW r \in Requests, RecordPeak(r) PROVE BalanceInv'
  <2>1. UNCHANGED <<handled, queue, health>>
    BY <1>10 DEF RecordPeak, Worker, workVars
  <2>2. /\ pc[r] = "stored" /\ pc' = [pc EXCEPT ![r] = "accepted"]
        /\ metrics' = [metrics EXCEPT !.peak = IF Len(queue) > @ THEN Len(queue) ELSE @]
    BY <1>10 DEF RecordPeak, Worker
  <2>3. /\ Len(queue) <= metrics'.peak /\ metrics'.peak \in Nat
        /\ UNCHANGED <<metrics.received, metrics.dropped>>
    BY <1>a, <1>d, <2>2 DEF QueueMetrics
  <2>4. Cardinality(At(pc, "stored")) = Cardinality(At(pc', "stored")) + 1
    BY <1>0, <2>2, MoveCounts
  <2>5. At(pc', "received") = At(pc, "received") /\ At(pc', "rejected") = At(pc, "rejected")
    BY <1>0, <2>2, MovePasses
  <2>6. Outstanding' = Outstanding
    BY <1>0, <2>1, <2>2, MoveOutstanding DEF CountedStates, StoredStates
  <2>7. OutcomesInv'
    BY <2>1, <2>6 DEF OutcomesInv
  <2>8. AdmissionInv'
    BY <2>1, <2>3, <2>5 DEF AdmissionInv
  <2>9. DropsInv'
    BY <2>1, <2>3, <2>5 DEF DropsInv
  <2>10. PeakInv'
    BY <1>c, <1>d, <1>h, <2>1, <2>3 DEF PeakInv
  <2> QED BY <2>7, <2>8, <2>9, <2>10 DEF BalanceInv
<1>11. ASSUME NEW r \in Requests, CountDropped(r) PROVE BalanceInv'
  <2>1. UNCHANGED <<handled, queue, metrics>>
    BY <1>11 DEF CountDropped, Worker, workVars, queueVars
  <2>2. /\ pc[r] = "rejected" /\ pc' = [pc EXCEPT ![r] = "refused"]
        /\ health' = [health EXCEPT !.dropped = @ + 1]
    BY <1>11 DEF CountDropped, Worker
  <2>3. /\ health'.dropped = health.dropped + 1
        /\ UNCHANGED <<health.received, health.processed, health.failed>>
    BY <1>a, <2>2 DEF Counters
  <2>4. Cardinality(At(pc, "rejected")) = Cardinality(At(pc', "rejected")) + 1
    BY <1>0, <2>2, MoveCounts
  <2>5. At(pc', "received") = At(pc, "received") /\ At(pc', "stored") = At(pc, "stored")
    BY <1>0, <2>2, MovePasses
  <2>6. r \notin Handled
    BY <1>0, <2>2 DEF PlacesInv, StoredStates
  <2>7. Outstanding' = Outstanding \ {r} /\ r \in Outstanding
    BY <1>0, <2>1, <2>2, <2>6 DEF Outstanding, Handled, TypeOK, CountedStates, StoredStates
  <2>8. Cardinality(Outstanding) = Cardinality(Outstanding') + 1 /\ Cardinality(Outstanding') \in Nat
    BY <1>e, <2>7, CountOneLess, RequestCount
  <2>9. OutcomesInv'
    BY <1>b, <2>3, <2>8 DEF OutcomesInv
  <2>10. AdmissionInv'
    BY <2>1, <2>3, <2>5 DEF AdmissionInv
  <2>11. DropsInv'
    BY <1>b, <1>c, <1>g, <2>1, <2>3, <2>4 DEF DropsInv
  <2>12. PeakInv'
    BY <2>1, <2>5 DEF PeakInv
  <2> QED BY <2>9, <2>10, <2>11, <2>12 DEF BalanceInv
<1>12. CASE Dequeue
  <2>1. queue # <<>> /\ queue' = Tail(queue) /\ UNCHANGED <<pc, handled, health, metrics>>
    BY <1>12 DEF Dequeue, Processor, threadVars
  <2>2. Len(queue') <= Len(queue) /\ Len(queue') \in Nat
    BY <1>a, <1>d, <2>1, HeadTailProperties
  <2>3. UNCHANGED <<Outstanding, pc, health, metrics>>
    BY <2>1 DEF Outstanding, Handled
  <2>4. PeakInv'
    BY <1>c, <1>d, <1>h, <2>2, <2>3 DEF PeakInv
  <2> QED BY <2>3, <2>4 DEF BalanceInv, OutcomesInv, AdmissionInv, DropsInv
<1>13. CASE EventProcessed \/ EventFailed
  <2>1. /\ processor = "handling" /\ handled' = Append(handled, current)
        /\ UNCHANGED <<pc, queue, metrics>>
    BY <1>13 DEF EventProcessed, EventFailed, FinishEvent, Processor, threadVars
  <2>2. current \in Requests /\ handled \in Seq(Requests)
    BY <2>1 DEF TypeOK, UnfinishedInv, PipelineInv
  <2>3. Handled' = Handled \union {current} /\ current \notin Handled
    BY <1>0, <2>1, <2>2, RangeAppend DEF Handled, PlacesInv
  <2>4. pc[current] \in StoredStates
    BY <1>0, <2>2 DEF PlacesInv
  <2>5. Outstanding' = Outstanding \ {current} /\ current \in Outstanding
    BY <2>1, <2>2, <2>3, <2>4 DEF Outstanding, CountedStates
  <2>6. Cardinality(Outstanding) = Cardinality(Outstanding') + 1 /\ Cardinality(Outstanding') \in Nat
    BY <1>e, <2>5, CountOneLess, RequestCount
  <2>7. /\ UNCHANGED <<health.received, health.dropped>>
        /\ \/ health'.processed = health.processed + 1 /\ health'.failed = health.failed
           \/ health'.processed = health.processed /\ health'.failed = health.failed + 1
    BY <1>a, <1>13 DEF EventProcessed, EventFailed, Counters
  <2>8. OutcomesInv'
    BY <1>b, <1>e, <2>6, <2>7 DEF OutcomesInv
  <2> QED BY <2>1, <2>7, <2>8 DEF BalanceInv, AdmissionInv, DropsInv, PeakInv
<1>14. CASE DequeueTimeout \/ CheckExit \/ TaskDone \/ StopAccepting \/ UNCHANGED vars
  BY <1>1, <1>14 DEF DequeueTimeout, CheckExit, TaskDone, Processor, StopAccepting, vars,
                     threadVars, queueVars, workVars
<1>15. CASE (\E s \in Stoppers : RequestShutdown(s) \/ StopperStep(s)) \/ MainStep
  BY <1>1, <1>15, ControlFrame, OtherFrame DEF queueVars, workVars, threadVars
<1> QED
  BY <1>3, <1>4, <1>5, <1>6, <1>7, <1>8, <1>9, <1>10, <1>11, <1>12, <1>13, <1>14, <1>15
     DEF Next, AcceptLoop, ClientStep, ProcessorStep

\* Nothing has been counted when the daemon starts.
LEMMA BalanceInit == Init => BalanceInv
<1> SUFFICES ASSUME Init PROVE BalanceInv
  OBVIOUS
<1>1. Outstanding = {}
  BY DEF Init, Outstanding, CountedStates, StoredStates
<1>2. At(pc, "received") = {} /\ At(pc, "rejected") = {} /\ At(pc, "stored") = {}
  <2>1. \A r \in Requests : pc[r] = "new"
    BY DEF Init
  <2> QED BY <2>1 DEF At
<1>3. /\ Cardinality(Outstanding) = 0 /\ Len(queue) = 0
      /\ Cardinality(At(pc, "received")) = 0 /\ Cardinality(At(pc, "rejected")) = 0
      /\ Cardinality(At(pc, "stored")) = 0
  BY <1>1, <1>2, FS_EmptySet, EmptySeq DEF Init
<1>4. /\ health.received = 0 /\ health.processed = 0 /\ health.failed = 0 /\ health.dropped = 0
      /\ metrics.received = 0 /\ metrics.dropped = 0 /\ metrics.peak = 0
  BY DEF Init, ZeroCounters
<1>5. OutcomesInv /\ PeakInv
  BY <1>3, <1>4 DEF OutcomesInv, PeakInv
<1>6. AdmissionInv
  BY <1>3, <1>4 DEF AdmissionInv
<1>7. DropsInv
  BY <1>3, <1>4 DEF DropsInv
<1> QED BY <1>5, <1>6, <1>7 DEF BalanceInv

--------------------------------------------------------------------------------
(* The pipeline implements EventService.                                      *)

\* What the backlog is while the processor holds an event and while it does not.
LEMMA BacklogIs ==
    ASSUME PipelineInv
    PROVE  /\ processor = "handling" => current \in Requests /\ Backlog = <<current>> \o queue
           /\ processor # "handling" => Backlog = queue
           /\ Backlog \in Seq(Requests)
           /\ Len(Backlog) \in Nat /\ Len(Backlog) <= Len(queue) + 1
           /\ Range(Backlog) \subseteq Queued \union {current}
<1>1. queue \in Seq(Requests) /\ Len(queue) \in Nat
  BY LenProperties DEF PipelineInv, TypeOK
<1>2. CASE processor = "handling"
  <2>1. current \in Requests
    BY <1>2 DEF PipelineInv, TypeOK, UnfinishedInv
  <2>2. Backlog = <<current>> \o queue
    BY <1>2 DEF Backlog
  <2> QED BY <1>1, <1>2, <2>1, <2>2, ConsProperties, ConsRange DEF Queued
<1>3. CASE processor # "handling"
  <2>1. Backlog = queue
    BY <1>1, <1>3, ConcatEmptySeq DEF Backlog
  <2> QED BY <1>1, <1>3, <2>1 DEF Queued
<1> QED BY <1>2, <1>3

\* A request that put_nowait has not stored and nobody refused is new to the service.
LEMMA FreshRequest ==
    ASSUME PipelineInv, NEW r \in Requests,
           pc[r] \in {"connected", "started", "received", "admitted"}
    PROVE  Service!Fresh(r)
<1>1. r \notin Queued \union {current} \union Handled
  BY DEF PipelineInv, PlacesInv, StoredStates
<1>2. r \notin Range(Backlog)
  BY <1>1, BacklogIs
<1>3. r \notin Refused
  BY DEF Refused
<1> QED BY <1>1, <1>2, <1>3 DEF Service!Fresh, Service!Range, Range, Handled

\* A step that refuses a new request.
LEMMA RefuseStep ==
    ASSUME PipelineInv, Running, NEW r \in Requests,
           pc[r] \in {"connected", "started", "received", "admitted"},
           Refused' = Refused \union {r},
           UNCHANGED <<queue, workVars, main>>
    PROVE  Service!Refuse(r)
<1>1. UNCHANGED <<Backlog, handled, main>>
  BY DEF Backlog, workVars
<1> QED BY <1>1, FreshRequest DEF Service!Refuse, Running

\* A step that leaves the queue, the processor and the refusals alone is not seen.
LEMMA UnseenStep ==
    ASSUME UNCHANGED <<queue, processor, current, handled, main, Refused>>
    PROVE  UNCHANGED Service!serviceVars
BY DEF Service!serviceVars, Backlog

\* Every step of the threads is a step of the service or is not seen there.
LEMMA ServiceStep ==
    PipelineInv /\ PipelineInv' /\ [Next]_vars => [Service!ServiceNext]_(Service!serviceVars)
<1> SUFFICES ASSUME PipelineInv, PipelineInv', [Next]_vars
             PROVE  [Service!ServiceNext]_(Service!serviceVars)
  OBVIOUS
<1>0. TypeOK /\ queue \in Seq(Requests)
  BY DEF PipelineInv, TypeOK
<1>1. ASSUME NEW r \in Requests, Accept(r) \/ StartWorker(r) PROVE UNCHANGED Service!serviceVars
  <2>1. UNCHANGED <<queue, processor, current, handled, main>>
    BY <1>1 DEF Accept, StartWorker, queueVars, workVars, stopVars
  <2>2. /\ pc[r] \in {"new", "connected"}
        /\ \E to \in {"connected", "started"} : pc' = [pc EXCEPT ![r] = to]
    BY <1>1 DEF Accept, StartWorker, PipelineInv, ConnectionInv
  <2>3. UNCHANGED Refused
    BY <1>0, <2>2 DEF Refused, TypeOK
  <2> QED BY <2>1, <2>3, UnseenStep
<1>2. ASSUME NEW r \in Requests, RefuseBusy(r) PROVE Service!Refuse(r)
  <2>1. Running /\ pc[r] = "connected" /\ pc' = [pc EXCEPT ![r] = "busySent"]
    BY <1>2 DEF RefuseBusy, PipelineInv, ConnectionInv
  <2>2. UNCHANGED <<queue, workVars, main>>
    BY <1>2 DEF RefuseBusy, queueVars, stopVars
  <2>3. Refused' = Refused \union {r}
    BY <1>0, <2>1 DEF Refused, TypeOK
  <2> QED BY <2>1, <2>2, <2>3, RefuseStep
<1>3. ASSUME NEW r \in Requests, RejectInvalid(r) \/ FailClosedCheck(r) \/ FindFull(r)
      PROVE  Service!Refuse(r)
  <2>1. UNCHANGED <<queue, workVars, main>>
    BY <1>3 DEF RejectInvalid, FailClosedCheck, FindFull, Worker, queueVars, stopVars
  <2>2. Running /\ \/ pc[r] = "started" /\ pc' = [pc EXCEPT ![r] = "invalid"]
                   \/ pc[r] = "received" /\ pc' = [pc EXCEPT ![r] = "rejected"]
                   \/ pc[r] = "admitted" /\ pc' = [pc EXCEPT ![r] = "overflow"]
    BY <1>3 DEF RejectInvalid, FailClosedCheck, FindFull, Worker
  <2>3. Refused' = Refused \union {r}
    BY <1>0, <2>2 DEF Refused, TypeOK
  <2> QED BY <2>1, <2>2, <2>3, RefuseStep
<1>4. ASSUME NEW r \in Requests, StoreEvent(r) PROVE Service!Take(r)
  <2>1. /\ Running /\ pc[r] = "admitted" /\ pc' = [pc EXCEPT ![r] = "stored"]
        /\ Len(queue) < Capacity /\ queue' = Append(queue, r)
        /\ UNCHANGED <<processor, current, handled, main>>
    BY <1>4 DEF StoreEvent, Worker, workVars, stopVars
  <2>2. Refused' = Refused
    BY <1>0, <2>1 DEF Refused, TypeOK
  <2>3. Len(Backlog) < Capacity + 1
    BY <1>0, <2>1, BacklogIs, LenProperties, PipelineAssumption
  <2>4. Backlog' = Append(Backlog, r)
    <3>1. CASE processor = "handling"
      <4>1. current \in Requests /\ Backlog = <<current>> \o queue
        BY <3>1, BacklogIs
      <4>2. Backlog' = <<current>> \o Append(queue, r)
        BY <2>1, <3>1 DEF Backlog
      <4> QED BY <1>0, <4>1, <4>2, ConsAppend
    <3>2. CASE processor # "handling"
      <4>1. Backlog = queue
        BY <3>2, BacklogIs
      <4>2. Backlog' = <<>> \o Append(queue, r) /\ Append(queue, r) \in Seq(Requests)
        BY <1>0, <2>1, <3>2, AppendProperties DEF Backlog
      <4> QED BY <4>1, <4>2, ConcatEmptySeq
    <3> QED BY <3>1, <3>2
  <2>5. Service!Fresh(r)
    BY <2>1, FreshRequest
  <2> QED BY <2>1, <2>2, <2>3, <2>4, <2>5 DEF Service!Take, Running
<1>5. ASSUME NEW r \in Requests,
             \/ CountReceived(r) \/ PassClosedCheck(r) \/ CountOverflow(r)
             \/ RecordPeak(r) \/ CountDropped(r) \/ Answer(r)
      PROVE  UNCHANGED Service!serviceVars
  <2>1. UNCHANGED <<queue, processor, current, handled, main>>
    BY <1>5 DEF CountReceived, PassClosedCheck, CountOverflow, RecordPeak, CountDropped, Answer,
                Worker, queueVars, workVars, stopVars
  <2>2. \/ pc[r] = "started" /\ pc' = [pc EXCEPT ![r] = "received"]
        \/ pc[r] = "received" /\ pc' = [pc EXCEPT ![r] = "admitted"]
        \/ pc[r] = "overflow" /\ pc' = [pc EXCEPT ![r] = "rejected"]
        \/ pc[r] = "stored" /\ pc' = [pc EXCEPT ![r] = "accepted"]
        \/ pc[r] = "rejected" /\ pc' = [pc EXCEPT ![r] = "refused"]
        \/ pc[r] = "accepted" /\ pc' = [pc EXCEPT ![r] = "okSent"]
        \/ pc[r] = "refused" /\ pc' = [pc EXCEPT ![r] = "errorSent"]
        \/ pc[r] = "invalid" /\ pc' = [pc EXCEPT ![r] = "errorSent"]
    BY <1>5 DEF CountReceived, PassClosedCheck, CountOverflow, RecordPeak, CountDropped, Answer, Worker
  <2>3. UNCHANGED Refused
    BY <1>0, <2>2 DEF Refused, TypeOK
  <2> QED BY <2>1, <2>3, UnseenStep
<1>6. CASE Dequeue
  <2>1. /\ queue # <<>> /\ processor = "waiting" /\ processor' = "handling"
        /\ current' = Head(queue) /\ queue' = Tail(queue)
        /\ UNCHANGED <<pc, handled, main>>
    BY <1>6 DEF Dequeue, Processor, threadVars, stopVars
  <2>2. Backlog' = <<Head(queue)>> \o Tail(queue)
    BY <2>1 DEF Backlog
  <2>3. Backlog' = queue
    BY <1>0, <2>1, <2>2, ConsHeadTail
  <2>4. Backlog = queue
    BY <2>1, BacklogIs
  <2> QED BY <2>1, <2>3, <2>4 DEF Service!serviceVars, Refused
<1>7. CASE EventProcessed \/ EventFailed
  <2>1. /\ Running /\ processor = "handling" /\ processor' = "finishing"
        /\ handled' = Append(handled, current)
        /\ UNCHANGED <<pc, queue, current, main>>
    BY <1>7 DEF EventProcessed, EventFailed, FinishEvent, Processor, threadVars, stopVars
  <2>2. current \in Requests /\ Backlog = <<current>> \o queue
    BY <2>1, BacklogIs
  <2>3. Backlog # <<>> /\ Head(Backlog) = current /\ Tail(Backlog) = queue
    BY <1>0, <2>2, ConsProperties
  <2>4. Backlog' = <<>> \o queue
    BY <2>1 DEF Backlog
  <2>5. Backlog' = Tail(Backlog)
    BY <1>0, <2>3, <2>4, ConcatEmptySeq
  <2>6. Service!Finish
    BY <2>1, <2>3, <2>5 DEF Service!Finish, Running, Refused
  <2> QED BY <2>6 DEF Service!ServiceNext
<1>8. CASE DequeueTimeout \/ CheckExit \/ TaskDone
  <2>1. /\ processor # "handling" /\ processor' # "handling"
        /\ UNCHANGED <<pc, queue, handled, main>>
    BY <1>8 DEF DequeueTimeout, CheckExit, TaskDone, Processor, threadVars, stopVars
  <2>2. UNCHANGED Backlog
    BY <2>1 DEF Backlog
  <2> QED BY <2>1, <2>2 DEF Service!serviceVars, Refused
<1>9. CASE PersistMetrics
  <2>1. /\ main = "saving" /\ main' = "exited"
        /\ UNCHANGED <<pc, queue, processor, current, handled>>
    BY <1>9 DEF PersistMetrics, Main, threadVars, queueVars, workVars
  <2>2. Service!Halt
    BY <2>1 DEF Service!Halt, Backlog, Refused
  <2> QED BY <2>2 DEF Service!ServiceNext
<1>10. ASSUME \/ \E s \in Stoppers : RequestShutdown(s) \/ StopperStep(s)
              \/ BeginShutdown \/ JoinIpc \/ SnapshotClients \/ JoinClients
              \/ WaitUntilDone \/ JoinProcessor
       PROVE  UNCHANGED Service!serviceVars
  <2>1. UNCHANGED <<pc, queue, processor, current, handled>>
    BY <1>10, ControlFrame, OtherFrame DEF MainStep, threadVars, queueVars, workVars
  <2>2. main # "exited" /\ main' # "exited"
    BY <1>10 DEF RequestShutdown, StopperStep, CloseQueue, StopListener, SetShutdown, Stopper,
                 Running, stopVars, BeginShutdown, JoinIpc, SnapshotClients, JoinClients,
                 WaitUntilDone, JoinProcessor, Main
  <2> QED BY <2>1, <2>2 DEF Service!serviceVars, Backlog, Refused
<1>11. CASE StopAccepting \/ UNCHANGED vars
  <2>1. UNCHANGED <<queue, processor, current, handled, main, pc>>
    BY <1>11 DEF StopAccepting, vars, threadVars, queueVars, workVars, stopVars
  <2> QED BY <2>1, UnseenStep DEF Refused
<1>12. ASSUME NEW r \in Requests, Service!Refuse(r) \/ Service!Take(r)
       PROVE  Service!ServiceNext
  BY <1>12 DEF Service!ServiceNext
<1> QED
  BY <1>1, <1>2, <1>3, <1>4, <1>5, <1>6, <1>7, <1>8, <1>9, <1>10, <1>11, <1>12
     DEF Next, AcceptLoop, ClientStep, ProcessorStep, MainStep

\* An idle daemon has taken, finished and refused nothing.
LEMMA ServiceStart == Init => Service!ServiceInit
<1> SUFFICES ASSUME Init PROVE Service!ServiceInit
  OBVIOUS
<1>1. Backlog = <<>> \o <<>>
  BY DEF Init, Backlog
<1>2. Backlog = <<>>
  BY <1>1, EmptySeq, ConcatEmptySeq
<1>3. Refused = {}
  BY DEF Init, Refused
<1> QED BY <1>2, <1>3 DEF Init, Service!ServiceInit

--------------------------------------------------------------------------------
(* Theorems.                                                                  *)

\* The parts hold together in every reachable state of the daemon's event path.
THEOREM PipelineInvariant == Spec => []PipelineInv
BY PipelineInit, PipelineStep, PTL DEF Spec

\* The variables keep their types, for any capacity and any number of workers.
THEOREM TypeCorrect == Spec => []TypeOK
<1>1. PipelineInv => TypeOK
  BY DEF PipelineInv
<1> QED BY <1>1, PipelineInvariant, PTL

\* What a client is told about its event is so, at every point of the daemon's life.
THEOREM AnswersTrue == Spec => []AnswersAreTrue
<1>1. PipelineInv => AnswersAreTrue
  BY DEF PipelineInv, PlacesInv, AnswersAreTrue, StoredStates
<1> QED BY <1>1, PipelineInvariant, PTL

\* When a clean shutdown is about to save its metrics, nothing accepted is unfinished.
LEMMA CleanStopHandled == PipelineInv => CleanStopProcessesAll
<1> SUFFICES ASSUME PipelineInv, CleanStop PROVE Stored \subseteq Handled
  BY DEF CleanStopProcessesAll
<1> USE DEF PipelineInv
<1>1. unfinished = 0 /\ Len(queue) \in Nat /\ queue \in Seq(Requests)
  BY LenProperties DEF CleanStop, StagesInv, TypeOK
<1>2. Len(queue) = 0 /\ current = NoRequest
  BY <1>1 DEF UnfinishedInv
<1>3. Queued = {}
  BY <1>1, <1>2, EmptySeq, NoElements DEF Queued
<1> QED BY <1>2, <1>3, PipelineAssumption DEF PlacesInv, Stored

\* A shutdown in which no wait timed out has processed every accepted event.
THEOREM CleanStopComplete == Spec => []CleanStopProcessesAll
BY CleanStopHandled, PipelineInvariant, PTL

\* However the threads interleave, every received event is counted once as processed,
\* failed or dropped or is still on its way; the two sets of counters agree when a clean
\* stop saves them, and the high-water mark lags only by workers inside put().
THEOREM CountersAreBalanced == Spec => []CountersBalance
<1>1. PipelineInv /\ BalanceInv => CountersBalance
  <2> SUFFICES ASSUME PipelineInv, BalanceInv PROVE CountersBalance
    OBVIOUS
  <2>1. At(pc, "stored") = {r \in Requests : pc[r] = "stored"}
    BY DEF At
  <2>2. ASSUME CleanStop, main = "exited"
        PROVE  /\ saved.received = saved.processed + saved.failed + saved.dropped
               /\ metrics.received = saved.received /\ metrics.dropped = saved.dropped
    <3>1. clients = {} /\ saved = health
      BY <2>2 DEF CleanStop, StagesInv, PipelineInv
    <3>2. \A r \in Requests : pc[r] \notin WorkerStates
      BY <3>1 DEF SlotsInv, PipelineInv
    <3>3. At(pc, "received") = {} /\ At(pc, "rejected") = {}
      BY <3>2 DEF At, WorkerStates
    <3>4. Stored \subseteq Handled
      BY <2>2, CleanStopHandled DEF CleanStopProcessesAll
    <3>5. Outstanding = {}
      BY <3>2, <3>4 DEF Outstanding, CountedStates, StoredStates, WorkerStates, Stored
    <3>6. Cardinality({}) = 0
      BY FS_EmptySet
    <3>7. /\ health.received \in Nat /\ health.processed \in Nat
          /\ health.failed \in Nat /\ health.dropped \in Nat
          /\ metrics.received \in Nat /\ metrics.dropped \in Nat
      BY DEF PipelineInv, TypeOK, Counters, QueueMetrics
    <3>8. health.received = health.processed + health.failed + health.dropped
      BY <3>5, <3>6, <3>7 DEF BalanceInv, OutcomesInv
    <3>9. metrics.received = health.received /\ metrics.dropped = health.dropped
      BY <3>3, <3>6, <3>7 DEF BalanceInv, AdmissionInv, DropsInv
    <3> QED BY <3>1, <3>8, <3>9
  <2> QED BY <2>1, <2>2 DEF CountersBalance, BalanceInv, OutcomesInv, AdmissionInv, DropsInv, PeakInv
<1> QED BY PipelineInit, BalanceInit, BalanceStep, PipelineStep, <1>1, PTL DEF Spec

\* The threads together behave like the service without threads: events are finished
\* in the order they were stored, each once, and never after they were refused.
THEOREM PipelineRefinesService == Spec => ImplementsService
BY PipelineInit, PipelineStep, ServiceStart, ServiceStep, PTL
   DEF Spec, ImplementsService, Service!ServiceSpec
================================================================================
