-------------------------- MODULE SignalLockProofs --------------------------
(***************************************************************************)
(* No circle of threads waits for each other's locks, for any threads and  *)
(* any number of signals: whatever a function holds follows from where it  *)
(* is, it holds nothing but EventQueue._lock when it takes another lock,   *)
(* and then that other lock is the mutex of queue.Queue.                   *)
(***************************************************************************)
EXTENDS SignalLocks, SequenceTheorems, TLAPS

-----------------------------------------------------------------------------
(* What functions hold.                                                    *)

Ops == {"take", "give", "nap", "set", "return", "branch"} \X (Locks \cup {""})

\* Who runs a function: a thread of its own, the main thread, or a handler on top of it.
Kinds == {"thread", "main", "handler"}

\* What a step does to the locks held before it, in a function of that kind.
Rule(op, before, after, kind) ==
  /\ op[1] = "take" => /\ op[2] \in Locks
                       /\ before \subseteq (IF op[2] = "mutex" THEN {"queue"} ELSE {})
                       /\ after = before \cup {op[2]}
  /\ op[1] = "give" => op[2] \in before /\ after = before \ {op[2]}
  /\ op[1] \notin {"take", "give"} => after = before
  /\ op[1] \in {"return", "branch"} => before = {}
  /\ kind = "handler" => op[1] # "branch"
  /\ kind # "thread" /\ "mutex" \in before => "queue" \in before

\* h[n] is what is held before step n.
Holds(s, h, kind) ==
  /\ h \in [1..(Len(s) + 1) -> SUBSET Locks]
  /\ h[1] = {} /\ h[Len(s) + 1] = {}
  /\ \A n \in 1..Len(s) : Rule(s[n], h[n], h[n + 1], kind)

Bracketed(s, kind) == s \in Seq(Ops) /\ \E h : Holds(s, h, kind)

\* One after the other is bracketed as well.
LEMMA Joined ==
  ASSUME NEW kind \in Kinds, NEW s, NEW t, Bracketed(s, kind), Bracketed(t, kind)
  PROVE  Bracketed(s \o t, kind)
<1> USE DEF Bracketed
<1>1. PICK h : Holds(s, h, kind)
  OBVIOUS
<1>2. PICK g : Holds(t, g, kind)
  OBVIOUS
<1> DEFINE u == s \o t
           b == [n \in 1..(Len(s) + Len(t) + 1) |-> IF n <= Len(s) THEN h[n] ELSE g[n - Len(s)]]
<1>3. /\ u \in Seq(Ops) /\ Len(u) = Len(s) + Len(t)
      /\ Len(s) \in Nat /\ Len(t) \in Nat
  OBVIOUS
<1>4. /\ \A n \in 1..Len(s) : u[n] = s[n]
      /\ \A n \in 1..Len(t) : u[Len(s) + n] = t[n]
  OBVIOUS
<1> HIDE DEF u
<1>5. /\ \A n \in 1..Len(s) : b[n] = h[n]
      /\ \A n \in 1..(Len(t) + 1) : b[Len(s) + n] = g[n]
  <2>1. \A n \in 1..Len(s) : n \in 1..(Len(s) + Len(t) + 1) /\ n <= Len(s)
    BY <1>3
  <2>2. \A n \in 1..(Len(t) + 1) : /\ Len(s) + n \in 1..(Len(s) + Len(t) + 1)
                                   /\ ~(Len(s) + n <= Len(s)) /\ (Len(s) + n) - Len(s) = n
    BY <1>3
  <2> QED
    BY <2>1, <2>2
<1>6. b \in [1..(Len(s) + Len(t) + 1) -> SUBSET Locks]
  <2> SUFFICES ASSUME NEW n \in 1..(Len(s) + Len(t) + 1)
               PROVE  (IF n <= Len(s) THEN h[n] ELSE g[n - Len(s)]) \in SUBSET Locks
    OBVIOUS
  <2>3. h \in [1..(Len(s) + 1) -> SUBSET Locks] /\ g \in [1..(Len(t) + 1) -> SUBSET Locks]
    BY <1>1, <1>2 DEF Holds
  <2>1. n <= Len(s) => n \in 1..(Len(s) + 1)
    BY <1>3
  <2>2. ~(n <= Len(s)) => n - Len(s) \in 1..(Len(t) + 1)
    BY <1>3
  <2> QED
    BY <2>1, <2>2, <2>3
<1> HIDE DEF b
<1>7. b[Len(s) + 1] = h[Len(s) + 1]
  <2>1. 1 \in 1..(Len(t) + 1)
    BY <1>3
  <2> QED
    BY <1>1, <1>2, <1>5, <2>1 DEF Holds
<1> DEFINE Right(n) == Rule(u[n], b[n], b[n + 1], kind)
<1>8. ASSUME NEW n \in 1..Len(s)
      PROVE  Right(n)
  <2>1. n + 1 \in 1..Len(s) \/ n + 1 = Len(s) + 1
    BY <1>3
  <2>2. u[n] = s[n] /\ b[n] = h[n] /\ b[n + 1] = h[n + 1]
    BY <1>4, <1>5, <1>7, <2>1
  <2> QED
    BY <1>1, <2>2, Zenon DEF Holds
<1>9. ASSUME NEW m \in 1..Len(t)
      PROVE  Right(Len(s) + m)
  <2>1. m \in 1..(Len(t) + 1) /\ m + 1 \in 1..(Len(t) + 1) /\ Len(s) + m + 1 = Len(s) + (m + 1)
    BY <1>3
  <2>2. u[Len(s) + m] = t[m] /\ b[Len(s) + m] = g[m] /\ b[Len(s) + m + 1] = g[m + 1]
    BY <1>4, <1>5, <2>1
  <2> QED
    BY <1>2, <2>2, Zenon DEF Holds
<1>10. \A n \in 1..Len(u) : Right(n)
  <2> HIDE DEF Right
  <2> SUFFICES ASSUME NEW n \in 1..Len(u) PROVE Right(n)
    OBVIOUS
  <2>1. CASE n <= Len(s)
    BY <1>3, <1>8, <2>1
  <2>2. CASE ~(n <= Len(s))
    <3>1. n - Len(s) \in 1..Len(t) /\ n = Len(s) + (n - Len(s))
      BY <1>3, <2>2
    <3> QED
      BY <1>9, <3>1
  <2> QED
    BY <2>1, <2>2
<1>11. b[1] = {} /\ b[Len(u) + 1] = {}
  <2>1. Len(t) + 1 \in 1..(Len(t) + 1) /\ Len(u) + 1 = Len(s) + (Len(t) + 1)
    BY <1>3
  <2>2. b[Len(u) + 1] = {}
    BY <1>2, <1>5, <2>1 DEF Holds
  <2>3. 1 \in 1..Len(s) \/ (Len(s) = 0 /\ Len(s) + 1 = 1)
    BY <1>3
  <2>4. b[1] = {}
    BY <1>1, <1>5, <1>7, <2>3 DEF Holds
  <2> QED
    BY <2>2, <2>4
<1>12. Holds(u, b, kind)
  BY <1>3, <1>6, <1>10, <1>11 DEF Holds
<1>13. u \in Seq(Ops) /\ \E k : Holds(u, k, kind)
  BY <1>3, <1>12
<1> QED
  BY <1>13 DEF u

\* A lock taken and given back; the mutex on its own is not the main thread's.
LEMMA RegionHolds ==
  ASSUME NEW kind \in Kinds, NEW l \in Locks, l = "mutex" => kind = "thread"
  PROVE  Bracketed(Region(l), kind)
<1> DEFINE s == <<Take(l), Give(l)>>
           h == [n \in 1..3 |-> IF n = 2 THEN {l} ELSE {}]
<1>1. s \in Seq(Ops) /\ Len(s) = 2
  <2>1. Take(l) \in Ops /\ Give(l) \in Ops
    BY DEF Ops, Take, Give
  <2> QED
    BY <2>1
<1>2. h \in [1..3 -> SUBSET Locks] /\ h[1] = {} /\ h[2] = {l} /\ h[3] = {}
  OBVIOUS
<1>3. /\ s[1][1] = "take" /\ s[1][2] = l
      /\ s[2][1] = "give" /\ s[2][2] = l
  BY DEF Take, Give
<1> HIDE DEF s, h
<1>4. Holds(s, h, kind)
  <2>1. \A n \in 1..2 : n = 1 \/ n = 2
    OBVIOUS
  <2> QED
    BY <1>1, <1>2, <1>3, <2>1 DEF Holds, Rule
<1> QED
  BY <1>1, <1>4 DEF Bracketed, Region, s

\* EventQueue.metrics: the one place that takes a lock while it holds another.
LEMMA MetricsHolds ==
  ASSUME NEW kind \in Kinds
  PROVE  Bracketed(Metrics, kind)
<1> DEFINE s == <<Take("queue"), Take("mutex"), Give("mutex"), Give("queue")>>
           h == [n \in 1..5 |-> IF n = 3 THEN {"queue", "mutex"}
                                ELSE IF n \in {2, 4} THEN {"queue"} ELSE {}]
<1>1. s \in Seq(Ops) /\ Len(s) = 4 /\ s = Metrics
  <2>1. /\ Take("queue") \in Ops /\ Take("mutex") \in Ops
        /\ Give("mutex") \in Ops /\ Give("queue") \in Ops
    BY DEF Ops, Take, Give, Locks
  <2>2. s \in Seq(Ops) /\ Len(s) = 4
    BY <2>1
  <2>3. PICK a \in Ops, b \in Ops, c \in Ops, d \in Ops :
           a = Take("queue") /\ b = Take("mutex") /\ c = Give("mutex") /\ d = Give("queue")
    BY <2>1
  <2>4. <<a, b, c, d>> = <<a>> \o <<b, c>> \o <<d>>
    OBVIOUS
  <2>5. Metrics = <<a>> \o <<b, c>> \o <<d>>
    BY <2>3, Zenon DEF Metrics, Nested, Region
  <2>6. s = <<a, b, c, d>>
    BY <2>3, Zenon
  <2> QED
    BY <2>2, <2>4, <2>5, <2>6, Zenon
<1>2. /\ h \in [1..5 -> SUBSET Locks]
      /\ h[1] = {} /\ h[2] = {"queue"} /\ h[3] = {"queue", "mutex"} /\ h[4] = {"queue"}
      /\ h[5] = {}
  BY DEF Locks
<1>3. /\ s[1][1] = "take" /\ s[1][2] = "queue" /\ s[2][1] = "take" /\ s[2][2] = "mutex"
      /\ s[3][1] = "give" /\ s[3][2] = "mutex" /\ s[4][1] = "give" /\ s[4][2] = "queue"
  BY DEF Take, Give
<1> HIDE DEF s, h
<1>4. /\ Rule(s[1], h[1], h[2], kind) /\ Rule(s[2], h[2], h[3], kind)
      /\ Rule(s[3], h[3], h[4], kind) /\ Rule(s[4], h[4], h[5], kind)
  BY <1>2, <1>3 DEF Rule, Locks
<1>5. \A n \in 1..4 : Rule(s[n], h[n], h[n + 1], kind)
  <2>1. \A n \in 1..4 : n \in {1, 2, 3, 4}
    OBVIOUS
  <2> QED
    BY <1>4, <2>1
<1>6. Holds(s, h, kind)
  BY <1>1, <1>2, <1>5 DEF Holds
<1> QED
  BY <1>1, <1>6 DEF Bracketed

\* Setting the shutdown event under its lock.
LEMMA SettingHolds ==
  ASSUME NEW kind \in Kinds
  PROVE  Bracketed(<<Take("event"), Set, Give("event")>>, kind)
<1> DEFINE s == <<Take("event"), Set, Give("event")>>
           h == [n \in 1..4 |-> IF n \in {2, 3} THEN {"event"} ELSE {}]
<1>1. s \in Seq(Ops) /\ Len(s) = 3
  <2>1. Take("event") \in Ops /\ Set \in Ops /\ Give("event") \in Ops
    BY DEF Ops, Take, Set, Give, Locks
  <2> QED
    BY <2>1
<1>2. /\ h \in [1..4 -> SUBSET Locks]
      /\ h[1] = {} /\ h[2] = {"event"} /\ h[3] = {"event"} /\ h[4] = {}
  BY DEF Locks
<1>3. /\ s[1][1] = "take" /\ s[1][2] = "event" /\ s[2][1] = "set"
      /\ s[3][1] = "give" /\ s[3][2] = "event"
  BY DEF Take, Set, Give
<1> HIDE DEF s, h
<1>4. Rule(s[1], h[1], h[2], kind) /\ Rule(s[2], h[2], h[3], kind) /\ Rule(s[3], h[3], h[4], kind)
  BY <1>2, <1>3 DEF Rule, Locks
<1>5. \A n \in 1..3 : Rule(s[n], h[n], h[n + 1], kind)
  <2>1. \A n \in 1..3 : n \in {1, 2, 3}
    OBVIOUS
  <2> QED
    BY <1>4, <2>1
<1>6. Holds(s, h, kind)
  BY <1>1, <1>2, <1>5 DEF Holds
<1> QED
  BY <1>1, <1>6 DEF Bracketed, s

\* What concerns no lock.
LEMMA PauseHolds ==
  ASSUME NEW kind \in Kinds, NEW op \in {Nap, Return, Branch}, op = Branch => kind # "handler"
  PROVE  Bracketed(<<op>>, kind)
<1>1. /\ Nap \in Ops /\ Return \in Ops /\ Branch \in Ops
      /\ Nap[1] = "nap" /\ Return[1] = "return" /\ Branch[1] = "branch"
  BY DEF Ops, Nap, Return, Branch
<1> DEFINE h == [n \in 1..2 |-> {}]
<1>2. Rule(op, {}, {}, kind)
  BY <1>1 DEF Rule
<1>3. <<op>> \in Seq(Ops) /\ Len(<<op>>) = 1 /\ <<op>>[1] = op
  BY <1>1
<1>4. h \in [1..2 -> SUBSET Locks] /\ h[1] = {} /\ h[2] = {}
  OBVIOUS
<1> HIDE DEF h
<1>5. \A n \in 1..1 : Rule(<<op>>[n], h[n], h[n + 1], kind)
  <2>1. \A n \in 1..1 : n = 1
    OBVIOUS
  <2> QED
    BY <1>2, <1>3, <1>4, <2>1
<1>6. Holds(<<op>>, h, kind)
  BY <1>3, <1>4, <1>5 DEF Holds
<1> QED
  BY <1>3, <1>6 DEF Bracketed

\* What kind of function each is; request_shutdown runs on top of the main thread, too.
KindOf(f) ==
  IF f \in {"processing", "accepting", "reloading", "beating"} THEN "thread"
  ELSE IF f \in {"starting", "loop", "stopping"} THEN "main" ELSE "handler"

\* Every function of the daemon gives back what it takes, and takes locks in order.
LEMMA CodeHolds ==
  \A f \in DOMAIN Code : Bracketed(Code[f], KindOf(f))
<1>1. \A kind \in Kinds : \A s, t :
        Bracketed(s, kind) /\ Bracketed(t, kind) => Bracketed(s \o t, kind)
  BY Joined
<1>2. \A kind \in Kinds : \A l \in Locks \ {"mutex"} : Bracketed(Region(l), kind)
  BY RegionHolds
<1>3. \A kind \in Kinds : Bracketed(Sync, kind)
  BY <1>1, <1>2, MetricsHolds DEF Sync, Locks
<1>4. \A kind \in Kinds : Bracketed(Beat, kind)
  BY <1>1, <1>2 DEF Beat, Locks
<1>5. Bracketed(Region("mutex"), "thread")
  BY RegionHolds DEF Kinds, Locks
<1>6. /\ \A kind \in Kinds : Bracketed(<<Nap>>, kind) /\ Bracketed(<<Return>>, kind)
      /\ Bracketed(<<Branch>>, "main")
  <2>1. Nap # Branch /\ Return # Branch
    BY DEF Nap, Return, Branch
  <2>2. \A kind \in Kinds : Bracketed(<<Nap>>, kind)
    BY <2>1, PauseHolds
  <2>3. \A kind \in Kinds : Bracketed(<<Return>>, kind)
    BY <2>1, PauseHolds
  <2>4. "main" \in Kinds /\ "main" # "handler"
    BY DEF Kinds
  <2>5. Bracketed(<<Branch>>, "main")
    BY <2>4, PauseHolds
  <2> QED
    BY <2>2, <2>3, <2>5
<1>7. \A kind \in Kinds : Bracketed(<<Take("event"), Set, Give("event"), Nap>>, kind)
  <2>1. Take("event") \in Ops /\ Set \in Ops /\ Give("event") \in Ops /\ Nap \in Ops
    BY DEF Ops, Take, Set, Give, Nap, Locks
  <2>2. <<Take("event"), Set, Give("event"), Nap>>
          = <<Take("event"), Set, Give("event")>> \o <<Nap>>
    BY <2>1
  <2> TAKE kind \in Kinds
  <2>3. Bracketed(<<Take("event"), Set, Give("event")>>, kind) /\ Bracketed(<<Nap>>, kind)
    BY <1>6, SettingHolds
  <2>4. Bracketed(<<Take("event"), Set, Give("event")>> \o <<Nap>>, kind)
    BY <2>3, Joined
  <2> QED
    BY <2>2, <2>4, Zenon
<1>8. Bracketed(RequestShutdown, "handler")
  BY <1>1, <1>2, <1>6, SettingHolds DEF RequestShutdown, Locks, Kinds
<1>9. Bracketed(Starting, "main")
  BY <1>1, <1>2, <1>4 DEF Starting, Locks, Kinds
<1>10. Bracketed(MainLoop, "main")
  BY <1>1, <1>2, <1>3, <1>6 DEF MainLoop, Locks, Kinds
<1>11. Bracketed(Stopping, "main")
  BY <1>1, <1>2, <1>3, <1>6, <1>7 DEF Stopping, Locks, Kinds
<1>12. Bracketed(Processing, "thread")
  BY <1>1, <1>2, <1>3, <1>5 DEF Processing, Locks, Kinds
<1>13. Bracketed(Accepting, "thread")
  BY <1>1, <1>2, <1>5, MetricsHolds DEF Accepting, Metrics, Locks, Kinds
<1>14. Bracketed(HandleSighup, "handler") /\ Bracketed(Reloading, "thread")
  BY <1>1, <1>2 DEF HandleSighup, Reloading, Locks, Kinds
<1>15. Bracketed(HandleSigterm, "handler")
  BY <1>1, <1>2, <1>8 DEF HandleSigterm, Locks, Kinds
<1>16. Bracketed(Beating, "thread")
  BY <1>1, <1>2, <1>4, <1>6 DEF Beating, Locks, Kinds
<1> QED
  BY <1>8, <1>9, <1>10, <1>11, <1>12, <1>13, <1>14, <1>15, <1>16 DEF Code, KindOf

-----------------------------------------------------------------------------
(* What calls and threads hold.                                            *)

\* What each function holds before each of its steps.
Held == [f \in DOMAIN Code |-> CHOOSE h : Holds(Code[f], h, KindOf(f))]

\* The calls on a thread's stack, each somewhere in its function or at its end.
Frames == {r \in [code : DOMAIN Code, at : Nat] : r.at <= Len(Code[r.code]) + 1 /\ r.at # 0}

\* What a call holds where it is.
HeldBy(frame) == Held[frame.code][frame.at]

\* The calls of a stack hold the locks of a set between them, each lock one call.
Owns(calls, locks) ==
  /\ \A l \in Locks : l \in locks <=> \E i \in 1..Len(calls) : l \in HeldBy(calls[i])
  /\ \A i, j \in 1..Len(calls) : i # j => HeldBy(calls[i]) \cap HeldBy(calls[j]) = {}

\* A call's next step, and what it holds before and after it.
LEMMA FrameSteps ==
  ASSUME NEW frame \in Frames
  PROVE  /\ HeldBy(frame) \subseteq Locks
         /\ frame.at = 1 => HeldBy(frame) = {}
         /\ ~(frame.at <= Len(Code[frame.code])) => HeldBy(frame) = {}
         /\ frame.at <= Len(Code[frame.code]) =>
              LET next == [frame EXCEPT !.at = @ + 1]
              IN  /\ next \in Frames
                  /\ Code[frame.code][frame.at] \in Ops
                  /\ Rule(Code[frame.code][frame.at], HeldBy(frame), HeldBy(next),
                          KindOf(frame.code))
<1> DEFINE f == frame.code
           h == Held[f]
           n == frame.at
<1>1. f \in DOMAIN Code /\ n \in Nat /\ n # 0 /\ n <= Len(Code[f]) + 1
  BY DEF Frames
<1>2. Code[f] \in Seq(Ops) /\ \E k : Holds(Code[f], k, KindOf(f))
  BY <1>1, CodeHolds DEF Bracketed
<1>3. Holds(Code[f], CHOOSE k : Holds(Code[f], k, KindOf(f)), KindOf(f))
  BY <1>2
<1>4. Holds(Code[f], h, KindOf(f))
  BY <1>1, <1>3 DEF Held
<1>5. Len(Code[f]) \in Nat
  BY <1>2
<1>6. frame = [code |-> f, at |-> n]
  BY DEF Frames
<1>7. HeldBy(frame) = h[n]
  BY DEF HeldBy
<1> HIDE DEF f, h, n
<1>8. h[n] \subseteq Locks /\ (n = 1 => h[n] = {}) /\ (~(n <= Len(Code[f])) => h[n] = {})
  <2>1. n \in 1..(Len(Code[f]) + 1) /\ (~(n <= Len(Code[f])) => n = Len(Code[f]) + 1)
    BY <1>1, <1>5
  <2> QED
    BY <1>4, <2>1 DEF Holds
<1>9. ASSUME n <= Len(Code[f])
      PROVE  /\ [frame EXCEPT !.at = @ + 1] \in Frames
             /\ Code[f][n] \in Ops
             /\ Rule(Code[f][n], h[n], HeldBy([frame EXCEPT !.at = @ + 1]), KindOf(f))
  <2>1. [frame EXCEPT !.at = @ + 1] = [code |-> f, at |-> n + 1]
    BY <1>6
  <2>2. n \in 1..Len(Code[f])
    BY <1>1, <1>5, <1>9
  <2>3. [code |-> f, at |-> n + 1] \in Frames
    BY <1>1, <1>5, <1>9 DEF Frames
  <2>4. HeldBy([code |-> f, at |-> n + 1]) = h[n + 1]
    BY DEF HeldBy, h
  <2>5. Rule(Code[f][n], h[n], h[n + 1], KindOf(f))
    BY <1>4, <2>2 DEF Holds
  <2>6. Code[f][n] \in Ops
    BY <1>2, <2>2
  <2> QED
    BY <2>1, <2>3, <2>4, <2>5, <2>6, Zenon
<1> QED
  BY <1>7, <1>8, <1>9, Zenon DEF f, n

\* A function begins with no lock.
LEMMA Entered ==
  ASSUME NEW f \in DOMAIN Code
  PROVE  Enter(f) \in Frames /\ HeldBy(Enter(f)) = {} /\ Enter(f).code = f
<1>1. Code[f] \in Seq(Ops)
  BY CodeHolds DEF Bracketed
<1>2. Len(Code[f]) \in Nat
  BY <1>1
<1>3. Enter(f) \in Frames /\ Enter(f).at = 1 /\ Enter(f).code = f
  BY <1>2 DEF Enter, Frames
<1> QED
  BY <1>3, FrameSteps

\* The calls under the innermost one.
LEMMA UnderTop ==
  ASSUME NEW s \in Seq(Frames), s # <<>>, NEW locks \in SUBSET Locks, Owns(s, locks)
  PROVE  /\ SubSeq(s, 1, Len(s) - 1) \in Seq(Frames)
         /\ Len(SubSeq(s, 1, Len(s) - 1)) = Len(s) - 1
         /\ \A i \in 1..(Len(s) - 1) : SubSeq(s, 1, Len(s) - 1)[i] = s[i]
         /\ s[Len(s)] \in Frames
         /\ HeldBy(s[Len(s)]) \subseteq locks
         /\ Owns(SubSeq(s, 1, Len(s) - 1), locks \ HeldBy(s[Len(s)]))
<1> DEFINE u == SubSeq(s, 1, Len(s) - 1)
           n == Len(s)
           top == s[n]
<1>1. n \in Nat /\ n # 0
  OBVIOUS
<1>2. n \in 1..n /\ top \in Frames /\ 1..(n - 1) \subseteq 1..n
  BY <1>1
<1>3. \A i \in 1..(n - 1) : s[i] \in Frames
  BY <1>1
<1>4. u \in Seq(Frames) /\ Len(u) = n - 1
  <2>1. u \in Seq(Frames) /\ Len(u) = IF 1 <= n - 1 THEN (n - 1) - 1 + 1 ELSE 0
    BY <1>1, <1>3, SubSeqProperties
  <2>2. PICK m \in Nat : m = n /\ m # 0
    BY <1>1
  <2>3. (IF 1 <= m - 1 THEN (m - 1) - 1 + 1 ELSE 0) = m - 1
    BY <2>2
  <2> HIDE DEF u, n
  <2> QED
    BY <2>1, <2>2, <2>3
<1>5. \A i \in 1..(n - 1) : u[i] = s[i]
  <2>1. (n - 1) - 1 + 1 = n - 1 /\ \A i \in 1..(n - 1) : 1 + i - 1 = i
    BY <1>1
  <2>2. \A i \in 1..((n - 1) - 1 + 1) : u[i] = s[1 + i - 1]
    BY <1>1, <1>3, SubSeqProperties
  <2> QED
    BY <2>1, <2>2
<1>6. HeldBy(top) \subseteq Locks
  BY <1>2, FrameSteps
<1>7. HeldBy(top) \subseteq locks
  BY <1>2, <1>6 DEF Owns
<1> HIDE DEF u, n, top
<1>8. \A l \in Locks : l \in locks <=> \E i \in 1..n : l \in HeldBy(s[i])
  BY DEF Owns, n
<1>9. \A i, j \in 1..n : i # j => HeldBy(s[i]) \cap HeldBy(s[j]) = {}
  BY DEF Owns, n
<1>10. \A i \in 1..n : i = n \/ i \in 1..(n - 1)
  BY <1>1
<1>11. \A i \in 1..(n - 1) : i # n
  BY <1>1
<1>12. ASSUME NEW l \in Locks
       PROVE  l \in locks \ HeldBy(top) <=> \E i \in 1..(n - 1) : l \in HeldBy(u[i])
  <2>1. ASSUME l \in locks, l \notin HeldBy(top)
        PROVE  \E i \in 1..(n - 1) : l \in HeldBy(u[i])
    BY <1>5, <1>8, <1>10, <2>1 DEF top
  <2>2. ASSUME NEW i \in 1..(n - 1), l \in HeldBy(u[i])
        PROVE  l \in locks /\ l \notin HeldBy(top)
    <3>1. l \in HeldBy(s[i]) /\ i \in 1..n /\ n \in 1..n /\ i # n
      BY <1>2, <1>5, <1>11, <2>2
    <3> QED
      BY <1>8, <1>9, <3>1 DEF top
  <2> QED
    BY <2>1, <2>2
<1>13. \A i, j \in 1..(n - 1) : i # j => HeldBy(u[i]) \cap HeldBy(u[j]) = {}
  BY <1>2, <1>5, <1>9
<1>14. Owns(u, locks \ HeldBy(top))
  BY <1>4, <1>12, <1>13 DEF Owns
<1> QED
  BY <1>2, <1>4, <1>5, <1>7, <1>14 DEF u, n, top

\* One more call, holding locks that no other call holds.
LEMMA OnTop ==
  ASSUME NEW s \in Seq(Frames), NEW locks \in SUBSET Locks, Owns(s, locks),
         NEW frame \in Frames, HeldBy(frame) \cap locks = {}
  PROVE  /\ Append(s, frame) \in Seq(Frames)
         /\ Len(Append(s, frame)) = Len(s) + 1
         /\ \A i \in 1..Len(s) : Append(s, frame)[i] = s[i]
         /\ Append(s, frame)[Len(s) + 1] = frame
         /\ Owns(Append(s, frame), locks \cup HeldBy(frame))
<1> DEFINE u == Append(s, frame)
           n == Len(s)
<1>1. n \in Nat
  OBVIOUS
<1>2. u \in Seq(Frames) /\ Len(u) = n + 1 /\ (\A i \in 1..n : u[i] = s[i]) /\ u[n + 1] = frame
  OBVIOUS
<1>3. \A i \in 1..(n + 1) : i = n + 1 \/ i \in 1..n
  BY <1>1
<1>4. n + 1 \in 1..(n + 1) /\ 1..n \subseteq 1..(n + 1) /\ n + 1 \notin 1..n
  BY <1>1
<1>5. HeldBy(frame) \subseteq Locks
  BY FrameSteps
<1> HIDE DEF u, n
<1>6. \A l \in Locks : l \in locks <=> \E i \in 1..n : l \in HeldBy(s[i])
  BY DEF Owns, n
<1>7. \A i, j \in 1..n : i # j => HeldBy(s[i]) \cap HeldBy(s[j]) = {}
  BY DEF Owns, n
<1>8. \A i \in 1..n : HeldBy(u[i]) = HeldBy(s[i])
  BY <1>2
<1>9. HeldBy(u[n + 1]) = HeldBy(frame)
  BY <1>2
<1>10. \A l \in Locks :
          l \in locks \cup HeldBy(frame) <=> \E i \in 1..(n + 1) : l \in HeldBy(u[i])
  <2> TAKE l \in Locks
  <2>1. (\E i \in 1..(n + 1) : l \in HeldBy(u[i]))
          <=> (l \in HeldBy(u[n + 1]) \/ \E i \in 1..n : l \in HeldBy(u[i]))
    BY <1>3, <1>4
  <2> QED
    BY <1>6, <1>8, <1>9, <2>1
<1>11. \A i, j \in 1..(n + 1) : i # j => HeldBy(u[i]) \cap HeldBy(u[j]) = {}
  <2>1. \A i \in 1..n : HeldBy(s[i]) \cap HeldBy(frame) = {}
    <3> SUFFICES ASSUME NEW i \in 1..n, NEW l, l \in HeldBy(s[i]), l \in HeldBy(frame) PROVE FALSE
      OBVIOUS
    <3> QED
      BY <1>5, <1>6
  <2> TAKE i, j \in 1..(n + 1)
  <2> HAVE i # j
  <2>2. CASE i \in 1..n /\ j \in 1..n
    BY <1>7, <1>8, <2>2
  <2>3. CASE i = n + 1 /\ j \in 1..n
    BY <1>8, <1>9, <2>1, <2>3
  <2>4. CASE i \in 1..n /\ j = n + 1
    BY <1>8, <1>9, <2>1, <2>4
  <2> QED
    BY <1>3, <2>2, <2>3, <2>4
<1>12. Owns(u, locks \cup HeldBy(frame))
  BY <1>2, <1>10, <1>11 DEF Owns
<1> QED
  BY <1>2, <1>12 DEF u, n

-----------------------------------------------------------------------------
(* The invariant: who owns a lock is a thread with one call that holds it.  *)

Owned(holders, t) == {l \in Locks : holders[l] = t}

\* How deep a stack gets: only signals put calls on top of another.
Depth(t, n) == IF t = "main" THEN 1 + n ELSE 1

\* On the main thread, handlers run on top of its own function.
Layer(i) == IF i = 1 THEN "main" ELSE "handler"

\* A thread's calls, after n signals, when it owns these locks.
Fits(t, calls, n, locks) ==
  /\ calls \in Seq(Frames)
  /\ Len(calls) <= Depth(t, n)
  /\ t = "main" => \A i \in 1..Len(calls) : KindOf(calls[i].code) = Layer(i)
  /\ Owns(calls, locks)

LockInv ==
  /\ stack \in [Threads -> Seq(Frames)]
  /\ owner \in [Locks -> Threads \cup {Nobody}]
  /\ shutdown \in BOOLEAN /\ asked \in BOOLEAN
  /\ signals \in 0..MaxSignals
  /\ \A t \in Threads : Fits(t, stack[t], signals, Owned(owner, t))

\* The innermost call returns.
LEMMA Popped ==
  ASSUME NEW t, NEW s, s # <<>>, NEW n \in Nat, NEW locks \in SUBSET Locks, Fits(t, s, n, locks)
  PROVE  /\ s[Len(s)] \in Frames
         /\ HeldBy(s[Len(s)]) \subseteq locks
         /\ t = "main" => KindOf(s[Len(s)].code) = Layer(Len(s))
         /\ Len(SubSeq(s, 1, Len(s) - 1)) + 1 = Len(s)
         /\ Len(SubSeq(s, 1, Len(s) - 1)) + 1 <= Depth(t, n)
         /\ Fits(t, SubSeq(s, 1, Len(s) - 1), n, locks \ HeldBy(s[Len(s)]))
<1> DEFINE u == SubSeq(s, 1, Len(s) - 1)
           k == Len(s)
           top == s[k]
<1>1. /\ s \in Seq(Frames) /\ Len(s) <= Depth(t, n) /\ Owns(s, locks)
      /\ t = "main" => \A i \in 1..Len(s) : KindOf(s[i].code) = Layer(i)
  BY DEF Fits
<1>2. k \in Nat /\ k # 0
  BY <1>1
<1>3. /\ u \in Seq(Frames) /\ Len(u) = k - 1
      /\ \A i \in 1..(k - 1) : u[i] = s[i]
      /\ top \in Frames /\ HeldBy(top) \subseteq locks /\ Owns(u, locks \ HeldBy(top))
  BY <1>1, UnderTop
<1> HIDE DEF u, top
<1>4. Depth(t, n) \in Nat
  BY DEF Depth
<1>5. k <= Depth(t, n) /\ (t = "main" => \A i \in 1..k : KindOf(s[i].code) = Layer(i))
  BY <1>1
<1> HIDE DEF k
<1>6. /\ k \in 1..k /\ 1..(k - 1) \subseteq 1..k
      /\ k - 1 <= Depth(t, n) /\ (k - 1) + 1 <= Depth(t, n)
      /\ (k - 1) + 1 = k
  BY <1>2, <1>4, <1>5
<1>7. Fits(t, u, n, locks \ HeldBy(top))
  BY <1>3, <1>5, <1>6 DEF Fits
<1> QED
  BY <1>3, <1>5, <1>6, <1>7 DEF u, k, top

\* A call on top of the others.
LEMMA Pushed ==
  ASSUME NEW t, NEW s, NEW n \in Nat, NEW locks \in SUBSET Locks, Fits(t, s, n, locks),
         NEW frame \in Frames, HeldBy(frame) \cap locks = {}, Len(s) + 1 <= Depth(t, n),
         t = "main" => KindOf(frame.code) = Layer(Len(s) + 1)
  PROVE  Fits(t, Append(s, frame), n, locks \cup HeldBy(frame))
<1> DEFINE u == Append(s, frame)
           k == Len(s)
<1>1. /\ s \in Seq(Frames) /\ Owns(s, locks)
      /\ t = "main" => \A i \in 1..k : KindOf(s[i].code) = Layer(i)
  BY DEF Fits
<1>2. k \in Nat
  BY <1>1
<1>3. /\ u \in Seq(Frames) /\ Len(u) = k + 1
      /\ \A i \in 1..k : u[i] = s[i]
      /\ u[k + 1] = frame
      /\ Owns(u, locks \cup HeldBy(frame))
  BY <1>1, OnTop
<1> HIDE DEF u, k
<1>4. \A i \in 1..(k + 1) : i \in 1..k \/ i = k + 1
  BY <1>2
<1>5. Len(u) <= Depth(t, n)
  BY <1>3 DEF k
<1>6. t = "main" => KindOf(frame.code) = Layer(k + 1)
  BY DEF k
<1>7. Fits(t, u, n, locks \cup HeldBy(frame))
  BY <1>1, <1>3, <1>4, <1>5, <1>6 DEF Fits
<1> QED
  BY <1>7 DEF u

\* The innermost call goes on, or another takes its place.
LEMMA Replaced ==
  ASSUME NEW t, NEW s, s # <<>>, NEW n \in Nat, NEW locks \in SUBSET Locks, Fits(t, s, n, locks),
         NEW frame \in Frames, HeldBy(frame) \cap (locks \ HeldBy(s[Len(s)])) = {},
         t = "main" => KindOf(frame.code) = KindOf(s[Len(s)].code)
  PROVE  Fits(t, Append(SubSeq(s, 1, Len(s) - 1), frame), n,
              (locks \ HeldBy(s[Len(s)])) \cup HeldBy(frame))
<1> DEFINE left == locks \ HeldBy(s[Len(s)])
           u == SubSeq(s, 1, Len(s) - 1)
<1>1. /\ Len(u) + 1 <= Depth(t, n) /\ Fits(t, u, n, left)
      /\ Len(u) + 1 = Len(s) /\ (t = "main" => KindOf(s[Len(s)].code) = Layer(Len(s)))
  BY Popped
<1>2. left \in SUBSET Locks /\ HeldBy(frame) \cap left = {}
  OBVIOUS
<1> HIDE DEF left, u
<1>3. Fits(t, Append(u, frame), n, left \cup HeldBy(frame))
  BY <1>1, <1>2, Pushed
<1> QED
  BY <1>3 DEF left, u

\* No calls, and one that begins.
LEMMA FewCalls ==
  ASSUME NEW t \in Threads, NEW n \in Nat
  PROVE  /\ Fits(t, <<>>, n, {})
         /\ \A f \in DOMAIN Code :
              (t = "main" => KindOf(f) = "main") => Fits(t, <<Enter(f)>>, n, {})
<1>1. Fits(t, <<>>, n, {})
  BY DEF Fits, Depth, Owns
<1>2. ASSUME NEW f \in DOMAIN Code, t = "main" => KindOf(f) = "main"
      PROVE  Fits(t, <<Enter(f)>>, n, {})
  <2>1. PICK frame \in Frames : frame = Enter(f) /\ HeldBy(frame) = {} /\ frame.code = f
    BY Entered
  <2>2. /\ <<>> \in Seq(Frames) /\ Len(<<>>) + 1 <= Depth(t, n) /\ <<frame>> = Append(<<>>, frame)
        /\ Layer(Len(<<>>) + 1) = "main"
    BY DEF Depth, Layer
  <2>3. Fits(t, Append(<<>>, frame), n, {} \cup HeldBy(frame))
    BY <1>1, <1>2, <2>1, <2>2, Pushed
  <2>4. {} \cup HeldBy(frame) = {}
    BY <2>1
  <2>5. Fits(t, <<frame>>, n, {})
    BY <2>2, <2>3, <2>4, Zenon
  <2> QED
    BY <2>1, <2>5, Zenon
<1> QED
  BY <1>1, <1>2

-----------------------------------------------------------------------------
(* The invariant is kept.                                                  *)

LEMMA LockInitially ==
  Init => LockInv
<1> SUFFICES ASSUME Init PROVE LockInv
  OBVIOUS
<1> USE DEF Init
<1>1. 0 \in 0..MaxSignals /\ 0 \in Nat
  BY SignalsAssumption
<1>2. ASSUME NEW t \in Threads
      PROVE  Owned(owner, t) = {}
  BY ThreadsAssumption DEF Owned
<1>3. ASSUME NEW t \in Threads
      PROVE  Fits(t, stack[t], signals, Owned(owner, t))
  <2>1. {"starting", "processing", "beating"} \subseteq DOMAIN Code
    BY DEF Code
  <2>2. t = "main" => KindOf("starting") = "main"
    BY DEF KindOf
  <2>3. CASE t = "main"
    <3>1. stack[t] = <<Enter("starting")>>
      BY <2>3
    <3> QED
      BY <1>1, <1>2, <2>1, <2>2, <3>1, FewCalls
  <2>4. CASE t # "main"
    <3>1. \/ stack[t] = <<Enter("processing")>>
          \/ stack[t] = <<Enter("beating")>>
          \/ stack[t] = <<>>
      BY <2>4
    <3> QED
      BY <1>1, <1>2, <2>1, <2>4, <3>1, FewCalls
  <2> QED
    BY <2>3, <2>4
<1>4. stack \in [Threads -> Seq(Frames)]
  <2>1. \A t \in Threads : stack[t] \in Seq(Frames)
    BY <1>3 DEF Fits
  <2>2. stack = [t \in Threads |-> stack[t]]
    OBVIOUS
  <2> QED
    BY <2>1, <2>2
<1> QED
  BY <1>1, <1>3, <1>4, Zenon DEF LockInv, Locks

\* A step of one thread, which leaves every other thread its locks.
LEMMA OneThread ==
  ASSUME LockInv, NEW t \in Threads, NEW calls, Moves(t, calls),
         NEW n \in 0..MaxSignals, signals' = n, signals <= n,
         Fits(t, calls, n, Owned(owner', t)),
         owner' \in [Locks -> Threads \cup {Nobody}],
         \A u \in Threads \ {t} : Owned(owner', u) = Owned(owner, u),
         shutdown' \in BOOLEAN, asked' \in BOOLEAN
  PROVE  LockInv'
<1>1. stack' = [stack EXCEPT ![t] = calls] /\ stack \in [Threads -> Seq(Frames)]
  BY DEF Moves, LockInv
<1>2. stack' \in [Threads -> Seq(Frames)]
  BY <1>1 DEF Fits
<1>3. ASSUME NEW u \in Threads
      PROVE  Fits(u, stack'[u], n, Owned(owner', u))
  <2>1. CASE u = t
    BY <1>1, <2>1
  <2>2. CASE u # t
    <3>1. stack'[u] = stack[u] /\ Owned(owner', u) = Owned(owner, u)
      BY <1>1, <2>2
    <3>2. Fits(u, stack[u], signals, Owned(owner, u)) /\ signals \in Nat
      BY SignalsAssumption DEF LockInv
    <3>3. Depth(u, signals) <= Depth(u, n) /\ Depth(u, signals) \in Nat /\ Depth(u, n) \in Nat
      BY <3>2, SignalsAssumption DEF Depth
    <3>4. PICK m \in Nat : m = Len(stack[u])
      BY <1>1
    <3>5. m <= Depth(u, n)
      BY <3>2, <3>3, <3>4 DEF Fits
    <3>6. Fits(u, stack[u], n, Owned(owner, u))
      BY <3>2, <3>4, <3>5 DEF Fits
    <3> QED
      BY <3>1, <3>6
  <2> QED
    BY <2>1, <2>2
<1> QED
  BY <1>2, <1>3 DEF LockInv

\* A thread that is in a function: what it does next, and what it holds then.
LEMMA AboutBusy ==
  ASSUME LockInv, NEW t \in Threads, stack[t] # <<>>
  PROVE  /\ Top(t) \in Frames /\ signals \in Nat
         /\ Fits(t, stack[t], signals, Owned(owner, t))
         /\ HeldBy(Top(t)) \subseteq Owned(owner, t)
         /\ t = "main" => KindOf(Top(t).code) = Layer(Len(stack[t]))
         /\ Fits(t, Rest(t), signals, Owned(owner, t) \ HeldBy(Top(t)))
<1>1. Fits(t, stack[t], signals, Owned(owner, t)) /\ signals \in Nat
  BY SignalsAssumption DEF LockInv
<1>2. Owned(owner, t) \in SUBSET Locks
  BY DEF Owned
<1> QED
  BY <1>1, <1>2, Popped DEF Top, Rest

\* The innermost call goes on and holds the locks that the thread has gained.
LEMMA GoesOn ==
  ASSUME LockInv, NEW t \in Threads, Busy(t),
         NEW locks \in SUBSET Locks,
         locks = (Owned(owner, t) \ HeldBy(Top(t))) \cup HeldBy([Top(t) EXCEPT !.at = @ + 1]),
         HeldBy([Top(t) EXCEPT !.at = @ + 1]) \cap (Owned(owner, t) \ HeldBy(Top(t))) = {}
  PROVE  Fits(t, Advanced(t), signals, locks)
<1> DEFINE top == Top(t)
           next == [top EXCEPT !.at = @ + 1]
<1>1. stack[t] # <<>> /\ top.at <= Len(Code[top.code])
  BY DEF Busy
<1>2. top \in Frames /\ signals \in Nat /\ Fits(t, stack[t], signals, Owned(owner, t))
  BY <1>1, AboutBusy
<1>3. next \in Frames
  BY <1>1, <1>2, FrameSteps
<1>4. next.code = stack[t][Len(stack[t])].code
  BY <1>2 DEF Frames, Top
<1>5. Owned(owner, t) \in SUBSET Locks
  BY DEF Owned
<1> HIDE DEF top, next
<1>6. HeldBy(next) \cap (Owned(owner, t) \ HeldBy(stack[t][Len(stack[t])])) = {}
  BY DEF next, top, Top
<1>7. Fits(t, Append(SubSeq(stack[t], 1, Len(stack[t]) - 1), next), signals,
           (Owned(owner, t) \ HeldBy(stack[t][Len(stack[t])])) \cup HeldBy(next))
  BY <1>1, <1>2, <1>3, <1>4, <1>5, <1>6, Replaced
<1>8. locks = (Owned(owner, t) \ HeldBy(stack[t][Len(stack[t])])) \cup HeldBy(next)
  BY DEF next, top, Top
<1>9. Advanced(t) = Append(SubSeq(stack[t], 1, Len(stack[t]) - 1), next)
  BY DEF Advanced, Rest, next, top
<1> QED
  BY <1>7, <1>8, <1>9, Zenon

\* A step that leaves the owners alone.
LEMMA SameOwners ==
  ASSUME LockInv, NEW t \in Threads, NEW calls, Moves(t, calls), owner' = owner,
         NEW n \in 0..MaxSignals, signals' = n, signals <= n,
         Fits(t, calls, n, Owned(owner, t)),
         shutdown' \in BOOLEAN, asked' \in BOOLEAN
  PROVE  LockInv'
<1>1. owner' \in [Locks -> Threads \cup {Nobody}]
  BY DEF LockInv
<1>2. Fits(t, calls, n, Owned(owner', t)) /\ \A u \in Threads : Owned(owner', u) = Owned(owner, u)
  BY Zenon
<1> QED
  BY <1>1, <1>2, OneThread

\* What a thread in a function does keeps the invariant.
LEMMA BusyStep ==
  ASSUME LockInv, NEW t \in Threads, Busy(t),
         \/ TakeLock(t) \/ GiveLock(t) \/ WakeUp(t) \/ SetShutdown(t) \/ LookAtShutdown(t),
         UNCHANGED <<signals, asked>>
  PROVE  LockInv'
<1> DEFINE top == Top(t)
           next == [top EXCEPT !.at = @ + 1]
           op == Doing(t)
           mine == Owned(owner, t)
<1>1. /\ top \in Frames /\ signals \in Nat /\ HeldBy(top) \subseteq mine
      /\ t = "main" => KindOf(top.code) = Layer(Len(stack[t]))
      /\ Fits(t, stack[t], signals, mine)
      /\ Fits(t, Rest(t), signals, mine \ HeldBy(top))
      /\ stack[t] # <<>>
  BY AboutBusy DEF Busy
<1>2. Rule(op, HeldBy(top), HeldBy(next), KindOf(top.code)) /\ HeldBy(next) \subseteq Locks
  BY <1>1, FrameSteps DEF Busy, Doing
<1>3. /\ \A locks \in SUBSET Locks :
           /\ locks = (mine \ HeldBy(top)) \cup HeldBy(next)
           /\ HeldBy(next) \cap (mine \ HeldBy(top)) = {}
           => Fits(t, Advanced(t), signals, locks)
  BY GoesOn
<1>4. /\ signals \in 0..MaxSignals /\ signals' = signals /\ signals <= signals
      /\ asked' \in BOOLEAN /\ shutdown \in BOOLEAN
      /\ owner \in [Locks -> Threads \cup {Nobody}]
      /\ mine \in SUBSET Locks
  BY <1>1 DEF LockInv, Owned
<1>5. \A l \in Locks : l \in mine <=> owner[l] = t
  BY DEF Owned
<1>6. t # Nobody /\ Nobody \notin Threads
  BY ThreadsAssumption
<1> HIDE DEF top, next, op, mine
<1>7. CASE TakeLock(t)
  <2>1. /\ op[1] = "take" /\ owner[op[2]] = Nobody /\ owner' = [owner EXCEPT ![op[2]] = t]
        /\ Moves(t, Advanced(t)) /\ shutdown' = shutdown
    BY <1>7 DEF TakeLock, op
  <2>2. op[2] \in Locks /\ HeldBy(next) = HeldBy(top) \cup {op[2]}
    BY <1>2, <2>1 DEF Rule
  <2>3. op[2] \notin mine
    BY <1>5, <1>6, <2>1, <2>2
  <2>4. owner' \in [Locks -> Threads \cup {Nobody}]
    BY <1>4, <2>1
  <2>5. Owned(owner', t) = mine \cup {op[2]}
    BY <1>4, <2>1, <2>2 DEF Owned, mine
  <2>6. \A u \in Threads \ {t} : Owned(owner', u) = Owned(owner, u)
    BY <1>4, <1>6, <2>1, <2>2 DEF Owned
  <2>7. /\ mine \cup {op[2]} = (mine \ HeldBy(top)) \cup HeldBy(next)
        /\ HeldBy(next) \cap (mine \ HeldBy(top)) = {}
        /\ mine \cup {op[2]} \in SUBSET Locks
    BY <1>1, <1>4, <2>2, <2>3
  <2>8. Fits(t, Advanced(t), signals, Owned(owner', t))
    BY <1>3, <2>5, <2>7
  <2> QED
    BY <1>4, <2>1, <2>4, <2>6, <2>8, OneThread
<1>8. CASE GiveLock(t)
  <2>1. /\ op[1] = "give" /\ owner' = [owner EXCEPT ![op[2]] = Nobody]
        /\ Moves(t, Advanced(t)) /\ shutdown' = shutdown
    BY <1>8 DEF GiveLock, op
  <2>2. op[2] \in HeldBy(top) /\ HeldBy(next) = HeldBy(top) \ {op[2]}
    BY <1>2, <2>1 DEF Rule
  <2>3. op[2] \in mine /\ op[2] \in Locks /\ owner[op[2]] = t
    BY <1>1, <1>4, <1>5, <2>2
  <2>4. owner' \in [Locks -> Threads \cup {Nobody}]
    BY <1>4, <2>1
  <2>5. Owned(owner', t) = mine \ {op[2]}
    BY <1>4, <1>6, <2>1, <2>3 DEF Owned, mine
  <2>6. \A u \in Threads \ {t} : Owned(owner', u) = Owned(owner, u)
    BY <1>4, <1>6, <2>1, <2>3 DEF Owned
  <2>7. /\ mine \ {op[2]} = (mine \ HeldBy(top)) \cup HeldBy(next)
        /\ HeldBy(next) \cap (mine \ HeldBy(top)) = {}
        /\ mine \ {op[2]} \in SUBSET Locks
    BY <1>1, <1>4, <2>2
  <2>8. Fits(t, Advanced(t), signals, Owned(owner', t))
    BY <1>3, <2>5, <2>7
  <2> QED
    BY <1>4, <2>1, <2>4, <2>6, <2>8, OneThread
<1>9. op[1] \notin {"take", "give"} => Fits(t, Advanced(t), signals, mine)
  <2> HAVE op[1] \notin {"take", "give"}
  <2>1. HeldBy(next) = HeldBy(top)
    BY <1>2 DEF Rule
  <2>2. /\ mine = (mine \ HeldBy(top)) \cup HeldBy(next)
        /\ HeldBy(next) \cap (mine \ HeldBy(top)) = {}
    BY <1>1, <2>1
  <2> QED
    BY <1>3, <1>4, <2>2
<1>10. CASE WakeUp(t) \/ SetShutdown(t)
  <2>1. /\ op[1] \notin {"take", "give"} /\ Moves(t, Advanced(t)) /\ owner' = owner
        /\ shutdown' \in BOOLEAN
    BY <1>4, <1>10 DEF WakeUp, SetShutdown, op
  <2> QED
    BY <1>4, <1>9, <2>1, SameOwners DEF mine
<1>11. CASE LookAtShutdown(t)
  <2>1. op[1] \in {"return", "branch"} /\ owner' = owner /\ shutdown' \in BOOLEAN
    BY <1>4, <1>11 DEF LookAtShutdown, op
  <2>2. HeldBy(top) = {}
    BY <1>2, <2>1 DEF Rule
  <2>3. CASE Moves(t, Advanced(t))
    BY <1>4, <1>9, <2>1, <2>3, SameOwners DEF mine
  <2>4. CASE Moves(t, Rest(t))
    <3>1. mine \ HeldBy(top) = mine
      BY <2>2
    <3>2. Fits(t, Rest(t), signals, mine)
      BY <1>1, <3>1 DEF top, mine
    <3> QED
      BY <1>4, <2>1, <2>4, <3>2, SameOwners DEF mine
  <2>5. CASE op[1] = "branch" /\ Moves(t, Append(Rest(t), Enter("stopping")))
    <3>0. KindOf(top.code) # "handler"
      BY <1>2, <2>5 DEF Rule
    <3>1. /\ "stopping" \in DOMAIN Code
          /\ t = "main" => KindOf("stopping") = KindOf(stack[t][Len(stack[t])].code)
      BY <1>1, <3>0 DEF Code, KindOf, Layer, top, Top
    <3>2. PICK first \in Frames :
            first = Enter("stopping") /\ HeldBy(first) = {} /\ first.code = "stopping"
      BY <3>1, Entered
    <3>3. Fits(t, Append(SubSeq(stack[t], 1, Len(stack[t]) - 1), first), signals,
               (mine \ HeldBy(stack[t][Len(stack[t])])) \cup HeldBy(first))
      BY <1>1, <1>4, <3>1, <3>2, Replaced
    <3>4. mine = (mine \ HeldBy(stack[t][Len(stack[t])])) \cup HeldBy(first)
      BY <2>2, <3>2 DEF top, Top
    <3>5. Fits(t, Append(Rest(t), Enter("stopping")), signals, mine)
      BY <3>2, <3>3, <3>4, Zenon DEF Rest
    <3> QED
      BY <1>4, <2>1, <2>5, <3>5, SameOwners DEF mine
  <2> QED
    BY <1>11, <2>1, <2>3, <2>4, <2>5 DEF LookAtShutdown, op
<1> QED
  BY <1>7, <1>8, <1>10, <1>11

\* Nothing is held at the end of a function, so that it may begin anew or return.
LEMMA FinishStep ==
  ASSUME LockInv, NEW t \in Threads, Finish(t), UNCHANGED <<signals, asked>>
  PROVE  LockInv'
<1> DEFINE top == Top(t)
           mine == Owned(owner, t)
<1>1. stack[t] # <<>> /\ ~(top.at <= Len(Code[top.code])) /\ owner' = owner /\ shutdown' = shutdown
  BY DEF Finish, Busy
<1>2. /\ top \in Frames /\ signals \in Nat /\ HeldBy(top) \subseteq mine
      /\ t = "main" => KindOf(top.code) = Layer(Len(stack[t]))
      /\ Fits(t, Rest(t), signals, mine \ HeldBy(top))
      /\ Fits(t, stack[t], signals, mine)
  BY <1>1, AboutBusy
<1>3. HeldBy(top) = {}
  BY <1>1, <1>2, FrameSteps
<1>4. Fits(t, Rest(t), signals, mine)
  <2>1. mine \ HeldBy(top) = mine
    BY <1>3
  <2> QED
    BY <1>2, <2>1
<1>5. /\ signals \in 0..MaxSignals /\ signals' = signals /\ signals <= signals
      /\ asked' \in BOOLEAN /\ shutdown' \in BOOLEAN
  BY <1>1, <1>2 DEF LockInv
<1>6. /\ {"starting", "loop", "processing", "beating"} \subseteq DOMAIN Code
      /\ KindOf("starting") = "main" /\ KindOf("loop") = "main"
      /\ KindOf("processing") = "thread" /\ KindOf("beating") = "thread"
  BY DEF Code, KindOf
<1>7. ASSUME top.code \in {"starting", "loop", "processing", "beating"}
      PROVE  mine = {}
  <2>1. PICK n \in Nat : n = Len(stack[t]) /\ n # 0 /\ n \in 1..n
    BY <1>1 DEF LockInv
  <2>2. n = 1
    <3>1. CASE t = "main"
      BY <1>2, <1>6, <1>7, <2>1, <3>1 DEF Layer
    <3>2. CASE t # "main"
      <4>1. Depth(t, signals) = 1 /\ Len(stack[t]) <= Depth(t, signals)
        BY <1>2, <3>2 DEF Fits, Depth
      <4>2. n <= 1
        BY <2>1, <4>1
      <4>3. \A k \in Nat : k # 0 /\ k <= 1 => k = 1
        OBVIOUS
      <4> QED
        BY <2>1, <4>2, <4>3, Zenon
    <3> QED
      BY <3>1, <3>2
  <2>3. \A i \in 1..Len(stack[t]) : HeldBy(stack[t][i]) = {}
    <3>1. \A i \in 1..Len(stack[t]) : i = Len(stack[t])
      BY <2>1, <2>2
    <3> QED
      BY <1>3, <3>1 DEF Top
  <2>4. \A l \in Locks : l \notin mine
    BY <1>2, <2>3 DEF Fits, Owns
  <2> QED
    BY <2>4 DEF Owned
<1> HIDE DEF top, mine
<1>8. CASE top.code \in {"starting", "loop"}
  <2>1. Moves(t, <<Enter("loop")>>) /\ (t = "main" => KindOf("loop") = "main")
    BY <1>6, <1>8 DEF Finish, top
  <2>2. Fits(t, <<Enter("loop")>>, signals, mine)
    BY <1>2, <1>6, <1>7, <1>8, <2>1, FewCalls
  <2> QED
    BY <1>1, <1>5, <2>1, <2>2, SameOwners DEF mine
<1>9. CASE top.code \in {"processing", "beating"}
  <2>1. Moves(t, <<Enter(top.code)>>)
    BY <1>9 DEF Finish, top
  <2>2. t # "main"
    BY <1>2, <1>6, <1>9 DEF Layer
  <2>3. Fits(t, <<Enter(top.code)>>, signals, mine)
    BY <1>2, <1>6, <1>7, <1>9, <2>2, FewCalls
  <2> QED
    BY <1>1, <1>5, <2>1, <2>3, SameOwners DEF mine
<1>10. CASE top.code \notin {"starting", "loop", "processing", "beating"}
  <2>1. Moves(t, Rest(t))
    BY <1>10 DEF Finish, top
  <2> QED
    BY <1>1, <1>4, <1>5, <2>1, SameOwners DEF mine
<1> QED
  BY <1>8, <1>9, <1>10

\* A request comes to a thread that runs nothing, and so holds nothing.
LEMMA RequestStep ==
  ASSUME LockInv, AskByIpc \/ AcceptRequest
  PROVE  LockInv'
<1>1. PICK t \in Threads \ {"main"}, f \in DOMAIN Code :
        stack[t] = <<>> /\ Moves(t, <<Enter(f)>>)
  <2>1. {"request", "accepting", "reloading"} \subseteq DOMAIN Code
    BY DEF Code
  <2> QED
    BY <2>1 DEF AskByIpc, AcceptRequest
<1>2. /\ signals \in 0..MaxSignals /\ signals' = signals /\ signals <= signals
      /\ signals \in Nat /\ owner' = owner /\ shutdown' \in BOOLEAN /\ asked' \in BOOLEAN
  <2>1. owner' = owner /\ shutdown' = shutdown /\ signals' = signals
    BY Zenon DEF AskByIpc, AcceptRequest
  <2>2. asked' = TRUE \/ asked' = asked
    BY Zenon DEF AskByIpc, AcceptRequest
  <2>3. shutdown \in BOOLEAN /\ asked \in BOOLEAN /\ signals \in 0..MaxSignals
    BY Zenon DEF LockInv
  <2>4. signals \in Nat /\ signals <= signals
    BY <2>3, SignalsAssumption
  <2> QED
    BY <2>1, <2>2, <2>3, <2>4, Zenon
<1>3. Owned(owner, t) = {}
  <2>1. Owns(<<>>, Owned(owner, t))
    BY <1>1 DEF LockInv, Fits
  <2>2. \A l \in Locks : l \notin Owned(owner, t)
    BY <2>1 DEF Owns
  <2> QED
    BY <2>2 DEF Owned
<1>4. Fits(t, <<Enter(f)>>, signals, Owned(owner, t))
  BY <1>2, <1>3, FewCalls
<1> QED
  BY <1>1, <1>2, <1>4, SameOwners

\* A signal puts a handler, which holds nothing yet, on top of what the main thread runs.
LEMMA InterruptStep ==
  ASSUME LockInv, NEW handler \in {"sigterm", "sighup"}, Interrupt(handler), ~Ended
  PROVE  LockInv'
<1> DEFINE s == stack["main"]
           mine == Owned(owner, "main")
<1>1. /\ "main" \in Threads /\ s \in Seq(Frames) /\ s # <<>>
      /\ signals \in 0..MaxSignals /\ signals \in Nat
  BY ThreadsAssumption, SignalsAssumption DEF LockInv, Interrupt, Ended
<1>2. /\ signals < MaxSignals /\ signals' = signals + 1
      /\ Moves("main", Append(s, Enter(handler))) /\ owner' = owner
      /\ shutdown' \in BOOLEAN /\ asked' \in BOOLEAN
  BY DEF Interrupt, LockInv
<1>3. signals + 1 \in 0..MaxSignals /\ signals <= signals + 1 /\ signals + 1 \in Nat
  BY <1>1, <1>2, SignalsAssumption
<1>4. handler \in DOMAIN Code /\ KindOf(handler) = "handler"
  BY DEF Code, KindOf
<1>5. PICK frame \in Frames :
        frame = Enter(handler) /\ HeldBy(frame) = {} /\ frame.code = handler
  BY <1>4, Entered
<1>6. Fits("main", s, signals, mine)
  BY <1>1 DEF LockInv
<1>7. PICK k \in Nat : k = Len(s) /\ k # 0 /\ k <= 1 + signals
  <2>1. PICK k \in Nat : k = Len(s) /\ k # 0
    BY <1>1
  <2>2. Len(s) <= Depth("main", signals) /\ Depth("main", signals) = 1 + signals
    BY <1>6 DEF Fits, Depth
  <2>3. k <= 1 + signals
    BY <2>1, <2>2, Zenon
  <2> QED
    BY <2>1, <2>3
<1>8. /\ k <= Depth("main", signals + 1) /\ k + 1 <= Depth("main", signals + 1)
      /\ Layer(k + 1) = "handler"
  BY <1>1, <1>7 DEF Depth, Layer
<1>9. Fits("main", s, signals + 1, mine)
  BY <1>6, <1>7, <1>8 DEF Fits
<1>10. Fits("main", Append(s, frame), signals + 1, mine \cup HeldBy(frame))
  <2>1. /\ HeldBy(frame) \cap mine = {} /\ mine \in SUBSET Locks
        /\ Len(s) + 1 <= Depth("main", signals + 1)
        /\ KindOf(frame.code) = Layer(Len(s) + 1)
    BY <1>4, <1>5, <1>7, <1>8 DEF Owned
  <2> HIDE DEF s, mine
  <2> QED
    BY <1>3, <1>9, <2>1, Pushed
<1>11. mine \cup HeldBy(frame) = mine
  BY <1>5
<1>12. Fits("main", Append(s, Enter(handler)), signals + 1, mine)
  BY <1>5, <1>10, <1>11, Zenon
<1> QED
  BY <1>1, <1>2, <1>3, <1>12, SameOwners

LEMMA LockStep ==
  LockInv /\ [Next]_vars => LockInv'
<1> SUFFICES ASSUME LockInv, [Next]_vars PROVE LockInv'
  OBVIOUS
<1>1. ASSUME NEW t \in Threads, Step(t)
      PROVE  LockInv'
  BY <1>1, BusyStep, FinishStep DEF Step
<1>2. ASSUME NEW handler \in {"sigterm", "sighup"}, Interrupt(handler)
      PROVE  LockInv'
  BY <1>2, InterruptStep DEF Interrupt
<1>3. CASE UNCHANGED vars
  <2>1. /\ stack' = stack /\ owner' = owner /\ shutdown' = shutdown
        /\ signals' = signals /\ asked' = asked
    BY <1>3 DEF vars
  <2> QED
    BY <2>1, Zenon DEF LockInv
<1> QED
  BY <1>1, <1>2, <1>3, RequestStep DEF Next

-----------------------------------------------------------------------------
(* Circles.                                                                *)

LEMMA LockTypes ==
  LockInv => TypeOK
<1> SUFFICES ASSUME LockInv PROVE TypeOK
  OBVIOUS
<1>1. Frames \subseteq [code : DOMAIN Code, at : Nat]
  BY DEF Frames
<1>2. stack \in [Threads -> Seq([code : DOMAIN Code, at : Nat])]
  <2>1. PICK Calls : Calls = [code : DOMAIN Code, at : Nat]
    OBVIOUS
  <2>2. \A s \in Seq(Frames) : s \in Seq(Calls)
    BY <1>1, <2>1, SeqMonotonic
  <2>3. \A t \in Threads : stack[t] \in Seq(Calls)
    BY <2>2 DEF LockInv
  <2>4. stack = [t \in Threads |-> stack[t]]
    BY DEF LockInv
  <2>5. stack \in [Threads -> Seq(Calls)]
    BY <2>3, <2>4
  <2> QED
    BY <2>1, <2>5
<1>3. \A t \in Threads : Len(stack[t]) <= (IF t = "main" THEN 1 + signals ELSE 1)
  BY DEF LockInv, Fits, Depth
<1> QED
  BY <1>2, <1>3 DEF LockInv, TypeOK

\* A waiting thread and the lock it waits for: whatever thread owns a lock has a call
\* that holds it, and a thread other than the main one has no call but the waiting one.
LEMMA Waiting ==
  ASSUME LockInv, NEW t \in Threads, WaitsFor(t) \in Threads
  PROVE  \E l \in Locks :
           /\ owner[l] = WaitsFor(t)
           /\ t # "main" => Owned(owner, t) \subseteq (IF l = "mutex" THEN {"queue"} ELSE {})
<1>1. Busy(t) /\ Doing(t)[1] = "take" /\ WaitsFor(t) = owner[Doing(t)[2]]
  BY ThreadsAssumption DEF WaitsFor
<1>2. Top(t) \in Frames /\ Fits(t, stack[t], signals, Owned(owner, t)) /\ stack[t] # <<>>
  BY <1>1, AboutBusy DEF Busy
<1> DEFINE l == Doing(t)[2]
<1>3. l \in Locks /\ HeldBy(Top(t)) \subseteq (IF l = "mutex" THEN {"queue"} ELSE {})
  BY <1>1, <1>2, FrameSteps DEF Busy, Doing, Rule
<1>4. ASSUME t # "main"
      PROVE  Owned(owner, t) \subseteq HeldBy(Top(t))
  <2>1. /\ Depth(t, signals) = 1 /\ Len(stack[t]) <= Depth(t, signals)
        /\ Owns(stack[t], Owned(owner, t)) /\ stack[t] \in Seq(Frames)
    BY <1>2, <1>4 DEF Fits, Depth
  <2>2. \A i \in 1..Len(stack[t]) : i = Len(stack[t])
    <3>1. PICK n \in Nat : n = Len(stack[t])
      BY <2>1
    <3>2. n <= 1
      BY <2>1, <3>1
    <3>3. \A i \in 1..n : i = n
      BY <3>2
    <3> QED
      BY <3>1, <3>3, Zenon
  <2>3. \A k \in Locks : k \in Owned(owner, t) => k \in HeldBy(Top(t))
    BY <2>1, <2>2 DEF Owns, Top
  <2> QED
    BY <2>3 DEF Owned
<1> QED
  BY <1>1, <1>3, <1>4

\* The main thread holds the mutex only inside EventQueue._lock.
LEMMA MainInOrder ==
  ASSUME LockInv, owner["mutex"] = "main"
  PROVE  owner["queue"] = "main"
<1>1. "main" \in Threads /\ "mutex" \in Locks /\ "queue" \in Locks
  BY ThreadsAssumption DEF Locks
<1>2. Fits("main", stack["main"], signals, Owned(owner, "main"))
  BY <1>1 DEF LockInv
<1>3. /\ Owns(stack["main"], Owned(owner, "main")) /\ stack["main"] \in Seq(Frames)
      /\ \A i \in 1..Len(stack["main"]) : KindOf(stack["main"][i].code) = Layer(i)
  BY <1>2 DEF Fits
<1>4. PICK i \in 1..Len(stack["main"]) : "mutex" \in HeldBy(stack["main"][i])
  BY <1>1, <1>3 DEF Owns, Owned
<1> DEFINE frame == stack["main"][i]
<1>5. frame \in Frames /\ KindOf(frame.code) # "thread"
  BY <1>3 DEF Layer
<1>6. "queue" \in HeldBy(frame)
  <2>1. frame.at <= Len(Code[frame.code])
    BY <1>4, <1>5, FrameSteps
  <2> QED
    BY <1>4, <1>5, <2>1, FrameSteps DEF Rule
<1> QED
  BY <1>1, <1>3, <1>6 DEF Owns, Owned

\* Threads that wait for each other in a circle: one other than the main thread that holds
\* what another waits for holds EventQueue._lock and waits for the mutex, whose owner
\* waits for nothing or is the main thread; that one owns EventQueue._lock then.
LEMMA CirclesAreSignals ==
  LockInv => NoCircularWait
<1> SUFFICES ASSUME LockInv,
                    NEW S \in SUBSET Threads, S # {}, \A t \in S : WaitsFor(t) \in S
             PROVE  "main" \in S /\ WaitsFor("main") = "main"
  BY LockTypes DEF NoCircularWait, SelfBlocked
<1>1. \A t \in S : \E l \in Locks :
         /\ owner[l] = WaitsFor(t)
         /\ t # "main" => Owned(owner, t) \subseteq (IF l = "mutex" THEN {"queue"} ELSE {})
  BY Waiting
<1>2. ASSUME NEW t \in S, NEW u \in S, WaitsFor(t) = u, u # "main"
      PROVE  owner["queue"] = u /\ owner["mutex"] = WaitsFor(u)
  <2>1. PICK l \in Locks : owner[l] = u
    BY <1>1, <1>2
  <2>2. PICK k \in Locks :
          /\ owner[k] = WaitsFor(u)
          /\ Owned(owner, u) \subseteq (IF k = "mutex" THEN {"queue"} ELSE {})
    BY <1>1, <1>2
  <2>3. l \in Owned(owner, u)
    BY <2>1 DEF Owned
  <2> QED
    BY <2>1, <2>2, <2>3
<1>3. ASSUME NEW t \in S, NEW u \in S, WaitsFor(t) = u, u # "main"
      PROVE  owner["mutex"] = "main" /\ owner["queue"] # "main" /\ WaitsFor(u) = "main"
  <2>1. owner["queue"] = u /\ owner["mutex"] = WaitsFor(u) /\ WaitsFor(u) \in S
    BY <1>2, <1>3
  <2>2. CASE WaitsFor(u) # "main"
    <3>1. PICK v \in S : v = WaitsFor(u)
      BY <2>1
    <3>2. owner["queue"] = v
      BY <1>2, <2>2, <3>1
    <3>3. "mutex" \in Owned(owner, v)
      BY <2>1, <3>1 DEF Owned, Locks
    <3>4. PICK k \in Locks : Owned(owner, v) \subseteq (IF k = "mutex" THEN {"queue"} ELSE {})
      BY <1>1, <2>2, <3>1
    <3> QED
      BY <3>3, <3>4
  <2> QED
    BY <1>3, <2>1, <2>2
<1>4. \A t \in S : WaitsFor(t) = "main"
  <2> SUFFICES ASSUME NEW t \in S, WaitsFor(t) # "main" PROVE FALSE
    OBVIOUS
  <2>1. owner["mutex"] = "main" /\ owner["queue"] # "main"
    BY <1>3
  <2> QED
    BY <2>1, MainInOrder
<1> QED
  BY <1>4

\* Threads never wait for each other in a circle, whichever of the daemon's threads run
\* and however many signals come: the one way to block for ever is a signal handler that
\* wants a lock of the code under it (EventQueue._lock, the mutex of queue.Queue, the
\* locks of request_shutdown and of the monitors).
THEOREM NoCircle ==
  Spec => []NoCircularWait
<1>1. Spec => []LockInv
  BY LockInitially, LockStep, PTL DEF Spec
<1> QED
  BY <1>1, CirclesAreSignals, PTL
=============================================================================
