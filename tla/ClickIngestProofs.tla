-------------------------- MODULE ClickIngestProofs --------------------------
(***************************************************************************)
(* Theorems about ClickIngest, for any number of clicks, any pool and      *)
(* windows of any size.                                                    *)
(***************************************************************************)
EXTENDS ClickIngest, TLAPS, FiniteSetTheorems

Tasks == {"new", "queued", "begin", "send", "register", "note", "await", "done"}
Fates == {"unsent", "pending", "acked", "failed"}

-----------------------------------------------------------------------------
(* What the answers promise.                                               *)

PromiseType ==
    /\ task \in [Requests -> Tasks]
    /\ answer \in [Requests -> Answers]
    /\ fate \in [Requests -> Fates]
    /\ stored \subseteq Requests
    /\ queue \in Seq(Requests)

\* A waiting task is in the queue once, and nothing else is.
QueueHoldsWaiting ==
    /\ \A i \in 1 .. Len(queue) : task[queue[i]] = "queued"
    /\ \A i, j \in 1 .. Len(queue) : i # j => queue[i] # queue[j]

UnsentUntilSend ==
    \A r \in Requests :
        /\ task[r] \in {"new", "queued", "begin", "send"} => fate[r] = "unsent"
        /\ fate[r] = "unsent" => r \notin stored
        /\ fate[r] = "acked" => r \in stored

AnswersAgree ==
    \A r \in Requests :
        /\ answer[r] = "acknowledged" => fate[r] = "acked"
        /\ answer[r] = "refused" => task[r] = "done" /\ fate[r] = "unsent"
        /\ task[r] = "new" => answer[r] = "none"

PromiseInv == PromiseType /\ QueueHoldsWaiting /\ UnsentUntilSend /\ AnswersAgree

LEMMA PromiseInit == Init => PromiseInv
BY DEF Init, PromiseInv, PromiseType, QueueHoldsWaiting, UnsentUntilSend, AnswersAgree,
       Tasks, Fates, Answers

\* A step that leaves queue, futures and records alone, and moves tasks that
\* are not in the queue on to where their answers allow.
LEMMA PromiseStep == PromiseInv /\ [Next]_vars => PromiseInv'
<1> SUFFICES ASSUME PromiseInv, [Next]_vars PROVE PromiseInv'
  OBVIOUS
<1> USE DEF PromiseInv, PromiseType, QueueHoldsWaiting, UnsentUntilSend, AnswersAgree,
            Tasks, Fates, Answers
<1>1. ASSUME NEW r \in Requests, Submit(r) PROVE PromiseInv'
  <2>1. UNCHANGED <<fate, stored>> /\ task[r] = "new"
    BY <1>1 DEF Submit, kafka
  <2>2. CASE UNCHANGED queue
    <3>0. Append(queue, r) # queue /\ answer[r] = "none"
      BY <2>1
    <3>1. \/ task' = [task EXCEPT ![r] = "begin"] /\ answer' = answer
          \/ task' = [task EXCEPT ![r] = "done"] /\ answer' = [answer EXCEPT ![r] = "refused"]
      BY <1>1, <2>2, <3>0 DEF Submit, Moves, Ends, Tell, pool
    <3> QED
      BY <2>1, <2>2, <3>1
  <2>3. CASE queue' = Append(queue, r)
    <3>1. task' = [task EXCEPT ![r] = "queued"] /\ answer' = answer
      BY <1>1, <2>3 DEF Submit, Moves, Ends, Tell, pool
    <3>2. queue' \in Seq(Requests) /\ Len(queue') = Len(queue) + 1
          /\ queue'[Len(queue')] = r /\ \A i \in 1 .. Len(queue) : queue'[i] = queue[i]
      BY <2>3
    <3>3. \A i \in 1 .. Len(queue) : queue[i] # r
      BY <2>1
    <3>4. QueueHoldsWaiting'
      <4>1. \A i \in 1 .. Len(queue') : task'[queue'[i]] = "queued"
        <5> SUFFICES ASSUME NEW i \in 1 .. Len(queue') PROVE task'[queue'[i]] = "queued"
          OBVIOUS
        <5>1. CASE i = Len(queue')
          BY <5>1, <3>1, <3>2
        <5>2. CASE i \in 1 .. Len(queue)
          BY <5>2, <3>1, <3>2, <3>3
        <5> QED
          BY <5>1, <5>2, <3>2
      <4>2. \A i, j \in 1 .. Len(queue') : i # j => queue'[i] # queue'[j]
        BY <3>2, <3>3
      <4> QED
        BY <4>1, <4>2
    <3> QED
      BY <2>1, <3>1, <3>2, <3>4
  <2> QED
    BY <1>1, <2>2, <2>3 DEF Submit, pool
<1>2. ASSUME NEW r \in Requests, RequestTimesOut(r) PROVE PromiseInv'
  BY <1>2 DEF RequestTimesOut, Tell, kafka, pool
<1>3. ASSUME NEW r \in Requests, Gate(r) PROVE PromiseInv'
  BY <1>3 DEF Gate, Moves, Ends, Tell, kafka, pool
<1>4. ASSUME NEW r \in Requests, Send(r) PROVE PromiseInv'
  BY <1>4 DEF Send, Moves, Ends, Tell, pool
<1>5. ASSUME NEW r \in Requests, Register(r) PROVE PromiseInv'
  BY <1>5 DEF Register, Moves, kafka, pool
<1>6. ASSUME NEW r \in Requests, Await(r) PROVE PromiseInv'
  BY <1>6 DEF Await, Ends, Tell, kafka, pool
<1>7. ASSUME NEW r \in Requests, Note(r) PROVE PromiseInv'
  BY <1>7 DEF Note, ClaimSlot, WriteOutcome, WriteTime, Moves, kafka, pool
<1>8. ASSUME NEW r \in Requests, Store(r) \/ Settle(r) PROVE PromiseInv'
  BY <1>8 DEF Store, Settle, pool
<1>9. ASSUME Take PROVE PromiseInv'
  BY <1>9 DEF Take, Moves, kafka
<1>10. ASSUME Shrink \/ Tick \/ UNCHANGED vars PROVE PromiseInv'
  BY <1>10 DEF Shrink, Tick, vars, kafka, pool
<1> QED
  BY <1>1, <1>2, <1>3, <1>4, <1>5, <1>6, <1>7, <1>8, <1>9, <1>10 DEF Next, GatewayStep, Worker

\* A 200 means that Kafka has the click; a refusal means that it never was, nor
\* will be, sent (EventController.trackClick, EventTrackingService.trackClick).
LEMMA PromiseInvariance == Spec => []PromiseInv
BY PromiseInit, PromiseStep, PTL DEF Spec

\* For every pool, window and behaviour of Kafka: no client reads 200 for a
\* click that Kafka does not have.
THEOREM AcknowledgementsAreTrue == Spec => []AcknowledgedIsStored
<1>1. PromiseInv => AcknowledgedIsStored
  BY DEF PromiseInv, UnsentUntilSend, AnswersAgree, AcknowledgedIsStored
<1> QED
  BY <1>1, PromiseInvariance, PTL

\* A click whose client was refused before the publish has not been sent, and
\* its task is over.
THEOREM RefusalsAreFinal == Spec => []RefusedIsUnsent
<1>1. PromiseInv => RefusedIsUnsent
  BY DEF PromiseInv, UnsentUntilSend, AnswersAgree, RefusedIsUnsent
<1> QED
  BY <1>1, PromiseInvariance, PTL

-----------------------------------------------------------------------------
(* Types, the limits of the pool, and the indices of the windows.          *)

\* Math.abs(n % m) is an index, also of a counter that has become negative.
LEMMA IndexInWindow ==
  ASSUME NEW n \in Int, NEW m \in Nat \ {0}
  PROVE  Index(n, m) \in 0 .. m - 1
<1>1. \A k \in Nat : k % m \in 0 .. m - 1
  OBVIOUS
<1>2. CASE n >= 0
  BY <1>1, <1>2 DEF Index, Abs, JavaMod
<1>3. CASE n < 0
  <2>1. -n \in Nat
    BY <1>3
  <2>2. (-n) % m \in 0 .. m - 1
    BY <1>1, <2>1
  <2>3. JavaMod(n, m) = -((-n) % m)
    BY <1>3 DEF JavaMod
  <2> QED
    BY <2>2, <2>3 DEF Index, Abs
<1> QED
  BY <1>2, <1>3

LEMMA CounterWraps ==
  /\ 0 \in Counter
  /\ \A n \in Counter : n \in Int /\ Increment(n) \in Counter
<1>1. Wrap \div 2 \in Nat \ {0}
  BY IngestAssumption
<1> QED
  BY <1>1 DEF Counter, Increment

WindowType ==
    /\ noting \in [Requests -> [by : {"nobody", "worker", "sender"},
                                did : {"nothing", "slot", "outcome"},
                                slot : Slots]]
    /\ outcome \in [Slots -> {0, 1}]
    /\ age \in [Slots -> Ages] /\ turn \in Counter
    /\ blockAge \in [BlockSlots -> Ages] /\ blockTurn \in Counter

LEMMA WindowInit == Init => WindowType
<1>1. 0 \in Slots /\ 0 \in Ages /\ AgeLimit \in Ages
  BY IngestAssumption DEF Slots, Ages
<1> QED
  BY <1>1, CounterWraps DEF Init, WindowType, Nobody

LEMMA WindowStep == WindowType /\ [Next]_vars => WindowType'
<1> SUFFICES ASSUME WindowType, [Next]_vars PROVE WindowType'
  OBVIOUS
<1> USE DEF WindowType
<1>0. /\ 0 \in Slots /\ 0 \in Ages
      /\ \A a \in Ages : a < AgeLimit => a + 1 \in Ages
      /\ AgeLimit \in Ages
  BY IngestAssumption DEF Slots, Ages
<1>1. ASSUME NEW r \in Requests,
             Submit(r) \/ RequestTimesOut(r) \/ Gate(r) \/ Await(r) \/ Store(r)
      PROVE  WindowType'
  BY <1>1 DEF Submit, RequestTimesOut, Gate, Await, Store, outcomes, blocks
<1>2. ASSUME NEW r \in Requests, Send(r) PROVE WindowType'
  <2>1. UNCHANGED outcomes
    BY <1>2 DEF Send
  <2>2. CASE UNCHANGED blocks
    BY <2>1, <2>2 DEF outcomes, blocks
  <2>3. CASE /\ blockAge' = [blockAge EXCEPT ![Index(blockTurn, BlockWindow)] = 0]
             /\ blockTurn' = Increment(blockTurn)
    BY <2>1, <2>3, <1>0, CounterWraps DEF outcomes
  <2> QED
    BY <1>2, <2>2, <2>3 DEF Send
<1>3. ASSUME NEW r \in Requests, Register(r) \/ Settle(r) PROVE WindowType'
  BY <1>3 DEF Register, Settle, blocks
<1>4. ASSUME NEW r \in Requests, ClaimSlot(r) PROVE WindowType'
  <2>1. Index(turn, Window) \in Slots /\ Increment(turn) \in Counter
    BY IndexInWindow, CounterWraps, IngestAssumption DEF Slots
  <2> QED
    BY <1>4, <2>1 DEF ClaimSlot, blocks
<1>5. ASSUME NEW r \in Requests, WriteOutcome(r) PROVE WindowType'
  BY <1>5 DEF WriteOutcome, Verdict, blocks
<1>6. ASSUME NEW r \in Requests, WriteTime(r) PROVE WindowType'
  BY <1>6, <1>0 DEF WriteTime, Nobody, blocks
<1>7. ASSUME Tick PROVE WindowType'
  <2>1. age' \in [Slots -> Ages] /\ blockAge' \in [BlockSlots -> Ages]
    BY <1>7, <1>0 DEF Tick
  <2> QED
    BY <1>7, <2>1 DEF Tick
<1>8. ASSUME Take \/ Shrink \/ UNCHANGED vars PROVE WindowType'
  BY <1>8 DEF Take, Shrink, vars, outcomes, blocks
<1> QED
  BY <1>1, <1>2, <1>3, <1>4, <1>5, <1>6, <1>7, <1>8 DEF Next, GatewayStep, Worker, Note

PoolInv ==
    /\ threads \in 0 .. MaxThreads
    /\ Len(queue) <= Capacity
    /\ Cardinality(Running) <= threads

LEMMA RunningFinite == IsFiniteSet(Running) /\ Cardinality(Running) \in Nat
<1>1. Running \in SUBSET Requests
  BY DEF Running
<1> QED
  BY <1>1, IngestAssumption, FS_Subset, FS_CardinalityType

LEMMA OneMore ==
  ASSUME NEW S, IsFiniteSet(S), NEW x
  PROVE  Cardinality(S \cup {x}) <= Cardinality(S) + 1
<1>1. Cardinality(S) \in Nat
  BY FS_CardinalityType
<1>2. Cardinality(S \cup {x}) = IF x \in S THEN Cardinality(S) ELSE Cardinality(S) + 1
  BY FS_AddElement
<1>3. CASE x \in S
  <2>1. Cardinality(S \cup {x}) = Cardinality(S)
    BY <1>2, <1>3
  <2> QED
    BY <1>1, <2>1
<1>4. CASE x \notin S
  <2>1. Cardinality(S \cup {x}) = Cardinality(S) + 1
    BY <1>2, <1>4
  <2> QED
    BY <1>1, <2>1
<1> QED
  BY <1>3, <1>4

LEMMA PoolInit == Init => PoolInv
<1> SUFFICES ASSUME Init PROVE PoolInv
  OBVIOUS
<1>1. Running = {}
  BY DEF Init, Running
<1> QED
  BY <1>1, IngestAssumption, FS_EmptySet DEF Init, PoolInv

\* A step adds at most one running task, and then a thread or an idle one.
LEMMA PoolStep == PromiseInv /\ PoolInv /\ [Next]_vars => PoolInv'
<1> SUFFICES ASSUME PromiseInv, PoolInv, [Next]_vars PROVE PoolInv'
  OBVIOUS
<1> USE DEF PoolInv
<1>0. /\ task \in [Requests -> Tasks] /\ queue \in Seq(Requests)
      /\ \A i \in 1 .. Len(queue) : task[queue[i]] = "queued"
  BY DEF PromiseInv, PromiseType, QueueHoldsWaiting
<1>1. /\ IsFiniteSet(Running) /\ Cardinality(Running) \in Nat
      /\ Cardinality(Running') \in Nat
  <2>1. (IsFiniteSet(Running) /\ Cardinality(Running) \in Nat)'
    BY RunningFinite, PTL
  <2> QED
    BY RunningFinite, <2>1
<1>2. ASSUME Running' \subseteq Running PROVE Cardinality(Running') <= Cardinality(Running)
  BY <1>1, <1>2, FS_Subset
<1>3. \A x : Running' = Running \cup {x} =>
               Cardinality(Running') <= Cardinality(Running) + 1
  BY <1>1, OneMore
<1>4. ASSUME NEW r \in Requests, Submit(r) PROVE PoolInv'
  <2>1. CASE threads' = threads + 1 /\ threads < MaxThreads /\ UNCHANGED queue
             /\ task' = [task EXCEPT ![r] = "begin"]
    <3>1. Running' = Running \cup {r}
      BY <2>1, <1>0 DEF Running
    <3>2. Cardinality(Running') <= Cardinality(Running) + 1
      BY <3>1, <1>3
    <3> QED
      BY <2>1, <3>2, <1>1, IngestAssumption
  <2>2. CASE UNCHANGED threads /\ Len(queue') <= Capacity
             /\ task' \in {[task EXCEPT ![r] = t] : t \in {"queued", "done"}}
    <3>1. Running' \subseteq Running
      BY <2>2, <1>0 DEF Running
    <3> QED
      BY <2>2, <3>1, <1>1, <1>2, IngestAssumption
  <2>3. Len(queue) < Capacity => Len(Append(queue, r)) <= Capacity
    BY <1>0, IngestAssumption
  <2>4. Core <= MaxThreads /\ threads \in Int /\ Core \in Int /\ MaxThreads \in Int
    BY IngestAssumption
  <2> QED
    BY <1>4, <2>1, <2>2, <2>3, <2>4 DEF Submit, Moves, Ends, pool
<1>5. ASSUME UNCHANGED pool, Running' \subseteq Running PROVE PoolInv'
  BY <1>5, <1>1, <1>2, IngestAssumption DEF pool
<1>6. ASSUME NEW r \in Requests, Worker(r) PROVE PoolInv'
  <2>1. UNCHANGED pool /\ Running' \subseteq Running
    BY <1>6, <1>0 DEF Worker, Gate, Send, Register, Await, Moves, Ends, Running
  <2> QED
    BY <2>1, <1>5
<1>7. ASSUME NEW r \in Requests, Note(r) PROVE PoolInv'
  <2>1. UNCHANGED pool /\ Running' \subseteq Running
    BY <1>7, <1>0 DEF Note, ClaimSlot, WriteOutcome, WriteTime, Moves, Running
  <2> QED
    BY <2>1, <1>5
<1>8. ASSUME NEW r \in Requests, RequestTimesOut(r) \/ Store(r) \/ Settle(r) PROVE PoolInv'
  <2>1. UNCHANGED <<pool, Running>>
    BY <1>8 DEF RequestTimesOut, Store, Settle, Running
  <2> QED
    BY <2>1, <1>5
<1>9. ASSUME Take PROVE PoolInv'
  <2>1. /\ Head(queue) \in Requests /\ Len(queue') <= Capacity
        /\ threads' = threads /\ Cardinality(Running) < threads
        /\ task' = [task EXCEPT ![Head(queue)] = "begin"]
    BY <1>9, <1>0, IngestAssumption DEF Take, Moves
  <2>2. Running' = Running \cup {Head(queue)}
    BY <2>1, <1>0 DEF Running
  <2>3. Cardinality(Running') <= Cardinality(Running) + 1
    BY <2>2, <1>3
  <2> QED
    BY <2>1, <2>3, <1>1, IngestAssumption
<1>10. ASSUME Shrink PROVE PoolInv'
  <2>1. UNCHANGED <<queue, Running>> /\ threads' = threads - 1 /\ Cardinality(Running) < threads
    BY <1>10 DEF Shrink, Running
  <2> QED
    BY <2>1, <1>1, IngestAssumption
<1>11. ASSUME Tick \/ UNCHANGED vars PROVE PoolInv'
  <2>1. UNCHANGED <<pool, Running>>
    BY <1>11 DEF Tick, vars, Running
  <2> QED
    BY <2>1, <1>5
<1> QED
  BY <1>4, <1>6, <1>7, <1>8, <1>9, <1>10, <1>11 DEF Next, GatewayStep

\* Every variable keeps its type, no more tasks run than the pool has threads,
\* and no slot index leaves its window after the counter has wrapped.
THEOREM IngestTypeCorrect == Spec => []IngestTypeOK
<1>1. Spec => [](PromiseInv /\ PoolInv /\ WindowType)
  BY PromiseInit, PromiseStep, PoolInit, PoolStep, WindowInit, WindowStep, PTL DEF Spec
<1>2. PromiseInv /\ PoolInv /\ WindowType => IngestTypeOK
  BY DEF PromiseInv, PromiseType, PoolInv, WindowType, IngestTypeOK, Tasks, Fates
<1> QED
  BY <1>1, <1>2, PTL

-----------------------------------------------------------------------------
(* The window counts what happened.                                        *)

\* Who notes, and when: only the outcome of a settled publish, and only after
\* whenComplete has decided whether the worker does it.
NotingInv ==
    \A r \in Requests :
        /\ noting[r].by = "nobody" => noting[r].did = "nothing"
        /\ noting[r].by # "nobody" => fate[r] \in {"acked", "failed"} /\ task[r] # "register"
        /\ task[r] \in {"register", "note", "await"} => fate[r] # "unsent"

\* The slots that count, or will with the time that is written next.
Written ==
    {s \in Slots :
        \/ age[s] < AgeLimit
        \/ \E r \in Requests : noting[r].did = "outcome" /\ noting[r].slot = s}

StillToWrite(r) ==
    \/ task[r] = "register"
    \/ noting[r].by # "nobody" /\ noting[r].did # "outcome"

\* f gives every written slot the publish whose outcome it holds.  No publish
\* has two slots, whatever order the threads write in and whichever slots are
\* used again; one that is still to be written has none.
Attributes(f) ==
    /\ \A s \in Written :
          /\ f[s] \in Requests
          /\ fate[f[s]] = IF outcome[s] = 1 THEN "acked" ELSE "failed"
          /\ ~StillToWrite(f[s])
    /\ \A s, t \in Written : s # t => f[s] # f[t]

RealInv == NotingInv /\ \E f \in [Slots -> Nat] : Attributes(f)

LEMMA RealInit == Init => RealInv
<1> SUFFICES ASSUME Init PROVE RealInv
  OBVIOUS
<1>1. NotingInv
  BY DEF Init, NotingInv, Nobody
<1>2. Written = {}
  BY IngestAssumption DEF Init, Written, Nobody
<1>3. Attributes([s \in Slots |-> 0]) /\ [s \in Slots |-> 0] \in [Slots -> Nat]
  BY <1>2 DEF Attributes
<1> QED
  BY <1>1, <1>3 DEF RealInv

LEMMA NotingStep ==
  PromiseInv /\ WindowType /\ NotingInv /\ [Next]_vars => NotingInv'
<1> SUFFICES ASSUME PromiseInv, WindowType, NotingInv, [Next]_vars PROVE NotingInv'
  OBVIOUS
<1>0. /\ task \in [Requests -> Tasks] /\ fate \in [Requests -> Fates]
      /\ noting \in [Requests -> [by : {"nobody", "worker", "sender"},
                                  did : {"nothing", "slot", "outcome"}, slot : Slots]]
      /\ \A r \in Requests :
            task[r] \in {"new", "queued", "begin", "send"} => fate[r] = "unsent"
      /\ queue \in Seq(Requests) /\ \A i \in 1 .. Len(queue) : task[queue[i]] = "queued"
  BY DEF PromiseInv, PromiseType, QueueHoldsWaiting, UnsentUntilSend, WindowType
<1> USE DEF NotingInv
<1>1. ASSUME NEW r \in Requests, Submit(r) \/ RequestTimesOut(r) PROVE NotingInv'
  BY <1>1, <1>0 DEF Submit, RequestTimesOut, Moves, Ends, kafka, outcomes, Tasks
<1>2. ASSUME NEW r \in Requests, Gate(r) \/ Await(r) PROVE NotingInv'
  BY <1>2, <1>0 DEF Gate, Await, Moves, Ends, kafka, outcomes, Tasks
<1>3. ASSUME NEW r \in Requests, Send(r) PROVE NotingInv'
  BY <1>3, <1>0 DEF Send, Moves, Ends, outcomes, Tasks, Fates
<1>4. ASSUME NEW r \in Requests, Register(r) PROVE NotingInv'
  BY <1>4, <1>0 DEF Register, Moves, kafka, Tasks, Fates
<1>5. ASSUME NEW r \in Requests, Store(r) \/ Settle(r) PROVE NotingInv'
  BY <1>5, <1>0 DEF Store, Settle, outcomes, Tasks, Fates
<1>6. ASSUME NEW r \in Requests, Note(r) PROVE NotingInv'
  BY <1>6, <1>0 DEF Note, ClaimSlot, WriteOutcome, WriteTime, Moves, Nobody, kafka, Tasks
<1>7. ASSUME Take PROVE NotingInv'
  BY <1>7, <1>0 DEF Take, Moves, kafka, outcomes, Tasks
<1>8. ASSUME Shrink \/ Tick \/ UNCHANGED vars PROVE NotingInv'
  BY <1>8 DEF Shrink, Tick, vars, kafka, outcomes
<1> QED
  BY <1>1, <1>2, <1>3, <1>4, <1>5, <1>6, <1>7, <1>8 DEF Next, GatewayStep, Worker

\* A step that writes no slot leaves the attribution as it is.
LEMMA RealStep ==
  PromiseInv /\ WindowType /\ RealInv /\ [Next]_vars =>
      \E f \in [Slots -> Nat] : Attributes(f)'
<1> SUFFICES ASSUME PromiseInv, WindowType, RealInv, [Next]_vars
             PROVE  \E f \in [Slots -> Nat] : Attributes(f)'
  OBVIOUS
<1>0. /\ task \in [Requests -> Tasks] /\ fate \in [Requests -> Fates]
      /\ noting \in [Requests -> [by : {"nobody", "worker", "sender"},
                                  did : {"nothing", "slot", "outcome"}, slot : Slots]]
      /\ outcome \in [Slots -> {0, 1}] /\ age \in [Slots -> Ages]
      /\ \A r \in Requests :
            task[r] \in {"new", "queued", "begin", "send"} => fate[r] = "unsent"
      /\ queue \in Seq(Requests) /\ \A i \in 1 .. Len(queue) : task[queue[i]] = "queued"
      /\ NotingInv
  BY DEF PromiseInv, PromiseType, QueueHoldsWaiting, UnsentUntilSend, WindowType, RealInv
<1>f. PICK f \in [Slots -> Nat] : Attributes(f)
  BY DEF RealInv
\* What a step must leave alone to keep f.
<1>k. ASSUME UNCHANGED outcome, Written' \subseteq Written,
             \A r \in Requests : fate[r] \in {"acked", "failed"} /\ ~StillToWrite(r) =>
                 fate'[r] = fate[r] /\ ~StillToWrite(r)'
      PROVE  Attributes(f)'
  BY <1>k, <1>f DEF Attributes
<1>1. ASSUME NEW r \in Requests, Submit(r) \/ RequestTimesOut(r) \/ Gate(r) \/ Await(r)
      PROVE  Attributes(f)'
  <2>1. UNCHANGED <<kafka, outcomes>>
    BY <1>1 DEF Submit, RequestTimesOut, Gate, Await
  <2>2. \A q \in Requests : task'[q] = "register" => task[q] = "register"
    BY <1>1, <1>0 DEF Submit, RequestTimesOut, Gate, Await, Moves, Ends
  <2> QED
    BY <2>1, <2>2, <1>k DEF kafka, outcomes, Written, StillToWrite
<1>2. ASSUME NEW r \in Requests, Send(r) PROVE Attributes(f)'
  <2>1. UNCHANGED outcomes /\ fate[r] = "unsent"
    BY <1>2, <1>0 DEF Send
  <2>2. \A q \in Requests : q # r => fate'[q] = fate[q] /\ task'[q] = task[q]
    BY <1>2, <1>0 DEF Send, Moves, Ends
  <2> QED
    BY <2>1, <2>2, <1>k DEF outcomes, Written, StillToWrite
<1>3. ASSUME NEW r \in Requests, Register(r) PROVE Attributes(f)'
  <2>1. UNCHANGED <<kafka, outcome, age>> /\ StillToWrite(r)
    BY <1>3 DEF Register, StillToWrite
  <2>2. /\ \A q \in Requests : q # r => noting'[q] = noting[q] /\ task'[q] = task[q]
        /\ noting'[r].did = noting[r].did /\ noting'[r].slot = noting[r].slot
    BY <1>3, <1>0 DEF Register, Moves
  <2> QED
    BY <2>1, <2>2, <1>k DEF kafka, Written, StillToWrite
<1>4. ASSUME NEW r \in Requests, Store(r) \/ Settle(r) PROVE Attributes(f)'
  <2>1. UNCHANGED <<task, outcome, age>> /\ fate[r] = "pending"
    BY <1>4 DEF Store, Settle, outcomes
  <2>2. /\ \A q \in Requests : q # r => noting'[q] = noting[q] /\ fate'[q] = fate[q]
        /\ noting'[r].did = noting[r].did /\ noting'[r].slot = noting[r].slot
    BY <1>4, <1>0 DEF Store, Settle, outcomes
  <2> QED
    BY <2>1, <2>2, <1>k DEF Written, StillToWrite
<1>5. ASSUME NEW r \in Requests, ClaimSlot(r) PROVE Attributes(f)'
  <2>1. UNCHANGED <<task, fate, outcome, age>> /\ StillToWrite(r)
    BY <1>5 DEF ClaimSlot, StillToWrite, kafka
  <2>2. /\ \A q \in Requests : q # r => noting'[q] = noting[q]
        /\ noting'[r].did = "slot"
    BY <1>5, <1>0 DEF ClaimSlot
  <2> QED
    BY <2>1, <2>2, <1>k DEF Written, StillToWrite
\* The slot that is written now holds the outcome of r, which had no slot.
<1>6. ASSUME NEW r \in Requests, WriteOutcome(r)
      PROVE  \E g \in [Slots -> Nat] : Attributes(g)'
  <2>n. PICK n \in Slots : n = noting[r].slot
    BY <1>0
  <2>g. PICK g : g = [f EXCEPT ![n] = r]
    OBVIOUS
  <2>1. /\ UNCHANGED <<task, fate, age>>
        /\ outcome' = [outcome EXCEPT ![n] = Verdict(r)]
        /\ StillToWrite(r) /\ fate[r] \in {"acked", "failed"} /\ task[r] # "register"
    BY <1>6, <1>0, <2>n DEF WriteOutcome, StillToWrite, kafka, NotingInv
  <2>2. /\ \A q \in Requests : q # r => noting'[q] = noting[q]
        /\ noting'[r].did = "outcome" /\ noting'[r].slot = n
    BY <1>6, <1>0, <2>n DEF WriteOutcome
  <2>3. Written' \subseteq Written \cup {n}
    BY <2>1, <2>2 DEF Written
  <2>4. g \in [Slots -> Nat] /\ g[n] = r /\ \A s \in Slots : s # n => g[s] = f[s]
    BY <2>g, IngestAssumption
  <2>5. \A s \in Written : f[s] \in Requests /\ ~StillToWrite(f[s]) /\ f[s] # r
                            /\ fate[f[s]] = IF outcome[s] = 1 THEN "acked" ELSE "failed"
    BY <1>f, <2>1 DEF Attributes
  <2>6. /\ ~StillToWrite(r)'
        /\ \A q \in Requests : q # r => (StillToWrite(q)' <=> StillToWrite(q))
    BY <2>1, <2>2 DEF StillToWrite
  <2>7. /\ fate[r] = IF outcome'[n] = 1 THEN "acked" ELSE "failed"
        /\ \A s \in Slots : s # n => outcome'[s] = outcome[s]
    BY <2>1, <1>0 DEF Verdict
  <2>8. Written' \subseteq Slots
    BY DEF Written
  <2>9. \A s, t \in Written' : s # t => g[s] # g[t]
    BY <1>f, <2>3, <2>4, <2>5, <2>8 DEF Attributes
  <2>10. \A s \in Written' :
            /\ g[s] \in Requests
            /\ fate'[g[s]] = IF outcome'[s] = 1 THEN "acked" ELSE "failed"
            /\ ~StillToWrite(g[s])'
    <3> SUFFICES ASSUME NEW s \in Written'
                 PROVE  /\ g[s] \in Requests
                        /\ fate'[g[s]] = IF outcome'[s] = 1 THEN "acked" ELSE "failed"
                        /\ ~StillToWrite(g[s])'
      OBVIOUS
    <3>1. CASE s = n
      BY <3>1, <2>1, <2>4, <2>6, <2>7
    <3>2. CASE s # n
      <4>1. s \in Written /\ s \in Slots /\ g[s] = f[s]
        BY <3>2, <2>3, <2>4, <2>8
      <4> QED
        BY <4>1, <3>2, <2>1, <2>5, <2>6, <2>7
    <3> QED
      BY <3>1, <3>2
  <2>11. Attributes(g)'
    BY <2>9, <2>10 DEF Attributes
  <2> QED
    BY <2>4, <2>11
<1>7. ASSUME NEW r \in Requests, WriteTime(r) PROVE Attributes(f)'
  <2>1. /\ UNCHANGED <<fate, outcome>>
        /\ noting[r].did = "outcome" /\ noting[r].slot \in Written
        /\ age' = [age EXCEPT ![noting[r].slot] = 0]
        /\ noting' = [noting EXCEPT ![r] = Nobody]
    BY <1>7, <1>0 DEF WriteTime, kafka, Written
  <2>2. \A q \in Requests : task'[q] = "register" => task[q] = "register"
    BY <1>7, <1>0 DEF WriteTime, Moves
  <2>3. /\ \A q \in Requests : q # r => noting'[q] = noting[q]
        /\ noting'[r].did = "nothing" /\ noting'[r].by = "nobody"
    BY <2>1, <1>0 DEF Nobody
  <2>4. \A s \in Slots : s # noting[r].slot => age'[s] = age[s]
    BY <2>1, <1>0
  <2>5. Written' \subseteq Written
    BY <2>1, <2>3, <2>4 DEF Written
  <2> QED
    BY <2>1, <2>2, <2>3, <2>5, <1>k DEF StillToWrite
<1>8. ASSUME Take PROVE Attributes(f)'
  <2>1. UNCHANGED <<kafka, outcomes>> /\ \A q \in Requests : task'[q] = "register" => task[q] = "register"
    BY <1>8, <1>0 DEF Take, Moves
  <2> QED
    BY <2>1, <1>k DEF kafka, outcomes, Written, StillToWrite
<1>9. ASSUME Tick PROVE Attributes(f)'
  <2>1. UNCHANGED <<task, kafka, noting, outcome>>
    BY <1>9 DEF Tick
  <2>2. \A s \in Slots : age'[s] < AgeLimit => age[s] < AgeLimit
    BY <1>9, <1>0, IngestAssumption DEF Tick, Ages
  <2> QED
    BY <2>1, <2>2, <1>k DEF kafka, Written, StillToWrite
<1>10. ASSUME Shrink \/ UNCHANGED vars PROVE Attributes(f)'
  <2>1. UNCHANGED <<task, kafka, outcomes>>
    BY <1>10 DEF Shrink, vars
  <2> QED
    BY <2>1, <1>k DEF kafka, outcomes, Written, StillToWrite
<1> QED
  BY <1>1, <1>2, <1>3, <1>4, <1>5, <1>6, <1>7, <1>8, <1>9, <1>10 DEF Next, GatewayStep, Worker, Note

\* With any number of threads and windows of any size: the gate never judges
\* Kafka by failures, or by successes, that did not happen.
THEOREM WindowCountsWhatHappened == Spec => []OutcomesAreReal
<1>1. Spec => [](PromiseInv /\ WindowType /\ RealInv)
  <2>1. PromiseInv /\ WindowType /\ RealInv /\ [Next]_vars => RealInv'
    BY NotingStep, RealStep DEF RealInv
  <2> QED
    BY PromiseInit, PromiseStep, WindowInit, WindowStep, RealInit, <2>1, PTL DEF Spec
<1>2. ASSUME WindowType, RealInv PROVE OutcomesAreReal
  <2>1. PICK f \in [Slots -> Nat] : Attributes(f)
    BY <1>2 DEF RealInv
  <2>2. ASSUME NEW S, S \subseteq Written, NEW T, T \subseteq Requests,
               \A s \in S : f[s] \in T
        PROVE  Cardinality(S) <= Cardinality(T)
    <3> DEFINE g == [s \in S |-> f[s]]
    <3>1. g \in Injection(S, T)
      BY <2>1, <2>2 DEF Attributes, Injection, IsInjective
    <3>2. IsFiniteSet(T)
      BY <2>2, IngestAssumption, FS_Subset
    <3> QED
      BY <3>1, <3>2, FS_Injection
  <2>3. /\ Failing \subseteq Written /\ Counted \ Failing \subseteq Written
        /\ \A s \in Failing : f[s] \in {r \in Requests : fate[r] = "failed"}
        /\ \A s \in Counted \ Failing : f[s] \in {r \in Requests : fate[r] = "acked"}
    BY <1>2, <2>1 DEF Failing, Counted, Written, Attributes, WindowType
  <2>4. Cardinality(Failing) <= Cardinality({r \in Requests : fate[r] = "failed"})
    BY <2>2, <2>3
  <2>5. Cardinality(Counted \ Failing) <= Cardinality({r \in Requests : fate[r] = "acked"})
    BY <2>2, <2>3
  <2> QED
    BY <2>4, <2>5 DEF OutcomesAreReal
<1> QED
  BY <1>1, <1>2, PTL

-----------------------------------------------------------------------------
(* Every click ends without Kafka's help.                                  *)

\* The guards of Take, of Worker and of Note.
CanTake == queue # <<>> /\ Cardinality(Running) < threads
CanWork(r) ==
    \/ task[r] \in {"begin", "send", "register"}
    \/ task[r] = "await" /\ fate[r] \in {"acked", "failed", "pending"}
CanNote(r) ==
    \/ noting[r].by # "nobody" /\ noting[r].did = "nothing"
    \/ noting[r].did \in {"slot", "outcome"}

\* NothingWaitsForKafka with the guards in the place of ENABLED.
SomeThreadGoesOn ==
    (\E r \in Requests : task[r] # "new" /\ (task[r] # "done" \/ answer[r] = "none")) =>
        CanTake \/ \E r \in Requests : CanWork(r) \/ CanNote(r)

\* No task is forgotten: one that waits is in the queue, the pool that made it
\* wait has its core threads, one that notes has something to note, and one
\* that is done has answered.
NoneForgotten ==
    /\ \A r \in Requests :
          /\ task[r] = "queued" => \E i \in 1 .. Len(queue) : queue[i] = r
          /\ task[r] = "note" => noting[r].by = "worker"
          /\ task[r] = "done" => answer[r] # "none"
    /\ queue # <<>> => threads >= Core

LEMMA ForgottenInit == Init => NoneForgotten
BY DEF Init, NoneForgotten

LEMMA ForgottenStep ==
  PromiseInv /\ PoolInv /\ WindowType /\ NotingInv /\ NoneForgotten /\ [Next]_vars => NoneForgotten'
<1> SUFFICES ASSUME PromiseInv, PoolInv, WindowType, NotingInv, NoneForgotten, [Next]_vars
             PROVE  NoneForgotten'
  OBVIOUS
<1>0. /\ task \in [Requests -> Tasks] /\ answer \in [Requests -> Answers]
      /\ noting \in [Requests -> [by : {"nobody", "worker", "sender"},
                                  did : {"nothing", "slot", "outcome"}, slot : Slots]]
      /\ queue \in Seq(Requests) /\ threads \in Nat /\ Core \in Nat
  BY IngestAssumption DEF PromiseInv, PromiseType, PoolInv, WindowType
<1> USE DEF NoneForgotten
<1>1. ASSUME NEW r \in Requests, Submit(r) PROVE NoneForgotten'
  <2>1. UNCHANGED noting
    BY <1>1 DEF Submit, outcomes
  <2>2. CASE queue' = queue /\ threads' \in {threads, threads + 1} /\ (Moves(r, "begin") \/ Ends(r, "refused"))
    BY <1>0, <2>1, <2>2 DEF Moves, Ends, Tell
  <2>3. CASE queue' = Append(queue, r) /\ threads' = threads /\ threads >= Core /\ Moves(r, "queued")
    <3>1. /\ Len(queue') = Len(queue) + 1 /\ Len(queue) \in Nat
          /\ queue'[Len(queue) + 1] = r /\ \A i \in 1 .. Len(queue) : queue'[i] = queue[i]
      BY <1>0, <2>3
    <3>2. task' = [task EXCEPT ![r] = "queued"] /\ answer' = answer
      BY <2>3 DEF Moves
    <3>3. ASSUME NEW q \in Requests, task'[q] = "queued"
          PROVE  \E i \in 1 .. Len(queue') : queue'[i] = q
      <4>1. CASE q = r
        BY <3>1, <4>1
      <4>2. CASE q # r
        <5>1. PICK i \in 1 .. Len(queue) : queue[i] = q
          BY <1>0, <3>2, <3>3, <4>2
        <5> QED
          BY <3>1, <5>1
      <4> QED
        BY <4>1, <4>2
    <3> QED
      BY <1>0, <2>1, <2>3, <3>2, <3>3
  <2> QED
    BY <1>0, <1>1, <2>2, <2>3 DEF Submit, pool
<1>2. ASSUME NEW r \in Requests, RequestTimesOut(r) \/ Gate(r) \/ Send(r) \/ Await(r) PROVE NoneForgotten'
  <2>1. UNCHANGED <<queue, threads, noting>>
    BY <1>2 DEF RequestTimesOut, Gate, Send, Await, pool, outcomes
  <2>2. \E t \in {"send", "register", "done"}, what \in {"refused", "acknowledged", "unavailable"} :
           \/ Moves(r, t) /\ t # "done"
           \/ Ends(r, what)
           \/ task' = task /\ Tell(r, what)
    BY <1>2 DEF RequestTimesOut, Gate, Send, Await
  <2> QED
    BY <1>0, <2>1, <2>2 DEF Moves, Ends, Tell
<1>3. ASSUME NEW r \in Requests, Register(r) PROVE NoneForgotten'
  BY <1>0, <1>3 DEF Register, Moves, pool
<1>4. ASSUME NEW r \in Requests, Store(r) PROVE NoneForgotten'
  BY <1>4 DEF Store, pool, outcomes
<1>5. ASSUME NEW r \in Requests, Settle(r) PROVE NoneForgotten'
  <2>1. task[r] # "note"
    <3>1. fate[r] = "pending"
      BY <1>5 DEF Settle
    <3> QED
      BY <3>1 DEF NotingInv
  <2>2. UNCHANGED <<task, answer, queue, threads>> /\ \A q \in Requests \ {r} : noting'[q] = noting[q]
    BY <1>0, <1>5 DEF Settle, pool
  <2> QED
    BY <2>1, <2>2
<1>6. ASSUME NEW r \in Requests, Note(r) PROVE NoneForgotten'
  <2>1. UNCHANGED <<queue, threads, answer>>
    BY <1>6 DEF Note, ClaimSlot, WriteOutcome, WriteTime, Moves, pool
  <2>2. CASE ClaimSlot(r) \/ WriteOutcome(r)
    BY <1>0, <2>1, <2>2 DEF ClaimSlot, WriteOutcome
  <2>3. CASE WriteTime(r)
    BY <1>0, <2>1, <2>3 DEF WriteTime, Moves
  <2> QED
    BY <1>6, <2>2, <2>3 DEF Note
<1>7. ASSUME Take PROVE NoneForgotten'
  <2>1. /\ queue # <<>> /\ task' = [task EXCEPT ![Head(queue)] = "begin"]
        /\ queue' = Tail(queue) /\ UNCHANGED <<answer, threads, noting>>
    BY <1>7 DEF Take, Moves, outcomes
  <2>2. /\ Head(queue) = queue[1] /\ Len(queue') = Len(queue) - 1 /\ Len(queue) \in Nat
        /\ \A i \in 1 .. Len(queue) - 1 : queue'[i] = queue[i + 1]
    BY <1>0, <2>1
  <2>3. ASSUME NEW q \in Requests, task'[q] = "queued"
        PROVE  \E i \in 1 .. Len(queue') : queue'[i] = q
    <3>1. task[q] = "queued" /\ q # queue[1]
      BY <1>0, <2>1, <2>2, <2>3
    <3>2. PICK i \in 1 .. Len(queue) : queue[i] = q
      BY <3>1
    <3>3. i - 1 \in 1 .. Len(queue) - 1 /\ (i - 1) + 1 = i
      BY <2>2, <3>1, <3>2
    <3>4. queue'[i - 1] = q
      BY <2>2, <3>2, <3>3
    <3> QED
      BY <2>2, <3>3, <3>4
  <2> QED
    BY <1>0, <2>1, <2>3
<1>8. ASSUME Shrink PROVE NoneForgotten'
  BY <1>8 DEF Shrink, outcomes
<1>9. ASSUME Tick \/ UNCHANGED vars PROVE NoneForgotten'
  BY <1>9 DEF Tick, vars, pool, outcomes
<1> QED
  BY <1>1, <1>2, <1>3, <1>4, <1>5, <1>6, <1>7, <1>8, <1>9 DEF Next, GatewayStep, Worker

\* Whatever Kafka does or leaves undone, and for any pool: while a posted click
\* has not ended, some thread of the gateway has a step it may take, a task
\* that waits in the queue never waits behind threads that all wait for Kafka
\* (EventController.trackClick, EventTrackingService.trackClick).
THEOREM SomeThreadAlwaysGoesOn == Spec => []SomeThreadGoesOn
<1>1. PromiseInv /\ WindowType /\ NotingInv /\ [Next]_vars => NotingInv'
  BY NotingStep
<1>2. Init => NotingInv
  BY DEF Init, NotingInv, Nobody
<1>3. ASSUME PromiseInv, PoolInv, WindowType, NotingInv, NoneForgotten PROVE SomeThreadGoesOn
  <2> SUFFICES ASSUME NEW r \in Requests, task[r] # "new", task[r] # "done" \/ answer[r] = "none"
               PROVE  CanTake \/ \E q \in Requests : CanWork(q) \/ CanNote(q)
    BY DEF SomeThreadGoesOn
  <2>1. ASSUME NEW q \in Requests, q \in Running PROVE CanWork(q) \/ CanNote(q)
    <3>1. fate[q] \in Fates /\ noting[q].did \in {"nothing", "slot", "outcome"}
      BY <1>3 DEF PromiseInv, PromiseType, WindowType
    <3>2. CASE task[q] \in {"begin", "send", "register"}
      BY <3>2 DEF CanWork
    <3>3. CASE task[q] = "await"
      BY <1>3, <3>1, <3>3 DEF CanWork, NotingInv, Fates
    <3>4. CASE task[q] = "note"
      BY <1>3, <3>1, <3>4 DEF CanNote, NoneForgotten
    <3> QED
      BY <2>1, <3>2, <3>3, <3>4 DEF Running
  <2>2. task[r] \in Tasks /\ task[r] # "done"
    BY <1>3 DEF PromiseInv, PromiseType, NoneForgotten
  <2>3. CASE task[r] # "queued"
    BY <2>1, <2>2, <2>3 DEF Running, Tasks
  <2>4. CASE task[r] = "queued"
    <3>1. queue # <<>>
      BY <1>3, <2>4 DEF NoneForgotten, PromiseInv, PromiseType
    <3>2. threads >= Core /\ Core \in Nat \ {0} /\ threads \in Nat
      BY <1>3, <3>1, IngestAssumption DEF NoneForgotten, PoolInv
    <3>3. CASE Running = {}
      <4>1. Cardinality(Running) = 0
        BY <3>3, FS_EmptySet
      <4> QED
        BY <3>1, <3>2, <4>1 DEF CanTake
    <3>4. CASE Running # {}
      BY <2>1, <3>4 DEF Running
    <3> QED
      BY <3>3, <3>4
  <2> QED
    BY <2>3, <2>4
<1> QED
  BY <1>1, <1>2, <1>3, PromiseInit, PromiseStep, PoolInit, PoolStep, WindowInit, WindowStep,
     ForgottenInit, ForgottenStep, PTL DEF Spec

-----------------------------------------------------------------------------
(* No click goes round in a circle.                                        *)

\* How far a task, and the noting of its outcome, have come.
Stage == [new |-> 0, queued |-> 1, begin |-> 2, send |-> 3, register |-> 4,
          note |-> 5, await |-> 6, done |-> 7]
Noted(r) ==
    IF noting[r].did = "outcome" THEN 3
    ELSE IF noting[r].did = "slot" THEN 2
    ELSE IF noting[r].by # "nobody" THEN 1
    ELSE IF fate[r] \in {"acked", "failed"} /\ task[r] # "register" THEN 4
    ELSE 0
Progress(r) == Stage[task[r]] + Noted(r)

\* No step takes a click back, and every step of a thread of the gateway takes
\* one on: of all clicks there are at most 11 such steps for each.
ClicksAdvance ==
    /\ \A r \in Requests : Progress(r) \in 0 .. 11 /\ Progress(r)' >= Progress(r)
    /\ (Take \/ \E r \in Requests : Worker(r) \/ Note(r)) =>
          \E r \in Requests : Progress(r)' > Progress(r)

LEMMA StageIs ==
  /\ Stage["new"] = 0 /\ Stage["queued"] = 1 /\ Stage["begin"] = 2 /\ Stage["send"] = 3
  /\ Stage["register"] = 4 /\ Stage["note"] = 5 /\ Stage["await"] = 6 /\ Stage["done"] = 7
BY DEF Stage

ProgressTyped ==
    \A r \in Requests : Stage[task[r]] \in 0 .. 7 /\ Noted(r) \in 0 .. 4 /\ Progress(r) \in 0 .. 11

LEMMA ProgressIs == PromiseInv => ProgressTyped
<1> SUFFICES ASSUME PromiseInv, NEW r \in Requests
             PROVE  Stage[task[r]] \in 0 .. 7 /\ Noted(r) \in 0 .. 4 /\ Progress(r) \in 0 .. 11
  BY DEF ProgressTyped
<1>1. task[r] \in Tasks
  BY DEF PromiseInv, PromiseType
<1>2. Stage[task[r]] \in 0 .. 7
  BY <1>1, StageIs DEF Tasks
<1>3. Noted(r) \in 0 .. 4
  BY DEF Noted
<1> QED
  BY <1>2, <1>3 DEF Progress

LEMMA SameProgress ==
  ASSUME NEW r, UNCHANGED <<task[r], fate[r], noting[r]>> PROVE Progress(r)' = Progress(r)
BY DEF Progress, Noted

\* One action at a time: what it does to its click, and that no other moves.
LEMMA StepsAdvance ==
  ASSUME PromiseInv, PromiseInv', WindowType, NotingInv, NEW r \in Requests
  PROVE  /\ Worker(r) \/ Note(r) =>
               /\ Progress(r)' > Progress(r)
               /\ \A q \in Requests \ {r} : Progress(q)' = Progress(q)
         /\ Submit(r) \/ RequestTimesOut(r) \/ Store(r) \/ Settle(r) =>
               /\ Progress(r)' >= Progress(r)
               /\ \A q \in Requests \ {r} : Progress(q)' = Progress(q)
<1> DEFINE Others == \A q \in Requests \ {r} : Progress(q)' = Progress(q)
<1>0. /\ task \in [Requests -> Tasks] /\ fate \in [Requests -> Fates]
      /\ noting \in [Requests -> [by : {"nobody", "worker", "sender"},
                                  did : {"nothing", "slot", "outcome"}, slot : Slots]]
  BY DEF PromiseInv, PromiseType, WindowType
<1>1. /\ noting[r].by = "nobody" => noting[r].did = "nothing"
      /\ noting[r].by # "nobody" => fate[r] \in {"acked", "failed"} /\ task[r] # "register"
      /\ task[r] \in {"register", "note", "await"} => fate[r] # "unsent"
      /\ task[r] \in {"new", "queued", "begin", "send"} => fate[r] = "unsent"
  BY DEF NotingInv, PromiseInv, UnsentUntilSend
<1>2. /\ Stage[task[r]] \in 0 .. 7 /\ Noted(r) \in 0 .. 4
      /\ Stage[task'[r]] \in 0 .. 7 /\ Noted(r)' \in 0 .. 4
  <2>1. ProgressTyped /\ ProgressTyped'
    BY ProgressIs, PTL
  <2> QED
    BY <2>1 DEF ProgressTyped
<1>3. ASSUME Stage[task'[r]] > Stage[task[r]], Noted(r)' >= Noted(r) PROVE Progress(r)' > Progress(r)
  BY <1>2, <1>3 DEF Progress
<1>4. ASSUME Stage[task'[r]] >= Stage[task[r]], Noted(r)' > Noted(r) PROVE Progress(r)' > Progress(r)
  BY <1>2, <1>4 DEF Progress
<1>5. ASSUME Stage[task'[r]] >= Stage[task[r]], Noted(r)' >= Noted(r) PROVE Progress(r)' >= Progress(r)
  BY <1>2, <1>5 DEF Progress
<1>6. ASSUME UNCHANGED <<fate, noting>>, task[r] # "register", task'[r] # "register"
      PROVE  Noted(r)' = Noted(r)
  BY <1>6 DEF Noted
<1>7. ASSUME Gate(r) PROVE Progress(r)' > Progress(r) /\ Others
  <2>1. /\ task[r] = "begin" /\ task'[r] \in {"done", "send"}
        /\ UNCHANGED <<fate, noting>> /\ \A q \in Requests \ {r} : task'[q] = task[q]
    BY <1>0, <1>7 DEF Gate, Ends, Moves, kafka, outcomes
  <2>2. Stage[task'[r]] > Stage[task[r]]
    BY <2>1, StageIs
  <2> QED
    BY <1>2, <1>3, <1>6, <2>1, <2>2, SameProgress
<1>8. ASSUME Send(r) PROVE Progress(r)' > Progress(r) /\ Others
  <2>1. /\ task[r] = "send" /\ task'[r] \in {"done", "register"} /\ UNCHANGED noting
        /\ \A q \in Requests \ {r} : task'[q] = task[q] /\ fate'[q] = fate[q]
    BY <1>0, <1>8 DEF Send, Ends, Moves, outcomes
  <2>2. Stage[task'[r]] > Stage[task[r]]
    BY <2>1, StageIs
  <2>3. Noted(r) = 0
    BY <1>1, <2>1 DEF Noted
  <2> QED
    BY <1>2, <1>3, <2>1, <2>2, <2>3, SameProgress
<1>9. ASSUME Register(r) PROVE Progress(r)' > Progress(r) /\ Others
  <2>1. /\ task[r] = "register" /\ task'[r] \in {"await", "note"} /\ UNCHANGED fate
        /\ \A q \in Requests \ {r} : task'[q] = task[q] /\ noting'[q] = noting[q]
    BY <1>0, <1>9 DEF Register, Moves, kafka
  <2>2. Stage[task'[r]] > Stage[task[r]]
    BY <2>1, StageIs
  <2>3. Noted(r) = 0
    BY <1>1, <2>1 DEF Noted
  <2> QED
    BY <1>2, <1>3, <2>1, <2>2, <2>3, SameProgress
<1>10. ASSUME Await(r) PROVE Progress(r)' > Progress(r) /\ Others
  <2>1. /\ task[r] = "await" /\ task'[r] = "done"
        /\ UNCHANGED <<fate, noting>> /\ \A q \in Requests \ {r} : task'[q] = task[q]
    BY <1>0, <1>10 DEF Await, Ends, kafka, outcomes
  <2>2. Stage[task'[r]] > Stage[task[r]]
    BY <2>1, StageIs
  <2> QED
    BY <1>2, <1>3, <1>6, <2>1, <2>2, SameProgress
<1>11. ASSUME ClaimSlot(r) \/ WriteOutcome(r) PROVE Progress(r)' > Progress(r) /\ Others
  <2>1. /\ UNCHANGED <<task, fate>> /\ \A q \in Requests \ {r} : noting'[q] = noting[q]
    BY <1>0, <1>11 DEF ClaimSlot, WriteOutcome, kafka
  <2>2. Noted(r)' > Noted(r)
    BY <1>0, <1>11 DEF ClaimSlot, WriteOutcome, Noted
  <2> QED
    BY <1>2, <1>4, <2>1, <2>2, SameProgress
<1>12. ASSUME WriteTime(r) PROVE Progress(r)' > Progress(r) /\ Others
  <2>1. /\ noting[r].did = "outcome" /\ UNCHANGED fate /\ noting'[r] = Nobody
        /\ task'[r] = IF task[r] = "note" THEN "await" ELSE task[r]
        /\ \A q \in Requests \ {r} : task'[q] = task[q] /\ noting'[q] = noting[q]
    BY <1>0, <1>12 DEF WriteTime, Moves, kafka
  <2>2. Stage[task'[r]] >= Stage[task[r]]
    BY <1>2, <2>1, StageIs
  <2>3. Noted(r) = 3 /\ Noted(r)' = 4
    BY <1>1, <2>1 DEF Noted, Nobody
  <2> QED
    BY <1>2, <1>4, <2>1, <2>2, <2>3, SameProgress
<1>13. ASSUME Submit(r) PROVE Progress(r)' >= Progress(r) /\ Others
  <2>1. /\ task[r] = "new" /\ task'[r] \in {"begin", "queued", "done"}
        /\ UNCHANGED <<fate, noting>> /\ \A q \in Requests \ {r} : task'[q] = task[q]
    BY <1>0, <1>13 DEF Submit, Ends, Moves, kafka, outcomes
  <2>2. Stage[task'[r]] > Stage[task[r]]
    BY <2>1, StageIs
  <2> QED
    BY <1>2, <1>5, <1>6, <2>1, <2>2, SameProgress
<1>14. ASSUME RequestTimesOut(r) \/ Store(r) PROVE Progress(r)' >= Progress(r) /\ Others
  <2>1. UNCHANGED <<task, fate, noting>>
    BY <1>14 DEF RequestTimesOut, Store, kafka, outcomes
  <2>2. Noted(r)' = Noted(r)
    BY <2>1 DEF Noted
  <2> QED
    BY <1>2, <1>5, <2>1, <2>2, SameProgress
<1>15. ASSUME Settle(r) PROVE Progress(r)' >= Progress(r) /\ Others
  <2>1. /\ UNCHANGED task /\ fate[r] = "pending"
        /\ \A q \in Requests \ {r} : fate'[q] = fate[q] /\ noting'[q] = noting[q]
    BY <1>0, <1>15 DEF Settle
  <2>2. Noted(r) = 0
    BY <1>1, <2>1 DEF Noted
  <2> QED
    BY <1>2, <1>5, <2>1, <2>2, SameProgress
<1> QED
  BY <1>7, <1>8, <1>9, <1>10, <1>11, <1>12, <1>13, <1>14, <1>15 DEF Worker, Note

LEMMA TakeAdvances ==
  ASSUME PromiseInv, Take
  PROVE  \E r \in Requests : /\ Progress(r)' > Progress(r)
                             /\ \A q \in Requests \ {r} : Progress(q)' = Progress(q)
<1>1. /\ task \in [Requests -> Tasks] /\ queue \in Seq(Requests) /\ queue # <<>>
      /\ \A i \in 1 .. Len(queue) : task[queue[i]] = "queued"
  BY DEF PromiseInv, PromiseType, QueueHoldsWaiting, Take
<1>2. PICK r \in Requests : r = Head(queue) /\ task[r] = "queued"
  <2>1. Head(queue) = queue[1] /\ 1 \in 1 .. Len(queue) /\ queue[1] \in Requests
    BY <1>1
  <2> QED
    BY <1>1, <2>1
<1>3. /\ task'[r] = "begin" /\ UNCHANGED <<fate, noting>>
      /\ \A q \in Requests \ {r} : task'[q] = task[q]
  BY <1>1, <1>2 DEF Take, Moves, kafka, outcomes
<1>4. Noted(r)' = Noted(r)
  BY <1>2, <1>3 DEF Noted
<1>5. Noted(r) \in 0 .. 4
  BY ProgressIs DEF ProgressTyped
<1>6. Progress(r)' > Progress(r)
  BY <1>2, <1>3, <1>4, <1>5, StageIs DEF Progress
<1> QED
  BY <1>3, <1>6, SameProgress

\* Every step of a thread of the gateway takes some click on, and no step of
\* anybody takes one back, so that the steps SomeThreadAlwaysGoesOn finds come
\* to an end, and with them every posted click (trackClick, recordPublishOutcome).
THEOREM ClicksOnlyAdvance == Spec => [][ClicksAdvance]_vars
<1>1. PromiseInv /\ PromiseInv' /\ WindowType /\ NotingInv /\ [Next]_vars => [ClicksAdvance]_vars
  <2> SUFFICES ASSUME PromiseInv, PromiseInv', WindowType, NotingInv, Next PROVE ClicksAdvance
    OBVIOUS
  <2>1. \A r \in Requests : Progress(r) \in 0 .. 11
    BY ProgressIs DEF ProgressTyped
  <2>0. \A r \in Requests : Progress(r)' \in 0 .. 11
    <3>1. ProgressTyped'
      BY ProgressIs, PTL
    <3> QED
      BY <3>1 DEF ProgressTyped
  <2>2. \A r \in Requests : Progress(r)' >= Progress(r)
    <3>1. CASE \E r \in Requests : \/ Worker(r) \/ Note(r) \/ Submit(r)
                                   \/ RequestTimesOut(r) \/ Store(r) \/ Settle(r)
      <4>1. PICK r \in Requests : \/ Worker(r) \/ Note(r) \/ Submit(r)
                                  \/ RequestTimesOut(r) \/ Store(r) \/ Settle(r)
        BY <3>1
      <4>2. Progress(r)' > Progress(r) \/ Progress(r)' >= Progress(r)
        BY <4>1, StepsAdvance
      <4>3. \A q \in Requests \ {r} : Progress(q)' = Progress(q)
        BY <4>1, StepsAdvance
      <4> QED
        BY <2>0, <2>1, <4>2, <4>3
    <3>2. CASE Take
      <4>1. PICK r \in Requests : /\ Progress(r)' > Progress(r)
                                  /\ \A q \in Requests \ {r} : Progress(q)' = Progress(q)
        BY <3>2, TakeAdvances
      <4> QED
        BY <2>0, <2>1, <4>1
    <3>3. CASE Shrink \/ Tick
      <4>1. UNCHANGED <<task, fate, noting>>
        BY <3>3 DEF Shrink, Tick, kafka, outcomes
      <4> QED
        BY <2>1, <4>1, SameProgress
    <3> QED
      BY <3>1, <3>2, <3>3 DEF Next, GatewayStep
  <2>3. (Take \/ \E r \in Requests : Worker(r) \/ Note(r)) => \E r \in Requests : Progress(r)' > Progress(r)
    BY StepsAdvance, TakeAdvances
  <2> QED
    BY <2>1, <2>2, <2>3 DEF ClicksAdvance
<1>2. PromiseInv /\ WindowType /\ NotingInv /\ [Next]_vars => NotingInv'
  BY NotingStep
<1>3. Init => NotingInv
  BY DEF Init, NotingInv, Nobody
<1> QED
  BY <1>1, <1>2, <1>3, PromiseInit, PromiseStep, WindowInit, WindowStep, PTL DEF Spec
=============================================================================
