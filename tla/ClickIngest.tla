---------------------------- MODULE ClickIngest ----------------------------
(***************************************************************************)
(* Click ingestion in the gateway: POST /api/events/click.                 *)
(*                                                                         *)
(* The controller hands the request to a bounded thread pool and returns a *)
(* DeferredResult.  A worker validates the click, asks two windows of      *)
(* recent outcomes whether Kafka is worth trying, publishes, and waits for *)
(* the broker's acknowledgement; the outcome is noted in a window by       *)
(* whichever thread completes the future.  Time enters as the age of the   *)
(* entries of the windows: an entry of age AgeLimit is too old to count.   *)
(*                                                                         *)
(* Answers are told apart by what they promise: "acknowledged" is the 200, *)
(* "refused" the errors from before the publish (validation,               *)
(* local_queue_rejected, kafka_send_blocked, async_publish_degraded), and  *)
(* "unavailable" the others (broker_ack_timeout, kafka_publish_failed,     *)
(* request_timeout).                                                       *)
(*                                                                         *)
(* Left out: the counters and gauges, the tracing headers, the window of   *)
(* local rejections (a gauge reads it and nothing else), and the           *)
(* interruption of workers when the gateway shuts down.  Every timeout may *)
(* come at any moment of the wait it bounds.  A reader of a window sees    *)
(* all its slots at once; the writers are interleaved.                     *)
(***************************************************************************)
EXTENDS Integers, Sequences, FiniteSets

CONSTANTS
    Requests,        \* clicks posted, numbered in the order they arrive
    Invalid,         \* those that validation refuses
    Core,            \* event.producer.executor.core-pool-size
    MaxThreads,      \* event.producer.executor.max-pool-size
    Capacity,        \* event.producer.executor.queue-capacity
    Window,          \* WINDOW_SIZE
    MinSamples,      \* MIN_SAMPLES
    BlockWindow,     \* KAFKA_SEND_BLOCK_WINDOW_SIZE
    BlockThreshold,  \* KAFKA_SEND_BLOCK_THRESHOLD
    AgeLimit,        \* DEGRADED_WINDOW_MS and KAFKA_SEND_BLOCK_WINDOW_MS
    Wrap             \* the index counters are ints of Wrap values

ASSUME IngestAssumption ==
    /\ Requests \subseteq Nat /\ IsFiniteSet(Requests) /\ Invalid \subseteq Requests
    /\ Core \in Nat \ {0} /\ MaxThreads \in Nat /\ Core <= MaxThreads
    /\ Capacity \in Nat \ {0}
    /\ Window \in Nat \ {0} /\ BlockWindow \in Nat \ {0}
    /\ MinSamples \in Nat \ {0} /\ BlockThreshold \in Nat \ {0}
    /\ AgeLimit \in Nat \ {0}
    /\ Wrap \in Nat \ {0} /\ Wrap % 2 = 0

VARIABLES
    task,      \* where the work for each request stands
    answer,    \* what its client was told
    queue,     \* tasks waiting for a thread
    threads,   \* threads of the pool
    fate,      \* the future of each publish
    stored,    \* records the broker has
    noting,    \* who notes the outcome of a publish, how far, in which slot
    outcome,   \* recentPublishOutcomes
    age,       \* age of recentPublishOutcomeTimes
    turn,      \* nextPublishOutcomeIndex
    blockAge,  \* age of kafkaSendBlockedTimes
    blockTurn  \* nextKafkaSendBlockedIndex

pool == <<queue, threads>>
kafka == <<fate, stored>>
outcomes == <<noting, outcome, age, turn>>
blocks == <<blockAge, blockTurn>>
vars == <<task, answer, pool, kafka, outcomes, blocks>>

Slots == 0 .. Window - 1
BlockSlots == 0 .. BlockWindow - 1
Ages == 0 .. AgeLimit
Counter == -(Wrap \div 2) .. Wrap \div 2 - 1

Nobody == [by |-> "nobody", did |-> "nothing", slot |-> 0]

\* Both arrays start as zeros: outcomes that read as failures, at times that
\* are too old to count.
Init ==
    /\ task = [r \in Requests |-> "new"]
    /\ answer = [r \in Requests |-> "none"]
    /\ queue = <<>>
    /\ threads = 0
    /\ fate = [r \in Requests |-> "unsent"]
    /\ stored = {}
    /\ noting = [r \in Requests |-> Nobody]
    /\ outcome = [s \in Slots |-> 0]
    /\ age = [s \in Slots |-> AgeLimit]
    /\ turn = 0
    /\ blockAge = [s \in BlockSlots |-> AgeLimit]
    /\ blockTurn = 0

-----------------------------------------------------------------------------
(* The windows.                                                            *)

\* getAndIncrement of an int.
Increment(n) == IF n + 1 \in Counter THEN n + 1 ELSE -(Wrap \div 2)

\* Java's remainder keeps the sign of the dividend.
JavaMod(n, m) == IF n >= 0 THEN n % m ELSE -((-n) % m)
Abs(n) == IF n < 0 THEN -n ELSE n

\* Mutant: the remainder of a counter that has wrapped is used as it is.
SignedIndex(n, m) == JavaMod(n, m)

Index(n, m) == Abs(JavaMod(n, m))

Counted == {s \in Slots : age[s] < AgeLimit}
Failing == {s \in Counted : outcome[s] = 0}

\* FAILURE_RATIO_THRESHOLD is one half.
Degraded ==
    /\ Cardinality(Counted) >= MinSamples
    /\ 2 * Cardinality(Failing) >= Cardinality(Counted)

SendBlocked ==
    Cardinality({s \in BlockSlots : blockAge[s] < AgeLimit}) >= BlockThreshold

\* Time passes for every entry.
Tick ==
    /\ age' = [s \in Slots |-> IF age[s] < AgeLimit THEN age[s] + 1 ELSE AgeLimit]
    /\ blockAge' = [s \in BlockSlots |->
           IF blockAge[s] < AgeLimit THEN blockAge[s] + 1 ELSE AgeLimit]
    /\ <<age, blockAge>>' # <<age, blockAge>>
    /\ UNCHANGED <<task, answer, pool, kafka, noting, outcome, turn, blockTurn>>

-----------------------------------------------------------------------------
(* The controller and its thread pool.                                     *)

\* setResult and setErrorResult: the first one counts.
Tell(r, what) == answer' = [answer EXCEPT ![r] = IF @ = "none" THEN what ELSE @]

Ends(r, what) ==
    /\ task' = [task EXCEPT ![r] = "done"]
    /\ Tell(r, what)

Moves(r, to) ==
    /\ task' = [task EXCEPT ![r] = to]
    /\ UNCHANGED answer

Running == {r \in Requests : task[r] \in {"begin", "send", "register", "note", "await"}}

\* trackClick: a core thread, else the queue, else a thread more, else no.
Submit(r) ==
    /\ task[r] = "new" /\ \A q \in Requests : q < r => task[q] # "new"
    /\ \/ /\ threads < Core
          /\ threads' = threads + 1
          /\ Moves(r, "begin")
          /\ UNCHANGED queue
       \/ /\ threads >= Core /\ Len(queue) < Capacity
          /\ queue' = Append(queue, r)
          /\ Moves(r, "queued")
          /\ UNCHANGED threads
       \/ /\ threads >= Core /\ Len(queue) = Capacity
          /\ threads < MaxThreads
          /\ threads' = threads + 1
          /\ Moves(r, "begin")
          /\ UNCHANGED queue
       \/ /\ threads = MaxThreads /\ Len(queue) = Capacity
          /\ Ends(r, "refused")
          /\ UNCHANGED pool
    /\ UNCHANGED <<kafka, outcomes, blocks>>

\* An idle thread takes the oldest task.
Take ==
    /\ queue # <<>> /\ Cardinality(Running) < threads
    /\ queue' = Tail(queue)
    /\ Moves(Head(queue), "begin")
    /\ UNCHANGED <<threads, kafka, outcomes, blocks>>

\* A thread above the core ends after a minute without work.
Shrink ==
    /\ queue = <<>> /\ threads > Core /\ Cardinality(Running) < threads
    /\ threads' = threads - 1
    /\ UNCHANGED <<task, answer, queue, kafka, outcomes, blocks>>

\* DeferredResult.onTimeout; the task goes on.
RequestTimesOut(r) ==
    /\ task[r] # "new" /\ answer[r] = "none"
    /\ Tell(r, "unavailable")
    /\ UNCHANGED <<task, pool, kafka, outcomes, blocks>>

-----------------------------------------------------------------------------
(* The worker.                                                             *)

\* Mutant: the windows are asked after the record is handed to the producer.
GateLater(r) ==
    /\ task[r] = "begin"
    /\ fate' = [fate EXCEPT ![r] = "pending"]
    /\ IF r \in Invalid \/ SendBlocked \/ Degraded THEN Ends(r, "refused")
       ELSE Moves(r, "send")
    /\ UNCHANGED <<pool, stored, outcomes, blocks>>

\* Validation, and the two windows before anything is sent.
Gate(r) ==
    /\ task[r] = "begin"
    /\ \/ (r \in Invalid \/ SendBlocked \/ Degraded) /\ Ends(r, "refused")
       \/ r \notin Invalid /\ ~SendBlocked /\ ~Degraded /\ Moves(r, "send")
    /\ UNCHANGED <<pool, kafka, outcomes, blocks>>

\* KafkaTemplate.send hands the record to the producer, or throws before: the
\* time is noted, and the future the worker waits for has failed already.
Send(r) ==
    /\ task[r] = "send"
    /\ \/ /\ fate' = [fate EXCEPT ![r] = "pending"]
          /\ Moves(r, "register")
          /\ UNCHANGED blocks
       \/ /\ blockAge' = [blockAge EXCEPT ![Index(blockTurn, BlockWindow)] = 0]
          /\ blockTurn' = Increment(blockTurn)
          /\ Ends(r, "unavailable")
          /\ UNCHANGED fate
    /\ UNCHANGED <<pool, stored, outcomes>>

\* whenComplete: a future that is complete already is noted by the worker.
Register(r) ==
    /\ task[r] = "register"
    /\ IF fate[r] = "pending"
       THEN Moves(r, "await") /\ UNCHANGED noting
       ELSE /\ Moves(r, "note")
            /\ noting' = [noting EXCEPT ![r].by = "worker"]
    /\ UNCHANGED <<pool, kafka, outcome, age, turn, blocks>>

\* Mutant: the worker waits for the future however long it takes.
WaitsForever(r) ==
    /\ task[r] = "await"
    /\ \/ fate[r] = "acked" /\ Ends(r, "acknowledged")
       \/ fate[r] = "failed" /\ Ends(r, "unavailable")
    /\ UNCHANGED <<pool, kafka, outcomes, blocks>>

\* Mutant: a record without an answer in time counts as accepted.
Optimistic(r) ==
    /\ task[r] = "await"
    /\ \/ fate[r] \in {"acked", "pending"} /\ Ends(r, "acknowledged")
       \/ fate[r] = "failed" /\ Ends(r, "unavailable")
    /\ UNCHANGED <<pool, kafka, outcomes, blocks>>

\* future.get(brokerAckTimeoutMs).
Await(r) ==
    /\ task[r] = "await"
    /\ \/ fate[r] = "acked" /\ Ends(r, "acknowledged")
       \/ fate[r] = "failed" /\ Ends(r, "unavailable")
       \/ fate[r] = "pending" /\ Ends(r, "unavailable")
    /\ UNCHANGED <<pool, kafka, outcomes, blocks>>

-----------------------------------------------------------------------------
(* The producer and its thread.                                            *)

\* The record reaches the broker.
Store(r) ==
    /\ fate[r] = "pending" /\ r \notin stored
    /\ stored' = stored \cup {r}
    /\ UNCHANGED <<task, answer, pool, fate, outcomes, blocks>>

\* One thread completes the futures and runs what was registered for them.
SenderBusy == \E r \in Requests : noting[r].by = "sender"

\* The future is complete: acknowledged, or failed although the broker may
\* have the record.
Settle(r) ==
    /\ fate[r] = "pending" /\ ~SenderBusy
    /\ \/ r \in stored /\ fate' = [fate EXCEPT ![r] = "acked"]
       \/ fate' = [fate EXCEPT ![r] = "failed"]
    /\ noting' = IF task[r] = "register" THEN noting
                 ELSE [noting EXCEPT ![r].by = "sender"]
    /\ UNCHANGED <<task, answer, pool, stored, outcome, age, turn, blocks>>

-----------------------------------------------------------------------------
(* recordPublishOutcome: the slot, then the outcome, then the time.        *)

ClaimSlot(r) ==
    /\ noting[r].by # "nobody" /\ noting[r].did = "nothing"
    /\ noting' = [noting EXCEPT ![r].did = "slot", ![r].slot = Index(turn, Window)]
    /\ turn' = Increment(turn)
    /\ UNCHANGED <<task, answer, pool, kafka, outcome, age, blocks>>

Verdict(r) == IF fate[r] = "acked" THEN 1 ELSE 0

\* Mutant: the time is written before the outcome.
TimeFirst(r) ==
    /\ noting[r].did = "slot"
    /\ age' = [age EXCEPT ![noting[r].slot] = 0]
    /\ noting' = [noting EXCEPT ![r].did = "outcome"]
    /\ UNCHANGED <<task, answer, pool, kafka, outcome, turn, blocks>>

WriteOutcome(r) ==
    /\ noting[r].did = "slot"
    /\ outcome' = [outcome EXCEPT ![noting[r].slot] = Verdict(r)]
    /\ noting' = [noting EXCEPT ![r].did = "outcome"]
    /\ UNCHANGED <<task, answer, pool, kafka, age, turn, blocks>>

\* The worker that notes goes on to wait for the future.
WriteTime(r) ==
    /\ noting[r].did = "outcome"
    /\ age' = [age EXCEPT ![noting[r].slot] = 0]
    /\ noting' = [noting EXCEPT ![r] = Nobody]
    /\ IF task[r] = "note" THEN Moves(r, "await") ELSE UNCHANGED <<task, answer>>
    /\ UNCHANGED <<pool, kafka, outcome, turn, blocks>>

-----------------------------------------------------------------------------

Worker(r) == Gate(r) \/ Send(r) \/ Register(r) \/ Await(r)
Note(r) == ClaimSlot(r) \/ WriteOutcome(r) \/ WriteTime(r)

\* What goes on inside the gateway, and what the broker does.
GatewayStep ==
    \/ \E r \in Requests :
          \/ Submit(r) \/ RequestTimesOut(r)
          \/ Worker(r) \/ Note(r)
          \/ Settle(r)
    \/ Take
    \/ Shrink
    \/ Tick

Next == GatewayStep \/ \E r \in Requests : Store(r)

Spec == Init /\ [][Next]_vars

-----------------------------------------------------------------------------
(* Properties.                                                             *)

Answers == {"none", "acknowledged", "refused", "unavailable"}

\* Types; the threads that work are threads of the pool, whose growth obeys
\* its limits; and a slot index is an index of the window also after the
\* counter has wrapped to negative values.
IngestTypeOK ==
    /\ task \in [Requests -> {"new", "queued", "begin", "send", "register",
                              "note", "await", "done"}]
    /\ answer \in [Requests -> Answers]
    /\ queue \in Seq(Requests) /\ Len(queue) <= Capacity
    /\ threads \in 0 .. MaxThreads /\ Cardinality(Running) <= threads
    /\ fate \in [Requests -> {"unsent", "pending", "acked", "failed"}]
    /\ stored \subseteq Requests
    /\ noting \in [Requests -> [by : {"nobody", "worker", "sender"},
                                did : {"nothing", "slot", "outcome"},
                                slot : Slots]]
    /\ outcome \in [Slots -> {0, 1}]
    /\ age \in [Slots -> Ages] /\ turn \in Counter
    /\ blockAge \in [BlockSlots -> Ages] /\ blockTurn \in Counter

\* "Accepts a click event only after the broker acknowledges persistence"
\* (EventController.java:53): whatever times out or fails in between, a client
\* that reads 200 has its click in Kafka.
AcknowledgedIsStored ==
    \A r \in Requests : answer[r] = "acknowledged" => r \in stored

\* An answer that says the click was refused before publishing is final: the
\* record is not in Kafka and never will be, so a client may post it again.
\* The other errors promise nothing of the kind.
RefusedIsUnsent ==
    \A r \in Requests :
        answer[r] = "refused" =>
            fate[r] = "unsent" /\ r \notin stored /\ task[r] = "done"

\* What the window counts did happen: with several threads writing outcomes and
\* times without a lock, and slots used again, no more failures (successes) are
\* counted than publishes have failed (were acknowledged).
OutcomesAreReal ==
    /\ Cardinality(Failing) <= Cardinality({r \in Requests : fate[r] = "failed"})
    /\ Cardinality(Counted \ Failing) <= Cardinality({r \in Requests : fate[r] = "acked"})

\* Whatever Kafka does or leaves undone, a click that was posted ends: until it
\* is done and answered some thread of the gateway can take a step.  (No click
\* goes round in a circle, so steps of the gateway end every click.)
NothingWaitsForKafka ==
    (\E r \in Requests : task[r] # "new" /\ (task[r] # "done" \/ answer[r] = "none")) =>
        ENABLED (Take \/ \E r \in Requests : Worker(r) \/ Note(r))
=============================================================================
