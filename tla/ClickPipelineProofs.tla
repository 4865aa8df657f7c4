------------------------ MODULE ClickPipelineProofs ------------------------
(***************************************************************************)
(* Proofs about ClickPipeline: it runs the loop of KafkaConsumerLoop, so   *)
(* what is proved of the loop holds of it; and it implements               *)
(* ClickDelivery, for every number of events, tiers, processes, crashes,   *)
(* redeliveries and ambiguous failures.                                    *)
(***************************************************************************)
EXTENDS ClickJourney, KafkaConsumerLoopProofs, WellFoundedInduction

-----------------------------------------------------------------------------
(* The inductive invariant.                                                *)

\* No process is ahead of the log, nor is the group.
InLog ==
    \A p \in Partitions :
        /\ committed[p] <= logEnd[p]
        /\ \A c \in Consumers : position[c][p] <= logEnd[p]

\* Each retry a record has on it was paid for by a failed upsert, and its
\* event was published to the main topic.
Earned(r) == r.retries <= failures[r.event] /\ Emitted(r.event)
LogEarned == \A p \in Partitions : \A i \in 1 .. Len(log[p]) : Earned(log[p][i])

\* A process inside process_message_internal holds a message of its batch; it
\* routes only what failed as often as the step it is at requires.
Busy(c) ==
    phase[c] = "process" /\ handling[c] \in Partitions /\ InBatch(c, handling[c])

Exhausted(e) == Kind[e] = "valid" => failures[e] = MaxRetries + 1

Routed(c) ==
    /\ step[c] # "idle" => Busy(c)
    /\ step[c] = "route" =>
           /\ Handled(c).retries < MaxRetries
           /\ Handled(c).retries < failures[Handled(c).event]
    /\ step[c] \in {"check", "send", "mark"} => Exhausted(Handled(c).event)
    /\ step[c] = "mark" =>
           \E d \in dlq : d.id = DlqId(handling[c], next[c][handling[c]])

\* The Lua script updates the features exactly when it sets the dedupe key.
AppliedOnce == \A e \in Events : applied[e] = IF e \in dedupe THEN 1 ELSE 0

CInv ==
    /\ IInv
    /\ ClickTypeOK
    /\ InLog
    /\ LogEarned
    /\ \A c \in Consumers : Routed(c)
    /\ AppliedOnce
    /\ DeadLetterEarned
    /\ MarkerTellsTruth

-----------------------------------------------------------------------------
(* Facts about the log.                                                    *)

\* Records are only ever added.
LogGrows ==
    \A p \in Partitions :
        /\ Len(log[p]) <= Len(log'[p])
        /\ \A i \in 1 .. Len(log[p]) : log'[p][i] = log[p][i]

\* A message of a batch is a record of its log.
LEMMA MessageInLog ==
  ASSUME CInv, NEW c \in Consumers, NEW p \in Partitions, InBatch(c, p)
  PROVE  /\ next[c][p] \in Nat
         /\ next[c][p] + 1 \in 1 .. Len(log[p])
         /\ Message(c, p) \in Record
         /\ Earned(Message(c, p))
<1>1. /\ next[c][p] \in Nat /\ position[c][p] \in Nat
      /\ next[c][p] < position[c][p]
      /\ position[c][p] <= Len(log[p])
      /\ log[p] \in Seq(Record)
  BY DEF CInv, IInv, TypeOK, ClickTypeOK, InLog, InBatch
<1>2. Len(log[p]) \in Nat
  BY <1>1
<1>3. next[c][p] + 1 \in 1 .. Len(log[p])
  BY <1>1, <1>2
<1> QED
  BY <1>1, <1>3 DEF Message, CInv, LogEarned

LEMMA EmittedStays ==
  ASSUME LogGrows, NEW e, Emitted(e), ClickAssumption,
         log \in [Partitions -> Seq(Record)], log' \in [Partitions -> Seq(Record)]
  PROVE  Emitted(e)'
<1>1. PICK i \in 1 .. Len(log[Main]) : log[Main][i].event = e
  BY DEF Emitted, Records
<1>2. Main \in Partitions
  BY DEF ClickAssumption
<1>3. Len(log[Main]) \in Nat /\ Len(log'[Main]) \in Nat
  BY <1>2
<1>4. i \in 1 .. Len(log'[Main]) /\ log'[Main][i].event = e
  BY <1>1, <1>2, <1>3 DEF LogGrows
<1> QED
  BY <1>4 DEF Emitted, Records

\* What appending r to the log of p does.
LEMMA AppendFacts ==
  ASSUME CInv, NEW p \in Partitions, NEW r \in Record, Append1(p, r)
  PROVE  /\ log' \in [Partitions -> Seq(Record)]
         /\ \A q \in Partitions : Len(log'[q]) = logEnd'[q]
         /\ LogGrows
         /\ \A q \in Partitions : \A i \in 1 .. Len(log'[q]) :
                log'[q][i] = r \/ (i \in 1 .. Len(log[q]) /\ log'[q][i] = log[q][i])
         /\ \A q \in Partitions : q # p => log'[q] = log[q]
         /\ log'[p][Len(log'[p])] = r /\ Len(log'[p]) \in 1 .. Len(log'[p])
<1>1. /\ log \in [Partitions -> Seq(Record)]
      /\ \A q \in Partitions : Len(log[q]) = logEnd[q]
      /\ logEnd \in [Partitions -> Nat]
  BY DEF CInv, IInv, TypeOK, ClickTypeOK
<1>2. /\ log' = [log EXCEPT ![p] = Append(@, r)]
      /\ logEnd' = [logEnd EXCEPT ![p] = @ + 1]
  BY DEF Append1, Produce
<1>3. Append(log[p], r) \in Seq(Record) /\ Len(Append(log[p], r)) = Len(log[p]) + 1
      /\ Len(log[p]) \in Nat
      /\ \A i \in 1 .. Len(log[p]) : Append(log[p], r)[i] = log[p][i]
      /\ Append(log[p], r)[Len(log[p]) + 1] = r
  BY <1>1
<1>4. log'[p] = Append(log[p], r) /\ \A q \in Partitions : q # p => log'[q] = log[q]
  BY <1>1, <1>2
<1>5. log' \in [Partitions -> Seq(Record)]
  BY <1>1, <1>2, <1>3
<1>6. \A q \in Partitions : Len(log'[q]) = logEnd'[q]
  BY <1>1, <1>2, <1>3, <1>4
<1>7. LogGrows
  <2>1. /\ Len(log[p]) <= Len(log'[p])
        /\ \A i \in 1 .. Len(log[p]) : log'[p][i] = log[p][i]
    BY <1>3, <1>4
  <2>2. \A q \in Partitions : Len(log[q]) \in Nat
    BY <1>1
  <2> QED
    BY <2>1, <2>2, <1>4 DEF LogGrows
<1>8. \A q \in Partitions : \A i \in 1 .. Len(log'[q]) :
          log'[q][i] = r \/ (i \in 1 .. Len(log[q]) /\ log'[q][i] = log[q][i])
  BY <1>3, <1>4
<1>9. log'[p][Len(log'[p])] = r /\ Len(log'[p]) \in 1 .. Len(log'[p])
  BY <1>3, <1>4
<1> QED
  BY <1>4, <1>5, <1>6, <1>7, <1>8, <1>9

-----------------------------------------------------------------------------
(* The invariant is preserved: what every step has in common.              *)

\* The record grows: nothing that was published, dead-lettered or counted is
\* forgotten.
Monotone ==
    /\ LogGrows
    /\ dlq \subseteq dlq'
    /\ \A e \in Events : failures[e] <= failures'[e]

\* The step leaves process c where it is in its message.
Undisturbed(c) ==
    /\ step'[c] = step[c]
    /\ handling'[c] = handling[c]
    /\ phase'[c] = phase[c]
    /\ next'[c] = next[c]
    /\ position'[c] = position[c]

\* A process that stays where it is still has the same message.
LEMMA SameMessage ==
  ASSUME CInv, LogGrows, NEW c \in Consumers, Busy(c), handling'[c] = handling[c],
         phase'[c] = phase[c], next'[c] = next[c], position'[c] = position[c]
  PROVE  /\ Busy(c)'
         /\ Handled(c)' = Handled(c)
         /\ DlqId(handling[c], next[c][handling[c]])' =
                DlqId(handling[c], next[c][handling[c]])
         /\ Handled(c) \in Record
         /\ Earned(Handled(c))
<1> DEFINE p == handling[c]
           o == next[c][p]
<1>1. p \in Partitions /\ InBatch(c, p)
  BY DEF Busy
<1>2. /\ o \in Nat
      /\ o + 1 \in 1 .. Len(log[p])
      /\ Message(c, p) \in Record
      /\ Earned(Message(c, p))
  BY <1>1, MessageInLog
<1>3. log'[p][o + 1] = log[p][o + 1]
  BY <1>1, <1>2 DEF LogGrows
<1>4. Handled(c)' = Handled(c)
  BY <1>3 DEF Handled, Message
<1>5. DlqId(handling[c], next[c][handling[c]])' =
          DlqId(handling[c], next[c][handling[c]])
  BY <1>3 DEF DlqId
<1>6. Busy(c)'
  BY DEF Busy, InBatch
<1> QED
  BY <1>2, <1>4, <1>5, <1>6 DEF Handled

LEMMA RoutedStays ==
  ASSUME CInv, Monotone, ClickTypeOK', NEW c \in Consumers, Undisturbed(c),
         ClickAssumption
  PROVE  Routed(c)'
<1>1. CASE step[c] = "idle"
  BY <1>1 DEF Routed, Undisturbed
<1>2. CASE step[c] # "idle"
  <2>1. Busy(c) /\ Routed(c)
    BY <1>2 DEF CInv, Routed
  <2>2. /\ Busy(c)'
        /\ Handled(c)' = Handled(c)
        /\ DlqId(handling[c], next[c][handling[c]])' =
               DlqId(handling[c], next[c][handling[c]])
        /\ Handled(c) \in Record
    BY <2>1, SameMessage DEF Undisturbed, Monotone
  <2> DEFINE e == Handled(c).event
  <2>3. /\ e \in Events /\ Handled(c).retries \in Nat
        /\ failures[e] \in Nat /\ failures'[e] \in Nat
        /\ failures[e] <= failures'[e] /\ failures'[e] <= MaxRetries + 1
        /\ MaxRetries \in Nat
    <3>1. e \in Events /\ Handled(c).retries \in 0 .. MaxRetries
      BY <2>2 DEF Record
    <3>2. MaxRetries \in Nat /\ MaxRetries + 1 \in Nat
      BY DEF ClickAssumption
    <3>3. failures[e] \in 0 .. MaxRetries + 1 /\ failures'[e] \in 0 .. MaxRetries + 1
      BY <3>1 DEF CInv, ClickTypeOK
    <3> QED
      BY <3>1, <3>2, <3>3 DEF Monotone
  <2>4. step'[c] = step[c]
    BY DEF Undisturbed
  <2>5. step'[c] = "route" =>
            /\ Handled(c)'.retries < MaxRetries
            /\ Handled(c)'.retries < failures'[Handled(c)'.event]
    BY <2>1, <2>2, <2>3, <2>4 DEF Routed
  <2>6. step'[c] \in {"check", "send", "mark"} => Exhausted(Handled(c).event)'
    <3>1. Exhausted(e) => (Kind[e] = "valid" => failures'[e] = MaxRetries + 1)
      BY <2>3 DEF Exhausted
    <3> QED
      BY <3>1, <2>1, <2>2, <2>4 DEF Routed, Exhausted
  <2>7. step'[c] = "mark" =>
            \E d \in dlq' : d.id = DlqId(handling[c], next[c][handling[c]])'
    BY <2>1, <2>2, <2>4 DEF Routed, Monotone
  <2> QED
    BY <2>2, <2>5, <2>6, <2>7 DEF Routed
<1> QED
  BY <1>1, <1>2

\* What a step owes the invariant: it may interrupt a process or leave it
\* alone, and whatever it adds to a log, to the DLQ or to the markers is
\* accounted for.
Accountable ==
    /\ Monotone
    /\ \A p \in Partitions : \A i \in 1 .. Len(log'[p]) :
           \/ i \in 1 .. Len(log[p]) /\ log'[p][i] = log[p][i]
           \/ Earned(log[p][i])'
    /\ \A c \in Consumers : Undisturbed(c) \/ step'[c] = "idle" \/ Routed(c)'
    /\ \A d \in dlq' : d \in dlq \/ Exhausted(d.event)'
    /\ \A id \in marks' : id \in marks \/ \E d \in dlq' : d.id = id

LEMMA AccountableSuffices ==
  ASSUME CInv, IInv', ClickTypeOK', InLog', AppliedOnce', Accountable,
         ClickAssumption
  PROVE  CInv'
<1>1. \A c \in Consumers : Routed(c)'
  <2> SUFFICES ASSUME NEW c \in Consumers PROVE Routed(c)'
    OBVIOUS
  <2>1. CASE Undisturbed(c)
    BY <2>1, RoutedStays DEF Accountable
  <2>2. CASE step'[c] = "idle"
    BY <2>2 DEF Routed
  <2> QED
    BY <2>1, <2>2 DEF Accountable
<1>2. LogEarned'
  <2> SUFFICES ASSUME NEW p \in Partitions, NEW i \in 1 .. Len(log'[p])
               PROVE  Earned(log[p][i])'
    BY DEF LogEarned
  <2>1. CASE i \in 1 .. Len(log[p]) /\ log'[p][i] = log[p][i]
    <3>0. PICK r \in Record : r = log[p][i]
      BY <2>1 DEF CInv, ClickTypeOK
    <3>1. Earned(r)
      BY <2>1, <3>0 DEF CInv, LogEarned
    <3>2. Emitted(r.event)'
      BY <3>1, EmittedStays DEF Earned, CInv, ClickTypeOK, Accountable, Monotone
    <3>3. r.retries <= failures'[r.event]
      <4>1. r.event \in Events /\ r.retries \in 0 .. MaxRetries
        BY DEF Record
      <4>2. failures[r.event] \in 0 .. MaxRetries + 1
            /\ failures'[r.event] \in 0 .. MaxRetries + 1
        BY <4>1 DEF CInv, ClickTypeOK
      <4>3. failures[r.event] <= failures'[r.event] /\ r.retries <= failures[r.event]
        BY <3>1, <4>1 DEF Accountable, Monotone, Earned
      <4> QED
        BY <4>1, <4>2, <4>3
    <3> QED
      BY <2>1, <3>0, <3>2, <3>3 DEF Earned
  <2> QED
    BY <2>1 DEF Accountable
<1>3. DeadLetterEarned'
  <2> SUFFICES ASSUME NEW d \in dlq', Kind[d.event] = "valid"
               PROVE  failures'[d.event] = MaxRetries + 1
    BY DEF DeadLetterEarned
  <2>1. CASE d \in dlq
    <3>1. d.event \in Events
      BY DEF ClickTypeOK
    <3>2. failures'[d.event] \in 0 .. MaxRetries + 1 /\ MaxRetries \in Nat
      BY <3>1 DEF ClickTypeOK, ClickAssumption
    <3>3. failures[d.event] = MaxRetries + 1 /\ failures[d.event] <= failures'[d.event]
      BY <2>1, <3>1 DEF CInv, DeadLetterEarned, Accountable, Monotone
    <3> QED
      BY <3>2, <3>3
  <2> QED
    BY <2>1 DEF Accountable, Exhausted
<1>4. MarkerTellsTruth'
  <2>1. \A id \in marks : \E d \in dlq' : d.id = id
    BY DEF CInv, MarkerTellsTruth, Accountable, Monotone
  <2> QED
    BY <2>1 DEF MarkerTellsTruth, Accountable
<1> QED
  BY <1>1, <1>2, <1>3, <1>4 DEF CInv

\* A step that touches neither a log, Redis, the DLQ nor the failure counts.
LEMMA LoopOnlyAccountable ==
  ASSUME CInv, UNCHANGED <<log, marks, dlq, failures>>,
         \A c \in Consumers : Undisturbed(c) \/ step'[c] = "idle" \/ Routed(c)'
  PROVE  Accountable
<1>1. LogGrows
  <2>1. \A p \in Partitions : Len(log[p]) \in Nat
    BY DEF CInv, ClickTypeOK
  <2> QED
    BY <2>1 DEF LogGrows
<1>2. \A e \in Events : failures[e] <= failures'[e]
  BY DEF CInv, ClickTypeOK
<1> QED
  BY <1>1, <1>2 DEF Accountable, Monotone

-----------------------------------------------------------------------------
(* The loop's part of the invariant.                                       *)

LEMMA StepInLog ==
  ASSUME IInv, InLog, [Next]_vars
  PROVE  InLog'
<1>0. /\ \A p \in Partitions : logEnd[p] \in Nat /\ committed[p] \in Nat
      /\ \A c \in Consumers, p \in Partitions :
             position[c][p] \in Nat /\ pending[c][p] \in Nat
  BY DEF IInv, TypeOK
<1>1. ASSUME NEW p \in Partitions, Produce(p) PROVE InLog'
  <2>1. \A q \in Partitions : logEnd[q] <= logEnd'[q] /\ logEnd'[q] \in Nat
    BY <1>0, <1>1 DEF Produce, IInv, TypeOK
  <2>2. UNCHANGED <<committed, position>>
    BY <1>1 DEF Produce, client
  <2> QED
    BY <1>0, <2>1, <2>2 DEF InLog
<1>2. ASSUME NEW g \in Groups, RebalanceStep(g) PROVE InLog'
  <2>1. PICK M \in SUBSET MembersOf(g) :
            \E A \in [M -> SUBSET PartitionsOf(g)] : Rebalance(g, M, A)
    BY <1>2 DEF RebalanceStep
  <2> QED
    BY <2>1 DEF Rebalance, InLog
<1>3. ASSUME NEW c \in Consumers, NEW n \in Fetches, NEW r \in SUBSET Partitions,
             Poll(c, n, r)
      PROVE  InLog'
  <2>1. UNCHANGED <<logEnd, committed>>
    BY <1>3 DEF Poll, broker
  <2>2. \A d \in Consumers, p \in Partitions :
            position'[d][p] = IF d = c THEN position[d][p] + n[p] ELSE position[d][p]
    BY <1>3 DEF Poll, IInv, TypeOK
  <2>3. \A p \in Partitions :
            n[p] \in Nat /\ (n[p] > 0 => position[c][p] + n[p] <= logEnd[p])
    BY <1>3, LoopAssumption DEF Poll, Readable, Fetches
  <2>4. \A p \in Partitions : position[c][p] + n[p] <= logEnd[p]
    <3> SUFFICES ASSUME NEW p \in Partitions PROVE position[c][p] + n[p] <= logEnd[p]
      OBVIOUS
    <3>1. CASE n[p] = 0
      BY <3>1, <1>0 DEF InLog
    <3> QED
      BY <3>1, <2>3
  <2> QED
    BY <2>1, <2>2, <2>4 DEF InLog
<1>4. ASSUME NEW c \in Consumers, Exit(c), UNCHANGED logEnd,
             \A p \in Partitions : committed'[p] <= logEnd[p]
      PROVE  InLog'
  <2>1. \A d \in Consumers, p \in Partitions :
            position'[d][p] = IF d = c THEN 0 ELSE position[d][p]
    BY <1>4 DEF Exit, NoOffsets, IInv, TypeOK
  <2> QED
    BY <1>0, <1>4, <2>1 DEF InLog
<1>5. ASSUME NEW c \in Consumers, phase[c] = "commit", ~fenced[c]
      PROVE  \A p \in Partitions : Committed(c)[p] <= logEnd[p]
  <2> SUFFICES ASSUME NEW p \in Partitions PROVE Committed(c)[p] <= logEnd[p]
    OBVIOUS
  <2>1. committed[p] <= logEnd[p] /\ position[c][p] <= logEnd[p]
    BY DEF InLog
  <2>2. pending[c][p] > 0 => pending[c][p] <= position[c][p]
    BY <1>5 DEF IInv, BatchOwned
  <2>3. Committed(c)[p] = IF pending[c][p] > 0 THEN pending[c][p] ELSE committed[p]
    BY DEF Committed
  <2> QED
    BY <1>0, <2>1, <2>2, <2>3
<1>6. ASSUME NEW c \in Consumers, Commit(c) PROVE InLog'
  BY <1>5, <1>6 DEF Commit, client, InLog
<1>7. ASSUME NEW c \in Consumers, CommitFails(c) PROVE InLog'
  BY <1>4, <1>5, <1>7 DEF CommitFails, InLog
<1>8. ASSUME NEW c \in Consumers, PollRaises(c) \/ Crash(c) PROVE InLog'
  BY <1>4, <1>8 DEF PollRaises, Crash, broker, InLog
<1>9. CASE UNCHANGED <<logEnd, committed, position>>
  BY <1>9 DEF InLog
<1> QED
  BY <1>1, <1>2, <1>3, <1>6, <1>7, <1>8, <1>9
  DEF Next, PollStep, ProcessStep, ProcessMessage, BackoffExpires, Restart,
      broker, client, vars

\* A process is in a message only inside the loop's process phase.
LEMMA IdleOutsideProcess ==
  ASSUME CInv, NEW c \in Consumers, phase[c] # "process"
  PROVE  step[c] = "idle"
  BY DEF CInv, Routed, Busy

\* A process's own step of the loop moves no other process and no log.
OwnStep(c) ==
    PollStep(c) \/ PollRaises(c) \/ ProcessStep(c) \/ Commit(c)
    \/ CommitFails(c) \/ Crash(c) \/ Restart(c)

LEMMA OwnStepFacts ==
  ASSUME IInv, NEW c \in Consumers, OwnStep(c)
  PROVE  /\ logEnd' = logEnd
         /\ \A d \in Consumers \ {c} :
                /\ phase'[d] = phase[d]
                /\ next'[d] = next[d]
                /\ position'[d] = position[d]
                /\ current'[d] = current[d]
<1>0. TypeOK
  BY DEF IInv
<1>1. CASE PollStep(c)
  <2>1. PICK n \in Fetches, r \in SUBSET Partitions : Poll(c, n, r)
    BY <1>1 DEF PollStep
  <2> QED
    BY <1>0, <2>1 DEF Poll, broker, TypeOK
<1>2. CASE Exit(c) /\ UNCHANGED logEnd
  BY <1>0, <1>2 DEF Exit, TypeOK
<1>3. CASE PollRaises(c) \/ CommitFails(c) \/ Crash(c)
  BY <1>2, <1>3 DEF PollRaises, CommitFails, Crash, broker
<1>4. CASE ProcessStep(c)
  <2>1. PICK p \in Partitions, out \in Outcomes : ProcessMessage(c, p, out)
    BY <1>4 DEF ProcessStep
  <2> QED
    BY <1>0, <2>1 DEF ProcessMessage, broker, TypeOK
<1>5. CASE Commit(c)
  BY <1>0, <1>5 DEF Commit, client, batch, TypeOK
<1>6. CASE Restart(c)
  BY <1>0, <1>6 DEF Restart, broker, client, batch, TypeOK
<1> QED
  BY <1>1, <1>3, <1>4, <1>5, <1>6 DEF OwnStep

-----------------------------------------------------------------------------
(* The invariant is preserved: step by step.                               *)

\* Steps that leave the logs, Redis, the DLQ and the counts alone.
LEMMA QuietStepInv ==
  ASSUME CInv, IInv', InLog', ClickAssumption,
         UNCHANGED <<logEnd, log, redis, dlq, failures>>,
         ripe' \subseteq Partitions \X Nat,
         step' \in [Consumers -> Steps],
         handling' \in [Consumers -> Partitions \cup {NoPartition}],
         \A c \in Consumers : Undisturbed(c) \/ step'[c] = "idle" \/ Routed(c)'
  PROVE  CInv'
<1>1. UNCHANGED <<dedupe, applied, marks>>
  BY DEF redis
<1>2. ClickTypeOK'
  BY <1>1 DEF CInv, ClickTypeOK
<1>3. AppliedOnce'
  BY <1>1 DEF CInv, AppliedOnce
<1>4. Accountable
  BY <1>1, LoopOnlyAccountable
<1> QED
  BY <1>2, <1>3, <1>4, AccountableSuffices

\* A rebalance finds its members in poll(): no message is being processed.
LEMMA RegroupFacts ==
  ASSUME CInv, NEW g \in Groups, Regroup(g)
  PROVE  /\ UNCHANGED <<logEnd, phase, log, ripe, redis, dlq, router, failures, done>>
         /\ \A c \in Consumers : Undisturbed(c) \/ step'[c] = "idle"
<1>1. PICK M \in SUBSET MembersOf(g) :
          \E A \in [M -> SUBSET PartitionsOf(g)] : Rebalance(g, M, A)
  BY DEF Regroup, RebalanceStep
<1>2. PICK A \in [M -> SUBSET PartitionsOf(g)] : Rebalance(g, M, A)
  BY <1>1
<1>3. UNCHANGED <<logEnd, phase, log, ripe, redis, dlq, router, failures, done>>
  BY <1>2 DEF Rebalance, Regroup, history
<1>4. ASSUME NEW c \in Consumers PROVE Undisturbed(c) \/ step'[c] = "idle"
  <2>1. CASE c \in M
    <3>1. phase[c] = "poll"
      BY <1>2, <2>1 DEF Rebalance
    <3> QED
      BY <3>1, <1>3, IdleOutsideProcess DEF router
  <2>2. CASE c \notin M
    BY <2>2, <1>2, <1>3 DEF Rebalance, Undisturbed, router, CInv, IInv, TypeOK
  <2> QED
    BY <2>1, <2>2
<1> QED
  BY <1>3, <1>4

LEMMA RegroupInv ==
  ASSUME CInv, IInv', InLog', ClickAssumption, NEW g \in Groups, Regroup(g)
  PROVE  CInv'
<1>1. /\ UNCHANGED <<logEnd, log, ripe, redis, dlq, router, failures>>
      /\ \A c \in Consumers : Undisturbed(c) \/ step'[c] = "idle"
  BY RegroupFacts
<1>2. /\ ripe' \subseteq Partitions \X Nat
      /\ step' \in [Consumers -> Steps]
      /\ handling' \in [Consumers -> Partitions \cup {NoPartition}]
  BY <1>1 DEF CInv, ClickTypeOK, router
<1> QED
  BY <1>1, <1>2, QuietStepInv

\* Steps of the loop that reach no message, and those that end one without a
\* trace outside the loop.
LEMMA LoopStepFacts ==
  ASSUME CInv, NEW c \in Consumers,
         \/ LoopTurn(c)
         \/ Die(c)
         \/ Return(c)
         \/ \E p \in Partitions : DeferMessage(c, p) \/ UpdateRaises(c, p)
  PROVE  /\ UNCHANGED <<logEnd, log, ripe, redis, dlq, failures>>
         /\ step' \in [Consumers -> Steps]
         /\ handling' \in [Consumers -> Partitions \cup {NoPartition}]
         /\ \A d \in Consumers : Undisturbed(d) \/ step'[d] = "idle"
<1>1. OwnStep(c)
  <2>1. CASE LoopTurn(c) \/ Die(c)
    BY <2>1 DEF LoopTurn, Die, OwnStep
  <2>2. CASE Return(c)
    <3>1. handling[c] \in Partitions
      BY <2>2 DEF Return, CInv, Routed, Busy
    <3> QED
      BY <2>2, <3>1 DEF Return, OwnStep, ProcessStep, Outcomes
  <2>3. CASE \E p \in Partitions : DeferMessage(c, p) \/ UpdateRaises(c, p)
    BY <2>3 DEF DeferMessage, UpdateRaises, OwnStep, ProcessStep, Outcomes
  <2> QED
    BY <2>1, <2>2, <2>3
<1>2. /\ UNCHANGED <<log, ripe, redis, dlq, failures>>
      /\ \/ UNCHANGED router /\ step[c] = "idle"
         \/ /\ step' = [step EXCEPT ![c] = "idle"]
            /\ handling' = [handling EXCEPT ![c] = NoPartition]
  <2>1. CASE LoopTurn(c)
    <3>1. phase[c] # "process"
      BY <2>1 DEF LoopTurn, PollStep, Poll, PollRaises, Commit, CommitFails, Restart
    <3> QED
      BY <2>1, <3>1, IdleOutsideProcess DEF LoopTurn
  <2>2. CASE Die(c) \/ Return(c)
    BY <2>2 DEF Die, Return
  <2>3. CASE \E p \in Partitions : DeferMessage(c, p) \/ UpdateRaises(c, p)
    BY <2>3 DEF DeferMessage, UpdateRaises, MayHandle
  <2> QED
    BY <2>1, <2>2, <2>3
<1>3. /\ step' \in [Consumers -> Steps]
      /\ handling' \in [Consumers -> Partitions \cup {NoPartition}]
  BY <1>2 DEF CInv, ClickTypeOK, router, Steps
<1>4. \A d \in Consumers : Undisturbed(d) \/ step'[d] = "idle"
  BY <1>1, <1>2, OwnStepFacts DEF Undisturbed, CInv, ClickTypeOK, router
<1>5. logEnd' = logEnd
  BY <1>1, OwnStepFacts DEF CInv
<1> QED
  BY <1>2, <1>3, <1>4, <1>5

LEMMA LoopStepInv ==
  ASSUME CInv, IInv', InLog', ClickAssumption, NEW c \in Consumers,
         \/ LoopTurn(c)
         \/ Die(c)
         \/ Return(c)
         \/ \E p \in Partitions : DeferMessage(c, p) \/ UpdateRaises(c, p)
  PROVE  CInv'
<1>1. /\ UNCHANGED <<logEnd, log, ripe, redis, dlq, failures>>
      /\ step' \in [Consumers -> Steps]
      /\ handling' \in [Consumers -> Partitions \cup {NoPartition}]
      /\ \A d \in Consumers : Undisturbed(d) \/ step'[d] = "idle"
  BY LoopStepFacts
<1>2. ripe' \subseteq Partitions \X Nat
  BY <1>1 DEF CInv, ClickTypeOK
<1> QED
  BY <1>1, <1>2, QuietStepInv

LEMMA WaitInv ==
  ASSUME CInv, IInv', InLog', ClickAssumption,
         \/ \E p \in Partitions, o \in Nat : Ripen(p, o)
         \/ \E c \in Consumers, p \in Partitions : ResumeFallsDue(c, p)
         \/ UNCHANGED clickVars
  PROVE  CInv'
<1>1. /\ UNCHANGED <<logEnd, phase, next, position, log, redis, dlq, router, failures>>
      /\ ripe' \subseteq Partitions \X Nat
  <2>1. CASE \E p \in Partitions, o \in Nat : Ripen(p, o)
    BY <2>1 DEF Ripen, vars, broker, client, batch, CInv, ClickTypeOK
  <2>2. CASE \E c \in Consumers, p \in Partitions : ResumeFallsDue(c, p)
    BY <2>2 DEF ResumeFallsDue, BackoffExpires, broker, client, batch, CInv,
                ClickTypeOK
  <2>3. CASE UNCHANGED clickVars
    BY <2>3 DEF clickVars, vars, broker, client, batch, CInv, ClickTypeOK
  <2> QED
    BY <2>1, <2>2, <2>3
<1>2. \A c \in Consumers : Undisturbed(c)
  BY <1>1 DEF Undisturbed, router
<1>3. /\ step' \in [Consumers -> Steps]
      /\ handling' \in [Consumers -> Partitions \cup {NoPartition}]
  BY <1>1 DEF CInv, ClickTypeOK, router
<1> QED
  BY <1>1, <1>2, <1>3, QuietStepInv

\* A step that appends one earned record to a log.
LEMMA AppendInv ==
  ASSUME CInv, IInv', InLog', ClickAssumption,
         NEW p \in Partitions, NEW r \in Record, Append1(p, r), Earned(r)',
         UNCHANGED <<ripe, redis, dlq, failures>>,
         step' \in [Consumers -> Steps], handling' = handling,
         \A c \in Consumers : Undisturbed(c) \/ step'[c] = "idle" \/ Routed(c)'
  PROVE  CInv'
<1>1. /\ log' \in [Partitions -> Seq(Record)]
      /\ \A q \in Partitions : Len(log'[q]) = logEnd'[q]
      /\ LogGrows
      /\ \A q \in Partitions : \A i \in 1 .. Len(log'[q]) :
             log'[q][i] = r \/ (i \in 1 .. Len(log[q]) /\ log'[q][i] = log[q][i])
  BY AppendFacts
<1>2. ClickTypeOK'
  BY <1>1 DEF CInv, ClickTypeOK, redis
<1>3. AppliedOnce'
  BY DEF CInv, AppliedOnce, redis
<1>4. \A q \in Partitions : \A i \in 1 .. Len(log'[q]) :
          \/ i \in 1 .. Len(log[q]) /\ log'[q][i] = log[q][i]
          \/ Earned(log[q][i])'
  BY <1>1 DEF Earned, Emitted, Records
<1>5. Accountable
  <2>1. \A e \in Events : failures[e] <= failures'[e]
    BY DEF CInv, ClickTypeOK
  <2> QED
    BY <1>1, <1>4, <2>1 DEF Accountable, Monotone, redis
<1> QED
  BY <1>2, <1>3, <1>5, AccountableSuffices

LEMMA EmitInv ==
  ASSUME CInv, IInv', InLog', ClickAssumption, NEW e \in Events, Emit(e)
  PROVE  CInv'
<1> DEFINE r == [event |-> e, retries |-> 0]
<1>1. r \in Record /\ Main \in Partitions /\ Append1(Main, r)
  BY DEF Emit, Record, ClickAssumption
<1>2. Earned(r)'
  <2>1. log'[Main][Len(log'[Main])] = r /\ Len(log'[Main]) \in 1 .. Len(log'[Main])
    BY <1>1, AppendFacts
  <2>2. Emitted(e)'
    BY <2>1 DEF Emitted, Records
  <2>3. 0 <= failures'[e]
    BY DEF Emit, CInv, ClickTypeOK
  <2> QED
    BY <2>2, <2>3 DEF Earned
<1>3. UNCHANGED <<phase, next, position, ripe, redis, dlq, step, handling, failures>>
  BY <1>1 DEF Emit, Append1, Produce, client, batch, router
<1>4. \A c \in Consumers : Undisturbed(c)
  BY <1>3 DEF Undisturbed
<1>5. step' \in [Consumers -> Steps]
  BY <1>3 DEF CInv, ClickTypeOK
<1> QED
  BY <1>1, <1>2, <1>3, <1>4, <1>5, AppendInv

\* What the Lua script does to Redis.
LEMMA UpsertFacts ==
  ASSUME CInv, NEW e \in Events, Upsert(e)
  PROVE  /\ dedupe' \subseteq Events
         /\ applied' \in [Events -> Nat]
         /\ AppliedOnce'
         /\ marks' = marks
<1>1. /\ dedupe' = dedupe \cup {e}
      /\ applied' = [applied EXCEPT ![e] = IF e \in dedupe THEN @ ELSE @ + 1]
      /\ dedupe \subseteq Events /\ applied \in [Events -> Nat]
      /\ \A x \in Events : applied[x] = IF x \in dedupe THEN 1 ELSE 0
  BY DEF Upsert, CInv, ClickTypeOK, AppliedOnce
<1>2. ASSUME NEW x \in Events PROVE applied'[x] = IF x \in dedupe' THEN 1 ELSE 0
  <2>1. CASE x = e
    BY <1>1, <2>1
  <2>2. CASE x # e
    BY <1>1, <2>2
  <2> QED
    BY <2>1, <2>2
<1>3. applied' \in [Events -> Nat]
  BY <1>1
<1> QED
  BY <1>1, <1>2, <1>3 DEF AppliedOnce, Upsert

LEMMA UpdateSucceedsInv ==
  ASSUME CInv, IInv', InLog', ClickAssumption,
         NEW c \in Consumers, NEW p \in Partitions, UpdateSucceeds(c, p)
  PROVE  CInv'
<1>1. InBatch(c, p) /\ step[c] = "idle" /\ OwnStep(c)
  BY DEF UpdateSucceeds, MayHandle, OwnStep, ProcessStep, Outcomes
<1>2. PICK e \in Events : e = Message(c, p).event
  BY <1>1, MessageInLog DEF Record
<1>3. /\ dedupe' \subseteq Events
      /\ applied' \in [Events -> Nat]
      /\ AppliedOnce'
      /\ marks' = marks
  BY <1>2, UpsertFacts DEF UpdateSucceeds
<1>4. UNCHANGED <<log, ripe, dlq, step, handling, failures>>
  BY DEF UpdateSucceeds, router
<1>5. /\ logEnd' = logEnd
      /\ \A d \in Consumers \ {c} : Undisturbed(d)
  BY <1>1, <1>4, OwnStepFacts DEF CInv, Undisturbed
<1>6. ClickTypeOK'
  BY <1>3, <1>4, <1>5 DEF CInv, ClickTypeOK
<1>7. Accountable
  BY <1>1, <1>3, <1>4, <1>5, LoopOnlyAccountable
<1> QED
  BY <1>3, <1>6, <1>7, AccountableSuffices

\* While a process routes a message, it and everybody else stay put.
LEMMA RoutingFacts ==
  ASSUME CInv, ClickAssumption, NEW c \in Consumers, Busy(c),
         UNCHANGED <<phase, next, position>>, LogGrows,
         handling' = handling, NEW s \in Steps, step' = [step EXCEPT ![c] = s]
  PROVE  /\ step' \in [Consumers -> Steps]
         /\ step'[c] = s
         /\ \A d \in Consumers \ {c} : Undisturbed(d)
         /\ Busy(c)'
         /\ Handled(c)' = Handled(c)
         /\ DlqId(handling[c], next[c][handling[c]])' =
                DlqId(handling[c], next[c][handling[c]])
         /\ Handled(c) \in Record
         /\ Earned(Handled(c))
  BY SameMessage DEF CInv, ClickTypeOK, Undisturbed

LEMMA UpdateFailsInv ==
  ASSUME CInv, IInv', InLog', ClickAssumption,
         NEW c \in Consumers, NEW p \in Partitions, UpdateFails(c, p)
  PROVE  CInv'
<1>1. InBatch(c, p) /\ phase[c] = "process"
  BY DEF UpdateFails, MayHandle
<1>2. PICK r \in Record : r = Message(c, p) /\ Earned(r)
  BY <1>1, MessageInLog
<1>3. /\ r.event \in Events /\ r.retries \in Nat /\ r.retries <= MaxRetries
      /\ MaxRetries \in Nat
      /\ failures[r.event] \in Nat /\ failures[r.event] <= MaxRetries + 1
      /\ r.retries <= failures[r.event]
  BY <1>2 DEF Record, ClickAssumption, CInv, ClickTypeOK, Earned
<1>4. /\ Kind[r.event] = "valid"
      /\ failures' = [failures EXCEPT ![r.event] = IF @ <= MaxRetries THEN @ + 1 ELSE @]
      /\ step' = [step EXCEPT ![c] = StepAfterFailure(r)]
      /\ handling' = [handling EXCEPT ![c] = p]
      /\ UNCHANGED <<logEnd, phase, next, position, log, ripe, dlq>>
  BY <1>2 DEF UpdateFails, vars, broker, client, batch
<1>5. /\ dedupe' \subseteq Events
      /\ applied' \in [Events -> Nat]
      /\ AppliedOnce'
      /\ marks' = marks
  <2>1. CASE Upsert(r.event)
    BY <2>1, <1>3, UpsertFacts
  <2>2. CASE UNCHANGED redis
    BY <2>2 DEF redis, CInv, ClickTypeOK, AppliedOnce
  <2> QED
    BY <1>2, <2>1, <2>2 DEF UpdateFails
<1>6. /\ failures' \in [Events -> 0 .. MaxRetries + 1]
      /\ \A e \in Events : failures[e] <= failures'[e]
      /\ failures'[r.event] =
             IF failures[r.event] <= MaxRetries THEN failures[r.event] + 1
             ELSE failures[r.event]
  BY <1>3, <1>4 DEF CInv, ClickTypeOK
<1>7. ClickTypeOK'
  BY <1>4, <1>5, <1>6 DEF CInv, ClickTypeOK, StepAfterFailure, Steps
<1>8. LogGrows
  BY <1>4 DEF LogGrows, CInv, ClickTypeOK
<1>9. \A d \in Consumers \ {c} : Undisturbed(d)
  BY <1>4 DEF Undisturbed, CInv, ClickTypeOK
<1>10. Routed(c)'
  <2>1. /\ step'[c] = StepAfterFailure(r)
        /\ handling'[c] = p
    BY <1>4 DEF CInv, ClickTypeOK
  <2>2. Busy(c)'
    BY <1>1, <1>4, <2>1 DEF Busy, InBatch
  <2>3. Handled(c)' = r
    BY <1>2, <1>4, <2>1 DEF Handled, Message
  <2>4. CASE r.retries + 1 <= MaxRetries
    <3>1. step'[c] = "route"
      BY <2>1, <2>4 DEF StepAfterFailure
    <3>2. r.retries < MaxRetries /\ r.retries < failures'[r.event]
      BY <1>3, <1>6, <2>4
    <3> QED
      BY <2>2, <2>3, <3>1, <3>2 DEF Routed
  <2>5. CASE ~(r.retries + 1 <= MaxRetries)
    <3>1. step'[c] = "check"
      BY <2>1, <2>5 DEF StepAfterFailure
    <3>2. failures'[r.event] = MaxRetries + 1
      BY <1>3, <1>6, <2>5
    <3> QED
      BY <2>2, <2>3, <3>1, <3>2 DEF Routed, Exhausted
  <2> QED
    BY <2>4, <2>5
<1>11. Accountable
  BY <1>4, <1>5, <1>6, <1>8, <1>9, <1>10 DEF Accountable, Monotone
<1> QED
  BY <1>5, <1>7, <1>11, AccountableSuffices

LEMMA RejectInv ==
  ASSUME CInv, IInv', InLog', ClickAssumption,
         NEW c \in Consumers, NEW p \in Partitions, Reject(c, p)
  PROVE  CInv'
<1>1. /\ InBatch(c, p) /\ phase[c] = "process"
      /\ Kind[Message(c, p).event] # "valid"
      /\ step' = [step EXCEPT ![c] = "check"]
      /\ handling' = [handling EXCEPT ![c] = p]
      /\ UNCHANGED <<logEnd, phase, next, position, log, ripe, redis, dlq, failures>>
  BY DEF Reject, MayHandle, vars, broker, client, batch
<1>2. step'[c] = "check" /\ handling'[c] = p
  BY <1>1 DEF CInv, ClickTypeOK
<1>3. Busy(c)' /\ Handled(c)' = Message(c, p)
  BY <1>1, <1>2 DEF Busy, InBatch, Handled, Message
<1>4. Routed(c)'
  BY <1>1, <1>2, <1>3 DEF Routed, Exhausted
<1>5. \A d \in Consumers \ {c} : Undisturbed(d)
  BY <1>1 DEF Undisturbed, CInv, ClickTypeOK
<1>6. /\ ripe' \subseteq Partitions \X Nat
      /\ step' \in [Consumers -> Steps]
      /\ handling' \in [Consumers -> Partitions \cup {NoPartition}]
  BY <1>1 DEF CInv, ClickTypeOK, Steps
<1> QED
  BY <1>1, <1>4, <1>5, <1>6, QuietStepInv

LEMMA SendRetryFacts ==
  ASSUME CInv, ClickAssumption, NEW c \in Consumers, step[c] = "route"
  PROVE  /\ Busy(c) /\ Handled(c) \in Record /\ Earned(Handled(c))
         /\ Handled(c).retries + 1 \in 1 .. MaxRetries
         /\ Handled(c).retries < failures[Handled(c).event]
         /\ Tier[Handled(c).retries + 1] \in Partitions \ {Main}
<1>1. Busy(c) /\ Routed(c)
  BY DEF CInv, Routed
<1>2. Handled(c) \in Record /\ Earned(Handled(c))
  BY <1>1, MessageInLog DEF Busy, Handled
<1>3. Handled(c).retries \in 0 .. MaxRetries /\ MaxRetries \in Nat
  BY <1>2 DEF Record, ClickAssumption
<1>4. Handled(c).retries + 1 \in 1 .. MaxRetries
  BY <1>1, <1>3 DEF Routed
<1> QED
  BY <1>1, <1>2, <1>4 DEF Routed, ClickAssumption

LEMMA SendRetryInv ==
  ASSUME CInv, IInv', InLog', ClickAssumption, NEW c \in Consumers, SendRetry(c)
  PROVE  CInv'
<1>1. step[c] = "route"
  BY DEF SendRetry
<1>2. Busy(c) /\ Handled(c).retries + 1 \in 1 .. MaxRetries
  BY <1>1, SendRetryFacts
<1>3. PICK h \in Record : h = Handled(c) /\ Earned(h) /\ h.retries < failures[h.event]
  BY <1>1, SendRetryFacts
<1> DEFINE k == h.retries + 1
           copy == [event |-> h.event, retries |-> k]
<1>4. copy \in Record /\ Tier[k] \in Partitions /\ h.event \in Events
  BY <1>1, <1>2, <1>3, SendRetryFacts DEF Record
<1>5. PICK s \in {"safe", "unsafe"} :
          /\ step' = [step EXCEPT ![c] = s]
          /\ handling' = handling
          /\ \/ Append1(Tier[k], copy)
             \/ UNCHANGED <<vars, log>>
  BY <1>3 DEF SendRetry, Goto
<1>6. UNCHANGED <<ripe, redis, dlq, failures>>
  BY DEF SendRetry
<1>7. CASE Append1(Tier[k], copy)
  <2>1. LogGrows
    BY <1>4, <1>7, AppendFacts
  <2>2. UNCHANGED <<phase, next, position>>
    BY <1>7 DEF Append1, Produce, client, batch
  <2>3. /\ step' \in [Consumers -> Steps]
        /\ step'[c] = s
        /\ \A d \in Consumers \ {c} : Undisturbed(d)
        /\ Busy(c)'
    BY <1>2, <1>5, <2>1, <2>2, RoutingFacts DEF Steps
  <2>4. Earned(copy)'
    <3>1. Emitted(h.event)'
      BY <1>3, <1>4, <1>7, <2>1, AppendFacts, EmittedStays
      DEF CInv, ClickTypeOK, Earned
    <3>2. k <= failures'[h.event]
      BY <1>3, <1>4, <1>6 DEF CInv, ClickTypeOK, Record, ClickAssumption
    <3> QED
      BY <3>1, <3>2 DEF Earned
  <2>5. Routed(c)'
    BY <2>3 DEF Routed
  <2> QED
    BY <1>4, <1>5, <1>6, <1>7, <2>3, <2>4, <2>5, AppendInv
<1>8. CASE UNCHANGED <<vars, log>>
  <2>1. UNCHANGED <<logEnd, phase, next, position, log>>
    BY <1>8 DEF vars, broker, client, batch
  <2>2. LogGrows
    BY <2>1 DEF LogGrows, CInv, ClickTypeOK
  <2>3. /\ step' \in [Consumers -> Steps]
        /\ step'[c] = s
        /\ \A d \in Consumers \ {c} : Undisturbed(d)
        /\ Busy(c)'
    BY <1>2, <1>5, <2>1, <2>2, RoutingFacts DEF Steps
  <2>4. Routed(c)'
    BY <2>3 DEF Routed
  <2>5. /\ ripe' \subseteq Partitions \X Nat
        /\ handling' \in [Consumers -> Partitions \cup {NoPartition}]
    BY <1>5, <1>6 DEF CInv, ClickTypeOK
  <2> QED
    BY <1>6, <2>1, <2>3, <2>4, <2>5, QuietStepInv
<1> QED
  BY <1>5, <1>7, <1>8

\* A process on its way to the DLQ has a message that is malformed or has used
\* up its attempts.
LEMMA DlqFacts ==
  ASSUME CInv, ClickAssumption, NEW c \in Consumers,
         step[c] \in {"check", "send", "mark"}
  PROVE  /\ Busy(c)
         /\ Exhausted(Handled(c).event)
         /\ Handled(c) \in Record
         /\ DlqId(handling[c], next[c][handling[c]]) \in DlqIds
<1>1. Busy(c) /\ Exhausted(Handled(c).event)
  BY DEF CInv, Routed
<1> DEFINE p == handling[c]
<1>2. p \in Partitions /\ Message(c, p) \in Record /\ next[c][p] \in Nat
  BY <1>1, MessageInLog DEF Busy
<1>3. DlqId(p, next[c][p]) \in DlqIds
  BY <1>2 DEF DlqId, DlqIds, Message, Record
<1> QED
  BY <1>1, <1>2, <1>3 DEF Handled

LEMMA CheckMarkerInv ==
  ASSUME CInv, IInv', InLog', ClickAssumption, NEW c \in Consumers, CheckMarker(c)
  PROVE  CInv'
<1>1. PICK s \in {"safe", "send"} :
          step' = [step EXCEPT ![c] = s] /\ handling' = handling
  BY DEF CheckMarker, Goto
<1>2. /\ step[c] = "check"
      /\ UNCHANGED <<logEnd, phase, next, position, log, ripe, redis, dlq, failures>>
  BY DEF CheckMarker, vars, broker, client, batch
<1>3. Busy(c) /\ Exhausted(Handled(c).event)
  BY <1>2, DlqFacts
<1>4. LogGrows
  BY <1>2 DEF LogGrows, CInv, ClickTypeOK
<1>5. /\ step' \in [Consumers -> Steps]
      /\ step'[c] = s
      /\ \A d \in Consumers \ {c} : Undisturbed(d)
      /\ Busy(c)'
      /\ Handled(c)' = Handled(c)
  BY <1>1, <1>2, <1>3, <1>4, RoutingFacts DEF Steps
<1>6. Routed(c)'
  BY <1>2, <1>3, <1>5 DEF Routed, Exhausted
<1>7. /\ ripe' \subseteq Partitions \X Nat
      /\ handling' \in [Consumers -> Partitions \cup {NoPartition}]
  BY <1>1, <1>2 DEF CInv, ClickTypeOK
<1> QED
  BY <1>2, <1>5, <1>6, <1>7, QuietStepInv

LEMMA SendDlqInv ==
  ASSUME CInv, IInv', InLog', ClickAssumption, NEW c \in Consumers, SendDlq(c)
  PROVE  CInv'
<1>1. /\ step[c] = "send"
      /\ UNCHANGED <<logEnd, phase, next, position, log, ripe, redis, failures>>
  BY DEF SendDlq, vars, broker, client, batch
<1>2. /\ Busy(c) /\ Exhausted(Handled(c).event)
      /\ DlqId(handling[c], next[c][handling[c]]) \in DlqIds
  BY <1>1, DlqFacts
<1>3. PICK h \in Record : h = Handled(c)
  BY <1>1, DlqFacts
<1>4. PICK id \in DlqIds : id = DlqId(handling[c], next[c][handling[c]])
  BY <1>2
<1> DEFINE entry == [id |-> id, event |-> h.event, retries |-> h.retries]
<1>5. PICK s \in {"mark", "unsafe"} :
          /\ step' = [step EXCEPT ![c] = s]
          /\ handling' = handling
          /\ dlq' \in {dlq, dlq \cup {entry}}
          /\ s = "mark" => entry \in dlq'
  BY <1>3, <1>4 DEF SendDlq, Goto
<1>6. LogGrows
  BY <1>1 DEF LogGrows, CInv, ClickTypeOK
<1>7. /\ step' \in [Consumers -> Steps]
      /\ step'[c] = s
      /\ \A d \in Consumers \ {c} : Undisturbed(d)
      /\ Busy(c)'
      /\ Handled(c)' = h
      /\ DlqId(handling[c], next[c][handling[c]])' = id
  BY <1>1, <1>2, <1>3, <1>4, <1>5, <1>6, RoutingFacts DEF Steps
<1>8. Exhausted(h.event)
  BY <1>2, <1>3
<1>9. Routed(c)'
  <2>1. s = "mark" => \E d \in dlq' : d.id = id
    BY <1>5
  <2> QED
    BY <1>1, <1>7, <1>8, <2>1 DEF Routed, Exhausted
<1>10. ClickTypeOK'
  <2>1. entry \in [id : DlqIds, event : Events, retries : 0 .. MaxRetries]
    BY <1>3, <1>4 DEF Record
  <2> QED
    BY <1>1, <1>5, <1>7, <2>1 DEF CInv, ClickTypeOK, redis
<1>11. AppliedOnce'
  BY <1>1 DEF CInv, AppliedOnce, redis
<1>12. Accountable
  <2>1. Monotone
    BY <1>1, <1>5, <1>6 DEF Monotone, CInv, ClickTypeOK
  <2>2. \A d \in dlq' : d \in dlq \/ Exhausted(d.event)'
    BY <1>1, <1>5, <1>8 DEF Exhausted
  <2> QED
    BY <1>1, <1>7, <1>9, <2>1, <2>2 DEF Accountable, redis, CInv, ClickTypeOK
<1> QED
  BY <1>10, <1>11, <1>12, AccountableSuffices

LEMMA MarkDlqInv ==
  ASSUME CInv, IInv', InLog', ClickAssumption, NEW c \in Consumers, MarkDlq(c)
  PROVE  CInv'
<1>1. /\ step[c] = "mark"
      /\ step' = [step EXCEPT ![c] = "safe"]
      /\ handling' = handling
      /\ UNCHANGED <<logEnd, phase, next, position, log, ripe, dedupe, applied,
                     dlq, failures>>
  BY DEF MarkDlq, Goto, vars, broker, client, batch
<1>2. PICK id \in DlqIds : id = DlqId(handling[c], next[c][handling[c]])
  BY <1>1, DlqFacts
<1>3. /\ marks' \in {marks, marks \cup {id}}
      /\ \E d \in dlq : d.id = id
      /\ Busy(c)
  BY <1>1, <1>2 DEF MarkDlq, CInv, Routed
<1>4. LogGrows
  BY <1>1 DEF LogGrows, CInv, ClickTypeOK
<1>5. /\ step' \in [Consumers -> Steps]
      /\ step'[c] = "safe"
      /\ \A d \in Consumers \ {c} : Undisturbed(d)
      /\ Busy(c)'
  BY <1>1, <1>3, <1>4, RoutingFacts DEF Steps
<1>6. Routed(c)'
  BY <1>5 DEF Routed
<1>7. ClickTypeOK'
  BY <1>1, <1>2, <1>3, <1>5 DEF CInv, ClickTypeOK
<1>8. AppliedOnce'
  BY <1>1 DEF CInv, AppliedOnce
<1>9. Accountable
  BY <1>1, <1>3, <1>4, <1>5, <1>6
  DEF Accountable, Monotone, CInv, ClickTypeOK
<1> QED
  BY <1>7, <1>8, <1>9, AccountableSuffices

-----------------------------------------------------------------------------
(* The invariance theorem.                                                 *)

LEMMA InitCInv == ClickInit => CInv
<1> SUFFICES ASSUME ClickInit PROVE CInv
  OBVIOUS
<1>1. IInv
  BY InitIInv DEF ClickInit
<1>2. log = [p \in Partitions |-> <<>>] /\ logEnd = NoOffsets /\ committed = NoOffsets
      /\ position = [c \in Consumers |-> NoOffsets]
  BY DEF ClickInit, Init, LoopInit
<1>3. ClickTypeOK
  <2>1. log \in [Partitions -> Seq(Record)]
        /\ \A p \in Partitions : Len(log[p]) = logEnd[p]
    BY <1>2 DEF NoOffsets
  <2>2. 0 \in 0 .. MaxRetries + 1
    BY ClickAssumption DEF ClickAssumption
  <2> QED
    BY <2>1, <2>2 DEF ClickInit, ClickTypeOK, Steps
<1>4. InLog
  BY <1>2 DEF InLog, NoOffsets
<1>5. LogEarned
  BY <1>2 DEF LogEarned
<1>6. (\A c \in Consumers : Routed(c)) /\ AppliedOnce
      /\ DeadLetterEarned /\ MarkerTellsTruth
  BY DEF ClickInit, Routed, AppliedOnce, DeadLetterEarned, MarkerTellsTruth
<1> QED
  BY <1>1, <1>3, <1>4, <1>5, <1>6 DEF CInv

\* Every step of the pipeline is a step of the loop, or none.
LEMMA StepOfLoop ==
  ASSUME CInv, [ClickNext]_clickVars
  PROVE  [Next]_vars
<1>1. ASSUME NEW c \in Consumers, OwnStep(c) PROVE Next
  BY <1>1 DEF OwnStep, Next
<1>2. ASSUME NEW p \in Partitions, Produce(p) PROVE Next
  BY <1>2 DEF Next
<1>3. ASSUME NEW e \in Events, Emit(e) PROVE Next
  BY <1>2, <1>3, ClickAssumption DEF Emit, Append1, ClickAssumption
<1>4. ASSUME NEW g \in Groups, Regroup(g) PROVE Next
  BY <1>4 DEF Regroup, Next
<1>5. ASSUME NEW c \in Consumers, NEW p \in Partitions, ResumeFallsDue(c, p)
      PROVE  Next
  BY <1>5 DEF ResumeFallsDue, Next
<1>6. ASSUME NEW c \in Consumers, NEW p \in Partitions, Handle(c, p)
      PROVE  [Next]_vars
  BY <1>1, <1>6 DEF Handle, DeferMessage, UpdateRaises, UpdateSucceeds,
                    UpdateFails, Reject, OwnStep, ProcessStep, Outcomes
<1>7. ASSUME NEW c \in Consumers, LoopTurn(c) \/ Die(c) PROVE Next
  BY <1>1, <1>7 DEF LoopTurn, Die, OwnStep
<1>8. ASSUME NEW c \in Consumers, Route(c) PROVE [Next]_vars
  <2>1. CASE SendRetry(c)
    <3>1. Tier[Handled(c).retries + 1] \in Partitions
      BY <2>1, SendRetryFacts, ClickAssumption DEF SendRetry
    <3> QED
      BY <2>1, <3>1, <1>2 DEF SendRetry, Append1
  <2>2. CASE CheckMarker(c) \/ SendDlq(c) \/ MarkDlq(c)
    BY <2>2 DEF CheckMarker, SendDlq, MarkDlq
  <2>3. CASE Return(c)
    <3>1. handling[c] \in Partitions
      BY <2>3 DEF Return, CInv, Routed, Busy
    <3> QED
      BY <2>3, <3>1, <1>1 DEF Return, OwnStep, ProcessStep, Outcomes
  <2> QED
    BY <1>8, <2>1, <2>2, <2>3 DEF Route
<1>9. CASE UNCHANGED vars
  BY <1>9
<1> QED
  BY <1>3, <1>4, <1>5, <1>6, <1>7, <1>8, <1>9 DEF ClickNext, ConsumerStep, Ripen, clickVars

LEMMA StepCInv == CInv /\ [ClickNext]_clickVars => CInv'
<1> SUFFICES ASSUME CInv, [ClickNext]_clickVars PROVE CInv'
  OBVIOUS
<1>1. [Next]_vars
  BY StepOfLoop
<1>2. IInv' /\ InLog'
  BY <1>1, StepIInv, StepInLog DEF CInv
<1>3. ASSUME NEW e \in Events, Emit(e) PROVE CInv'
  BY <1>2, <1>3, EmitInv, ClickAssumption
<1>4. ASSUME NEW g \in Groups, Regroup(g) PROVE CInv'
  BY <1>2, <1>4, RegroupInv, ClickAssumption
<1>5. ASSUME NEW c \in Consumers, NEW p \in Partitions, Handle(c, p) PROVE CInv'
  BY <1>2, <1>5, LoopStepInv, UpdateSucceedsInv, UpdateFailsInv, RejectInv,
     ClickAssumption DEF Handle
<1>6. ASSUME NEW c \in Consumers, LoopTurn(c) \/ Die(c) PROVE CInv'
  BY <1>2, <1>6, LoopStepInv, ClickAssumption
<1>7. ASSUME NEW c \in Consumers, Route(c) PROVE CInv'
  BY <1>2, <1>7, SendRetryInv, CheckMarkerInv, SendDlqInv, MarkDlqInv,
     LoopStepInv, ClickAssumption DEF Route
<1>8. ASSUME \/ \E p \in Partitions, o \in Nat : Ripen(p, o)
             \/ \E c \in Consumers, p \in Partitions : ResumeFallsDue(c, p)
             \/ UNCHANGED clickVars
      PROVE  CInv'
  BY <1>2, <1>8, WaitInv, ClickAssumption
<1>9. 0 .. MaxOffset \subseteq Nat
  OBVIOUS
<1> QED
  BY <1>3, <1>4, <1>5, <1>6, <1>7, <1>8, <1>9 DEF ClickNext, ConsumerStep

THEOREM ClickInvariance == ClickSpec => []CInv
<1>1. CInv /\ [ClickNext]_clickVars => CInv'
  BY StepCInv
<1> QED
  BY <1>1, InitCInv, PTL DEF ClickSpec

-----------------------------------------------------------------------------
(* What follows.                                                           *)

\* Processing messages is a refinement of the loop: whatever process_fn does,
\* what is proved of KafkaConsumerLoop holds of the pipeline.
THEOREM ImplementsLoop == ClickSpec => Spec
<1>1. ClickInit => Init
  BY DEF ClickInit
<1>2. CInv /\ [ClickNext]_clickVars => [Next]_vars
  BY StepOfLoop
<1> QED
  BY <1>1, <1>2, ClickInvariance, PTL DEF ClickSpec, Spec

\* The pipeline commits no offset that was neither safe nor polled past.
THEOREM PipelineCommitIsJustified == ClickSpec => []CommitJustified
  BY ImplementsLoop, CommitIsJustified, PTL

\* Every variable of the pipeline keeps its type, and the log has as many
\* records as the broker counts.
THEOREM ClickTypeCorrect == ClickSpec => []ClickTypeOK
<1>1. CInv => ClickTypeOK
  BY DEF CInv
<1> QED
  BY <1>1, ClickInvariance, PTL

\* No event updates the features twice, whatever is redelivered, retried or
\* applied by a call whose answer was lost (redis_feature_writer.py:118-124).
THEOREM MaterializedOnce == ClickSpec => []EffectivelyOnce
<1>1. CInv => EffectivelyOnce
  BY DEF CInv, AppliedOnce, EffectivelyOnce
<1> QED
  BY <1>1, ClickInvariance, PTL

\* A valid event in the DLQ has used its first attempt and every retry
\* (retry_router.py:283-384).
THEOREM DeadLettersAreEarned == ClickSpec => []DeadLetterEarned
<1>1. CInv => DeadLetterEarned
  BY DEF CInv
<1> QED
  BY <1>1, ClickInvariance, PTL

\* The marker never suppresses a DLQ send of a message the DLQ does not have
\* (retry_router.py:460-542).
THEOREM MarkersTellTruth == ClickSpec => []MarkerTellsTruth
<1>1. CInv => MarkerTellsTruth
  BY DEF CInv
<1> QED
  BY <1>1, ClickInvariance, PTL

-----------------------------------------------------------------------------
(* Every loss is one the loop polled past.                                 *)

\* What is known of a message whose offset may be committed: its event is
\* settled, or a copy with more retries on it went to a log.
Retried(r) ==
    \E p \in Partitions : \E i \in 1 .. Len(log[p]) :
        log[p][i].event = r.event /\ log[p][i].retries > r.retries
Dealt(r) == Settled(r.event) \/ Retried(r)
DealtAt(p, o) == o + 1 \in 1 .. Len(log[p]) /\ Dealt(log[p][o + 1])

\* A dead letter's id is its event, or the place of the anonymous message.
NamesEvent(d) ==
    IF Kind[d.event] = "anonymous"
    THEN \E p \in Partitions : \E o \in Nat :
             /\ d.id = <<p, o>>
             /\ o + 1 \in 1 .. Len(log[p])
             /\ log[p][o + 1].event = d.event
    ELSE d.id = d.event

SafeIsDealt(c) ==
    /\ step[c] = "safe" => Dealt(Handled(c))
    /\ step[c] = "mark" => DeadLettered(Handled(c).event)

LossInv ==
    /\ \A p \in Partitions : logEnd[p] <= MaxOffset
    /\ \A p \in Partitions : \A o \in done[p] : DealtAt(p, o)
    /\ \A d \in dlq : NamesEvent(d)
    /\ \A c \in Consumers : SafeIsDealt(c)

\* What a step owes this invariant.
Lossless ==
    /\ LogGrows
    /\ dlq \subseteq dlq'
    /\ \A e \in Events : applied[e] > 0 => applied'[e] > 0
    /\ \A p \in Partitions : \A o \in done'[p] : o \in done[p] \/ DealtAt(p, o)'
    /\ \A d \in dlq' : d \in dlq \/ NamesEvent(d)'
    /\ \A c \in Consumers :
           Undisturbed(c) \/ step'[c] \notin {"safe", "mark"} \/ SafeIsDealt(c)'

\* What has been dealt with stays so.
LEMMA DealtStays ==
  ASSUME CInv, ClickTypeOK', LogGrows, dlq \subseteq dlq',
         \A e \in Events : applied[e] > 0 => applied'[e] > 0,
         NEW r \in Record, Dealt(r)
  PROVE  Dealt(r)'
<1>1. CASE Settled(r.event)
  <2>1. r.event \in Events
    BY DEF Record
  <2> QED
    BY <1>1, <2>1 DEF Settled, DeadLettered, Dealt
<1>2. CASE Retried(r)
  <2>0. PICK p \in Partitions : \E i \in 1 .. Len(log[p]) :
            log[p][i].event = r.event /\ log[p][i].retries > r.retries
    BY <1>2 DEF Retried
  <2>1. PICK i \in 1 .. Len(log[p]) :
            log[p][i].event = r.event /\ log[p][i].retries > r.retries
    BY <2>0
  <2>2. Len(log[p]) \in Nat /\ Len(log'[p]) \in Nat
    BY DEF CInv, ClickTypeOK
  <2>3. i \in 1 .. Len(log'[p]) /\ log'[p][i] = log[p][i]
    BY <2>1, <2>2 DEF LogGrows
  <2>4. Retried(r)'
    BY <2>1, <2>3 DEF Retried
  <2> QED
    BY <2>4 DEF Dealt
<1> QED
  BY <1>1, <1>2 DEF Dealt

LEMMA LosslessSuffices ==
  ASSUME CInv, CInv', LossInv, Lossless,
         \A p \in Partitions : logEnd'[p] <= MaxOffset
  PROVE  LossInv'
<1>0. ClickTypeOK /\ ClickTypeOK'
  BY DEF CInv
<1>1. ASSUME NEW p \in Partitions, NEW o \in done'[p] PROVE DealtAt(p, o)'
  <2>1. CASE o \in done[p]
    <3>1. o + 1 \in 1 .. Len(log[p]) /\ Dealt(log[p][o + 1])
      BY <2>1 DEF LossInv, DealtAt
    <3>2. PICK r \in Record : r = log[p][o + 1]
      BY <1>0, <3>1 DEF ClickTypeOK
    <3>3. Len(log[p]) \in Nat /\ Len(log'[p]) \in Nat
      BY <1>0 DEF ClickTypeOK
    <3>4. o + 1 \in 1 .. Len(log'[p]) /\ log'[p][o + 1] = r
      BY <3>1, <3>2, <3>3 DEF Lossless, LogGrows
    <3>5. Dealt(r)'
      BY <1>0, <3>1, <3>2, DealtStays DEF Lossless
    <3> QED
      BY <3>4, <3>5 DEF DealtAt
  <2> QED
    BY <2>1 DEF Lossless
<1>2. ASSUME NEW d \in dlq' PROVE NamesEvent(d)'
  <2>1. CASE d \in dlq /\ Kind[d.event] = "anonymous"
    <3>1. PICK p \in Partitions, o \in Nat :
              /\ d.id = <<p, o>>
              /\ o + 1 \in 1 .. Len(log[p])
              /\ log[p][o + 1].event = d.event
      BY <2>1 DEF LossInv, NamesEvent
    <3>2. Len(log[p]) \in Nat /\ Len(log'[p]) \in Nat
      BY <1>0 DEF ClickTypeOK
    <3>3. o + 1 \in 1 .. Len(log'[p]) /\ log'[p][o + 1] = log[p][o + 1]
      BY <3>1, <3>2 DEF Lossless, LogGrows
    <3> QED
      BY <2>1, <3>1, <3>3 DEF NamesEvent
  <2>2. CASE d \in dlq /\ Kind[d.event] # "anonymous"
    BY <2>2 DEF LossInv, NamesEvent
  <2> QED
    BY <2>1, <2>2 DEF Lossless
<1>3. ASSUME NEW c \in Consumers PROVE SafeIsDealt(c)'
  <2>1. CASE Undisturbed(c) /\ step[c] \in {"safe", "mark"}
    <3>1. Busy(c)
      BY <2>1 DEF CInv, Routed
    <3>2. Handled(c)' = Handled(c) /\ Handled(c) \in Record
      BY <2>1, <3>1, SameMessage DEF Undisturbed, Lossless
    <3>3. PICK r \in Record : r = Handled(c)
      BY <3>2
    <3>4. step'[c] = step[c]
      BY <2>1 DEF Undisturbed
    <3>5. step[c] = "safe" => Dealt(r)'
      BY <1>0, <3>3, DealtStays DEF LossInv, SafeIsDealt, Lossless
    <3>6. step[c] = "mark" => DeadLettered(r.event)'
      BY <3>3 DEF LossInv, SafeIsDealt, Lossless, DeadLettered
    <3> QED
      BY <3>2, <3>3, <3>4, <3>5, <3>6 DEF SafeIsDealt
  <2>2. CASE step'[c] \notin {"safe", "mark"}
    BY <2>2 DEF SafeIsDealt
  <2>3. CASE Undisturbed(c) /\ step[c] \notin {"safe", "mark"}
    BY <2>3 DEF SafeIsDealt, Undisturbed
  <2> QED
    BY <2>1, <2>2, <2>3 DEF Lossless
<1> QED
  BY <1>1, <1>2, <1>3 DEF LossInv

\* A step that leaves the logs, the features and the DLQ alone.
LEMMA QuietIsLossless ==
  ASSUME CInv, UNCHANGED <<log, dlq>>,
         \A e \in Events : applied[e] > 0 => applied'[e] > 0,
         \A p \in Partitions : \A o \in done'[p] : o \in done[p] \/ DealtAt(p, o)',
         \A c \in Consumers :
             Undisturbed(c) \/ step'[c] \notin {"safe", "mark"} \/ SafeIsDealt(c)'
  PROVE  Lossless
<1>1. LogGrows
  BY DEF LogGrows, CInv, ClickTypeOK
<1> QED
  BY <1>1 DEF Lossless

\* done grows by the message the loop was told is safe.
LEMMA DoneFacts ==
  ASSUME IInv, NEW c \in Consumers, NEW p \in Partitions, NEW out \in Outcomes,
         ProcessMessage(c, p, out)
  PROVE  \A q \in Partitions : \A o \in done'[q] :
             o \in done[q] \/ (out = "safe" /\ q = p /\ o = next[c][p])
<1>1. /\ done' = [done EXCEPT ![p] = IF out = "safe" THEN @ \cup {next[c][p]} ELSE @]
      /\ done \in [Partitions -> SUBSET Nat]
  BY DEF ProcessMessage, IInv, TypeOK
<1> QED
  BY <1>1

\* The Lua script takes back no event.
LEMMA UpsertKeeps ==
  ASSUME CInv, NEW e \in Events, Upsert(e)
  PROVE  /\ applied'[e] > 0
         /\ \A x \in Events : applied[x] > 0 => applied'[x] > 0
<1>1. /\ applied' = [applied EXCEPT ![e] = IF e \in dedupe THEN @ ELSE @ + 1]
      /\ applied \in [Events -> Nat]
      /\ applied[e] = IF e \in dedupe THEN 1 ELSE 0
  BY DEF Upsert, CInv, ClickTypeOK, AppliedOnce
<1> QED
  BY <1>1

LEMMA ReturnIsLossless ==
  ASSUME CInv, LossInv, NEW c \in Consumers, Return(c)
  PROVE  Lossless
<1>1. /\ UNCHANGED <<log, redis, dlq>>
      /\ \A d \in Consumers : Undisturbed(d) \/ step'[d] = "idle"
  BY LoopStepFacts
<1>2. /\ Busy(c) /\ step[c] \in Outcomes
      /\ ProcessMessage(c, handling[c], step[c])
  BY DEF Return, Outcomes, CInv, Routed
<1>3. step[c] = "safe" => DealtAt(handling[c], next[c][handling[c]])
  <2>1. /\ next[c][handling[c]] + 1 \in 1 .. Len(log[handling[c]])
        /\ handling[c] \in Partitions
    BY <1>2, MessageInLog DEF Busy
  <2>2. step[c] = "safe" => Dealt(Handled(c))
    BY DEF LossInv, SafeIsDealt
  <2> QED
    BY <2>1, <2>2 DEF DealtAt, Handled, Message
<1>4. ASSUME NEW q \in Partitions, NEW o \in done'[q]
      PROVE  o \in done[q] \/ DealtAt(q, o)
  BY <1>2, <1>3, <1>4, DoneFacts DEF Busy, CInv
<1>5. UNCHANGED <<log, applied, dlq>>
  BY <1>1 DEF redis
<1>6. \A q \in Partitions : \A o \in Nat : DealtAt(q, o)' <=> DealtAt(q, o)
  BY <1>5 DEF DealtAt, Dealt, Settled, DeadLettered, Retried
<1>7. \A q \in Partitions : done'[q] \subseteq Nat
  <2>1. next[c][handling[c]] \in Nat
    BY <1>2, MessageInLog DEF Busy
  <2> QED
    BY <1>2, <2>1, DoneFacts DEF Busy, CInv, IInv, TypeOK
<1> QED
  BY <1>1, <1>4, <1>5, <1>6, <1>7, QuietIsLossless

LEMMA UpdateSucceedsIsLossless ==
  ASSUME CInv, NEW c \in Consumers, NEW p \in Partitions, UpdateSucceeds(c, p)
  PROVE  Lossless
<1>1. /\ InBatch(c, p) /\ step[c] = "idle" /\ OwnStep(c)
      /\ ProcessMessage(c, p, "safe")
      /\ Upsert(Message(c, p).event)
      /\ UNCHANGED <<log, dlq, step, handling>>
  BY DEF UpdateSucceeds, MayHandle, OwnStep, ProcessStep, Outcomes, router
<1>2. PICK e \in Events : e = Message(c, p).event
  BY <1>1, MessageInLog DEF Record
<1>3. applied'[e] > 0 /\ \A x \in Events : applied[x] > 0 => applied'[x] > 0
  BY <1>1, <1>2, UpsertKeeps
<1>4. \A d \in Consumers : Undisturbed(d) \/ step'[d] = "idle"
  BY <1>1, OwnStepFacts DEF CInv, Undisturbed
<1>5. PICK n \in Nat : /\ n = next[c][p]
                       /\ n + 1 \in 1 .. Len(log[p])
                       /\ log[p][n + 1].event = e
  BY <1>1, <1>2, MessageInLog DEF Message
<1>6. DealtAt(p, n)'
  BY <1>1, <1>3, <1>5 DEF DealtAt, Dealt, Settled
<1>7. \A q \in Partitions : \A o \in done'[q] : o \in done[q] \/ (q = p /\ o = n)
  BY <1>1, <1>5, DoneFacts DEF CInv, Outcomes
<1>8. \A q \in Partitions : \A o \in done'[q] : o \in done[q] \/ DealtAt(q, o)'
  BY <1>6, <1>7
<1> QED
  BY <1>1, <1>3, <1>4, <1>8, QuietIsLossless

\* Deferring a message, or raising on it, marks nothing safe.
LEMMA LoopStepIsLossless ==
  ASSUME CInv, NEW c \in Consumers,
         \/ LoopTurn(c)
         \/ Die(c)
         \/ \E p \in Partitions : DeferMessage(c, p) \/ UpdateRaises(c, p)
  PROVE  Lossless
<1>1. /\ UNCHANGED <<log, redis, dlq>>
      /\ \A d \in Consumers : Undisturbed(d) \/ step'[d] = "idle"
  BY LoopStepFacts
<1>2. \A q \in Partitions : \A o \in done'[q] : o \in done[q]
  <2>1. CASE LoopTurn(c) \/ Die(c)
    BY <2>1 DEF LoopTurn, PollStep, Poll, PollRaises, Commit, CommitFails,
                Restart, Die, Crash, Exit, history
  <2>2. CASE \E p \in Partitions : DeferMessage(c, p) \/ UpdateRaises(c, p)
    <3>1. PICK p \in Partitions, out \in Outcomes \ {"safe"} : ProcessMessage(c, p, out)
      BY <2>2 DEF DeferMessage, UpdateRaises, Outcomes
    <3> QED
      BY <3>1, DoneFacts DEF CInv
  <2> QED
    BY <2>1, <2>2
<1> QED
  BY <1>1, <1>2, QuietIsLossless DEF redis

LEMMA UpdateFailsIsLossless ==
  ASSUME CInv, NEW c \in Consumers, NEW p \in Partitions, UpdateFails(c, p)
  PROVE  Lossless
<1>1. PICK e \in Events : e = Message(c, p).event
  BY MessageInLog DEF UpdateFails, MayHandle, Record
<1>2. /\ Upsert(e) \/ UNCHANGED redis
      /\ step' = [step EXCEPT ![c] = StepAfterFailure(Message(c, p))]
      /\ handling' = [handling EXCEPT ![c] = p]
      /\ UNCHANGED <<phase, next, position, log, dlq, done>>
  BY <1>1 DEF UpdateFails, vars, broker, client, batch, history
<1>3. \A x \in Events : applied[x] > 0 => applied'[x] > 0
  BY <1>2, UpsertKeeps DEF redis
<1>4. \A d \in Consumers : Undisturbed(d) \/ step'[d] \notin {"safe", "mark"}
  BY <1>2 DEF Undisturbed, StepAfterFailure, CInv, ClickTypeOK
<1> QED
  BY <1>2, <1>3, <1>4, QuietIsLossless

LEMMA RejectIsLossless ==
  ASSUME CInv, NEW c \in Consumers, NEW p \in Partitions, Reject(c, p)
  PROVE  Lossless
<1>1. /\ step' = [step EXCEPT ![c] = "check"]
      /\ handling' = [handling EXCEPT ![c] = p]
      /\ UNCHANGED <<phase, next, position, log, applied, dlq, done>>
  BY DEF Reject, vars, broker, client, batch, history, redis
<1>2. \A d \in Consumers : Undisturbed(d) \/ step'[d] \notin {"safe", "mark"}
  BY <1>1 DEF Undisturbed, CInv, ClickTypeOK
<1> QED
  BY <1>1, <1>2, QuietIsLossless

\* A step that appends a record touches nothing else of a loss.
LEMMA AppendIsLossless ==
  ASSUME CInv, NEW p \in Partitions, NEW r \in Record, Append1(p, r),
         UNCHANGED <<applied, dlq>>,
         \A c \in Consumers :
             Undisturbed(c) \/ step'[c] \notin {"safe", "mark"} \/ SafeIsDealt(c)'
  PROVE  Lossless
<1>1. LogGrows
  BY AppendFacts
<1>2. done' = done
  BY DEF Append1, Produce, history
<1> QED
  BY <1>1, <1>2 DEF Lossless

LEMMA EmitIsLossless ==
  ASSUME CInv, ClickAssumption, NEW e \in Events, Emit(e)
  PROVE  Lossless
<1> DEFINE r == [event |-> e, retries |-> 0]
<1>1. r \in Record /\ Main \in Partitions /\ Append1(Main, r)
  BY DEF Emit, Record, ClickAssumption
<1>2. UNCHANGED <<phase, next, position, applied, dlq, step, handling>>
  BY <1>1 DEF Emit, Append1, Produce, client, batch, router, redis
<1>3. \A c \in Consumers : Undisturbed(c)
  BY <1>2 DEF Undisturbed
<1> QED
  BY <1>1, <1>2, <1>3, AppendIsLossless

\* The copy in the next tier has one retry more than the message.
LEMMA SendRetryIsLossless ==
  ASSUME CInv, ClickAssumption, NEW c \in Consumers, SendRetry(c)
  PROVE  Lossless
<1>1. PICK h \in Record : h = Handled(c)
  BY SendRetryFacts DEF SendRetry
<1>2. /\ Busy(c) /\ h.retries + 1 \in 1 .. MaxRetries
      /\ Tier[h.retries + 1] \in Partitions
  BY <1>1, SendRetryFacts DEF SendRetry
<1> DEFINE k == h.retries + 1
           copy == [event |-> h.event, retries |-> k]
<1>3. copy \in Record
  BY <1>2 DEF Record
<1>4. PICK s \in {"safe", "unsafe"} :
          /\ step' = [step EXCEPT ![c] = s]
          /\ handling' = handling
          /\ \/ Append1(Tier[k], copy)
             \/ s = "unsafe" /\ UNCHANGED <<vars, log>>
  BY <1>1 DEF SendRetry, Goto
<1>5. UNCHANGED <<applied, dlq>>
  BY DEF SendRetry, redis
<1>6. CASE Append1(Tier[k], copy)
  <2>1. /\ LogGrows
        /\ log'[Tier[k]][Len(log'[Tier[k]])] = copy
        /\ Len(log'[Tier[k]]) \in 1 .. Len(log'[Tier[k]])
    BY <1>2, <1>3, <1>6, AppendFacts
  <2>2. UNCHANGED <<phase, next, position>>
    BY <1>6 DEF Append1, Produce, client, batch
  <2>3. /\ step'[c] = s
        /\ \A d \in Consumers \ {c} : Undisturbed(d)
        /\ Handled(c)' = h
    BY <1>1, <1>2, <1>4, <2>1, <2>2, RoutingFacts DEF Steps
  <2>4. Retried(h)'
    <3>1. copy.event = h.event /\ copy.retries > h.retries
      BY <1>2 DEF Record, ClickAssumption
    <3> QED
      BY <1>2, <2>1, <3>1 DEF Retried
  <2>5. SafeIsDealt(c)'
    BY <1>4, <2>3, <2>4 DEF SafeIsDealt, Dealt
  <2> QED
    BY <1>2, <1>3, <1>5, <1>6, <2>3, <2>5, AppendIsLossless
<1>7. CASE s = "unsafe" /\ UNCHANGED <<vars, log>>
  <2>1. UNCHANGED <<phase, next, position, done, log>>
    BY <1>7 DEF vars, broker, client, batch, history
  <2>2. \A d \in Consumers : Undisturbed(d) \/ step'[d] \notin {"safe", "mark"}
    BY <1>4, <1>7, <2>1 DEF Undisturbed, CInv, ClickTypeOK
  <2> QED
    BY <1>5, <2>1, <2>2, QuietIsLossless
<1> QED
  BY <1>4, <1>6, <1>7

\* A marker found stands for a dead letter of the same event.
LEMMA CheckMarkerIsLossless ==
  ASSUME CInv, LossInv, ClickAssumption, NEW c \in Consumers, CheckMarker(c)
  PROVE  Lossless
<1>1. PICK h \in Record : h = Handled(c)
  BY DlqFacts DEF CheckMarker
<1> DEFINE p == handling[c]
           id == DlqId(p, next[c][p])
<1>2. PICK s \in {"safe", "send"} :
          /\ step' = [step EXCEPT ![c] = s]
          /\ handling' = handling
          /\ s = "safe" => id \in marks
  BY DEF CheckMarker, Goto
<1>3. UNCHANGED <<phase, next, position, log, applied, dlq, done>>
  BY DEF CheckMarker, vars, broker, client, batch, history, redis
<1>4. Busy(c)
  BY DlqFacts DEF CheckMarker
<1>5. LogGrows
  BY <1>3 DEF LogGrows, CInv, ClickTypeOK
<1>6. /\ step'[c] = s
      /\ \A d \in Consumers \ {c} : Undisturbed(d)
      /\ Handled(c)' = h
  BY <1>1, <1>2, <1>3, <1>4, <1>5, RoutingFacts DEF Steps
<1>7. id \in marks => DeadLettered(h.event)
  <2> SUFFICES ASSUME id \in marks PROVE DeadLettered(h.event)
    OBVIOUS
  <2>1. PICK d \in dlq : d.id = id
    BY DEF CInv, MarkerTellsTruth
  <2>2. /\ p \in Partitions /\ next[c][p] \in Nat /\ h.event \in Events
        /\ d.event \in Events
        /\ log[p][next[c][p] + 1].event = h.event
    BY <1>1, <1>4, MessageInLog
    DEF Busy, Handled, Message, Record, CInv, ClickTypeOK
  <2>3. id = IF Kind[h.event] = "anonymous" THEN <<p, next[c][p]>> ELSE h.event
    BY <2>2 DEF DlqId
  <2>4. \/ Kind[d.event] = "anonymous" /\ \E q \in Partitions : \E o \in Nat :
               d.id = <<q, o>> /\ log[q][o + 1].event = d.event
        \/ Kind[d.event] # "anonymous" /\ d.id = d.event
    BY <2>1 DEF LossInv, NamesEvent
  <2>5. d.event = h.event
    <3>1. CASE Kind[d.event] = "anonymous" /\ Kind[h.event] = "anonymous"
      BY <2>1, <2>2, <2>3, <2>4, <3>1
    <3>2. CASE Kind[d.event] # "anonymous" /\ Kind[h.event] # "anonymous"
      BY <2>1, <2>3, <2>4, <3>2
    <3>3. CASE Kind[d.event] = "anonymous" /\ Kind[h.event] # "anonymous"
      <4>1. PICK q \in Partitions, o \in Nat : d.id = <<q, o>>
        BY <2>4, <3>3
      <4>2. <<q, o>> \in Partitions \X Nat /\ <<q, o>> = h.event
        BY <2>1, <2>3, <3>3, <4>1
      <4> QED
        BY <2>2, <4>2, EventIdAssumption
    <3>4. CASE Kind[d.event] # "anonymous" /\ Kind[h.event] = "anonymous"
      BY <2>1, <2>2, <2>3, <2>4, <3>4, EventIdAssumption
    <3> QED
      BY <3>1, <3>2, <3>3, <3>4
  <2> QED
    BY <2>1, <2>5 DEF DeadLettered
<1>8. SafeIsDealt(c)'
  <2>1. s = "safe" => DeadLettered(h.event)'
    BY <1>2, <1>3, <1>7 DEF DeadLettered
  <2> QED
    BY <1>2, <1>6, <2>1 DEF SafeIsDealt, Dealt, Settled
<1> QED
  BY <1>3, <1>6, <1>8, QuietIsLossless

LEMMA SendDlqIsLossless ==
  ASSUME CInv, ClickAssumption, NEW c \in Consumers, SendDlq(c)
  PROVE  Lossless
<1>1. PICK h \in Record : h = Handled(c)
  BY DlqFacts DEF SendDlq
<1>2. PICK id \in DlqIds : id = DlqId(handling[c], next[c][handling[c]])
  BY DlqFacts DEF SendDlq
<1> DEFINE entry == [id |-> id, event |-> h.event, retries |-> h.retries]
<1>3. PICK s \in {"mark", "unsafe"} :
          /\ step' = [step EXCEPT ![c] = s]
          /\ handling' = handling
          /\ dlq' \in {dlq, dlq \cup {entry}}
          /\ s = "mark" => entry \in dlq'
  BY <1>1, <1>2 DEF SendDlq, Goto
<1>4. UNCHANGED <<phase, next, position, log, applied, done>>
  BY DEF SendDlq, vars, broker, client, batch, history, redis
<1>5. Busy(c)
  BY DlqFacts DEF SendDlq
<1>6. LogGrows
  BY <1>4 DEF LogGrows, CInv, ClickTypeOK
<1>7. /\ step'[c] = s
      /\ \A d \in Consumers \ {c} : Undisturbed(d)
      /\ Handled(c)' = h
  BY <1>1, <1>3, <1>4, <1>5, <1>6, RoutingFacts DEF Steps
<1>8. NamesEvent(entry)'
  <2>1. PICK p \in Partitions, o \in Nat :
            /\ p = handling[c] /\ o = next[c][p]
            /\ o + 1 \in 1 .. Len(log[p])
            /\ log[p][o + 1].event = h.event
    BY <1>1, <1>5, MessageInLog DEF Busy, Handled, Message
  <2>2. id = IF Kind[h.event] = "anonymous" THEN <<p, o>> ELSE h.event
    BY <1>2, <2>1 DEF DlqId
  <2>3. entry.id = id /\ entry.event = h.event
    OBVIOUS
  <2> QED
    BY <1>4, <2>1, <2>2, <2>3 DEF NamesEvent
<1>9. SafeIsDealt(c)'
  <2>1. s = "mark" => DeadLettered(h.event)'
    BY <1>3 DEF DeadLettered
  <2> QED
    BY <1>3, <1>7, <2>1 DEF SafeIsDealt
<1> QED
  BY <1>3, <1>4, <1>6, <1>7, <1>8, <1>9 DEF Lossless

LEMMA MarkDlqIsLossless ==
  ASSUME CInv, LossInv, ClickAssumption, NEW c \in Consumers, MarkDlq(c)
  PROVE  Lossless
<1>1. PICK h \in Record : h = Handled(c)
  BY DlqFacts DEF MarkDlq
<1>2. /\ step[c] = "mark"
      /\ step' = [step EXCEPT ![c] = "safe"]
      /\ handling' = handling
      /\ UNCHANGED <<phase, next, position, log, applied, dlq, done>>
  BY DEF MarkDlq, Goto, vars, broker, client, batch, history
<1>3. Busy(c) /\ DeadLettered(h.event)
  BY <1>1, <1>2, DlqFacts DEF LossInv, SafeIsDealt
<1>4. LogGrows
  BY <1>2 DEF LogGrows, CInv, ClickTypeOK
<1>5. /\ step'[c] = "safe"
      /\ \A d \in Consumers \ {c} : Undisturbed(d)
      /\ Handled(c)' = h
  BY <1>1, <1>2, <1>3, <1>4, RoutingFacts DEF Steps
<1>6. SafeIsDealt(c)'
  <2>1. DeadLettered(h.event)'
    BY <1>2, <1>3 DEF DeadLettered
  <2> QED
    BY <1>5, <2>1 DEF SafeIsDealt, Dealt, Settled
<1> QED
  BY <1>2, <1>5, <1>6, QuietIsLossless

LEMMA InitLossInv == ClickInit => LossInv
<1> SUFFICES ASSUME ClickInit PROVE LossInv
  OBVIOUS
<1>1. \A p \in Partitions : logEnd[p] <= MaxOffset
  BY LoopAssumption DEF ClickInit, Init, NoOffsets
<1>2. \A p \in Partitions : done[p] = {}
  BY DEF ClickInit, Init
<1> QED
  BY <1>1, <1>2 DEF ClickInit, LossInv, SafeIsDealt

LEMMA LogsStayBounded ==
  ASSUME IInv, [Next]_vars, \A p \in Partitions : logEnd[p] <= MaxOffset
  PROVE  \A p \in Partitions : logEnd'[p] <= MaxOffset
<1>1. CASE \E p \in Partitions : Produce(p)
  BY <1>1, LoopAssumption DEF Produce, IInv, TypeOK
<1>2. ASSUME NEW c \in Consumers, OwnStep(c) PROVE logEnd' = logEnd
  BY <1>2, OwnStepFacts
<1>3. CASE \E g \in Groups : RebalanceStep(g)
  BY <1>3 DEF RebalanceStep, Rebalance
<1>4. CASE \E c \in Consumers, p \in Partitions : BackoffExpires(c, p)
  BY <1>4 DEF BackoffExpires, broker
<1> QED
  BY <1>1, <1>2, <1>3, <1>4 DEF Next, OwnStep, vars, broker

LEMMA StepIsLossless ==
  ASSUME CInv, LossInv, [ClickNext]_clickVars
  PROVE  Lossless
<1>1. ASSUME NEW g \in Groups, Regroup(g) PROVE Lossless
  BY <1>1, RegroupFacts, QuietIsLossless DEF redis
<1>2. ASSUME NEW c \in Consumers, NEW p \in Partitions, Handle(c, p) PROVE Lossless
  BY <1>2, LoopStepIsLossless, UpdateSucceedsIsLossless, UpdateFailsIsLossless,
     RejectIsLossless DEF Handle
<1>3. ASSUME NEW c \in Consumers, LoopTurn(c) \/ Die(c) PROVE Lossless
  BY <1>3, LoopStepIsLossless
<1>4. ASSUME NEW c \in Consumers, Route(c) PROVE Lossless
  BY <1>4, SendRetryIsLossless, CheckMarkerIsLossless, SendDlqIsLossless,
     MarkDlqIsLossless, ReturnIsLossless, ClickAssumption DEF Route
<1>5. ASSUME \/ \E p \in Partitions, o \in 0 .. MaxOffset : Ripen(p, o)
             \/ \E c \in Consumers, p \in Partitions : ResumeFallsDue(c, p)
             \/ UNCHANGED clickVars
      PROVE  Lossless
  <2>1. UNCHANGED <<phase, next, position, done, log, applied, dlq, step, handling>>
    BY <1>5 DEF Ripen, ResumeFallsDue, BackoffExpires, clickVars, vars, broker,
                client, batch, history, redis, router
  <2>2. \A c \in Consumers : Undisturbed(c)
    BY <2>1 DEF Undisturbed
  <2> QED
    BY <2>1, <2>2, QuietIsLossless
<1> QED
  BY <1>1, <1>2, <1>3, <1>4, <1>5, EmitIsLossless, ClickAssumption DEF ClickNext, ConsumerStep

LEMMA StepLossInv == CInv /\ CInv' /\ LossInv /\ [ClickNext]_clickVars => LossInv'
<1> SUFFICES ASSUME CInv, CInv', LossInv, [ClickNext]_clickVars PROVE LossInv'
  OBVIOUS
<1>1. \A p \in Partitions : logEnd'[p] <= MaxOffset
  BY StepOfLoop, LogsStayBounded DEF CInv, LossInv
<1> QED
  BY <1>1, StepIsLossless, LosslessSuffices

\* Of the copies of an event, one has the most retries on it.
LEMMA LastCopy ==
  ASSUME CInv, ClickAssumption, NEW e \in Events, Emitted(e)
  PROVE  \E p \in Partitions : \E i \in 1 .. Len(log[p]) :
             /\ log[p][i].event = e
             /\ ~Retried(log[p][i])
<1> DEFINE Copy(p, i, k) == /\ i \in 1 .. Len(log[p])
                            /\ log[p][i].event = e
                            /\ log[p][i].retries = MaxRetries - k
           S == {k \in Nat : \E p \in Partitions : \E i \in Nat : Copy(p, i, k)}
<1>0. /\ log \in [Partitions -> Seq(Record)] /\ MaxRetries \in Nat
      /\ Main \in Partitions
  BY DEF CInv, ClickTypeOK, ClickAssumption
<1>1. ASSUME NEW p \in Partitions, NEW i \in 1 .. Len(log[p]), log[p][i].event = e
      PROVE  MaxRetries - log[p][i].retries \in S
  <2>1. PICK r \in Record : r = log[p][i]
    BY <1>0
  <2>2. r.retries \in 0 .. MaxRetries
    BY DEF Record
  <2>3. MaxRetries - r.retries \in Nat
        /\ r.retries = MaxRetries - (MaxRetries - r.retries)
    BY <1>0, <2>2
  <2>4. i \in Nat /\ Copy(p, i, MaxRetries - r.retries)
    BY <1>0, <1>1, <2>1, <2>3
  <2> QED
    BY <2>1, <2>3, <2>4
<1>2. S # {}
  BY <1>0, <1>1 DEF Emitted, Records
<1>3. PICK k \in S : \A j \in S : ~(<<j, k>> \in OpToRel(<, Nat))
  <2>1. S \subseteq Nat
    OBVIOUS
  <2> HIDE DEF S
  <2> QED
    BY <1>2, <2>1, NatLessThanWellFounded, WFMin
<1>4. PICK p \in Partitions : \E i \in Nat : Copy(p, i, k)
  OBVIOUS
<1>5. PICK i \in Nat : Copy(p, i, k)
  BY <1>4
<1>6. ~Retried(log[p][i])
  <2> SUFFICES ASSUME NEW q \in Partitions, NEW j \in 1 .. Len(log[q]),
                      log[q][j].event = e, log[q][j].retries > MaxRetries - k
               PROVE  FALSE
    BY <1>5 DEF Retried
  <2>1. PICK r \in Record : r = log[q][j]
    BY <1>0
  <2>2. MaxRetries - r.retries \in S /\ k \in Nat /\ r.retries \in 0 .. MaxRetries
    BY <1>1, <2>1 DEF Record
  <2>3. r.retries > MaxRetries - k
    BY <2>1
  <2>4. MaxRetries - r.retries < k /\ MaxRetries - r.retries \in Nat
    BY <1>0, <2>2, <2>3
  <2> QED
    BY <1>3, <2>2, <2>4 DEF OpToRel
<1> QED
  BY <1>5, <1>6

\* No event is lost but through a message the loop polled past: whatever
\* crashes, is fenced, redelivered or retried, and whichever answer of Redis or
\* the broker is lost, a published event is settled, still to be consumed, or
\* among the abandoned offsets (retry_router.py:163-384).
THEOREM LossesAreExplained == ClickSpec => []NoUnexplainedLoss
<1>1. ASSUME CInv, LossInv PROVE NoUnexplainedLoss
  <2> SUFFICES ASSUME NEW e \in Events, Emitted(e), ~Settled(e)
               PROVE  \/ LiveCopy(e)
                      \/ \E p \in Partitions : \E o \in abandoned[p] : At(p, o, e)
    BY DEF NoUnexplainedLoss
  <2>1. PICK p \in Partitions : \E i \in 1 .. Len(log[p]) :
            log[p][i].event = e /\ ~Retried(log[p][i])
    BY <1>1, LastCopy, ClickAssumption
  <2>2. PICK i \in 1 .. Len(log[p]) : log[p][i].event = e /\ ~Retried(log[p][i])
    BY <2>1
  <2>3. /\ Len(log[p]) \in Nat /\ Len(log[p]) <= MaxOffset /\ MaxOffset \in Nat
        /\ committed[p] \in Nat
    BY <1>1, LoopAssumption DEF CInv, IInv, TypeOK, ClickTypeOK, LossInv
  <2>4. PICK o \in Nat : o + 1 = i /\ o < Len(log[p]) /\ o \in 0 .. MaxOffset
    <3>1. i - 1 \in Nat /\ (i - 1) + 1 = i /\ i - 1 < Len(log[p])
      BY <2>3
    <3> QED
      BY <2>3, <3>1
  <2>5. At(p, o, e)
    BY <2>2, <2>4 DEF At
  <2>6. CASE o >= committed[p]
    BY <2>3, <2>4, <2>5, <2>6 DEF LiveCopy
  <2>7. CASE o < committed[p]
    <3>1. o \notin done[p]
      BY <1>1, <2>2, <2>4 DEF LossInv, DealtAt, Dealt
    <3>2. o \in done[p] \/ o \in abandoned[p]
      BY <1>1, <2>3, <2>4, <2>7
      DEF CInv, IInv, CommittedAccounted, AccountedBelow, Accounted
    <3> QED
      BY <2>5, <3>1, <3>2
  <2> QED
    BY <2>3, <2>6, <2>7
<1>2. ClickSpec => [](CInv /\ LossInv)
  BY InitLossInv, StepLossInv, ClickInvariance, PTL DEF ClickSpec
<1> QED
  BY <1>1, <1>2, PTL

-----------------------------------------------------------------------------
(* The pipeline implements ClickDelivery.                                  *)

Accepted == {e \in Events : Emitted(e)}
Materialized == {e \in Events : applied[e] > 0}
Buried == {e \in Events : DeadLettered(e)}

\* Nothing the promise is about changes.
LEMMA DeliveryStutters ==
  ASSUME UNCHANGED <<applied, failures, dlq>>, log'[Main] = log[Main]
  PROVE  UNCHANGED Delivery!promise
<1>1. Accepted' = Accepted /\ Materialized' = Materialized /\ Buried' = Buried
  BY DEF Accepted, Materialized, Buried, Emitted, Records, DeadLettered
<1> QED
  BY <1>1 DEF Delivery!promise, Accepted, Materialized, Buried

LEMMA EmitAccepts ==
  ASSUME CInv, ClickAssumption, NEW e \in Events, Emit(e)
  PROVE  Delivery!Accept(e)
<1>1. /\ Main \in Partitions /\ Append1(Main, [event |-> e, retries |-> 0])
      /\ [event |-> e, retries |-> 0] \in Record
      /\ UNCHANGED <<applied, failures, dlq>>
  BY DEF Emit, ClickAssumption, Record, redis
<1> DEFINE r == [event |-> e, retries |-> 0]
           l == log[Main]
           m == log'[Main]
<1>2. /\ Len(l) \in Nat /\ Len(m) \in Nat
      /\ Len(l) <= Len(m)
      /\ \A i \in 1 .. Len(l) : m[i] = l[i]
      /\ \A i \in 1 .. Len(m) : m[i] = r \/ (i \in 1 .. Len(l) /\ m[i] = l[i])
      /\ m[Len(m)] = r /\ Len(m) \in 1 .. Len(m)
  BY <1>1, AppendFacts DEF LogGrows, CInv, ClickTypeOK
<1>3. \A x \in Events : Emitted(x)' <=> Emitted(x) \/ x = e
  <2> SUFFICES ASSUME NEW x \in Events
               PROVE  (\E i \in 1 .. Len(m) : m[i].event = x)
                      <=> (\E i \in 1 .. Len(l) : l[i].event = x) \/ x = e
    BY DEF Emitted, Records
  <2>1. ASSUME NEW i \in 1 .. Len(m), m[i].event = x
        PROVE  (\E j \in 1 .. Len(l) : l[j].event = x) \/ x = e
    BY <2>1, <1>2
  <2>2. ASSUME NEW i \in 1 .. Len(l), l[i].event = x
        PROVE  \E j \in 1 .. Len(m) : m[j].event = x
    <3>1. i \in 1 .. Len(m) /\ m[i].event = x
      BY <2>2, <1>2
    <3> QED
      BY <3>1
  <2>3. \E j \in 1 .. Len(m) : m[j].event = e
    <3>1. m[Len(m)].event = e
      BY <1>2
    <3> QED
      BY <3>1, <1>2
  <2> QED
    BY <2>1, <2>2, <2>3
<1>4. Accepted' = Accepted \cup {e} /\ Materialized' = Materialized /\ Buried' = Buried
  BY <1>1, <1>3 DEF Accepted, Materialized, Buried, DeadLettered
<1> QED
  BY <1>1, <1>4 DEF Delivery!Accept, Accepted, Materialized, Buried

\* Running the script materializes the event, whatever was there before.
LEMMA UpsertMaterializes ==
  ASSUME CInv, NEW e \in Events, Upsert(e)
  PROVE  Materialized' = Materialized \cup {e}
<1>1. /\ applied' = [applied EXCEPT ![e] = IF e \in dedupe THEN @ ELSE @ + 1]
      /\ applied \in [Events -> Nat]
      /\ applied[e] = IF e \in dedupe THEN 1 ELSE 0
  BY DEF Upsert, CInv, ClickTypeOK, AppliedOnce
<1>2. applied'[e] > 0 /\ \A x \in Events \ {e} : applied'[x] = applied[x]
  BY <1>1
<1> QED
  BY <1>2 DEF Materialized

\* A message being processed was accepted.
LEMMA HandledIsAccepted ==
  ASSUME CInv, NEW c \in Consumers, NEW p \in Partitions, InBatch(c, p)
  PROVE  /\ Message(c, p).event \in Accepted
         /\ Message(c, p).event \in Events
  BY MessageInLog DEF Accepted, Earned, Record

LEMMA StepOfDelivery ==
  ASSUME CInv, [ClickNext]_clickVars
  PROVE  [Delivery!Next]_(Delivery!promise)
<1>1. ASSUME NEW e \in Events, Emit(e) PROVE Delivery!Next
  BY <1>1, EmitAccepts, ClickAssumption DEF Delivery!Next
<1>2. ASSUME NEW c \in Consumers, NEW p \in Partitions, UpdateSucceeds(c, p)
      PROVE  Delivery!Next
  <2>1. PICK e \in Events : e = Message(c, p).event /\ e \in Accepted
    BY <1>2, HandledIsAccepted DEF UpdateSucceeds, MayHandle
  <2>2. Kind[e] = "valid" /\ Upsert(e) /\ UNCHANGED <<log, dlq, failures>>
    BY <1>2, <2>1 DEF UpdateSucceeds
  <2>3. Materialized' = Materialized \cup {e} /\ Accepted' = Accepted /\ Buried' = Buried
    BY <2>2, UpsertMaterializes
    DEF Accepted, Buried, Emitted, Records, DeadLettered
  <2>4. Delivery!Apply(e)
    BY <2>1, <2>2, <2>3 DEF Delivery!Apply, Accepted, Materialized, Buried
  <2> QED
    BY <2>4 DEF Delivery!Next
<1>3. ASSUME NEW c \in Consumers, NEW p \in Partitions, UpdateFails(c, p)
      PROVE  Delivery!Next
  <2>1. PICK e \in Events : e = Message(c, p).event /\ e \in Accepted
    BY <1>3, HandledIsAccepted DEF UpdateFails, MayHandle
  <2>2. /\ Kind[e] = "valid" /\ (Upsert(e) \/ UNCHANGED redis)
        /\ UNCHANGED <<log, dlq>>
        /\ failures' = [failures EXCEPT ![e] = IF @ <= MaxRetries THEN @ + 1 ELSE @]
    BY <1>3, <2>1 DEF UpdateFails
  <2>3. Materialized' \in {Materialized, Materialized \cup {e}}
    BY <2>2, UpsertMaterializes DEF redis, Materialized
  <2>4. Accepted' = Accepted /\ Buried' = Buried
    BY <2>2 DEF Accepted, Buried, Emitted, Records, DeadLettered
  <2>5. Delivery!Fail(e)
    BY <2>1, <2>2, <2>3, <2>4 DEF Delivery!Fail, Accepted, Materialized, Buried
  <2> QED
    BY <2>5 DEF Delivery!Next
<1>4. ASSUME NEW c \in Consumers, SendDlq(c) PROVE [Delivery!Next]_(Delivery!promise)
  <2>1. step[c] = "send" /\ UNCHANGED <<log, applied, failures>>
    BY <1>4 DEF SendDlq, redis
  <2>2. PICK e \in Events : /\ e = Handled(c).event
                            /\ e \in Accepted
                            /\ Exhausted(e)
    <3>1. Busy(c) /\ Exhausted(Handled(c).event)
      BY <2>1, DlqFacts, ClickAssumption
    <3> QED
      BY <3>1, HandledIsAccepted DEF Busy, Handled
  <2>3. CASE UNCHANGED dlq
    BY <2>1, <2>3, DeliveryStutters
  <2>4. CASE dlq' # dlq
    <3>1. PICK d : d.event = e /\ dlq' = dlq \cup {d}
      BY <1>4, <2>2, <2>4 DEF SendDlq
    <3>2. Buried' = Buried \cup {e}
      BY <3>1 DEF Buried, DeadLettered
    <3>3. Accepted' = Accepted /\ Materialized' = Materialized
      BY <2>1 DEF Accepted, Materialized, Emitted, Records
    <3>4. Kind[e] = "valid" => failures[e] > MaxRetries
      BY <2>2, ClickAssumption DEF Exhausted, ClickAssumption
    <3>5. Delivery!Bury(e)
      BY <2>1, <2>2, <3>2, <3>3, <3>4
      DEF Delivery!Bury, Accepted, Materialized, Buried
    <3> QED
      BY <3>5 DEF Delivery!Next
  <2> QED
    BY <2>3, <2>4
<1>5. ASSUME NEW c \in Consumers, SendRetry(c) PROVE UNCHANGED Delivery!promise
  <2>1. UNCHANGED <<applied, failures, dlq>> /\ step[c] = "route"
    BY <1>5 DEF SendRetry, redis
  <2>2. Tier[Handled(c).retries + 1] \in Partitions \ {Main}
    BY <2>1, SendRetryFacts, ClickAssumption
  <2>3. log'[Main] = log[Main]
    BY <1>5, <2>2, ClickAssumption
    DEF SendRetry, Append1, CInv, ClickTypeOK, ClickAssumption
  <2> QED
    BY <2>1, <2>3, DeliveryStutters
<1>6. ASSUME UNCHANGED <<log, applied, failures, dlq>>
      PROVE  UNCHANGED Delivery!promise
  BY <1>6, DeliveryStutters
<1>7. ASSUME NEW c \in Consumers, Route(c)
      PROVE  [Delivery!Next]_(Delivery!promise)
  BY <1>4, <1>5, <1>6, <1>7 DEF Route, CheckMarker, MarkDlq, Return, redis
<1>8. ASSUME NEW c \in Consumers, NEW p \in Partitions, Handle(c, p)
      PROVE  [Delivery!Next]_(Delivery!promise)
  BY <1>2, <1>3, <1>6, <1>8 DEF Handle, DeferMessage, UpdateRaises, Reject, redis
<1>9. ASSUME \/ \E p \in Partitions, o \in 0 .. MaxOffset : Ripen(p, o)
             \/ \E g \in Groups : Regroup(g)
             \/ \E c \in Consumers, p \in Partitions : ResumeFallsDue(c, p)
             \/ \E c \in Consumers : LoopTurn(c) \/ Die(c)
             \/ UNCHANGED clickVars
      PROVE  UNCHANGED Delivery!promise
  BY <1>6, <1>9 DEF Ripen, Regroup, ResumeFallsDue, LoopTurn, Die, clickVars, redis
<1> QED
  BY <1>1, <1>7, <1>8, <1>9 DEF ClickNext, ConsumerStep

\* The pipeline keeps the promise of ClickDelivery: what is in Redis is a
\* published valid event, never taken back, and what is in the DLQ is malformed
\* or exhausted, for any number of processes, crashes, rebalances, redelivered
\* messages and calls whose answer was lost.
THEOREM PromiseKept == ClickSpec => KeepsPromise
<1>1. ClickInit => Delivery!Init
  <2> SUFFICES ASSUME ClickInit PROVE Delivery!Init
    OBVIOUS
  <2>1. Accepted = {}
    BY ClickAssumption DEF ClickInit, Accepted, Emitted, Records, ClickAssumption
  <2>2. Materialized = {} /\ Buried = {}
    BY DEF ClickInit, Materialized, Buried, DeadLettered
  <2> QED
    BY <2>1, <2>2 DEF ClickInit, Delivery!Init, Accepted, Materialized, Buried
<1>2. CInv /\ [ClickNext]_clickVars => [Delivery!Next]_(Delivery!promise)
  BY StepOfDelivery
<1> QED
  BY <1>1, <1>2, ClickInvariance, PTL DEF ClickSpec, KeepsPromise, Delivery!Spec

-----------------------------------------------------------------------------
(* No process is ever stuck.                                               *)

\* A process that routes a message is busy with the message's partition, as
\* far as the loop knows.
RoutesCurrent ==
    \A c \in Consumers : step[c] # "idle" => current[c] \in {handling[c], NoPartition}

\* The guards of a process's steps.  It turns to poll, commit or a restart, ...
CanTurn(c) == step[c] = "idle" /\ phase[c] \in {"poll", "commit", "down"}

\* ... it takes a message that is in the log, whatever it turns out to be, ...
CanHandle(c) == \E p \in Partitions : MayHandle(c, p) /\ Message(c, p) \in Record

\* ... or it routes one: there is a next tier to send it to, the marker and the
\* DLQ are there to be asked, and the loop is where the answer is for.
NextTier(c) == Handled(c).retries + 1
CanRoute(c) ==
    \/ /\ step[c] = "route"
       /\ NextTier(c) \in 1 .. MaxRetries
       /\ PublishFails \/ logEnd[Tier[NextTier(c)]] < MaxOffset
    \/ step[c] \in {"check", "send", "mark"}
    \/ /\ step[c] \in {"safe", "unsafe"}
       /\ phase[c] = "process"
       /\ handling[c] \in Partitions
       /\ InBatch(c, handling[c])
       /\ current[c] \in {handling[c], NoPartition}

\* The bound of the model: the tier has all the records it may get.
TierIsFull(c) ==
    /\ step[c] = "route"
    /\ NextTier(c) \in 1 .. MaxRetries
    /\ logEnd[Tier[NextTier(c)]] >= MaxOffset

ProcessesGoOn ==
    \A c \in Consumers : CanTurn(c) \/ CanHandle(c) \/ CanRoute(c) \/ TierIsFull(c)

\* How far process_message_internal has come with a message.
Place(s) ==
    CASE s = "idle" -> 0
      [] s \in {"route", "check"} -> 1
      [] s = "send" -> 2
      [] s = "mark" -> 3
      [] OTHER -> 4

\* The step takes the process on: behind the message, or further in it.
Ahead(c) ==
    \/ /\ step'[c] = "idle"
       /\ \E p \in Partitions :
             /\ next'[c][p] > next[c][p]
             /\ \A q \in Partitions \ {p} : next'[c][q] = next[c][q]
    \/ next'[c] = next[c] /\ Place(step'[c]) > Place(step[c])

\* The step is none of the process's.
Leaves(c) ==
    /\ UNCHANGED <<phase[c], next[c], position[c], current[c]>>
    /\ UNCHANGED <<step[c], handling[c]>>

\* Nothing takes a process back in its batch, or makes the batch longer.
BatchesAdvance ==
    \A c \in Consumers : phase[c] = "process" =>
        \/ phase'[c] = "down"
        \/ position'[c] = position[c] /\ Ahead(c)
        \/ Leaves(c)
WorkAdvances == \A c \in Consumers : phase[c] = "process" /\ Work(c) => Ahead(c)

\* What the steps that process a message do to it and to the others.
Advances(c) ==
    /\ position' = position
    /\ Ahead(c)
    /\ \A d \in Consumers \ {c} : Leaves(d)
    /\ \/ step'[c] = "idle"
       \/ current'[c] = current[c] /\ current[c] \in {handling'[c], NoPartition}

LEMMA MessageDone ==
  ASSUME CInv, NEW c \in Consumers, NEW p \in Partitions, NEW out \in Outcomes,
         ProcessMessage(c, p, out), step'[c] = "idle",
         \A d \in Consumers \ {c} : UNCHANGED <<step[d], handling[d]>>
  PROVE  Advances(c)
<1>1. OwnStep(c)
  BY DEF OwnStep, ProcessStep
<1>2. ASSUME NEW d \in Consumers \ {c} PROVE Leaves(d)
  <2>1. /\ phase'[d] = phase[d]
        /\ next'[d] = next[d]
        /\ position'[d] = position[d]
        /\ current'[d] = current[d]
    BY <1>1, OwnStepFacts DEF CInv
  <2> QED
    BY <2>1 DEF Leaves
<1>3. position' = position
  BY DEF ProcessMessage
<1>4. next'[c] = [next[c] EXCEPT ![p] = NextInBatch(c, p, out)]
  BY DEF ProcessMessage, CInv, IInv, TypeOK
<1>5. next[c] \in [Partitions -> Nat] /\ position[c][p] \in Nat
  BY DEF CInv, IInv, TypeOK
<1>6. NextInBatch(c, p, out) > next[c][p]
  BY <1>5 DEF ProcessMessage, InBatch, NextInBatch
<1>7. Ahead(c)
  BY <1>4, <1>5, <1>6 DEF Ahead
<1> QED
  BY <1>2, <1>3, <1>7 DEF Advances

LEMMA MessageFurther ==
  ASSUME CInv, NEW c \in Consumers, NEW s \in Steps,
         step' = [step EXCEPT ![c] = s],
         \A d \in Consumers \ {c} : handling'[d] = handling[d],
         Place(s) > Place(step[c]),
         current[c] \in {handling'[c], NoPartition},
         UNCHANGED <<phase, position, next, current>>
  PROVE  Advances(c)
<1>1. step'[c] = s /\ \A d \in Consumers \ {c} : step'[d] = step[d]
  BY DEF CInv, ClickTypeOK
<1> QED
  BY <1>1 DEF Advances, Ahead, Leaves

LEMMA HandleAdvances ==
  ASSUME CInv, NEW c \in Consumers, NEW p \in Partitions, Handle(c, p)
  PROVE  Advances(c)
<1>1. CASE DeferMessage(c, p) \/ UpdateRaises(c, p) \/ UpdateSucceeds(c, p)
  <2>1. step' = step /\ step[c] = "idle" /\ handling' = handling
    BY <1>1 DEF DeferMessage, UpdateRaises, UpdateSucceeds, MayHandle, router
  <2>2. \E out \in Outcomes : ProcessMessage(c, p, out)
    BY <1>1 DEF DeferMessage, UpdateRaises, UpdateSucceeds, Outcomes
  <2> QED
    BY <2>1, <2>2, MessageDone
<1>2. CASE UpdateFails(c, p) \/ Reject(c, p)
  <2>1. /\ step[c] = "idle"
        /\ current[c] \in {p, NoPartition}
        /\ handling' = [handling EXCEPT ![c] = p]
        /\ UNCHANGED <<phase, position, next, current>>
    BY <1>2 DEF UpdateFails, Reject, MayHandle, vars, client, batch
  <2>2. handling'[c] = p /\ \A d \in Consumers \ {c} : handling'[d] = handling[d]
    BY <2>1 DEF CInv, ClickTypeOK
  <2>3. \E s \in {"route", "check"} : step' = [step EXCEPT ![c] = s]
    BY <1>2 DEF UpdateFails, Reject, StepAfterFailure
  <2>4. PICK s \in {"route", "check"} : step' = [step EXCEPT ![c] = s]
    BY <2>3
  <2>5. s \in Steps /\ Place(s) > Place(step[c])
    BY <2>1 DEF Steps, Place
  <2> QED
    BY <2>1, <2>2, <2>4, <2>5, MessageFurther
<1> QED
  BY <1>1, <1>2 DEF Handle

LEMMA RouteAdvances ==
  ASSUME CInv, RoutesCurrent, NEW c \in Consumers, Route(c)
  PROVE  Advances(c)
<1>1. CASE Return(c)
  <2>1. handling[c] \in Partitions
    BY <1>1 DEF Return, CInv, Routed, Busy
  <2>2. /\ step'[c] = "idle"
        /\ \A d \in Consumers \ {c} : UNCHANGED <<step[d], handling[d]>>
    BY <1>1 DEF Return, CInv, ClickTypeOK
  <2>3. step[c] \in Outcomes /\ ProcessMessage(c, handling[c], step[c])
    BY <1>1 DEF Return, Outcomes
  <2> QED
    BY <2>1, <2>2, <2>3, MessageDone
<1>2. CASE SendRetry(c) \/ CheckMarker(c) \/ SendDlq(c) \/ MarkDlq(c)
  <2>1. UNCHANGED <<phase, position, next, current>> /\ handling' = handling
    BY <1>2 DEF SendRetry, CheckMarker, SendDlq, MarkDlq, Goto, Append1, Produce,
                vars, client, batch
  <2>2. step[c] # "idle"
    BY <1>2 DEF SendRetry, CheckMarker, SendDlq, MarkDlq
  <2>3. \E s \in Steps : step' = [step EXCEPT ![c] = s] /\ Place(s) > Place(step[c])
    BY <1>2 DEF SendRetry, CheckMarker, SendDlq, MarkDlq, Goto, Steps, Place
  <2> QED
    BY <2>1, <2>2, <2>3, MessageFurther DEF RoutesCurrent
<1> QED
  BY <1>1, <1>2 DEF Route

LEMMA RegroupLeaves ==
  ASSUME CInv, NEW g \in Groups, Regroup(g), NEW d \in Consumers
  PROVE  \/ Leaves(d)
         \/ phase[d] # "process" /\ step'[d] = "idle"
<1>1. PICK M \in SUBSET MembersOf(g) :
          \E A \in [M -> SUBSET PartitionsOf(g)] : Rebalance(g, M, A)
  BY DEF Regroup, RebalanceStep
<1>2. PICK A \in [M -> SUBSET PartitionsOf(g)] : Rebalance(g, M, A)
  BY <1>1
<1>3. UNCHANGED <<phase, current, step, handling>>
  BY <1>2 DEF Rebalance, Regroup, router
<1>4. CASE d \in M
  <2>1. phase[d] = "poll"
    BY <1>2, <1>4 DEF Rebalance
  <2> QED
    BY <2>1, <1>3, IdleOutsideProcess
<1>5. CASE d \notin M
  BY <1>2, <1>3, <1>5 DEF Rebalance, Leaves
<1> QED
  BY <1>4, <1>5

LEMMA TurnLeaves ==
  ASSUME CInv, NEW c \in Consumers, LoopTurn(c) \/ Die(c), NEW d \in Consumers
  PROVE  \/ Leaves(d)
         \/ step'[d] = "idle" /\ (phase[d] = "process" => phase'[d] = "down")
<1>1. OwnStep(c)
  BY DEF LoopTurn, Die, OwnStep
<1>2. CASE d # c
  <2>1. step'[d] = step[d] /\ handling'[d] = handling[d]
    BY <1>2 DEF LoopTurn, Die, router, CInv, ClickTypeOK
  <2>2. /\ phase'[d] = phase[d]
        /\ next'[d] = next[d]
        /\ position'[d] = position[d]
        /\ current'[d] = current[d]
    BY <1>1, <1>2, OwnStepFacts DEF CInv
  <2> QED
    BY <2>1, <2>2 DEF Leaves
<1>3. CASE d = c /\ LoopTurn(c)
  <2>1. phase[c] # "process"
    BY <1>3 DEF LoopTurn, PollStep, Poll, PollRaises, Commit, CommitFails, Restart
  <2>2. step'[c] = "idle"
    BY <1>3, <2>1, IdleOutsideProcess DEF LoopTurn, router
  <2> QED
    BY <1>3, <2>1, <2>2
<1>4. CASE d = c /\ Die(c)
  BY <1>4 DEF Die, Crash, Exit, CInv, IInv, TypeOK, ClickTypeOK
<1> QED
  BY <1>2, <1>3, <1>4

LEMMA WaitLeaves ==
  ASSUME \/ \E e \in Events : Emit(e)
         \/ \E p \in Partitions, o \in Nat : Ripen(p, o)
         \/ \E c \in Consumers, p \in Partitions : ResumeFallsDue(c, p)
         \/ UNCHANGED clickVars,
         NEW d \in Consumers
  PROVE  Leaves(d)
  BY DEF Emit, Append1, Produce, Ripen, ResumeFallsDue, BackoffExpires, clickVars, vars,
         client, batch, router, Leaves

\* Whatever happens, a process goes on with its message, is left alone, or dies.
LEMMA StepTakesOn ==
  ASSUME CInv, RoutesCurrent, [ClickNext]_clickVars, NEW d \in Consumers
  PROVE  \/ Leaves(d)
         \/ Advances(d)
         \/ step'[d] = "idle" /\ (phase[d] = "process" => phase'[d] = "down")
<1>1. ASSUME NEW g \in Groups, Regroup(g)
      PROVE  Leaves(d) \/ (phase[d] # "process" /\ step'[d] = "idle")
  BY <1>1, RegroupLeaves
<1>2. ASSUME NEW c \in Consumers, LoopTurn(c) \/ Die(c)
      PROVE  \/ Leaves(d)
             \/ step'[d] = "idle" /\ (phase[d] = "process" => phase'[d] = "down")
  BY <1>2, TurnLeaves
<1>3. ASSUME NEW c \in Consumers,
             Route(c) \/ \E p \in Partitions : Handle(c, p)
      PROVE  Leaves(d) \/ Advances(d)
  <2>1. Advances(c)
    BY <1>3, HandleAdvances, RouteAdvances
  <2> QED
    BY <2>1 DEF Advances
<1>4. ASSUME \/ \E e \in Events : Emit(e)
             \/ \E p \in Partitions, o \in Nat : Ripen(p, o)
             \/ \E c \in Consumers, p \in Partitions : ResumeFallsDue(c, p)
             \/ UNCHANGED clickVars
      PROVE  Leaves(d)
  BY <1>4, WaitLeaves
<1>5. 0 .. MaxOffset \subseteq Nat
  OBVIOUS
<1> QED
  BY <1>1, <1>2, <1>3, <1>4, <1>5, Zenon DEF ClickNext, ConsumerStep

LEMMA StepRoutesCurrent ==
  CInv /\ RoutesCurrent /\ [ClickNext]_clickVars => RoutesCurrent'
<1> SUFFICES ASSUME CInv, RoutesCurrent, [ClickNext]_clickVars, NEW d \in Consumers,
                    step'[d] # "idle"
             PROVE  current'[d] \in {handling'[d], NoPartition}
  BY DEF RoutesCurrent
<1>1. CASE Leaves(d)
  BY <1>1 DEF Leaves, RoutesCurrent
<1>2. CASE Advances(d)
  BY <1>2 DEF Advances
<1> QED
  BY <1>1, <1>2, StepTakesOn

LEMMA RoutesInvariance == ClickSpec => [](CInv /\ BatchInHand /\ RoutesCurrent)
<1>1. ClickInit => RoutesCurrent
  BY DEF ClickInit, RoutesCurrent
<1>2. ClickSpec => []BatchInHand
  BY ImplementsLoop, BatchesAreInHand, PTL
<1> QED
  BY <1>1, <1>2, ClickInvariance, StepRoutesCurrent, PTL DEF ClickSpec

\* No process of the pipeline is ever without a step of its own: it turns, takes
\* a message or routes one, through every failed call, fence and retry
\* (retry_router.py:155-382, kafka_loop.py:134-215).
THEOREM ProcessesNeverStall == ClickSpec => []ProcessesGoOn
<1>1. CInv /\ BatchInHand /\ RoutesCurrent => ProcessesGoOn
  <2> SUFFICES ASSUME CInv, BatchInHand, RoutesCurrent, NEW c \in Consumers
               PROVE  CanTurn(c) \/ CanHandle(c) \/ CanRoute(c) \/ TierIsFull(c)
    BY DEF ProcessesGoOn
  <2>1. step[c] \in Steps /\ phase[c] \in Phases
    BY DEF CInv, IInv, TypeOK, ClickTypeOK
  <2>2. CASE step[c] = "idle" /\ phase[c] # "process"
    BY <2>1, <2>2 DEF CanTurn, Phases
  <2>3. CASE step[c] = "idle" /\ phase[c] = "process"
    <3>1. PICK p \in Partitions : InBatch(c, p) /\ current[c] \in {p, NoPartition}
      BY <2>3 DEF BatchInHand, InHand
    <3>2. Message(c, p) \in Record
      BY <3>1, MessageInLog
    <3> QED
      BY <2>3, <3>1, <3>2 DEF CanHandle, MayHandle
  <2>4. CASE step[c] = "route"
    <3>1. Busy(c) /\ Handled(c).retries < MaxRetries
      BY <2>4 DEF CInv, Routed
    <3>2. Handled(c).retries \in Nat
      BY <3>1, MessageInLog DEF Busy, Handled, Record
    <3>3. NextTier(c) \in 1 .. MaxRetries
      BY <3>1, <3>2, ClickAssumption DEF NextTier, ClickAssumption
    <3>4. logEnd[Tier[NextTier(c)]] \in Nat /\ MaxOffset \in Nat
      BY <3>3, ClickAssumption, LoopAssumption
      DEF ClickAssumption, LoopAssumption, CInv, IInv, TypeOK
    <3>5. \/ logEnd[Tier[NextTier(c)]] < MaxOffset
          \/ logEnd[Tier[NextTier(c)]] >= MaxOffset
      BY <3>4
    <3> QED
      BY <2>4, <3>3, <3>5, Zenon DEF CanRoute, TierIsFull
  <2>5. CASE step[c] \in {"safe", "unsafe"}
    <3>1. Busy(c) /\ current[c] \in {handling[c], NoPartition}
      BY <2>5 DEF CInv, Routed, RoutesCurrent
    <3> QED
      BY <2>5, <3>1 DEF CanRoute, Busy
  <2> QED
    BY <2>1, <2>2, <2>3, <2>4, <2>5 DEF Steps, CanRoute
<1> QED
  BY <1>1, RoutesInvariance, PTL

\* While a process has a batch, nothing takes it back in it or makes it longer,
\* and every step of its own takes it on: with at most five for a message, a
\* batch is done after finitely many, whatever fails and whoever interferes.
THEOREM BatchesComeToAnEnd == ClickSpec => [][BatchesAdvance /\ WorkAdvances]_clickVars
<1>1. CInv /\ RoutesCurrent /\ [ClickNext]_clickVars
          => [BatchesAdvance /\ WorkAdvances]_clickVars
  <2> SUFFICES ASSUME CInv, RoutesCurrent, [ClickNext]_clickVars, NEW c \in Consumers,
                      phase[c] = "process"
               PROVE  /\ \/ phase'[c] = "down"
                         \/ position'[c] = position[c] /\ Ahead(c)
                         \/ Leaves(c)
                      /\ Work(c) => Ahead(c)
    BY DEF BatchesAdvance, WorkAdvances
  <2>1. Advances(c) => position'[c] = position[c] /\ Ahead(c)
    BY DEF Advances
  <2>2. ~LoopTurn(c)
    BY DEF LoopTurn, PollStep, Poll, PollRaises, Commit, CommitFails, Restart
  <2>3. Work(c) => Ahead(c)
    BY <2>1, <2>2, HandleAdvances, RouteAdvances DEF Work
  <2> QED
    BY <2>1, <2>3, StepTakesOn
<1> QED
  BY <1>1, RoutesInvariance, PTL DEF ClickSpec

-----------------------------------------------------------------------------
(* The whole way of a click.                                               *)

Ingest == INSTANCE ClickIngestProofs

\* The gateway of the journey is the one that the theorems of ClickIngestProofs
\* are about, action by action.
LEMMA GatewaySteps ==
  ASSUME NEW r \in Requests
  PROVE  /\ Gateway!Submit(r) => Ingest!Submit(r)
         /\ Gateway!RequestTimesOut(r) => Ingest!RequestTimesOut(r)
         /\ Gateway!Worker(r) => Ingest!Worker(r)
         /\ Gateway!Note(r) => Ingest!Note(r)
         /\ Gateway!Store(r) => Ingest!Store(r)
         /\ Gateway!Settle(r) => Ingest!Settle(r)
<1> USE DEF Gateway!pool, Ingest!pool, Gateway!kafka, Ingest!kafka,
            Gateway!outcomes, Ingest!outcomes, Gateway!blocks, Ingest!blocks,
            Gateway!Moves, Ingest!Moves, Gateway!Ends, Ingest!Ends,
            Gateway!Tell, Ingest!Tell, Gateway!Index, Ingest!Index,
            Gateway!Abs, Ingest!Abs, Gateway!JavaMod, Ingest!JavaMod,
            Gateway!Increment, Ingest!Increment, Gateway!Counter, Ingest!Counter
<1>1. Gateway!Submit(r) => Ingest!Submit(r)
  BY Zenon DEF Gateway!Submit, Ingest!Submit
<1>2. Gateway!RequestTimesOut(r) => Ingest!RequestTimesOut(r)
  BY Zenon DEF Gateway!RequestTimesOut, Ingest!RequestTimesOut
<1>3. Gateway!Gate(r) => Ingest!Gate(r)
  BY Zenon DEF Gateway!Gate, Ingest!Gate, Gateway!SendBlocked, Ingest!SendBlocked,
               Gateway!Degraded, Ingest!Degraded, Gateway!Counted, Ingest!Counted,
               Gateway!Failing, Ingest!Failing, Gateway!Slots, Ingest!Slots,
               Gateway!BlockSlots, Ingest!BlockSlots,
               Gateway!Cardinality, Ingest!Cardinality
<1>4. Gateway!Send(r) => Ingest!Send(r)
  BY Zenon DEF Gateway!Send, Ingest!Send
<1>5. (Gateway!Register(r) \/ Gateway!Await(r)) => (Ingest!Register(r) \/ Ingest!Await(r))
  BY Zenon DEF Gateway!Register, Ingest!Register, Gateway!Await, Ingest!Await
<1>6. Gateway!ClaimSlot(r) => Ingest!ClaimSlot(r)
  BY Zenon DEF Gateway!ClaimSlot, Ingest!ClaimSlot
<1>7. Gateway!WriteOutcome(r) => Ingest!WriteOutcome(r)
  BY Zenon DEF Gateway!WriteOutcome, Ingest!WriteOutcome,
               Gateway!Verdict, Ingest!Verdict
<1>8. Gateway!WriteTime(r) => Ingest!WriteTime(r)
  BY Zenon DEF Gateway!WriteTime, Ingest!WriteTime, Gateway!Nobody, Ingest!Nobody
<1>9. Gateway!Store(r) => Ingest!Store(r)
  BY Zenon DEF Gateway!Store, Ingest!Store
<1>10. Gateway!Settle(r) => Ingest!Settle(r)
  BY Zenon DEF Gateway!Settle, Ingest!Settle, Gateway!SenderBusy, Ingest!SenderBusy
<1> QED
  BY <1>1, <1>2, <1>3, <1>4, <1>5, <1>6, <1>7, <1>8, <1>9, <1>10
  DEF Gateway!Worker, Ingest!Worker, Gateway!Note, Ingest!Note

LEMMA GatewayTurns ==
    /\ Gateway!Init => Ingest!Init
    /\ Gateway!GatewayStep => Ingest!GatewayStep
<1> USE DEF Gateway!pool, Ingest!pool, Gateway!kafka, Ingest!kafka,
            Gateway!outcomes, Ingest!outcomes, Gateway!blocks, Ingest!blocks,
            Gateway!Moves, Ingest!Moves, Gateway!Ends, Ingest!Ends,
            Gateway!Tell, Ingest!Tell, Gateway!Slots, Ingest!Slots,
            Gateway!BlockSlots, Ingest!BlockSlots
<1>1. Gateway!Init => Ingest!Init
  BY Zenon DEF Gateway!Init, Ingest!Init, Gateway!Nobody, Ingest!Nobody
<1>2. Gateway!Take => Ingest!Take
  BY Zenon DEF Gateway!Take, Ingest!Take, Gateway!Running, Ingest!Running,
               Gateway!Cardinality, Ingest!Cardinality
<1>3. Gateway!Shrink => Ingest!Shrink
  BY Zenon DEF Gateway!Shrink, Ingest!Shrink, Gateway!Running, Ingest!Running,
               Gateway!Cardinality, Ingest!Cardinality
<1>4. Gateway!Tick => Ingest!Tick
  BY Zenon DEF Gateway!Tick, Ingest!Tick
<1> QED
  BY <1>1, <1>2, <1>3, <1>4, GatewaySteps, Zenon
  DEF Gateway!GatewayStep, Ingest!GatewayStep

LEMMA IngestAssumed == Ingest!IngestAssumption
BY GatewayAssumption, Zenon
DEF Gateway!IngestAssumption, Ingest!IngestAssumption,
    Gateway!IsFiniteSet, Ingest!IsFiniteSet

\* No step of the gateway but Store writes to the topic.
LEMMA StoredByStore == Ingest!GatewayStep => UNCHANGED stored
BY DEF Ingest!GatewayStep, Ingest!Submit, Ingest!RequestTimesOut, Ingest!Worker,
       Ingest!Gate, Ingest!Send, Ingest!Register, Ingest!Await, Ingest!Note,
       Ingest!ClaimSlot, Ingest!WriteOutcome, Ingest!WriteTime, Ingest!Settle,
       Ingest!Take, Ingest!Shrink, Ingest!Tick, Ingest!pool, Ingest!kafka

\* Seen from the gateway, the rest of the journey is what the broker and nobody
\* else does to it: whatever is proved of ClickIngest holds here
\* (EventTrackingService.java:50-94).
THEOREM JourneyIngests == JourneySpec => Ingest!Spec
<1>1. JourneyInit => Ingest!Init
  BY GatewayTurns DEF JourneyInit
<1>2. [JourneyNext]_journeyVars => [Ingest!Next]_(Ingest!vars)
  <2> SUFFICES ASSUME [JourneyNext]_journeyVars PROVE [Ingest!Next]_(Ingest!vars)
    OBVIOUS
  <2>1. ASSUME NEW r \in Requests, ClickReachesKafka(r) PROVE Ingest!Next
    BY <2>1, GatewaySteps DEF ClickReachesKafka, Ingest!Next
  <2>2. CASE GatewayGoesOn
    BY <2>2, GatewayTurns DEF GatewayGoesOn, Ingest!Next
  <2>3. ASSUME UNCHANGED gatewayVars PROVE UNCHANGED Ingest!vars
    BY <2>3 DEF gatewayVars, Ingest!vars, Ingest!pool, Ingest!kafka,
                Ingest!outcomes, Ingest!blocks
  <2> QED
    BY <2>1, <2>2, <2>3
    DEF JourneyNext, OthersPublish, ConsumersGoOn, journeyVars
<1> QED
  BY <1>1, <1>2, PTL DEF JourneySpec, Ingest!Spec

LEMMA JourneyStepConsumes == [JourneyNext]_journeyVars => [ClickNext]_clickVars
<1> SUFFICES ASSUME JourneyNext \/ UNCHANGED journeyVars
             PROVE  ClickNext \/ UNCHANGED clickVars
  OBVIOUS
<1>1. ASSUME NEW r \in Requests, ClickReachesKafka(r) PROVE ClickNext
  BY <1>1, JourneyAssumption DEF ClickReachesKafka, ClickNext
<1>2. ASSUME NEW e \in Events, OthersPublish(e) PROVE ClickNext
  BY <1>2 DEF OthersPublish, ClickNext
<1>3. CASE ConsumersGoOn
  BY <1>3 DEF ConsumersGoOn, ClickNext
<1>4. CASE GatewayGoesOn
  BY <1>4 DEF GatewayGoesOn
<1>5. CASE UNCHANGED journeyVars
  BY <1>5 DEF journeyVars
<1> QED
  BY <1>1, <1>2, <1>3, <1>4, <1>5 DEF JourneyNext

\* Seen from the consumers, the gateway is a producer of the main topic that
\* writes each event once: whatever is proved of ClickPipeline holds here.
THEOREM JourneyConsumes == JourneySpec => ClickSpec
<1>1. JourneyInit => ClickInit
  BY DEF JourneyInit
<1> QED
  BY <1>1, JourneyStepConsumes, PTL DEF JourneySpec, ClickSpec

\* Of nothing that was not published are there traces.
TracesInv == \A e \in Events : Settled(e) => Emitted(e)

LEMMA StepTraces == CInv /\ TracesInv /\ [ClickNext]_clickVars => TracesInv'
<1> SUFFICES ASSUME CInv, TracesInv, [ClickNext]_clickVars PROVE TracesInv'
  OBVIOUS
<1>1. Materialized \cup Buried \subseteq Accepted
  BY DEF TracesInv, Settled, Materialized, Buried, Accepted
<1>2. [Delivery!Next]_(Delivery!promise)
  BY StepOfDelivery
<1>3. Materialized' \cup Buried' \subseteq Accepted'
  BY <1>1, <1>2
  DEF Delivery!Next, Delivery!Accept, Delivery!Apply, Delivery!Fail, Delivery!Bury,
      Delivery!promise, Materialized, Buried, Accepted
<1>4. applied' \in [Events -> Nat]
  BY StepCInv DEF CInv, ClickTypeOK
<1> QED
  BY <1>3, <1>4 DEF TracesInv, Settled, Materialized, Buried, Accepted

\* The consumers write to no topic that the gateway writes to.
LEMMA ConsumersLeaveMain ==
  ASSUME CInv, ConsumerStep
  PROVE  log'[Main] = log[Main]
<1>1. ASSUME NEW c \in Consumers, SendRetry(c) PROVE log'[Main] = log[Main]
  <2>1. Tier[Handled(c).retries + 1] \in Partitions \ {Main}
    BY <1>1, SendRetryFacts, ClickAssumption DEF SendRetry
  <2> QED
    BY <1>1, <2>1, ClickAssumption
    DEF SendRetry, Append1, CInv, ClickTypeOK, ClickAssumption
<1> QED
  BY <1>1
  DEF ConsumerStep, Ripen, Regroup, ResumeFallsDue, LoopTurn, Die, Route, CheckMarker,
      SendDlq, MarkDlq, Return, Handle, DeferMessage, UpdateRaises, UpdateSucceeds,
      UpdateFails, Reject

\* Where gateway and consumers meet: a record the broker has stored for a
\* request is the message with its event_id in the main topic.
MeetInv == \A r \in Requests : r \in stored <=> Emitted(EventId[r])

LEMMA EmitIsSeen ==
  ASSUME CInv, NEW e \in Events, Emit(e), NEW x \in Events
  PROVE  Emitted(x)' <=> (Emitted(x) \/ x = e)
<1>1. Delivery!Accept(e)
  BY EmitAccepts, ClickAssumption
<1>2. Accepted' = Accepted \cup {e}
  BY <1>1 DEF Delivery!Accept, Accepted
<1> QED
  BY <1>2 DEF Accepted

LEMMA StepMeets == CInv /\ MeetInv /\ [JourneyNext]_journeyVars => MeetInv'
<1> SUFFICES ASSUME CInv, MeetInv, JourneyNext \/ UNCHANGED journeyVars
             PROVE  MeetInv'
  OBVIOUS
<1>1. ASSUME NEW q \in Requests, ClickReachesKafka(q) PROVE MeetInv'
  <2>1. stored' = stored \cup {q} /\ Emit(EventId[q])
    BY <1>1 DEF ClickReachesKafka, Gateway!Store
  <2>2. ASSUME NEW r \in Requests
        PROVE  (r \in stored') <=> Emitted(EventId[r])'
    <3>1. EventId[q] \in Events /\ EventId[r] \in Events
          /\ (EventId[r] = EventId[q] => r = q)
      BY JourneyAssumption
    <3> QED
      BY <2>1, <3>1, EmitIsSeen DEF MeetInv
  <2> QED
    BY <2>2 DEF MeetInv
<1>2. ASSUME NEW e \in Events, OthersPublish(e) PROVE MeetInv'
  <2>1. stored' = stored /\ Emit(e) /\ \A r \in Requests : EventId[r] # e
    BY <1>2 DEF OthersPublish, gatewayVars
  <2>2. \A r \in Requests : Emitted(EventId[r])' <=> Emitted(EventId[r])
    BY <2>1, EmitIsSeen, JourneyAssumption
  <2> QED
    BY <2>1, <2>2 DEF MeetInv
<1>3. ASSUME UNCHANGED stored, log'[Main] = log[Main] PROVE MeetInv'
  BY <1>3 DEF MeetInv, Emitted, Records
<1>4. CASE GatewayGoesOn
  BY <1>3, <1>4, GatewayTurns, StoredByStore DEF GatewayGoesOn, clickVars
<1>5. CASE ConsumersGoOn
  BY <1>3, <1>5, ConsumersLeaveMain DEF ConsumersGoOn, gatewayVars
<1>6. CASE UNCHANGED journeyVars
  BY <1>3, <1>6 DEF journeyVars, gatewayVars, clickVars
<1> QED
  BY <1>1, <1>2, <1>4, <1>5, <1>6 DEF JourneyNext

LEMMA JourneyInvariance == JourneySpec => [](CInv /\ TracesInv /\ MeetInv)
<1>1. JourneyInit => TracesInv /\ MeetInv
  <2> SUFFICES ASSUME JourneyInit PROVE TracesInv /\ MeetInv
    OBVIOUS
  <2>1. stored = {} /\ \A e \in Events : ~Emitted(e) /\ ~Settled(e)
    BY ClickAssumption
    DEF JourneyInit, Gateway!Init, ClickInit, Emitted, Records, Settled, DeadLettered,
        ClickAssumption
  <2> QED
    BY <2>1, JourneyAssumption DEF TracesInv, MeetInv
<1> QED
  BY <1>1, JourneyStepConsumes, JourneyConsumes, ClickInvariance, StepTraces, StepMeets, PTL
  DEF JourneySpec

\* Whatever the gateway, Kafka, the consumers and Redis do, and whoever crashes,
\* times out or is fenced on the way: a click whose client read 200 is
\* materialized, dead-lettered, still to be consumed or one of those the loop
\* polled past; one that was refused before the publish has left no trace.
THEOREM AnswersAreHonest == JourneySpec => []AnswersAreKept
<1>1. ASSUME CInv, TracesInv, MeetInv, NoUnexplainedLoss,
             Ingest!AcknowledgedIsStored, Ingest!RefusedIsUnsent
      PROVE  AnswersAreKept
  <2> SUFFICES ASSUME NEW r \in Requests, NEW e \in Events, e = EventId[r]
               PROVE  /\ answer[r] = "acknowledged" =>
                            \/ Settled(e)
                            \/ LiveCopy(e)
                            \/ \E p \in Partitions : \E o \in abandoned[p] : At(p, o, e)
                      /\ answer[r] = "refused" => ~Settled(e) /\ ~InSomeLog(e)
    BY JourneyAssumption DEF AnswersAreKept
  <2>1. r \in stored <=> Emitted(e)
    BY <1>1 DEF MeetInv
  <2>2. CASE answer[r] = "acknowledged"
    BY <1>1, <2>1, <2>2 DEF Ingest!AcknowledgedIsStored, NoUnexplainedLoss
  <2>3. CASE answer[r] = "refused"
    <3>1. ~Emitted(e)
      BY <1>1, <2>1, <2>3 DEF Ingest!RefusedIsUnsent
    <3>2. ~Settled(e)
      BY <1>1, <3>1 DEF TracesInv
    <3>3. ~InSomeLog(e)
      BY <1>1, <3>1 DEF InSomeLog, Records, CInv, LogEarned, Earned
    <3> QED
      BY <2>3, <3>2, <3>3
  <2> QED
    BY <2>2, <2>3
<1>2. Ingest!Spec => []Ingest!AcknowledgedIsStored
  BY IngestAssumed, Ingest!AcknowledgementsAreTrue DEF Ingest!AcknowledgementsAreTrue
<1>3. Ingest!Spec => []Ingest!RefusedIsUnsent
  BY IngestAssumed, Ingest!RefusalsAreFinal DEF Ingest!RefusalsAreFinal
<1> QED
  BY <1>1, <1>2, <1>3, JourneyInvariance, JourneyIngests, JourneyConsumes,
     LossesAreExplained, PTL
=============================================================================
