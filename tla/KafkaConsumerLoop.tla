------------------------- MODULE KafkaConsumerLoop -------------------------
(***************************************************************************)
(* The poll-process-commit loop of the event consumer (kafka_loop.py), for *)
(* the processes of one or more Kafka consumer groups.  What processing a  *)
(* message does is left to the outcome it returns to the loop;             *)
(* ClickPipeline gives each outcome its meaning.  The Kafka client and the *)
(* group coordinator are external: they are modelled by what the loop      *)
(* relies on (poll moves the fetch position past what it returns, a        *)
(* rebalance restarts a partition at its committed offset, a commit by a   *)
(* member the group has left behind is refused).                           *)
(***************************************************************************)
EXTENDS Naturals

CONSTANTS
    Groups,         \* the consumer groups (CONSUMER_MODE primary and retry)
    Consumers,      \* the processes
    Partitions,     \* the partitions of the topics the groups subscribe to
    Killable,       \* the processes the environment may kill
    CommitMayFail,  \* an accepted member's commit may fail too
    GroupOf,        \* the group of each process and of each partition
    NoPartition,    \* "no partition is being processed"
    Poison,         \* <<p, o>>: the value at offset o of p is not JSON
    MaxPoll,        \* KAFKA_POLL_MAX_RECORDS, as a bound per partition
    MaxOffset,      \* bound: records per partition
    MaxRebalances   \* bound: rebalances per group that a running member sees

ASSUME LoopAssumption ==
    /\ GroupOf \in [Consumers \cup Partitions -> Groups]
    /\ NoPartition \notin Partitions
    /\ CommitMayFail \in BOOLEAN
    /\ MaxPoll \in Nat \ {0}
    /\ MaxOffset \in Nat
    /\ MaxRebalances \in Nat

VARIABLES
    logEnd,         \* [Partitions -> Nat]: end offset in the broker
    committed,      \* [Partitions -> Nat]: the group's committed offset
    rebalances,     \* [Groups -> Nat]: of those, how many so far
    phase,          \* where each process is in the loop
    fenced,         \* the group generation has moved on without the process
    assigned,       \* the client's assignment
    position,       \* the client's fetch position
    next,           \* first offset of the polled batch not yet processed
    current,        \* the partition whose messages are being processed
    pending,        \* pending_commits, 0 when a partition has no entry
    clientPaused,   \* partitions the client does not fetch
    backingOff,     \* keys of paused_partitions whose resume_at is ahead
    due,            \* keys of paused_partitions whose resume_at has passed
    done,           \* history: offsets processed with commit_safe = True
    abandoned       \* history: offsets delivered, not committed, and passed
                    \*   by a later poll of the process that owns them

broker == <<logEnd, committed, rebalances>>
client == <<fenced, assigned, position, clientPaused>>
batch  == <<next, current, pending>>
backoff == <<backingOff, due>>
history == <<done, abandoned>>
vars == <<broker, phase, client, batch, backoff, history>>

Phases == {"poll", "process", "commit", "down"}

\* What _process_fn tells the loop: the message is commit_safe, it is not (or
\* an exception was logged, which ends the partition's share the same way), or
\* it is not and its partition was paused until its retry delay is over.
Outcomes == {"safe", "unsafe", "deferred"}

TypeOK ==
    /\ logEnd \in [Partitions -> Nat]
    /\ committed \in [Partitions -> Nat]
    /\ rebalances \in [Groups -> Nat]
    /\ phase \in [Consumers -> Phases]
    /\ fenced \in [Consumers -> BOOLEAN]
    /\ assigned \in [Consumers -> SUBSET Partitions]
    /\ position \in [Consumers -> [Partitions -> Nat]]
    /\ next \in [Consumers -> [Partitions -> Nat]]
    /\ current \in [Consumers -> Partitions \cup {NoPartition}]
    /\ pending \in [Consumers -> [Partitions -> Nat]]
    /\ clientPaused \in [Consumers -> SUBSET Partitions]
    /\ backingOff \in [Consumers -> SUBSET Partitions]
    /\ due \in [Consumers -> SUBSET Partitions]
    /\ done \in [Partitions -> SUBSET Nat]
    /\ abandoned \in [Partitions -> SUBSET Nat]

NoOffsets == [p \in Partitions |-> 0]

\* The consumer-side state: a fresh process that has not joined the group yet.
LoopInit ==
    /\ phase = [c \in Consumers |-> "poll"]
    /\ fenced = [c \in Consumers |-> TRUE]
    /\ assigned = [c \in Consumers |-> {}]
    /\ position = [c \in Consumers |-> NoOffsets]
    /\ next = [c \in Consumers |-> NoOffsets]
    /\ current = [c \in Consumers |-> NoPartition]
    /\ pending = [c \in Consumers |-> NoOffsets]
    /\ clientPaused = [c \in Consumers |-> {}]
    /\ backingOff = [c \in Consumers |-> {}]
    /\ due = [c \in Consumers |-> {}]

Init ==
    /\ LoopInit
    /\ logEnd = NoOffsets
    /\ committed = NoOffsets
    /\ rebalances = [g \in Groups |-> 0]
    /\ done = [p \in Partitions |-> {}]
    /\ abandoned = [p \in Partitions |-> {}]

-----------------------------------------------------------------------------
(* The environment: producers, the group coordinator, time.                *)

Produce(p) ==
    /\ logEnd[p] < MaxOffset
    /\ logEnd' = [logEnd EXCEPT ![p] = @ + 1]
    /\ UNCHANGED <<committed, rebalances, phase, client, batch,
                   backoff, history>>

\* Group g settles on the members M: they are inside poll(), take the
\* assignment A, which covers the group's partitions, and restart each one at
\* its committed offset, unpaused (the client rebuilds its partition state).
\* The other members are fenced and learn of it at a later poll or commit.
\* paused_partitions is the program's own dict: a rebalance leaves it alone.
\* A group without a running member can always settle again.
PartitionsOf(g) == {p \in Partitions : GroupOf[p] = g}
MembersOf(g) == {c \in Consumers : GroupOf[c] = g}
IsRunning(g) == \E c \in MembersOf(g) : ~fenced[c]

Rebalance(g, M, A) ==
    /\ IsRunning(g) => rebalances[g] < MaxRebalances
    /\ M # {}
    /\ \A c \in M : phase[c] = "poll"
    /\ \A p \in PartitionsOf(g) : \E c \in M : p \in A[c]
    /\ \A c, d \in M : c # d => A[c] \cap A[d] = {}
    /\ rebalances' = [rebalances EXCEPT ![g] = IF IsRunning(g) THEN @ + 1 ELSE @]
    /\ fenced' = [c \in Consumers |-> IF GroupOf[c] = g THEN c \notin M ELSE fenced[c]]
    /\ assigned' = [c \in Consumers |-> IF c \in M THEN A[c] ELSE assigned[c]]
    /\ position' = [c \in Consumers |-> IF c \in M THEN committed ELSE position[c]]
    /\ next' = [c \in Consumers |-> IF c \in M THEN committed ELSE next[c]]
    /\ clientPaused' = [c \in Consumers |-> IF c \in M THEN {} ELSE clientPaused[c]]
    /\ UNCHANGED <<logEnd, committed, phase, current, pending, backoff, history>>

\* Time passes resume_at, and the one-second resume check is due again.
BackoffExpires(c, p) ==
    /\ p \in backingOff[c]
    /\ backingOff' = [backingOff EXCEPT ![c] = @ \ {p}]
    /\ due' = [due EXCEPT ![c] = @ \cup {p}]
    /\ UNCHANGED <<broker, phase, client, batch, history>>

-----------------------------------------------------------------------------
(* One iteration of the loop.                                              *)

\* The records poll() may return: of each partition it fetches, a run from
\* the position that stops before a record that does not deserialize.
Fetchable(c) == assigned[c] \ clientPaused[c]

Readable(c, n) ==
    \A p \in Partitions :
        /\ n[p] > 0 => p \in Fetchable(c) /\ position[c][p] + n[p] <= logEnd[p]
        /\ \A o \in position[c][p] .. position[c][p] + n[p] - 1 :
               <<p, o>> \notin Poison

\* _resume_ready_partitions: consumer.resume() raises at the first
\* partition the client no longer owns; the ones before it in the dict's
\* order are resumed, the ones after it are not, and all are dropped.
ResumeReady(c, resumed) ==
    /\ IF due[c] \subseteq assigned[c]
       THEN resumed = due[c]
       ELSE resumed \subseteq due[c] \cap assigned[c]
    /\ clientPaused' = [clientPaused EXCEPT ![c] = @ \ resumed]
    /\ due' = [due EXCEPT ![c] = {}]

\* Mutant: pending_commits lives as long as the process.
KeepsPending(c) == UNCHANGED pending

\* Each batch starts with pending_commits = {}.
FreshPending(c) == pending' = [pending EXCEPT ![c] = NoOffsets]

\* poll() and the resume check that follows it.  A fenced process may not have
\* heard of the rebalance yet and still gets what its client has fetched.
\* Offsets a previous batch of the owner left uncommitted are passed for good
\* once newer records are delivered.
Poll(c, n, resumed) ==
    /\ phase[c] = "poll"
    /\ Readable(c, n)
    /\ position' = [position EXCEPT ![c] = [p \in Partitions |-> @[p] + n[p]]]
    /\ next' = [next EXCEPT ![c] = position[c]]
    /\ abandoned' = [p \in Partitions |->
           IF n[p] = 0 \/ fenced[c] THEN abandoned[p]
           ELSE abandoned[p] \cup
                {o \in committed[p] .. position[c][p] - 1 : o \notin done[p]}]
    /\ FreshPending(c)
    /\ ResumeReady(c, resumed)
    /\ phase' = [phase EXCEPT ![c] =
           IF \E p \in Partitions : n[p] > 0 THEN "process" ELSE "poll"]
    /\ UNCHANGED <<broker, fenced, assigned, current, backingOff, done>>

\* The process exits, and its memory with it.  It is fenced from here on: what
\* a later process of the same name does starts with joining the group.
Exit(c) ==
    /\ phase' = [phase EXCEPT ![c] = "down"]
    /\ fenced' = [fenced EXCEPT ![c] = TRUE]
    /\ assigned' = [assigned EXCEPT ![c] = {}]
    /\ position' = [position EXCEPT ![c] = NoOffsets]
    /\ next' = [next EXCEPT ![c] = NoOffsets]
    /\ current' = [current EXCEPT ![c] = NoPartition]
    /\ pending' = [pending EXCEPT ![c] = NoOffsets]
    /\ clientPaused' = [clientPaused EXCEPT ![c] = {}]
    /\ backingOff' = [backingOff EXCEPT ![c] = {}]
    /\ due' = [due EXCEPT ![c] = {}]
    /\ UNCHANGED history

\* value_deserializer raises inside poll(): the outer handler exits.
PollRaises(c) ==
    /\ phase[c] = "poll"
    /\ \E p \in Fetchable(c) : \E o \in position[c][p] .. logEnd[p] - 1 :
           <<p, o>> \in Poison
    /\ Exit(c)
    /\ UNCHANGED broker

\* The rest of the batch; its partitions are taken one at a time.
InBatch(c, p) == next[c][p] < position[c][p]

\* The pause of _respect_retry_tier_delay: only a partition that is not yet in
\* paused_partitions is paused in the client; otherwise its entry is extended.
Defer(c, p) ==
    /\ clientPaused' = IF p \in backingOff[c] \cup due[c] THEN clientPaused
                       ELSE [clientPaused EXCEPT ![c] = @ \cup {p}]
    /\ backingOff' = [backingOff EXCEPT ![c] = @ \cup {p}]
    /\ due' = [due EXCEPT ![c] = @ \ {p}]

\* Mutant: the loop goes on with the partition after an unsafe message.
GoesOn(c, p, outcome) == next[c][p] + 1

\* A message that is not commit_safe ends its partition's share (break).
NextInBatch(c, p, outcome) ==
    IF outcome = "safe" THEN next[c][p] + 1 ELSE position[c][p]

ProcessMessage(c, p, outcome) ==
    LET o == next[c][p]
        nextOfP == NextInBatch(c, p, outcome)
        morePartitions == \E q \in Partitions \ {p} : InBatch(c, q)
        newPending == [pending[c] EXCEPT ![p] = IF outcome = "safe" THEN o + 1 ELSE @]
    IN  /\ phase[c] = "process"
        /\ InBatch(c, p)
        /\ current[c] \in {p, NoPartition}
        /\ next' = [next EXCEPT ![c][p] = nextOfP]
        /\ current' = [current EXCEPT ![c] =
               IF nextOfP < position[c][p] THEN p ELSE NoPartition]
        /\ pending' = [pending EXCEPT ![c] = newPending]
        /\ done' = [done EXCEPT ![p] = IF outcome = "safe" THEN @ \cup {o} ELSE @]
        /\ phase' = [phase EXCEPT ![c] =
               IF nextOfP < position[c][p] \/ morePartitions THEN "process"
               ELSE IF newPending = NoOffsets THEN "poll" ELSE "commit"]
        /\ IF outcome = "deferred"
           THEN Defer(c, p)
           ELSE UNCHANGED <<clientPaused, backoff>>
        /\ UNCHANGED <<broker, fenced, assigned, position, abandoned>>

\* The batch commit succeeds.
Committed(c) ==
    [p \in Partitions |-> IF pending[c][p] > 0 THEN pending[c][p] ELSE committed[p]]

Commit(c) ==
    /\ phase[c] = "commit"
    /\ ~fenced[c]
    /\ committed' = Committed(c)
    /\ phase' = [phase EXCEPT ![c] = "poll"]
    /\ UNCHANGED <<logEnd, rebalances, client, batch, backoff, history>>

\* The batch commit raises: refused because the member is fenced, or lost
\* before or after the broker stored it.  The process exits either way.
CommitFails(c) ==
    /\ phase[c] = "commit"
    /\ \/ fenced[c] /\ committed' = committed
       \/ /\ ~fenced[c]
          /\ CommitMayFail
          /\ committed' \in {committed, Committed(c)}
    /\ Exit(c)
    /\ UNCHANGED <<logEnd, rebalances>>

\* The process is stopped between two steps (SIGKILL, eviction, Ctrl-C).
Crash(c) ==
    /\ c \in Killable
    /\ phase[c] # "down"
    /\ Exit(c)
    /\ UNCHANGED broker

\* Kubernetes restarts the container.
Restart(c) ==
    /\ phase[c] = "down"
    /\ phase' = [phase EXCEPT ![c] = "poll"]
    /\ UNCHANGED <<broker, client, batch, backoff, history>>

-----------------------------------------------------------------------------

Fetches == [Partitions -> 0 .. MaxPoll]

RebalanceStep(g) ==
    \E M \in SUBSET MembersOf(g) :
        \E A \in [M -> SUBSET PartitionsOf(g)] : Rebalance(g, M, A)
PollStep(c) == \E n \in Fetches, r \in SUBSET Partitions : Poll(c, n, r)
ProcessStep(c) == \E p \in Partitions, out \in Outcomes : ProcessMessage(c, p, out)

Next ==
    \/ \E p \in Partitions : Produce(p)
    \/ \E g \in Groups : RebalanceStep(g)
    \/ \E c \in Consumers :
          \/ \E p \in Partitions : BackoffExpires(c, p)
          \/ PollStep(c)
          \/ PollRaises(c)
          \/ ProcessStep(c)
          \/ Commit(c)
          \/ CommitFails(c)
          \/ Crash(c)
          \/ Restart(c)

Spec == Init /\ [][Next]_vars

\* The loop is a single thread that always takes its next step, the clock
\* runs, Kubernetes restarts what exits, and the coordinator gives a group
\* without a running member to the processes that join it.  Nothing is assumed
\* of crashes, of producers or of the other rebalances.
Fairness ==
    /\ \A c \in Consumers :
          /\ WF_vars(PollStep(c) \/ PollRaises(c))
          /\ WF_vars(ProcessStep(c))
          /\ WF_vars(Commit(c) \/ CommitFails(c))
          /\ WF_vars(Restart(c))
          /\ \A p \in Partitions : WF_vars(BackoffExpires(c, p))
    /\ \A g \in Groups : WF_vars(~IsRunning(g) /\ RebalanceStep(g))

FairSpec == Spec /\ Fairness

-----------------------------------------------------------------------------
(* Properties.                                                             *)

\* "Commit covers only the highest safe offset per partition; unsafe offsets
\* are excluded so we never skip a failed message" (kafka_loop.py:14-15).
\* What holds of it: a commit passes an offset that was never safe only when a
\* later poll of the same process had already delivered newer records of that
\* partition.  Within one batch, and across crashes, failed commits and
\* rebalances, no unsafe offset is committed.
CommitJustified ==
    \A p \in Partitions : \A o \in 0 .. committed[p] - 1 :
        o \in done[p] \/ o \in abandoned[p]

\* A committed offset never moves back, whichever process commits and
\* whatever was rebalanced or restarted in between: no message is consumed
\* again because a slow process overwrote a newer commit.
CommitNeverRegresses ==
    [][\A p \in Partitions : committed'[p] >= committed[p]]_vars

\* A partition whose retry delay is over is fetched again, unless the process
\* dies or the group moves on ("Resume partitions whose retry backoff has
\* expired", kafka_loop.py:274).
PausedIsResumed ==
    \A c \in Consumers, p \in Partitions :
        p \in clientPaused[c] ~> (p \notin clientPaused[c] \/ fenced[c])

\* "Poison messages: permanent failures or max-retries exceeded -> DLQ"
\* (consumer.py:17): a poison record does not hold up its partition.
PoisonIsPassed ==
    \A p \in Partitions : \A o \in 0 .. MaxOffset - 1 :
        (<<p, o>> \in Poison /\ o < logEnd[p]) ~> (o < committed[p])
=============================================================================
