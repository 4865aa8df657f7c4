--------------------------- MODULE ClickPipeline ---------------------------
(***************************************************************************)
(* The event consumer as a whole: what processing a message means.         *)
(*                                                                         *)
(* Each process runs the loop of KafkaConsumerLoop.  For every message it  *)
(* respects the retry tier's delay, runs the deduplicating Lua upsert in   *)
(* Redis, and routes what failed to the next retry tier or to the dead     *)
(* letter queue (retry_router.py, feature_update_handler.py).  The calls   *)
(* that leave the process are steps of their own, so that a crash, a       *)
(* rebalance or another process can come between any two of them; a call   *)
(* can fail after its effect has happened (a timeout waiting for the       *)
(* answer).  A topic has one partition here.                               *)
(***************************************************************************)
EXTENDS KafkaConsumerLoop, Sequences

CONSTANTS
    Events,         \* the click events
    Kind,           \* [Events -> EventKinds]
    Main,           \* the partition of KAFKA_TOPIC
    Tier,           \* [1 .. MaxRetries -> Partitions]: KAFKA_RETRY_TIERS
    MaxRetries,     \* MAX_RETRIES
    EnforceDelay,   \* RETRY_ENFORCE_DELAY
    RedisFails,     \* Redis calls may fail, before or after their effect
    PublishFails    \* sends to a retry tier or the DLQ may fail likewise

\* What update_features makes of an event:
\*   valid      it reaches the Lua upsert
\*   invalid    PERMANENT_FAILURE: no user_id or item_id, or a bad timestamp
\*   anonymous  PERMANENT_FAILURE: no event_id, or the value is not an object
\*   raising    the timestamp parser raises something other than ValueError
\*              (OverflowError: 1e300, or year 1 with an offset)
EventKinds == {"valid", "invalid", "anonymous", "raising"}

ASSUME ClickAssumption ==
    /\ Kind \in [Events -> EventKinds]
    /\ Main \in Partitions
    /\ MaxRetries \in Nat
    /\ Tier \in [1 .. MaxRetries -> Partitions \ {Main}]
    /\ EnforceDelay \in BOOLEAN
    /\ RedisFails \in BOOLEAN
    /\ PublishFails \in BOOLEAN

\* An event_id is a random UUID of the gateway (EventTrackingService.java:182):
\* none reads like a topic:partition:offset.
ASSUME EventIdAssumption == \A e \in Events : e \notin Partitions \X Nat

VARIABLES
    log,        \* [Partitions -> Seq(Record)]: record at offset o is log[p][o + 1]
    ripe,       \* <<p, o>> whose retry delay is over
    dedupe,     \* Redis dedupe:event:* keys
    applied,    \* [Events -> Nat]: times the Lua script updated the features
    marks,      \* Redis dlq:sent:* keys
    dlq,        \* what the dead letter topic holds
    step,       \* where each process is in process_message_internal
    handling,   \* the partition whose message it is processing
    failures    \* history: failed upserts per event, saturating

redis == <<dedupe, applied, marks>>
router == <<step, handling>>
clickVars == <<vars, log, ripe, redis, dlq, router, failures>>

Steps == {"idle", "route", "check", "send", "mark", "safe", "unsafe"}
Record == [event : Events, retries : 0 .. MaxRetries]

\* _build_dlq_id: the event_id, or topic:partition:offset when there is none.
DlqIds == Events \cup (Partitions \X Nat)
DlqId(p, o) == LET e == log[p][o + 1].event
               IN  IF Kind[e] = "anonymous" THEN <<p, o>> ELSE e

ClickTypeOK ==
    /\ log \in [Partitions -> Seq(Record)]
    /\ \A p \in Partitions : Len(log[p]) = logEnd[p]
    /\ ripe \subseteq Partitions \X Nat
    /\ dedupe \subseteq Events
    /\ applied \in [Events -> Nat]
    /\ marks \subseteq DlqIds
    /\ dlq \subseteq [id : DlqIds, event : Events, retries : 0 .. MaxRetries]
    /\ step \in [Consumers -> Steps]
    /\ handling \in [Consumers -> Partitions \cup {NoPartition}]
    /\ failures \in [Events -> 0 .. MaxRetries + 1]

ClickInit ==
    /\ Init
    /\ log = [p \in Partitions |-> <<>>]
    /\ ripe = {}
    /\ dedupe = {}
    /\ applied = [e \in Events |-> 0]
    /\ marks = {}
    /\ dlq = {}
    /\ step = [c \in Consumers |-> "idle"]
    /\ handling = [c \in Consumers |-> NoPartition]
    /\ failures = [e \in Events |-> 0]

-----------------------------------------------------------------------------
(* The environment.                                                        *)

Append1(p, r) ==
    /\ Produce(p)
    /\ log' = [log EXCEPT ![p] = Append(@, r)]

Records(p) == {log[p][i] : i \in 1 .. Len(log[p])}

\* The gateway publishes an event, once (its producer is idempotent).
Emit(e) ==
    /\ \A r \in Records(Main) : r.event # e
    /\ Append1(Main, [event |-> e, retries |-> 0])
    /\ UNCHANGED <<ripe, redis, dlq, router, failures>>

\* routed_at_ts + delay_seconds passes (of a copy still to be consumed).
Ripen(p, o) ==
    /\ EnforceDelay
    /\ p # Main
    /\ o \in committed[p] .. logEnd[p] - 1
    /\ <<p, o>> \notin ripe
    /\ ripe' = ripe \cup {<<p, o>>}
    /\ UNCHANGED <<vars, log, redis, dlq, router, failures>>

\* The coordinator and the clock, as in KafkaConsumerLoop.
Regroup(g) ==
    /\ RebalanceStep(g)
    /\ UNCHANGED <<log, ripe, redis, dlq, router, failures>>

ResumeFallsDue(c, p) ==
    /\ BackoffExpires(c, p)
    /\ UNCHANGED <<log, ripe, redis, dlq, router, failures>>

\* The steps of the loop that process no message.
LoopTurn(c) ==
    /\ PollStep(c) \/ PollRaises(c) \/ Commit(c) \/ CommitFails(c) \/ Restart(c)
    /\ UNCHANGED <<log, ripe, redis, dlq, router, failures>>

Die(c) ==
    /\ Crash(c)
    /\ step' = [step EXCEPT ![c] = "idle"]
    /\ handling' = [handling EXCEPT ![c] = NoPartition]
    /\ UNCHANGED <<log, ripe, redis, dlq, failures>>

-----------------------------------------------------------------------------
(* process_message_internal, for the next message of partition p.          *)

Message(c, p) == log[p][next[c][p] + 1]

MayHandle(c, p) ==
    /\ phase[c] = "process"
    /\ step[c] = "idle"
    /\ InBatch(c, p)
    /\ current[c] \in {p, NoPartition}

\* _respect_retry_tier_delay is true: the partition is paused until resume_at.
NotReady(c, p) == EnforceDelay /\ p # Main /\ <<p, next[c][p]>> \notin ripe

DeferMessage(c, p) ==
    /\ MayHandle(c, p)
    /\ NotReady(c, p)
    /\ ProcessMessage(c, p, "deferred")
    /\ UNCHANGED <<log, ripe, redis, dlq, router, failures>>

\* update_features raises before it has a result: the loop logs and breaks.
UpdateRaises(c, p) ==
    /\ MayHandle(c, p)
    /\ ~NotReady(c, p)
    /\ Kind[Message(c, p).event] = "raising"
    /\ ProcessMessage(c, p, "unsafe")
    /\ UNCHANGED <<log, ripe, redis, dlq, router, failures>>

\* Mutant: the script does not look at the dedupe key.
BlindUpsert(e) ==
    /\ dedupe' = dedupe \cup {e}
    /\ applied' = [applied EXCEPT ![e] = @ + 1]
    /\ UNCHANGED marks

\* The Lua script: it sets the dedupe key and updates every feature, or finds
\* the key and does nothing.
Upsert(e) ==
    /\ dedupe' = dedupe \cup {e}
    /\ applied' = [applied EXCEPT ![e] = IF e \in dedupe THEN @ ELSE @ + 1]
    /\ UNCHANGED marks

\* APPLIED or DUPLICATE.
UpdateSucceeds(c, p) ==
    /\ MayHandle(c, p)
    /\ ~NotReady(c, p)
    /\ Kind[Message(c, p).event] = "valid"
    /\ Upsert(Message(c, p).event)
    /\ ProcessMessage(c, p, "safe")
    /\ UNCHANGED <<log, ripe, dlq, router, failures>>

\* Mutants: the last retry is not used, none is, an exhausted event is dropped.
LastRetryUnused(r) == IF r.retries + 1 < MaxRetries THEN "route" ELSE "check"
NoRetries(r) == "check"
DropsExhausted(r) == IF r.retries + 1 <= MaxRetries THEN "route" ELSE "safe"

\* A TRANSIENT_FAILURE goes to the next retry tier while there is one, and to
\* the DLQ after that.
StepAfterFailure(r) == IF r.retries + 1 <= MaxRetries THEN "route" ELSE "check"

\* TRANSIENT_FAILURE: the call to Redis failed, and the script ran or did not.
UpdateFails(c, p) ==
    LET r == Message(c, p)
    IN  /\ RedisFails
        /\ MayHandle(c, p)
        /\ ~NotReady(c, p)
        /\ Kind[r.event] = "valid"
        /\ \/ Upsert(r.event)
           \/ UNCHANGED redis
        /\ failures' = [failures EXCEPT ![r.event] =
               IF @ <= MaxRetries THEN @ + 1 ELSE @]
        /\ step' = [step EXCEPT ![c] = StepAfterFailure(r)]
        /\ handling' = [handling EXCEPT ![c] = p]
        /\ UNCHANGED <<vars, log, ripe, dlq>>

\* PERMANENT_FAILURE: straight to the DLQ.
Reject(c, p) ==
    /\ MayHandle(c, p)
    /\ ~NotReady(c, p)
    /\ Kind[Message(c, p).event] \in {"invalid", "anonymous"}
    /\ step' = [step EXCEPT ![c] = "check"]
    /\ handling' = [handling EXCEPT ![c] = p]
    /\ UNCHANGED <<vars, log, ripe, redis, dlq, failures>>

-----------------------------------------------------------------------------
(* Routing a failed message.                                               *)

Goto(c, s) ==
    /\ step' = [step EXCEPT ![c] = s]
    /\ UNCHANGED handling

Handled(c) == Message(c, handling[c])

\* _send_to_retry_topic: the copy carries the next retry count.  The copy is
\* safe once the broker acknowledges it within five seconds; it may also be
\* stored without an acknowledgement, or not be stored.
SendRetry(c) ==
    LET k == Handled(c).retries + 1
        copy == [event |-> Handled(c).event, retries |-> k]
    IN  /\ step[c] = "route"
        /\ \/ Append1(Tier[k], copy) /\ Goto(c, "safe")
           \/ PublishFails /\ Append1(Tier[k], copy) /\ Goto(c, "unsafe")
           \/ PublishFails /\ UNCHANGED <<vars, log>> /\ Goto(c, "unsafe")
        /\ UNCHANGED <<ripe, redis, dlq, failures>>

\* Mutant: an error reading the marker counts as dispatched.
FailsClosed(c) ==
    LET id == DlqId(handling[c], next[c][handling[c]])
    IN  /\ step[c] = "check"
        /\ \/ (id \in marks \/ RedisFails) /\ Goto(c, "safe")
           \/ id \notin marks /\ Goto(c, "send")
        /\ UNCHANGED <<vars, log, ripe, redis, dlq, failures>>

\* Mutant: the marker is claimed before the DLQ copy is sent.
ClaimsMarker(c) ==
    LET id == DlqId(handling[c], next[c][handling[c]])
    IN  /\ step[c] = "check"
        /\ IF id \in marks THEN Goto(c, "safe") ELSE Goto(c, "send")
        /\ marks' = marks \cup {id}
        /\ UNCHANGED <<vars, log, ripe, dedupe, applied, dlq, failures>>

\* _is_dlq_dispatched: the advisory marker, fail-open.
CheckMarker(c) ==
    LET id == DlqId(handling[c], next[c][handling[c]])
    IN  /\ step[c] = "check"
        /\ \/ id \in marks /\ Goto(c, "safe")
           \/ (id \notin marks \/ RedisFails) /\ Goto(c, "send")
        /\ UNCHANGED <<vars, log, ripe, redis, dlq, failures>>

\* The DLQ copy, keyed by dlq_id.
SendDlq(c) ==
    LET entry == [id |-> DlqId(handling[c], next[c][handling[c]]),
                  event |-> Handled(c).event, retries |-> Handled(c).retries]
    IN  /\ step[c] = "send"
        /\ \/ dlq' = dlq \cup {entry} /\ Goto(c, "mark")
           \/ PublishFails /\ dlq' = dlq \cup {entry} /\ Goto(c, "unsafe")
           \/ PublishFails /\ UNCHANGED dlq /\ Goto(c, "unsafe")
        /\ UNCHANGED <<vars, log, ripe, redis, failures>>

\* _mark_dlq_dispatched: best effort, after the acknowledgement.
MarkDlq(c) ==
    /\ step[c] = "mark"
    /\ \/ marks' = marks \cup {DlqId(handling[c], next[c][handling[c]])}
       \/ RedisFails /\ UNCHANGED marks
    /\ Goto(c, "safe")
    /\ UNCHANGED <<vars, log, ripe, dedupe, applied, dlq, failures>>

\* process_message_internal returns to the loop.
Return(c) ==
    /\ step[c] \in {"safe", "unsafe"}
    /\ ProcessMessage(c, handling[c], step[c])
    /\ step' = [step EXCEPT ![c] = "idle"]
    /\ handling' = [handling EXCEPT ![c] = NoPartition]
    /\ UNCHANGED <<log, ripe, redis, dlq, failures>>

-----------------------------------------------------------------------------

Handle(c, p) ==
    \/ DeferMessage(c, p)
    \/ UpdateRaises(c, p)
    \/ UpdateSucceeds(c, p)
    \/ UpdateFails(c, p)
    \/ Reject(c, p)

Route(c) == SendRetry(c) \/ CheckMarker(c) \/ SendDlq(c) \/ MarkDlq(c) \/ Return(c)

\* What the consumers do, and what happens to them.
ConsumerStep ==
    \/ \E p \in Partitions : \E o \in 0 .. MaxOffset : Ripen(p, o)
    \/ \E g \in Groups : Regroup(g)
    \/ \E c \in Consumers :
          \/ \E p \in Partitions : ResumeFallsDue(c, p) \/ Handle(c, p)
          \/ LoopTurn(c)
          \/ Route(c)
          \/ Die(c)

ClickNext == ConsumerStep \/ \E e \in Events : Emit(e)

ClickSpec == ClickInit /\ [][ClickNext]_clickVars

\* A process is one thread that keeps taking steps, and time and the
\* coordinator go on as in KafkaConsumerLoop.
Work(c) == LoopTurn(c) \/ Route(c) \/ \E p \in Partitions : Handle(c, p)

ClickFairness ==
    /\ \A c \in Consumers :
          /\ WF_clickVars(Work(c))
          /\ \A p \in Partitions : WF_clickVars(ResumeFallsDue(c, p))
    /\ \A g \in Groups : WF_clickVars(~IsRunning(g) /\ Regroup(g))
    /\ \A p \in Partitions : \A o \in 0 .. MaxOffset : WF_clickVars(Ripen(p, o))

FairClickSpec == ClickSpec /\ ClickFairness

-----------------------------------------------------------------------------
(* Properties.                                                             *)

\* "effectively-once Redis feature materialization" (docs/api/events.md:126):
\* an event never updates the features twice, however often it is delivered,
\* retried, or applied by a call that timed out.
EffectivelyOnce == \A e \in Events : applied[e] <= 1

Emitted(e) == \E r \in Records(Main) : r.event = e
DeadLettered(e) == \E d \in dlq : d.event = e
Settled(e) == applied[e] > 0 \/ DeadLettered(e)
At(p, o, e) == o < Len(log[p]) /\ log[p][o + 1].event = e
LiveCopy(e) == \E p \in Partitions : \E o \in committed[p] .. MaxOffset : At(p, o, e)

\* "at-least-once transport" (docs/api/events.md:126): a published event is
\* applied, in the DLQ, or still to be consumed from some topic.
NoSilentLoss == \A e \in Events : Emitted(e) => Settled(e) \/ LiveCopy(e)

\* What the router contributes to it: an event is lost only through a copy
\* that the loop polled past.  No commit_safe answer, crash, failed send, DLQ
\* marker or duplicate loses one.
NoUnexplainedLoss ==
    \A e \in Events : Emitted(e) =>
        \/ Settled(e)
        \/ LiveCopy(e)
        \/ \E p \in Partitions : \E o \in abandoned[p] : At(p, o, e)

\* A valid event reaches the DLQ only after MAX_RETRIES retries on top of the
\* first attempt have failed, across topics, processes and redeliveries.
DeadLetterEarned ==
    \A d \in dlq : Kind[d.event] = "valid" => failures[d.event] = MaxRetries + 1

\* The advisory marker suppresses a DLQ send only when the DLQ has the
\* message: "Kafka broker ack is source-of-truth for sent"
\* (retry_router.py:15-17), and the marker follows it.
MarkerTellsTruth == \A id \in marks : \E d \in dlq : d.id = id

\* The pipeline keeps the promise of ClickDelivery, whatever crashes, fails, is
\* redelivered or runs twice: features come only from published valid events,
\* an event is materialized once and for all, and only malformed or exhausted
\* events are dead-lettered.
Delivery == INSTANCE ClickDelivery WITH
    Valid <- {e \in Events : Kind[e] = "valid"},
    accepted <- {e \in Events : Emitted(e)},
    applied <- {e \in Events : applied[e] > 0},
    buried <- {e \in Events : DeadLettered(e)}

KeepsPromise == Delivery!Spec

\* Every event that is published is applied or dead-lettered in the end.
EventuallySettled == \A e \in Events : Emitted(e) ~> Settled(e)
=============================================================================
