---------------------------- MODULE ClickJourney ----------------------------
(***************************************************************************)
(* A click from the HTTP request to the features in Redis: the gateway of  *)
(* ClickIngest publishes what the consumers of ClickPipeline process.      *)
(*                                                                         *)
(* The two meet in the main topic and nowhere else.  A record the broker   *)
(* stores for the producer of the gateway is a message at the end of the   *)
(* topic, whatever the gateway has told or will tell its client: that step *)
(* is taken by both, every other step by one of them.  Messages that did   *)
(* not come through the gateway may be in the topic as well.               *)
(***************************************************************************)
EXTENDS ClickPipeline, FiniteSets

CONSTANTS
    Requests, Invalid, Core, MaxThreads, Capacity,     \* as in ClickIngest
    Window, MinSamples, BlockWindow, BlockThreshold, AgeLimit, Wrap,
    EventId         \* the event_id drawn for each request

\* toClickEventV1 draws a random UUID for every request: no two are equal.
ASSUME JourneyAssumption ==
    /\ EventId \in [Requests -> Events]
    /\ \A q, r \in Requests : q # r => EventId[q] # EventId[r]

VARIABLES
    task, answer, queue, threads, fate, stored, noting,   \* as in ClickIngest
    outcome, age, turn, blockAge, blockTurn

Gateway == INSTANCE ClickIngest

gatewayVars == <<task, answer, queue, threads, fate, stored, noting,
                 outcome, age, turn, blockAge, blockTurn>>
journeyVars == <<gatewayVars, clickVars>>

ASSUME GatewayAssumption == Gateway!IngestAssumption

JourneyInit == Gateway!Init /\ ClickInit

\* The broker appends the record of request r to the topic.
ClickReachesKafka(r) == Gateway!Store(r) /\ Emit(EventId[r])

\* Another producer writes to the topic.
OthersPublish(e) ==
    /\ e \notin {EventId[r] : r \in Requests}
    /\ Emit(e)
    /\ UNCHANGED gatewayVars

GatewayGoesOn == Gateway!GatewayStep /\ UNCHANGED clickVars
ConsumersGoOn == ConsumerStep /\ UNCHANGED gatewayVars

JourneyNext ==
    \/ \E r \in Requests : ClickReachesKafka(r)
    \/ \E e \in Events : OthersPublish(e)
    \/ GatewayGoesOn
    \/ ConsumersGoOn

JourneySpec == JourneyInit /\ [][JourneyNext]_journeyVars

-----------------------------------------------------------------------------
(* Properties.                                                             *)

InSomeLog(e) == \E p \in Partitions : \E r \in Records(p) : r.event = e

\* What the HTTP answer says of the features, across both services.  "Click
\* event acknowledged by Kafka broker" (EventTrackingService.java): the click
\* is materialized, in the dead letter queue, still to be consumed, or lost in
\* the one way the consumers lose a message, a copy the loop polled past.  A
\* refusal before the publish: the click has left nothing in a topic, in the
\* features or in the dead letter queue, and posting it again counts it once.
AnswersAreKept ==
    \A r \in Requests :
        LET e == EventId[r]
        IN  /\ answer[r] = "acknowledged" =>
                  \/ Settled(e)
                  \/ LiveCopy(e)
                  \/ \E p \in Partitions : \E o \in abandoned[p] : At(p, o, e)
            /\ answer[r] = "refused" => ~Settled(e) /\ ~InSomeLog(e)
=============================================================================
