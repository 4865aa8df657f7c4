--------------------------- MODULE ClickDelivery ---------------------------
(***************************************************************************)
(* What the click pipeline promises about each event, without topics,      *)
(* offsets, processes or caches ("at-least-once transport with             *)
(* effectively-once Redis feature materialization",                        *)
(* docs/api/events.md:126, and the dead letter queue of                    *)
(* consumer.py:11-18).  ClickPipeline implements it.                       *)
(***************************************************************************)
EXTENDS Naturals

CONSTANTS
    Events,
    Valid,          \* the events that update_features can apply
    MaxRetries      \* the retries granted after the first attempt

VARIABLES
    accepted,       \* the events the gateway has published
    failures,       \* [Events -> Nat]: failed attempts, up to MaxRetries + 1
    applied,        \* the events whose features are materialized in Redis
    buried          \* the events in the dead letter queue

promise == <<accepted, failures, applied, buried>>

Init ==
    /\ accepted = {}
    /\ failures = [e \in Events |-> 0]
    /\ applied = {}
    /\ buried = {}

Accept(e) ==
    /\ accepted' = accepted \cup {e}
    /\ UNCHANGED <<failures, applied, buried>>

Apply(e) ==
    /\ e \in accepted \cap Valid
    /\ applied' = applied \cup {e}
    /\ UNCHANGED <<accepted, failures, buried>>

\* An attempt that reports failure may have had its effect.
Fail(e) ==
    /\ e \in accepted \cap Valid
    /\ failures' = [failures EXCEPT ![e] = IF @ <= MaxRetries THEN @ + 1 ELSE @]
    /\ applied' \in {applied, applied \cup {e}}
    /\ UNCHANGED <<accepted, buried>>

\* An event is given up when it is malformed or has used all its attempts.
Bury(e) ==
    /\ e \in accepted
    /\ e \in Valid => failures[e] > MaxRetries
    /\ buried' = buried \cup {e}
    /\ UNCHANGED <<accepted, failures, applied>>

Next == \E e \in Events : Accept(e) \/ Apply(e) \/ Fail(e) \/ Bury(e)

Spec == Init /\ [][Next]_promise
=============================================================================
