-------------------------- MODULE MCClickPipeline --------------------------
(***************************************************************************)
(* Instances of ClickPipeline for TLC.                                     *)
(***************************************************************************)
EXTENDS ClickPipeline, TLC

CONSTANTS main, tier1, tier2, primary, spare, retry, e1, e2

\* CONSUMER_MODE: the retry process consumes every tier, the others main.
Modes == [x \in Consumers \cup Partitions |->
             IF x \in {retry, tier1, tier2} THEN "retry" ELSE "primary"]

NoPoison == {}
NoTiers == <<>>
OneTier == <<tier1>>
TwoTiers == <<tier1, tier2>>

AllValid == [e \in Events |-> "valid"]
OneAnonymous == [e \in Events |-> IF e = e2 THEN "anonymous" ELSE "valid"]
OneRaising == [e \in Events |-> IF e = e2 THEN "raising" ELSE "valid"]
=============================================================================
