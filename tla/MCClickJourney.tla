--------------------------- MODULE MCClickJourney ---------------------------
(***************************************************************************)
(* Instances of ClickJourney for TLC.                                      *)
(***************************************************************************)
EXTENDS ClickJourney, TLC

CONSTANTS main, primary, spare, click1, click2, other

OneGroup == [x \in Consumers \cup Partitions |-> "primary"]

NoPoison == {}
NoTiers == <<>>

\* The events of other producers have a timestamp no parser accepts.
Kinds == [e \in Events |-> IF e = other THEN "raising" ELSE "valid"]
ClickIds == <<click1, click2>>

\* The two processes are alike.
Processes == Permutations({primary, spare})
=============================================================================
