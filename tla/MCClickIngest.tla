--------------------------- MODULE MCClickIngest ---------------------------
(***************************************************************************)
(* Instances of ClickIngest for TLC.                                       *)
(***************************************************************************)
EXTENDS ClickIngest

FourClicks == 1 .. 4
LastInvalid == {4}
=============================================================================
