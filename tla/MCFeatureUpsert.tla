-------------------------- MODULE MCFeatureUpsert --------------------------
(* Values for the constants of FeatureUpsert.                               *)
EXTENDS FeatureUpsert, TLC

Clicks(user, item, ts) == [user |-> user, item |-> item, ts |-> ts]

\* Three clicks on two items, two of them on one at different times.
MCClick == "e1" :> Clicks("u", 1, 0) @@ "e2" :> Clicks("u", 1, 2) @@ "e3" :> Clicks("u", 2, 1)
TwoItems == {1, 2}

\* The catalogue, and the catalogue after an item has changed its category.
MCCatalogues == {[i \in Items |-> IF i = 1 THEN c ELSE "tops"] : c \in {"tops", "shoes"}}

\* Purchase counts: of every item, the largest above any surrogate.
MCSeeds == {[i \in Items |-> IF i = 1 THEN 500000 ELSE 3]}
=============================================================================
