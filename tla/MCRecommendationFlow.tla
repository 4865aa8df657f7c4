------------------------ MODULE MCRecommendationFlow ------------------------
(***************************************************************************)
(* Instances of RecommendationFlow for TLC.                                *)
(***************************************************************************)
EXTENDS RecommendationFlow

CONSTANTS r1, r2, r3, ann, q1, i1, i2

\* r1 is ann's, r2 asks the same query without a user.
AnnAndAnonymous == [r \in Requests |-> IF r = r1 THEN ann ELSE NoUser]
Anonymous == [r \in Requests |-> NoUser]
SameQuery == [r \in Requests |-> IF r = r3 THEN NoQuery ELSE q1]

OneText == [r \in Requests |-> IF r = r1 THEN {"image", "hybrid"} ELSE {"text"}]
AllText == [r \in Requests |-> {"text"}]

\* The second item of Ray's list has no metadata.
OneRanking == {<<i1, i2>>}
OnePopular == {<<i1>>}
=============================================================================
