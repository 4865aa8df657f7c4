------------------------- MODULE MCPopularityWindow -------------------------
(* Values for the constants of PopularityWindow.                            *)
EXTENDS PopularityWindow, TLC

CONSTANTS r1, r2, p1, a

TwoReaders == {r1, r2}
OneReplica == {a}
SharedReplica == [r \in TwoReaders |-> a]
OnePod == {p1}

\* The two threads may be exchanged.
SymmetricReaders == Permutations(TwoReaders)
=============================================================================
