--------------------------- MODULE MCLagTracker ---------------------------
(* Instances of LagTracker for TLC.                                        *)
EXTENDS LagTracker, TLC

CONSTANTS n1, n2, n3, r1

MCNodes == {n1, n2, n3}
MCRequests == {r1}
MCSymmetry == Permutations(MCNodes)
=============================================================================
