--------------------------- MODULE MCConfigAudit ---------------------------
(***************************************************************************)
(* Instance of ConfigAudit for TLC: requests for different parameters meet *)
(* only in the log, so all of them are for one.                            *)
(***************************************************************************)
EXTENDS ConfigAudit, TLC

CONSTANTS c1, r1, r2, r3

MCParams == {c1}
MCRequests == {r1, r2, r3}
MCSymmetry == Permutations(MCRequests)
=============================================================================
