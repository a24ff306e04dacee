----------------------------- MODULE MCKeyScans -----------------------------
(***************************************************************************)
(* Instance of KeyScans for TLC.                                           *)
(***************************************************************************)
EXTENDS KeyScans, TLC

CONSTANTS m, n1, n2, k1, k2

MCReplicas == {n1, n2}
MCKeys == {k1, k2}
MCSymmetry == Permutations(MCReplicas) \cup Permutations(MCKeys)
=============================================================================
