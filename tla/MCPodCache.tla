---------------------------- MODULE MCPodCache ----------------------------
(* Instances of PodCache for TLC.                                          *)
EXTENDS PodCache, TLC

CONSTANTS p1, p2, i1, i2

MCPods == {p1, p2}
MCIPs == {i1, i2}
MCSymmetry == Permutations(MCPods) \cup Permutations(MCIPs)
=============================================================================
