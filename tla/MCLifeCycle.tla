--------------------------- MODULE MCLifeCycle ---------------------------
(* Instances of LifeCycle for TLC.                                         *)
EXTENDS LifeCycle

CONSTANTS q1, q2, s1, s2

MCRequests == {q1, q2}
MCSentinels == {s1, s2}
=============================================================================
