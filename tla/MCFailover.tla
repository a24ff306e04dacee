----------------------------- MODULE MCFailover -----------------------------
(***************************************************************************)
(* Instance of Failover for TLC: one request among the failovers others    *)
(* cause.  A second request would act on the first only through the        *)
(* sentinels, exactly as ChaosFailover does.                               *)
(***************************************************************************)
EXTENDS Failover

CONSTANTS n1, n2, n3, s1, s2, r1

MCNodes == {n1, n2, n3}
MCSentinels == {s1, s2}
MCRequests == {r1}
MCLags == {0, 1}
=============================================================================
