----------------------------- MODULE MCEventBus -----------------------------
(***************************************************************************)
(* Instance of EventBus for TLC: two sentinels' listeners and two event    *)
(* streams, with a buffer small enough to overflow.                        *)
(***************************************************************************)
EXTENDS EventBus, TLC

CONSTANTS p1, p2, s1, s2

MCPublishers == {p1, p2}
MCStreams == {s1, s2}
MCMaxEvents == p1 :> 2 @@ p2 :> 1
=============================================================================
