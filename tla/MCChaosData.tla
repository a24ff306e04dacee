---------------------------- MODULE MCChaosData ----------------------------
(***************************************************************************)
(* Instance of ChaosData for TLC.                                          *)
(***************************************************************************)
EXTENDS ChaosData

MCAsked == {-1, 0, 2, 3, 4}
=============================================================================
