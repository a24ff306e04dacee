-------------------------- MODULE MCPubSubListener --------------------------
(***************************************************************************)
(* Instances of PubSubListener for TLC: one node, whose window is what the *)
(* properties are about, and two, between which the master switches.       *)
(***************************************************************************)
EXTENDS PubSubListener

OneNode == {<<"ip1", "port1">>}
TwoNodes == {<<"ip1", "port1">>, <<"ip2", "port2">>}
=============================================================================
