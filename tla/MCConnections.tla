--------------------------- MODULE MCConnections ---------------------------
(* Instances of Connections, with PodDirectory, for TLC.                   *)
EXTENDS Connections, TLC

CONSTANTS p1, p2, i1, i2, n1, n2

MCPods == {p1, p2}
MCAdminPods == {p2}
MCIPs == {i1, i2}
MCNodes == {n1, n2}
MCSymmetry == Permutations(MCNodes)

\* A leak made of two kinds of connections, beside the link to the master; and
\* clients with long idle times, one of them at the address of a replica.
MCListings == {
  {[from |-> i1, link |-> "app", count |-> 4, idle |-> 0],
   [from |-> i1, link |-> "app", count |-> 1, idle |-> 4],
   [from |-> i2, link |-> "master", count |-> 1, idle |-> 0]},
  {[from |-> i1, link |-> "replica", count |-> 4, idle |-> 4],
   [from |-> i1, link |-> "app", count |-> 1, idle |-> 3],
   [from |-> i2, link |-> "app", count |-> 3, idle |-> 2]}}
=============================================================================
