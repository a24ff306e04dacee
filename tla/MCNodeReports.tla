---------------------------- MODULE MCNodeReports ----------------------------
(***************************************************************************)
(* Instance of NodeReports for TLC.                                        *)
(***************************************************************************)
EXTENDS NodeReports, TLC

CONSTANTS a, b, c, r1, r2, none

MCRequests == {r1, r2}
MCNodes == {a, b, c}

\* Two requests for the memory of two nodes, or one of any other kind and three nodes.
MCTogether ==
  {[nodes |-> MCNodes \ {n}, kinds |-> [r \in MCRequests |-> "memory"]] : n \in MCNodes} \cup
  {[nodes |-> MCNodes, kinds |-> [r \in MCRequests |-> IF r = one THEN kind ELSE none]] :
     one \in MCRequests, kind \in Kinds \ {"memory"}}

MCSymmetry == Permutations(MCRequests) \cup Permutations(MCNodes)
=============================================================================
