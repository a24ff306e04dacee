\* A master and two replicas, one request beside two polls.  The three
\* fill a ring of one and of two past their limit.
SPECIFICATION Spec
CONSTANTS
  n1 = n1
  n2 = n2
  n3 = n3
  r1 = r1
  NoNode = NoNode
  Exporter = Exporter
  Nodes <- MCNodes
  Requests <- MCRequests
  RingSize = 2
  MaxOffset = 1
  MaxElections = 1
  MaxPolls = 2
SYMMETRY MCSymmetry
INVARIANTS
  TrendIsTheLatest
  LagGaugesOfOnePoll
PROPERTIES
  LagIsNotExaggerated
