\* Four events of the cluster; each other value is a bound of MCNodeReports.
SPECIFICATION Spec
CONSTANTS
  a = a
  b = b
  c = c
  r1 = r1
  r2 = r2
  none = none
  Nodes <- MCNodes
  Requests <- MCRequests
  NoRequest = none
  Together <- MCTogether
  Values = {"x", "y"}
  Calls = {0, 1, 4, 5}
  MaxEvents = 4
SYMMETRY MCSymmetry
INVARIANTS
  RateIsOfEvictions
  EachNodeOnce
  DriftsAreReal
  OverloadsAreReal
