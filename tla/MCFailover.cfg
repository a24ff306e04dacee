\* Three nodes and two sentinels: a replica to select and another one for the
\* sentinel to promote instead.  Two elections: the master can come back to the
\* old one between two polls, and a sentinel can be one election behind.
SPECIFICATION Spec
CONSTANTS
  n1 = n1
  n2 = n2
  n3 = n3
  s1 = s1
  s2 = s2
  r1 = r1
  Unknown = Unknown
  Nodes <- MCNodes
  Sentinels <- MCSentinels
  Requests <- MCRequests
  Lags <- MCLags
  MaxSends = 2
  WaitTicks = 2
  MaxElections = 2
INVARIANTS
  TypeOK
  CommandIsJustified
  SwitchIsReal
PROPERTIES
  RequestEnds
