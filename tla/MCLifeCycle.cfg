\* Two requests, two sentinels to be asked, a shutdown of two steps.
SPECIFICATION LifeSpec
CONSTANTS
  q1 = q1
  q2 = q2
  s1 = s1
  s2 = s2
  HttpRequests <- MCRequests
  Sentinels <- MCSentinels
  Deadline = 2
INVARIANTS
  QuorumGaugeWasTrue
PROPERTIES
  ShutdownEnds
