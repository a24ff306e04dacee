\* Three requests race for one parameter, and the log overflows.
SPECIFICATION Spec
CONSTANTS
  c1 = c1
  r1 = r1
  r2 = r2
  r3 = r3
  Unknown = Unknown
  Empty = Empty
  Params <- MCParams
  Values = {0, 1}
  Requests <- MCRequests
  auditRingMax = 2
SYMMETRY MCSymmetry
INVARIANTS
  TypeOK
  LogKeepsTheLast
  OkIsRecordedOnce
  OldValueIsHonest
