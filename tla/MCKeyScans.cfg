\* Two replicas, listed in any order or not at all, and two keys whose TTLs and
\* sizes are on both sides of a threshold; up to two batches on each node, and two
\* changes, so that the replicas differ, or a key goes and comes back.
SPECIFICATION Spec
CONSTANTS
  m = m
  n1 = n1
  n2 = n2
  k1 = k1
  k2 = k2
  Master = m
  Replicas <- MCReplicas
  Keys <- MCKeys
  TTLs = {1, 2}
  Sizes = {1, 2}
  StaleThresholds = {0, 1}
  BigThresholds = {2}
  MaxScans = 2
  MaxChanges = 2
SYMMETRY MCSymmetry
INVARIANTS
  NoKeyTwice
  StaleIsReported
  LastingIsCounted
