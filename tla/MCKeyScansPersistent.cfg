\* Keys without an expiry, in the instance of MCKeyScans.cfg.
SPECIFICATION Spec
CONSTANTS
  m = m
  n1 = n1
  n2 = n2
  k1 = k1
  k2 = k2
  Master = m
  Replicas <- MCReplicas
  Keys <- MCKeys
  TTLs = {1, 2}
  Sizes = {1, 2}
  StaleThresholds = {0, 1}
  BigThresholds = {2}
  MaxScans = 2
  MaxChanges = 2
SYMMETRY MCSymmetry
INVARIANT PersistentIsReported
