\* Two pods and two addresses: a pod can take over the other's address, get a
\* new one, or come back under its name.  Four changes from any cluster: a break,
\* and a pod deleted, created and started before the next list.
SPECIFICATION Spec
CONSTANTS
  p1 = p1
  p2 = p2
  i1 = i1
  i2 = i2
  NoIP = NoIP
  Nobody = Nobody
  Pods <- MCPods
  IPs <- MCIPs
  MaxChanges = 4
SYMMETRY MCSymmetry
INVARIANTS
  TypeOK
  UnsharedIsFound
  LeftoversMoved
PROPERTIES
  ImplementsDirectory
