\* Two nodes, each the master or a replica or both; two addresses and an admin
\* tool, p2, that may have had either; idle times on both sides of each limit.
SPECIFICATION MonitorSpec
CONSTANTS
  p1 = p1
  p2 = p2
  i1 = i1
  i2 = i2
  n1 = n1
  n2 = n2
  Nobody = Nobody
  Pods <- MCPods
  IPs <- MCIPs
  MonitoredNodes <- MCNodes
  Listings <- MCListings
  AdminPods <- MCAdminPods
  FiveMinutes = 1
  Hour = 2
  Day = 3
SYMMETRY MCSymmetry
INVARIANTS
  NoLeakOverlooked
  IdleIsExplained
