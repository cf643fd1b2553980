SPECIFICATION FairSpec
CONSTANTS
  a = a
  b = b
  s = s
  y = y
  v = v
  w = w
  wired = wired
  eth0 = eth0
  eth1 = eth1
  br0 = br0
  vl0 = vl0
  vl1 = vl1
  ip1 = ip1
  gw1 = gw1
  ns1 = ns1
  rt1 = rt1
  u1 = u1
  u2 = u2
  u3 = u3
  u4 = u4
  u5 = u5
  None = None
  Name <- MCName
  Iface <- MCIface
  VlanId = {10, 11}
  Address <- MCAddress
  Gateway <- MCGateway
  Server <- MCServer
  Route <- MCRoute
  Uuid <- ThreeUuids
  Phys <- MCPhys
  Plans <- EntangledPlans
  Stores <- SiblingStores
  PollMax = 1
  FlipMax = 1
INVARIANTS
  Applied
PROPERTIES
  RunEnds
