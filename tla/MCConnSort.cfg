SPECIFICATION Spec
CONSTANTS
  a = a
  b = b
  c = c
  d = d
  e = e
  f = f
  g = g
  h = h
  s = s
  t = t
  eth0 = eth0
  eth1 = eth1
  br0 = br0
  vl0 = vl0
  vl1 = vl1
  None = None
  Name <- MCName
  Iface <- MCIface
  VlanId = {10}
  Address = {}
  Gateway = {}
  Server = {}
  Route = {}
  Inputs <- MCInputs
INVARIANTS
  TypeOK
  EachOnce
  PlanReady
CHECK_DEADLOCK FALSE
PROPERTIES
  Promised
