SPECIFICATION Spec
CONSTANTS
  p1 = p1
  p2 = p2
  a1 = a1
  a2 = a2
  b1 = b1
  k1 = k1
  t1 = t1
  t2 = t2
  Pods = {p1, p2}
  Conns = {a1, a2, b1}
  PodOf <- PodOf3
  Clients = {k1}
  Tokens = {}
  NoPod = NoPod
  NoConn = NoConn
  NoClient = NoClient
  NoToken = NoToken
  MaxFrames = 1
  MaxFaults = 0
  Mortal = {}
  Flaky = {}
  Overlap = FALSE
  Rebind = FALSE
  Triggers = FALSE
CHECK_DEADLOCK FALSE
PROPERTY ForceCloseHitsOwner
