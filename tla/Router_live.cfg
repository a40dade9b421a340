SPECIFICATION FairSpec
CONSTANTS
  p1 = p1
  p2 = p2
  p3 = p3
  k1 = k1
  m1 = m1
  m2 = m2
  NoPod = NoPod
  Pods = {p1, p2}
  Clients = {k1}
  Msgs = {m1}
  To <- SameClient
  Loops <- AllLoops
  ReadCount = 2
  MaxReads = 1
  MaxPending = 2
  DeadRetention = 3
  Retention = 0
  MaxTime = 0
  MaxCopies = 3
  Budget <- Crash1
  Mortal = {p2}
  Revive = {}
  Flaky = {}
  Slow = FALSE
  EarlyDrain = FALSE
  DeleteRace = FALSE
CHECK_DEADLOCK FALSE
PROPERTY CalmNeverLost LossesNamed EventuallyDelivered
