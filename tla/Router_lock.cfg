SPECIFICATION Spec
CONSTANTS
  p1 = p1
  p2 = p2
  p3 = p3
  k1 = k1
  m1 = m1
  m2 = m2
  NoPod = NoPod
  Pods = {p1, p2, p3}
  Clients = {k1}
  Msgs = {m1}
  To <- SameClient
  Loops <- Janitors
  ReadCount = 1
  MaxReads = 1
  MaxPending = 2
  DeadRetention = 3
  Retention = 0
  MaxTime = 0
  MaxCopies = 1
  Budget <- Mishap
  Mortal = {p1, p3}
  Revive = {p3}
  Flaky = {p3}
  Slow = TRUE
  EarlyDrain = TRUE
  DeleteRace = FALSE
CHECK_DEADLOCK FALSE
INVARIANT OneDrainer
PROPERTY LossesNamed
