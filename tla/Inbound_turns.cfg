SPECIFICATION Spec
CONSTANTS
  m1 = m1
  c1 = c1
  c2 = c2
  Msgs = {m1}
  Calls = {c1, c2}
  Ways <- AllWays
  MaxTurns = 2
  MaxDeltas = 2
  MaxExtras = 1
  MaxMoves = 2
  MaxFaults = 2
CHECK_DEADLOCK FALSE
INVARIANT TypeOK SeqsDistinct NoGaps TrackerFreed StoredOnce AcceptedIsStored NothingSkipped
PROPERTY TurnsInOrder
SYMMETRY Handlers
