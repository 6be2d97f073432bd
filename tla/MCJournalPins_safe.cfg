SPECIFICATION Spec
CONSTANTS
  w1 = w1
  w2 = w2
  f1 = f1
  f2 = f2
  p1 = p1
  p2 = p2
  NoPin = NoPin
  NoTask = NoTask
  Workers = {w1, w2}
  Flushers = {f1, f2}
  Pins = {p1, p2}
  NTypes = 2
  FifoSize = 4
  NBuf = 2
  Uses <- SafeUses
SYMMETRY Symmetry
INVARIANT ListsSound
INVARIANT LastSeqIsFront
INVARIANT UnwrittenIsKept
INVARIANT EntriesDrain
PROPERTY FlushWaitIsOver
CHECK_DEADLOCK FALSE
