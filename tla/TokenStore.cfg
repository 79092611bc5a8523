SPECIFICATION LocksSpec
CONSTANTS
  p1 = p1
  p2 = p2
  w1 = w1
  w2 = w2
  Process = {p1, p2}
  MaxStamp = 3
  MaxInode = 2
INVARIANTS OneInside NeverTorn LiveTmpIsThere
PROPERTIES ImplementsAtomicStore OperationsEnd MutexIsReleased
