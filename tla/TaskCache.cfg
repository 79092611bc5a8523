SPECIFICATION Spec
CONSTANTS
  w1 = w1
  w2 = w2
  short = short
  long = long
  Nobody = Nobody
  Worker = {w1, w2}
  List = {short}
  Long = {}
  ChunkMax = 2
  MaxLogins = 2
  MaxChanges = 1
SYMMETRY WorkerSymmetry
INVARIANTS CacheSeesOwnWrites ResetCacheIsTheAccounts
