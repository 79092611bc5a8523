SPECIFICATION Spec
CONSTANTS
  w1 = w1
  w2 = w2
  short = short
  long = long
  Nobody = Nobody
  Worker = {w1, w2}
  List = {long}
  Long = {long}
  ChunkMax = 2
  MaxLogins = 1
  MaxChanges = 1
INVARIANT LongListsSeeOwnWrites
