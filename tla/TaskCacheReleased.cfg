SPECIFICATION FairSpec
CONSTANTS
  w1 = w1
  w2 = w2
  short = short
  long = long
  Nobody = Nobody
  Worker = {w1, w2}
  List = {short, long}
  Long = {long}
  ChunkMax = 1
  MaxLogins = 1
  MaxChanges = 0
PROPERTY RefillIsReleased
