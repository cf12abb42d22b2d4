SPECIFICATION Spec
CONSTANTS
  A = a
  B = b
  Nobody = nobody
  TEXT = text
  FILE = file
  Sock = {s1}
  Crossed = {}
  Names = {n1}
  Sizes = {1}
  Offline = FALSE
  ReuseNames = TRUE
  MaxSend = 2
  MaxCut = 0
  MaxNet = 0
CHECK_DEADLOCK FALSE
INVARIANTS
  DoneMeansReceived
