SPECIFICATION Spec
CONSTANTS
  A = a
  B = b
  Nobody = nobody
  TEXT = text
  FILE = file
  Sock = {s1, s2}
  Crossed = {s1, s2}
  Names = {n1}
  Sizes = {2}
  Offline = FALSE
  ReuseNames = FALSE
  MaxSend = 1
  MaxCut = 1
  MaxNet = 0
SYMMETRY SocketSymmetry
CHECK_DEADLOCK FALSE
INVARIANTS
  AckedIsStored
  DoneMeansReceived
PROPERTIES
  KeepsPromise
