SPECIFICATION Spec
CONSTANTS
  A = a
  B = b
  Nobody = nobody
  TEXT = text
  FILE = file
  Sock = {s1, s2}
  Crossed = {}
  Names = {n1, n2}
  Sizes = {1}
  Offline = FALSE
  ReuseNames = FALSE
  MaxSend = 2
  MaxCut = 1
  MaxNet = 0
SYMMETRY SocketSymmetry
CHECK_DEADLOCK FALSE
PROPERTIES
  NoFileIsLeftOut
