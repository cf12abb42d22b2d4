SPECIFICATION Spec
CONSTANTS
  A = a
  B = b
  Nobody = nobody
  TEXT = text
  FILE = file
  Sock = {s1}
  Users = {a, b}
  Reports = {FALSE}
  MaxOpen = 2
  MaxText = 1
  MaxFile = 0
  MaxCut = 0
  MaxNet = 0
SYMMETRY SocketSymmetry
CHECK_DEADLOCK FALSE
INVARIANTS
  NoTeardownOnData
