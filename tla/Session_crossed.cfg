SPECIFICATION Spec
CONSTANTS
  A = a
  B = b
  Nobody = nobody
  TEXT = text
  FILE = file
  Sock = {s1, s2}
  Users = {a, b}
  Reports = {TRUE, FALSE}
  MaxOpen = 1
  MaxText = 0
  MaxFile = 1
  MaxCut = 0
  MaxNet = 1
SYMMETRY SocketSymmetry
CHECK_DEADLOCK FALSE
INVARIANTS
  KeysStayOnTheirSocket
  OneHandshakeOneKey
