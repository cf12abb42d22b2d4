SPECIFICATION FairSpec
CONSTANTS
  A = a
  B = b
  Nobody = nobody
  TEXT = text
  FILE = file
  Sock = {s1}
  Users = {a}
  Reports = {FALSE}
  MaxOpen = 1
  MaxText = 0
  MaxFile = 0
  MaxCut = 0
  MaxNet = 0
CHECK_DEADLOCK FALSE
PROPERTIES
  ConnectionGetsHandshake
