SPECIFICATION FairSpec
CONSTANTS
  A = a
  B = b
  Nobody = nobody
  TEXT = text
  FILE = file
  Sock = {s1, s2}
  Crossed = {}
  Names = {n1}
  Sizes = {2}
  Offline = TRUE
  ReuseNames = FALSE
  MaxSend = 1
  MaxCut = 0
  MaxNet = 1
CHECK_DEADLOCK FALSE
PROPERTIES
  FileArrives
