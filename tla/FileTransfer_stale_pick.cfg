SPECIFICATION FairSpec
CONSTANTS
  A = a
  B = b
  Nobody = nobody
  TEXT = text
  FILE = file
  Sock = {s1, s2}
  Crossed = {}
  Names = {n1}
  Sizes = {1}
  Offline = FALSE
  ReuseNames = FALSE
  MaxSend = 1
  MaxCut = 1
  MaxNet = 0
CHECK_DEADLOCK FALSE
PROPERTIES
  ResentFilesArrive
