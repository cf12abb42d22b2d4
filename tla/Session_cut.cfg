SPECIFICATION FairSpec
CONSTANTS
  A = a
  B = b
  Nobody = nobody
  TEXT = text
  FILE = file
  Sock = {s1, s2}
  Users = {a}
  Reports = {FALSE}
  MaxOpen = 1
  MaxText = 1
  MaxFile = 0
  MaxCut = 1
  MaxNet = 0
CHECK_DEADLOCK FALSE
INVARIANTS
  EstablishedHasKey
  TextsNeverMultiply
PROPERTIES
  DeletedStaysDeleted
  LastConnectionReopens
  HandshakeEnds
