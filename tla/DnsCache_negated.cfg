SPECIFICATION MCSpec
CONSTANTS
  Name <- SomeNames
  Up <- Parents
  Star <- Wildcard
  NoName = "none"
  Types <- TypesInOrder
  ExtType = {"TXT"}
  Alias = {"CNAME"}
  Record = {"A"}
  Ptr = {"PTR"}
  Lat = 1
  MinTtl = 1
  MaxTtl = 2
  NegTtl = 1
  Perm = 8
  Extra = 3
  Bucket <- InBucket
  Answers <- SomeAnswers
  Config <- ConfigLocal
  OldFile <- FileLeft
  MaxTime = 3
  MaxPurging = 1
  Thread = {t1}
  Timed = {}
  MaxUses <- OnceEach
  Commands <- CommandsNeg
CHECK_DEADLOCK FALSE
PROPERTIES
  NegatedStays
