SPECIFICATION QuerySpec
CONSTANTS
  Question = "q"
  Types <- SomeTypes
  UpSets <- SomeUp
  AddrsOf <- SomeAddrsOf
  Answers <- OneAnswers
  InCache <- SomeInCache
  MaxHops = 0
  Configs <- OneConfig
CHECK_DEADLOCK FALSE
INVARIANT KeptIsUsed
