SPECIFICATION MCSpec
CONSTANTS
  Question = "q"
  Types <- SomeTypes
  UpSets <- SomeUp
  AddrsOf <- SomeAddrsOf
  Answers <- SomeAnswers
  InCache <- SomeInCache
  MaxHops = 2
  Configs <- SomeConfigs
CHECK_DEADLOCK FALSE
INVARIANTS
  BestAnswerWins
  ActivationsNest
  AnswerCoherent
  ReadsBack
  ReadsInside
PROPERTIES
  ResolveEnds
  ReadingEnds
