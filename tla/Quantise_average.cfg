SPECIFICATION MCSpec
CONSTANTS
  Lsf = FALSE
  SlenTab <- Pairs
  SlenMax <- Caps
  SlenParts = 2
  Groups <- Pair
  Large = 1000
  Settings <- SomeSettings
  Signals <- AllSignals
  Targets = {8, 24}
  MinBits = 4
  Granules = 2
  MaxGain = 16
  FirstGain = 6
  FirstStep = 4
  IxMax = 30
  CapLow = 4
  CapHigh = 2
  MaxSbg = 1
  SearchLimit = 3
  SubstepLimit = 6
  Closer = 1
  Enough = 1
  TopMargin = 3
CHECK_DEADLOCK FALSE
INVARIANTS
  AverageFits
