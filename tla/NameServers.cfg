SPECIFICATION Spec
CONSTANTS
  Query = {q1}
  Stat = stat
  Ctl = ctl
  Free = free
  Addr <- Addresses
  Configs <- SomeConfigs
  AddrLists <- SomeAddrs
  MaxAsk = 1
  MaxCtl = 2
CHECK_DEADLOCK FALSE
INVARIANTS
  NoTestForgotten
PROPERTIES
  ReadersKeepData
  TestsHappen
