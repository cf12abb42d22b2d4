SPECIFICATION Spec
CONSTANTS
  Queries = {"t1", "t2", "u1"}
  Via <- SomeVia
  Silent = {"t1"}
  Messages <- SomeMessages
  Limits <- SomeLimits
  MaxReloads = 1
CHECK_DEADLOCK FALSE
INVARIANTS
  LimitsKept
PROPERTIES
  LastServerEnds
  QueriesServed
