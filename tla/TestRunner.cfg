SPECIFICATION FairSpec
CONSTANTS
  w1 = w1
  w2 = w2
  Workers = {w1, w2}
  Total = 4
  Suites = {1, 2}
  Skipped = {4}
  Break = Break
  NoJob = NoJob
  MayRaise = TRUE
INVARIANTS
  EachJobOnce
  AllReported
  SuccessIsReal
  CorruptOnlyGarbled
PROPERTIES
  Terminates
CHECK_DEADLOCK FALSE
