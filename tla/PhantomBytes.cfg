SPECIFICATION Spec
CONSTANTS
  Sizes = {2, 4}
  Overhead = 1
  Drain = 2
  LinkRate = 3
  Threshold = 5
  ByteMode = TRUE
  MaxSize = 8
  MaxVq = 14
  MaxIdle = 7
  MaxDrops = 2
INVARIANTS
  LazyEqualsFluid
  PhantomDominates
PROPERTIES
  UnmarkedMeansShort
CHECK_DEADLOCK FALSE
