SPECIFICATION Spec
CONSTANTS
  Sizes = {2, 4}
  Overhead = 1
  Drain = 2
  LinkRate = 3
  Threshold = 5
  ByteMode = FALSE
  MaxSize = 3
  MaxVq = 14
  MaxIdle = 7
  MaxDrops = 2
PROPERTIES
  DropsOnlyWhenFull
CHECK_DEADLOCK FALSE
