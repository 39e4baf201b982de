SPECIFICATION FairSpec
CONSTANTS
  Delays = {0, 1}
  MaxEvents = 4
INVARIANTS
  EachEventOnce
  ExpiredExact
PROPERTIES
  Chronological
  Completes
CHECK_DEADLOCK FALSE
