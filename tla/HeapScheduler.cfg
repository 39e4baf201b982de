SPECIFICATION Spec
CONSTANTS
  Delays = {0, 1}
  MaxEvents = 8
PROPERTIES
  TimeGoesOn
CHECK_DEADLOCK FALSE
