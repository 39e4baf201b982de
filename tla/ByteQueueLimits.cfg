CONSTANTS
  Modulus = 16
  Sizes = {1, 3}
  MinLimit = 0
  MaxLimit = 4
  MaxPackets = 3
SPECIFICATION FairSpec
INVARIANTS
  AvailableExact
  StopJustified
  NoLostWake
PROPERTIES
  LimitsReopen
