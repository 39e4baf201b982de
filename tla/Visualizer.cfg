SPECIFICATION FairSpec
CONSTANTS
  SamplePeriod = 1
  MaxPeriod = 2
  MaxTime = 6
  MaxToggles = 3
  MaxInputs = 1
  MaxPauses = 1
INVARIANTS
  TimerRecorded
  MessagesExact
  PauseHolds
PROPERTIES
  QuitTerminates
  Advances
CHECK_DEADLOCK FALSE
