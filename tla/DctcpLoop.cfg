SPECIFICATION FairSpec
CONSTANTS
  Senders = {"client"}
  DelAckMax = 2
  NSegs = 5
  MaxFlight = 3
INVARIANTS
  TypeOK
  EchoFollowsMark
  EchoOffByOne
  CountsCover
PROPERTIES
  OncePerWindow
  AllAcked
CHECK_DEADLOCK FALSE
