SPECIFICATION FairSpec
CONSTANTS
  p1 = p1
  p2 = p2
  p3 = p3
  p4 = p4
  NoPacket = NoPacket
  Packets = {p1, p2, p3, p4}
  Quota = 64
  BasePeek = TRUE
  DropsLate = TRUE
  SizeOf <- MtuSized
  Mtu = 4
  PppHeader = 1
  ByteMode = TRUE
  MaxSize = 9
  MayCorrupt = TRUE
INVARIANTS
  WorkConserving
PROPERTIES
  DiscSpec
  LinkSpec
  PipeSpec
  AllDelivered
CHECK_DEADLOCK FALSE
