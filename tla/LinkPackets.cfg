SPECIFICATION LinkFairSpec
CONSTANTS
  p1 = p1
  p2 = p2
  p3 = p3
  p4 = p4
  p5 = p5
  NoPacket = NoPacket
  Packets = {p1, p2, p3, p4, p5}
  SizeOf <- MtuSized
  Mtu = 4
  PppHeader = 1
  ByteMode = FALSE
  MaxSize = 2
  MayCorrupt = TRUE
INVARIANTS
  NoDiscard
PROPERTIES
  QueueReopens
CHECK_DEADLOCK FALSE
