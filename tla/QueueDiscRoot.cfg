SPECIFICATION FairSpec
CONSTANTS
  p1 = p1
  p2 = p2
  p3 = p3
  p4 = p4
  q1 = q1
  q2 = q2
  NoPacket = NoPacket
  Packets = {p1, p2, p3, p4}
  TxQueues = {q1, q2}
  TxQueueOf <- TwoQueues
  Quota = 0
  IsRoot = TRUE
  BasePeek = FALSE
  DropsLate = TRUE
  MaxWakes = 2
INVARIANTS
  FifoOrder
  NoLoss
  NoStall
PROPERTIES
  AllServed
CHECK_DEADLOCK FALSE
