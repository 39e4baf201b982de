SPECIFICATION Spec
CONSTANTS
  p1 = p1
  p2 = p2
  p3 = p3
  p4 = p4
  q1 = q1
  q2 = q2
  NoPacket = NoPacket
  Packets = {p1, p2, p3, p4}
  TxQueues = {q1}
  TxQueueOf <- OneQueue
  Quota = 0
  IsRoot = FALSE
  BasePeek = TRUE
  DropsLate = TRUE
  MaxWakes = 0
INVARIANTS
  BacklogExact
  CountersBalance
CHECK_DEADLOCK FALSE
