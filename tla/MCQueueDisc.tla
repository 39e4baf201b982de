---------------------------- MODULE MCQueueDisc ----------------------------
(* Small instances of QueueDisc: a device with one transmission queue, and *)
(* one with two queues behind a single queue disc.                         *)
EXTENDS QueueDisc

CONSTANTS p1, p2, p3, p4, q1, q2

OneQueue == [p \in Packets |-> q1]

TwoQueues == [p \in Packets |-> IF p \in {p1, p3} THEN q1 ELSE q2]
=============================================================================
