------------------------------ MODULE MCTxPath ------------------------------
(* A small instance of TxPath, with the scaled sizes of MCPointToPointLink. *)
EXTENDS TxPath

CONSTANTS p1, p2, p3, p4

MtuSized == [p \in Packets |-> IF p \in {p1, p3} THEN 1 ELSE 4]
=============================================================================
