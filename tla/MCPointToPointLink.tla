------------------------ MODULE MCPointToPointLink ------------------------
(* Small instances of PointToPointLink.  Sizes are scaled down: an MTU of 4 *)
(* bytes and a PPP header of 1 stand for 1500 and 2.                        *)
EXTENDS PointToPointLink

CONSTANTS p1, p2, p3, p4, p5

(* Some packets of MTU size. *)
MtuSized == [p \in Packets |-> IF p \in {p1, p3} THEN 1 ELSE 4]
===========================================================================
