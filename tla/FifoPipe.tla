------------------------------ MODULE FifoPipe ------------------------------
(***************************************************************************)
(* What the transmission path promises to the layers above it, whatever    *)
(* queues, headers and callbacks it is made of: the packets it accepts are *)
(* delivered at the other end once each and in the order they were         *)
(* accepted, and a packet it does not deliver is accounted for as lost.    *)
(***************************************************************************)
EXTENDS Naturals, Sequences

CONSTANT Packets

VARIABLES
  offered,       (* the packets that were offered, accepted or not           *)
  pending,       (* accepted and not delivered or lost, oldest first         *)
  delivered,     (* the packets delivered, in order                          *)
  lost           (* the packets refused or dropped, as somebody recorded     *)

pipeVars == <<offered, pending, delivered, lost>>

Init == offered = {} /\ pending = <<>> /\ delivered = <<>> /\ lost = {}

Offer(p) ==
  /\ p \notin offered
  /\ offered' = offered \cup {p}
  /\ \/ pending' = Append(pending, p) /\ UNCHANGED lost
     \/ lost' = lost \cup {p} /\ UNCHANGED pending
  /\ UNCHANGED delivered

Deliver ==
  /\ pending # <<>>
  /\ delivered' = Append(delivered, Head(pending))
  /\ pending' = Tail(pending)
  /\ UNCHANGED <<offered, lost>>

(* One step may lose several packets in a row, wherever they are. *)
Lose ==
  /\ \E first, last \in 0..Len(pending) :
       /\ first <= last
       /\ pending' = SubSeq(pending, 1, first) \o SubSeq(pending, last + 1, Len(pending))
       /\ lost' = lost \cup {pending[i] : i \in first + 1..last}
  /\ UNCHANGED <<offered, delivered>>

Next == (\E p \in Packets : Offer(p)) \/ Deliver \/ Lose

Spec == Init /\ [][Next]_pipeVars
=============================================================================
