-------------------------- MODULE PointToPointLink --------------------------
(***************************************************************************)
(* One direction of a point-to-point link: the device queue (a drop-tail   *)
(* Queue limited in packets or in bytes), the NetDeviceQueue that stops    *)
(* and wakes the upper layers from the traces of that queue, the transmit  *)
(* state machine of PointToPointNetDevice, the channel and the receiving   *)
(* device.                                                                 *)
(*                                                                         *)
(* Time is left out; what is kept of it is the order in which the          *)
(* simulator executes events: the channel has one delay, so packets arrive *)
(* in the order they were transmitted, and a wake callback, scheduled for  *)
(* now, is executed before the transmission that starts at the same time   *)
(* completes.  No queue limits object is attached to the NetDeviceQueue    *)
(* (the default), so only the device stops it.                             *)
(***************************************************************************)
EXTENDS Naturals, Sequences

CONSTANTS
  Packets,       (* the packets, each sent at most once                      *)
  NoPacket,      (* the null pointer                                         *)
  SizeOf,        (* the size of each packet in bytes, before the PPP header  *)
  Mtu,           (* attribute Mtu: no packet is larger                       *)
  PppHeader,     (* bytes that AddHeader puts in front of a packet           *)
  ByteMode,      (* the unit of MaxSize is bytes, not packets                *)
  MaxSize,       (* attribute MaxSize of the device queue                    *)
  MayCorrupt     (* the receiving device has an error model                  *)

ASSUME LinkAssumption ==
  /\ NoPacket \notin Packets
  /\ Mtu \in Nat /\ PppHeader \in Nat
  /\ SizeOf \in [Packets -> 1..Mtu]
  /\ MaxSize \in Nat \ {0}
  /\ {ByteMode, MayCorrupt} \subseteq BOOLEAN

VARIABLES
  devQueue,      (* the packets of the device queue, head first              *)
  used,          (* its m_nPackets or m_nBytes, in the unit of MaxSize       *)
  txState,       (* m_txMachineState                                         *)
  current,       (* m_currentPkt                                             *)
  stopped,       (* m_stoppedByDevice                                        *)
  hasCallback,   (* m_wakeCallback is set: a root queue disc is installed    *)
  wakes,         (* wake callbacks scheduled and not executed yet            *)
  wire,          (* packets the channel will deliver, first to last          *)
  sent,          (* history: packets handed to Send, in order                *)
  received,      (* history: packets handed up by the receiver, in order     *)
  discarded,     (* history: packets dropped by the full device queue        *)
  corrupted      (* history: packets dropped by the error model              *)

queueVars == <<devQueue, used>>
txVars    == <<txState, current>>
rxVars    == <<received, corrupted>>
linkVars  == <<devQueue, used, txState, current, stopped, hasCallback, wakes,
               wire, sent, received, discarded, corrupted>>

LinkInit ==
  /\ devQueue = <<>>
  /\ used = 0
  /\ txState = "READY"
  /\ current = NoPacket
  /\ stopped = FALSE
  /\ hasCallback \in BOOLEAN
  /\ wakes = 0
  /\ wire = <<>>
  /\ sent = <<>>
  /\ received = <<>>
  /\ discarded = {}
  /\ corrupted = {}

-----------------------------------------------------------------------------
(* The device queue and its flow control                                     *)

(* What a packet takes of the device queue. *)
Cost(p) == IF ByteMode THEN SizeOf[p] + PppHeader ELSE 1

(* The size of the device queue does not allow for one more packet of MTU    *)
(* size, the test of PacketEnqueued and PacketDequeued.                      *)
NoRoom(u) == u + (IF ByteMode THEN Mtu ELSE 1) > MaxSize

(* Queue::DoEnqueue refuses the packet. *)
Overflows(p) == used + Cost(p) > MaxSize

Inserted(p) == Append(devQueue, p)

UsedWith(p) == used + Cost(p)

UsedWithout(p) == used - Cost(p)

QueueEmpty == devQueue = <<>>

(* Mutant: the queue is not stopped when its last place is taken. *)
PacketEnqueued_NoStop(u) == stopped

(* The enqueue trace, with u the occupancy: is the queue stopped afterwards? *)
PacketEnqueued(u) == stopped \/ NoRoom(u)

(* Mutant: the queue is opened but no callback is scheduled. *)
Wake_StartOnly(wasStopped) == stopped' = FALSE /\ UNCHANGED wakes

(* Wake: if the queue was stopped, the wake callback is scheduled. *)
Wake(wasStopped) ==
  /\ stopped' = FALSE
  /\ wakes' = wakes + (IF wasStopped /\ hasCallback THEN 1 ELSE 0)

(* Mutant: the queue is never woken. *)
PacketDequeued_NoWake(wasStopped) == stopped' = wasStopped /\ UNCHANGED wakes

(* The dequeue trace, with used' the occupancy left. *)
PacketDequeued(wasStopped) ==
  IF NoRoom(used')
  THEN stopped' = wasStopped /\ UNCHANGED wakes
  ELSE Wake(wasStopped)

-----------------------------------------------------------------------------
(* The device                                                                *)

(* PointToPointChannel::TransmitStart schedules the delivery of the packet. *)
Deliver(p) == wire' = Append(wire, p)

TransmitStart(p) ==
  /\ txState' = "BUSY"
  /\ current' = p
  /\ Deliver(p)

(* Send, with a packet that does not fit: PacketDiscarded stops the queue. *)
SendDiscarded(p) ==
  /\ Overflows(p)
  /\ stopped' = TRUE
  /\ discarded' = discarded \cup {p}
  /\ UNCHANGED <<queueVars, txVars, wakes, wire, rxVars>>

(* Send, while another packet is being transmitted. *)
SendQueued(p) ==
  /\ ~Overflows(p)
  /\ txState = "BUSY"
  /\ devQueue' = Inserted(p)
  /\ used' = UsedWith(p)
  /\ stopped' = PacketEnqueued(used')
  /\ UNCHANGED <<txVars, wakes, wire, discarded, rxVars>>

(* Send, with nothing being transmitted: the packet is enqueued, the head is *)
(* dequeued and its transmission starts, all before Send returns.            *)
SendNow(p) ==
  /\ ~Overflows(p)
  /\ txState = "READY"
  /\ devQueue' = Tail(Inserted(p))
  /\ used' = UsedWith(p) - Cost(Head(Inserted(p)))
  /\ TransmitStart(Head(Inserted(p)))
  /\ PacketDequeued(PacketEnqueued(UsedWith(p)))
  /\ UNCHANGED <<discarded, rxVars>>

Send(p) ==
  /\ SendDiscarded(p) \/ SendQueued(p) \/ SendNow(p)
  /\ sent' = Append(sent, p)
  /\ UNCHANGED hasCallback

(* TransmitComplete, with nothing left to transmit.  An empty queue fires no *)
(* dequeue trace.                                                            *)
TransmitCompleteIdle ==
  /\ QueueEmpty
  /\ txState' = "READY"
  /\ current' = NoPacket
  /\ UNCHANGED <<queueVars, stopped, wakes, wire>>

(* TransmitComplete, with the next packet transmitted at once. *)
TransmitCompleteNext ==
  /\ ~QueueEmpty
  /\ devQueue' = Tail(devQueue)
  /\ used' = UsedWithout(Head(devQueue))
  /\ TransmitStart(Head(devQueue))
  /\ PacketDequeued(stopped)

TransmitComplete ==
  /\ txState = "BUSY"
  /\ wakes = 0
  /\ TransmitCompleteIdle \/ TransmitCompleteNext
  /\ UNCHANGED <<hasCallback, sent, discarded, rxVars>>

(* The receiving device: a packet found corrupt by the error model is        *)
(* dropped, any other is handed to the upper layers.                         *)
Receive ==
  /\ wire # <<>>
  /\ wire' = Tail(wire)
  /\ \/ /\ MayCorrupt
        /\ corrupted' = corrupted \cup {Head(wire)}
        /\ UNCHANGED received
     \/ /\ received' = Append(received, Head(wire))
        /\ UNCHANGED corrupted
  /\ UNCHANGED <<queueVars, txVars, stopped, hasCallback, wakes, sent, discarded>>

-----------------------------------------------------------------------------
(* The upper layers, as far as the link depends on them: they do not call    *)
(* Send while the queue is stopped.                                          *)

New(p) == \A i \in 1..Len(sent) : sent[i] # p

UpperSend(p) == ~stopped /\ New(p) /\ Send(p)

(* A wake event is executed.  If the callback was removed in the meantime it *)
(* calls a null callback and does not return: nothing is executed after it.  *)
UpperWoken ==
  /\ wakes > 0 /\ hasCallback
  /\ wakes' = wakes - 1
  /\ UNCHANGED <<queueVars, txVars, stopped, hasCallback, wire, sent, discarded, rxVars>>

(* A wake event is pending that calls a null callback. *)
CallsNull == wakes > 0 /\ ~hasCallback

(* SetWakeCallback, when a root queue disc is installed or deleted. *)
SetWakeCallback ==
  /\ hasCallback' = ~hasCallback
  /\ UNCHANGED <<queueVars, txVars, stopped, wakes, wire, sent, discarded, rxVars>>

LinkNext ==
  \/ \E p \in Packets : UpperSend(p)
  \/ UpperWoken
  \/ SetWakeCallback
  \/ TransmitComplete
  \/ Receive

(* A link whose users respect the stopped queue: TxPath implements it.       *)
LinkSpec == LinkInit /\ [][LinkNext]_linkVars

(* The simulator executes every event that is scheduled. *)
LinkFairSpec ==
  LinkSpec /\ WF_linkVars(UpperWoken) /\ WF_linkVars(TransmitComplete) /\ WF_linkVars(Receive)

-----------------------------------------------------------------------------
(* Every variable has its type; the unsigned counter never goes below zero.  *)
LinkTypeOK ==
  /\ devQueue \in Seq(Packets)
  /\ used \in Nat
  /\ txState \in {"READY", "BUSY"}
  /\ current \in Packets \cup {NoPacket}
  /\ {stopped, hasCallback} \subseteq BOOLEAN
  /\ wakes \in Nat
  /\ wire \in Seq(Packets)
  /\ sent \in Seq(Packets)
  /\ received \in Seq(Packets)
  /\ discarded \subseteq Packets
  /\ corrupted \subseteq Packets

(* The flow control works: a sender that respects the stopped queue never    *)
(* has a packet discarded by the device queue ("This should not happen if    *)
(* the device correctly stops the queue", PacketDiscarded).                  *)
NoDiscard == discarded = {}

(* A stopped queue is not empty: there is a packet whose dequeue wakes it.   *)
StoppedHasPackets == stopped => devQueue # <<>>

(* A stopped queue is opened again, unless the program ends because the wake *)
(* callback was removed while the event was pending.                         *)
QueueReopens == stopped ~> ~stopped \/ CallsNull
=============================================================================
