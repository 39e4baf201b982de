------------------------------- MODULE TxPath -------------------------------
(***************************************************************************)
(* The transmission path of a node: TrafficControlLayer::Send, the root    *)
(* queue disc it enqueues into and runs, and the point-to-point device and *)
(* link below it.  QueueDisc and PointToPointLink share the state of the   *)
(* transmission queue (stopped) and the wake callbacks; a packet passes    *)
(* from one to the other inside one step of Run, where Transmit calls the  *)
(* device's Send.                                                          *)
(*                                                                         *)
(* Without a root queue disc, Send goes straight to the device unless its  *)
(* queue is stopped, in which case the packet is gone without a trace.     *)
(* The root queue disc may be deleted at any time, with what it holds; if  *)
(* a wake event is pending then, the program ends with that event.         *)
(***************************************************************************)
EXTENDS PointToPointLink, Functions

CONSTANTS
  Quota, BasePeek, DropsLate                           (* see QueueDisc        *)

ASSUME PathAssumption == Quota \in Nat /\ {BasePeek, DropsLate} \subseteq BOOLEAN

VARIABLES
  internal, requeued, peeked, nPackets, nReceived, nEnqueued, nDequeued,
  nDroppedBefore, nDroppedAfter, running, quota, withHeader, arrived,
  dropped,                                             (* see QueueDisc        *)
  forgotten      (* history: packets lost without a trace, by Send when it   *)
                 (* finds the queue stopped or with a deleted queue disc     *)

TheQueue == "txq0"

Disc == INSTANCE QueueDisc WITH
          TxQueues   <- {TheQueue},
          TxQueueOf  <- [p \in Packets |-> TheQueue],
          IsRoot     <- TRUE,
          MaxWakes   <- 1,
          stopped    <- [q \in {TheQueue} |-> stopped]

discOnly == <<internal, requeued, peeked, nPackets, nReceived, nEnqueued,
              nDequeued, nDroppedBefore, nDroppedAfter, running, quota,
              withHeader, arrived, dropped>>
linkOnly == <<devQueue, used, txState, current, hasCallback, wire, received,
              discarded, corrupted>>
shared   == <<stopped, wakes, sent>>
vars     == <<discOnly, linkOnly, shared, forgotten>>

(* ScanDevices sets the wake callback where it finds a root queue disc.      *)
Init == LinkInit /\ Disc!Init /\ forgotten = {}

HasRootDisc == hasCallback

-----------------------------------------------------------------------------
(* TrafficControlLayer::Send with a root queue disc: Enqueue, and the Run    *)
(* that follows begins.                                                      *)
SendToDisc(p) ==
  /\ HasRootDisc
  /\ UNCHANGED <<linkOnly, shared, forgotten>>
  /\ Disc!Enqueue(p)

(* Mutant: the stopped queue is not looked at. *)
TurnsAway_Never == FALSE
TurnsAway == stopped

(* TrafficControlLayer::Send without one. *)
SendToDevice(p) ==
  /\ ~HasRootDisc
  /\ New(p) /\ Disc!New(p) /\ p \notin forgotten
  /\ IF TurnsAway
     THEN forgotten' = forgotten \cup {p} /\ UNCHANGED <<linkOnly, shared>>
     ELSE UNCHANGED forgotten /\ Send(p)
  /\ UNCHANGED discOnly

(* One iteration of Run.  The device has a single queue, which DequeuePacket *)
(* has just found open, so Transmit never requeues a packet.                 *)
RunIteration ==
  \/ /\ UNCHANGED <<linkOnly, shared, forgotten>>
     /\ Disc!RestartNothing
  \/ /\ UNCHANGED forgotten
     /\ running
     /\ \E p \in Packets : Send(p) /\ Disc!RestartSend(p)

(* The wake callback runs the root queue disc.  Once that is deleted the     *)
(* event calls a null callback, see UpperWoken.                              *)
Wakened ==
  /\ HasRootDisc
  /\ UNCHANGED <<linkOnly, forgotten, stopped>>
  /\ Disc!WakeCallback

(* Somebody (a tracer, a parent class) peeks into the queue disc. *)
Peek ==
  /\ HasRootDisc
  /\ UNCHANGED <<linkOnly, shared, forgotten>>
  /\ Disc!Peek

(* Mutant: the queue disc keeps its packets, and is run again. *)
Deleted_Kept == UNCHANGED <<internal, requeued, peeked, forgotten>>

(* The queue disc is gone, and so are the packets it holds. *)
Deleted ==
  /\ internal' = <<>> /\ requeued' = NoPacket /\ peeked' = FALSE
  /\ forgotten' = forgotten \cup Range(Disc!Held \o internal)

(* DeleteRootQueueDiscOnDevice. *)
DeleteRootQueueDisc ==
  /\ HasRootDisc /\ ~running
  /\ SetWakeCallback
  /\ Deleted
  /\ UNCHANGED <<nPackets, nReceived, nEnqueued, nDequeued, nDroppedBefore,
                 nDroppedAfter, running, quota, withHeader, arrived, dropped>>

(* The events of the link, TransmitComplete and Receive; none is executed    *)
(* while Run loops.                                                          *)
DeviceCompletes ==
  /\ ~running
  /\ UNCHANGED <<discOnly, forgotten>>
  /\ TransmitComplete

DeviceReceives ==
  /\ ~running
  /\ UNCHANGED <<discOnly, forgotten>>
  /\ Receive

Next ==
  \/ \E p \in Packets : SendToDisc(p) \/ SendToDevice(p)
  \/ RunIteration
  \/ Wakened
  \/ Peek
  \/ DeleteRootQueueDisc
  \/ DeviceCompletes
  \/ DeviceReceives

Spec == Init /\ [][Next]_vars

(* The simulator executes every event it has scheduled, and Run finishes.    *)
FairSpec ==
  /\ Spec
  /\ WF_vars(RunIteration) /\ WF_vars(Wakened)
  /\ WF_vars(DeviceCompletes) /\ WF_vars(DeviceReceives)

-----------------------------------------------------------------------------
(* The parts implement their specifications in the composition: the traffic  *)
(* control layer respects the stopped queue and the wake callback as         *)
(* PointToPointLink expects of its users (its LinkSpec is a property of      *)
(* Spec), and the device does what QueueDisc expects of a device as long as  *)
(* there is a queue disc.                                                    *)
DiscSpec == Disc!Init /\ [][HasRootDisc' => Disc!Next]_(Disc!vars)

(* The path is a pipe: between the offer of a packet and its delivery no     *)
(* queue, peek, requeue, stop or wake reorders it or duplicates it, and none *)
(* loses it, even as the queue disc is deleted, except where it is recorded: *)
(* a drop callback of the queue disc, the drop trace of the device queue,    *)
(* the error model, the refusal of Send, or the deletion.                    *)
Pipe == INSTANCE FifoPipe WITH
          offered   <- Range(arrived) \cup Range(sent) \cup dropped \cup forgotten,
          pending   <- wire \o devQueue \o Disc!Held \o internal,
          delivered <- received,
          lost      <- dropped \cup discarded \cup corrupted \cup forgotten

PipeSpec == Pipe!Spec

(* The link never idles while the queue disc holds a packet: whenever the    *)
(* device is READY and no run is due, the queue disc is empty.               *)
WorkConserving ==
  txState = "READY" /\ ~running /\ wakes = 0 => internal = <<>> /\ requeued = NoPacket

(* Every packet the queue disc stored reaches the other end, or is lost in   *)
(* one of these ways, even if the device stopped its queue after the last    *)
(* one arrived and the queue disc is deleted then, unless that happens while *)
(* a wake event is pending.                                                  *)
AllDelivered ==
  \A p \in Packets :
    p \in Range(arrived)
      ~> \/ p \in Range(received) \cup dropped \cup discarded \cup corrupted \cup forgotten
         \/ CallsNull
=============================================================================
