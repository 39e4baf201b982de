----------------------------- MODULE QueueDisc -----------------------------
(***************************************************************************)
(* The base class of every queueing discipline (QueueDisc): enqueue and    *)
(* dequeue with their statistics, the peek that dequeues a packet and      *)
(* keeps it, and the run loop that feeds a network device until the device *)
(* stops its transmission queue or the quota is used up.                   *)
(*                                                                         *)
(* What a subclass decides is left open: DoEnqueue stores the packet in    *)
(* the internal queue or drops it, DoDequeue drops any number of packets   *)
(* at the head of the queue (CoDel does) before it returns the next one.   *)
(* The device is seen through its transmission queues only: a queue is     *)
(* stopped or not, and a queue that is woken schedules a run.              *)
(*                                                                         *)
(* The simulator is single threaded: while Run loops (running) no other    *)
(* event is executed, so the loop is one step per iteration.               *)
(***************************************************************************)
EXTENDS Integers, Sequences

CONSTANTS
  Packets,       (* the packets the upper layers may hand over, each once    *)
  NoPacket,      (* the null pointer                                         *)
  TxQueues,      (* the transmission queues of the device                    *)
  TxQueueOf,     (* the transmission queue selected for each packet          *)
  Quota,         (* attribute Quota                                          *)
  IsRoot,        (* root queue discs are Run, children are dequeued          *)
  BasePeek,      (* the subclass keeps QueueDisc::DoPeek and it is called    *)
  DropsLate,     (* the subclass may drop packets after dequeuing them       *)
  MaxWakes       (* bound: wake events pending at a time                     *)

ASSUME QueueDiscAssumption ==
  /\ NoPacket \notin Packets
  /\ TxQueues # {}
  /\ TxQueueOf \in [Packets -> TxQueues]
  /\ Quota \in Nat
  /\ MaxWakes \in Nat
  /\ {IsRoot, BasePeek, DropsLate} \subseteq BOOLEAN

VARIABLES
  internal,      (* the packets of the internal queue, head first            *)
  requeued,      (* m_requeued                                               *)
  peeked,        (* m_peeked                                                 *)
  nPackets,      (* m_nPackets                                               *)
  nReceived,     (* m_stats, in packets: received by Enqueue,                *)
  nEnqueued,     (*   stored,                                                *)
  nDequeued,     (*   dequeued,                                              *)
  nDroppedBefore, (*  dropped before enqueue                                 *)
  nDroppedAfter, (*   and dropped after dequeue                              *)
  running,       (* m_running                                                *)
  quota,         (* the local variable of Run                                *)
  stopped,       (* which transmission queues of the device are stopped      *)
  wakes,         (* wake callbacks scheduled and not executed yet            *)
  withHeader,    (* packets whose AddHeader was called                       *)
  arrived,       (* history: packets stored by Enqueue, in order             *)
  dropped,       (* history: packets dropped, before or after                *)
  sent           (* history: packets handed to the device or to the parent   *)

enqueueStats == <<nReceived, nEnqueued, nDroppedBefore>>
discVars == <<internal, requeued, peeked, nPackets, enqueueStats, nDequeued,
              nDroppedAfter, withHeader, dropped>>
runVars  == <<running, quota>>
vars == <<discVars, runVars, stopped, wakes, arrived, sent>>

Init ==
  /\ internal = <<>>
  /\ requeued = NoPacket
  /\ peeked = FALSE
  /\ nPackets = 0
  /\ nReceived = 0 /\ nEnqueued = 0 /\ nDequeued = 0
  /\ nDroppedBefore = 0 /\ nDroppedAfter = 0
  /\ running = FALSE
  /\ quota = 0
  /\ stopped = [i \in TxQueues |-> FALSE]
  /\ wakes = 0
  /\ withHeader = {}
  /\ arrived = <<>>
  /\ dropped = {}
  /\ sent = <<>>

-----------------------------------------------------------------------------
(* Enqueue and Run                                                          *)

(* Run enters its loop, RunBegin having found m_running false. *)
RunBegin == running' = TRUE /\ quota' = Quota

(* The loop of Run goes on, unless this iteration was the last the quota    *)
(* allows.  The quota is unsigned: 0 wraps around and never runs out.       *)
RunContinue ==
  /\ quota' = IF quota = 0 THEN 0 ELSE quota - 1
  /\ running' = (quota # 1)

RunEnd == running' = FALSE /\ UNCHANGED quota

(* DoEnqueue stored the packet: the internal queue fires PacketEnqueued. *)
StorePacket(p) ==
  /\ internal' = Append(internal, p)
  /\ nPackets' = nPackets + 1
  /\ nReceived' = nReceived + 1 /\ nEnqueued' = nEnqueued + 1
  /\ arrived' = Append(arrived, p)
  /\ UNCHANGED <<nDroppedBefore, dropped>>

DropBeforeEnqueue(p) ==
  /\ nReceived' = nReceived + 1 /\ nDroppedBefore' = nDroppedBefore + 1
  /\ dropped' = dropped \cup {p}
  /\ UNCHANGED <<internal, nPackets, nEnqueued, arrived>>

New(p) == p \notin dropped /\ \A i \in 1..Len(arrived) : arrived[i] # p

(* Enqueue, and for a root queue disc the Run with which TrafficControlLayer *)
(* follows it.                                                               *)
Enqueue(p) ==
  /\ ~running
  /\ New(p)
  /\ StorePacket(p) \/ DropBeforeEnqueue(p)
  /\ IF IsRoot THEN RunBegin ELSE UNCHANGED runVars
  /\ UNCHANGED <<requeued, peeked, nDequeued, nDroppedAfter, stopped, wakes,
                 withHeader, sent>>

-----------------------------------------------------------------------------
(* Dequeue and Peek                                                          *)

(* PacketDequeued fires for each of n packets that leave the queue disc. *)
PacketsDequeued(n, late) ==
  /\ nPackets' = nPackets - n
  /\ nDequeued' = nDequeued + n
  /\ nDroppedAfter' = nDroppedAfter + late
  /\ UNCHANGED enqueueStats

(* Mutant: DropAfterDequeue does not count the packets dropped in a peek. *)
NTaken_SkipsDropped(p, k, inPeek) ==
  IF inPeek THEN 0 ELSE IF p = NoPacket THEN k ELSE k + 1

(* The packets counted as dequeued when k are dropped before p is returned:  *)
(* in a peek p is still part of the queue disc, the dropped ones are not.    *)
NTaken(p, k, inPeek) == IF p = NoPacket \/ inPeek THEN k ELSE k + 1

(* DoDequeue drops the k packets at the head and returns p, the next one if  *)
(* there is one.                                                             *)
DoDequeue(p, k, inPeek) ==
  /\ k <= Len(internal) /\ (k > 0 => DropsLate)
  /\ p = IF k = Len(internal) THEN NoPacket ELSE internal[k + 1]
  /\ internal' = SubSeq(internal, k + 2, Len(internal))
  /\ dropped' = dropped \cup {internal[i] : i \in 1..k}
  /\ PacketsDequeued(NTaken(p, k, inPeek), k)
  /\ UNCHANGED arrived

(* Mutant: a packet held by a peek is never counted as dequeued. *)
NHeldTaken_Never == 0

(* The held packet was counted when it left the queue, unless by a peek. *)
NHeldTaken == IF peeked THEN 1 ELSE 0

(* The held packet is extracted. *)
TakeHeld ==
  /\ PacketsDequeued(NHeldTaken, 0)
  /\ peeked' = FALSE
  /\ UNCHANGED <<internal, dropped, arrived>>

(* Dequeue extracts p: the held packet, if any, or else what DoDequeue returns. *)
Extract(p) ==
  \/ requeued # NoPacket /\ p = requeued /\ TakeHeld
  \/ /\ requeued = NoPacket /\ UNCHANGED peeked
     /\ \E k \in 0..Len(internal) : DoDequeue(p, k, FALSE)

(* Mutant: m_requeued is not reset. *)
ReleaseHeld_Keeps == UNCHANGED requeued
ReleaseHeld == requeued' = NoPacket

PeekDequeues == requeued = NoPacket

(* QueueDisc::DoPeek: dequeue a packet and keep it in m_requeued. *)
Peek ==
  /\ BasePeek
  /\ ~running
  /\ PeekDequeues
  /\ \E k \in 0..Len(internal), p \in Packets \cup {NoPacket} :
       /\ DoDequeue(p, k, TRUE)
       /\ requeued' = p
       /\ peeked' = (p # NoPacket)
  /\ UNCHANGED <<runVars, stopped, wakes, withHeader, sent>>

(* The parent of a child queue disc dequeues. *)
Dequeue ==
  /\ ~IsRoot
  /\ \E p \in Packets \cup {NoPacket} :
       /\ Extract(p)
       /\ sent' = IF p = NoPacket THEN sent ELSE Append(sent, p)
  /\ ReleaseHeld
  /\ UNCHANGED <<runVars, stopped, wakes, withHeader>>

-----------------------------------------------------------------------------
(* One iteration of Run: Restart = DequeuePacket, then Transmit              *)

SingleQueue == \A i, j \in TxQueues : i = j

(* A device with several queues is always asked for a packet; one with a     *)
(* single queue only while that queue is not stopped.                        *)
MayDequeue == SingleQueue => \A i \in TxQueues : ~stopped[i]

(* DequeuePacket returns a null pointer and leaves the queue disc as it is. *)
HeldBack ==
  IF requeued # NoPacket THEN stopped[TxQueueOf[requeued]] ELSE ~MayDequeue

(* A packet fresh from Dequeue gets its header, one that was held does not.  *)
HeadersAfter(p) ==
  IF requeued = NoPacket THEN withHeader \cup ({p} \ {NoPacket}) ELSE withHeader

(* DequeuePacket returns p, or finds nothing left (p is NoPacket). *)
DequeuePacket(p) ==
  /\ ~HeldBack
  /\ Extract(p)
  /\ withHeader' = HeadersAfter(p)

(* Restart returns false: no packet could be dequeued. *)
RestartNothing ==
  /\ running
  /\ \/ HeldBack /\ UNCHANGED <<discVars, arrived>>
     \/ DequeuePacket(NoPacket) /\ UNCHANGED requeued
  /\ RunEnd
  /\ UNCHANGED <<stopped, wakes, sent>>

(* Mutant: the packet is not kept. *)
Requeue_Forgets(p) == requeued' = NoPacket
Requeue(p) == requeued' = p

(* Transmit finds the queue of the packet stopped. *)
RestartRequeue(p) ==
  /\ running
  /\ DequeuePacket(p)
  /\ stopped[TxQueueOf[p]]
  /\ Requeue(p)
  /\ RunEnd
  /\ UNCHANGED <<stopped, wakes, sent>>

(* Mutant: the wake callback is not scheduled. *)
ScheduleWake_Never(woken) == UNCHANGED wakes

(* NetDeviceQueue::Wake schedules a run of the queue disc. *)
ScheduleWake(woken) ==
  /\ woken => wakes < MaxWakes
  /\ wakes' = wakes + (IF woken THEN 1 ELSE 0)

(* The device takes a packet for queue i.  It may stop the queue in doing so, *)
(* and it may stop it and wake it again before Send returns.                  *)
DeviceTakes(i, full, woken) ==
  /\ ~(full /\ woken)
  /\ stopped' = [stopped EXCEPT ![i] = full]
  /\ ScheduleWake(woken)

(* Mutant: the run ends when one packet is left. *)
RunGoesOn_LeavesOne(full) == nPackets' > 1 /\ ~full

(* The loop goes on while packets are left and the queue is still open. *)
RunGoesOn(full) == nPackets' # 0 /\ ~full

(* Transmit hands the packet to the device. *)
RestartSend(p) ==
  /\ running
  /\ DequeuePacket(p)
  /\ ~stopped[TxQueueOf[p]]
  /\ ReleaseHeld
  /\ sent' = Append(sent, p)
  /\ \E full, woken \in BOOLEAN :
       /\ DeviceTakes(TxQueueOf[p], full, woken)
       /\ IF RunGoesOn(full) THEN RunContinue ELSE RunEnd

-----------------------------------------------------------------------------
(* The device wakes a queue it stopped. *)
DeviceWake(i) ==
  /\ ~running /\ stopped[i]
  /\ stopped' = [stopped EXCEPT ![i] = FALSE]
  /\ ScheduleWake(TRUE)
  /\ UNCHANGED <<discVars, runVars, arrived, sent>>

(* The event scheduled by Wake is executed: the queue disc runs. *)
WakeCallback ==
  /\ IsRoot
  /\ ~running /\ wakes > 0
  /\ wakes' = wakes - 1
  /\ RunBegin
  /\ UNCHANGED <<discVars, stopped, arrived, sent>>

Restart ==
  \/ RestartNothing
  \/ \E p \in Packets : RestartRequeue(p) \/ RestartSend(p)

Next ==
  \/ \E p \in Packets : Enqueue(p)
  \/ Peek
  \/ Dequeue
  \/ Restart
  \/ IsRoot /\ \E i \in TxQueues : DeviceWake(i)
  \/ WakeCallback

Spec == Init /\ [][Next]_vars

(* The event loop executes what is scheduled, Run ends what it began, and a  *)
(* device that stopped a queue wakes it again.                               *)
FairSpec ==
  /\ Spec
  /\ WF_vars(Restart)
  /\ WF_vars(WakeCallback)
  /\ \A i \in TxQueues : SF_vars(DeviceWake(i))

-----------------------------------------------------------------------------
(* Type                                                                      *)

Maybe == Packets \cup {NoPacket}

(* Every variable has its type: the counters the code keeps as unsigned     *)
(* integers never go below zero.                                            *)
TypeOK ==
  /\ internal \in Seq(Packets)
  /\ requeued \in Maybe
  /\ peeked \in BOOLEAN
  /\ nPackets \in Nat
  /\ {nReceived, nEnqueued, nDequeued, nDroppedBefore, nDroppedAfter} \subseteq Nat
  /\ running \in BOOLEAN
  /\ quota \in 0..Quota
  /\ stopped \in [TxQueues -> BOOLEAN]
  /\ wakes \in 0..MaxWakes
  /\ withHeader \subseteq Packets
  /\ arrived \in Seq(Packets)
  /\ dropped \subseteq Packets
  /\ sent \in Seq(Packets)

-----------------------------------------------------------------------------
(* Safety                                                                    *)

Held == IF requeued = NoPacket THEN <<>> ELSE <<requeued>>

(* Everything accepted and not dropped, first sent to last stored. *)
Pipeline == sent \o Held \o internal

(* The packet counter agrees with the packets that are really there: those  *)
(* of the internal queue and the one a peek holds, not a requeued one.  Run *)
(* stops looping on this counter, so an error would stall or spin it.       *)
BacklogExact == nPackets = Len(internal) + (IF peeked THEN 1 ELSE 0)

(* The identities the code asserts in Enqueue and Dequeue, and the one      *)
(* behind GetStats: what was dequeued was sent, dropped or is requeued.     *)
CountersBalance ==
  /\ nReceived = nDroppedBefore + nEnqueued
  /\ nPackets = nEnqueued - nDequeued
  /\ nDequeued = Len(sent) + nDroppedAfter
                        + (IF requeued # NoPacket /\ ~peeked THEN 1 ELSE 0)

(* Peeking, requeuing and dropping at the head never reorder packets and    *)
(* never duplicate one: of two positions of the pipeline, the earlier holds *)
(* the packet that arrived earlier.                                         *)
FifoOrder ==
  \A i, j \in 1..Len(Pipeline) : i < j =>
    \E a, b \in 1..Len(arrived) :
      a < b /\ arrived[a] = Pipeline[i] /\ arrived[b] = Pipeline[j]

(* No packet that Enqueue accepted vanishes: it is sent, requeued, stored   *)
(* or was reported as dropped after dequeue.                                *)
NoLoss ==
  \A a \in 1..Len(arrived) :
    arrived[a] \in dropped \/ \E i \in 1..Len(Pipeline) : Pipeline[i] = arrived[a]

(* Between runs nothing that could be sent is left behind without a run to  *)
(* come: a requeued packet waits for its own queue, a stored one for some   *)
(* queue, to be woken.  Run can break this by using up its quota.           *)
NoStall ==
  IsRoot /\ ~running /\ wakes = 0 =>
    /\ requeued # NoPacket /\ ~peeked => stopped[TxQueueOf[requeued]]
    /\ nPackets > 0 => \E i \in TxQueues : stopped[i]

(* Every packet sent to the device carries its header, as the documentation *)
(* of QueueDiscItem::AddHeader says; a root queue disc that is peeked       *)
(* (BasePeek) breaks this.                                                  *)
HeadersComplete == IsRoot => \A i \in 1..Len(sent) : sent[i] \in withHeader

-----------------------------------------------------------------------------
(* Liveness                                                                  *)

(* Whatever the device does to its queues, as long as it wakes those it     *)
(* stopped, every accepted packet is sent or dropped in the end.            *)
AllServed ==
  \A p \in Packets :
    (\E i \in 1..Len(arrived) : arrived[i] = p)
      ~> (p \in dropped \/ \E i \in 1..Len(sent) : sent[i] = p)
=============================================================================
