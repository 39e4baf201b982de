--------------------------- MODULE QueueDiscProofs ---------------------------
(***************************************************************************)
(* Proofs about QueueDisc.  The counters never go wrong: TypeOK,           *)
(* BacklogExact and CountersBalance hold in every reachable state, for any *)
(* set of packets, any number of transmission queues and any quota, with   *)
(* or without peeks and late drops.                                        *)
(*                                                                         *)
(* TypeOK is not inductive alone: nPackets stays a natural number because  *)
(* it is the length of the internal queue, plus the packet a peek holds.   *)
(*                                                                         *)
(* The second part is about what the device gets: peeking, requeuing and   *)
(* dropping at the head neither reorder packets nor lose one, for the same *)
(* constants, and Run stops early only when its quota is used up.          *)
(***************************************************************************)
EXTENDS QueueDisc, TLAPS

(* A packet is held by a peek only if a packet is held.                     *)
PeekedIsHeld == peeked => requeued # NoPacket

(* Nothing but the counters and the two places that hold packets.           *)
CountersType ==
  /\ internal \in Seq(Packets)
  /\ requeued \in Maybe
  /\ peeked \in BOOLEAN
  /\ nPackets \in Nat
  /\ nReceived \in Nat /\ nEnqueued \in Nat /\ nDequeued \in Nat
  /\ nDroppedBefore \in Nat /\ nDroppedAfter \in Nat
  /\ dropped \subseteq Packets
  /\ sent \in Seq(Packets)

CInv == CountersType /\ PeekedIsHeld /\ BacklogExact /\ CountersBalance

-----------------------------------------------------------------------------
(* The counters after the late drop of k packets and the dequeue of c more.  *)
CountersAfter(k, c) ==
  /\ nPackets' = nPackets - (k + c)
  /\ nDequeued' = nDequeued + (k + c)
  /\ nDroppedAfter' = nDroppedAfter + k
  /\ nReceived' = nReceived /\ nEnqueued' = nEnqueued /\ nDroppedBefore' = nDroppedBefore

(* DoDequeue drops k packets, and takes the next one out if there is one; it *)
(* is counted unless the dequeue is for a peek.                              *)
LEMMA DoDequeueEffect ==
  ASSUME QueueDiscAssumption, internal \in Seq(Packets), dropped \subseteq Packets,
         NEW p, NEW k \in 0..Len(internal), NEW inPeek \in BOOLEAN,
         DoDequeue(p, k, inPeek)
  PROVE  /\ dropped' \subseteq Packets
         /\ internal' \in Seq(Packets)
         /\ \/ p = NoPacket /\ internal' = <<>> /\ k = Len(internal) /\ CountersAfter(k, 0)
            \/ /\ p \in Packets /\ Len(internal') = Len(internal) - k - 1
               /\ CountersAfter(k, IF inPeek THEN 0 ELSE 1)
<1>1. /\ Len(internal) \in Nat /\ k \in Nat /\ k <= Len(internal)
      /\ NoPacket \notin Packets
  BY DEF QueueDiscAssumption
<1>2. dropped' \subseteq Packets
  BY <1>1 DEF DoDequeue
<1>3. internal' = SubSeq(internal, k + 2, Len(internal))
  BY DEF DoDequeue
<1>4. PacketsDequeued(NTaken(p, k, inPeek), k)
  BY DEF DoDequeue
<1>5. CASE k = Len(internal)
  <2>1. p = NoPacket
    BY <1>5 DEF DoDequeue
  <2>2. internal' = <<>>
    BY <1>1, <1>3, <1>5
  <2>3. CountersAfter(k, 0)
    BY <1>1, <1>4, <2>1 DEF PacketsDequeued, CountersAfter, enqueueStats, NTaken
  <2> QED
    BY <1>2, <1>5, <2>1, <2>2, <2>3
<1>6. CASE k < Len(internal)
  <2>1. p = internal[k + 1] /\ p \in Packets
    BY <1>1, <1>6 DEF DoDequeue
  <2>2. internal' \in Seq(Packets) /\ Len(internal') = Len(internal) - k - 1
    BY <1>1, <1>3, <1>6
  <2>3. CountersAfter(k, IF inPeek THEN 0 ELSE 1)
    BY <1>1, <1>4, <2>1 DEF PacketsDequeued, CountersAfter, enqueueStats, NTaken
  <2> QED
    BY <1>2, <2>1, <2>2, <2>3
<1> QED
  BY <1>1, <1>5, <1>6

(* Extracting the held packet counts it if a peek had left it uncounted.     *)
LEMMA TakeHeldEffect ==
  ASSUME CountersType, TakeHeld
  PROVE  /\ CountersAfter(0, IF peeked THEN 1 ELSE 0)
         /\ peeked' = FALSE
         /\ internal' = internal /\ dropped' = dropped
  BY DEF TakeHeld, NHeldTaken, PacketsDequeued, CountersAfter, enqueueStats, CountersType

(* The places that hold packets, after a step. *)
PlacesType ==
  /\ internal \in Seq(Packets) /\ requeued \in Maybe /\ peeked \in BOOLEAN
  /\ dropped \subseteq Packets /\ sent \in Seq(Packets)

PeekCount == IF peeked THEN 1 ELSE 0
RequeueCount == IF requeued # NoPacket /\ ~peeked THEN 1 ELSE 0

(* The counters balance after a step that takes k + c packets out of the     *)
(* queue disc, k of them dropped, if the places changed by as much.          *)
LEMMA CountersStep ==
  ASSUME CInv, NEW k \in Nat, NEW c \in Nat, CountersAfter(k, c),
         PlacesType', PeekedIsHeld',
         Len(internal') + PeekCount' = Len(internal) + PeekCount - (k + c),
         Len(sent') + RequeueCount' = Len(sent) + RequeueCount + c
  PROVE  CInv'
<1>1. /\ Len(internal') \in Nat /\ Len(internal) \in Nat
      /\ Len(sent') \in Nat /\ Len(sent) \in Nat
      /\ PeekCount \in Nat /\ PeekCount' \in Nat
      /\ RequeueCount \in Nat /\ RequeueCount' \in Nat
  BY DEF PlacesType, CInv, CountersType, PeekCount, RequeueCount
<1>2. /\ nPackets = Len(internal) + PeekCount
      /\ nReceived = nDroppedBefore + nEnqueued
      /\ nPackets = nEnqueued - nDequeued
      /\ nDequeued = Len(sent) + nDroppedAfter + RequeueCount
  BY DEF CInv, BacklogExact, CountersBalance, PeekCount, RequeueCount
<1>3. /\ nPackets \in Nat /\ nReceived \in Nat /\ nEnqueued \in Nat /\ nDequeued \in Nat
      /\ nDroppedBefore \in Nat /\ nDroppedAfter \in Nat
  BY DEF CInv, CountersType
<1>4. /\ nPackets' = Len(internal') + PeekCount'
      /\ nReceived' = nDroppedBefore' + nEnqueued'
      /\ nPackets' = nEnqueued' - nDequeued'
      /\ nDequeued' = Len(sent') + nDroppedAfter' + RequeueCount'
  <2>1. /\ nPackets' = nPackets - (k + c)
        /\ nDequeued' = nDequeued + (k + c)
        /\ nDroppedAfter' = nDroppedAfter + k
        /\ nReceived' = nReceived /\ nEnqueued' = nEnqueued
        /\ nDroppedBefore' = nDroppedBefore
    BY DEF CountersAfter
  <2>2. nPackets' = Len(internal') + PeekCount'
    <3>1. /\ nPackets \in Nat /\ Len(internal) \in Nat /\ Len(internal') \in Nat
          /\ PeekCount \in Nat /\ PeekCount' \in Nat
      BY <1>1, <1>3
    <3>2. nPackets = Len(internal) + PeekCount /\ nPackets' = nPackets - (k + c)
      BY <1>2, <2>1
    <3> QED
      BY <3>1, <3>2
  <2>3. nReceived' = nDroppedBefore' + nEnqueued' /\ nPackets' = nEnqueued' - nDequeued'
    BY <1>2, <1>3, <2>1
  <2>4. nDequeued' = Len(sent') + nDroppedAfter' + RequeueCount'
    <3>1. /\ nDequeued \in Nat /\ nDroppedAfter \in Nat /\ Len(sent) \in Nat
          /\ Len(sent') \in Nat /\ RequeueCount \in Nat /\ RequeueCount' \in Nat
      BY <1>1, <1>3
    <3>2. /\ nDequeued = Len(sent) + nDroppedAfter + RequeueCount
          /\ nDequeued' = nDequeued + (k + c) /\ nDroppedAfter' = nDroppedAfter + k
      BY <1>2, <2>1
    <3> QED
      BY <3>1, <3>2, SMTT(40)
  <2> QED
    BY <2>2, <2>3, <2>4
<1>5. /\ nPackets' \in Nat /\ nReceived' \in Nat /\ nEnqueued' \in Nat
      /\ nDequeued' \in Nat /\ nDroppedBefore' \in Nat /\ nDroppedAfter' \in Nat
  BY <1>1, <1>3, <1>4 DEF CountersAfter
<1>6. CountersType'
  BY <1>5 DEF CountersType, PlacesType
<1>7. BacklogExact' /\ CountersBalance'
  BY <1>4 DEF BacklogExact, CountersBalance, PeekCount, RequeueCount
<1> QED
  BY <1>6, <1>7 DEF CInv

-----------------------------------------------------------------------------
(* One lemma per action that changes the counters.                           *)

LEMMA EnqueueCounters ==
  ASSUME CInv, NEW p \in Packets, Enqueue(p)
  PROVE  CInv'
<1>1. /\ requeued' = requeued /\ peeked' = peeked /\ sent' = sent
      /\ nDequeued' = nDequeued /\ nDroppedAfter' = nDroppedAfter
  BY DEF Enqueue
<1>2. CASE StorePacket(p)
  <2>1. /\ internal' \in Seq(Packets) /\ Len(internal') = Len(internal) + 1
        /\ Len(internal) \in Nat /\ Len(sent) \in Nat
    BY <1>2 DEF StorePacket, CInv, CountersType
  <2>2. /\ nPackets' = nPackets + 1 /\ nReceived' = nReceived + 1
        /\ nEnqueued' = nEnqueued + 1 /\ nDroppedBefore' = nDroppedBefore
        /\ dropped' = dropped
    BY <1>2 DEF StorePacket
  <2>3. CountersType'
    BY <1>1, <2>1, <2>2 DEF CInv, CountersType
  <2>4. BacklogExact'
    BY <1>1, <2>1, <2>2 DEF CInv, CountersType, BacklogExact
  <2>5. CountersBalance'
    BY <1>1, <2>1, <2>2 DEF CInv, CountersType, CountersBalance
  <2> QED
    BY <1>1, <2>3, <2>4, <2>5 DEF CInv, PeekedIsHeld
<1>3. CASE DropBeforeEnqueue(p)
  <2>1. /\ internal' = internal /\ nPackets' = nPackets /\ nReceived' = nReceived + 1
        /\ nEnqueued' = nEnqueued /\ nDroppedBefore' = nDroppedBefore + 1
        /\ dropped' \subseteq Packets
    BY <1>3 DEF DropBeforeEnqueue, CInv, CountersType
  <2>2. CountersType'
    BY <1>1, <2>1 DEF CInv, CountersType
  <2>3. BacklogExact'
    BY <1>1, <2>1 DEF CInv, BacklogExact
  <2>4. CountersBalance'
    BY <1>1, <2>1 DEF CInv, CountersType, CountersBalance
  <2> QED
    BY <1>1, <2>2, <2>3, <2>4 DEF CInv, PeekedIsHeld
<1> QED
  BY <1>2, <1>3 DEF Enqueue

LEMMA PeekCounters ==
  ASSUME QueueDiscAssumption, CInv, Peek
  PROVE  CInv'
<1>1. PICK k \in 0..Len(internal), p \in Packets \cup {NoPacket} :
        DoDequeue(p, k, TRUE) /\ requeued' = p /\ peeked' = (p # NoPacket)
  BY DEF Peek
<1>2. /\ requeued = NoPacket /\ ~peeked /\ sent' = sent /\ sent \in Seq(Packets)
      /\ internal \in Seq(Packets) /\ dropped \subseteq Packets
      /\ Len(internal) \in Nat /\ k \in Nat /\ Len(sent) \in Nat /\ NoPacket \notin Packets
  BY DEF Peek, PeekDequeues, CInv, CountersType, PeekedIsHeld, QueueDiscAssumption
<1>3. /\ dropped' \subseteq Packets /\ internal' \in Seq(Packets)
      /\ \/ p = NoPacket /\ internal' = <<>> /\ k = Len(internal) /\ CountersAfter(k, 0)
         \/ /\ p \in Packets /\ Len(internal') = Len(internal) - k - 1
            /\ CountersAfter(k, 0)
  BY <1>1, <1>2, DoDequeueEffect
<1>4. PlacesType' /\ PeekedIsHeld'
  BY <1>1, <1>2, <1>3 DEF PlacesType, PeekedIsHeld, Maybe
<1>5. PeekCount = 0 /\ RequeueCount = 0
  BY <1>2 DEF PeekCount, RequeueCount
<1>6. /\ RequeueCount' = 0
      /\ p = NoPacket => PeekCount' = 0
      /\ p \in Packets => PeekCount' = 1
  BY <1>1, <1>2 DEF PeekCount, RequeueCount
<1>7. Len(internal') + PeekCount' = Len(internal) + PeekCount - (k + 0)
  <2>1. CASE p = NoPacket
    BY <1>2, <1>3, <1>5, <1>6, <2>1
  <2>2. CASE p \in Packets
    BY <1>2, <1>3, <1>5, <1>6, <2>2
  <2> QED
    BY <2>1, <2>2
<1>8. Len(sent') + RequeueCount' = Len(sent) + RequeueCount + 0
  BY <1>2, <1>5, <1>6
<1> QED
  BY <1>2, <1>3, <1>4, <1>7, <1>8, CountersStep

(* If p was handed on, or requeued, the counters balance again.              *)
LEMMA ExtractCounters ==
  ASSUME QueueDiscAssumption, CInv, NEW p \in Packets \cup {NoPacket}, Extract(p),
         \/ p # NoPacket /\ requeued' = NoPacket /\ sent' = Append(sent, p)
         \/ requeued' = p /\ sent' = sent
  PROVE  CInv'
<1>1. /\ sent \in Seq(Packets) /\ internal \in Seq(Packets) /\ dropped \subseteq Packets
      /\ Len(internal) \in Nat /\ Len(sent) \in Nat /\ NoPacket \notin Packets
      /\ requeued \in Packets \cup {NoPacket} /\ peeked \in BOOLEAN
      /\ peeked => requeued # NoPacket
  BY DEF CInv, CountersType, PeekedIsHeld, QueueDiscAssumption, Maybe
<1>2. /\ requeued' \in Maybe /\ sent' \in Seq(Packets) /\ Len(sent') \in Nat
      /\ p # NoPacket => Len(sent') + (IF requeued' # NoPacket THEN 1 ELSE 0) = Len(sent) + 1
      /\ p = NoPacket => sent' = sent /\ requeued' = NoPacket
  <2>1. CASE p # NoPacket /\ requeued' = NoPacket /\ sent' = Append(sent, p)
    <3>1. sent' \in Seq(Packets) /\ Len(sent') = Len(sent) + 1
      BY <1>1, <2>1
    <3> QED
      BY <1>1, <2>1, <3>1 DEF Maybe
  <2>2. CASE requeued' = p /\ sent' = sent
    BY <1>1, <2>2 DEF Maybe
  <2> QED
    BY <2>1, <2>2
<1>3. CASE requeued # NoPacket /\ p = requeued /\ TakeHeld
  <2>1. /\ CountersAfter(0, PeekCount) /\ peeked' = FALSE
        /\ internal' = internal /\ dropped' = dropped
    BY <1>3, TakeHeldEffect DEF CInv, PeekCount
  <2>2. PlacesType' /\ PeekedIsHeld'
    BY <1>1, <1>2, <2>1 DEF PlacesType, PeekedIsHeld
  <2>3. PeekCount \in Nat
    BY DEF PeekCount
  <2>4. Len(internal') + PeekCount' = Len(internal) + PeekCount - (0 + PeekCount)
    BY <1>1, <2>1 DEF PeekCount
  <2>5. Len(sent') + RequeueCount' = Len(sent) + RequeueCount + PeekCount
    <3>1. RequeueCount + PeekCount = 1
      BY <1>1, <1>3 DEF PeekCount, RequeueCount
    <3>2. RequeueCount' = IF requeued' # NoPacket THEN 1 ELSE 0
      BY <2>1 DEF RequeueCount
    <3>3. Len(sent') + RequeueCount' = Len(sent) + 1
      BY <1>2, <1>3, <3>2
    <3>4. RequeueCount \in Nat
      BY DEF RequeueCount
    <3> QED
      BY <1>1, <2>3, <3>1, <3>3, <3>4
  <2> QED
    BY <2>1, <2>2, <2>3, <2>4, <2>5, CountersStep
<1>4. CASE /\ requeued = NoPacket /\ peeked' = peeked
           /\ \E k \in 0..Len(internal) : DoDequeue(p, k, FALSE)
  <2>1. PICK k \in 0..Len(internal) : DoDequeue(p, k, FALSE)
    BY <1>4
  <2>2. /\ dropped' \subseteq Packets /\ internal' \in Seq(Packets)
        /\ \/ p = NoPacket /\ internal' = <<>> /\ k = Len(internal) /\ CountersAfter(k, 0)
           \/ /\ p \in Packets /\ Len(internal') = Len(internal) - k - 1
              /\ CountersAfter(k, 1)
    BY <1>1, <2>1, DoDequeueEffect
  <2>3. ~peeked /\ ~peeked' /\ k \in Nat
    BY <1>1, <1>4
  <2>4. PlacesType' /\ PeekedIsHeld'
    <3>1. peeked' \in BOOLEAN
      BY <1>1, <1>4
    <3> QED
      BY <1>2, <2>2, <2>3, <3>1 DEF PlacesType, PeekedIsHeld
  <2>5. CASE p = NoPacket
    <3>1. Len(internal') + PeekCount' = Len(internal) + PeekCount - (k + 0)
      BY <1>1, <2>2, <2>3, <2>5 DEF PeekCount
    <3>2. Len(sent') + RequeueCount' = Len(sent) + RequeueCount + 0
      BY <1>1, <1>2, <1>4, <2>5 DEF RequeueCount
    <3> QED
      BY <1>1, <2>2, <2>3, <2>4, <2>5, <3>1, <3>2, CountersStep
  <2>6. CASE p \in Packets
    <3>1. Len(internal') + PeekCount' = Len(internal) + PeekCount - (k + 1)
      BY <1>1, <2>2, <2>3, <2>6 DEF PeekCount
    <3>2. Len(sent') + RequeueCount' = Len(sent) + RequeueCount + 1
      <4>1. RequeueCount = 0
        BY <1>4 DEF RequeueCount
      <4>2. RequeueCount' = IF requeued' # NoPacket THEN 1 ELSE 0
        BY <2>3 DEF RequeueCount
      <4> QED
        BY <1>1, <1>2, <2>6, <4>1, <4>2
    <3> QED
      BY <1>1, <2>2, <2>3, <2>4, <2>6, <3>1, <3>2, CountersStep
  <2> QED
    BY <2>5, <2>6
<1> QED
  BY <1>3, <1>4 DEF Extract
-----------------------------------------------------------------------------
(* The rest of the type invariant: the run loop, the device and the history. *)
RestType ==
  /\ running \in BOOLEAN
  /\ quota \in 0..Quota
  /\ stopped \in [TxQueues -> BOOLEAN]
  /\ wakes \in 0..MaxWakes
  /\ withHeader \subseteq Packets
  /\ arrived \in Seq(Packets)

LEMMA TypeSplits == TypeOK <=> CountersType /\ RestType
BY DEF TypeOK, CountersType, RestType

(* Every step of a queue disc keeps the counters right.                      *)
LEMMA NextCounters ==
  ASSUME QueueDiscAssumption, CInv, [Next]_vars
  PROVE  CInv'
<1>1. ASSUME NEW p \in Packets, Enqueue(p) PROVE CInv'
  BY <1>1, EnqueueCounters
<1>2. CASE Peek
  BY <1>2, PeekCounters
<1>3. CASE Dequeue
  <2>1. PICK p \in Packets \cup {NoPacket} :
          /\ Extract(p)
          /\ sent' = IF p = NoPacket THEN sent ELSE Append(sent, p)
    BY <1>3 DEF Dequeue
  <2>2. requeued' = NoPacket
    BY <1>3 DEF Dequeue, ReleaseHeld
  <2>3. \/ p # NoPacket /\ requeued' = NoPacket /\ sent' = Append(sent, p)
        \/ requeued' = p /\ sent' = sent
    BY <2>1, <2>2
  <2> QED
    BY <2>1, <2>3, ExtractCounters
<1>4. CASE RestartNothing
  <2>1. CASE HeldBack /\ UNCHANGED <<discVars, arrived>>
    BY <1>4, <2>1 DEF RestartNothing, discVars, enqueueStats, CInv, CountersType,
                      PeekedIsHeld, BacklogExact, CountersBalance
  <2>2. CASE DequeuePacket(NoPacket) /\ UNCHANGED requeued
    <3>1. Extract(NoPacket) /\ sent' = sent
      BY <1>4, <2>2 DEF RestartNothing, DequeuePacket
    <3>2. requeued' = NoPacket
      BY <2>2 DEF DequeuePacket, Extract
    <3> QED
      BY <3>1, <3>2, ExtractCounters
  <2> QED
    BY <1>4, <2>1, <2>2 DEF RestartNothing
<1>5. ASSUME NEW p \in Packets, RestartRequeue(p) PROVE CInv'
  <2>1. Extract(p) /\ requeued' = p /\ sent' = sent
    BY <1>5 DEF RestartRequeue, DequeuePacket, Requeue
  <2> QED
    BY <2>1, ExtractCounters
<1>6. ASSUME NEW p \in Packets, RestartSend(p) PROVE CInv'
  <2>1. Extract(p) /\ requeued' = NoPacket /\ sent' = Append(sent, p) /\ p # NoPacket
    BY <1>6 DEF RestartSend, DequeuePacket, ReleaseHeld, QueueDiscAssumption
  <2> QED
    BY <2>1, ExtractCounters
<1>7. ASSUME UNCHANGED <<discVars, sent>> PROVE CInv'
  BY <1>7 DEF discVars, enqueueStats, CInv, CountersType, PeekedIsHeld, BacklogExact,
              CountersBalance
<1>8. ASSUME NEW i \in TxQueues, DeviceWake(i) PROVE CInv'
  BY <1>7, <1>8 DEF DeviceWake
<1>9. CASE WakeCallback
  BY <1>7, <1>9 DEF WakeCallback
<1>10. CASE UNCHANGED vars
  BY <1>7, <1>10 DEF vars
<1> QED
  BY <1>1, <1>2, <1>3, <1>4, <1>5, <1>6, <1>8, <1>9, <1>10 DEF Next, Restart

(* ... and the run loop, the device and the history within their types.      *)
LEMMA NextType ==
  ASSUME QueueDiscAssumption, CInv, RestType, [Next]_vars
  PROVE  RestType'
<1>1. Quota \in Nat /\ MaxWakes \in Nat
  BY DEF QueueDiscAssumption
<1>2. ASSUME RunBegin \/ RunEnd \/ RunContinue \/ UNCHANGED runVars
      PROVE  running' \in BOOLEAN /\ quota' \in 0..Quota
  <2>1. running \in BOOLEAN /\ quota \in 0..Quota
    BY DEF RestType
  <2>2. CASE RunBegin
    BY <1>1, <2>2 DEF RunBegin
  <2>3. CASE RunEnd
    BY <2>1, <2>3 DEF RunEnd
  <2>4. CASE RunContinue
    <3>1. quota' \in 0..Quota
      BY <1>1, <2>1, <2>4 DEF RunContinue
    <3>2. running' \in BOOLEAN
      BY <2>4, Zenon DEF RunContinue
    <3> QED
      BY <3>1, <3>2
  <2>5. CASE UNCHANGED runVars
    BY <2>1, <2>5 DEF runVars
  <2> QED
    BY <1>2, <2>2, <2>3, <2>4, <2>5
<1>3. ASSUME NEW p \in Packets \cup {NoPacket}, DequeuePacket(p)
      PROVE  withHeader' \subseteq Packets /\ arrived' = arrived
  BY <1>3 DEF DequeuePacket, HeadersAfter, Extract, DoDequeue, TakeHeld, RestType
<1>4. ASSUME NEW p \in Packets, Enqueue(p) PROVE RestType'
  <2>1. arrived' \in Seq(Packets)
    BY <1>4 DEF Enqueue, StorePacket, DropBeforeEnqueue, RestType
  <2> QED
    BY <1>2, <1>4, <2>1 DEF Enqueue, RestType
<1>5. CASE Peek
  BY <1>2, <1>5 DEF Peek, DoDequeue, RestType
<1>6. CASE Dequeue
  BY <1>2, <1>6 DEF Dequeue, Extract, DoDequeue, TakeHeld, RestType
<1>7. CASE RestartNothing
  <2>1. withHeader' \subseteq Packets /\ arrived' = arrived
    BY <1>3, <1>7 DEF RestartNothing, discVars, RestType
  <2> QED
    BY <1>2, <1>7, <2>1 DEF RestartNothing, RestType
<1>8. ASSUME NEW p \in Packets, RestartRequeue(p) PROVE RestType'
  BY <1>2, <1>3, <1>8 DEF RestartRequeue, RestType
<1>9. ASSUME NEW p \in Packets, RestartSend(p) PROVE RestType'
  <2>1. PICK full \in BOOLEAN, woken \in BOOLEAN :
          /\ DeviceTakes(TxQueueOf[p], full, woken)
          /\ IF RunGoesOn(full) THEN RunContinue ELSE RunEnd
    BY <1>9 DEF RestartSend
  <2>2. stopped' \in [TxQueues -> BOOLEAN]
    BY <2>1 DEF DeviceTakes, RestType
  <2>3. wakes' \in 0..MaxWakes
    BY <1>1, <2>1 DEF DeviceTakes, ScheduleWake, RestType
  <2>4. running' \in BOOLEAN /\ quota' \in 0..Quota
    BY <1>2, <2>1
  <2>5. withHeader' \subseteq Packets /\ arrived' = arrived
    BY <1>3, <1>9 DEF RestartSend
  <2> QED
    BY <2>2, <2>3, <2>4, <2>5 DEF RestType
<1>10. ASSUME NEW i \in TxQueues, DeviceWake(i) PROVE RestType'
  <2>1. stopped' \in [TxQueues -> BOOLEAN]
    BY <1>10 DEF DeviceWake, RestType
  <2>2. wakes' \in 0..MaxWakes
    BY <1>1, <1>10 DEF DeviceWake, ScheduleWake, RestType
  <2>3. UNCHANGED runVars /\ withHeader' = withHeader /\ arrived' = arrived
    BY <1>10 DEF DeviceWake, discVars
  <2> QED
    BY <1>2, <2>1, <2>2, <2>3 DEF RestType
<1>11. CASE WakeCallback
  BY <1>1, <1>2, <1>11 DEF WakeCallback, discVars, RestType
<1>12. CASE UNCHANGED vars
  BY <1>12 DEF vars, discVars, runVars, RestType
<1> QED
  BY <1>4, <1>5, <1>6, <1>7, <1>8, <1>9, <1>10, <1>11, <1>12 DEF Next, Restart

-----------------------------------------------------------------------------
(* The inductive invariant holds in every reachable state.                   *)
THEOREM Inductive == Spec => [](CInv /\ RestType)
<1>1. Init => CInv /\ RestType
  <2> SUFFICES ASSUME Init PROVE CInv /\ RestType
    OBVIOUS
  <2>1. Quota \in Nat /\ MaxWakes \in Nat
    BY QueueDiscAssumption DEF QueueDiscAssumption
  <2>2. CountersType /\ PeekedIsHeld
    <3>1. internal \in Seq(Packets) /\ sent \in Seq(Packets)
      BY DEF Init
    <3>2. requeued \in Maybe /\ peeked \in BOOLEAN /\ dropped \subseteq Packets
      BY DEF Init, Maybe
    <3>3. /\ nPackets \in Nat /\ nReceived \in Nat /\ nEnqueued \in Nat /\ nDequeued \in Nat
          /\ nDroppedBefore \in Nat /\ nDroppedAfter \in Nat
      BY DEF Init
    <3> QED
      BY <3>1, <3>2, <3>3 DEF Init, CountersType, PeekedIsHeld
  <2>3. BacklogExact /\ CountersBalance
    BY DEF Init, BacklogExact, CountersBalance
  <2>4. RestType
    <3>1. quota \in 0..Quota /\ wakes \in 0..MaxWakes
      BY <2>1 DEF Init
    <3>2. stopped \in [TxQueues -> BOOLEAN] /\ running \in BOOLEAN
      BY DEF Init
    <3>3. withHeader \subseteq Packets /\ arrived \in Seq(Packets)
      BY DEF Init
    <3> QED
      BY <3>1, <3>2, <3>3 DEF RestType
  <2> QED
    BY <2>2, <2>3, <2>4 DEF CInv
<1>2. CInv /\ RestType /\ [Next]_vars => (CInv /\ RestType)'
  <2> SUFFICES ASSUME CInv, RestType, [Next]_vars PROVE CInv' /\ RestType'
    OBVIOUS
  <2> QED
    BY QueueDiscAssumption, NextCounters, NextType
<1> QED
  BY <1>1, <1>2, PTL DEF Spec

(* Every variable keeps its type: no unsigned counter of the queue disc ever *)
(* goes below zero.                                                          *)
THEOREM TypeCorrect == Spec => []TypeOK
<1>1. CInv /\ RestType => TypeOK
  BY TypeSplits DEF CInv
<1> QED
  BY <1>1, Inductive, PTL

(* The packet counter that ends the run loop counts exactly the packets of   *)
(* the internal queue and the one held by a peek.                            *)
THEOREM BacklogCorrect == Spec => []BacklogExact
<1>1. CInv /\ RestType => BacklogExact
  BY DEF CInv
<1> QED
  BY <1>1, Inductive, PTL

(* The identities asserted by Enqueue and Dequeue, and the one behind        *)
(* GetStats, hold.                                                           *)
THEOREM StatisticsCorrect == Spec => []CountersBalance
<1>1. CInv /\ RestType => CountersBalance
  BY DEF CInv
<1> QED
  BY <1>1, Inductive, PTL

-----------------------------------------------------------------------------
(* Headers                                                                   *)

(* A packet that is requeued, and every packet sent, has its header. *)
HeadersInv ==
  IsRoot =>
    /\ requeued # NoPacket => requeued \in withHeader
    /\ \A i \in 1..Len(sent) : sent[i] \in withHeader

(* Whatever DequeuePacket returns has its header, and none is taken away.    *)
LEMMA DequeuePacketHeaders ==
  ASSUME HeadersInv, IsRoot, NEW p \in Packets, DequeuePacket(p)
  PROVE  p \in withHeader' /\ withHeader \subseteq withHeader'
  <1>1. p # NoPacket
    BY QueueDiscAssumption DEF QueueDiscAssumption
  <1>2. CASE requeued = NoPacket
    BY <1>1, <1>2 DEF DequeuePacket, HeadersAfter
  <1>3. CASE requeued # NoPacket
    <2>1. p = requeued
      BY <1>3 DEF DequeuePacket, Extract
    <2>q. QED
      BY <1>3, <2>1 DEF DequeuePacket, HeadersAfter, HeadersInv
  <1>q. QED
    BY <1>2, <1>3

(* Every step keeps the headers complete, if nobody peeks. *)
LEMMA NextHeaders ==
  ASSUME ~BasePeek, CInv, HeadersInv, [Next]_vars
  PROVE  HeadersInv'
  <1> SUFFICES ASSUME IsRoot
               PROVE  /\ requeued' # NoPacket => requeued' \in withHeader'
                      /\ \A i \in 1..Len(sent') : sent'[i] \in withHeader'
    BY DEF HeadersInv
  <1>0. /\ sent \in Seq(Packets)
        /\ requeued # NoPacket => requeued \in withHeader
        /\ \A i \in 1..Len(sent) : sent[i] \in withHeader
    BY DEF HeadersInv, CInv, CountersType
  <1>1. CASE UNCHANGED <<requeued, withHeader, sent>>
    BY <1>0, <1>1
  <1>2. CASE RestartNothing
    <2>1. requeued' = requeued /\ sent' = sent
      BY <1>2 DEF RestartNothing, discVars
    <2>2. withHeader' = withHeader
      BY <1>2 DEF RestartNothing, discVars, DequeuePacket, HeadersAfter
    <2>q. QED
      BY <1>0, <2>1, <2>2
  <1>3. ASSUME NEW p \in Packets, RestartRequeue(p)
        PROVE  /\ requeued' # NoPacket => requeued' \in withHeader'
               /\ \A i \in 1..Len(sent') : sent'[i] \in withHeader'
    <2>1. requeued' = p /\ sent' = sent
      BY <1>3 DEF RestartRequeue, Requeue
    <2>2. p \in withHeader' /\ withHeader \subseteq withHeader'
      BY <1>3, DequeuePacketHeaders DEF RestartRequeue
    <2>q. QED
      BY <1>0, <2>1, <2>2
  <1>4. ASSUME NEW p \in Packets, RestartSend(p)
        PROVE  /\ requeued' # NoPacket => requeued' \in withHeader'
               /\ \A i \in 1..Len(sent') : sent'[i] \in withHeader'
    <2>1. requeued' = NoPacket /\ sent' = Append(sent, p)
      BY <1>4 DEF RestartSend, ReleaseHeld
    <2>2. p \in withHeader' /\ withHeader \subseteq withHeader'
      BY <1>4, DequeuePacketHeaders DEF RestartSend
    <2>q. QED
      BY <1>0, <2>1, <2>2
  <1>5. CASE \E p \in Packets : Enqueue(p)
    BY <1>1, <1>5 DEF Enqueue
  <1>6. CASE \E i \in TxQueues : DeviceWake(i)
    BY <1>1, <1>6 DEF DeviceWake, discVars
  <1>7. CASE WakeCallback
    BY <1>1, <1>7 DEF WakeCallback, discVars
  <1>8. CASE UNCHANGED vars
    BY <1>1, <1>8 DEF vars, discVars
  <1>q. QED
    BY <1>2, <1>3, <1>4, <1>5, <1>6, <1>7, <1>8 DEF Next, Restart, Peek, Dequeue

(* A root queue disc that nobody peeks into sends every packet with its      *)
(* header, the requeued ones too, which get it before they are requeued.     *)
THEOREM HeadersCorrect ==
  ASSUME ~BasePeek
  PROVE  Spec => []HeadersComplete
<1>1. Init => HeadersInv
  BY DEF Init, HeadersInv
<1>2. CInv /\ HeadersInv /\ [Next]_vars => HeadersInv'
  BY NextHeaders
<1>3. HeadersInv => HeadersComplete
  BY DEF HeadersInv, HeadersComplete
<1> QED
  BY <1>1, <1>2, <1>3, Inductive, PTL DEF Spec

-----------------------------------------------------------------------------
(* Order and completeness.  The pipeline is seen as its front, what has left *)
(* the internal queue, and the internal queue.  Every step does one of three *)
(* things to it: it leaves both parts alone, it stores a packet at the end,  *)
(* or it drops k packets behind the front and moves at most one more into it. *)

(* What has left the internal queue: sent, or held for a later Dequeue.     *)
Front == sent \o Held

(* Every packet of the pipeline has arrived.                                *)
AllArrived ==
  \A i \in 1..Len(Pipeline) : \E a \in 1..Len(arrived) : arrived[a] = Pipeline[i]

OrderInv == AllArrived /\ FifoOrder /\ NoLoss

(* Of the pipeline, the k packets behind position m are gone, each of them  *)
(* dropped, and the others have moved up.                                   *)
MovedUp(m, k) ==
  /\ Len(Pipeline') = Len(Pipeline) - k
  /\ \A i \in 1..Len(Pipeline') : Pipeline'[i] = Pipeline[IF i <= m THEN i ELSE i + k]
  /\ \A i \in m + 1..m + k : Pipeline[i] \in dropped'
  /\ dropped \subseteq dropped'
  /\ arrived' = arrived

-----------------------------------------------------------------------------
(* Sequences                                                                 *)

(* The elements of a concatenation. *)
LEMMA Concatenation ==
  ASSUME NEW s \in Seq(Packets), NEW t \in Seq(Packets)
  PROVE  /\ s \o t \in Seq(Packets)
         /\ Len(s \o t) = Len(s) + Len(t)
         /\ \A i \in 1..Len(s) + Len(t) :
              (s \o t)[i] = IF i <= Len(s) THEN s[i] ELSE t[i - Len(s)]
  OBVIOUS

(* Of two of n + 1 positions, only the second may be the last. *)
LEMMA TwoOfMore ==
  ASSUME NEW n \in Nat, NEW i \in 1..n + 1, NEW j \in 1..n + 1, i < j
  PROVE  i \in 1..n /\ (j \in 1..n \/ j = n + 1)
  OBVIOUS

(* Nothing, or one packet, at the end of a sequence. *)
LEMMA Extension ==
  ASSUME NEW s \in Seq(Packets)
  PROVE  /\ s \o <<>> = s
         /\ \A p \in Packets : s \o <<p>> = Append(s, p)
  OBVIOUS

(* The front as the code leaves it: what was sent and at most one packet.   *)
LEMMA FrontIs ==
  ASSUME QueueDiscAssumption, CountersType
  PROVE  /\ Front \in Seq(Packets)
         /\ requeued = NoPacket => Front = sent
         /\ requeued # NoPacket => Front = Append(sent, requeued)
         /\ Pipeline = Front \o internal
  <1>1. sent \in Seq(Packets) /\ requeued \in Packets \cup {NoPacket}
    BY DEF CountersType, Maybe
  <1>2. CASE requeued = NoPacket
    <2>1. Held = <<>>
      BY <1>2 DEF Held
    <2>q. QED
      BY <1>1, <1>2, <2>1, Extension DEF Front, Pipeline
  <1>3. CASE requeued # NoPacket
    <2>1. Held = <<requeued>> /\ requeued \in Packets
      BY <1>1, <1>3 DEF Held
    <2>2. Front = Append(sent, requeued)
      BY <1>1, <2>1, Extension DEF Front
    <2>q. QED
      BY <1>1, <1>3, <2>1, <2>2 DEF Front, Pipeline
  <1>q. QED
    BY <1>2, <1>3

-----------------------------------------------------------------------------
(* The three kinds of step                                                   *)

(* Packets that move up keep their order, and what is gone was dropped.     *)
LEMMA MovedUpOrder ==
  ASSUME OrderInv, NEW m \in Nat, NEW k \in Nat, Len(Pipeline) \in Nat,
         m + k <= Len(Pipeline), MovedUp(m, k)
  PROVE  OrderInv'
  <1> DEFINE old(i) == IF i <= m THEN i ELSE i + k
  <1>1. \A i \in 1..Len(Pipeline') :
          old(i) \in 1..Len(Pipeline) /\ Pipeline'[i] = Pipeline[old(i)]
    BY DEF MovedUp
  <1>2. arrived' = arrived /\ dropped \subseteq dropped'
    BY DEF MovedUp
  <1>3. AllArrived'
    BY <1>1, <1>2 DEF OrderInv, AllArrived
  <1>4. FifoOrder'
    <2>1. \A i, j \in 1..Len(Pipeline') : i < j => old(i) < old(j)
      OBVIOUS
    <2> HIDE DEF old
    <2>2. ASSUME NEW i \in 1..Len(Pipeline'), NEW j \in 1..Len(Pipeline'), i < j
          PROVE  \E a, b \in 1..Len(arrived') :
                   a < b /\ arrived'[a] = Pipeline'[i] /\ arrived'[b] = Pipeline'[j]
      <3>1. /\ old(i) \in 1..Len(Pipeline) /\ old(j) \in 1..Len(Pipeline)
            /\ old(i) < old(j)
        BY <1>1, <2>1, <2>2
      <3>2. PICK a \in 1..Len(arrived), b \in 1..Len(arrived) :
              a < b /\ arrived[a] = Pipeline[old(i)] /\ arrived[b] = Pipeline[old(j)]
        BY <3>1 DEF OrderInv, FifoOrder
      <3>q. QED
        BY <1>1, <1>2, <3>2
    <2>q. QED
      BY <2>2 DEF FifoOrder
  <1>5. NoLoss'
    <2>1. ASSUME NEW a \in 1..Len(arrived)
          PROVE  \/ arrived[a] \in dropped'
                 \/ \E i \in 1..Len(Pipeline') : Pipeline'[i] = arrived[a]
      <3>1. CASE arrived[a] \in dropped
        BY <1>2, <3>1
      <3>2. ASSUME NEW n \in 1..Len(Pipeline), Pipeline[n] = arrived[a]
            PROVE  \/ arrived[a] \in dropped'
                   \/ \E i \in 1..Len(Pipeline') : Pipeline'[i] = arrived[a]
        <4>1. CASE n <= m
          <5>1. n \in 1..Len(Pipeline') /\ Pipeline'[n] = Pipeline[n]
            BY <4>1 DEF MovedUp
          <5>q. QED
            BY <3>2, <5>1
        <4>2. CASE m < n /\ n <= m + k
          <5>1. n \in m + 1..m + k
            BY <4>2
          <5>2. Pipeline[n] \in dropped'
            BY <5>1 DEF MovedUp
          <5>q. QED
            BY <3>2, <5>2
        <4>3. CASE m + k < n
          <5>1. n - k \in 1..Len(Pipeline') /\ ~(n - k <= m) /\ (n - k) + k = n
            BY <4>3 DEF MovedUp
          <5>2. Pipeline'[n - k] = Pipeline[n]
            BY <5>1 DEF MovedUp
          <5>q. QED
            BY <3>2, <5>1, <5>2
        <4>q. QED
          BY <4>1, <4>2, <4>3
      <3>q. QED
        BY <3>1, <3>2 DEF OrderInv, NoLoss
    <2>q. QED
      BY <1>2, <2>1 DEF NoLoss
  <1>q. QED
    BY <1>3, <1>4, <1>5 DEF OrderInv

(* The pipeline itself does not change. *)
LEMMA SameOrder ==
  ASSUME OrderInv, Pipeline' = Pipeline, dropped \subseteq dropped', arrived' = arrived
  PROVE  OrderInv'
  <1>1. AllArrived'
    BY DEF OrderInv, AllArrived
  <1>2. FifoOrder'
    BY DEF OrderInv, FifoOrder
  <1>3. NoLoss'
    BY DEF OrderInv, NoLoss
  <1>q. QED
    BY <1>1, <1>2, <1>3 DEF OrderInv

(* A packet that arrives and is stored is the last in both.                 *)
LEMMA StoredOrder ==
  ASSUME OrderInv, NEW p \in Packets, arrived \in Seq(Packets), Pipeline \in Seq(Packets),
         Pipeline' = Append(Pipeline, p), arrived' = Append(arrived, p), dropped' = dropped
  PROVE  OrderInv'
  <1>1. /\ Len(Pipeline') = Len(Pipeline) + 1 /\ Len(Pipeline) \in Nat
        /\ \A i \in 1..Len(Pipeline) : Pipeline'[i] = Pipeline[i]
        /\ Pipeline'[Len(Pipeline) + 1] = p
    OBVIOUS
  <1>2. /\ Len(arrived') = Len(arrived) + 1 /\ Len(arrived) \in Nat
        /\ \A a \in 1..Len(arrived) : arrived'[a] = arrived[a]
        /\ arrived'[Len(arrived) + 1] = p
    OBVIOUS
  <1>3. AllArrived'
    <2>1. ASSUME NEW i \in 1..Len(Pipeline')
          PROVE  \E a \in 1..Len(arrived') : arrived'[a] = Pipeline'[i]
      <3>1. CASE i \in 1..Len(Pipeline)
        <4>1. PICK a \in 1..Len(arrived) : arrived[a] = Pipeline[i]
          BY <3>1 DEF OrderInv, AllArrived
        <4>q. QED
          BY <1>1, <1>2, <3>1, <4>1
      <3>2. CASE i = Len(Pipeline) + 1
        <4>1. Len(arrived) + 1 \in 1..Len(arrived')
          BY <1>2
        <4>q. QED
          BY <1>1, <1>2, <3>2, <4>1
      <3>q. QED
        BY <1>1, <3>1, <3>2
    <2>q. QED
      BY <2>1 DEF AllArrived
  <1>4. FifoOrder'
    <2>1. ASSUME NEW i \in 1..Len(Pipeline'), NEW j \in 1..Len(Pipeline'), i < j
          PROVE  \E a, b \in 1..Len(arrived') :
                   a < b /\ arrived'[a] = Pipeline'[i] /\ arrived'[b] = Pipeline'[j]
      <3>0. i \in 1..Len(Pipeline) /\ (j \in 1..Len(Pipeline) \/ j = Len(Pipeline) + 1)
        <4>1. Len(Pipeline) \in Nat
          BY <1>1
        <4>2. i \in 1..Len(Pipeline) + 1 /\ j \in 1..Len(Pipeline) + 1
          BY <1>1, <2>1
        <4>q. QED
          BY <2>1, <4>1, <4>2, TwoOfMore
      <3>1. CASE j \in 1..Len(Pipeline)
        <4>1. PICK a \in 1..Len(arrived), b \in 1..Len(arrived) :
                a < b /\ arrived[a] = Pipeline[i] /\ arrived[b] = Pipeline[j]
          BY <2>1, <3>0, <3>1 DEF OrderInv, FifoOrder
        <4>q. QED
          BY <1>1, <1>2, <3>0, <3>1, <4>1
      <3>2. CASE j = Len(Pipeline) + 1
        <4>1. PICK a \in 1..Len(arrived) : arrived[a] = Pipeline[i]
          BY <3>0 DEF OrderInv, AllArrived
        <4>2. /\ a \in 1..Len(arrived') /\ Len(arrived) + 1 \in 1..Len(arrived')
              /\ a < Len(arrived) + 1
          BY <1>2, <4>1
        <4>q. QED
          BY <1>1, <1>2, <3>0, <3>2, <4>1, <4>2
      <3>q. QED
        BY <3>0, <3>1, <3>2
    <2>q. QED
      BY <2>1 DEF FifoOrder
  <1>5. NoLoss'
    <2>1. ASSUME NEW a \in 1..Len(arrived')
          PROVE  \/ arrived'[a] \in dropped'
                 \/ \E i \in 1..Len(Pipeline') : Pipeline'[i] = arrived'[a]
      <3>1. CASE a \in 1..Len(arrived)
        <4>1. \/ arrived[a] \in dropped
              \/ \E i \in 1..Len(Pipeline) : Pipeline[i] = arrived[a]
          BY <3>1 DEF OrderInv, NoLoss
        <4>q. QED
          BY <1>1, <1>2, <3>1, <4>1
      <3>2. CASE a = Len(arrived) + 1
        <4>1. Len(Pipeline) + 1 \in 1..Len(Pipeline')
          BY <1>1
        <4>q. QED
          BY <1>1, <1>2, <3>2, <4>1
      <3>q. QED
        BY <1>2, <3>1, <3>2
    <2>q. QED
      BY <2>1 DEF NoLoss
  <1>q. QED
    BY <1>3, <1>4, <1>5 DEF OrderInv

-----------------------------------------------------------------------------
(* DoDequeue                                                                 *)

(* DoDequeue drops the last packets of the internal queue. *)
LEMMA NothingLeftMoves ==
  ASSUME QueueDiscAssumption, CountersType, OrderInv,
         NEW k \in 0..Len(internal), k = Len(internal),
         NEW inPeek \in BOOLEAN, DoDequeue(NoPacket, k, inPeek), Front' = Front
  PROVE  OrderInv'
  <1>1. /\ Front \in Seq(Packets) /\ internal \in Seq(Packets)
        /\ Pipeline = Front \o internal /\ Pipeline' = Front' \o internal'
    BY FrontIs DEF CountersType, Pipeline, Front
  <1>2. internal' = <<>>
    BY <1>1 DEF DoDequeue
  <1>3. Pipeline' = Front
    BY <1>1, <1>2, Extension
  <1>4. /\ Len(Front) \in Nat /\ Len(internal) \in Nat
        /\ Len(Pipeline) = Len(Front) + Len(internal)
        /\ \A i \in 1..Len(Front) + Len(internal) :
             Pipeline[i] = IF i <= Len(Front) THEN Front[i] ELSE internal[i - Len(Front)]
    BY <1>1, Concatenation
  <1>5. /\ dropped' = dropped \cup {internal[i] : i \in 1..k} /\ arrived' = arrived
    BY DEF DoDequeue
  <1>6. MovedUp(Len(Front), k)
    <2>1. Len(Pipeline') = Len(Pipeline) - k
      BY <1>3, <1>4
    <2>2. ASSUME NEW i \in 1..Len(Pipeline')
          PROVE  Pipeline'[i] = Pipeline[IF i <= Len(Front) THEN i ELSE i + k]
      BY <1>3, <1>4
    <2>3. ASSUME NEW i \in Len(Front) + 1..Len(Front) + k
          PROVE  Pipeline[i] \in dropped'
      <3>1. /\ i \in 1..Len(Front) + Len(internal) /\ ~(i <= Len(Front))
            /\ i - Len(Front) \in 1..k
        BY <1>4
      <3>q. QED
        BY <1>4, <1>5, <3>1
    <2>q. QED
      BY <1>5, <2>1, <2>2, <2>3 DEF MovedUp
  <1>q. QED
    BY <1>4, <1>6, MovedUpOrder

(* DoDequeue drops k packets and moves the next one into the front.         *)
LEMMA NextOneMoves ==
  ASSUME QueueDiscAssumption, CountersType, OrderInv,
         NEW k \in 0..Len(internal), k # Len(internal), NEW p \in Packets,
         NEW inPeek \in BOOLEAN, DoDequeue(p, k, inPeek), Front' = Append(Front, p)
  PROVE  OrderInv'
  <1>1. /\ Front \in Seq(Packets) /\ internal \in Seq(Packets)
        /\ Pipeline = Front \o internal /\ Pipeline' = Front' \o internal'
    BY FrontIs DEF CountersType, Pipeline, Front
  <1>2. /\ Len(internal) \in Nat /\ k \in Nat /\ k + 1 <= Len(internal)
        /\ Len(Front) \in Nat
    BY <1>1
  <1>3. /\ internal' \in Seq(Packets) /\ Len(internal') = Len(internal) - (k + 1)
        /\ \A i \in 1..Len(internal') : internal'[i] = internal[i + (k + 1)]
    <2>1. internal' = SubSeq(internal, k + 2, Len(internal))
      BY DEF DoDequeue
    <2>2. internal' \in Seq(Packets) /\ Len(internal') = Len(internal) - (k + 1)
      BY <1>1, <1>2, <2>1
    <2>3. ASSUME NEW i \in 1..Len(internal')
          PROVE  internal'[i] = internal[i + (k + 1)]
      <3>1. i \in 1..Len(internal) - (k + 1) /\ (k + 2) + i - 1 = i + (k + 1)
        BY <1>2, <2>2
      <3>2. internal'[i] = internal[(k + 2) + i - 1]
        BY <1>1, <1>2, <2>1, <3>1
      <3>q. QED
        BY <3>1, <3>2
    <2>q. QED
      BY <2>2, <2>3
  <1>4. /\ Front' \in Seq(Packets) /\ Len(Front') = Len(Front) + 1
        /\ \A i \in 1..Len(Front) : Front'[i] = Front[i]
        /\ Front'[Len(Front) + 1] = internal[k + 1]
    <2>1. p = internal[k + 1]
      BY DEF DoDequeue
    <2>q. QED
      BY <1>1, <2>1
  <1>5. /\ Len(Pipeline) = Len(Front) + Len(internal)
        /\ \A i \in 1..Len(Front) + Len(internal) :
             Pipeline[i] = IF i <= Len(Front) THEN Front[i] ELSE internal[i - Len(Front)]
    BY <1>1, Concatenation
  <1>6. /\ Len(Pipeline') = Len(Front') + Len(internal')
        /\ \A i \in 1..Len(Front') + Len(internal') :
             Pipeline'[i] = IF i <= Len(Front') THEN Front'[i] ELSE internal'[i - Len(Front')]
    BY <1>1, <1>3, <1>4, Concatenation
  <1>7. dropped' = dropped \cup {internal[i] : i \in 1..k} /\ arrived' = arrived
    BY DEF DoDequeue
  <1>8. MovedUp(Len(Front), k)
    <2>1. Len(Pipeline') = Len(Pipeline) - k
      BY <1>2, <1>3, <1>4, <1>5, <1>6
    <2>2. ASSUME NEW i \in 1..Len(Pipeline')
          PROVE  Pipeline'[i] = Pipeline[IF i <= Len(Front) THEN i ELSE i + k]
      <3>1. i \in 1..Len(Front') + Len(internal')
        BY <1>6
      <3>2. CASE i <= Len(Front)
        <4>1. i \in 1..Len(Front) /\ i <= Len(Front') /\ i \in 1..Len(Front) + Len(internal)
          BY <1>2, <1>4, <3>1, <3>2
        <4>q. QED
          BY <1>4, <1>5, <1>6, <3>1, <3>2, <4>1
      <3>3. CASE i = Len(Front) + 1
        <4>1. /\ i <= Len(Front') /\ ~(i <= Len(Front))
              /\ i + k \in 1..Len(Front) + Len(internal)
              /\ ~(i + k <= Len(Front)) /\ (i + k) - Len(Front) = k + 1
          BY <1>2, <1>4, <3>3
        <4>2. Pipeline'[i] = internal[k + 1]
          BY <1>4, <1>6, <3>1, <3>3, <4>1
        <4>3. Pipeline[i + k] = internal[k + 1]
          BY <1>5, <4>1
        <4>q. QED
          BY <4>1, <4>2, <4>3
      <3>4. CASE i > Len(Front) + 1
        <4>1. /\ ~(i <= Len(Front')) /\ ~(i <= Len(Front))
              /\ i - Len(Front') \in 1..Len(internal')
              /\ i + k \in 1..Len(Front) + Len(internal)
              /\ ~(i + k <= Len(Front))
              /\ (i - Len(Front')) + (k + 1) = (i + k) - Len(Front)
          BY <1>2, <1>3, <1>4, <3>1, <3>4
        <4>2. Pipeline'[i] = internal[(i - Len(Front')) + (k + 1)]
          BY <1>3, <1>6, <3>1, <4>1
        <4>3. Pipeline[i + k] = internal[(i + k) - Len(Front)]
          BY <1>5, <4>1
        <4>q. QED
          BY <4>1, <4>2, <4>3
      <3>q. QED
        BY <1>2, <3>1, <3>2, <3>3, <3>4
    <2>3. ASSUME NEW i \in Len(Front) + 1..Len(Front) + k
          PROVE  Pipeline[i] \in dropped'
      <3>1. /\ i \in 1..Len(Front) + Len(internal) /\ ~(i <= Len(Front))
            /\ i - Len(Front) \in 1..k
        BY <1>2
      <3>q. QED
        BY <1>5, <1>7, <3>1
    <2>q. QED
      BY <1>7, <2>1, <2>2, <2>3 DEF MovedUp
  <1>9. Len(Pipeline) \in Nat /\ Len(Front) + k <= Len(Pipeline)
    BY <1>2, <1>5
  <1>q. QED
    BY <1>2, <1>8, <1>9, MovedUpOrder

(* DoDequeue, whatever it returns. *)
LEMMA DoDequeueOrder ==
  ASSUME QueueDiscAssumption, CountersType, OrderInv,
         NEW k \in 0..Len(internal), NEW p \in Packets \cup {NoPacket},
         NEW inPeek \in BOOLEAN, DoDequeue(p, k, inPeek),
         Front' = IF p = NoPacket THEN Front ELSE Append(Front, p)
  PROVE  OrderInv'
  <1>1. internal \in Seq(Packets) /\ NoPacket \notin Packets
    BY DEF CountersType, QueueDiscAssumption
  <1>2. CASE k = Len(internal)
    <2>1. p = NoPacket
      BY <1>2 DEF DoDequeue
    <2>q. QED
      BY <1>2, <2>1, NothingLeftMoves
  <1>3. CASE k # Len(internal)
    <2>1. p = internal[k + 1] /\ k + 1 \in 1..Len(internal)
      BY <1>1, <1>3 DEF DoDequeue
    <2>2. p \in Packets /\ p # NoPacket
      BY <1>1, <2>1
    <2>q. QED
      BY <1>3, <2>2, NextOneMoves
  <1>q. QED
    BY <1>2, <1>3

-----------------------------------------------------------------------------
(* The actions                                                               *)

(* A packet arrives. *)
LEMMA EnqueueOrder ==
  ASSUME QueueDiscAssumption, CountersType, RestType, OrderInv,
         NEW p \in Packets, Enqueue(p)
  PROVE  OrderInv'
  <1>1. /\ Front \in Seq(Packets) /\ internal \in Seq(Packets) /\ arrived \in Seq(Packets)
        /\ Pipeline = Front \o internal /\ Pipeline' = Front' \o internal'
    BY FrontIs DEF CountersType, RestType, Pipeline, Front
  <1>2. Front' = Front
    BY DEF Enqueue, Front, Held
  <1>3. CASE StorePacket(p)
    <2>1. /\ internal' = Append(internal, p) /\ arrived' = Append(arrived, p)
          /\ dropped' = dropped
      BY <1>3 DEF StorePacket
    <2>2. Pipeline' = Append(Pipeline, p) /\ Pipeline \in Seq(Packets)
      BY <1>1, <1>2, <2>1
    <2>q. QED
      BY <1>1, <2>1, <2>2, StoredOrder
  <1>4. CASE DropBeforeEnqueue(p)
    <2>1. internal' = internal /\ arrived' = arrived /\ dropped \subseteq dropped'
      BY <1>4 DEF DropBeforeEnqueue
    <2>2. Pipeline' = Pipeline
      BY <1>1, <1>2, <2>1
    <2>q. QED
      BY <2>1, <2>2, SameOrder
  <1>q. QED
    BY <1>3, <1>4 DEF Enqueue

(* Dequeue extracts p, and then either hands it over or keeps it.           *)
LEMMA ExtractOrder ==
  ASSUME QueueDiscAssumption, CountersType, OrderInv,
         NEW p \in Packets \cup {NoPacket}, Extract(p),
         \/ p # NoPacket /\ requeued' = NoPacket /\ sent' = Append(sent, p)
         \/ requeued' = p /\ sent' = sent
  PROVE  OrderInv'
  <1>1. /\ sent \in Seq(Packets) /\ Front \in Seq(Packets)
        /\ requeued = NoPacket => Front = sent
        /\ requeued # NoPacket => Front = Append(sent, requeued)
        /\ Pipeline = Front \o internal /\ Pipeline' = Front' \o internal'
    BY FrontIs DEF CountersType, Pipeline, Front
  <1>2. Front' = IF p = NoPacket THEN sent ELSE Append(sent, p)
    <2>1. CASE p # NoPacket /\ requeued' = NoPacket /\ sent' = Append(sent, p)
      <3>1. Held' = <<>> /\ p \in Packets
        BY <2>1 DEF Held
      <3>2. Append(sent, p) \in Seq(Packets)
        BY <1>1, <3>1
      <3>3. Front' = Append(sent, p) \o <<>>
        BY <2>1, <3>1 DEF Front
      <3>q. QED
        BY <2>1, <3>2, <3>3, Extension
    <2>2. CASE requeued' = p /\ sent' = sent
      <3>1. CASE p = NoPacket
        <4>1. Front' = sent \o <<>>
          BY <2>2, <3>1 DEF Front, Held
        <4>q. QED
          BY <1>1, <3>1, <4>1, Extension
      <3>2. CASE p # NoPacket
        <4>1. Front' = sent \o <<p>> /\ p \in Packets
          BY <2>2, <3>2 DEF Front, Held
        <4>q. QED
          BY <1>1, <3>2, <4>1, Extension
      <3>q. QED
        BY <3>1, <3>2
    <2>q. QED
      BY <2>1, <2>2
  <1>3. CASE requeued # NoPacket /\ p = requeued /\ TakeHeld
    <2>1. internal' = internal /\ dropped' = dropped /\ arrived' = arrived
      BY <1>3 DEF TakeHeld
    <2>2. Pipeline' = Pipeline
      BY <1>1, <1>2, <1>3, <2>1
    <2>q. QED
      BY <2>1, <2>2, SameOrder
  <1>4. ASSUME requeued = NoPacket, NEW k \in 0..Len(internal), DoDequeue(p, k, FALSE)
        PROVE  OrderInv'
    <2>1. Front' = IF p = NoPacket THEN Front ELSE Append(Front, p)
      BY <1>1, <1>2, <1>4
    <2>q. QED
      BY <1>4, <2>1, DoDequeueOrder
  <1>q. QED
    BY <1>3, <1>4 DEF Extract

(* A packet is dequeued and held. *)
LEMMA PeekOrder ==
  ASSUME QueueDiscAssumption, CountersType, OrderInv, Peek
  PROVE  OrderInv'
  <1>1. PICK k \in 0..Len(internal), p \in Packets \cup {NoPacket} :
          DoDequeue(p, k, TRUE) /\ requeued' = p
    BY DEF Peek
  <1>2. requeued = NoPacket /\ sent' = sent
    BY DEF Peek, PeekDequeues
  <1>3. sent \in Seq(Packets) /\ Front = sent
    BY <1>2, FrontIs DEF CountersType
  <1>4. Front' = IF p = NoPacket THEN Front ELSE Append(Front, p)
    <2>1. CASE p = NoPacket
      <3>1. Front' = sent \o <<>>
        BY <1>1, <1>2, <2>1 DEF Front, Held
      <3>q. QED
        BY <1>3, <2>1, <3>1, Extension
    <2>2. CASE p # NoPacket
      <3>1. Front' = sent \o <<p>> /\ p \in Packets
        BY <1>1, <1>2, <2>2 DEF Front, Held
      <3>q. QED
        BY <1>3, <2>2, <3>1, Extension
    <2>q. QED
      BY <2>1, <2>2
  <1>q. QED
    BY <1>1, <1>4, DoDequeueOrder

(* Every step keeps the order and loses nothing. *)
LEMMA NextOrder ==
  ASSUME QueueDiscAssumption, CountersType, RestType, OrderInv, [Next]_vars
  PROVE  OrderInv'
  <1>1. ASSUME NEW p \in Packets, Enqueue(p) PROVE OrderInv'
    BY <1>1, EnqueueOrder
  <1>2. CASE Peek
    BY <1>2, PeekOrder
  <1>3. CASE Dequeue
    <2>1. PICK p \in Packets \cup {NoPacket} :
            /\ Extract(p)
            /\ sent' = IF p = NoPacket THEN sent ELSE Append(sent, p)
      BY <1>3 DEF Dequeue
    <2>2. requeued' = NoPacket
      BY <1>3 DEF Dequeue, ReleaseHeld
    <2>3. \/ p # NoPacket /\ requeued' = NoPacket /\ sent' = Append(sent, p)
          \/ requeued' = p /\ sent' = sent
      BY <2>1, <2>2
    <2>q. QED
      BY <2>1, <2>3, ExtractOrder
  <1>4. ASSUME UNCHANGED <<discVars, arrived, sent>> PROVE OrderInv'
    <2>1. Pipeline' = Pipeline /\ dropped' = dropped /\ arrived' = arrived
      BY <1>4 DEF discVars, Pipeline, Held
    <2>q. QED
      BY <2>1, SameOrder
  <1>5. CASE RestartNothing
    <2>1. CASE HeldBack /\ UNCHANGED <<discVars, arrived>>
      BY <1>4, <1>5, <2>1 DEF RestartNothing
    <2>2. CASE DequeuePacket(NoPacket) /\ UNCHANGED requeued
      <3>1. Extract(NoPacket) /\ sent' = sent /\ requeued' = NoPacket
        BY <1>5, <2>2 DEF RestartNothing, DequeuePacket, Extract
      <3>q. QED
        BY <3>1, ExtractOrder
    <2>q. QED
      BY <1>5, <2>1, <2>2 DEF RestartNothing
  <1>6. ASSUME NEW p \in Packets, RestartRequeue(p) PROVE OrderInv'
    <2>1. Extract(p) /\ requeued' = p /\ sent' = sent
      BY <1>6 DEF RestartRequeue, DequeuePacket, Requeue
    <2>q. QED
      BY <2>1, ExtractOrder
  <1>7. ASSUME NEW p \in Packets, RestartSend(p) PROVE OrderInv'
    <2>1. Extract(p) /\ requeued' = NoPacket /\ sent' = Append(sent, p) /\ p # NoPacket
      BY <1>7 DEF RestartSend, DequeuePacket, ReleaseHeld, QueueDiscAssumption
    <2>q. QED
      BY <2>1, ExtractOrder
  <1>8. ASSUME NEW i \in TxQueues, DeviceWake(i) PROVE OrderInv'
    BY <1>4, <1>8 DEF DeviceWake
  <1>9. CASE WakeCallback
    BY <1>4, <1>9 DEF WakeCallback
  <1>10. CASE UNCHANGED vars
    BY <1>4, <1>10 DEF vars
  <1>q. QED
    BY <1>1, <1>2, <1>3, <1>5, <1>6, <1>7, <1>8, <1>9, <1>10 DEF Next, Restart

-----------------------------------------------------------------------------
(* The order of the pipeline, its completeness, and that all of it arrived. *)
THEOREM OrderCorrect == Spec => []OrderInv
  <1>1. Init => OrderInv
    <2> SUFFICES ASSUME Init PROVE OrderInv
      OBVIOUS
    <2>1. Len(Pipeline) = 0 /\ Len(arrived) = 0
      <3>1. Pipeline = (<<>> \o <<>>) \o <<>>
        BY DEF Init, Pipeline, Held
      <3>2. Pipeline = <<>>
        BY <3>1
      <3>q. QED
        BY <3>2 DEF Init
    <2>q. QED
      BY <2>1 DEF OrderInv, AllArrived, FifoOrder, NoLoss
  <1>2. CInv /\ RestType /\ OrderInv /\ [Next]_vars => OrderInv'
    BY QueueDiscAssumption, NextOrder DEF CInv
  <1>q. QED
    BY <1>1, <1>2, Inductive, PTL DEF Spec

(* Peeking, requeuing and dropping at the head never reorder packets and    *)
(* never duplicate one.                                                     *)
THEOREM FifoCorrect == Spec => []FifoOrder
  <1>1. OrderInv => FifoOrder
    BY DEF OrderInv
  <1>q. QED
    BY <1>1, OrderCorrect, PTL

(* No packet that Enqueue accepted vanishes without being reported.         *)
THEOREM CompleteCorrect == Spec => []NoLoss
  <1>1. OrderInv => NoLoss
    BY DEF OrderInv
  <1>q. QED
    BY <1>1, OrderCorrect, PTL

-----------------------------------------------------------------------------
(* No stall                                                                  *)

(* The last run did not end because its quota was used up: a quota of 0      *)
(* never is, and any other is at 0 only then.                                *)
QuotaLeft == Quota = 0 \/ quota # 0

(* Run loops only while its quota lasts, and what it leaves behind when it   *)
(* ends otherwise waits for a stopped queue.                                 *)
StallInv == (running => QuotaLeft) /\ (QuotaLeft => NoStall)

(* What NoStall asks for between runs. *)
WaitsForQueue ==
  /\ requeued # NoPacket /\ ~peeked => stopped[TxQueueOf[requeued]]
  /\ nPackets > 0 => \E i \in TxQueues : stopped[i]

(* A root queue disc between runs, with no run to come. *)
Idle == IsRoot /\ ~running /\ wakes = 0

(* In these terms. *)
LEMMA StallParts ==
  /\ NoStall <=> (Idle => WaitsForQueue)
  /\ StallInv <=> (running => QuotaLeft) /\ (QuotaLeft /\ Idle => WaitsForQueue)
  BY DEF NoStall, Idle, WaitsForQueue, StallInv

(* A run that begins has its whole quota. *)
LEMMA BeginStall == ASSUME QueueDiscAssumption, RunBegin PROVE StallInv'
  <1>1. running' = TRUE /\ quota' = Quota
    BY DEF RunBegin
  <1>q. QED
    BY <1>1 DEF QuotaLeft, StallInv, NoStall

(* Peek, which takes packets out of the queue disc or out of its count. *)
LEMMA PeekStall == ASSUME CInv, CInv', StallInv, Peek PROVE StallInv'
  <1>1. PICK k \in 0..Len(internal), p \in Packets \cup {NoPacket} :
          DoDequeue(p, k, TRUE) /\ requeued' = p /\ peeked' = (p # NoPacket)
    BY DEF Peek
  <1>2. UNCHANGED <<running, quota, stopped, wakes>> /\ (requeued' = NoPacket \/ peeked')
    BY <1>1 DEF Peek, runVars
  <1>3. nPackets' = nPackets - k /\ nPackets \in Nat /\ nPackets' \in Nat /\ k \in Nat
    BY <1>1 DEF DoDequeue, PacketsDequeued, NTaken, CInv, CountersType
  <1>4. nPackets' > 0 => nPackets > 0
    BY <1>3
  <1>q. QED
    BY <1>2, <1>4 DEF StallInv, QuotaLeft, NoStall

(* Restart returns false: a stopped queue held the packets back, or there    *)
(* are none left.                                                            *)
LEMMA NothingStall == ASSUME CInv, CInv', StallInv, RestartNothing PROVE StallInv'
  <1>1. running /\ ~running' /\ UNCHANGED <<quota, stopped, wakes>>
    BY DEF RestartNothing, RunEnd
  <1>2. QuotaLeft' <=> QuotaLeft
    BY <1>1 DEF QuotaLeft
  <1>3. CASE HeldBack /\ UNCHANGED <<discVars, arrived>>
    <2>1. UNCHANGED <<requeued, peeked, nPackets>>
      BY <1>3 DEF discVars
    <2>2. WaitsForQueue
      <3>1. requeued # NoPacket => stopped[TxQueueOf[requeued]] /\ requeued \in Packets
        BY <1>3 DEF HeldBack, CInv, CountersType, Maybe
      <3>2. requeued # NoPacket => \E i \in TxQueues : stopped[i]
        BY <3>1, QueueDiscAssumption DEF QueueDiscAssumption
      <3>3. requeued = NoPacket => \E i \in TxQueues : stopped[i]
        BY <1>3 DEF HeldBack, MayDequeue
      <3>q. QED
        BY <3>1, <3>2, <3>3 DEF WaitsForQueue
    <2>3. WaitsForQueue'
      BY <1>1, <2>1, <2>2 DEF WaitsForQueue
    <2>q. QED
      BY <1>1, <2>3 DEF StallInv, NoStall, WaitsForQueue
  <1>4. CASE DequeuePacket(NoPacket) /\ UNCHANGED requeued
    <2>1. Extract(NoPacket)
      BY <1>4 DEF DequeuePacket
    <2>2. requeued = NoPacket /\ requeued' = NoPacket
      BY <1>4, <2>1 DEF Extract
    <2>3. PICK k \in 0..Len(internal) : DoDequeue(NoPacket, k, FALSE)
      BY <2>1, <2>2 DEF Extract
    <2>4. internal' = <<>>
      BY <2>3, DoDequeueEffect, QueueDiscAssumption
      DEF CInv, CountersType, QueueDiscAssumption
    <2>5. ~peeked' /\ nPackets' = 0
      <3>1. nPackets' = Len(internal') + (IF peeked' THEN 1 ELSE 0) /\ ~peeked'
        BY <2>2 DEF CInv, BacklogExact, PeekedIsHeld
      <3>q. QED
        BY <2>4, <3>1
    <2>6. WaitsForQueue'
      BY <2>2, <2>5 DEF WaitsForQueue
    <2>q. QED
      BY <1>1, <2>6 DEF StallInv, NoStall, WaitsForQueue
  <1>q. QED
    BY <1>3, <1>4 DEF RestartNothing

(* The packet is requeued: its queue is stopped. *)
LEMMA RequeueStall ==
  ASSUME StallInv, NEW p \in Packets, RestartRequeue(p) PROVE StallInv'
  <1>1. ~running' /\ requeued' = p /\ stopped' = stopped /\ stopped[TxQueueOf[p]]
    BY DEF RestartRequeue, RunEnd, Requeue
  <1>2. TxQueueOf[p] \in TxQueues
    BY QueueDiscAssumption DEF QueueDiscAssumption
  <1>3. WaitsForQueue'
    BY <1>1, <1>2 DEF WaitsForQueue
  <1>q. QED
    BY <1>1, <1>3 DEF StallInv, NoStall, WaitsForQueue

(* The packet is sent: the loop goes on unless its queue is full, nothing is *)
(* left or the quota is used up.                                             *)
LEMMA SendStall ==
  ASSUME CInv, CInv', RestType, StallInv, NEW p \in Packets, RestartSend(p)
  PROVE  StallInv'
  <1>1. PICK full \in BOOLEAN, woken \in BOOLEAN :
          /\ DeviceTakes(TxQueueOf[p], full, woken)
          /\ IF RunGoesOn(full) THEN RunContinue ELSE RunEnd
    BY DEF RestartSend
  <1>2. running /\ requeued' = NoPacket /\ TxQueueOf[p] \in TxQueues
    BY QueueDiscAssumption DEF RestartSend, ReleaseHeld, QueueDiscAssumption
  <1>3. nPackets' \in Nat /\ quota \in Nat /\ Quota \in Nat /\ quota <= Quota
    BY QueueDiscAssumption DEF CInv, CountersType, RestType, QueueDiscAssumption
  <1>4. CASE RunGoesOn(full)
    <2>1. quota' = IF quota = 0 THEN 0 ELSE quota - 1
      BY <1>1, <1>4 DEF RunContinue
    <2>2. (running' => quota # 1) /\ (~running' => quota = 1)
      <3>1. running' = (quota # 1)
        BY <1>1, <1>4 DEF RunContinue
      <3>q. QED
        BY <3>1, Zenon
    <2>3. QuotaLeft
      BY <1>2 DEF StallInv
    <2>4. running' => QuotaLeft'
      BY <1>3, <2>1, <2>3, <2>2 DEF QuotaLeft
    <2>5. ~running' => ~QuotaLeft'
      BY <1>3, <2>1, <2>2 DEF QuotaLeft
    <2>q. QED
      BY <2>4, <2>5 DEF StallInv, NoStall
  <1>5. CASE ~RunGoesOn(full)
    <2>1. ~running' /\ quota' = quota
      BY <1>1, <1>5 DEF RunEnd
    <2>2. nPackets' > 0 => \E i \in TxQueues : stopped'[i]
      <3>1. nPackets' = 0 \/ full
        BY <1>5 DEF RunGoesOn
      <3>2. stopped' = [stopped EXCEPT ![TxQueueOf[p]] = full] /\ stopped \in [TxQueues -> BOOLEAN]
        BY <1>1 DEF DeviceTakes, RestType
      <3>3. full => stopped'[TxQueueOf[p]]
        BY <1>2, <3>2
      <3>q. QED
        BY <1>2, <1>3, <3>1, <3>3
    <2>3. WaitsForQueue'
      BY <1>2, <2>2 DEF WaitsForQueue
    <2>q. QED
      BY <2>1, <2>3 DEF StallInv, NoStall, WaitsForQueue
  <1>q. QED
    BY <1>4, <1>5

(* Every step keeps the invariant. *)
LEMMA NextStall ==
  ASSUME CInv, CInv', RestType, StallInv, [Next]_vars
  PROVE  StallInv'
  <1>1. CASE UNCHANGED vars
    BY <1>1 DEF vars, discVars, runVars, StallInv, QuotaLeft, NoStall
  <1>2. CASE \E p \in Packets : Enqueue(p)
    <2>1. CASE IsRoot
      BY <1>2, <2>1, BeginStall, QueueDiscAssumption DEF Enqueue
    <2>2. CASE ~IsRoot
      BY <1>2, <2>2 DEF Enqueue, runVars, StallInv, QuotaLeft, NoStall
    <2>q. QED
      BY <2>1, <2>2
  <1>3. CASE Dequeue
    BY <1>3 DEF Dequeue, runVars, StallInv, QuotaLeft, NoStall
  <1>4. CASE \E i \in TxQueues : DeviceWake(i)
    <2>1. wakes' # 0 /\ UNCHANGED <<running, quota>>
      <3>1. wakes' = wakes + 1 /\ wakes \in Nat
        BY <1>4, QueueDiscAssumption DEF DeviceWake, ScheduleWake, RestType, QueueDiscAssumption
      <3>q. QED
        BY <1>4, <3>1 DEF DeviceWake, runVars
    <2>q. QED
      BY <2>1 DEF StallInv, QuotaLeft, NoStall
  <1>5. CASE WakeCallback
    BY <1>5, BeginStall, QueueDiscAssumption DEF WakeCallback
  <1>6. CASE Peek \/ Restart
    BY <1>6, PeekStall, NothingStall, RequeueStall, SendStall DEF Restart
  <1>q. QED
    BY <1>1, <1>2, <1>3, <1>4, <1>5, <1>6 DEF Next

(* For every quota: unless the last run used up its quota, nothing that      *)
(* could be sent is left behind between runs (Run, Restart, Transmit).       *)
THEOREM StallOnlyByQuota == Spec => [](QuotaLeft => NoStall)
  <1>1. Init => StallInv
    BY DEF Init, StallInv, NoStall
  <1>2. CInv /\ RestType /\ StallInv /\ [Next]_vars /\ (CInv /\ RestType)' => StallInv'
    BY NextStall
  <1>3. StallInv => (QuotaLeft => NoStall)
    BY DEF StallInv
  <1>q. QED
    BY <1>1, <1>2, <1>3, Inductive, PTL DEF Spec

(* With the quota that never runs out nothing is ever left behind. *)
THEOREM NoStallCorrect == ASSUME Quota = 0 PROVE Spec => []NoStall
  <1>1. (QuotaLeft => NoStall) => NoStall
    BY DEF QuotaLeft
  <1>q. QED
    BY <1>1, StallOnlyByQuota, PTL
=============================================================================
