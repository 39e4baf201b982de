---------------------------- MODULE TxPathProofs ----------------------------
(***************************************************************************)
(* The transmission path and the link below it, for any packets, sizes,    *)
(* quota and limit of the device queue.                                    *)
(*                                                                         *)
(* First the link alone (PointToPointLink, which TxPath extends): its      *)
(* types, its flow control, and that a stopped queue is not empty.         *)
(*                                                                         *)
(* Then the composition: its steps are steps of the queue disc, of the     *)
(* link and of a pipe that delivers in order (FifoPipe), and the link does *)
(* not idle while the queue disc holds a packet.                           *)
(***************************************************************************)
EXTENDS TxPath, TLAPS

(* The most that a packet takes of the device queue. *)
Unit == IF ByteMode THEN Mtu + PppHeader ELSE 1

(* The device queue has room for one packet of any size. *)
FitsOne == Unit <= MaxSize

(* The costs of the packets of q add up to u: g[i] is what the packets       *)
(* before position i take.                                                   *)
SumsTo(q, u) ==
  \E g \in [1..Len(q) + 1 -> 0..u] :
    /\ g[1] = 0 /\ g[Len(q) + 1] = u
    /\ \A i \in 1..Len(q) : g[i + 1] = g[i] + Cost(q[i])
    /\ \A i, k \in 1..Len(q) + 1 : i <= k => g[i] <= g[k]

(* Nothing waits in the device queue while the device is idle. *)
IdleIsEmpty == txState = "READY" => devQueue = <<>>

(* A queue is stopped only if the next packet may not fit. *)
StoppedIsLow == stopped => used + Unit > MaxSize

(* A queue that is open has room, as its flow control understands room.      *)
OpenHasRoom == ~stopped => ~NoRoom(used)

(* No packet takes more than the flow control leaves room for: true of a     *)
(* queue limited in packets, and in bytes if the header is within the MTU.   *)
CostsCovered == ByteMode => \A p \in Packets : SizeOf[p] + PppHeader <= Mtu

(* The inductive invariant of the link. *)
LinkInv == LinkTypeOK /\ SumsTo(devQueue, used) /\ IdleIsEmpty /\ StoppedIsLow

-----------------------------------------------------------------------------
(* Costs                                                                     *)

(* What a packet takes, and when there is no room. *)
LEMMA Costs ==
  /\ Unit \in Nat /\ MaxSize \in Nat \ {0}
  /\ \A p \in Packets : Cost(p) \in Nat /\ Cost(p) <= Unit
  /\ \A u \in Nat : NoRoom(u) => u + Unit > MaxSize
  /\ FitsOne => ~NoRoom(0)
  <1>1. /\ Mtu \in Nat /\ PppHeader \in Nat /\ MaxSize \in Nat \ {0}
        /\ \A p \in Packets : SizeOf[p] \in Nat /\ SizeOf[p] <= Mtu
    BY LinkAssumption DEF LinkAssumption
  <1>2. CASE ByteMode
    BY <1>1, <1>2 DEF Unit, FitsOne, Cost, NoRoom
  <1>3. CASE ~ByteMode
    BY <1>1, <1>3 DEF Unit, FitsOne, Cost, NoRoom
  <1>q. QED
    BY <1>2, <1>3

(* The empty queue takes nothing. *)
LEMMA EmptySum ==
  /\ SumsTo(<<>>, 0)
  /\ \A u \in Nat : SumsTo(<<>>, u) => u = 0
  <1>1. Len(<<>>) = 0
    OBVIOUS
  <1>2. SumsTo(<<>>, 0)
    <2> DEFINE g == [i \in 1..1 |-> 0]
    <2>1. /\ g \in [1..Len(<<>>) + 1 -> 0..0]
          /\ g[1] = 0 /\ g[Len(<<>>) + 1] = 0
          /\ \A i \in 1..Len(<<>>) : g[i + 1] = g[i] + Cost(<<>>[i])
          /\ \A i, k \in 1..Len(<<>>) + 1 : i <= k => g[i] <= g[k]
      BY <1>1
    <2> HIDE DEF g
    <2>q. QED
      BY <2>1 DEF SumsTo
  <1>3. \A u \in Nat : SumsTo(<<>>, u) => u = 0
    BY <1>1 DEF SumsTo
  <1>q. QED
    BY <1>2, <1>3

(* One more packet. *)
LEMMA AppendSum ==
  ASSUME NEW q \in Seq(Packets), NEW u \in Nat, SumsTo(q, u), NEW p \in Packets
  PROVE  SumsTo(Append(q, p), u + Cost(p))
  <1> DEFINE n == Len(q)
             c == Cost(p)
  <1>1. n \in Nat /\ c \in Nat
    BY Costs
  <1>2. PICK g \in [1..n + 1 -> 0..u] :
          /\ g[1] = 0 /\ g[n + 1] = u
          /\ \A i \in 1..n : g[i + 1] = g[i] + Cost(q[i])
          /\ \A i, k \in 1..n + 1 : i <= k => g[i] <= g[k]
    BY DEF SumsTo
  <1>3. /\ Len(Append(q, p)) = n + 1
        /\ Append(q, p)[n + 1] = p
        /\ \A i \in 1..n : Append(q, p)[i] = q[i]
    OBVIOUS
  <1> DEFINE h == [i \in 1..(n + 1) + 1 |-> IF i <= n + 1 THEN g[i] ELSE u + c]
  <1> HIDE DEF n, c
  <1>4. h \in [1..(n + 1) + 1 -> 0..u + c]
    BY <1>1
  <1>5. h[1] = 0 /\ h[(n + 1) + 1] = u + c /\ \A i \in 1..n + 1 : h[i] = g[i]
    BY <1>1, <1>2
  <1>6. ASSUME NEW i \in 1..n + 1
        PROVE  h[i + 1] = h[i] + Cost(Append(q, p)[i])
    <2>1. CASE i \in 1..n
      <3>1. i + 1 \in 1..n + 1
        BY <1>1, <2>1
      <3>q. QED
        BY <1>2, <1>3, <1>5, <2>1, <3>1
    <2>2. CASE i = n + 1
      <3>1. n + 1 \in 1..n + 1
        BY <1>1
      <3>2. h[n + 1] = u /\ h[(n + 1) + 1] = u + c
        BY <1>2, <1>5, <3>1
      <3>3. Cost(Append(q, p)[n + 1]) = c
        BY <1>3 DEF c
      <3> HIDE DEF h
      <3>q. QED
        BY <2>2, <3>2, <3>3
    <2>3. i \in 1..n \/ i = n + 1
      BY <1>1
    <2>q. QED
      BY <2>1, <2>2, <2>3
  <1>7. ASSUME NEW i \in 1..(n + 1) + 1, NEW k \in 1..(n + 1) + 1, i <= k
        PROVE  h[i] <= h[k]
    BY <1>1, <1>2, <1>7
  <1> HIDE DEF h
  <1>q. QED
    BY <1>3, <1>4, <1>5, <1>6, <1>7 DEF SumsTo, c

(* One packet less. *)
LEMMA TailSum ==
  ASSUME NEW q \in Seq(Packets), q # <<>>, NEW u \in Nat, SumsTo(q, u)
  PROVE  /\ Cost(Head(q)) <= u
         /\ SumsTo(Tail(q), u - Cost(Head(q)))
  <1> DEFINE n == Len(q)
             c == Cost(Head(q))
  <1>1. n \in Nat /\ n >= 1 /\ c \in Nat /\ Head(q) = q[1]
    <2>1. n \in Nat /\ n >= 1 /\ Head(q) = q[1] /\ Head(q) \in Packets
      OBVIOUS
    <2>q. QED
      BY <2>1, Costs
  <1>2. PICK g \in [1..n + 1 -> 0..u] :
          /\ g[1] = 0 /\ g[n + 1] = u
          /\ \A i \in 1..n : g[i + 1] = g[i] + Cost(q[i])
          /\ \A i, k \in 1..n + 1 : i <= k => g[i] <= g[k]
    BY DEF SumsTo
  <1>3. /\ Len(Tail(q)) = n - 1
        /\ \A i \in 1..n - 1 : Tail(q)[i] = q[i + 1]
    OBVIOUS
  <1> DEFINE h == [i \in 1..(n - 1) + 1 |-> g[i + 1] - c]
  <1> HIDE DEF n, c
  <1>4. 1 \in 1..n /\ 1 + 1 \in 1..n + 1
    BY <1>1
  <1>5. g[2] = c
    BY <1>1, <1>2, <1>4 DEF c
  <1>6. ASSUME NEW i \in 1..n
        PROVE  g[i + 1] \in 0..u /\ c <= g[i + 1] /\ h[i] = g[i + 1] - c
    <2>1. 2 \in 1..n + 1 /\ i + 1 \in 1..n + 1 /\ 2 <= i + 1
      BY <1>1
    <2>q. QED
      BY <1>1, <1>2, <1>5, <2>1
  <1>7. c <= u
    BY <1>1, <1>2, <1>6
  <1>8. h \in [1..(n - 1) + 1 -> 0..u - c]
    BY <1>1, <1>6, <1>7
  <1>9. h[1] = 0 /\ h[(n - 1) + 1] = u - c
    BY <1>1, <1>2, <1>5, <1>6
  <1>10. ASSUME NEW i \in 1..n - 1
         PROVE  h[i + 1] = h[i] + Cost(Tail(q)[i])
    <2>1. /\ i \in 1..n /\ i + 1 \in 1..n
          /\ g[i + 1] \in 0..u /\ g[(i + 1) + 1] \in 0..u /\ q[i + 1] \in Packets
      <3>1. i \in 1..n /\ i + 1 \in 1..n
        BY <1>1
      <3>q. QED
        BY <1>6, <3>1 DEF n
    <2>2. g[(i + 1) + 1] = g[i + 1] + Cost(q[i + 1]) /\ Cost(q[i + 1]) \in Nat
      BY <1>2, <2>1, Costs
    <2>q. QED
      BY <1>1, <1>3, <1>6, <2>1, <2>2
  <1>11. ASSUME NEW i \in 1..(n - 1) + 1, NEW k \in 1..(n - 1) + 1, i <= k
         PROVE  h[i] <= h[k]
    <2>1. /\ i \in 1..n /\ k \in 1..n
          /\ i + 1 \in 1..n + 1 /\ k + 1 \in 1..n + 1 /\ i + 1 <= k + 1
      BY <1>1, <1>11
    <2>2. g[i + 1] <= g[k + 1]
      BY <1>2, <2>1
    <2>q. QED
      BY <1>1, <1>6, <2>1, <2>2
  <1> HIDE DEF h
  <1>q. QED
    BY <1>3, <1>7, <1>8, <1>9, <1>10, <1>11 DEF SumsTo, c

-----------------------------------------------------------------------------
(* The link                                                                  *)

(* The initial states satisfy the invariant. *)
LEMMA InitLink ==
  ASSUME LinkInit
  PROVE  LinkInv /\ NoDiscard /\ (FitsOne => OpenHasRoom)
  <1>1. LinkTypeOK
    <2>1. devQueue \in Seq(Packets) /\ wire \in Seq(Packets)
      BY DEF LinkInit
    <2>2. sent \in Seq(Packets) /\ received \in Seq(Packets)
      BY DEF LinkInit
    <2>3. used \in Nat /\ wakes \in Nat /\ {stopped, hasCallback} \subseteq BOOLEAN
      BY DEF LinkInit
    <2>q. QED
      BY <2>1, <2>2, <2>3 DEF LinkInit, LinkTypeOK
  <1>2. SumsTo(devQueue, used)
    BY EmptySum DEF LinkInit
  <1>3. IdleIsEmpty /\ StoppedIsLow /\ NoDiscard
    BY DEF LinkInit, IdleIsEmpty, StoppedIsLow, NoDiscard
  <1>4. FitsOne => OpenHasRoom
    BY Costs DEF LinkInit, OpenHasRoom
  <1>q. QED
    BY <1>1, <1>2, <1>3, <1>4 DEF LinkInv

(* More in the queue is less room. *)
LEMMA RoomShrinks ==
  ASSUME NEW u \in Nat, NEW v \in Nat, u <= v, NoRoom(u)
  PROVE  NoRoom(v)
  <1>1. Mtu \in Nat /\ MaxSize \in Nat
    BY LinkAssumption DEF LinkAssumption
  <1>q. QED
    BY <1>1 DEF NoRoom

(* The dequeue trace, with v packets or bytes left: stopped afterwards only  *)
(* if there is no room.                                                      *)
LEMMA DequeuedFlow ==
  ASSUME NEW v \in Nat, used' = v, NEW was \in BOOLEAN,
         PacketDequeued(was), wakes \in Nat, hasCallback \in BOOLEAN
  PROVE  /\ stopped' \in BOOLEAN /\ wakes' \in Nat
         /\ stopped' => was /\ NoRoom(v)
         /\ ~stopped' => ~was \/ ~NoRoom(v)
  <1>1. CASE NoRoom(v)
    <2>1. stopped' = was /\ wakes' = wakes
      BY <1>1 DEF PacketDequeued
    <2>2. stopped' \in BOOLEAN /\ wakes' \in Nat
      BY <2>1
    <2>3. stopped' <=> was
      BY <2>1
    <2>q. QED
      BY <1>1, <2>2, <2>3, Zenon
  <1>2. CASE ~NoRoom(v)
    <2>1. stopped' = FALSE /\ wakes' = wakes + (IF was /\ hasCallback THEN 1 ELSE 0)
      BY <1>2 DEF PacketDequeued, Wake
    <2>2. stopped' \in BOOLEAN
      BY <2>1
    <2>3. ~stopped'
      BY <2>1
    <2>4. (IF was /\ hasCallback THEN 1 ELSE 0) \in Nat
      OBVIOUS
    <2>5. wakes' \in Nat
      BY <2>1, <2>4
    <2>q. QED
      BY <1>2, <2>2, <2>3, <2>5, Zenon
  <1>q. QED
    BY <1>1, <1>2

(* A packet that does not fit: the queue is stopped. *)
LEMMA DiscardedFlow ==
  ASSUME LinkInv, NEW p \in Packets, SendDiscarded(p),
         sent' = Append(sent, p), UNCHANGED hasCallback
  PROVE  LinkInv' /\ OpenHasRoom'
  <1>1. /\ stopped' = TRUE /\ discarded' = discarded \cup {p}
        /\ UNCHANGED <<devQueue, used, txState, current, wakes, wire, received, corrupted>>
    BY DEF SendDiscarded, queueVars, txVars, rxVars
  <1>2. LinkTypeOK'
    BY <1>1 DEF LinkInv, LinkTypeOK
  <1>3. used + Unit > MaxSize
    <2>1. used \in Nat /\ used + Cost(p) > MaxSize
      BY DEF SendDiscarded, Overflows, LinkInv, LinkTypeOK
    <2>q. QED
      BY <2>1, Costs
  <1>4. SumsTo(devQueue, used)' /\ IdleIsEmpty'
    BY <1>1 DEF LinkInv, SumsTo, IdleIsEmpty
  <1>5. StoppedIsLow' /\ OpenHasRoom'
    BY <1>1, <1>3 DEF StoppedIsLow, OpenHasRoom, Unit
  <1>q. QED
    BY <1>2, <1>4, <1>5 DEF LinkInv

(* A packet enqueued behind the one that is being transmitted. *)
LEMMA QueuedFlow ==
  ASSUME LinkInv, NEW p \in Packets, SendQueued(p),
         sent' = Append(sent, p), UNCHANGED hasCallback
  PROVE  LinkInv' /\ (OpenHasRoom => OpenHasRoom')
  <1> DEFINE c == Cost(p)
  <1>1. /\ devQueue' = Append(devQueue, p) /\ used' = used + c
        /\ txState = "BUSY" /\ stopped' = (stopped \/ NoRoom(used'))
        /\ UNCHANGED <<txState, current, wakes, wire, discarded, received, corrupted>>
    BY DEF SendQueued, Inserted, UsedWith, PacketEnqueued,
           txVars, rxVars
  <1>2. devQueue \in Seq(Packets) /\ used \in Nat /\ c \in Nat /\ stopped \in BOOLEAN
    BY Costs DEF LinkInv, LinkTypeOK
  <1> HIDE DEF c
  <1>3. devQueue' \in Seq(Packets) /\ used' \in Nat /\ used <= used'
    BY <1>1, <1>2
  <1>4. NoRoom(used') \in BOOLEAN /\ stopped' \in BOOLEAN
    BY <1>1, <1>2 DEF NoRoom
  <1>5. LinkTypeOK'
    <2>1. sent' \in Seq(Packets) /\ {stopped', hasCallback'} \subseteq BOOLEAN
      BY <1>4 DEF LinkInv, LinkTypeOK
    <2>q. QED
      BY <1>1, <1>3, <2>1 DEF LinkInv, LinkTypeOK
  <1>6. SumsTo(devQueue, used)'
    <2>1. SumsTo(Append(devQueue, p), used + c)
      BY <1>2, AppendSum DEF LinkInv, c
    <2>2. SumsTo(devQueue', used')
      BY <1>1, <2>1
    <2>q. QED
      BY <2>2 DEF SumsTo
  <1>7. IdleIsEmpty'
    BY <1>1 DEF IdleIsEmpty
  <1>8. StoppedIsLow'
    <2>1. CASE stopped
      <3>1. used + Unit > MaxSize
        BY <2>1 DEF LinkInv, StoppedIsLow
      <3>2. used' + Unit > MaxSize
        <4>1. Unit \in Nat /\ MaxSize \in Nat
          BY Costs
        <4>2. used \in Nat /\ used' \in Nat /\ used <= used'
          BY <1>2, <1>3
        <4>3. \A u, v, w, m \in Nat : u <= v /\ u + w > m => v + w > m
          OBVIOUS
        <4>q. QED
          BY <3>1, <4>1, <4>2, <4>3, Zenon
      <3>q. QED
        BY <3>2 DEF StoppedIsLow, Unit
    <2>2. CASE ~stopped
      <3>1. stopped' => used' + Unit > MaxSize
        BY <1>1, <1>3, <2>2, Costs
      <3>q. QED
        BY <3>1 DEF StoppedIsLow, Unit
    <2>q. QED
      BY <2>1, <2>2
  <1>9. OpenHasRoom'
    BY <1>1 DEF OpenHasRoom
  <1>q. QED
    BY <1>5, <1>6, <1>7, <1>8, <1>9 DEF LinkInv

(* A packet sent while the device is idle passes through the empty queue. *)
LEMMA NowFlow ==
  ASSUME LinkInv, NEW p \in Packets, SendNow(p),
         sent' = Append(sent, p), UNCHANGED hasCallback
  PROVE  LinkInv' /\ (FitsOne => OpenHasRoom')
  <1> DEFINE c == Cost(p)
  <1>1. devQueue = <<>> /\ used = 0
    <2>1. devQueue = <<>>
      BY DEF SendNow, LinkInv, IdleIsEmpty
    <2>q. QED
      BY <2>1, EmptySum DEF LinkInv, LinkTypeOK
  <1>2. Inserted(p) = <<p>> /\ Head(<<p>>) = p /\ Tail(<<p>>) = <<>>
    BY <1>1 DEF Inserted
  <1>3. c \in Nat
    BY Costs
  <1>4. devQueue' = <<>> /\ used' = 0
    <2>1. devQueue' = <<>> /\ used' = UsedWith(p) - c
      BY <1>2 DEF SendNow
    <2>q. QED
      BY <1>1, <1>3, <2>1 DEF UsedWith
  <1>5. txState' = "BUSY" /\ current' = p /\ wire' = Append(wire, p)
    BY <1>2 DEF SendNow, TransmitStart, Deliver
  <1>6. /\ stopped' \in BOOLEAN /\ wakes' \in Nat
        /\ stopped' => NoRoom(0)
        /\ ~stopped' => ~PacketEnqueued(UsedWith(p)) \/ ~NoRoom(0)
    <2>1. PacketEnqueued(UsedWith(p)) \in BOOLEAN
      BY DEF PacketEnqueued, NoRoom, LinkInv, LinkTypeOK
    <2>2. wakes \in Nat /\ hasCallback \in BOOLEAN
      BY DEF LinkInv, LinkTypeOK
    <2>3. PacketDequeued(PacketEnqueued(UsedWith(p)))
      BY DEF SendNow
    <2>q. QED
      BY <1>4, <2>1, <2>2, <2>3, DequeuedFlow
  <1>7. LinkTypeOK'
    <2>1. /\ sent' \in Seq(Packets) /\ wire' \in Seq(Packets)
          /\ {stopped', hasCallback'} \subseteq BOOLEAN
          /\ devQueue' \in Seq(Packets) /\ used' \in Nat
      BY <1>4, <1>5, <1>6 DEF LinkInv, LinkTypeOK
    <2>q. QED
      BY <1>5, <1>6, <2>1 DEF SendNow, rxVars, LinkInv, LinkTypeOK
  <1>8. SumsTo(devQueue, used)'
    <2>1. SumsTo(devQueue', used')
      BY <1>4, EmptySum
    <2>q. QED
      BY <2>1 DEF SumsTo
  <1>9. IdleIsEmpty'
    BY <1>5 DEF IdleIsEmpty
  <1>10. StoppedIsLow'
    <2>1. stopped' => used' + Unit > MaxSize
      BY <1>4, <1>6, Costs
    <2>q. QED
      BY <2>1 DEF StoppedIsLow, Unit
  <1>11. FitsOne => OpenHasRoom'
    BY <1>4, Costs DEF OpenHasRoom
  <1>q. QED
    BY <1>7, <1>8, <1>9, <1>10, <1>11 DEF LinkInv

(* Send, whatever the queue looks like. *)
LEMMA SendFlow ==
  ASSUME LinkInv, NEW p \in Packets, Send(p)
  PROVE  /\ LinkInv'
         /\ FitsOne /\ OpenHasRoom => OpenHasRoom'
  BY DiscardedFlow, QueuedFlow, NowFlow DEF Send

(* The end of a transmission: the next packet leaves the queue. *)
LEMMA NextPacketFlow ==
  ASSUME LinkInv, TransmitCompleteNext,
         UNCHANGED <<hasCallback, sent, discarded, received, corrupted>>
  PROVE  LinkInv' /\ (OpenHasRoom => OpenHasRoom')
  <1> DEFINE p == Head(devQueue)
             c == Cost(p)
  <1>1. /\ devQueue \in Seq(Packets) /\ devQueue # <<>> /\ used \in Nat
        /\ stopped \in BOOLEAN /\ hasCallback \in BOOLEAN /\ wakes \in Nat
        /\ wire \in Seq(Packets)
    BY DEF TransmitCompleteNext, QueueEmpty, LinkInv, LinkTypeOK
  <1>2. p \in Packets /\ Tail(devQueue) \in Seq(Packets)
    BY <1>1
  <1>3. /\ devQueue' = Tail(devQueue) /\ used' = used - c
        /\ txState' = "BUSY" /\ current' = p /\ wire' = Append(wire, p)
        /\ PacketDequeued(stopped)
    BY DEF TransmitCompleteNext, UsedWithout, TransmitStart, Deliver
  <1>4. c \in Nat /\ c <= used /\ SumsTo(Tail(devQueue), used - c)
    BY <1>1, <1>2, TailSum, Costs DEF LinkInv
  <1> HIDE DEF c
  <1>5. used - c \in Nat /\ used - c <= used
    BY <1>1, <1>4
  <1>6. /\ stopped' \in BOOLEAN /\ wakes' \in Nat
        /\ stopped' => stopped /\ NoRoom(used - c)
        /\ ~stopped' => ~stopped \/ ~NoRoom(used - c)
    BY <1>1, <1>3, <1>5, DequeuedFlow
  <1>7. LinkTypeOK'
    <2>1. wire' \in Seq(Packets) /\ {stopped', hasCallback'} \subseteq BOOLEAN
      BY <1>1, <1>2, <1>3, <1>6
    <2>q. QED
      BY <1>2, <1>3, <1>5, <1>6, <2>1 DEF LinkInv, LinkTypeOK
  <1>8. SumsTo(devQueue, used)'
    <2>1. SumsTo(devQueue', used')
      BY <1>3, <1>4
    <2>q. QED
      BY <2>1 DEF SumsTo
  <1>9. IdleIsEmpty'
    BY <1>3 DEF IdleIsEmpty
  <1>10. StoppedIsLow'
    <2>1. stopped' => used' + Unit > MaxSize
      BY <1>3, <1>5, <1>6, Costs
    <2>q. QED
      BY <2>1 DEF StoppedIsLow, Unit
  <1>11. ASSUME OpenHasRoom PROVE OpenHasRoom'
    <2>1. ASSUME ~stopped' PROVE ~NoRoom(used - c)
      <3>1. CASE ~stopped
        BY <1>1, <1>5, <1>11, <3>1, RoomShrinks DEF OpenHasRoom
      <3>q. QED
        BY <1>6, <2>1, <3>1
    <2>q. QED
      BY <1>3, <2>1 DEF OpenHasRoom, NoRoom
  <1>q. QED
    BY <1>7, <1>8, <1>9, <1>10, <1>11 DEF LinkInv

LEMMA CompleteFlow ==
  ASSUME LinkInv, TransmitComplete
  PROVE  LinkInv' /\ (OpenHasRoom => OpenHasRoom')
  <1>1. UNCHANGED <<hasCallback, sent, discarded, received, corrupted>>
    BY DEF TransmitComplete, rxVars
  <1>2. CASE TransmitCompleteIdle
    <2>1. /\ devQueue = <<>> /\ txState' = "READY" /\ current' = NoPacket
          /\ UNCHANGED <<devQueue, used, stopped, wakes, wire>>
      BY <1>2 DEF TransmitCompleteIdle, QueueEmpty, queueVars
    <2>2. LinkTypeOK'
      BY <1>1, <2>1 DEF LinkInv, LinkTypeOK
    <2>3. SumsTo(devQueue, used)' /\ IdleIsEmpty' /\ StoppedIsLow'
      BY <2>1 DEF LinkInv, SumsTo, IdleIsEmpty, StoppedIsLow, Unit
    <2>4. OpenHasRoom => OpenHasRoom'
      BY <2>1 DEF OpenHasRoom, NoRoom
    <2>q. QED
      BY <2>2, <2>3, <2>4 DEF LinkInv
  <1>3. CASE TransmitCompleteNext
    BY <1>1, <1>3, NextPacketFlow
  <1>q. QED
    BY <1>2, <1>3 DEF TransmitComplete

(* The receiver, the wake callback and its replacement leave the device      *)
(* queue alone.                                                              *)
LEMMA ElsewhereFlow ==
  ASSUME LinkInv, Receive \/ UpperWoken \/ SetWakeCallback
  PROVE  LinkInv' /\ (OpenHasRoom => OpenHasRoom')
  <1>1. UNCHANGED <<devQueue, used, txState, current, stopped, sent, discarded>>
    BY DEF Receive, UpperWoken, SetWakeCallback, queueVars, txVars
  <1>2. /\ wakes' \in Nat /\ {stopped', hasCallback'} \subseteq BOOLEAN
        /\ wire' \in Seq(Packets) /\ received' \in Seq(Packets) /\ corrupted' \subseteq Packets
    <2>1. /\ wakes \in Nat /\ {stopped, hasCallback} \subseteq BOOLEAN
          /\ wire \in Seq(Packets) /\ received \in Seq(Packets) /\ corrupted \subseteq Packets
      BY DEF LinkInv, LinkTypeOK
    <2>2. CASE Receive
      <3>1. /\ wire # <<>> /\ wire' = Tail(wire)
            /\ UNCHANGED <<wakes, hasCallback, stopped>>
        BY <2>2 DEF Receive
      <3>2. Head(wire) \in Packets /\ wire' \in Seq(Packets)
        BY <2>1, <3>1
      <3>3. CASE UNCHANGED corrupted /\ received' = Append(received, Head(wire))
        BY <2>1, <3>1, <3>2, <3>3
      <3>4. CASE UNCHANGED received /\ corrupted' = corrupted \cup {Head(wire)}
        BY <2>1, <3>1, <3>2, <3>4
      <3>q. QED
        BY <2>2, <3>3, <3>4 DEF Receive
    <2>3. CASE UpperWoken
      <3>1. wakes' \in Nat
        BY <2>1, <2>3 DEF UpperWoken
      <3>q. QED
        BY <2>1, <2>3, <3>1 DEF UpperWoken, rxVars
    <2>4. CASE SetWakeCallback
      BY <2>1, <2>4 DEF SetWakeCallback, rxVars
    <2>q. QED
      BY <2>2, <2>3, <2>4
  <1>3. LinkTypeOK'
    BY <1>1, <1>2 DEF LinkInv, LinkTypeOK
  <1>4. SumsTo(devQueue, used)' /\ IdleIsEmpty' /\ StoppedIsLow'
    BY <1>1 DEF LinkInv, SumsTo, IdleIsEmpty, StoppedIsLow, Unit
  <1>5. OpenHasRoom => OpenHasRoom'
    BY <1>1 DEF OpenHasRoom, NoRoom
  <1>q. QED
    BY <1>3, <1>4, <1>5 DEF LinkInv

(* Every step keeps the invariant, with a sender that may also ignore the    *)
(* stopped queue.                                                            *)
LEMMA NextFlow ==
  ASSUME LinkInv, [LinkNext]_linkVars
  PROVE  /\ LinkInv'
         /\ FitsOne /\ OpenHasRoom => OpenHasRoom'
  <1>1. ASSUME NEW p \in Packets, UpperSend(p)
        PROVE  LinkInv' /\ (FitsOne /\ OpenHasRoom => OpenHasRoom')
    BY <1>1, SendFlow DEF UpperSend
  <1>2. CASE TransmitComplete
    BY <1>2, CompleteFlow
  <1>3. CASE Receive \/ UpperWoken \/ SetWakeCallback
    BY <1>3, ElsewhereFlow
  <1>4. CASE UNCHANGED linkVars
    <2>1. LinkTypeOK'
      BY <1>4 DEF linkVars, LinkInv, LinkTypeOK
    <2>2. SumsTo(devQueue, used)' /\ IdleIsEmpty' /\ StoppedIsLow'
      BY <1>4 DEF linkVars, LinkInv, SumsTo, IdleIsEmpty, StoppedIsLow, Unit
    <2>3. OpenHasRoom => OpenHasRoom'
      BY <1>4 DEF linkVars, OpenHasRoom, NoRoom
    <2>q. QED
      BY <2>1, <2>2, <2>3 DEF LinkInv
  <1>q. QED
    BY <1>1, <1>2, <1>3, <1>4 DEF LinkNext

(* Whatever the unit and the sizes, every variable of a link keeps its type; *)
(* in particular the counter of the device queue, an unsigned number in the  *)
(* code, never goes below zero, because it is the sum of what its packets    *)
(* take.                                                                     *)
THEOREM LinkTypeCorrect == LinkSpec => []LinkTypeOK
  <1>1. LinkInit => LinkInv
    BY InitLink
  <1>2. LinkInv /\ [LinkNext]_linkVars => LinkInv'
    BY NextFlow
  <1>3. LinkInv => LinkTypeOK
    BY DEF LinkInv
  <1>q. QED
    BY <1>1, <1>2, <1>3, PTL DEF LinkSpec

(* A device queue with room for one packet of any size is never empty while  *)
(* it is stopped: there is a packet whose dequeue wakes the upper layers.    *)
THEOREM StoppedCorrect == ASSUME FitsOne PROVE LinkSpec => []StoppedHasPackets
  <1>1. LinkInit => LinkInv
    BY InitLink
  <1>2. LinkInv /\ [LinkNext]_linkVars => LinkInv'
    BY NextFlow
  <1>3. LinkInv => StoppedHasPackets
    <2> SUFFICES ASSUME LinkInv, stopped, devQueue = <<>> PROVE FALSE
      BY DEF StoppedHasPackets
    <2>1. used = 0
      BY EmptySum DEF LinkInv, LinkTypeOK
    <2>2. 0 + Unit > MaxSize
      BY <2>1 DEF LinkInv, StoppedIsLow
    <2>q. QED
      BY <2>2, Costs DEF FitsOne
  <1>q. QED
    BY <1>1, <1>2, <1>3, PTL DEF LinkSpec

(* The flow control works: if no packet takes more than it leaves room for   *)
(* (CostsCovered, always true of a queue limited in packets), a sender that  *)
(* respects the stopped queue never has a packet discarded.  In bytes the    *)
(* header has to fit into the MTU: NetDeviceQueue leaves room for the MTU,   *)
(* the device queue counts the header too.                                   *)
THEOREM FlowControlCorrect ==
  ASSUME FitsOne, CostsCovered
  PROVE  LinkSpec => []NoDiscard
  <1> DEFINE Flow == LinkInv /\ OpenHasRoom /\ NoDiscard
  <1>1. LinkInit => Flow
    BY InitLink
  <1>2. Flow /\ [LinkNext]_linkVars => Flow'
    <2> SUFFICES ASSUME LinkInv, OpenHasRoom, NoDiscard, [LinkNext]_linkVars
                 PROVE  NoDiscard'
      BY NextFlow
    <2>1. ASSUME NEW p \in Packets, UpperSend(p) PROVE NoDiscard'
      <3>1. ~NoRoom(used)
        BY <2>1 DEF UpperSend, OpenHasRoom
      <3>2. ~Overflows(p)
        <4>1. /\ used \in Nat /\ SizeOf[p] \in Nat
              /\ Mtu \in Nat /\ PppHeader \in Nat /\ MaxSize \in Nat
          BY LinkAssumption DEF LinkAssumption, LinkInv, LinkTypeOK
        <4>2. CASE ByteMode
          BY <3>1, <4>1, <4>2 DEF CostsCovered, NoRoom, Overflows, Cost
        <4>3. CASE ~ByteMode
          BY <3>1, <4>1, <4>3 DEF NoRoom, Overflows, Cost
        <4>q. QED
          BY <4>2, <4>3
      <3>3. SendQueued(p) \/ SendNow(p)
        BY <2>1, <3>2 DEF UpperSend, Send, SendDiscarded
      <3>q. QED
        BY <3>3 DEF SendQueued, SendNow, NoDiscard
    <2>2. CASE UNCHANGED discarded
      BY <2>2 DEF NoDiscard
    <2>3. TransmitComplete \/ Receive \/ UpperWoken \/ SetWakeCallback
            => UNCHANGED discarded
      BY DEF TransmitComplete, Receive, UpperWoken, SetWakeCallback
    <2>4. UNCHANGED linkVars => UNCHANGED discarded
      BY DEF linkVars
    <2>q. QED
      BY <2>1, <2>2, <2>3, <2>4 DEF LinkNext
  <1>3. Flow => NoDiscard
    OBVIOUS
  <1> HIDE DEF Flow
  <1>q. QED
    BY <1>1, <1>2, <1>3, PTL DEF LinkSpec

(* The case of every device queue limited in packets: nothing is assumed.    *)
THEOREM FlowControlInPackets ==
  ASSUME ~ByteMode
  PROVE  LinkSpec => [](NoDiscard /\ StoppedHasPackets)
  <1>1. FitsOne /\ CostsCovered
    BY Costs DEF FitsOne, Unit, CostsCovered
  <1>q. QED
    BY <1>1, FlowControlCorrect, StoppedCorrect, PTL

-----------------------------------------------------------------------------
(* The path                                                                  *)

(* The packets that the queue disc holds, first to last. *)
Waiting == Disc!Held \o internal

(* No packet is in two places of s. *)
Distinct(s) == \A i, j \in 1..Len(s) : s[i] = s[j] => i = j

(* The last run, if it has ended, did not end by using up its quota. *)
QuotaLeft == Quota = 0 \/ quota # 0

PathTypes ==
  /\ internal \in Seq(Packets) /\ requeued \in Packets \cup {NoPacket}
  /\ peeked \in BOOLEAN /\ running \in BOOLEAN
  /\ quota \in 0..Quota
  /\ arrived \in Seq(Packets)

(* A packet that waits has arrived, waits in one place and was not sent. *)
WaitsOnce ==
  /\ Distinct(Waiting)
  /\ Range(Waiting) \subseteq Range(arrived)
  /\ Range(Waiting) \cap Range(sent) = {}

(* As long as there is a queue disc, all that was sent came through it, a    *)
(* packet that it holds back was taken by a peek, and its counter is exact.  *)
(* Without one, nothing waits and nothing is run.                            *)
DiscOrNot ==
  /\ hasCallback =>
       /\ Range(sent) \subseteq Range(arrived) /\ forgotten = {}
       /\ peeked <=> requeued # NoPacket
       /\ nPackets = Len(Waiting)
  /\ ~hasCallback => Waiting = <<>> /\ ~running

(* What waits between runs waits for a stopped queue. *)
WaitsForWake ==
  hasCallback /\ ~running /\ wakes = 0 /\ QuotaLeft /\ Waiting # <<>> => stopped

(* The inductive invariant of the path. *)
PathInv == LinkInv /\ PathTypes /\ WaitsOnce /\ DiscOrNot /\ WaitsForWake

-----------------------------------------------------------------------------
(* Sequences                                                                 *)

(* The elements of a concatenation. *)
LEMMA Elements ==
  ASSUME NEW s \in Seq(Packets)
  PROVE  /\ Len(s) \in Nat
         /\ Range(s) = {s[i] : i \in 1..Len(s)}
         /\ Range(s) \subseteq Packets
         /\ s # <<>> <=> Len(s) # 0
  <1>1. DOMAIN s = 1..Len(s) /\ \A i \in 1..Len(s) : s[i] \in Packets
    OBVIOUS
  <1>q. QED
    BY <1>1 DEF Range

LEMMA Concat ==
  ASSUME NEW s \in Seq(Packets), NEW t \in Seq(Packets)
  PROVE  /\ s \o t \in Seq(Packets)
         /\ Len(s \o t) = Len(s) + Len(t)
         /\ \A i \in 1..Len(s) : (s \o t)[i] = s[i]
         /\ \A i \in 1..Len(t) : (s \o t)[Len(s) + i] = t[i]
         /\ Range(s \o t) = Range(s) \cup Range(t)
  <1>1. /\ s \o t \in Seq(Packets)
        /\ Len(s \o t) = Len(s) + Len(t)
        /\ \A i \in 1..Len(s) + Len(t) : (s \o t)[i] = IF i <= Len(s) THEN s[i] ELSE t[i - Len(s)]
    OBVIOUS
  <1>2. Len(s) \in Nat /\ Len(t) \in Nat
    OBVIOUS
  <1>3. \A i \in 1..Len(s) : (s \o t)[i] = s[i]
    BY <1>1, <1>2
  <1>4. \A i \in 1..Len(t) : (s \o t)[Len(s) + i] = t[i]
    <2> TAKE i \in 1..Len(t)
    <2>1. Len(s) + i \in 1..Len(s) + Len(t) /\ ~(Len(s) + i <= Len(s)) /\ (Len(s) + i) - Len(s) = i
      BY <1>2
    <2>q. QED
      BY <1>1, <2>1
  <1>5. Range(s \o t) \subseteq Range(s) \cup Range(t)
    <2>1. ASSUME NEW i \in 1..Len(s) + Len(t)
          PROVE  (s \o t)[i] \in Range(s) \cup Range(t)
      <3>1. CASE i <= Len(s)
        <4>1. i \in 1..Len(s)
          BY <1>2, <3>1
        <4>q. QED
          BY <1>3, <4>1, Elements
      <3>2. CASE ~(i <= Len(s))
        <4>1. i - Len(s) \in 1..Len(t)
          BY <1>2, <3>2
        <4>2. (s \o t)[i] = t[i - Len(s)]
          BY <1>1, <3>2
        <4>q. QED
          BY <4>1, <4>2, Elements
      <3>q. QED
        BY <3>1, <3>2
    <2>2. Range(s \o t) = {(s \o t)[i] : i \in 1..Len(s \o t)}
      BY <1>1, Elements
    <2>q. QED
      BY <1>1, <2>1, <2>2
  <1>6. Range(s) \cup Range(t) \subseteq Range(s \o t)
    <2>1. ASSUME NEW i \in 1..Len(s) PROVE s[i] \in Range(s \o t)
      <3>1. i \in 1..Len(s) + Len(t)
        BY <1>2
      <3>q. QED
        BY <1>1, <1>3, <3>1, Elements
    <2>2. ASSUME NEW i \in 1..Len(t) PROVE t[i] \in Range(s \o t)
      <3>1. Len(s) + i \in 1..Len(s) + Len(t)
        BY <1>2
      <3>q. QED
        BY <1>1, <1>4, <3>1, Elements, ZenonT(60)
    <2>q. QED
      BY <2>1, <2>2, Elements
  <1>q. QED
    BY <1>1, <1>3, <1>4, <1>5, <1>6

LEMMA ConcatLaws ==
  ASSUME NEW s \in Seq(Packets), NEW t \in Seq(Packets), NEW u \in Seq(Packets)
  PROVE  /\ (s \o t) \o u = s \o (t \o u)
         /\ s \o <<>> = s /\ <<>> \o s = s
         /\ \A p \in Packets : Append(s, p) = s \o <<p>> /\ <<p>> \in Seq(Packets)
         /\ \A p \in Packets : Append(s \o t, p) = s \o Append(t, p)
         /\ s # <<>> => Head(s \o t) = Head(s) /\ Tail(s \o t) = Tail(s) \o t
         /\ s # <<>> => s = <<Head(s)>> \o Tail(s)
         /\ \A p \in Packets : Range(<<p>>) = {p} /\ Len(<<p>>) = 1
  <1>1. (s \o t) \o u = s \o (t \o u)
    OBVIOUS
  <1>2. s \o <<>> = s /\ <<>> \o s = s
    OBVIOUS
  <1>3. \A p \in Packets : Append(s, p) = s \o <<p>> /\ <<p>> \in Seq(Packets)
    OBVIOUS
  <1>4. ASSUME NEW p \in Packets PROVE Append(s \o t, p) = s \o Append(t, p)
    <2>1. s \o t \in Seq(Packets) /\ <<p>> \in Seq(Packets)
      OBVIOUS
    <2>2. Append(s \o t, p) = (s \o t) \o <<p>> /\ Append(t, p) = t \o <<p>>
      BY <2>1
    <2>3. (s \o t) \o <<p>> = s \o (t \o <<p>>)
      BY <2>1
    <2>q. QED
      BY <2>2, <2>3
  <1>5. s # <<>> => Head(s \o t) = Head(s) /\ Tail(s \o t) = Tail(s) \o t
    OBVIOUS
  <1>6. s # <<>> => s = <<Head(s)>> \o Tail(s)
    OBVIOUS
  <1>7. \A p \in Packets : Range(<<p>>) = {p} /\ Len(<<p>>) = 1
    BY DEF Range
  <1>q. QED
    BY <1>1, <1>2, <1>3, <1>4, <1>5, <1>6, <1>7

LEMMA EmptySeqIs == <<>> \in Seq(Packets) /\ Range(<<>>) = {} /\ Len(<<>>) = 0
  BY DEF Range

LEMMA DistinctParts ==
  ASSUME NEW s \in Seq(Packets), NEW t \in Seq(Packets), Distinct(s \o t)
  PROVE  Distinct(s) /\ Distinct(t) /\ Range(s) \cap Range(t) = {}
  <1>1. Len(s) \in Nat /\ Len(t) \in Nat
    OBVIOUS
  <1>2. \A i \in 1..Len(s) : i \in 1..Len(s \o t) /\ (s \o t)[i] = s[i]
    BY <1>1, Concat
  <1>3. \A i \in 1..Len(t) : Len(s) + i \in 1..Len(s \o t) /\ (s \o t)[Len(s) + i] = t[i]
    BY <1>1, Concat
  <1>4. Distinct(s)
    BY <1>2 DEF Distinct
  <1>5. Distinct(t)
    <2> SUFFICES ASSUME NEW i \in 1..Len(t), NEW j \in 1..Len(t), t[i] = t[j]
                 PROVE  i = j
      BY DEF Distinct
    <2>1. Len(s) + i = Len(s) + j
      BY <1>3 DEF Distinct
    <2>q. QED
      BY <1>1, <2>1
  <1>6. Range(s) \cap Range(t) = {}
    <2> SUFFICES ASSUME NEW i \in 1..Len(s), NEW j \in 1..Len(t), s[i] = t[j]
                 PROVE  FALSE
      BY Elements
    <2>1. i = Len(s) + j
      BY <1>2, <1>3 DEF Distinct
    <2>q. QED
      BY <1>1, <2>1
  <1>q. QED
    BY <1>4, <1>5, <1>6

LEMMA AppendRange ==
  ASSUME NEW s \in Seq(Packets), NEW p \in Packets
  PROVE  Range(Append(s, p)) = Range(s) \cup {p}
  <1>1. Append(s, p) = s \o <<p>> /\ <<p>> \in Seq(Packets) /\ Range(<<p>>) = {p}
    BY ConcatLaws
  <1>2. Range(s \o <<p>>) = Range(s) \cup Range(<<p>>)
    BY <1>1, Concat
  <1>q. QED
    BY <1>1, <1>2

LEMMA DistinctAppend ==
  ASSUME NEW s \in Seq(Packets), NEW p \in Packets, Distinct(s), p \notin Range(s)
  PROVE  Distinct(Append(s, p))
  <1>1. /\ Len(s) \in Nat /\ Len(Append(s, p)) = Len(s) + 1
        /\ Append(s, p)[Len(s) + 1] = p
        /\ \A i \in 1..Len(s) : Append(s, p)[i] = s[i]
    OBVIOUS
  <1>2. \A i \in 1..Len(s) + 1 : i \in 1..Len(s) \/ i = Len(s) + 1
    BY <1>1
  <1>3. \A i \in 1..Len(s) : s[i] # p
    BY Elements
  <1>q. QED
    BY <1>1, <1>2, <1>3 DEF Distinct

(* A stretch is cut out of s, leaving t; its packets are added to old. *)
CutOut(s, t, old, new) ==
  \E first, last \in 0..Len(s) :
    /\ first <= last
    /\ t = SubSeq(s, 1, first) \o SubSeq(s, last + 1, Len(s))
    /\ new = old \cup {s[i] : i \in first + 1..last}

LEMMA Cut ==
  ASSUME NEW f \in Seq(Packets), NEW g \in Seq(Packets), NEW b \in Seq(Packets),
         NEW s, s = f \o (g \o b), NEW old
  PROVE  CutOut(s, f \o b, old, old \cup Range(g))
  <1> DEFINE m == Len(f)
             n == Len(f) + Len(g)
  <1>1. Len(f) \in Nat /\ Len(g) \in Nat /\ Len(b) \in Nat
    OBVIOUS
  <1>2. s \in Seq(Packets) /\ g \o b \in Seq(Packets) /\ Len(s) = n + Len(b)
    BY <1>1, Concat
  <1>3. /\ \A i \in 1..m : s[i] = f[i]
        /\ \A i \in 1..Len(g) : s[m + i] = g[i]
        /\ \A i \in 1..Len(b) : s[n + i] = b[i]
    <2>1. \A i \in 1..m : s[i] = f[i]
      BY <1>2, Concat
    <2>2. \A i \in 1..Len(g) + Len(b) : s[m + i] = (g \o b)[i]
      BY <1>2, Concat
    <2>3. \A i \in 1..Len(g) : i \in 1..Len(g) + Len(b)
      BY <1>1
    <2>4. \A i \in 1..Len(g) : s[m + i] = g[i]
      BY <2>2, <2>3, Concat
    <2>5. ASSUME NEW i \in 1..Len(b) PROVE s[n + i] = b[i]
      <3>1. Len(g) + i \in 1..Len(g) + Len(b) /\ m + (Len(g) + i) = n + i
        BY <1>1
      <3>2. s[m + (Len(g) + i)] = (g \o b)[Len(g) + i]
        BY <2>2, <3>1
      <3>3. (g \o b)[Len(g) + i] = b[i]
        BY Concat
      <3>q. QED
        BY <3>1, <3>2, <3>3
    <2>q. QED
      BY <2>1, <2>4, <2>5
  <1>4. m \in 0..Len(s) /\ n \in 0..Len(s) /\ m <= n
    BY <1>1, <1>2
  <1>5. SubSeq(s, 1, m) = f
    BY <1>1, <1>2, <1>3, <1>4
  <1>6. SubSeq(s, n + 1, Len(s)) = b
    BY <1>1, <1>2, <1>3, <1>4
  <1>7. {s[i] : i \in m + 1..n} = Range(g)
    <2>1. ASSUME NEW i \in m + 1..n PROVE s[i] \in Range(g)
      <3>1. i - m \in 1..Len(g) /\ m + (i - m) = i
        BY <1>1
      <3>2. s[i] = g[i - m]
        BY <1>3, <3>1
      <3>q. QED
        BY <3>1, <3>2, Elements
    <2>2. ASSUME NEW i \in 1..Len(g) PROVE g[i] \in {s[k] : k \in m + 1..n}
      <3>1. m + i \in m + 1..n
        BY <1>1
      <3>q. QED
        BY <1>3, <3>1
    <2>3. Range(g) = {g[i] : i \in 1..Len(g)}
      BY Elements
    <2>q. QED
      BY <2>1, <2>2, <2>3
  <1>8. /\ f \o b = SubSeq(s, 1, m) \o SubSeq(s, n + 1, Len(s))
        /\ old \cup Range(g) = old \cup {s[i] : i \in m + 1..n}
    BY <1>5, <1>6, <1>7
  <1> HIDE DEF m, n
  <1>q. QED
    BY <1>4, <1>8 DEF CutOut

(* A sequence after k elements: the rest is empty or has a first element.    *)
LEMMA Split ==
  ASSUME NEW q \in Seq(Packets), NEW k \in 0..Len(q)
  PROVE  /\ SubSeq(q, 1, k) \in Seq(Packets) /\ Len(SubSeq(q, 1, k)) = k
         /\ Range(SubSeq(q, 1, k)) = {q[i] : i \in 1..k}
         /\ SubSeq(q, k + 2, Len(q)) \in Seq(Packets)
         /\ k = Len(q) => SubSeq(q, 1, k) = q /\ SubSeq(q, k + 2, Len(q)) = <<>>
         /\ k # Len(q) => /\ q[k + 1] \in Packets
                          /\ q = SubSeq(q, 1, k) \o (<<q[k + 1]>> \o SubSeq(q, k + 2, Len(q)))
  <1> DEFINE f == SubSeq(q, 1, k)
             b == SubSeq(q, k + 2, Len(q))
  <1>1. Len(q) \in Nat /\ \A i \in 1..Len(q) : q[i] \in Packets
    OBVIOUS
  <1>2. f \in Seq(Packets) /\ Len(f) = k /\ \A i \in 1..k : f[i] = q[i]
    BY <1>1
  <1>3. /\ b \in Seq(Packets)
        /\ Len(b) = IF k = Len(q) THEN 0 ELSE Len(q) - k - 1
        /\ \A i \in 1..Len(b) : b[i] = q[(k + 1) + i]
    BY <1>1
  <1> HIDE DEF f, b
  <1>4. Range(f) = {q[i] : i \in 1..k}
    <2>1. Range(f) = {f[i] : i \in 1..k}
      BY <1>2, Elements
    <2>q. QED
      BY <1>2, <2>1
  <1>5. ASSUME k = Len(q) PROVE f = q /\ b = <<>>
    BY <1>1, <1>2, <1>3, <1>5
  <1>6. ASSUME k # Len(q)
        PROVE  q[k + 1] \in Packets /\ q = f \o (<<q[k + 1]>> \o b)
    <2> DEFINE x == q[k + 1]
               xb == <<x>> \o b
               fxb == f \o xb
    <2>1. k + 1 \in 1..Len(q) /\ x \in Packets
      BY <1>1, <1>6
    <2> HIDE DEF x
    <2>2. <<x>> \in Seq(Packets) /\ Len(<<x>>) = 1 /\ <<x>>[1] = x
      BY <2>1
    <2>3. /\ xb \in Seq(Packets) /\ Len(xb) = 1 + Len(b)
          /\ xb[1] = x /\ \A i \in 1..Len(b) : xb[1 + i] = b[i]
      <3>1. 1 \in 1..1
        OBVIOUS
      <3>q. QED
        BY <1>3, <2>2, <3>1, Concat
    <2> HIDE DEF xb
    <2>4. /\ fxb \in Seq(Packets) /\ Len(fxb) = k + Len(xb)
          /\ \A i \in 1..k : fxb[i] = f[i]
          /\ \A i \in 1..Len(xb) : fxb[k + i] = xb[i]
      BY <1>2, <2>3, Concat
    <2>5. Len(fxb) = Len(q)
      BY <1>1, <1>3, <1>6, <2>3, <2>4
    <2>6. ASSUME NEW i \in 1..Len(q) PROVE q[i] = fxb[i]
      <3>1. CASE i <= k
        BY <1>2, <2>4, <3>1
      <3>2. CASE i = k + 1
        BY <2>1, <2>3, <2>4, <3>2 DEF x
      <3>3. CASE i > k + 1
        <4>1. i - (k + 1) \in 1..Len(b) /\ (k + 1) + (i - (k + 1)) = i
          BY <1>1, <1>3, <1>6, <3>3
        <4>2. 1 + (i - (k + 1)) \in 1..Len(xb) /\ k + (1 + (i - (k + 1))) = i
          BY <1>3, <2>3, <4>1
        <4>3. fxb[i] = b[i - (k + 1)]
          BY <2>3, <2>4, <4>1, <4>2
        <4>q. QED
          BY <1>3, <4>1, <4>3
      <3>4. i <= k \/ i = k + 1 \/ i > k + 1
        BY <1>1
      <3>q. QED
        BY <3>1, <3>2, <3>3, <3>4
    <2> HIDE DEF fxb
    <2>7. q = fxb
      BY <2>4, <2>5, <2>6
    <2>q. QED
      BY <2>1, <2>7 DEF fxb, xb, x
  <1>q. QED
    BY <1>2, <1>3, <1>4, <1>5, <1>6 DEF f, b

-----------------------------------------------------------------------------
(* What the operations of the queue disc do to the packets that wait         *)

(* No packet, or one. *)
Just(p) == IF p = NoPacket THEN <<>> ELSE <<p>>

(* From the head of what waits some packets are dropped and p, if it is a    *)
(* packet, is taken out.                                                     *)
Takes(p) ==
  /\ \E gone \in Seq(Packets) :
       Waiting = gone \o (Just(p) \o Waiting') /\ dropped' = dropped \cup Range(gone)
  /\ arrived' = arrived

LEMMA JustIs ==
  /\ Just(NoPacket) = <<>>
  /\ \A p \in Packets : Just(p) = <<p>>
  /\ \A p \in Packets \cup {NoPacket} :
       Just(p) \in Seq(Packets) /\ Len(Just(p)) = (IF p = NoPacket THEN 0 ELSE 1)
  BY LinkAssumption DEF LinkAssumption, Just

LEMMA JustThen ==
  ASSUME NEW r \in Packets \cup {NoPacket}, NEW q \in Seq(Packets)
  PROVE  /\ Just(r) \o q \in Seq(Packets)
         /\ Len(Just(r) \o q) = (IF r = NoPacket THEN 0 ELSE 1) + Len(q)
         /\ Just(r) \o q = <<>> <=> r = NoPacket /\ q = <<>>
         /\ r = NoPacket => Just(r) \o q = q
  <1>1. Just(r) \in Seq(Packets) /\ Len(Just(r)) = (IF r = NoPacket THEN 0 ELSE 1)
    BY JustIs
  <1>2. /\ Just(r) \o q \in Seq(Packets)
        /\ Len(Just(r) \o q) = (IF r = NoPacket THEN 0 ELSE 1) + Len(q)
    <2>1. Just(r) \o q \in Seq(Packets) /\ Len(Just(r) \o q) = Len(Just(r)) + Len(q)
      BY <1>1, Concat
    <2>q. QED
      BY <1>1, <2>1
  <1>3. r = NoPacket => Just(r) \o q = q
    <2>1. <<>> \o q = q
      BY ConcatLaws
    <2>q. QED
      BY <2>1 DEF Just
  <1>4. Len(q) \in Nat /\ (q = <<>> <=> Len(q) = 0)
    BY Elements
  <1>5. Just(r) \o q = <<>> <=> Len(Just(r) \o q) = 0
    BY <1>2, Elements
  <1>6. Just(r) \o q = <<>> <=> r = NoPacket /\ q = <<>>
    <2>1. CASE r = NoPacket
      BY <1>3, <2>1
    <2>2. CASE r # NoPacket
      BY <1>1, <1>2, <1>4, <1>5, <2>2
    <2>q. QED
      BY <2>1, <2>2
  <1>q. QED
    BY <1>2, <1>3, <1>6

LEMMA WaitingIs == Waiting = Just(requeued) \o internal /\ Waiting' = Just(requeued') \o internal'
  BY DEF Waiting, Disc!Held, Just

(* DoDequeue: the dropped packets, the one it returns and the rest.          *)
LEMMA DoDequeueTakes ==
  ASSUME internal \in Seq(Packets), NEW p \in Packets \cup {NoPacket},
         NEW k \in 0..Len(internal), NEW inPeek \in BOOLEAN,
         Disc!DoDequeue(p, k, inPeek)
  PROVE  /\ \E gone \in Seq(Packets) :
              /\ internal = gone \o (Just(p) \o internal')
              /\ dropped' = dropped \cup Range(gone)
              /\ Len(gone) = k
         /\ internal' \in Seq(Packets)
         /\ p = NoPacket => internal' = <<>>
         /\ arrived' = arrived
         /\ nPackets' = nPackets - (IF p = NoPacket \/ inPeek THEN k ELSE k + 1)
  <1> DEFINE gone == SubSeq(internal, 1, k)
             rest == SubSeq(internal, k + 2, Len(internal))
  <1>1. /\ p = IF k = Len(internal) THEN NoPacket ELSE internal[k + 1]
        /\ internal' = rest
        /\ dropped' = dropped \cup {internal[i] : i \in 1..k}
        /\ arrived' = arrived
    BY DEF Disc!DoDequeue
  <1>2. nPackets' = nPackets - (IF p = NoPacket \/ inPeek THEN k ELSE k + 1)
    BY DEF Disc!DoDequeue, Disc!PacketsDequeued, Disc!NTaken
  <1>3. /\ gone \in Seq(Packets) /\ Len(gone) = k /\ Range(gone) = {internal[i] : i \in 1..k}
        /\ rest \in Seq(Packets)
        /\ k = Len(internal) => gone = internal /\ rest = <<>>
        /\ k # Len(internal) => /\ internal[k + 1] \in Packets
                                /\ internal = gone \o (<<internal[k + 1]>> \o rest)
    BY Split
  <1> HIDE DEF gone, rest
  <1>4. CASE k = Len(internal)
    <2>1. p = NoPacket /\ Just(p) = <<>>
      BY <1>1, <1>4, JustIs
    <2>2. internal = gone \o (<<>> \o <<>>)
      BY <1>3, <1>4, ConcatLaws
    <2>q. QED
      BY <1>1, <1>2, <1>3, <1>4, <2>1, <2>2
  <1>5. CASE k # Len(internal)
    <2>1. p = internal[k + 1] /\ p \in Packets /\ Just(p) = <<p>> /\ p # NoPacket
      <3>1. p = internal[k + 1] /\ p \in Packets
        BY <1>1, <1>3, <1>5
      <3>q. QED
        BY <3>1, JustIs, LinkAssumption DEF LinkAssumption
    <2>q. QED
      BY <1>1, <1>2, <1>3, <1>5, <2>1
  <1>q. QED
    BY <1>4, <1>5

(* Counting: what is gone, the packet that is taken, what still waits.       *)
LEMMA TakenLength ==
  ASSUME NEW gone \in Seq(Packets), NEW p \in Packets \cup {NoPacket},
         NEW rest \in Seq(Packets)
  PROVE  Len(gone \o (Just(p) \o rest)) = Len(gone) + (IF p = NoPacket THEN 0 ELSE 1) + Len(rest)
  <1>1. /\ Just(p) \o rest \in Seq(Packets)
        /\ Len(Just(p) \o rest) = (IF p = NoPacket THEN 0 ELSE 1) + Len(rest)
    BY JustThen
  <1>2. Len(gone \o (Just(p) \o rest)) = Len(gone) + Len(Just(p) \o rest)
    BY <1>1, Concat
  <1>3. Len(gone) \in Nat /\ Len(rest) \in Nat
    BY Elements
  <1>q. QED
    BY <1>1, <1>2, <1>3

(* Dequeue: what it returns is the first of what waits and is not dropped.   *)
LEMMA ExtractTakes ==
  ASSUME PathTypes, NEW p \in Packets \cup {NoPacket}, Disc!Extract(p), requeued' = NoPacket
  PROVE  /\ Takes(p) /\ internal' \in Seq(Packets)
         /\ p = NoPacket => Waiting' = <<>>
         /\ (peeked <=> requeued # NoPacket) => peeked' = FALSE
         /\ (peeked <=> requeued # NoPacket) /\ nPackets = Len(Waiting)
              => nPackets' = Len(Waiting')
  <1>1. /\ internal \in Seq(Packets) /\ requeued \in Packets \cup {NoPacket} /\ peeked \in BOOLEAN
        /\ Len(internal) \in Nat
    BY Elements DEF PathTypes
  <1>2. CASE requeued # NoPacket
    <2>1. /\ p = requeued /\ p \in Packets /\ p # NoPacket
          /\ UNCHANGED <<internal, dropped, arrived>> /\ peeked' = FALSE
          /\ nPackets' = nPackets - (IF peeked THEN 1 ELSE 0)
      BY <1>1, <1>2 DEF Disc!Extract, Disc!TakeHeld, Disc!PacketsDequeued, Disc!NHeldTaken
    <2>2. Waiting' = internal
      BY <1>1, <2>1, WaitingIs, JustThen
    <2>3. Waiting = <<>> \o (Just(p) \o Waiting') /\ Waiting = Just(p) \o internal
      <3>1. Waiting = Just(p) \o internal /\ Just(p) \o internal \in Seq(Packets)
        BY <1>1, <2>1, WaitingIs, JustThen
      <3>q. QED
        BY <2>2, <3>1, ConcatLaws
    <2>4. Takes(p)
      <3>1. <<>> \in Seq(Packets) /\ Range(<<>>) = {}
        BY EmptySeqIs
      <3>2. dropped' = dropped \cup Range(<<>>)
        BY <2>1, <3>1
      <3>q. QED
        BY <2>1, <2>3, <3>1, <3>2 DEF Takes
    <2>5. Len(Waiting) = 1 + Len(internal)
      BY <1>1, <2>1, <2>3, JustThen, JustIs
    <2>6. (peeked <=> requeued # NoPacket) /\ nPackets = Len(Waiting) => nPackets' = Len(Waiting')
      BY <1>1, <1>2, <2>1, <2>2, <2>5
    <2>q. QED
      BY <1>1, <2>1, <2>4, <2>6
  <1>3. CASE requeued = NoPacket
    <2>1. PICK k \in 0..Len(internal) : Disc!DoDequeue(p, k, FALSE)
      BY <1>3 DEF Disc!Extract
    <2>2. /\ internal' \in Seq(Packets)
          /\ p = NoPacket => internal' = <<>>
          /\ arrived' = arrived
          /\ nPackets' = nPackets - (IF p = NoPacket THEN k ELSE k + 1)
      BY <1>1, <2>1, DoDequeueTakes
    <2>3. PICK gone \in Seq(Packets) :
            /\ internal = gone \o (Just(p) \o internal')
            /\ dropped' = dropped \cup Range(gone)
            /\ Len(gone) = k
      BY <1>1, <2>1, DoDequeueTakes
    <2>4. Waiting' = internal' /\ Waiting = internal
      BY <1>1, <1>3, <2>2, WaitingIs, JustThen
    <2>5. Takes(p)
      BY <2>2, <2>3, <2>4 DEF Takes
    <2>6. Len(internal) = k + (IF p = NoPacket THEN 0 ELSE 1) + Len(internal')
      BY <2>2, <2>3, TakenLength
    <2>7. nPackets = Len(Waiting) => nPackets' = Len(Waiting')
      <3>1. Len(internal') \in Nat
        BY <2>2, Elements
      <3>q. QED
        BY <1>1, <2>2, <2>4, <2>6, <3>1
    <2>8. peeked' = peeked
      BY <1>3 DEF Disc!Extract
    <2>9. (peeked <=> requeued # NoPacket) => peeked' = FALSE
      BY <1>1, <1>3, <2>8
    <2>q. QED
      BY <2>2, <2>4, <2>5, <2>7, <2>9
  <1>q. QED
    BY <1>2, <1>3

(* Peek: only what is dropped is taken out. *)
LEMMA PeekTakes ==
  ASSUME PathTypes, Disc!Peek
  PROVE  /\ Takes(NoPacket) /\ internal' \in Seq(Packets)
         /\ requeued' \in Packets \cup {NoPacket} /\ peeked' \in BOOLEAN
         /\ peeked' <=> requeued' # NoPacket
         /\ nPackets = Len(Waiting) => nPackets' = Len(Waiting')
  <1>1. internal \in Seq(Packets) /\ Len(internal) \in Nat /\ requeued = NoPacket
    BY Elements DEF PathTypes, Disc!Peek, Disc!PeekDequeues
  <1>2. PICK k \in 0..Len(internal), p \in Packets \cup {NoPacket} :
          /\ Disc!DoDequeue(p, k, TRUE)
          /\ requeued' = p
          /\ peeked' = (p # NoPacket)
    BY DEF Disc!Peek
  <1>3. /\ internal' \in Seq(Packets) /\ arrived' = arrived
        /\ nPackets' = nPackets - k
    BY <1>1, <1>2, DoDequeueTakes
  <1>4. PICK gone \in Seq(Packets) :
          /\ internal = gone \o (Just(p) \o internal')
          /\ dropped' = dropped \cup Range(gone)
          /\ Len(gone) = k
    BY <1>1, <1>2, DoDequeueTakes
  <1>5. Waiting = internal /\ Waiting' = Just(p) \o internal' /\ Waiting' \in Seq(Packets)
    BY <1>1, <1>2, <1>3, WaitingIs, JustThen
  <1>6. Takes(NoPacket)
    <2>1. Just(NoPacket) \o Waiting' = Waiting'
      BY <1>5, JustThen
    <2>q. QED
      BY <1>3, <1>4, <1>5, <2>1 DEF Takes
  <1>7. nPackets = Len(Waiting) => nPackets' = Len(Waiting')
    <2>1. /\ Len(internal) = k + (IF p = NoPacket THEN 0 ELSE 1) + Len(internal')
          /\ Len(Waiting') = (IF p = NoPacket THEN 0 ELSE 1) + Len(internal')
          /\ Len(internal') \in Nat
      <3>1. Len(gone \o (Just(p) \o internal'))
              = Len(gone) + (IF p = NoPacket THEN 0 ELSE 1) + Len(internal')
        BY <1>3, TakenLength
      <3>2. Len(Just(p) \o internal') = (IF p = NoPacket THEN 0 ELSE 1) + Len(internal')
        BY <1>3, JustThen
      <3>3. Len(internal') \in Nat
        BY <1>3, Elements
      <3>q. QED
        BY <1>4, <1>5, <3>1, <3>2, <3>3
    <2>q. QED
      BY <1>1, <1>3, <1>5, <2>1
  <1>q. QED
    BY <1>2, <1>3, <1>6, <1>7

(* What is left is still in one place, and the packet taken is not in it.    *)
LEMMA TakesOnce ==
  ASSUME PathTypes, Distinct(Waiting), NEW p \in Packets \cup {NoPacket}, Takes(p),
         Waiting' \in Seq(Packets)
  PROVE  /\ Distinct(Waiting')
         /\ Range(Waiting') \subseteq Range(Waiting)
         /\ p # NoPacket => p \in Range(Waiting) /\ p \notin Range(Waiting')
         /\ Waiting' # <<>> => Waiting # <<>>
  <1>1. PICK gone \in Seq(Packets) : Waiting = gone \o (Just(p) \o Waiting')
    BY DEF Takes
  <1>2. Just(p) \in Seq(Packets) /\ Just(p) \o Waiting' \in Seq(Packets)
    BY JustIs, Concat
  <1>3. /\ Distinct(Just(p) \o Waiting')
        /\ Range(Waiting) = Range(gone) \cup Range(Just(p) \o Waiting')
    BY <1>1, <1>2, DistinctParts, Concat
  <1>4. /\ Distinct(Waiting') /\ Range(Just(p)) \cap Range(Waiting') = {}
        /\ Range(Just(p) \o Waiting') = Range(Just(p)) \cup Range(Waiting')
    BY <1>2, <1>3, DistinctParts, Concat
  <1>5. p # NoPacket => Range(Just(p)) = {p}
    <2>1. \A x \in Packets : Range(<<x>>) = {x}
      BY EmptySeqIs, ConcatLaws
    <2>q. QED
      BY <2>1 DEF Just
  <1>6. Range(Waiting') \subseteq Range(Waiting)
    BY <1>3, <1>4
  <1>7. Waiting' # <<>> => Waiting # <<>>
    <2>1. Waiting' # <<>> => Waiting'[1] \in Range(Waiting')
      <3>1. Waiting' # <<>> => 1 \in 1..Len(Waiting')
        OBVIOUS
      <3>q. QED
        BY <3>1, Elements
    <2>q. QED
      BY <1>6, <2>1, EmptySeqIs
  <1>q. QED
    BY <1>3, <1>4, <1>5, <1>6, <1>7

-----------------------------------------------------------------------------
(* The queue disc with its single transmission queue                         *)

(* What restrains the queue disc is the one transmission queue. *)
LEMMA OneQueue ==
  /\ [q \in {TheQueue} |-> stopped][TheQueue] = stopped
  /\ \A p \in Packets : [x \in Packets |-> TheQueue][p] = TheQueue
  OBVIOUS

LEMMA HeldBackIs == ASSUME PathTypes, Disc!HeldBack PROVE stopped
  <1>1. CASE requeued # NoPacket
    <2>1. requeued \in Packets
      BY <1>1 DEF PathTypes
    <2>2. [q \in {TheQueue} |-> stopped][[x \in Packets |-> TheQueue][requeued]]
      BY <1>1 DEF Disc!HeldBack
    <2>q. QED
      BY <2>1, <2>2, OneQueue
  <1>2. CASE requeued = NoPacket
    <2>1. ~Disc!MayDequeue
      BY <1>2 DEF Disc!HeldBack
    <2>2. PICK i \in {TheQueue} : [q \in {TheQueue} |-> stopped][i]
      BY <2>1 DEF Disc!MayDequeue
    <2>q. QED
      BY <2>2, OneQueue
  <1>q. QED
    BY <1>1, <1>2

(* Restart returns false: the queue is stopped or nothing is left. *)
LEMMA NothingEffect ==
  ASSUME PathTypes, Disc!RestartNothing
  PROVE  /\ running' = FALSE /\ quota' = quota /\ requeued' = requeued
         /\ \/ /\ stopped
               /\ UNCHANGED <<internal, requeued, peeked, nPackets, dropped, arrived>>
            \/ Disc!Extract(NoPacket) /\ requeued = NoPacket
  <1>1. running' = FALSE /\ quota' = quota
    BY DEF Disc!RestartNothing, Disc!RunEnd
  <1>2. CASE Disc!HeldBack /\ UNCHANGED <<Disc!discVars, arrived>>
    BY <1>1, <1>2, HeldBackIs DEF Disc!discVars
  <1>3. CASE Disc!DequeuePacket(NoPacket) /\ UNCHANGED requeued
    <2>1. Disc!Extract(NoPacket)
      BY <1>3 DEF Disc!DequeuePacket
    <2>2. requeued = NoPacket
      BY <2>1 DEF Disc!Extract
    <2>q. QED
      BY <1>1, <1>3, <2>1, <2>2
  <1>q. QED
    BY <1>2, <1>3 DEF Disc!RestartNothing

(* Transmit hands p to the device: its queue was open, and the run goes on   *)
(* unless nothing is left, the queue is stopped or the quota is used up.     *)
LEMMA SendEffect ==
  ASSUME PathTypes, NEW p \in Packets, Disc!RestartSend(p)
  PROVE  /\ ~stopped /\ Disc!Extract(p) /\ requeued' = NoPacket
         /\ running' \in BOOLEAN /\ quota' \in 0..Quota
         /\ ~running' => nPackets' = 0 \/ stopped' \/ (Quota # 0 /\ quota' = 0)
  <1>1. quota \in 0..Quota /\ Quota \in Nat
    BY PathAssumption DEF PathTypes, PathAssumption
  <1>2. ~stopped
    <2>1. ~[q \in {TheQueue} |-> stopped][[x \in Packets |-> TheQueue][p]]
      BY DEF Disc!RestartSend
    <2>q. QED
      BY <2>1, OneQueue
  <1>3. Disc!Extract(p) /\ requeued' = NoPacket
    BY DEF Disc!RestartSend, Disc!DequeuePacket, Disc!ReleaseHeld
  <1>4. PICK full \in BOOLEAN, woken \in BOOLEAN :
          /\ Disc!DeviceTakes([x \in Packets |-> TheQueue][p], full, woken)
          /\ IF Disc!RunGoesOn(full) THEN Disc!RunContinue ELSE Disc!RunEnd
    BY DEF Disc!RestartSend
  <1>5. full => stopped'
    <2>1. [q \in {TheQueue} |-> stopped]'
            = [[q \in {TheQueue} |-> stopped] EXCEPT ![[x \in Packets |-> TheQueue][p]] = full]
      BY <1>4 DEF Disc!DeviceTakes
    <2>2. [q \in {TheQueue} |-> stopped'][TheQueue] = full
      BY <2>1, OneQueue
    <2>q. QED
      BY <2>2
  <1>6. CASE Disc!RunGoesOn(full)
    <2>1. quota' = (IF quota = 0 THEN 0 ELSE quota - 1) /\ running' = (quota # 1)
      BY <1>4, <1>6 DEF Disc!RunContinue
    <2>2. quota' \in 0..Quota
      BY <1>1, <2>1
    <2>3. running' \in BOOLEAN
      BY <2>1
    <2>4. ~running' => quota = 1
      BY <2>1
    <2>5. ~running' => Quota # 0 /\ quota' = 0
      BY <1>1, <2>1, <2>4
    <2>q. QED
      BY <1>2, <1>3, <2>2, <2>3, <2>5
  <1>7. CASE ~Disc!RunGoesOn(full)
    <2>1. running' = FALSE /\ quota' = quota
      BY <1>4, <1>7 DEF Disc!RunEnd
    <2>2. nPackets' = 0 \/ full
      BY <1>7 DEF Disc!RunGoesOn
    <2>q. QED
      BY <1>1, <1>2, <1>3, <1>5, <2>1, <2>2
  <1>q. QED
    BY <1>6, <1>7

-----------------------------------------------------------------------------
(* The inductive invariant of the path                                       *)

(* The path and its parts agree on who may send: a step of the path is a     *)
(* step of the link, whose users respect the stopped queue.                  *)
LEMMA LinkStep == ASSUME PathInv, [Next]_vars PROVE [LinkNext]_linkVars
  <1>0. PathTypes
    BY DEF PathInv
  <1>1. CASE UNCHANGED <<linkOnly, shared>>
    BY <1>1 DEF linkOnly, shared, linkVars
  <1>2. ASSUME NEW p \in Packets, SendToDevice(p) PROVE LinkNext \/ UNCHANGED linkVars
    <2>1. CASE stopped
      BY <1>1, <1>2, <2>1 DEF SendToDevice, TurnsAway
    <2>2. CASE ~stopped
      BY <1>2, <2>2 DEF SendToDevice, TurnsAway, LinkNext, UpperSend
    <2>q. QED
      BY <2>1, <2>2
  <1>3. ASSUME NEW p \in Packets, Send(p), Disc!RestartSend(p) PROVE LinkNext
    <2>1. ~stopped /\ Disc!Extract(p) /\ requeued' = NoPacket
      BY <1>0, <1>3, SendEffect
    <2>2. p \in Range(Waiting)
      <3>1. Takes(p) /\ internal' \in Seq(Packets) /\ p # NoPacket
        BY <1>0, <2>1, ExtractTakes, LinkAssumption DEF LinkAssumption
      <3>2. Waiting' \in Seq(Packets)
        BY <2>1, <3>1, WaitingIs, JustThen
      <3>q. QED
        BY <1>0, <3>1, <3>2, TakesOnce DEF PathInv, WaitsOnce
    <2>3. p \notin Range(sent)
      BY <2>2 DEF PathInv, WaitsOnce
    <2>4. New(p)
      BY <2>3, Elements DEF New, PathInv, LinkInv, LinkTypeOK
    <2>q. QED
      BY <1>3, <2>1, <2>4 DEF LinkNext, UpperSend
  <1>4. CASE RunIteration
    BY <1>1, <1>3, <1>4 DEF RunIteration
  <1>5. CASE Wakened
    <2>1. UpperWoken
      BY <1>5 DEF Wakened, HasRootDisc, UpperWoken, Disc!WakeCallback, linkOnly, queueVars, txVars,
                  rxVars
    <2>q. QED
      BY <2>1 DEF LinkNext
  <1>6. CASE Next
    BY <1>1, <1>2, <1>4, <1>5, <1>6
       DEF Next, SendToDisc, Peek, DeleteRootQueueDisc, DeviceCompletes, DeviceReceives, LinkNext
  <1>7. CASE UNCHANGED vars
    BY <1>1, <1>7 DEF vars
  <1>q. QED
    BY <1>6, <1>7

(* Where the wake callback is set, a queue is not opened without scheduling  *)
(* it.                                                                       *)
LEMMA DequeuedWakes ==
  ASSUME NEW was \in BOOLEAN, PacketDequeued(was), wakes \in Nat, hasCallback \in BOOLEAN
  PROVE  hasCallback /\ was => stopped' \/ wakes' # 0
  <1>1. CASE stopped' = was /\ UNCHANGED wakes
    BY <1>1
  <1>2. CASE Wake(was)
    <2>1. wakes' = wakes + (IF was /\ hasCallback THEN 1 ELSE 0)
      BY <1>2 DEF Wake
    <2>q. QED
      BY <2>1
  <1>q. QED
    BY <1>1, <1>2 DEF PacketDequeued

LEMMA CompleteWakes ==
  ASSUME LinkInv, TransmitComplete
  PROVE  hasCallback /\ stopped => stopped' \/ wakes' # 0
  <1>1. wakes \in Nat /\ hasCallback \in BOOLEAN /\ stopped \in BOOLEAN
    BY DEF LinkInv, LinkTypeOK
  <1>2. CASE TransmitCompleteNext
    BY <1>1, <1>2, DequeuedWakes DEF TransmitCompleteNext
  <1>q. QED
    BY <1>2 DEF TransmitComplete, TransmitCompleteIdle

(* The parts of the invariant that are about the queue disc. *)
DiscInv == PathTypes /\ WaitsOnce /\ DiscOrNot /\ WaitsForWake

LEMMA DiscInvPrime ==
  ASSUME internal' \in Seq(Packets), requeued' \in Packets \cup {NoPacket},
         peeked' \in BOOLEAN, running' \in BOOLEAN, quota' \in 0..Quota,
         arrived' \in Seq(Packets),
         Distinct(Waiting'),
         Range(Waiting') \subseteq Range(arrived'),
         Range(Waiting') \cap Range(sent') = {},
         hasCallback' => /\ Range(sent') \subseteq Range(arrived') /\ forgotten' = {}
                         /\ peeked' <=> requeued' # NoPacket
                         /\ nPackets' = Len(Waiting'),
         ~hasCallback' => Waiting' = <<>> /\ ~running',
         hasCallback' /\ ~running' /\ wakes' = 0 /\ QuotaLeft' /\ Waiting' # <<>> => stopped'
  PROVE  DiscInv'
  <1>1. PathTypes'
    BY DEF PathTypes
  <1>2. WaitsOnce'
    BY DEF WaitsOnce, Distinct
  <1>3. DiscOrNot'
    BY DEF DiscOrNot
  <1>4. WaitsForWake'
    BY DEF WaitsForWake
  <1>q. QED
    BY <1>1, <1>2, <1>3, <1>4 DEF DiscInv

LEMMA InitPath == ASSUME Init PROVE PathInv
  <1>1. LinkInv
    BY InitLink DEF Init
  <1>2. /\ internal = <<>> /\ requeued = NoPacket /\ peeked = FALSE /\ running = FALSE
        /\ quota = 0 /\ arrived = <<>> /\ nPackets = 0 /\ sent = <<>> /\ forgotten = {}
        /\ wakes = 0
    BY DEF Init, Disc!Init, LinkInit
  <1>3. /\ Waiting = <<>> /\ Range(Waiting) = {} /\ Len(Waiting) = 0 /\ Range(sent) = {}
        /\ Waiting \in Seq(Packets)
    <2>1. Just(NoPacket) \o <<>> = <<>>
      BY JustThen, EmptySeqIs
    <2>q. QED
      BY <1>2, <2>1, WaitingIs, EmptySeqIs
  <1>4. PathTypes
    <2>1. quota \in 0..Quota
      BY <1>2, PathAssumption DEF PathAssumption
    <2>q. QED
      BY <1>2, <2>1, EmptySeqIs DEF PathTypes
  <1>5. WaitsOnce
    BY <1>3 DEF WaitsOnce, Distinct
  <1>6. DiscOrNot /\ WaitsForWake
    BY <1>2, <1>3 DEF DiscOrNot, WaitsForWake
  <1>q. QED
    BY <1>1, <1>4, <1>5, <1>6 DEF PathInv

(* What the invariant says, for use below. *)
LEMMA PathFacts ==
  ASSUME PathInv
  PROVE  /\ PathTypes /\ internal \in Seq(Packets) /\ requeued \in Packets \cup {NoPacket}
         /\ Waiting \in Seq(Packets) /\ arrived \in Seq(Packets) /\ sent \in Seq(Packets)
         /\ Quota \in Nat /\ hasCallback \in BOOLEAN /\ wakes \in Nat /\ stopped \in BOOLEAN
         /\ Distinct(Waiting) /\ Range(Waiting) \subseteq Range(arrived)
         /\ Range(Waiting) \cap Range(sent) = {}
  <1>1. PathTypes /\ LinkTypeOK /\ WaitsOnce
    BY DEF PathInv, LinkInv
  <1>2. Waiting \in Seq(Packets)
    BY <1>1, WaitingIs, JustThen DEF PathTypes
  <1>q. QED
    BY <1>1, <1>2, PathAssumption DEF PathTypes, LinkTypeOK, WaitsOnce, PathAssumption

(* Nothing of what the invariant says of the queue disc changes, or only     *)
(* what is scheduled and what the device does.                               *)
LEMMA DiscUnchanged ==
  ASSUME PathInv, UNCHANGED <<discOnly, sent, hasCallback, forgotten>>,
         hasCallback /\ ~running /\ wakes' = 0 /\ QuotaLeft /\ Waiting # <<>> => stopped'
  PROVE  DiscInv'
  <1>1. UNCHANGED <<internal, requeued, peeked, nPackets, running, quota, arrived, Waiting>>
    <2>1. UNCHANGED <<internal, requeued, peeked, nPackets, running, quota, arrived>>
      BY DEF discOnly
    <2>q. QED
      BY <2>1, WaitingIs
  <1>2. PathTypes'
    BY <1>1 DEF PathInv, PathTypes
  <1>3. WaitsOnce'
    BY <1>1 DEF PathInv, WaitsOnce, Distinct
  <1>4. DiscOrNot'
    BY <1>1 DEF PathInv, DiscOrNot
  <1>5. WaitsForWake'
    BY <1>1 DEF WaitsForWake, QuotaLeft
  <1>q. QED
    BY <1>2, <1>3, <1>4, <1>5 DEF DiscInv

(* A packet is stored or dropped, and the queue disc runs. *)
LEMMA SendToDiscInv ==
  ASSUME PathInv, NEW p \in Packets, SendToDisc(p)
  PROVE  DiscInv'
  <1>1. /\ hasCallback /\ hasCallback' = hasCallback /\ sent' = sent /\ forgotten' = forgotten
        /\ UNCHANGED <<requeued, peeked>> /\ running' = TRUE /\ quota' = Quota
        /\ Disc!New(p) /\ (Disc!StorePacket(p) \/ Disc!DropBeforeEnqueue(p))
    BY DEF SendToDisc, HasRootDisc, linkOnly, shared, Disc!Enqueue, Disc!RunBegin
  <1>2. /\ Range(sent) \subseteq Range(arrived) /\ forgotten = {}
        /\ peeked <=> requeued # NoPacket
        /\ nPackets = Len(Waiting)
    BY <1>1 DEF PathInv, DiscOrNot
  <1>3. peeked \in BOOLEAN /\ Quota \in 0..Quota
    BY PathFacts DEF PathTypes
  <1>4. CASE Disc!StorePacket(p)
    <2>1. internal' = Append(internal, p) /\ nPackets' = nPackets + 1 /\ arrived' = Append(arrived, p)
      BY <1>4 DEF Disc!StorePacket
    <2>2. p \notin Range(arrived)
      BY <1>1, PathFacts, Elements DEF Disc!New
    <2>3. Waiting' = Append(Waiting, p)
      <3>1. Just(requeued) \in Seq(Packets)
        BY PathFacts, JustIs
      <3>2. Just(requeued) \o Append(internal, p) = Append(Just(requeued) \o internal, p)
        BY <3>1, PathFacts, ConcatLaws
      <3>q. QED
        BY <1>1, <2>1, <3>2, WaitingIs
    <2>4. internal' \in Seq(Packets) /\ arrived' \in Seq(Packets)
      BY <2>1, PathFacts
    <2>5. p \notin Range(Waiting) /\ p \notin Range(sent)
      BY <1>2, <2>2, PathFacts
    <2>6. Distinct(Waiting')
      BY <2>3, <2>5, PathFacts, DistinctAppend
    <2>7. Range(Waiting') = Range(Waiting) \cup {p} /\ Range(arrived') = Range(arrived) \cup {p}
      BY <2>1, <2>3, PathFacts, AppendRange
    <2>8. nPackets' = Len(Waiting')
      BY <1>2, <2>1, <2>3, PathFacts
    <2>q. QED
      BY <1>1, <1>2, <1>3, <2>4, <2>5, <2>6, <2>7, <2>8, PathFacts, DiscInvPrime
  <1>5. CASE Disc!DropBeforeEnqueue(p)
    <2>1. UNCHANGED <<internal, nPackets, arrived>>
      BY <1>5 DEF Disc!DropBeforeEnqueue
    <2>2. Waiting' = Waiting
      BY <1>1, <2>1, WaitingIs
    <2>3. Distinct(Waiting')
      BY <2>2, PathFacts
    <2>q. QED
      BY <1>1, <1>2, <1>3, <2>1, <2>2, <2>3, PathFacts, DiscInvPrime
  <1>q. QED
    BY <1>1, <1>4, <1>5

(* A packet goes straight to the device. *)
LEMMA SendToDeviceInv ==
  ASSUME PathInv, NEW p \in Packets, SendToDevice(p)
  PROVE  DiscInv'
  <1>1. ~hasCallback /\ UNCHANGED <<discOnly, hasCallback>>
    BY DEF SendToDevice, HasRootDisc, linkOnly, Send
  <1>2. Waiting = <<>> /\ ~running
    BY <1>1 DEF PathInv, DiscOrNot
  <1>4. UNCHANGED <<internal, requeued, peeked, running, quota, arrived>> /\ Waiting' = <<>>
    BY <1>1, <1>2, WaitingIs DEF discOnly
  <1>5. PathTypes'
    BY <1>4 DEF PathInv, PathTypes
  <1>6. WaitsOnce'
    BY <1>4, EmptySeqIs DEF WaitsOnce, Distinct
  <1>7. DiscOrNot' /\ WaitsForWake'
    BY <1>1, <1>2, <1>4 DEF DiscOrNot, WaitsForWake
  <1>q. QED
    BY <1>5, <1>6, <1>7 DEF DiscInv

(* Somebody peeks. *)
LEMMA PeekInv == ASSUME PathInv, Peek PROVE DiscInv'
  <1>1. /\ hasCallback /\ hasCallback' = hasCallback /\ sent' = sent /\ forgotten' = forgotten
        /\ stopped' = stopped /\ wakes' = wakes
        /\ Disc!Peek /\ running' = running /\ quota' = quota
    BY DEF Peek, HasRootDisc, linkOnly, shared, Disc!Peek, Disc!runVars
  <1>2. /\ Range(sent) \subseteq Range(arrived) /\ forgotten = {} /\ nPackets = Len(Waiting)
    BY <1>1 DEF PathInv, DiscOrNot
  <1>3. /\ Takes(NoPacket) /\ internal' \in Seq(Packets)
        /\ requeued' \in Packets \cup {NoPacket} /\ peeked' \in BOOLEAN
        /\ peeked' <=> requeued' # NoPacket
        /\ nPackets' = Len(Waiting')
    BY <1>1, <1>2, PathFacts, PeekTakes
  <1>4. Waiting' \in Seq(Packets) /\ arrived' = arrived
    BY <1>3, WaitingIs, JustThen DEF Takes
  <1>5. /\ Distinct(Waiting') /\ Range(Waiting') \subseteq Range(Waiting)
        /\ Waiting' # <<>> => Waiting # <<>>
    BY <1>3, <1>4, PathFacts, TakesOnce
  <1>6. running \in BOOLEAN /\ quota \in 0..Quota
    BY PathFacts DEF PathTypes
  <1>7. hasCallback' /\ ~running' /\ wakes' = 0 /\ QuotaLeft' /\ Waiting' # <<>> => stopped'
    BY <1>1, <1>5 DEF PathInv, WaitsForWake, QuotaLeft
  <1>q. QED
    BY <1>1, <1>2, <1>3, <1>4, <1>5, <1>6, <1>7, PathFacts, DiscInvPrime

(* The run ends because the queue is stopped or nothing is left. *)
LEMMA NothingInv ==
  ASSUME PathInv, UNCHANGED <<linkOnly, shared, forgotten>>, Disc!RestartNothing
  PROVE  DiscInv'
  <1>1. /\ hasCallback' = hasCallback /\ sent' = sent /\ forgotten' = forgotten
        /\ stopped' = stopped /\ wakes' = wakes
        /\ running' = FALSE /\ quota' = quota /\ requeued' = requeued
    BY PathFacts, NothingEffect DEF linkOnly, shared
  <1>2. hasCallback
    BY DEF Disc!RestartNothing, PathInv, DiscOrNot
  <1>3. /\ Range(sent) \subseteq Range(arrived) /\ forgotten = {}
        /\ peeked <=> requeued # NoPacket
        /\ nPackets = Len(Waiting)
    BY <1>2 DEF PathInv, DiscOrNot
  <1>4. peeked \in BOOLEAN /\ quota \in 0..Quota
    BY PathFacts DEF PathTypes
  <1>5. CASE stopped /\ UNCHANGED <<internal, requeued, peeked, nPackets, dropped, arrived>>
    <2>1. Waiting' = Waiting
      BY <1>5, WaitingIs
    <2>2. Distinct(Waiting')
      BY <2>1, PathFacts
    <2>q. QED
      BY <1>1, <1>2, <1>3, <1>4, <1>5, <2>1, <2>2, PathFacts, DiscInvPrime
  <1>6. CASE Disc!Extract(NoPacket) /\ requeued = NoPacket
    <2>1. /\ Takes(NoPacket) /\ internal' \in Seq(Packets) /\ Waiting' = <<>>
          /\ peeked' = FALSE /\ nPackets' = Len(Waiting')
      BY <1>1, <1>3, <1>6, PathFacts, ExtractTakes
    <2>2. arrived' = arrived /\ Waiting' \in Seq(Packets)
      BY <2>1, EmptySeqIs DEF Takes
    <2>3. Distinct(Waiting') /\ Range(Waiting') = {}
      BY <2>1, EmptySeqIs DEF Distinct
    <2>q. QED
      BY <1>1, <1>2, <1>3, <1>4, <1>6, <2>1, <2>2, <2>3, PathFacts, DiscInvPrime
  <1>q. QED
    BY <1>5, <1>6, PathFacts, NothingEffect

(* The run hands a packet to the device. *)
LEMMA RunSendInv ==
  ASSUME PathInv, UNCHANGED forgotten, running, NEW p \in Packets, Send(p), Disc!RestartSend(p)
  PROVE  DiscInv'
  <1>1. hasCallback /\ hasCallback' = hasCallback /\ sent' = Append(sent, p) /\ forgotten' = forgotten
    BY DEF Send, PathInv, DiscOrNot
  <1>2. /\ Disc!Extract(p) /\ requeued' = NoPacket
        /\ running' \in BOOLEAN /\ quota' \in 0..Quota
        /\ ~running' => nPackets' = 0 \/ stopped' \/ (Quota # 0 /\ quota' = 0)
    BY PathFacts, SendEffect
  <1>3. /\ Range(sent) \subseteq Range(arrived) /\ forgotten = {}
        /\ peeked <=> requeued # NoPacket
        /\ nPackets = Len(Waiting)
    BY <1>1 DEF PathInv, DiscOrNot
  <1>4. p # NoPacket
    BY LinkAssumption DEF LinkAssumption
  <1>5. /\ Takes(p) /\ internal' \in Seq(Packets)
        /\ peeked' = FALSE /\ nPackets' = Len(Waiting')
    BY <1>2, <1>3, PathFacts, ExtractTakes
  <1>6. arrived' = arrived /\ Waiting' \in Seq(Packets)
    BY <1>2, <1>5, WaitingIs, JustThen DEF Takes
  <1>7. /\ Distinct(Waiting') /\ Range(Waiting') \subseteq Range(Waiting)
        /\ p \in Range(Waiting) /\ p \notin Range(Waiting')
    BY <1>4, <1>5, <1>6, PathFacts, TakesOnce
  <1>8. Range(sent') = Range(sent) \cup {p}
    BY <1>1, PathFacts, AppendRange
  <1>9. /\ Range(Waiting') \subseteq Range(arrived') /\ Range(Waiting') \cap Range(sent') = {}
        /\ Range(sent') \subseteq Range(arrived')
    BY <1>3, <1>6, <1>7, <1>8, PathFacts
  <1>10. ~running' /\ QuotaLeft' /\ Waiting' # <<>> => stopped'
    <2>1. Waiting' # <<>> => nPackets' # 0
      BY <1>5, <1>6, Elements
    <2>q. QED
      BY <1>2, <2>1 DEF QuotaLeft
  <1>q. QED
    BY <1>1, <1>2, <1>3, <1>5, <1>6, <1>7, <1>9, <1>10, PathFacts, DiscInvPrime

(* The wake callback begins a run. *)
LEMMA WakenedInv == ASSUME PathInv, Wakened PROVE DiscInv'
  <1>1. /\ hasCallback' = hasCallback /\ forgotten' = forgotten /\ sent' = sent
        /\ running' = TRUE /\ quota' = Quota
        /\ UNCHANGED <<internal, requeued, peeked, nPackets, arrived>>
    BY DEF Wakened, linkOnly, Disc!WakeCallback, Disc!RunBegin, Disc!discVars
  <1>2. hasCallback
    BY DEF Wakened, HasRootDisc
  <1>3. Waiting' = Waiting
    BY <1>1, WaitingIs
  <1>4. /\ Range(sent) \subseteq Range(arrived) /\ forgotten = {}
        /\ peeked <=> requeued # NoPacket
        /\ nPackets = Len(Waiting)
    BY <1>2 DEF PathInv, DiscOrNot
  <1>5. peeked \in BOOLEAN /\ Quota \in 0..Quota
    BY PathFacts DEF PathTypes
  <1>6. Distinct(Waiting')
    BY <1>3, PathFacts
  <1>q. QED
    BY <1>1, <1>2, <1>3, <1>4, <1>5, <1>6, PathFacts, DiscInvPrime

(* The queue disc is deleted. *)
LEMMA DeleteInv == ASSUME PathInv, DeleteRootQueueDisc PROVE DiscInv'
  <1>1. /\ hasCallback' = FALSE /\ sent' = sent /\ ~running /\ running' = running
        /\ quota' = quota
        /\ internal' = <<>> /\ requeued' = NoPacket /\ peeked' = FALSE /\ arrived' = arrived
    BY PathFacts DEF DeleteRootQueueDisc, HasRootDisc, SetWakeCallback, Deleted
  <1>2. Waiting' = <<>>
    BY <1>1, WaitingIs, JustThen, EmptySeqIs
  <1>3. PathTypes'
    BY <1>1, EmptySeqIs DEF PathInv, PathTypes
  <1>4. WaitsOnce'
    BY <1>2, EmptySeqIs DEF WaitsOnce, Distinct
  <1>5. DiscOrNot' /\ WaitsForWake'
    BY <1>1, <1>2 DEF DiscOrNot, WaitsForWake
  <1>q. QED
    BY <1>3, <1>4, <1>5 DEF DiscInv

(* Every step keeps the invariant. *)
LEMMA NextPath == ASSUME PathInv, [Next]_vars PROVE PathInv'
  <1>1. LinkInv'
    BY LinkStep, NextFlow DEF PathInv
  <1>2. ASSUME NEW p \in Packets, SendToDisc(p) \/ SendToDevice(p) PROVE DiscInv'
    BY <1>2, SendToDiscInv, SendToDeviceInv
  <1>3. ASSUME RunIteration PROVE DiscInv'
    BY <1>3, NothingInv, RunSendInv DEF RunIteration
  <1>4. ASSUME Wakened \/ Peek \/ DeleteRootQueueDisc PROVE DiscInv'
    BY <1>4, WakenedInv, PeekInv, DeleteInv
  <1>5. ASSUME DeviceCompletes PROVE DiscInv'
    <2>1. UNCHANGED <<discOnly, sent, hasCallback, forgotten>> /\ TransmitComplete /\ wakes = 0
      BY <1>5 DEF DeviceCompletes, TransmitComplete
    <2>2. hasCallback /\ stopped => stopped' \/ wakes' # 0
      BY <2>1, CompleteWakes DEF PathInv
    <2>3. hasCallback /\ ~running /\ wakes' = 0 /\ QuotaLeft /\ Waiting # <<>> => stopped'
      BY <2>1, <2>2 DEF PathInv, WaitsForWake
    <2>q. QED
      BY <2>1, <2>2, <2>3, DiscUnchanged
  <1>6. ASSUME DeviceReceives PROVE DiscInv'
    <2>1. UNCHANGED <<discOnly, sent, hasCallback, forgotten, stopped, wakes>>
      BY <1>6 DEF DeviceReceives, Receive
    <2>2. hasCallback /\ ~running /\ wakes' = 0 /\ QuotaLeft /\ Waiting # <<>> => stopped'
      BY <2>1 DEF PathInv, WaitsForWake
    <2>q. QED
      BY <2>1, <2>2, DiscUnchanged
  <1>7. ASSUME UNCHANGED vars PROVE DiscInv'
    <2>1. UNCHANGED <<discOnly, sent, hasCallback, forgotten, stopped, wakes>>
      BY <1>7 DEF vars, linkOnly, shared
    <2>2. hasCallback /\ ~running /\ wakes' = 0 /\ QuotaLeft /\ Waiting # <<>> => stopped'
      BY <2>1 DEF PathInv, WaitsForWake
    <2>q. QED
      BY <2>1, <2>2, DiscUnchanged
  <1>8. DiscInv'
    BY <1>2, <1>3, <1>4, <1>5, <1>6, <1>7 DEF Next
  <1>q. QED
    BY <1>1, <1>8 DEF PathInv, DiscInv

(* The inductive invariant holds in every state of the path. *)
THEOREM PathCorrect == Spec => []PathInv
  <1>1. Init => PathInv
    BY InitPath
  <1>2. PathInv /\ [Next]_vars => PathInv'
    BY NextPath
  <1>q. QED
    BY <1>1, <1>2, PTL DEF Spec

(* The composition keeps to what PointToPointLink expects of its users:      *)
(* TrafficControlLayer::Send and the run of the queue disc never send into a *)
(* stopped queue and never send a packet twice, and an executed wake event   *)
(* is a run of a queue disc that is still there.                             *)
THEOREM LinkCorrect == Spec => LinkSpec
  <1>1. Init => LinkInit
    BY DEF Init
  <1>2. PathInv /\ [Next]_vars => [LinkNext]_linkVars
    BY LinkStep
  <1>q. QED
    BY <1>1, <1>2, PathCorrect, PTL DEF Spec, LinkSpec

(* So what was proved of the link holds in the path: with a device queue     *)
(* limited in packets, for example, no packet is lost at the device, whether *)
(* there is a queue disc or not.                                             *)
THEOREM PathFlowControl ==
  ASSUME FitsOne, CostsCovered
  PROVE  Spec => []NoDiscard
  BY LinkCorrect, FlowControlCorrect, PTL

(* The end of a transmission is for the queue disc a wake, or nothing. *)
LEMMA CompleteIsWake ==
  ASSUME PathInv, DeviceCompletes, hasCallback
  PROVE  Disc!Next \/ UNCHANGED Disc!vars
  <1>1. stopped \in BOOLEAN /\ ~running /\ wakes = 0 /\ UNCHANGED <<discOnly, sent>>
    BY PathFacts DEF DeviceCompletes, TransmitComplete
  <1>2. UNCHANGED <<stopped, wakes>> \/ Wake(stopped)
    BY DEF DeviceCompletes, TransmitComplete, TransmitCompleteIdle, TransmitCompleteNext,
           PacketDequeued
  <1>3. ASSUME stopped' = stopped, wakes' = wakes PROVE UNCHANGED Disc!vars
    BY <1>1, <1>3 DEF discOnly, Disc!vars, Disc!discVars, Disc!runVars, Disc!enqueueStats
  <1>4. CASE Wake(stopped) /\ stopped
    <2>1. stopped' = FALSE /\ wakes' = 1
      BY <1>1, <1>4 DEF Wake
    <2>2. [q \in {TheQueue} |-> stopped][TheQueue]
      BY <1>4, Zenon
    <2>3. [q \in {TheQueue} |-> stopped']
            = [[q \in {TheQueue} |-> stopped] EXCEPT ![TheQueue] = FALSE]
      BY <2>1
    <2>4. Disc!ScheduleWake(TRUE)
      BY <1>1, <2>1 DEF Disc!ScheduleWake
    <2>5. UNCHANGED <<Disc!discVars, Disc!runVars, arrived, sent>>
      BY <1>1 DEF discOnly, Disc!discVars, Disc!runVars, Disc!enqueueStats
    <2>6. Disc!DeviceWake(TheQueue)
      BY <1>1, <2>2, <2>3, <2>4, <2>5, Zenon DEF Disc!DeviceWake
    <2>q. QED
      BY <2>6 DEF Disc!Next
  <1>5. CASE Wake(stopped) /\ ~stopped
    <2>1. stopped = FALSE
      BY <1>1, <1>5, Zenon
    <2>2. stopped' = FALSE /\ wakes' = 0 + 0
      BY <1>1, <1>5, <2>1 DEF Wake
    <2>3. wakes' = wakes
      BY <1>1, <2>2
    <2>4. stopped' = stopped
      BY <2>1, <2>2, Zenon
    <2>q. QED
      BY <1>3, <2>3, <2>4
  <1>q. QED
    BY <1>2, <1>3, <1>4, <1>5

(* The queue disc in the path behaves as QueueDisc says for as long as it is *)
(* there: the device stops and wakes its queue as QueueDisc expects, with    *)
(* one wake callback pending at most.                                        *)
THEOREM DiscCorrect == Spec => DiscSpec
  <1>1. Init => Disc!Init
    BY DEF Init
  <1>2. PathInv /\ [Next]_vars => [HasRootDisc' => Disc!Next]_(Disc!vars)
    <2> SUFFICES ASSUME PathInv, [Next]_vars, hasCallback'
                 PROVE  Disc!Next \/ UNCHANGED Disc!vars
      BY DEF HasRootDisc
    <2>1. CASE UNCHANGED <<discOnly, shared>>
      BY <2>1 DEF discOnly, shared, Disc!vars, Disc!discVars, Disc!runVars, Disc!enqueueStats
    <2>2. ASSUME NEW p \in Packets, SendToDisc(p) PROVE Disc!Next
      BY <2>2 DEF SendToDisc, Disc!Next
    <2>3. ASSUME NEW p \in Packets, SendToDevice(p) PROVE FALSE
      BY <2>3 DEF SendToDevice, HasRootDisc, linkOnly, Send
    <2>4. CASE RunIteration
      BY <2>4 DEF RunIteration, Disc!Next, Disc!Restart
    <2>5. CASE Wakened
      BY <2>5 DEF Wakened, Disc!Next
    <2>6. CASE Peek
      BY <2>6 DEF Peek, Disc!Next
    <2>7. CASE DeleteRootQueueDisc
      BY <2>7, PathFacts DEF DeleteRootQueueDisc, SetWakeCallback, HasRootDisc
    <2>8. CASE DeviceCompletes
      <3>1. hasCallback
        BY <2>8 DEF DeviceCompletes, TransmitComplete
      <3>q. QED
        BY <2>8, <3>1, CompleteIsWake
    <2>9. CASE DeviceReceives
      BY <2>1, <2>9 DEF DeviceReceives, Receive, shared
    <2>10. CASE UNCHANGED vars
      BY <2>1, <2>10 DEF vars
    <2>q. QED
      BY <2>2, <2>3, <2>4, <2>5, <2>6, <2>7, <2>8, <2>9, <2>10 DEF Next
  <1>q. QED
    BY <1>1, <1>2, PathCorrect, PTL DEF Spec, DiscSpec

(* The link does not idle while the queue disc holds a packet and no run is  *)
(* due, unless the last run ended by using up its quota; a device queue that *)
(* is too small for one packet would stop for ever.                          *)
THEOREM IdleOnlyByQuota ==
  ASSUME FitsOne
  PROVE  Spec => [](QuotaLeft => WorkConserving)
  <1>1. PathInv => (QuotaLeft => WorkConserving)
    <2> SUFFICES ASSUME PathInv, QuotaLeft, txState = "READY", ~running, wakes = 0
                 PROVE  internal = <<>> /\ requeued = NoPacket
      BY DEF WorkConserving
    <2>1. ~stopped
      <3>1. devQueue = <<>>
        BY DEF PathInv, LinkInv, IdleIsEmpty
      <3>2. used = 0
        BY <3>1, EmptySum DEF PathInv, LinkInv, LinkTypeOK
      <3>3. stopped => 0 + Unit > MaxSize
        BY <3>2 DEF PathInv, LinkInv, StoppedIsLow
      <3>q. QED
        BY <3>3, Costs DEF FitsOne
    <2>2. Waiting = <<>>
      BY <2>1 DEF PathInv, DiscOrNot, WaitsForWake
    <2>q. QED
      BY <2>2, PathFacts, WaitingIs, JustThen
  <1>q. QED
    BY <1>1, PathCorrect, PTL

(* With the quota that never runs out the path is work conserving. *)
THEOREM WorkCorrect ==
  ASSUME FitsOne, Quota = 0
  PROVE  Spec => []WorkConserving
  <1>1. (QuotaLeft => WorkConserving) => WorkConserving
    BY DEF QuotaLeft
  <1>q. QED
    BY <1>1, IdleOnlyByQuota, PTL

-----------------------------------------------------------------------------
(* The path is a pipe                                                        *)

(* What FifoPipe sees of the path. *)
Offered == Range(arrived) \cup Range(sent) \cup dropped \cup forgotten
Pending == wire \o devQueue \o Disc!Held \o internal
Lost    == dropped \cup discarded \cup corrupted \cup forgotten

(* The packets that the device and the channel hold. *)
Below == wire \o devQueue

(* Four sequences in a row are two and two. *)
Regroups(a, b, c, d) ==
  /\ ((a \o b) \o c) \o d = (a \o b) \o (c \o d)
  /\ a \o b \in Seq(Packets) /\ c \o d \in Seq(Packets)

LEMMA FourParts ==
  ASSUME NEW a \in Seq(Packets), NEW b \in Seq(Packets),
         NEW c \in Seq(Packets), NEW d \in Seq(Packets)
  PROVE  Regroups(a, b, c, d)
  <1>1. a \o b \in Seq(Packets) /\ c \o d \in Seq(Packets)
    OBVIOUS
  <1>2. ((a \o b) \o c) \o d = (a \o b) \o (c \o d)
    BY <1>1
  <1>q. QED
    BY <1>1, <1>2 DEF Regroups

LEMMA PendingIs ==
  ASSUME PathInv, PathInv'
  PROVE  /\ Pending = Below \o Waiting /\ Pending' = Below' \o Waiting'
         /\ Below \in Seq(Packets) /\ Below' \in Seq(Packets)
         /\ Waiting \in Seq(Packets) /\ Waiting' \in Seq(Packets)
  <1>1. /\ wire \in Seq(Packets) /\ devQueue \in Seq(Packets)
        /\ requeued \in Packets \cup {NoPacket} /\ internal \in Seq(Packets)
    BY DEF PathInv, LinkInv, LinkTypeOK, PathTypes
  <1>2. /\ wire' \in Seq(Packets) /\ devQueue' \in Seq(Packets)
        /\ requeued' \in Packets \cup {NoPacket} /\ internal' \in Seq(Packets)
    BY DEF PathInv, LinkInv, LinkTypeOK, PathTypes
  <1>3. /\ Pending = ((wire \o devQueue) \o Just(requeued)) \o internal
        /\ Pending' = ((wire' \o devQueue') \o Just(requeued')) \o internal'
    BY DEF Pending, Disc!Held, Just
  <1>4. Just(requeued) \in Seq(Packets) /\ Just(requeued') \in Seq(Packets)
    BY <1>1, <1>2, JustIs
  <1>5. /\ ((wire \o devQueue) \o Just(requeued)) \o internal
             = (wire \o devQueue) \o (Just(requeued) \o internal)
        /\ wire \o devQueue \in Seq(Packets)
        /\ Just(requeued) \o internal \in Seq(Packets)
    <2>1. Regroups(wire, devQueue, Just(requeued), internal)
      BY <1>1, <1>4, FourParts
    <2>q. QED
      BY <2>1 DEF Regroups
  <1>6. /\ ((wire' \o devQueue') \o Just(requeued')) \o internal'
             = (wire' \o devQueue') \o (Just(requeued') \o internal')
        /\ wire' \o devQueue' \in Seq(Packets)
        /\ Just(requeued') \o internal' \in Seq(Packets)
    <2>1. Regroups(wire', devQueue', Just(requeued'), internal')
      BY <1>2, <1>4, FourParts
    <2>q. QED
      BY <2>1 DEF Regroups
  <1>7. Below = wire \o devQueue /\ Below' = wire' \o devQueue'
    BY DEF Below
  <1>q. QED
    BY <1>3, <1>5, <1>6, <1>7, WaitingIs

(* What the device does with a packet handed to Send: it discards it, or it  *)
(* puts it behind all that the device and the channel hold.                  *)
LEMMA SendBelow ==
  ASSUME LinkInv, NEW p \in Packets, Send(p)
  PROVE  /\ \/ Below' = Below /\ discarded' = discarded \cup {p}
            \/ Below' = Below \o <<p>> /\ discarded' = discarded
         /\ sent' = Append(sent, p) /\ received' = received /\ corrupted' = corrupted
  <1>1. /\ wire \in Seq(Packets) /\ devQueue \in Seq(Packets) /\ <<p>> \in Seq(Packets)
        /\ Below \in Seq(Packets)
    BY Concat DEF LinkInv, LinkTypeOK, Below
  <1>2. sent' = Append(sent, p) /\ received' = received /\ corrupted' = corrupted
    BY DEF Send, SendDiscarded, SendQueued, SendNow, rxVars
  <1>3. CASE SendDiscarded(p)
    BY <1>2, <1>3 DEF SendDiscarded, queueVars, Below
  <1>4. CASE SendQueued(p)
    <2>1. devQueue' = Append(devQueue, p) /\ wire' = wire /\ discarded' = discarded
      BY <1>4 DEF SendQueued, Inserted
    <2>2. wire \o Append(devQueue, p) = Append(wire \o devQueue, p)
      BY <1>1, ConcatLaws
    <2>3. Append(Below, p) = Below \o <<p>>
      BY <1>1, ConcatLaws
    <2>q. QED
      BY <1>2, <2>1, <2>2, <2>3 DEF Below
  <1>5. CASE SendNow(p)
    <2>1. devQueue = <<>>
      BY <1>5 DEF SendNow, LinkInv, IdleIsEmpty
    <2>2. Inserted(p) = <<p>>
      BY <2>1 DEF Inserted
    <2>3. devQueue' = <<>> /\ wire' = Append(wire, p) /\ discarded' = discarded
      BY <1>5, <2>2 DEF SendNow, TransmitStart, Deliver
    <2>4. Append(wire, p) = wire \o <<p>> /\ wire \o <<>> = wire
          /\ (wire \o <<p>>) \o <<>> = wire \o <<p>>
      <3>1. wire \o <<p>> \in Seq(Packets)
        BY <1>1, Concat
      <3>q. QED
        BY <1>1, <3>1, ConcatLaws
    <2>q. QED
      BY <1>2, <2>1, <2>3, <2>4 DEF Below
  <1>q. QED
    BY <1>3, <1>4, <1>5 DEF Send

(* A stretch of the pipe is lost. *)
LEMMA LoseStretch ==
  ASSUME NEW f \in Seq(Packets), NEW g \in Seq(Packets), NEW b \in Seq(Packets),
         Pending = f \o (g \o b), Pending' = f \o b,
         Lost' = Lost \cup Range(g), Offered' = Offered, received' = received
  PROVE  Pipe!Lose
  <1>1. CutOut(Pending, f \o b, Lost, Lost \cup Range(g))
    BY Cut
  <1>2. CutOut(Pending, Pending', Lost, Lost')
    BY <1>1
  <1>q. QED
    BY <1>2 DEF CutOut, Pipe!Lose, Pending, Lost, Offered

(* Nothing that the pipe sees changes. *)
LEMMA PipeUnchanged ==
  ASSUME Pending' = Pending, Lost' = Lost, Offered' = Offered, received' = received
  PROVE  UNCHANGED Pipe!pipeVars
  BY DEF Pipe!pipeVars, Pending, Lost, Offered

(* What is dropped at the head of what waits has been offered before. *)
LEMMA GoneOffered ==
  ASSUME PathInv, NEW gone \in Seq(Packets), NEW rest \in Seq(Packets), Waiting = gone \o rest
  PROVE  Range(gone) \subseteq Range(arrived) /\ Range(rest) \subseteq Range(arrived)
  <1>1. Range(Waiting) = Range(gone) \cup Range(rest)
    BY Concat
  <1>q. QED
    BY <1>1, PathFacts

(* Dequeuing or peeking, with no packet taken out, loses what is dropped. *)
LEMMA TakesNothingPipe ==
  ASSUME PathInv, PathInv', Takes(NoPacket),
         UNCHANGED <<linkOnly, sent, forgotten>>
  PROVE  Pipe!Lose
  <1>1. PICK gone \in Seq(Packets) :
          Waiting = gone \o (Just(NoPacket) \o Waiting') /\ dropped' = dropped \cup Range(gone)
    BY DEF Takes
  <1>2. /\ arrived' = arrived /\ sent' = sent /\ forgotten' = forgotten
        /\ received' = received /\ discarded' = discarded /\ corrupted' = corrupted
        /\ Below' = Below
    BY DEF Takes, linkOnly, Below
  <1>3. Waiting = gone \o Waiting'
    BY <1>1, PendingIs, JustThen
  <1>4. Pending = Below \o (gone \o Waiting') /\ Pending' = Below \o Waiting'
    BY <1>2, <1>3, PendingIs
  <1>5. Range(gone) \subseteq Range(arrived)
    BY <1>3, PendingIs, GoneOffered
  <1>6. Lost' = Lost \cup Range(gone) /\ Offered' = Offered
    BY <1>1, <1>2, <1>5 DEF Lost, Offered
  <1>q. QED
    BY <1>2, <1>4, <1>6, PendingIs, LoseStretch

(* The steps of the queue disc *)

LEMMA SendToDiscPipe ==
  ASSUME PathInv, PathInv', NEW p \in Packets, SendToDisc(p)
  PROVE  Pipe!Offer(p)
  <1>1. /\ hasCallback /\ requeued' = requeued /\ sent' = sent /\ forgotten' = forgotten
        /\ received' = received /\ discarded' = discarded /\ corrupted' = corrupted
        /\ Below' = Below
        /\ Disc!New(p) /\ (Disc!StorePacket(p) \/ Disc!DropBeforeEnqueue(p))
    BY DEF SendToDisc, HasRootDisc, linkOnly, shared, Disc!Enqueue, Below
  <1>2. p \notin Offered
    <2>1. p \notin dropped /\ p \notin Range(arrived)
      BY <1>1, PathFacts, Elements DEF Disc!New
    <2>2. Range(sent) \subseteq Range(arrived) /\ forgotten = {}
      BY <1>1 DEF PathInv, DiscOrNot
    <2>q. QED
      BY <2>1, <2>2 DEF Offered
  <1>3. CASE Disc!StorePacket(p)
    <2>1. internal' = Append(internal, p) /\ arrived' = Append(arrived, p) /\ dropped' = dropped
      BY <1>3 DEF Disc!StorePacket
    <2>2. Waiting' = Append(Waiting, p)
      <3>1. Just(requeued) \in Seq(Packets)
        BY PathFacts, JustIs
      <3>2. Just(requeued) \o Append(internal, p) = Append(Just(requeued) \o internal, p)
        BY <3>1, PathFacts, ConcatLaws
      <3>q. QED
        BY <1>1, <2>1, <3>2, WaitingIs
    <2>3. Pending' = Append(Pending, p)
      <3>1. Below \o Append(Waiting, p) = Append(Below \o Waiting, p)
        BY PendingIs, ConcatLaws
      <3>q. QED
        BY <1>1, <2>2, <3>1, PendingIs
    <2>4. Range(arrived') = Range(arrived) \cup {p}
      BY <2>1, PathFacts, AppendRange
    <2>5. Offered' = Offered \cup {p} /\ Lost' = Lost
      BY <1>1, <2>1, <2>4 DEF Offered, Lost
    <2>q. QED
      BY <1>1, <1>2, <2>3, <2>5 DEF Pipe!Offer, Pending, Lost, Offered
  <1>4. CASE Disc!DropBeforeEnqueue(p)
    <2>1. internal' = internal /\ arrived' = arrived /\ dropped' = dropped \cup {p}
      BY <1>4 DEF Disc!DropBeforeEnqueue
    <2>2. Pending' = Pending
      BY <1>1, <2>1, PendingIs, WaitingIs
    <2>3. Offered' = Offered \cup {p} /\ Lost' = Lost \cup {p}
      BY <1>1, <2>1 DEF Offered, Lost
    <2>q. QED
      BY <1>1, <1>2, <2>2, <2>3 DEF Pipe!Offer, Pending, Lost, Offered
  <1>q. QED
    BY <1>1, <1>3, <1>4

(* A packet that goes straight to the device: nothing waits. *)
LEMMA SendToDevicePipe ==
  ASSUME PathInv, PathInv', NEW p \in Packets, SendToDevice(p)
  PROVE  Pipe!Offer(p)
  <1>1. /\ ~hasCallback /\ New(p) /\ Disc!New(p) /\ p \notin forgotten
        /\ UNCHANGED <<internal, requeued, arrived, dropped>>
    BY DEF SendToDevice, HasRootDisc, discOnly
  <1>2. Waiting = <<>> /\ Waiting' = <<>>
    BY <1>1, WaitingIs DEF PathInv, DiscOrNot
  <1>3. Pending = Below /\ Pending' = Below'
    BY <1>2, PendingIs, ConcatLaws
  <1>4. p \notin Offered
    <2>1. p \notin Range(arrived) /\ p \notin dropped
      BY <1>1, PathFacts, Elements DEF Disc!New
    <2>2. p \notin Range(sent)
      BY <1>1, PathFacts, Elements DEF New
    <2>q. QED
      BY <1>1, <2>1, <2>2 DEF Offered
  <1>5. CASE forgotten' = forgotten \cup {p} /\ UNCHANGED <<linkOnly, shared>>
    <2>1. /\ Below' = Below /\ sent' = sent /\ received' = received /\ discarded' = discarded
          /\ corrupted' = corrupted
      BY <1>5 DEF linkOnly, shared, Below
    <2>2. Offered' = Offered \cup {p} /\ Lost' = Lost \cup {p} /\ Pending' = Pending
      BY <1>1, <1>3, <1>5, <2>1 DEF Offered, Lost
    <2>q. QED
      BY <1>4, <2>1, <2>2 DEF Pipe!Offer, Pending, Lost, Offered
  <1>6. CASE UNCHANGED forgotten /\ Send(p)
    <2>1. /\ \/ Below' = Below /\ discarded' = discarded \cup {p}
             \/ Below' = Below \o <<p>> /\ discarded' = discarded
          /\ sent' = Append(sent, p) /\ received' = received /\ corrupted' = corrupted
      BY <1>6, SendBelow DEF PathInv
    <2>2. Range(sent') = Range(sent) \cup {p}
      BY <2>1, PathFacts, AppendRange
    <2>3. Offered' = Offered \cup {p}
      BY <1>1, <1>6, <2>2 DEF Offered
    <2>4. \/ Pending' = Pending /\ Lost' = Lost \cup {p}
          \/ Pending' = Append(Pending, p) /\ Lost' = Lost
      <3>1. Append(Below, p) = Below \o <<p>>
        BY PendingIs, ConcatLaws
      <3>q. QED
        BY <1>1, <1>3, <1>6, <2>1, <3>1 DEF Lost
    <2>q. QED
      BY <1>4, <2>1, <2>3, <2>4 DEF Pipe!Offer, Pending, Lost, Offered
  <1>q. QED
    BY <1>5, <1>6 DEF SendToDevice

(* The run hands a packet down, after dropping some. *)
LEMMA RunSendPipe ==
  ASSUME PathInv, PathInv', UNCHANGED forgotten, running,
         NEW p \in Packets, Send(p), Disc!RestartSend(p)
  PROVE  Pipe!Lose
  <1>1. /\ \/ Below' = Below /\ discarded' = discarded \cup {p}
           \/ Below' = Below \o <<p>> /\ discarded' = discarded
        /\ sent' = Append(sent, p) /\ received' = received /\ corrupted' = corrupted
    BY SendBelow DEF PathInv
  <1>2. Takes(p)
    BY PathFacts, SendEffect, ExtractTakes
  <1>3. PICK gone \in Seq(Packets) :
          Waiting = gone \o (<<p>> \o Waiting') /\ dropped' = dropped \cup Range(gone)
    BY <1>2, JustIs DEF Takes
  <1>4. /\ <<p>> \in Seq(Packets) /\ <<p>> \o Waiting' \in Seq(Packets)
        /\ gone \o <<p>> \in Seq(Packets) /\ Range(<<p>>) = {p}
        /\ Range(<<p>> \o Waiting') = {p} \cup Range(Waiting')
        /\ Range(gone \o <<p>>) = Range(gone) \cup {p}
    <2>1. <<p>> \in Seq(Packets) /\ Range(<<p>>) = {p}
      BY ConcatLaws, EmptySeqIs
    <2>2. Waiting' \in Seq(Packets)
      BY PendingIs
    <2>3. <<p>> \o Waiting' \in Seq(Packets) /\ Range(<<p>> \o Waiting') = {p} \cup Range(Waiting')
      BY <2>1, <2>2, Concat
    <2>4. gone \o <<p>> \in Seq(Packets) /\ Range(gone \o <<p>>) = Range(gone) \cup {p}
      BY <2>1, Concat
    <2>q. QED
      BY <2>1, <2>3, <2>4
  <1>5. Range(gone) \subseteq Range(arrived) /\ p \in Range(arrived)
    BY <1>3, <1>4, GoneOffered
  <1>6. Range(sent') = Range(sent) \cup {p} /\ arrived' = arrived
    BY <1>1, <1>2, PathFacts, AppendRange DEF Takes
  <1>7. Offered' = Offered
    BY <1>3, <1>5, <1>6 DEF Offered
  <1>8. CASE Below' = Below /\ discarded' = discarded \cup {p}
    <2>1. Pending = Below \o ((gone \o <<p>>) \o Waiting') /\ Pending' = Below \o Waiting'
      BY <1>3, <1>4, <1>8, PendingIs, ConcatLaws
    <2>2. Lost' = Lost \cup Range(gone \o <<p>>)
      BY <1>1, <1>3, <1>4, <1>8 DEF Lost
    <2>q. QED
      BY <1>1, <1>4, <1>7, <2>1, <2>2, PendingIs, LoseStretch
  <1>9. CASE Below' = Below \o <<p>> /\ discarded' = discarded
    <2>1. Pending' = Below \o (<<p>> \o Waiting')
      <3>1. (Below \o <<p>>) \o Waiting' = Below \o (<<p>> \o Waiting')
        BY <1>4, PendingIs, ConcatLaws
      <3>2. Pending' = Below' \o Waiting'
        BY PendingIs
      <3>q. QED
        BY <1>9, <3>1, <3>2
    <2>2. Pending = Below \o (gone \o (<<p>> \o Waiting'))
      BY <1>3, PendingIs
    <2>3. Lost' = Lost \cup Range(gone)
      BY <1>1, <1>3, <1>9 DEF Lost
    <2>q. QED
      BY <1>1, <1>4, <1>7, <2>1, <2>2, <2>3, PendingIs, LoseStretch
  <1>q. QED
    BY <1>1, <1>8, <1>9

LEMMA NothingPipe ==
  ASSUME PathInv, PathInv', UNCHANGED <<linkOnly, shared, forgotten>>, Disc!RestartNothing
  PROVE  Pipe!Lose \/ UNCHANGED Pipe!pipeVars
  <1>1. requeued' = requeued
    BY PathFacts, NothingEffect
  <1>2. CASE stopped /\ UNCHANGED <<internal, requeued, peeked, nPackets, dropped, arrived>>
    <2>1. Pending' = Pending /\ Lost' = Lost /\ Offered' = Offered /\ received' = received
      BY <1>2 DEF linkOnly, shared, Pending, Disc!Held, Lost, Offered
    <2>q. QED
      BY <2>1, PipeUnchanged
  <1>3. CASE Disc!Extract(NoPacket) /\ requeued = NoPacket
    <2>1. Takes(NoPacket)
      BY <1>1, <1>3, PathFacts, ExtractTakes
    <2>2. UNCHANGED <<linkOnly, sent, forgotten>>
      BY DEF shared
    <2>q. QED
      BY <2>1, <2>2, TakesNothingPipe
  <1>q. QED
    BY <1>2, <1>3, PathFacts, NothingEffect

(* The queue disc is deleted: all that waits is lost, the rest is not. *)
LEMMA DeletePipe ==
  ASSUME PathInv, PathInv', DeleteRootQueueDisc
  PROVE  Pipe!Lose
  <1>1. /\ internal' = <<>> /\ requeued' = NoPacket /\ arrived' = arrived
        /\ dropped' = dropped /\ forgotten' = forgotten \cup Range(Waiting)
        /\ sent' = sent /\ received' = received /\ discarded' = discarded
        /\ corrupted' = corrupted /\ Below' = Below
    BY DEF DeleteRootQueueDisc, SetWakeCallback, Deleted, queueVars, rxVars, Below, Waiting
  <1>2. Waiting' = <<>>
    BY <1>1, WaitingIs, JustThen, EmptySeqIs
  <1>3. Waiting \o <<>> = Waiting /\ <<>> \in Seq(Packets)
    BY PendingIs, ConcatLaws, EmptySeqIs
  <1>4. Pending = Below \o (Waiting \o <<>>) /\ Pending' = Below \o <<>>
    BY <1>1, <1>2, <1>3, PendingIs
  <1>5. Range(Waiting) \subseteq Range(arrived)
    BY PathFacts
  <1>6. Lost' = Lost \cup Range(Waiting) /\ Offered' = Offered
    BY <1>1, <1>5 DEF Lost, Offered
  <1>q. QED
    BY <1>1, <1>3, <1>4, <1>6, PendingIs, LoseStretch

(* The steps of the device *)

(* A transmission that starts moves a packet from the device queue to the    *)
(* channel, and none past another.                                           *)
LEMMA CompletePipe ==
  ASSUME PathInv, DeviceCompletes
  PROVE  UNCHANGED Pipe!pipeVars
  <1>1. /\ UNCHANGED <<internal, requeued, arrived, dropped, forgotten, sent, discarded,
                       corrupted, received>>
        /\ TransmitCompleteIdle \/ TransmitCompleteNext
    BY DEF DeviceCompletes, TransmitComplete, discOnly, rxVars
  <1>2. wire \in Seq(Packets) /\ devQueue \in Seq(Packets)
    BY DEF PathInv, LinkInv, LinkTypeOK
  <1>3. Below' = Below
    <2>1. CASE TransmitCompleteIdle
      BY <2>1 DEF TransmitCompleteIdle, queueVars, Below
    <2>2. CASE TransmitCompleteNext
      <3>1. /\ devQueue # <<>> /\ devQueue' = Tail(devQueue)
            /\ wire' = Append(wire, Head(devQueue))
        BY <2>2 DEF TransmitCompleteNext, TransmitStart, Deliver, QueueEmpty
      <3>2. Head(devQueue) \in Packets /\ Tail(devQueue) \in Seq(Packets)
        BY <1>2, <3>1
      <3>3. devQueue = <<Head(devQueue)>> \o Tail(devQueue)
        BY <1>2, <3>1, ConcatLaws
      <3>4. /\ Append(wire, Head(devQueue)) = wire \o <<Head(devQueue)>>
            /\ <<Head(devQueue)>> \in Seq(Packets)
        BY <1>2, <3>2, ConcatLaws
      <3>5. (wire \o <<Head(devQueue)>>) \o Tail(devQueue)
              = wire \o (<<Head(devQueue)>> \o Tail(devQueue))
        BY <1>2, <3>2, <3>4, ConcatLaws
      <3>q. QED
        BY <3>1, <3>3, <3>4, <3>5 DEF Below
    <2>q. QED
      BY <1>1, <2>1, <2>2
  <1>4. Pending' = Pending
    BY <1>1, <1>3 DEF Pending, Below, Disc!Held
  <1>5. Lost' = Lost /\ Offered' = Offered
    BY <1>1 DEF Lost, Offered
  <1>q. QED
    BY <1>1, <1>4, <1>5, PipeUnchanged

(* The receiver takes the oldest packet, or loses it to the error model. *)
LEMMA ReceivePipe ==
  ASSUME PathInv, PathInv', DeviceReceives
  PROVE  Pipe!Deliver \/ Pipe!Lose
  <1>1. /\ UNCHANGED <<internal, requeued, arrived, dropped, forgotten, sent, discarded, devQueue>>
        /\ wire # <<>> /\ wire' = Tail(wire)
        /\ \/ corrupted' = corrupted \cup {Head(wire)} /\ received' = received
           \/ received' = Append(received, Head(wire)) /\ corrupted' = corrupted
    BY DEF DeviceReceives, Receive, discOnly, queueVars
  <1>2. wire \in Seq(Packets) /\ devQueue \in Seq(Packets)
    BY DEF PathInv, LinkInv, LinkTypeOK
  <1>3. Waiting' = Waiting
    BY <1>1, WaitingIs
  <1>4. /\ Head(wire) \in Packets /\ Tail(wire) \in Seq(Packets)
        /\ Tail(wire) \o devQueue \in Seq(Packets)
    BY <1>1, <1>2, Concat
  <1>5. /\ Head(Pending) = Head(wire) /\ Pending' = Tail(Pending)
        /\ Pending \in Seq(Packets) /\ Pending # <<>>
    <2>1. /\ Head(Below) = Head(wire) /\ Tail(Below) = Tail(wire) \o devQueue
      BY <1>1, <1>2, ConcatLaws DEF Below
    <2>2. Below' = Tail(Below)
      BY <1>1, <2>1 DEF Below
    <2>3. Below # <<>>
      <3>1. Len(Below) = Len(wire) + Len(devQueue)
        BY <1>2, Concat DEF Below
      <3>2. Len(wire) \in Nat /\ Len(wire) # 0 /\ Len(devQueue) \in Nat
        BY <1>1, <1>2, Elements
      <3>q. QED
        BY <3>1, <3>2, EmptySeqIs
    <2>4. /\ Head(Below \o Waiting) = Head(Below)
          /\ Tail(Below \o Waiting) = Tail(Below) \o Waiting
      BY <2>3, PendingIs, ConcatLaws
    <2>5. Pending \in Seq(Packets) /\ Len(Pending) = Len(Below) + Len(Waiting)
      BY PendingIs, Concat
    <2>6. Pending # <<>>
      <3>1. Len(Below) \in Nat /\ Len(Below) # 0 /\ Len(Waiting) \in Nat
        BY <2>3, PendingIs, Elements
      <3>q. QED
        BY <2>5, <3>1, EmptySeqIs
    <2>q. QED
      BY <1>3, <2>1, <2>2, <2>4, <2>5, <2>6, PendingIs
  <1>6. Offered' = Offered
    BY <1>1 DEF Offered
  <1>7. CASE corrupted' = corrupted \cup {Head(wire)} /\ received' = received
    <2>1. Pending = <<Head(Pending)>> \o Tail(Pending) /\ Tail(Pending) \in Seq(Packets)
      BY <1>5, ConcatLaws
    <2>2. <<Head(wire)>> \in Seq(Packets) /\ Range(<<Head(wire)>>) = {Head(wire)}
      BY <1>4, ConcatLaws, EmptySeqIs
    <2>3. /\ Pending = <<>> \o (<<Head(wire)>> \o Tail(Pending))
          /\ Pending' = <<>> \o Tail(Pending)
      BY <1>5, <2>1, ConcatLaws
    <2>4. Lost' = Lost \cup Range(<<Head(wire)>>)
      BY <1>1, <1>7, <2>2, SMTT(40) DEF Lost
    <2>5. Pipe!Lose
      BY <1>6, <1>7, <2>1, <2>2, <2>3, <2>4, EmptySeqIs, LoseStretch
    <2>q. QED
      BY <2>5
  <1>8. CASE received' = Append(received, Head(wire)) /\ corrupted' = corrupted
    <2>1. Lost' = Lost
      BY <1>1, <1>8 DEF Lost
    <2>2. Pipe!Deliver
      BY <1>5, <1>6, <1>8, <2>1 DEF Pipe!Deliver, Pending, Lost, Offered
    <2>q. QED
      BY <2>2
  <1>q. QED
    BY <1>1, <1>7, <1>8

(* The whole path, whatever is queued, peeked, stopped, woken or deleted,    *)
(* delivers what was handed to TrafficControlLayer::Send once each, in the   *)
(* order it was handed over, and loses only what is recorded as lost: it     *)
(* implements FifoPipe.                                                      *)
THEOREM PipeCorrect == Spec => PipeSpec
  <1>1. Init => Pipe!Init
    <2> SUFFICES ASSUME Init PROVE Pipe!Init
      OBVIOUS
    <2>1. /\ internal = <<>> /\ requeued = NoPacket /\ arrived = <<>> /\ sent = <<>>
          /\ forgotten = {} /\ dropped = {} /\ discarded = {} /\ corrupted = {}
          /\ wire = <<>> /\ devQueue = <<>> /\ received = <<>>
      BY DEF Init, Disc!Init, LinkInit
    <2>2. Offered = {} /\ Lost = {}
      BY <2>1, EmptySeqIs DEF Offered, Lost
    <2>3. Pending = <<>>
      <3>1. Pending = ((<<>> \o <<>>) \o <<>>) \o <<>>
        BY <2>1 DEF Pending, Disc!Held
      <3>q. QED
        BY <3>1, ConcatLaws, EmptySeqIs
    <2>q. QED
      BY <2>1, <2>2, <2>3 DEF Pipe!Init, Pending, Lost, Offered
  <1>2. PathInv /\ PathInv' /\ [Next]_vars => [Pipe!Next]_(Pipe!pipeVars)
    <2> SUFFICES ASSUME PathInv, PathInv', [Next]_vars
                 PROVE  Pipe!Next \/ UNCHANGED Pipe!pipeVars
      OBVIOUS
    <2>1. ASSUME NEW p \in Packets, SendToDisc(p) \/ SendToDevice(p) PROVE Pipe!Next
      BY <2>1, SendToDiscPipe, SendToDevicePipe DEF Pipe!Next
    <2>2. CASE RunIteration
      BY <2>2, NothingPipe, RunSendPipe DEF RunIteration, Pipe!Next
    <2>3. CASE Wakened
      <3>1. /\ UNCHANGED <<linkOnly, forgotten, sent, internal, requeued, arrived, dropped>>
        BY <2>3 DEF Wakened, Disc!WakeCallback, Disc!discVars
      <3>2. Pending' = Pending /\ Lost' = Lost /\ Offered' = Offered /\ received' = received
        BY <3>1 DEF linkOnly, Pending, Disc!Held, Lost, Offered
      <3>q. QED
        BY <3>2, PipeUnchanged
    <2>4. CASE Peek
      <3>1. Takes(NoPacket) /\ UNCHANGED <<linkOnly, sent, forgotten>>
        BY <2>4, PathFacts, PeekTakes DEF Peek, shared
      <3>q. QED
        BY <3>1, TakesNothingPipe DEF Pipe!Next
    <2>5. CASE DeleteRootQueueDisc
      BY <2>5, DeletePipe DEF Pipe!Next
    <2>6. CASE DeviceCompletes
      BY <2>6, CompletePipe
    <2>7. CASE DeviceReceives
      BY <2>7, ReceivePipe DEF Pipe!Next
    <2>8. CASE UNCHANGED vars
      <3>1. Pending' = Pending /\ Lost' = Lost /\ Offered' = Offered /\ received' = received
        BY <2>8 DEF vars, discOnly, linkOnly, shared, Pending, Disc!Held, Lost, Offered
      <3>q. QED
        BY <3>1, PipeUnchanged
    <2>q. QED
      BY <2>1, <2>2, <2>3, <2>4, <2>5, <2>6, <2>7, <2>8 DEF Next
  <1>3. Init => PathInv
    BY InitPath
  <1>4. PathInv /\ [Next]_vars => PathInv'
    BY NextPath
  <1>q. QED
    BY <1>1, <1>2, <1>3, <1>4, PTL DEF Spec, PipeSpec, Pipe!Spec
=============================================================================
