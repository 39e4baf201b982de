------------------------ MODULE ByteQueueLimitsProofs ------------------------
(***************************************************************************)
(* ByteQueueLimits for words of any width, packets of any sizes and any    *)
(* limits: every counter fits its word, a reopening of the queue, for      *)
(* whichever of the two reasons it was stopped, is never lost on the queue *)
(* disc above, and the counters that wrap around mean what the numbers of  *)
(* bytes would.                                                            *)
(***************************************************************************)
EXTENDS ByteQueueLimits, SequenceTheorems, WellFoundedInduction, TLAPS

Limits == [limit : Word, numQueued : Word, numCompleted : Word, lastObjCnt : Word,
           prevNumQueued : Word, prevLastObjCnt : Word, prevOvlimit : Word,
           lowestSlack : Word, adjLimit : Word]

(* Wake callbacks are executed before the transmission ends, so there are    *)
(* none while the device is idle.                                            *)
IdleHasNoWakes == ~busy => wakes = 0

(* The device stops the queue when it takes the last place.                  *)
FullIsStopped == NoRoom(devQueue) => byDevice

(* The inductive invariant. *)
LimitsInv == TypeOK /\ IdleHasNoWakes /\ FullIsStopped

-----------------------------------------------------------------------------
(* Words                                                                     *)

(* What the assumption says of the modulus. *)
LEMMA ModulusNat == Modulus \in Nat /\ Modulus > 0 /\ Modulus \div 2 \in Int
  <1>1. PICK n \in 1..Modulus : Modulus = 2 * n
    BY LimitsAssumption
  <1>2. Modulus \in Nat /\ Modulus > 0
    BY <1>1
  <1>q. QED
    BY <1>2

(* And of the device queue. *)
LEMMA SomePackets == MaxPackets \in Nat /\ MaxPackets > 0
  <1>1. MaxPackets \in Nat \ {0}
    BY LimitsAssumption, Zenon
  <1>q. QED
    BY <1>1

(* Wrapped, a number is a word. *)
LEMMA WrapWord == ASSUME NEW x \in Int PROVE Wrap(x) \in Word
  BY ModulusNat DEF Wrap, Word

(* A signed difference is a number, and a positive one is a word. *)
LEMMA SignedInt == ASSUME NEW x \in Int PROVE Signed(x) \in Int /\ Signed(x) < Modulus
  <1>1. Wrap(x) \in Int /\ Wrap(x) < Modulus /\ Modulus \in Nat
    BY WrapWord, ModulusNat DEF Word
  <1>q. QED
    BY <1>1, ModulusNat DEF Signed

LEMMA PosdiffWord == ASSUME NEW a \in Int, NEW b \in Int PROVE Posdiff(a, b) \in Word
  <1>1. Signed(a) \in Int /\ Signed(b) \in Int
    BY SignedInt
  <1>2. Signed(a) - Signed(b) \in Int
    BY <1>1
  <1>3. /\ Signed(Signed(a) - Signed(b)) \in Int
        /\ Signed(Signed(a) - Signed(b)) < Modulus
    BY <1>2, SignedInt
  <1>q. QED
    BY <1>3, ModulusNat DEF Posdiff, Greater, Word

(* Words are numbers. *)
LEMMA WordInt == ASSUME NEW x \in Word PROVE x \in Int /\ x >= 0 /\ x < Modulus
  BY ModulusNat DEF Word

LEMMA BoundedWord ==
  ASSUME NEW l \in Word
  PROVE  Bounded(l) \in Word /\ Bounded(l) <= MaxLimit
  <1>1. MinLimit \in Word /\ MaxLimit \in Word
    BY LimitsAssumption, Zenon
  <1>2. Greater(l, MinLimit) \in Word
    BY <1>1 DEF Greater
  <1>3. Greater(l, MinLimit) \in Int /\ MaxLimit \in Int
    BY <1>1, <1>2, WordInt
  <1>q. QED
    BY <1>1, <1>2, <1>3 DEF Bounded, Lesser

-----------------------------------------------------------------------------
(* The limits keep their type                                                *)

LEMMA QueuedType ==
  ASSUME NEW d \in Limits, NEW s \in Sizes
  PROVE  Queued(d, s) \in Limits
  <1>1. s \in Word /\ s \in Int /\ d.numQueued \in Int
    BY LimitsAssumption, WordInt DEF Limits
  <1>2. Wrap(d.numQueued + s) \in Word
    BY <1>1, WrapWord
  <1>q. QED
    BY <1>1, <1>2 DEF Queued, Limits

LEMMA CompletedType ==
  ASSUME NEW d \in Limits, NEW s \in Sizes, NEW late \in BOOLEAN
  PROVE  Completed(d, s, late) \in Limits /\ Completed(d, s, late).limit <= MaxLimit
  <1> DEFINE completed == NumCompleted(d, s)
             starved   == Starved(d, completed)
             steady    == ~starved /\ BusyThroughout(d, completed)
             reduce    == steady /\ late
             lower     == LowestSlack(d, s)
             newLimit  == IF starved
                          THEN Wrap(d.limit + Posdiff(completed, d.prevNumQueued) + d.prevOvlimit)
                          ELSE IF reduce THEN Posdiff(d.limit, lower) ELSE d.limit
             limit     == Bounded(newLimit)
             slack     == IF starved \/ reduce THEN UintMax
                          ELSE IF steady THEN lower ELSE d.lowestSlack
             ovlimit   == IF limit # d.limit THEN 0
                          ELSE Posdiff(d.numQueued - d.numCompleted, d.limit)
  <1>1. /\ s \in Word /\ s \in Int
        /\ d.limit \in Int /\ d.limit \in Word
        /\ d.numQueued \in Int /\ d.numCompleted \in Int
        /\ d.prevNumQueued \in Int /\ d.prevOvlimit \in Int
        /\ d.prevLastObjCnt \in Int
        /\ d.lowestSlack \in Int /\ d.lowestSlack \in Word
    BY LimitsAssumption, WordInt DEF Limits
  <1>2. completed \in Word /\ completed \in Int
    <2>1. d.numCompleted + s \in Int
      BY <1>1
    <2>2. completed = Wrap(d.numCompleted + s)
      BY DEF NumCompleted
    <2> HIDE DEF completed
    <2>q. QED
      BY <2>1, <2>2, WrapWord, WordInt
  <1>3. lower \in Word /\ lower \in Int
    <2> DEFINE lastObjs == IF d.prevOvlimit = 0 THEN 0
                           ELSE Posdiff(d.prevLastObjCnt, d.prevOvlimit)
               demand   == Posdiff(d.limit + d.prevOvlimit, 2 * s)
    <2>1. 0 \in Word
      BY ModulusNat DEF Word
    <2>2. lastObjs \in Word
      BY <1>1, <2>1, PosdiffWord
    <2>3. demand \in Word
      <3>1. d.limit + d.prevOvlimit \in Int /\ 2 * s \in Int
        BY <1>1
      <3>q. QED
        BY <3>1, PosdiffWord
    <2>4. lower = Lesser(Greater(demand, lastObjs), d.lowestSlack)
      BY DEF LowestSlack
    <2> HIDE DEF lastObjs, demand
    <2>q. QED
      BY <1>1, <2>2, <2>3, <2>4, WordInt DEF Lesser, Greater
  <1>4. newLimit \in Word
    <2>1. Wrap(d.limit + Posdiff(completed, d.prevNumQueued) + d.prevOvlimit) \in Word
      <3>1. Posdiff(completed, d.prevNumQueued) \in Int
        BY <1>1, <1>2, PosdiffWord, WordInt
      <3>2. d.limit + Posdiff(completed, d.prevNumQueued) + d.prevOvlimit \in Int
        BY <1>1, <3>1
      <3>q. QED
        BY <3>2, WrapWord
    <2>2. Posdiff(d.limit, lower) \in Word
      BY <1>1, <1>3, PosdiffWord
    <2> HIDE DEF completed, starved, reduce, lower
    <2>q. QED
      BY <1>1, <2>1, <2>2
  <1>5. limit \in Word /\ limit \in Int /\ limit <= MaxLimit
    BY <1>4, BoundedWord, WordInt
  <1>6. slack \in Word
    <2>1. UintMax \in Word
      BY ModulusNat DEF UintMax, Word
    <2> HIDE DEF starved, reduce, steady, lower
    <2>q. QED
      BY <1>1, <1>3, <2>1
  <1>7. ovlimit \in Word
    <2>1. d.numQueued - d.numCompleted \in Int /\ 0 \in Word
      BY <1>1, ModulusNat DEF Word
    <2>2. Posdiff(d.numQueued - d.numCompleted, d.limit) \in Word
      BY <1>1, <2>1, PosdiffWord
    <2> HIDE DEF limit
    <2>q. QED
      BY <2>1, <2>2
  <1>8. AdjLimit(d, limit, completed) \in Word
    <2>1. limit + completed \in Int
      BY <1>2, <1>5
    <2> HIDE DEF limit, completed
    <2>q. QED
      BY <2>1, WrapWord DEF AdjLimit
  <1>9. Completed(d, s, late)
          = [d EXCEPT !.limit = limit, !.lowestSlack = slack, !.prevOvlimit = ovlimit,
                      !.adjLimit = AdjLimit(d, limit, completed),
                      !.prevLastObjCnt = d.lastObjCnt, !.numCompleted = completed,
                      !.prevNumQueued = d.numQueued]
    BY DEF Completed
  <1> HIDE DEF limit, slack, ovlimit, completed
  <1>q. QED
    BY <1>2, <1>5, <1>6, <1>7, <1>8, <1>9, ZenonT(60) DEF Limits

-----------------------------------------------------------------------------
(* The dequeue trace schedules at most one callback for each reason to stop, *)
(* and at least one if it reopens the queue.                                 *)
LEMMA DequeuedWakes ==
  ASSUME NEW d, NEW l \in BOOLEAN, NEW v \in BOOLEAN, wakes \in Nat,
         PacketDequeued(d, l, v)
  PROVE  /\ dql' = d /\ byLimits' \in BOOLEAN /\ byDevice' \in BOOLEAN
         /\ wakes' \in wakes..(wakes + 2)
         /\ (l \/ v) /\ ~(byLimits' \/ byDevice') => wakes' > 0
  <1>1. /\ dql' = d
        /\ byLimits' = (l /\ Available(d) < 0)
        /\ byDevice' = (v /\ NoRoom(devQueue'))
        /\ wakes' = wakes + LimitsWake(l, byLimits') + DeviceWake(v, byDevice')
    BY DEF PacketDequeued
  <1>2. byLimits' \in BOOLEAN /\ byDevice' \in BOOLEAN
    BY <1>1
  <1>3. /\ LimitsWake(l, byLimits') \in 0..1
        /\ l /\ ~byLimits' => LimitsWake(l, byLimits') = 1
    BY DEF LimitsWake
  <1>4. /\ DeviceWake(v, byDevice') \in 0..1
        /\ v /\ ~byDevice' => DeviceWake(v, byDevice') = 1
    BY DEF DeviceWake
  <1>5. wakes' \in wakes..(wakes + 2)
    BY <1>1, <1>3, <1>4
  <1>6. ASSUME l \/ v, ~(byLimits' \/ byDevice') PROVE wakes' > 0
    <2>1. LimitsWake(l, byLimits') = 1 \/ DeviceWake(v, byDevice') = 1
      BY <1>3, <1>4, <1>6
    <2>q. QED
      BY <1>1, <1>3, <1>4, <2>1
  <1>q. QED
    BY <1>1, <1>2, <1>5, <1>6

(* The initial states satisfy the invariant. *)
LEMMA InitLimits == ASSUME Init PROVE LimitsInv
  <1>1. 0 \in Word /\ UintMax \in Word
    BY ModulusNat DEF Word, UintMax
  <1>2. dql \in Limits
    BY <1>1 DEF Init, Fresh, Limits
  <1>3. {byDevice, byLimits, busy, running, backlog} \subseteq BOOLEAN
    BY DEF Init
  <1>4. devQueue \in Seq(Sizes) /\ Len(devQueue) <= MaxPackets
    BY SomePackets DEF Init
  <1>5. wakes \in 0..2
    BY DEF Init
  <1>6. FullIsStopped
    <2>1. MaxPackets \in Nat /\ MaxPackets > 0 /\ Len(devQueue) = 0
      BY SomePackets DEF Init
    <2>q. QED
      BY <2>1 DEF FullIsStopped, NoRoom
  <1>q. QED
    BY <1>2, <1>3, <1>4, <1>5, <1>6 DEF Init, LimitsInv, TypeOK, IdleHasNoWakes, Limits

(* What the invariant says of the parts. *)
LEMMA Parts ==
  ASSUME LimitsInv
  PROVE  /\ dql \in Limits /\ devQueue \in Seq(Sizes) /\ Len(devQueue) <= MaxPackets
         /\ wakes \in 0..2 /\ MaxPackets \in Nat /\ Len(devQueue) \in Nat
         /\ byLimits \in BOOLEAN /\ byDevice \in BOOLEAN /\ busy \in BOOLEAN
         /\ running \in BOOLEAN /\ backlog \in BOOLEAN
         /\ ~byDevice => Len(devQueue) < MaxPackets
         /\ Len(devQueue) = MaxPackets => byDevice
  <1>1. /\ dql \in Limits /\ devQueue \in Seq(Sizes) /\ Len(devQueue) <= MaxPackets
        /\ wakes \in 0..2 /\ {byDevice, byLimits, busy, running, backlog} \subseteq BOOLEAN
    BY DEF LimitsInv, TypeOK, Limits
  <1>2. MaxPackets \in Nat /\ Len(devQueue) \in Nat
    BY <1>1, SomePackets
  <1>3. ~byDevice => Len(devQueue) < MaxPackets
    BY <1>2 DEF LimitsInv, FullIsStopped, NoRoom
  <1>4. Len(devQueue) = MaxPackets => byDevice
    BY <1>2, <1>3
  <1>q. QED
    BY <1>1, <1>2, <1>3, <1>4

(* And what makes up the invariant after a step. *)
LEMMA Together ==
  ASSUME dql' \in Limits, devQueue' \in Seq(Sizes), wakes' \in 0..2,
         byLimits' \in BOOLEAN, byDevice' \in BOOLEAN, busy' \in BOOLEAN,
         running' \in BOOLEAN, backlog' \in BOOLEAN,
         Len(devQueue') <= MaxPackets, Len(devQueue') = MaxPackets => byDevice',
         ~busy' => wakes' = 0
  PROVE  LimitsInv'
  <1>1. {byDevice', byLimits', busy', running', backlog'} \subseteq BOOLEAN
    OBVIOUS
  <1>2. TypeOK'
    BY <1>1 DEF TypeOK, Limits
  <1>3. FullIsStopped'
    <2>1. MaxPackets \in Nat /\ Len(devQueue') \in Nat
      BY LimitsAssumption
    <2>q. QED
      BY <2>1 DEF FullIsStopped, NoRoom
  <1>q. QED
    BY <1>2, <1>3 DEF LimitsInv, IdleHasNoWakes

(* A packet behind the one that is being transmitted. *)
LEMMA QueuedStep == ASSUME LimitsInv, NEW s \in Sizes, SendQueued(s) PROVE LimitsInv'
  <1>1. ~byDevice /\ busy /\ UNCHANGED <<wakes, busy, running>> /\ backlog' \in BOOLEAN
    BY DEF SendQueued, IsStopped
  <1>2. dql' \in Limits
    BY Parts, QueuedType DEF SendQueued
  <1>3. byLimits' \in BOOLEAN
    <2>1. byLimits' = NotifyQueuedBytes(dql')
      BY DEF SendQueued
    <2>2. NotifyQueuedBytes(dql') \in BOOLEAN
      BY Parts DEF NotifyQueuedBytes
    <2>q. QED
      BY <2>1, <2>2
  <1>4. /\ devQueue' \in Seq(Sizes) /\ Len(devQueue') = Len(devQueue) + 1
        /\ Len(devQueue') \in Nat /\ Len(devQueue') <= MaxPackets
    BY <1>1, Parts DEF SendQueued
  <1>5. byDevice' \in BOOLEAN /\ (Len(devQueue') = MaxPackets => byDevice')
    <2>1. byDevice' = (Len(devQueue') + 1 > MaxPackets)
      BY DEF SendQueued, NoRoom
    <2>2. MaxPackets \in Nat
      BY Parts
    <2>3. byDevice' \in BOOLEAN
      BY <2>1
    <2>4. Len(devQueue') = MaxPackets => Len(devQueue') + 1 > MaxPackets
      BY <1>4, <2>2
    <2>q. QED
      BY <2>1, <2>3, <2>4
  <1>6. /\ wakes' \in 0..2 /\ busy' \in BOOLEAN /\ running' \in BOOLEAN
        /\ (~busy' => wakes' = 0)
    BY <1>1, Parts
  <1>q. QED
    BY <1>1, <1>2, <1>3, <1>4, <1>5, <1>6, Together

(* A packet that passes through the queue of an idle device. *)
LEMMA NowStep == ASSUME LimitsInv, NEW s \in Sizes, SendNow(s) PROVE LimitsInv'
  <1>1. /\ ~byDevice /\ ~busy /\ busy' = TRUE /\ UNCHANGED <<devQueue, running>>
        /\ backlog' \in BOOLEAN
    BY DEF SendNow, IsStopped
  <1>2. wakes = 0
    BY <1>1 DEF LimitsInv, IdleHasNoWakes
  <1>3. PICK late \in BOOLEAN :
          PacketDequeued(Completed(Queued(dql, s), s, late), NotifyQueuedBytes(Queued(dql, s)),
                         NoRoom(<<s>>))
    BY DEF SendNow
  <1>4. NotifyQueuedBytes(Queued(dql, s)) \in BOOLEAN /\ NoRoom(<<s>>) \in BOOLEAN
    BY Parts DEF NotifyQueuedBytes, NoRoom
  <1>5. Completed(Queued(dql, s), s, late) \in Limits
    BY Parts, QueuedType, CompletedType
  <1>6. /\ dql' \in Limits /\ byLimits' \in BOOLEAN /\ byDevice' \in BOOLEAN
        /\ wakes' \in 0..2
    <2>1. wakes \in Nat
      BY <1>2
    <2>2. /\ dql' = Completed(Queued(dql, s), s, late)
          /\ byLimits' \in BOOLEAN /\ byDevice' \in BOOLEAN /\ wakes' \in wakes..(wakes + 2)
      BY <1>3, <1>4, <2>1, DequeuedWakes
    <2>q. QED
      BY <1>2, <1>5, <2>2
  <1>7. Len(devQueue') < MaxPackets /\ devQueue' \in Seq(Sizes) /\ running' \in BOOLEAN
        /\ MaxPackets \in Nat /\ Len(devQueue') \in Nat
    BY <1>1, Parts
  <1>8. Len(devQueue') <= MaxPackets /\ (Len(devQueue') = MaxPackets => byDevice')
    BY <1>7
  <1>q. QED
    BY <1>1, <1>6, <1>7, <1>8, Together

(* The end of a transmission. *)
LEMMA CompleteStep == ASSUME LimitsInv, TransmitComplete PROVE LimitsInv'
  <1>1. wakes = 0 /\ busy /\ UNCHANGED <<running, backlog>>
    BY DEF TransmitComplete
  <1>2. CASE devQueue = <<>> /\ UNCHANGED <<dql, byDevice, byLimits, wakes, devQueue>> /\ busy' = FALSE
    <2>1. /\ dql' \in Limits /\ devQueue' \in Seq(Sizes) /\ Len(devQueue') <= MaxPackets
          /\ byLimits' \in BOOLEAN /\ byDevice' \in BOOLEAN
          /\ Len(devQueue') = MaxPackets => byDevice'
      BY <1>2, Parts
    <2>2. wakes' \in 0..2 /\ busy' \in BOOLEAN /\ running' \in BOOLEAN /\ backlog' \in BOOLEAN
      BY <1>1, <1>2, Parts
    <2>q. QED
      BY <1>1, <1>2, <2>1, <2>2, Together
  <1>3. CASE devQueue # <<>> /\ UNCHANGED busy /\ devQueue' = Tail(devQueue)
    <2>1. PICK late \in BOOLEAN :
            PacketDequeued(Completed(dql, Head(devQueue), late), byLimits, byDevice)
      BY <1>3 DEF TransmitComplete
    <2>2. /\ Head(devQueue) \in Sizes /\ devQueue' \in Seq(Sizes)
          /\ Len(devQueue') = Len(devQueue) - 1
      BY <1>3, Parts
    <2>3. Completed(dql, Head(devQueue), late) \in Limits
      BY <2>2, Parts, CompletedType
    <2>4. /\ dql' \in Limits /\ byLimits' \in BOOLEAN /\ byDevice' \in BOOLEAN
          /\ wakes' \in 0..2
      <3>1. wakes \in Nat /\ byLimits \in BOOLEAN /\ byDevice \in BOOLEAN
        BY <1>1, Parts
      <3>2. /\ dql' = Completed(dql, Head(devQueue), late)
            /\ byLimits' \in BOOLEAN /\ byDevice' \in BOOLEAN /\ wakes' \in wakes..(wakes + 2)
        BY <2>1, <3>1, DequeuedWakes
      <3>q. QED
        BY <1>1, <2>3, <3>2
    <2>5. Len(devQueue') <= MaxPackets /\ (Len(devQueue') = MaxPackets => byDevice')
      <3>1. Len(devQueue) <= MaxPackets /\ Len(devQueue) \in Nat /\ MaxPackets \in Nat
        BY Parts
      <3>q. QED
        BY <2>2, <3>1
    <2>6. busy' \in BOOLEAN /\ running' \in BOOLEAN /\ backlog' \in BOOLEAN /\ busy'
      BY <1>1, <1>3, Parts
    <2>q. QED
      BY <2>2, <2>4, <2>5, <2>6, Together
  <1>q. QED
    BY <1>2, <1>3 DEF TransmitComplete

(* The queue disc runs, or ends its run, without a packet. *)
LEMMA RunStep ==
  ASSUME LimitsInv, Arrive \/ RunEnds \/ WakeCallback \/ UNCHANGED vars
  PROVE  LimitsInv'
  <1>1. /\ UNCHANGED <<dql, byDevice, byLimits, devQueue, busy>>
        /\ running' \in BOOLEAN /\ backlog' \in BOOLEAN
    BY Parts DEF Arrive, RunEnds, WakeCallback, vars
  <1>2. wakes' \in 0..2 /\ (~busy' => wakes' = 0)
    <2>1. wakes \in 0..2 /\ (~busy => wakes = 0)
      BY Parts DEF LimitsInv, IdleHasNoWakes
    <2>2. CASE UNCHANGED wakes
      BY <1>1, <2>1, <2>2
    <2>3. CASE wakes > 0 /\ wakes' = wakes - 1
      BY <1>1, <2>1, <2>3
    <2>q. QED
      BY <2>2, <2>3 DEF Arrive, RunEnds, WakeCallback, vars
  <1>q. QED
    BY <1>1, <1>2, Parts, Together

(* Every step preserves the invariant. *)
LEMMA LimitsStep == ASSUME LimitsInv, [Next]_vars PROVE LimitsInv'
  BY QueuedStep, NowStep, CompleteStep, RunStep DEF Next, Run

(* Every counter fits its word, and at most two wake callbacks are pending   *)
(* (DynamicQueueLimits::Completed, NetDeviceQueue), for words of any width.  *)
THEOREM LimitsTypeCorrect == Spec => []TypeOK
  <1>1. LimitsInv => TypeOK
    BY DEF LimitsInv
  <1>q. QED
    BY <1>1, InitLimits, LimitsStep, PTL DEF Spec

-----------------------------------------------------------------------------
(* No reopening is lost                                                      *)

LEMMA WakeStep == ASSUME LimitsInv, NoLostWake, [Next]_vars PROVE NoLostWake'
  <1>1. CASE Arrive \/ WakeCallback
    BY <1>1 DEF Arrive, WakeCallback, NoLostWake
  <1>2. CASE RunEnds
    BY <1>2 DEF RunEnds, NoLostWake, IsStopped
  <1>3. ASSUME NEW s \in Sizes, SendQueued(s) \/ SendNow(s) PROVE NoLostWake'
    BY <1>3 DEF SendQueued, SendNow, NoLostWake
  <1>4. CASE TransmitComplete
    <2>1. wakes = 0 /\ ~running /\ UNCHANGED <<running, backlog>>
      BY <1>4 DEF TransmitComplete
    <2>2. CASE UNCHANGED <<byDevice, byLimits, wakes>>
      BY <2>1, <2>2 DEF NoLostWake, IsStopped
    <2>3. ASSUME NEW late \in BOOLEAN,
                 PacketDequeued(Completed(dql, Head(devQueue), late), byLimits, byDevice)
          PROVE  NoLostWake'
      <3>1. byLimits \in BOOLEAN /\ byDevice \in BOOLEAN /\ wakes \in Nat
        BY <2>1, Parts
      <3>2. (byLimits \/ byDevice) /\ ~(byLimits' \/ byDevice') => wakes' > 0
        BY <2>3, <3>1, DequeuedWakes
      <3>3. backlog => byLimits \/ byDevice
        BY <2>1 DEF NoLostWake, IsStopped
      <3>q. QED
        BY <2>1, <3>2, <3>3 DEF NoLostWake, IsStopped
    <2>q. QED
      BY <1>4, <2>2, <2>3 DEF TransmitComplete
  <1>5. CASE UNCHANGED vars
    BY <1>5 DEF vars, NoLostWake, IsStopped
  <1>q. QED
    BY <1>1, <1>2, <1>3, <1>4, <1>5 DEF Next, Run

(* While the queue disc has packets and the queue is open, a run is going on *)
(* or scheduled (NotifyTransmittedBytes, NetDeviceQueue::Wake), whatever the *)
(* sizes of the packets, the limits and the width of the counters.           *)
THEOREM WakeCorrect == Spec => []NoLostWake
  <1>1. Init => NoLostWake
    BY DEF Init, NoLostWake
  <1>2. LimitsInv /\ NoLostWake /\ [Next]_vars => (LimitsInv /\ NoLostWake)'
    BY LimitsStep, WakeStep
  <1>q. QED
    BY <1>1, <1>2, InitLimits, PTL DEF Spec

-----------------------------------------------------------------------------
(* The bytes of a queue.  What a recursive function yields is found by       *)
(* induction: on a set, which no smallest number is outside of.              *)

(* A set of numbers has a smallest one. *)
LEMMA Smallest ==
  ASSUME NEW T, T \subseteq Nat, T # {}
  PROVE  \E m \in T : \A k \in T : ~(k < m)
  <1>1. PICK m \in T : \A k \in T : <<k, m>> \notin OpToRel(<, Nat)
    <2>1. \E m \in T : \A k \in T : ~(<<k, m>> \in OpToRel(<, Nat))
      BY NatLessThanWellFounded, WFMin
    <2>q. QED
      BY <2>1
  <1>2. ASSUME NEW k \in T, k < m PROVE FALSE
    <2>1. <<k, m>> \in OpToRel(<, Nat)
      BY <1>2 DEF OpToRel
    <2>q. QED
      BY <1>1, <2>1
  <1>q. QED
    BY <1>2

(* What holds of zero and goes on holds up to n. *)
LEMMA UpToInduction ==
  ASSUME NEW n \in Nat, NEW S, 0 \in S, \A i \in 0..n - 1 : i \in S => i + 1 \in S
  PROVE  0..n \subseteq S
  <1> DEFINE T == {i \in 0..n : i \notin S}
  <1>1. SUFFICES ASSUME T # {} PROVE FALSE
    OBVIOUS
  <1>2. PICK m \in T : \A k \in T : ~(k < m)
    <2>1. T \subseteq Nat
      OBVIOUS
    <2> HIDE DEF T
    <2>q. QED
      BY <1>1, <2>1, Smallest
  <1>3. m \in 0..n /\ m \notin S /\ m # 0
    BY <1>2
  <1>4. m - 1 \in 0..n - 1 /\ m - 1 < m /\ (m - 1) + 1 = m
    BY <1>3
  <1>5. m - 1 \in S
    BY <1>2, <1>4
  <1>q. QED
    BY <1>3, <1>4, <1>5

(* The sums of the first packets. *)
Sums(q, g) ==
  /\ g \in [0..Len(q) -> Nat] /\ g[0] = 0
  /\ \A i \in 1..Len(q) : g[i] = g[i - 1] + q[i]

(* There are such sums. *)
LEMMA SumsExist == ASSUME NEW q \in Seq(Nat) PROVE \E g : Sums(q, g)
  <1> DEFINE Upto(n, g) == /\ g \in [0..n -> Nat] /\ g[0] = 0
                           /\ \A i \in 1..n : g[i] = g[i - 1] + q[i]
             S == {n \in 0..Len(q) : \E g : Upto(n, g)}
  <1>1. Len(q) \in Nat
    OBVIOUS
  <1>2. 0 \in S
    <2>1. Upto(0, [i \in 0..0 |-> 0]) /\ 0 \in 0..Len(q)
      BY <1>1
    <2> HIDE DEF Upto
    <2>q. QED
      BY <2>1
  <1>3. ASSUME NEW n \in 0..Len(q) - 1, n \in S PROVE n + 1 \in S
    <2>1. PICK g : Upto(n, g)
      BY <1>3
    <2> DEFINE h == [i \in 0..n + 1 |-> IF i = n + 1 THEN g[n] + q[n + 1] ELSE g[i]]
    <2>2. n \in Nat /\ n + 1 \in 1..Len(q) /\ q[n + 1] \in Nat
      BY <1>1
    <2>3. g[n] \in Nat
      BY <2>1, <2>2
    <2>4. h \in [0..n + 1 -> Nat]
      BY <2>1, <2>2, <2>3
    <2>5. h[0] = 0
      BY <2>1, <2>2
    <2>6. ASSUME NEW i \in 1..n + 1 PROVE h[i] = h[i - 1] + q[i]
      <3>1. CASE i = n + 1
        <4>1. i - 1 = n /\ h[n] = g[n] /\ h[n + 1] = g[n] + q[n + 1]
          BY <2>2, <3>1
        <4>q. QED
          BY <3>1, <4>1
      <3>2. CASE i \in 1..n
        <4>1. h[i] = g[i] /\ h[i - 1] = g[i - 1]
          BY <2>2, <3>2
        <4>q. QED
          BY <2>1, <3>2, <4>1
      <3>3. i = n + 1 \/ i \in 1..n
        BY <2>2
      <3>q. QED
        BY <3>1, <3>2, <3>3
    <2>7. Upto(n + 1, h)
      BY <2>4, <2>5, <2>6
    <2> HIDE DEF h, Upto
    <2>q. QED
      BY <2>2, <2>7
  <1>4. Len(q) \in S
    <2> HIDE DEF S
    <2>1. 0..Len(q) \subseteq S
      BY <1>1, <1>2, <1>3, UpToInduction
    <2>q. QED
      BY <1>1, <2>1
  <1>q. QED
    BY <1>4 DEF Sums

(* The total is the last of them. *)
LEMMA TotalIs ==
  ASSUME NEW q \in Seq(Nat), NEW g, Sums(q, g)
  PROVE  Total(q) = g[Len(q)] /\ Total(q) \in Nat
  <1> DEFINE IsSum(f) == f = [i \in 0..Len(q) |-> IF i = 0 THEN 0 ELSE f[i - 1] + q[i]]
             f == CHOOSE h : IsSum(h)
  <1>1. Len(q) \in Nat
    OBVIOUS
  <1>2. Total(q) = f[Len(q)]
    BY DEF Total
  <1>3. IsSum(f)
    <2>1. IsSum(g)
      <3> DEFINE r == [i \in 0..Len(q) |-> IF i = 0 THEN 0 ELSE g[i - 1] + q[i]]
      <3>1. g = [i \in 0..Len(q) |-> g[i]]
        BY DEF Sums
      <3>2. ASSUME NEW i \in 0..Len(q)
            PROVE  g[i] = IF i = 0 THEN 0 ELSE g[i - 1] + q[i]
        <4>1. i = 0 \/ i \in 1..Len(q)
          BY <1>1
        <4>q. QED
          BY <4>1 DEF Sums
      <3>q. QED
        BY <3>1, <3>2
    <2> HIDE DEF IsSum
    <2>q. QED
      BY <2>1
  <1> DEFINE S == {i \in 0..Len(q) : f[i] = g[i]}
  <1> HIDE DEF f
  <1>4. f[0] = 0 /\ \A i \in 1..Len(q) : f[i] = f[i - 1] + q[i]
    BY <1>1, <1>3
  <1>5. 0 \in S
    BY <1>1, <1>4 DEF Sums
  <1>6. ASSUME NEW i \in 0..Len(q) - 1, i \in S PROVE i + 1 \in S
    <2>1. i + 1 \in 1..Len(q) /\ (i + 1) - 1 = i /\ i + 1 \in 0..Len(q)
      BY <1>1
    <2>2. f[i + 1] = f[i] + q[i + 1] /\ g[i + 1] = g[i] + q[i + 1]
      BY <1>4, <2>1 DEF Sums
    <2>q. QED
      BY <1>6, <2>1, <2>2
  <1>7. f[Len(q)] = g[Len(q)]
    <2>1. 0..Len(q) \subseteq S
      <3> HIDE DEF S
      <3>q. QED
        BY <1>1, <1>5, <1>6, UpToInduction
    <2>q. QED
      BY <1>1, <2>1
  <1>8. g[Len(q)] \in Nat
    BY <1>1 DEF Sums
  <1>q. QED
    BY <1>2, <1>7, <1>8

(* What is in an empty queue: *)
LEMMA TotalEmpty == Total(<<>>) = 0
  <1>1. Sums(<<>>, [i \in 0..0 |-> 0])
    BY DEF Sums
  <1>2. <<>> \in Seq(Nat) /\ Len(<<>>) = 0
    OBVIOUS
  <1>q. QED
    BY <1>1, <1>2, TotalIs

(* Behind one more packet: *)
LEMMA TotalAppend ==
  ASSUME NEW q \in Seq(Nat), NEW s \in Nat
  PROVE  Total(Append(q, s)) = Total(q) + s /\ Total(q) \in Nat
  <1> DEFINE n == Len(q)
             t == Append(q, s)
  <1>1. /\ n \in Nat /\ t \in Seq(Nat) /\ Len(t) = n + 1 /\ t[n + 1] = s
        /\ \A i \in 1..n : t[i] = q[i]
    OBVIOUS
  <1>2. PICK g : Sums(t, g)
    BY <1>1, SumsExist
  <1> DEFINE h == [i \in 0..n |-> g[i]]
  <1>3. Sums(q, h)
    <2>1. h \in [0..n -> Nat] /\ h[0] = 0
      BY <1>1, <1>2 DEF Sums
    <2>2. ASSUME NEW i \in 1..n PROVE h[i] = h[i - 1] + q[i]
      <3>1. i \in 1..n + 1 /\ i \in 0..n /\ i - 1 \in 0..n
        BY <1>1
      <3>2. g[i] = g[i - 1] + t[i]
        BY <1>1, <1>2, <3>1 DEF Sums
      <3>q. QED
        BY <1>1, <3>1, <3>2
    <2>q. QED
      BY <2>1, <2>2 DEF Sums
  <1>4. g[n + 1] = g[n] + s
    <2>1. n + 1 \in 1..Len(t) /\ (n + 1) - 1 = n
      BY <1>1
    <2>q. QED
      BY <1>1, <1>2, <2>1 DEF Sums
  <1>5. Total(t) = g[n + 1]
    BY <1>1, <1>2, TotalIs
  <1>6. Total(q) = h[n] /\ Total(q) \in Nat
    BY <1>3, TotalIs
  <1>7. h[n] = g[n]
    BY <1>1
  <1>q. QED
    BY <1>4, <1>5, <1>6, <1>7

(* Without the first: *)
LEMMA TotalTail ==
  ASSUME NEW q \in Seq(Nat), q # <<>>
  PROVE  Total(q) = Head(q) + Total(Tail(q)) /\ Total(Tail(q)) \in Nat
  <1> DEFINE n == Len(q)
             t == Tail(q)
  <1>1. /\ n \in Nat \ {0} /\ t \in Seq(Nat) /\ Len(t) = n - 1 /\ Head(q) = q[1]
        /\ q[1] \in Nat /\ \A i \in 1..n - 1 : t[i] = q[i + 1]
    OBVIOUS
  <1>2. PICK h : Sums(t, h)
    BY <1>1, SumsExist
  <1> DEFINE g == [i \in 0..n |-> IF i = 0 THEN 0 ELSE q[1] + h[i - 1]]
  <1>3. Sums(q, g)
    <2>1. g \in [0..n -> Nat] /\ g[0] = 0
      <3>1. ASSUME NEW i \in 0..n, i # 0 PROVE q[1] + h[i - 1] \in Nat
        <4>1. i - 1 \in 0..n - 1
          BY <1>1, <3>1
        <4>2. h[i - 1] \in Nat
          BY <1>1, <1>2, <4>1 DEF Sums
        <4>q. QED
          BY <1>1, <4>2
      <3>q. QED
        BY <1>1, <3>1
    <2>2. ASSUME NEW i \in 1..n PROVE g[i] = g[i - 1] + q[i]
      <3>1. CASE i = 1
        <4>1. g[1] = q[1] + h[0] /\ h[0] = 0 /\ g[0] = 0
          BY <1>1, <1>2 DEF Sums
        <4>q. QED
          BY <1>1, <3>1, <4>1
      <3>2. CASE i # 1
        <4>1. /\ i \in Nat /\ i \in 0..n /\ i - 1 \in 0..n /\ i - 1 # 0 /\ i # 0
              /\ i - 1 \in 1..n - 1 /\ (i - 1) + 1 = i /\ (i - 1) - 1 \in 0..n - 1
              /\ i - 1 \in 0..n - 1
          BY <1>1, <3>2
        <4>2. g[i] = q[1] + h[i - 1] /\ g[i - 1] = q[1] + h[(i - 1) - 1]
          BY <4>1
        <4>3. h[i - 1] = h[(i - 1) - 1] + t[i - 1] /\ h[i - 1] \in Nat /\ h[(i - 1) - 1] \in Nat
          BY <1>1, <1>2, <4>1 DEF Sums
        <4>4. t[i - 1] = q[i] /\ q[i] \in Nat
          BY <1>1, <4>1
        <4>5. q[1] \in Nat
          BY <1>1
        <4> HIDE DEF g, t, n
        <4>6. h[i - 1] = h[(i - 1) - 1] + q[i]
          BY <4>3, <4>4
        <4>q. QED
          BY <4>2, <4>3, <4>4, <4>5, <4>6
      <3>q. QED
        BY <3>1, <3>2
    <2>q. QED
      BY <2>1, <2>2 DEF Sums
  <1>4. Total(q) = g[n]
    <2> HIDE DEF g
    <2>q. QED
      BY <1>3, TotalIs
  <1>5. g[n] = q[1] + h[n - 1]
    BY <1>1
  <1>6. Total(t) = h[n - 1] /\ Total(t) \in Nat
    BY <1>1, <1>2, TotalIs
  <1>q. QED
    BY <1>1, <1>4, <1>5, <1>6

-----------------------------------------------------------------------------
(* What the limits have in store                                             *)

(* The counters say, modulo their width, what f bytes in the queue mean, *)
Counts(d, f) == d.limit <= MaxLimit /\ d.numQueued = Wrap(d.numCompleted + f)

(* and so does m_adjLimit. *)
Ready(d) == d.adjLimit = Wrap(d.limit + d.numCompleted)

(* The inductive invariant: at most one packet is queued above what the      *)
(* limits ever allowed.                                                      *)
StoreInv ==
  /\ LimitsInv
  /\ Counts(dql, InFlight)
  /\ IF busy THEN Ready(dql) ELSE devQueue = <<>>
  /\ \E s \in Sizes : InFlight <= MaxLimit + s
  /\ ~byLimits => InFlight <= MaxLimit
  /\ StopJustified

Half == Modulus \div 2

(* Half of the words are positive, and what is queued is one of them. *)
LEMMA Halves ==
  /\ Half \in Nat /\ Modulus = Half + Half /\ Half > 0 /\ MaxLimit \in Nat
  /\ \A s \in Sizes : s \in Nat /\ MaxLimit + s < Half
  <1>1. PICK n \in 1..Modulus : Modulus = 2 * n
    BY LimitsAssumption
  <1>2. Modulus \in Nat /\ Modulus > 0
    BY ModulusNat
  <1>3. n \in Nat /\ n > 0 /\ Modulus = n + n
    BY <1>1, <1>2
  <1>4. Half = n
    BY <1>3 DEF Half
  <1>5. MaxLimit \in Nat
    <2>1. MaxLimit \in Word
      BY LimitsAssumption, Zenon
    <2>q. QED
      BY <1>2, <2>1 DEF Word
  <1>6. ASSUME NEW s \in Sizes PROVE s \in Nat /\ MaxLimit + s < Half
    <2>1. s \in Word
      BY LimitsAssumption, Zenon
    <2>2. MaxLimit + s < Half
      BY LimitsAssumption, Zenon DEF Half
    <2>q. QED
      BY <1>2, <2>1, <2>2 DEF Word
  <1>q. QED
    BY <1>3, <1>4, <1>5, <1>6

(* A number that is not far from the words is wrapped once. *)
LEMMA WrapOnce ==
  ASSUME NEW x \in Int
  PROVE  /\ x \in 0..Modulus - 1 => Wrap(x) = x
         /\ x \in Modulus..Modulus + Modulus - 1 => Wrap(x) = x - Modulus
         /\ x \in -Modulus..-1 => Wrap(x) = x + Modulus
  <1>1. ASSUME NEW m \in Nat, m > 0
        PROVE  /\ x \in 0..m - 1 => x % m = x
               /\ x \in m..m + m - 1 => x % m = x - m
               /\ x \in -m..-1 => x % m = x + m
    OBVIOUS
  <1>q. QED
    BY <1>1, ModulusNat DEF Wrap

(* The counters are words. *)
LEMMA LimitsWords ==
  ASSUME NEW d \in Limits
  PROVE  /\ d.limit \in Nat /\ d.numQueued \in Nat /\ d.numCompleted \in Nat
         /\ d.numCompleted < Modulus /\ d.numQueued < Modulus
  BY ModulusNat DEF Limits, Word

(* What is in store, as a number that does not wrap. *)
LEMMA StoreIs ==
  ASSUME NEW d \in Limits, NEW f \in Nat, f < Half, Counts(d, f), Ready(d)
  PROVE  Available(d) = d.limit - f
  <1> DEFINE l == d.limit
             c == d.numCompleted
             a == Wrap(l + c)
             n == Wrap(c + f)
  <1>1. /\ l \in Nat /\ c \in Nat /\ l < Half /\ c < Modulus
        /\ Half \in Nat /\ Modulus = Half + Half
    <2>1. l <= MaxLimit /\ MaxLimit \in Nat /\ l \in Nat
      BY Halves, LimitsWords DEF Counts
    <2>2. MaxLimit < Half
      <3>1. PICK s \in Sizes : TRUE
        BY LimitsAssumption, Zenon
      <3>2. s \in Nat /\ MaxLimit + s < Half /\ Half \in Nat
        BY Halves
      <3>q. QED
        BY <2>1, <3>2
    <2>q. QED
      BY <2>1, <2>2, Halves, LimitsWords
  <1> HIDE DEF l, c
  <1>2. a = IF l + c < Modulus THEN l + c ELSE l + c - Modulus
    BY <1>1, WrapOnce
  <1>3. n = IF c + f < Modulus THEN c + f ELSE c + f - Modulus
    BY <1>1, WrapOnce
  <1> HIDE DEF a, n
  <1>4. Wrap(a - n) = IF l >= f THEN l - f ELSE l - f + Modulus
    <2>1. \/ a - n = l - f
          \/ a - n = l - f + Modulus
          \/ a - n = l - f - Modulus
      BY <1>1, <1>2, <1>3
    <2>2. a \in 0..Modulus - 1 /\ n \in 0..Modulus - 1
      BY <1>1, <1>2, <1>3
    <2>3. a - n \in Int /\ a - n < Modulus /\ a - n > -Modulus
      BY <1>1, <2>2
    <2>q. QED
      BY <1>1, <2>1, <2>3, WrapOnce
  <1>5. Signed(a - n) = l - f
    BY <1>1, <1>4 DEF Signed, Half
  <1>q. QED
    BY <1>5 DEF Available, Counts, Ready, a, n, l, c

(* To wrap a sum on the way makes no difference. *)
LEMMA WrapAgain ==
  ASSUME NEW c \in Nat, c < Modulus, NEW a \in Nat, NEW b \in Nat, a + b < Half
  PROVE  Wrap(Wrap(c + a) + b) = Wrap(c + (a + b))
  <1> DEFINE x == c + (a + b)
  <1>1. Half \in Nat /\ Modulus = Half + Half
    BY Halves
  <1>2. Wrap(c + a) = IF c + a < Modulus THEN c + a ELSE c + a - Modulus
    BY <1>1, WrapOnce
  <1>3. CASE c + a < Modulus
    <2>1. Wrap(c + a) + b = x
      BY <1>1, <1>2, <1>3
    <2>q. QED
      BY <2>1
  <1>4. CASE ~(c + a < Modulus)
    <2>1. Wrap(c + a) + b = x - Modulus
      BY <1>1, <1>2, <1>4
    <2>2. x \in Int /\ x - Modulus \in 0..Modulus - 1 /\ x \in Modulus..Modulus + Modulus - 1
      BY <1>1, <1>4
    <2> HIDE DEF x
    <2>3. Wrap(x - Modulus) = x - Modulus
      BY <1>1, <2>2, WrapOnce
    <2>4. Wrap(x) = x - Modulus
      BY <2>2, WrapOnce
    <2>5. Wrap(Wrap(c + a) + b) = Wrap(x)
      BY <2>1, <2>3, <2>4
    <2>q. QED
      BY <2>5 DEF x
  <1>q. QED
    BY <1>3, <1>4

(* The counters after a packet is queued, *)
LEMMA QueuedCounts ==
  ASSUME NEW d \in Limits, NEW f \in Nat, NEW s \in Sizes, f + s < Half, Counts(d, f)
  PROVE  Counts(Queued(d, s), f + s) /\ (Ready(d) => Ready(Queued(d, s)))
  <1>1. /\ Queued(d, s).numQueued = Wrap(d.numQueued + s)
        /\ Queued(d, s).limit = d.limit /\ Queued(d, s).numCompleted = d.numCompleted
        /\ Queued(d, s).adjLimit = d.adjLimit
    BY DEF Queued, Limits
  <1>2. Wrap(Wrap(d.numCompleted + f) + s) = Wrap(d.numCompleted + (f + s))
    BY Halves, LimitsWords, WrapAgain
  <1>q. QED
    BY <1>1, <1>2 DEF Counts, Ready

(* and after one is completed, when m_adjLimit is computed afresh. *)
LEMMA CompletedCounts ==
  ASSUME NEW d \in Limits, NEW f \in Nat, NEW s \in Sizes, NEW late \in BOOLEAN,
         Counts(d, s + f), s + f < Half
  PROVE  Counts(Completed(d, s, late), f) /\ Ready(Completed(d, s, late))
  <1> DEFINE e == Completed(d, s, late)
  <1>1. /\ e.numQueued = d.numQueued /\ e.numCompleted = Wrap(d.numCompleted + s)
        /\ e.adjLimit = Wrap(e.limit + e.numCompleted)
    BY DEF Completed, Limits, AdjLimit, NumCompleted
  <1>2. e.limit <= MaxLimit
    BY CompletedType
  <1> HIDE DEF e
  <1>3. Wrap(Wrap(d.numCompleted + s) + f) = Wrap(d.numCompleted + (s + f))
    BY Halves, LimitsWords, WrapAgain
  <1>q. QED
    BY <1>1, <1>2, <1>3 DEF Counts, Ready, e

(* What a step says about the bytes in the queue. *)
LEMMA StoreParts ==
  ASSUME StoreInv
  PROVE  /\ dql \in Limits /\ devQueue \in Seq(Nat) /\ devQueue \in Seq(Sizes)
         /\ InFlight \in Nat /\ Counts(dql, InFlight) /\ InFlight < Half
         /\ (busy => Ready(dql)) /\ (~busy => devQueue = <<>>)
  <1>1. dql \in Limits /\ devQueue \in Seq(Sizes) /\ busy \in BOOLEAN
    BY Parts DEF StoreInv
  <1>2. Sizes \subseteq Nat
    BY Halves
  <1>3. devQueue \in Seq(Nat)
    BY <1>1, <1>2, SeqMonotonic
  <1>4. InFlight \in Nat
    <2>1. PICK g : Sums(devQueue, g)
      BY <1>3, SumsExist
    <2>q. QED
      BY <1>3, <2>1, TotalIs DEF InFlight
  <1>5. InFlight < Half
    <2>1. PICK s \in Sizes : InFlight <= MaxLimit + s
      BY DEF StoreInv
    <2>2. s \in Nat /\ MaxLimit + s < Half /\ Half \in Nat /\ MaxLimit \in Nat
      BY Halves
    <2>q. QED
      BY <1>4, <2>1, <2>2
  <1>q. QED
    BY <1>1, <1>3, <1>4, <1>5 DEF StoreInv

(* A packet is queued behind others: the queue was open, so that no more was *)
(* queued than the limits ever allowed.                                      *)
LEMMA SendQueuedStore ==
  ASSUME StoreInv, NEW s \in Sizes, SendQueued(s)
  PROVE  StoreInv'
  <1> DEFINE f == InFlight
  <1>1. /\ ~byLimits /\ busy /\ busy' = busy /\ dql' = Queued(dql, s)
        /\ byLimits' = NotifyQueuedBytes(dql') /\ devQueue' = Append(devQueue, s)
    BY DEF SendQueued, IsStopped
  <1>2. /\ dql \in Limits /\ f \in Nat /\ Counts(dql, f) /\ f <= MaxLimit /\ Ready(dql)
    BY <1>1, StoreParts DEF StoreInv
  <1>3. s \in Nat /\ MaxLimit + s < Half /\ Half \in Nat /\ MaxLimit \in Nat
    BY Halves
  <1>4. InFlight' = f + s
    BY <1>1, <1>3, StoreParts, TotalAppend DEF InFlight
  <1> HIDE DEF f
  <1>5. f + s \in Nat /\ f + s < Half /\ f + s <= MaxLimit + s
    BY <1>2, <1>3
  <1>6. dql' \in Limits /\ Counts(dql', f + s) /\ Ready(dql')
    BY <1>1, <1>2, <1>5, QueuedCounts, QueuedType
  <1>7. Available(dql') = dql'.limit - (f + s) /\ dql'.limit \in Nat /\ dql'.limit <= MaxLimit
    BY <1>5, <1>6, StoreIs, LimitsWords DEF Counts
  <1>8. byLimits' <=> f + s > dql'.limit
    <2>1. byLimits' <=> Available(dql') < 0
      BY <1>1 DEF NotifyQueuedBytes
    <2>q. QED
      BY <1>5, <1>7, <2>1
  <1>9. ~byLimits' => InFlight' <= MaxLimit
    BY <1>3, <1>4, <1>5, <1>7, <1>8
  <1>10. StopJustified'
    BY <1>4, <1>8 DEF StopJustified
  <1>11. LimitsInv'
    BY QueuedStep DEF StoreInv
  <1>q. QED
    BY <1>1, <1>4, <1>5, <1>6, <1>9, <1>10, <1>11 DEF StoreInv

(* A packet passes through the queue of an idle device: m_adjLimit may not   *)
(* have been computed yet, but it is before the packet has left.             *)
LEMMA SendNowStore ==
  ASSUME StoreInv, NEW s \in Sizes, SendNow(s)
  PROVE  StoreInv'
  <1>1. ~busy /\ busy' = TRUE /\ devQueue' = devQueue
    BY DEF SendNow
  <1>2. devQueue = <<>> /\ dql \in Limits /\ Counts(dql, InFlight)
    BY <1>1, StoreParts
  <1>3. InFlight = 0 /\ InFlight' = 0
    BY <1>1, <1>2, TotalEmpty DEF InFlight
  <1>4. /\ s \in Nat /\ MaxLimit + s < Half /\ Half \in Nat /\ MaxLimit \in Nat
        /\ 0 + s = s /\ s + 0 = s /\ s < Half /\ 0 < Half
    BY Halves
  <1>5. PICK late \in BOOLEAN :
          PacketDequeued(Completed(Queued(dql, s), s, late), NotifyQueuedBytes(Queued(dql, s)),
                         NoRoom(<<s>>))
    BY DEF SendNow
  <1>6. /\ dql' = Completed(Queued(dql, s), s, late)
        /\ byLimits' => Available(dql') < 0
    BY <1>5 DEF PacketDequeued
  <1>7. Queued(dql, s) \in Limits /\ Counts(Queued(dql, s), s + 0)
    BY <1>2, <1>3, <1>4, QueuedType, QueuedCounts
  <1>8. dql' \in Limits /\ Counts(dql', 0) /\ Ready(dql')
    BY <1>4, <1>6, <1>7, CompletedType, CompletedCounts
  <1>9. Available(dql') = dql'.limit - 0 /\ dql'.limit \in Nat
    BY <1>4, <1>8, StoreIs, LimitsWords
  <1>10. ~byLimits'
    BY <1>6, <1>9
  <1>11. LimitsInv'
    BY NowStep DEF StoreInv
  <1>q. QED
    BY <1>1, <1>3, <1>4, <1>8, <1>10, <1>11 DEF StoreInv, StopJustified

(* The next packet leaves the queue. *)
LEMMA CompleteStore ==
  ASSUME StoreInv, TransmitComplete
  PROVE  StoreInv'
  <1>1. busy
    BY DEF TransmitComplete
  <1>2. LimitsInv'
    BY CompleteStep DEF StoreInv
  <1>3. CASE devQueue = <<>> /\ busy' = FALSE /\ UNCHANGED <<dql, byLimits, devQueue>>
    BY <1>2, <1>3 DEF StoreInv, StopJustified, InFlight
  <1>4. CASE devQueue # <<>> /\ UNCHANGED busy /\ devQueue' = Tail(devQueue)
    <2> DEFINE s == Head(devQueue)
               f == InFlight'
    <2>1. PICK late \in BOOLEAN :
            PacketDequeued(Completed(dql, s, late), byLimits, byDevice)
      BY <1>4 DEF TransmitComplete
    <2>2. /\ dql' = Completed(dql, s, late)
          /\ byLimits' = (byLimits /\ Available(dql') < 0)
      BY <2>1 DEF PacketDequeued
    <2>3. s \in Sizes /\ s \in Nat
      BY <1>4, StoreParts
    <2>4. InFlight = s + f /\ f \in Nat
      BY <1>4, StoreParts, TotalTail DEF InFlight
    <2> HIDE DEF s, f
    <2>5. s + f < Half /\ Counts(dql, s + f) /\ dql \in Limits /\ Half \in Nat
      BY <2>4, StoreParts, Halves
    <2>6. dql' \in Limits /\ Counts(dql', f) /\ Ready(dql')
      BY <2>2, <2>3, <2>4, <2>5, CompletedType, CompletedCounts
    <2>7. f < Half /\ f <= InFlight
      BY <2>3, <2>4, <2>5
    <2>8. Available(dql') = dql'.limit - f /\ dql'.limit \in Nat /\ dql'.limit <= MaxLimit
      BY <2>4, <2>6, <2>7, StoreIs, LimitsWords DEF Counts
    <2>9. byLimits' => f > dql'.limit
      <3>1. byLimits' => Available(dql') < 0
        BY <2>2
      <3>2. dql'.limit - f < 0 => f > dql'.limit
        BY <2>4, <2>8
      <3>q. QED
        BY <2>8, <3>1, <3>2
    <2>10. ~byLimits' => f <= MaxLimit
      <3>1. CASE byLimits
        <4>1. ~byLimits' => ~(Available(dql') < 0)
          BY <2>2, <3>1
        <4>q. QED
          BY <2>4, <2>8, <4>1, Halves
      <3>2. CASE ~byLimits
        <4>1. InFlight <= MaxLimit
          BY <3>2 DEF StoreInv
        <4>q. QED
          BY <2>3, <2>4, <4>1, Halves
      <3>q. QED
        BY <3>1, <3>2
    <2>11. \E t \in Sizes : f <= MaxLimit + t
      <3>1. PICK t \in Sizes : InFlight <= MaxLimit + t
        BY DEF StoreInv
      <3>2. t \in Nat /\ MaxLimit \in Nat
        BY Halves
      <3>3. f <= MaxLimit + t
        BY <2>3, <2>4, <3>1, <3>2
      <3>q. QED
        BY <3>3
    <2>q. QED
      BY <1>1, <1>2, <1>4, <2>6, <2>9, <2>10, <2>11 DEF StoreInv, StopJustified, f
  <1>q. QED
    BY <1>3, <1>4 DEF TransmitComplete

(* Every step preserves the invariant. *)
LEMMA StoreStep == ASSUME StoreInv, [Next]_vars PROVE StoreInv'
  <1>1. CASE Arrive \/ RunEnds \/ WakeCallback \/ UNCHANGED vars
    <2>1. UNCHANGED <<dql, byLimits, devQueue, busy>>
      BY <1>1 DEF Arrive, RunEnds, WakeCallback, vars
    <2>2. LimitsInv'
      BY <1>1, RunStep DEF StoreInv
    <2>q. QED
      BY <2>1, <2>2 DEF StoreInv, StopJustified, InFlight
  <1>2. CASE TransmitComplete
    BY <1>2, CompleteStore
  <1>3. ASSUME NEW s \in Sizes, SendQueued(s) \/ SendNow(s) PROVE StoreInv'
    BY <1>3, SendQueuedStore, SendNowStore
  <1>q. QED
    BY <1>1, <1>2, <1>3 DEF Next, Run

LEMMA InitStore == ASSUME Init PROVE StoreInv
  <1>1. /\ devQueue = <<>> /\ busy = FALSE /\ byLimits = FALSE
        /\ dql.limit = 0 /\ dql.numQueued = 0 /\ dql.numCompleted = 0
    BY DEF Init, Fresh
  <1>2. InFlight = 0
    BY <1>1, TotalEmpty DEF InFlight
  <1>3. MaxLimit \in Nat /\ Modulus \in Nat /\ Modulus > 0
    BY Halves, ModulusNat
  <1>4. Wrap(0 + 0) = 0
    <2>1. 0 + 0 = 0 /\ 0 \in 0..Modulus - 1
      BY <1>3
    <2>q. QED
      BY <2>1, WrapOnce
  <1>5. Counts(dql, InFlight)
    BY <1>1, <1>2, <1>3, <1>4 DEF Counts
  <1>6. \E s \in Sizes : InFlight <= MaxLimit + s
    <2>1. PICK s \in Sizes : TRUE
      BY LimitsAssumption, Zenon
    <2>2. 0 <= MaxLimit + s
      BY <1>3, Halves
    <2>q. QED
      BY <1>2, <2>2
  <1>q. QED
    BY <1>1, <1>2, <1>3, <1>5, <1>6, InitLimits DEF StoreInv, StopJustified

(* What the signed difference of two words that wrap around says of the room *)
(* in the queue is true (DynamicQueueLimits::Available), for words of any    *)
(* even width, any limits and packets that leave room for both in half of    *)
(* the words, and whatever m_adjLimit held before it was first computed.     *)
THEOREM AvailableCorrect == Spec => []AvailableExact
  <1>1. StoreInv => AvailableExact
    <2>1. ASSUME StoreInv, devQueue # <<>> \/ busy
          PROVE  Available(dql) = dql.limit - InFlight
      BY <2>1, StoreParts, StoreIs
    <2>q. QED
      BY <2>1 DEF AvailableExact
  <1>q. QED
    BY <1>1, InitStore, StoreStep, PTL DEF Spec

(* The limits never keep the queue stopped without more than the limit being *)
(* queued (NotifyQueuedBytes, NotifyTransmittedBytes), for the same widths,  *)
(* limits and packets: there is always a packet whose completion reopens it. *)
THEOREM StopCorrect == Spec => []StopJustified
  <1>1. StoreInv => StopJustified
    BY DEF StoreInv
  <1>q. QED
    BY <1>1, InitStore, StoreStep, PTL DEF Spec
=============================================================================
