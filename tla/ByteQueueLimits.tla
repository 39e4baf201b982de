--------------------------- MODULE ByteQueueLimits ---------------------------
(***************************************************************************)
(* Byte queue limits: a DynamicQueueLimits object attached to the          *)
(* NetDeviceQueue of a point-to-point device.  It counts the bytes that    *)
(* enter and leave the device queue, adapts a limit to what the device     *)
(* needs, and stops the transmission queue while more than the limit is    *)
(* queued; the device stops the same queue while it is full.  Either stop  *)
(* keeps the upper layers waiting, either reopening schedules the wake     *)
(* callback.                                                               *)
(*                                                                         *)
(* The counters are never reset: they are words of a fixed width that wrap *)
(* around, and only differences of them mean something.  Time is left out: *)
(* whether the hold time has passed is open at every completion.           *)
(***************************************************************************)
EXTENDS Integers, Sequences

CONSTANTS
  Modulus,       (* 2^32 for the uint32_t of the code                        *)
  Sizes,         (* the sizes in bytes of the packets in the device queue    *)
  MinLimit,      (* attribute MinLimit                                       *)
  MaxLimit,      (* attribute MaxLimit                                       *)
  MaxPackets     (* attribute MaxSize of the device queue, in packets        *)

Word    == 0..Modulus - 1
UintMax == Modulus - 1

ASSUME LimitsAssumption ==
  /\ Modulus \in {2 * n : n \in 1..Modulus}
  /\ Sizes # {} /\ Sizes \subseteq Word \ {0}
  /\ MinLimit \in Word /\ MaxLimit \in Word
  /\ MaxPackets \in Nat \ {0}
  /\ \A s \in Sizes : MaxLimit + s < Modulus \div 2

VARIABLES
  dql,           (* the DynamicQueueLimits object                            *)
  byDevice,      (* m_stoppedByDevice                                        *)
  byLimits,      (* m_stoppedByQueueLimits                                   *)
  wakes,         (* wake callbacks scheduled and not executed yet            *)
  devQueue,      (* sizes of the packets of the device queue, head first     *)
  busy,          (* m_txMachineState is BUSY                                 *)
  running,       (* the queue disc above is in the loop of Run               *)
  backlog        (* the queue disc above holds packets                       *)

vars == <<dql, byDevice, byLimits, wakes, devQueue, busy, running, backlog>>

-----------------------------------------------------------------------------
(* DynamicQueueLimits, on words                                              *)

Wrap(x) == x % Modulus

(* The conversion to int32_t. *)
Signed(x) == IF Wrap(x) < Modulus \div 2 THEN Wrap(x) ELSE Wrap(x) - Modulus

Lesser(a, b)  == IF a < b THEN a ELSE b
Greater(a, b) == IF a > b THEN a ELSE b

Posdiff(a, b) == Greater(Signed(Signed(a) - Signed(b)), 0)

(* Constructed and Reset.  Reset leaves m_adjLimit uninitialised. *)
Fresh(garbage) ==
  [limit |-> 0, numQueued |-> 0, numCompleted |-> 0, lastObjCnt |-> 0,
   prevNumQueued |-> 0, prevLastObjCnt |-> 0, prevOvlimit |-> 0,
   lowestSlack |-> UintMax, adjLimit |-> garbage]

Queued(d, count) ==
  [d EXCEPT !.lastObjCnt = count, !.numQueued = Wrap(@ + count)]

(* Mutant: the counters are compared as unsigned numbers. *)
Available_Unsigned(d) == d.adjLimit - d.numQueued
Available(d) == Signed(d.adjLimit - d.numQueued)

(* Mutant: the limit is added to what was completed before. *)
AdjLimit_Stale(d, limit, completed) == Wrap(limit + d.numCompleted)

AdjLimit(d, limit, completed) == Wrap(limit + completed)

AllPrevCompleted(d, completed) == Signed(completed - d.prevNumQueued) >= 0

(* The queue ran dry in the last interval, or may have in the one before. *)
Starved(d, completed) ==
  \/ d.numQueued = completed /\ Posdiff(d.numQueued - d.numCompleted, d.limit) # 0
  \/ d.prevOvlimit # 0 /\ AllPrevCompleted(d, completed)

(* The queue was busy in the whole interval. *)
BusyThroughout(d, completed) ==
  /\ d.numQueued # completed
  /\ d.prevNumQueued # d.numCompleted
  /\ ~AllPrevCompleted(d, completed)

(* m_lowestSlack, with the slack of this interval taken into account. *)
LowestSlack(d, count) ==
  LET lastObjs == IF d.prevOvlimit = 0 THEN 0
                  ELSE Posdiff(d.prevLastObjCnt, d.prevOvlimit)
      slack    == Greater(Posdiff(d.limit + d.prevOvlimit, 2 * count), lastObjs)
  IN  Lesser(slack, d.lowestSlack)

Bounded(limit) == Lesser(Greater(limit, MinLimit), MaxLimit)

NumCompleted(d, count) == Wrap(d.numCompleted + count)

(* Completed; late: the hold time has passed since m_slackStartTime. *)
Completed(d, count, late) ==
  LET completed == NumCompleted(d, count)
      starved   == Starved(d, completed)
      steady    == ~starved /\ BusyThroughout(d, completed)
      reduce    == steady /\ late
      lower     == LowestSlack(d, count)
      limit     == Bounded(
        IF starved
        THEN Wrap(d.limit + Posdiff(completed, d.prevNumQueued) + d.prevOvlimit)
        ELSE IF reduce THEN Posdiff(d.limit, lower) ELSE d.limit)
  IN  [d EXCEPT
        !.limit          = limit,
        !.lowestSlack    = IF starved \/ reduce THEN UintMax
                           ELSE IF steady THEN lower ELSE @,
        !.prevOvlimit    = IF limit # d.limit THEN 0
                           ELSE Posdiff(d.numQueued - d.numCompleted, d.limit),
        !.adjLimit       = AdjLimit(d, limit, completed),
        !.prevLastObjCnt = d.lastObjCnt,
        !.numCompleted   = completed,
        !.prevNumQueued  = d.numQueued]

-----------------------------------------------------------------------------
(* NetDeviceQueue                                                            *)

IsStopped == byDevice \/ byLimits

NoRoom(q) == Len(q) + 1 > MaxPackets

(* NotifyQueuedBytes, with d the limits after Queued: is the queue stopped   *)
(* by the limits afterwards?                                                 *)
NotifyQueuedBytes(d) == byLimits \/ Available(d) < 0

(* Mutant: reopening the queue schedules no callback. *)
LimitsWake_Silent(was, now) == 0

(* NotifyTransmittedBytes wakes the upper layers if it reopened the queue. *)
LimitsWake(was, now) == IF was /\ ~now THEN 1 ELSE 0

(* NetDeviceQueue::Wake. *)
DeviceWake(was, now) == IF was /\ ~now THEN 1 ELSE 0

(* The dequeue trace, with d the limits after Completed: first the limits,   *)
(* then the device may reopen the queue, each with a callback of its own.    *)
PacketDequeued(d, wasByLimits, wasByDevice) ==
  /\ dql' = d
  /\ byLimits' = (wasByLimits /\ Available(d) < 0)
  /\ byDevice' = (wasByDevice /\ NoRoom(devQueue'))
  /\ wakes' = wakes + LimitsWake(wasByLimits, byLimits') + DeviceWake(wasByDevice, byDevice')

-----------------------------------------------------------------------------
(* The device, fed by the run loop of the queue disc above                   *)

Init ==
  /\ dql \in {Fresh(garbage) : garbage \in Word}
  /\ byDevice = FALSE /\ byLimits = FALSE
  /\ wakes = 0
  /\ devQueue = <<>>
  /\ busy = FALSE
  /\ running = FALSE
  /\ backlog = FALSE

(* A packet is enqueued into the queue disc, which is then run. *)
Arrive ==
  /\ ~running
  /\ running' = TRUE /\ backlog' = TRUE
  /\ UNCHANGED <<dql, byDevice, byLimits, wakes, devQueue, busy>>

(* Run finds the queue stopped, or nothing to send. *)
RunEnds ==
  /\ running
  /\ IsStopped \/ ~backlog
  /\ running' = FALSE
  /\ UNCHANGED <<dql, byDevice, byLimits, wakes, devQueue, busy, backlog>>

(* The run loop sends a packet, one of several or the last, while the device *)
(* is transmitting: PacketEnqueued.                                          *)
SendQueued(s) ==
  /\ running /\ backlog /\ ~IsStopped
  /\ busy
  /\ dql' = Queued(dql, s)
  /\ byLimits' = NotifyQueuedBytes(dql')
  /\ devQueue' = Append(devQueue, s)
  /\ byDevice' = NoRoom(devQueue')
  /\ backlog' \in BOOLEAN
  /\ UNCHANGED <<wakes, busy, running>>

(* The same, while it is idle: the packet is enqueued and dequeued at once.  *)
SendNow(s) ==
  /\ running /\ backlog /\ ~IsStopped
  /\ ~busy
  /\ busy' = TRUE
  /\ UNCHANGED devQueue
  /\ \E late \in BOOLEAN :
       LET d == Queued(dql, s)
       IN  PacketDequeued(Completed(d, s, late), NotifyQueuedBytes(d), NoRoom(<<s>>))
  /\ backlog' \in BOOLEAN
  /\ UNCHANGED running

(* The transmission of a packet ends.  Wake callbacks, scheduled for now,    *)
(* have been executed.                                                       *)
TransmitComplete ==
  /\ ~running /\ wakes = 0
  /\ busy
  /\ \/ /\ devQueue = <<>>
        /\ busy' = FALSE
        /\ UNCHANGED <<dql, byDevice, byLimits, wakes, devQueue>>
     \/ /\ devQueue # <<>>
        /\ devQueue' = Tail(devQueue)
        /\ \E late \in BOOLEAN :
             PacketDequeued(Completed(dql, Head(devQueue), late), byLimits, byDevice)
        /\ UNCHANGED busy
  /\ UNCHANGED <<running, backlog>>

WakeCallback ==
  /\ ~running /\ wakes > 0
  /\ wakes' = wakes - 1
  /\ running' = TRUE
  /\ UNCHANGED <<dql, byDevice, byLimits, devQueue, busy, backlog>>

Run == RunEnds \/ \E s \in Sizes : SendQueued(s) \/ SendNow(s)

Next == Arrive \/ Run \/ TransmitComplete \/ WakeCallback

Spec == Init /\ [][Next]_vars

(* Run finishes, and the simulator executes what is scheduled at its time,   *)
(* however many packets arrive before.                                       *)
FairSpec == Spec /\ WF_vars(Run) /\ SF_vars(TransmitComplete) /\ SF_vars(WakeCallback)

-----------------------------------------------------------------------------
(* Every variable has its type; every counter fits its word. *)
TypeOK ==
  /\ dql \in [limit : Word, numQueued : Word, numCompleted : Word, lastObjCnt : Word,
               prevNumQueued : Word, prevLastObjCnt : Word, prevOvlimit : Word,
               lowestSlack : Word, adjLimit : Word]
  /\ {byDevice, byLimits, busy, running, backlog} \subseteq BOOLEAN
  /\ wakes \in 0..2
  /\ devQueue \in Seq(Sizes) /\ Len(devQueue) <= MaxPackets

(* The bytes of the packets in a queue, and in that of the device. *)
Total(q) ==
  LET sum[i \in 0..Len(q)] == IF i = 0 THEN 0 ELSE sum[i - 1] + q[i]
  IN  sum[Len(q)]
InFlight == Total(devQueue)

(* What the limits have in store is the limit less what is in the queue, as  *)
(* numbers that do not wrap; the uninitialised m_adjLimit of a fresh object  *)
(* is never used for a decision that lasts.                                  *)
AvailableExact ==
  devQueue # <<>> \/ busy => Available(dql) = dql.limit - InFlight

(* The limits keep the queue stopped only while more than the limit is       *)
(* queued, so a stopped queue has a packet whose completion reopens it.      *)
StopJustified == byLimits => InFlight > dql.limit

(* Two reasons to stop, two ways to reopen: while the queue disc has packets *)
(* and the queue is open, a run is going on or scheduled.                    *)
NoLostWake == backlog /\ ~running /\ ~IsStopped => wakes > 0

(* A stopped queue, whoever stopped it, is opened again.                     *)
LimitsReopen == IsStopped ~> ~IsStopped
=============================================================================
