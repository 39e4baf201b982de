---------------------------- MODULE PhantomQueue ----------------------------
(***************************************************************************)
(* PhantomQueueDisc, the queue discipline of HULL: packets are stored in a *)
(* drop-tail queue and sent in order, and a virtual queue that drains more *)
(* slowly than the link decides which of them are marked.                  *)
(*                                                                         *)
(* The code updates the virtual queue only when a packet is accepted, from *)
(* the time since the last accepted packet.  Here time advances in ticks,  *)
(* and two histories advance with it: fluid, a virtual queue that is       *)
(* drained all the time, and work, what the link still has to serialise of *)
(* the packets accepted.  The link works at full rate as long as there is  *)
(* work (TxPath!WorkConserving).                                           *)
(***************************************************************************)
EXTENDS Integers, Sequences

CONSTANTS
  Sizes,         (* item->GetSize() of the packets, in bytes                 *)
  Overhead,      (* bytes the device adds to each packet                     *)
  Drain,         (* m_drain_rate, in bytes per tick                          *)
  LinkRate,      (* data rate of the device, in bytes per tick               *)
  Threshold,     (* m_marking_threshold                                      *)
  ByteMode,      (* the unit of MaxSize is bytes, not packets                *)
  MaxSize,       (* attribute MaxSize                                        *)
  MaxVq,         (* bound: the virtual queue                                 *)
  MaxIdle,       (* bound: ticks since the last accepted packet              *)
  MaxDrops       (* bound: packets dropped                                   *)

(* DrainRateFraction leaves room for the overhead of every packet: the       *)
(* virtual queue needs at least as long for a packet as the link does.       *)
ASSUME PhantomAssumption ==
  /\ Sizes \subseteq Nat \ {0}
  /\ {Overhead, Drain, LinkRate, Threshold, MaxSize, MaxVq, MaxIdle, MaxDrops} \subseteq Nat
  /\ ByteMode \in BOOLEAN
  /\ \A s \in Sizes : (s + Overhead) * Drain <= s * LinkRate

VARIABLES
  internal,      (* the items of the internal queue, head first              *)
  nBytes,        (* its m_nBytes                                             *)
  vq,            (* m_vq                                                     *)
  since,         (* Simulator::Now () - m_lastSet                            *)
  forcedDrops,   (* packets dropped by DoEnqueue                             *)
  internalDrops, (* packets dropped by the internal queue                    *)
  fluid,         (* history: the virtual queue, drained continuously         *)
  work           (* history: bytes the link has yet to serialise             *)

vars == <<internal, nBytes, vq, since, forcedDrops, internalDrops, fluid, work>>

(* An item of the queue: its size, whether its header says that it may be    *)
(* marked (any code point but Not-ECT) and whether it was marked here.       *)
Items == [size : Sizes, capable : BOOLEAN, marked : BOOLEAN]

NonNegative(x) == IF x < 0 THEN 0 ELSE x

(* InitializeParams *)
Init ==
  /\ internal = <<>>
  /\ nBytes = 0
  /\ vq = 0
  /\ since = 0
  /\ forcedDrops = 0
  /\ internalDrops = 0
  /\ fluid = 0
  /\ work = 0

-----------------------------------------------------------------------------
(* The current size of the internal queue, in the unit of MaxSize. *)
NQueued == IF ByteMode THEN nBytes ELSE Len(internal)

(* The test of DoEnqueue: the size of the packet in bytes is added whatever  *)
(* the unit is.                                                              *)
Exceeds(s) == s + NQueued > MaxSize

(* The test of the internal queue itself, Queue::DoEnqueue. *)
InternalFull(s) == NQueued + (IF ByteMode THEN s ELSE 1) > MaxSize

(* Mutant: the packet is added before the virtual queue is drained. *)
VqAfter_AddsFirst(s) == NonNegative(vq + s - since * Drain)

(* The virtual queue with the packet in it. *)
VqAfter(s) == NonNegative(vq - since * Drain) + s

(* Ipv4QueueDiscItem::Mark: a packet that is not ECN capable cannot be marked. *)
ItemMark(capable) == capable

(* Mutant: the threshold is compared before the packet is counted. *)
OverThreshold_Before(s) == VqAfter(s) - s > Threshold
OverThreshold(s) == VqAfter(s) > Threshold

(* The item that DoEnqueue stores. *)
Item(s, c) == [size |-> s, capable |-> c, marked |-> OverThreshold(s) /\ ItemMark(c)]

(* Mutant: m_lastSet is not updated. *)
SetLast_Never == UNCHANGED since
SetLast == since' = 0

DropForced(s) ==
  /\ Exceeds(s)
  /\ forcedDrops < MaxDrops
  /\ forcedDrops' = forcedDrops + 1
  /\ UNCHANGED <<internal, nBytes, vq, since, internalDrops, fluid, work>>

(* GetInternalQueue (0)->Enqueue. *)
Store(s, c) ==
  IF InternalFull(s)
  THEN internalDrops' = internalDrops + 1 /\ UNCHANGED <<internal, nBytes, fluid, work>>
  ELSE /\ internal' = Append(internal, Item(s, c))
       /\ nBytes' = nBytes + s
       /\ fluid' = fluid + s
       /\ work' = work + s + Overhead
       /\ UNCHANGED internalDrops

(* DoEnqueue with a packet that passes the test. *)
Accept(s, c) ==
  /\ ~Exceeds(s)
  /\ VqAfter(s) <= MaxVq
  /\ vq' = VqAfter(s)
  /\ SetLast
  /\ Store(s, c)
  /\ UNCHANGED forcedDrops

DoEnqueue(s, c) == DropForced(s) \/ Accept(s, c)

(* m_idle and m_idleTime are written here and read nowhere. *)
DoDequeue ==
  /\ internal # <<>>
  /\ internal' = Tail(internal)
  /\ nBytes' = nBytes - Head(internal).size
  /\ UNCHANGED <<vq, since, forcedDrops, internalDrops, fluid, work>>

(* One tick passes.  What the link serialises in it has been dequeued.       *)
Tick ==
  /\ since < MaxIdle
  /\ since' = since + 1
  /\ fluid' = NonNegative(fluid - Drain)
  /\ work' = NonNegative(work - LinkRate)
  /\ nBytes + Len(internal) * Overhead <= work'
  /\ UNCHANGED <<internal, nBytes, vq, forcedDrops, internalDrops>>

Next ==
  \/ \E s \in Sizes, c \in BOOLEAN : DoEnqueue(s, c)
  \/ DoDequeue
  \/ Tick

Spec == Init /\ [][Next]_vars

-----------------------------------------------------------------------------
(* The variables have their types, whatever the bounds.  That nBytes is not   *)
(* negative is not claimed.                                                  *)
TypeOK ==
  /\ internal \in Seq(Items)
  /\ nBytes \in Int
  /\ vq \in Nat /\ since \in Nat
  /\ fluid \in Nat /\ work \in Nat

(* The virtual queue, as the code will find it when the next packet comes.   *)
VqNow == NonNegative(vq - since * Drain)

(* Updating the virtual queue only when a packet is accepted is as good as   *)
(* draining it all the time: neither drops nor idle periods distort it.      *)
LazyEqualsFluid == VqNow = fluid

(* The virtual queue is never ahead of the real one: the link needs no       *)
(* longer for the packets it has than the virtual queue for its own.         *)
PhantomDominates == work * Drain <= VqNow * LinkRate

(* Some packet was stored by this step. *)
Stored == Len(internal') > Len(internal)
LastStored == internal'[Len(internal')]

(* A packet that may be marked is marked exactly if the virtual queue,       *)
(* itself included, exceeds the threshold at that moment.                    *)
MarkExact ==
  [][Stored /\ LastStored.capable
       => (LastStored.marked <=> fluid' > Threshold)]_vars

(* The promise of HULL: a packet left unmarked finds a link that is done     *)
(* with everything, itself included, before the virtual queue would have     *)
(* drained the threshold.                                                    *)
UnmarkedMeansShort ==
  [][Stored /\ LastStored.capable /\ ~LastStored.marked
       => work' * Drain <= Threshold * LinkRate]_vars

(* The internal queue never drops: DoEnqueue has tested for room before it   *)
(* changed the virtual queue ("There should be zero drops due to queue       *)
(* full", scratch/phantom-example.cc).                                       *)
NoInternalDrop == internalDrops = 0

(* What the attribute MaxSize says, "the maximum number of packets accepted  *)
(* by this queue disc": a packet is dropped only if that many are stored.    *)
DropsOnlyWhenFull ==
  [][~ByteMode /\ forcedDrops' > forcedDrops => Len(internal) + 1 > MaxSize]_vars
=============================================================================
