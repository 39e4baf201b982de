-------------------------- MODULE PhantomQueueProofs --------------------------
(***************************************************************************)
(* The promise of the phantom queue, for every packet size, rate,          *)
(* threshold and limit that satisfy PhantomAssumption: the virtual queue   *)
(* the code keeps is the one drained all the time, the link is never       *)
(* further behind than it, and so a packet left unmarked finds a short     *)
(* queue.                                                                  *)
(*                                                                         *)
(* The products of rates and queues are the only nonlinear arithmetic; the *)
(* lemmas of the first section are all that is used of it.                 *)
(***************************************************************************)
EXTENDS PhantomQueue, TLAPS

-----------------------------------------------------------------------------
(* Products                                                                  *)

(* One more tick drains once more. *)
LEMMA TickProduct ==
  ASSUME NEW n \in Nat, NEW d \in Nat
  PROVE  (n + 1) * d = n * d + d /\ n * d \in Nat
  OBVIOUS

(* A sum of two queues, each covered, is covered.                            *)
LEMMA SumCovered ==
  ASSUME NEW w \in Nat, NEW x \in Nat, NEW v \in Nat, NEW y \in Nat,
         NEW d \in Nat, NEW l \in Nat,
         w * d <= v * l, x * d <= y * l
  PROVE  (w + x) * d <= (v + y) * l
  <1>1. (w + x) * d = w * d + x * d /\ (v + y) * l = v * l + y * l
    OBVIOUS
  <1>2. w * d \in Nat /\ x * d \in Nat /\ v * l \in Nat /\ y * l \in Nat
    OBVIOUS
  <1>q. QED
    BY <1>1, <1>2

(* Two queues drained at their rates for a tick: one that covered the other  *)
(* still does.                                                               *)
LEMMA DrainCovered ==
  ASSUME NEW w \in Nat, NEW v \in Nat, NEW d \in Nat, NEW l \in Nat,
         w * d <= v * l
  PROVE  NonNegative(w - l) * d <= NonNegative(v - d) * l
  <1>1. w * d \in Nat /\ v * l \in Nat /\ l * d \in Nat /\ l * d = d * l
    OBVIOUS
  <1>2. CASE w < l
    <2>1. NonNegative(w - l) = 0
      BY <1>2 DEF NonNegative
    <2>2. NonNegative(v - d) \in Nat
      BY DEF NonNegative
    <2>q. QED
      BY <2>1, <2>2
  <1>3. CASE w >= l /\ v >= d
    <2>1. NonNegative(w - l) = w - l /\ NonNegative(v - d) = v - d
      BY <1>3 DEF NonNegative
    <2>2. (w - l) * d = w * d - l * d /\ (v - d) * l = v * l - d * l
      OBVIOUS
    <2>q. QED
      BY <1>1, <2>1, <2>2
  <1>4. CASE w >= l /\ v < d
    <2>1. NonNegative(w - l) = w - l /\ NonNegative(v - d) = 0
      BY <1>4 DEF NonNegative
    <2>2. v * l <= d * l
      BY <1>4
    <2>3. (w - l) * d = w * d - l * d
      OBVIOUS
    <2>4. (w - l) * d <= 0
      BY <1>1, <2>2, <2>3
    <2>q. QED
      BY <2>1, <2>4
  <1>q. QED
    BY <1>2, <1>3, <1>4

(* A product grows with its first factor. *)
LEMMA ProductMonotone ==
  ASSUME NEW a \in Nat, NEW b \in Nat, NEW l \in Nat, a <= b
  PROVE  a * l <= b * l /\ a * l \in Nat /\ b * l \in Nat
  OBVIOUS

(* NonNegative yields a natural number and keeps one. *)
LEMMA NonNegativeNat ==
  ASSUME NEW x \in Int
  PROVE  NonNegative(x) \in Nat /\ (x >= 0 => NonNegative(x) = x)
  BY DEF NonNegative

-----------------------------------------------------------------------------
(* The inductive invariant                                                   *)

(* The types, and what the three properties of the state say. *)
PhantomInv == TypeOK /\ NoInternalDrop /\ LazyEqualsFluid /\ PhantomDominates

(* The constants of the rates are natural numbers. *)
LEMMA RatesNat == {Overhead, Drain, LinkRate, Threshold, MaxSize} \subseteq Nat /\ Sizes \subseteq Nat
  BY PhantomAssumption DEF PhantomAssumption

(* What the code will find of the virtual queue is a natural number. *)
LEMMA VqNowNat == ASSUME TypeOK PROVE VqNow \in Nat /\ vq - since * Drain \in Int
  <1>1. since * Drain \in Nat
    BY RatesNat DEF TypeOK
  <1>2. vq - since * Drain \in Int
    BY <1>1 DEF TypeOK
  <1>q. QED
    BY <1>2, NonNegativeNat DEF VqNow

(* The initial state satisfies the invariant. *)
LEMMA InitPhantom == ASSUME Init PROVE PhantomInv
  <1>1. TypeOK
    BY DEF Init, TypeOK
  <1>2. VqNow = 0
    BY RatesNat DEF Init, VqNow, NonNegative
  <1>3. work * Drain = 0 /\ VqNow * LinkRate = 0
    BY <1>2, RatesNat DEF Init
  <1>q. QED
    BY <1>1, <1>2, <1>3 DEF Init, PhantomInv, NoInternalDrop, LazyEqualsFluid, PhantomDominates

(* The test of DoEnqueue implies the one of the internal queue: a packet     *)
(* that passes the first is stored.                                          *)
LEMMA PassedHasRoom ==
  ASSUME TypeOK, NEW s \in Sizes, ~Exceeds(s)
  PROVE  ~InternalFull(s)
  <1>1. NQueued \in Int /\ MaxSize \in Nat /\ s \in Nat
    BY RatesNat DEF TypeOK, NQueued
  <1>2. s >= 1
    BY PhantomAssumption DEF PhantomAssumption
  <1>3. s + NQueued <= MaxSize
    BY <1>1 DEF Exceeds
  <1>4. CASE ByteMode
    BY <1>1, <1>3, <1>4 DEF InternalFull
  <1>5. CASE ~ByteMode
    BY <1>1, <1>2, <1>3, <1>5 DEF InternalFull
  <1>q. QED
    BY <1>4, <1>5

(* What happens to a packet that is accepted. *)
LEMMA Accepted ==
  ASSUME PhantomInv, NEW s \in Sizes, NEW c \in BOOLEAN, Accept(s, c)
  PROVE  /\ internal' = Append(internal, Item(s, c))
         /\ nBytes' = nBytes + s
         /\ vq' = VqNow + s /\ since' = 0
         /\ fluid' = fluid + s /\ work' = work + (s + Overhead)
         /\ internalDrops' = internalDrops
  <1>1. Store(s, c) /\ ~InternalFull(s)
    BY PassedHasRoom DEF Accept, PhantomInv
  <1>2. work' = work + s + Overhead
    BY <1>1 DEF Store
  <1>3. work' = work + (s + Overhead)
    BY <1>2, RatesNat DEF PhantomInv, TypeOK
  <1>4. vq' = VqNow + s /\ since' = 0
    BY DEF Accept, VqAfter, VqNow, SetLast
  <1>q. QED
    BY <1>1, <1>3, <1>4 DEF Store

(* A packet accepted keeps the invariant: the virtual queue was up to date   *)
(* and takes the same as the fluid one, and the device's overhead is covered *)
(* by the difference of the rates.                                           *)
LEMMA AcceptPhantom ==
  ASSUME PhantomInv, NEW s \in Sizes, NEW c \in BOOLEAN, Accept(s, c)
  PROVE  PhantomInv' /\ VqNow' = vq'
  <1>1. VqNow \in Nat /\ s \in Nat /\ Overhead \in Nat /\ work \in Nat /\ fluid \in Nat
    BY VqNowNat, RatesNat DEF PhantomInv, TypeOK
  <1>2. TypeOK'
    <2>1. Item(s, c) \in Items
      BY DEF Item, Items, OverThreshold, ItemMark
    <2>2. internal' \in Seq(Items)
      BY <2>1, Accepted DEF PhantomInv, TypeOK
    <2>3. nBytes' \in Int
      BY <1>1, Accepted DEF PhantomInv, TypeOK
    <2>q. QED
      BY <1>1, <2>2, <2>3, Accepted DEF TypeOK
  <1>3. VqNow' = VqNow + s /\ VqNow' = vq'
    <2>1. since' * Drain = 0
      BY Accepted, RatesNat
    <2>2. vq' \in Nat
      BY <1>2 DEF TypeOK
    <2>3. VqNow' = NonNegative(vq' - since' * Drain)
      BY DEF VqNow
    <2>4. \A x \in Nat : NonNegative(x - 0) = x
      BY DEF NonNegative
    <2>q. QED
      BY <2>1, <2>2, <2>3, <2>4, Accepted
  <1>4. LazyEqualsFluid'
    BY <1>3, Accepted DEF PhantomInv, LazyEqualsFluid
  <1>5. PhantomDominates'
    <2>1. work * Drain <= VqNow * LinkRate
      BY DEF PhantomInv, PhantomDominates
    <2>2. (s + Overhead) * Drain <= s * LinkRate
      BY PhantomAssumption DEF PhantomAssumption
    <2>3. (work + (s + Overhead)) * Drain <= (VqNow + s) * LinkRate
      BY <1>1, <2>1, <2>2, RatesNat, SumCovered
    <2>q. QED
      BY <1>3, <2>3, Accepted DEF PhantomDominates
  <1>6. NoInternalDrop'
    BY Accepted DEF PhantomInv, NoInternalDrop
  <1>q. QED
    BY <1>2, <1>3, <1>4, <1>5, <1>6 DEF PhantomInv

(* A packet that is dropped or dequeued changes neither the virtual queue    *)
(* nor the backlog of the link.                                              *)
LEMMA QuietPhantom ==
  ASSUME PhantomInv, TypeOK',
         UNCHANGED <<vq, since, internalDrops, fluid, work>>
  PROVE  PhantomInv'
  BY DEF PhantomInv, NoInternalDrop, LazyEqualsFluid, PhantomDominates, VqNow

(* A tick drains the fluid queue once, and the virtual queue of the code     *)
(* once more when it is looked at.                                           *)
LEMMA TickPhantom == ASSUME PhantomInv, Tick PROVE PhantomInv'
  <1>1. /\ fluid \in Nat /\ work \in Nat /\ vq \in Nat /\ since \in Nat
        /\ Drain \in Nat /\ LinkRate \in Nat
    BY RatesNat DEF PhantomInv, TypeOK
  <1>2. TypeOK'
    <2>1. fluid' \in Nat /\ work' \in Nat /\ since' \in Nat
      BY <1>1 DEF Tick, NonNegative
    <2>q. QED
      BY <2>1 DEF Tick, PhantomInv, TypeOK
  <1>3. VqNow' = NonNegative(VqNow - Drain)
    <2>1. since' * Drain = since * Drain + Drain /\ since * Drain \in Nat
      BY <1>1, TickProduct DEF Tick
    <2>2. VqNow' = NonNegative(vq - since' * Drain)
      BY DEF VqNow, Tick
    <2>3. vq - since' * Drain = (vq - since * Drain) - Drain
      BY <1>1, <2>1
    <2>4. vq - since * Drain \in Int
      BY <1>1, <2>1
    <2>5. \A x \in Int : NonNegative(x - Drain) = NonNegative(NonNegative(x) - Drain)
      BY <1>1 DEF NonNegative
    <2>q. QED
      BY <2>2, <2>3, <2>4, <2>5 DEF VqNow
  <1>4. LazyEqualsFluid'
    BY <1>3 DEF Tick, PhantomInv, LazyEqualsFluid
  <1>5. PhantomDominates'
    <2>1. work * Drain <= VqNow * LinkRate /\ VqNow \in Nat
      BY VqNowNat DEF PhantomInv, PhantomDominates
    <2>2. NonNegative(work - LinkRate) * Drain <= NonNegative(VqNow - Drain) * LinkRate
      BY <1>1, <2>1, DrainCovered
    <2>q. QED
      BY <1>3, <2>2 DEF Tick, PhantomDominates
  <1>6. NoInternalDrop'
    BY DEF Tick, PhantomInv, NoInternalDrop
  <1>q. QED
    BY <1>2, <1>4, <1>5, <1>6 DEF PhantomInv

(* Every step keeps the invariant. *)
LEMMA NextPhantom == ASSUME PhantomInv, [Next]_vars PROVE PhantomInv'
  <1>1. ASSUME NEW s \in Sizes, NEW c \in BOOLEAN, DoEnqueue(s, c) PROVE PhantomInv'
    <2>1. CASE DropForced(s)
      <3>1. TypeOK' /\ UNCHANGED <<vq, since, internalDrops, fluid, work>>
        BY <2>1 DEF DropForced, PhantomInv, TypeOK
      <3>q. QED
        BY <3>1, QuietPhantom
    <2>2. CASE Accept(s, c)
      BY <2>2, AcceptPhantom
    <2>q. QED
      BY <1>1, <2>1, <2>2 DEF DoEnqueue
  <1>2. CASE DoDequeue
    <2>1. internal \in Seq(Items) /\ internal # <<>> /\ nBytes \in Int
      BY <1>2 DEF DoDequeue, PhantomInv, TypeOK
    <2>2. Head(internal) \in Items /\ Tail(internal) \in Seq(Items)
      BY <2>1
    <2>3. Head(internal).size \in Nat
      BY <2>2, RatesNat DEF Items
    <2>4. nBytes' \in Int
      BY <1>2, <2>1, <2>3 DEF DoDequeue
    <2>5. TypeOK' /\ UNCHANGED <<vq, since, internalDrops, fluid, work>>
      BY <1>2, <2>2, <2>4 DEF DoDequeue, PhantomInv, TypeOK
    <2>q. QED
      BY <2>5, QuietPhantom
  <1>3. CASE Tick
    BY <1>3, TickPhantom
  <1>4. CASE UNCHANGED vars
    <2>1. TypeOK' /\ UNCHANGED <<vq, since, internalDrops, fluid, work>>
      BY <1>4 DEF vars, PhantomInv, TypeOK
    <2>q. QED
      BY <2>1, QuietPhantom
  <1>q. QED
    BY <1>1, <1>2, <1>3, <1>4 DEF Next

-----------------------------------------------------------------------------
(* The results                                                               *)

(* The invariant holds in every reachable state.                             *)
THEOREM PhantomInvariant == Spec => []PhantomInv
  <1>1. Init => PhantomInv
    BY InitPhantom
  <1>2. PhantomInv /\ [Next]_vars => PhantomInv'
    BY NextPhantom
  <1>q. QED
    BY <1>1, <1>2, PTL DEF Spec

(* Updating the virtual queue only when a packet is accepted is exact, for   *)
(* any drain rate and any pattern of arrivals, drops and idle periods.       *)
THEOREM LazyCorrect == Spec => []LazyEqualsFluid
  <1>1. PhantomInv => LazyEqualsFluid
    BY DEF PhantomInv
  <1>q. QED
    BY <1>1, PhantomInvariant, PTL

(* If the drain rate leaves room for the overhead of every packet, the link  *)
(* is never further behind than the virtual queue.                           *)
THEOREM DominationCorrect == Spec => []PhantomDominates
  <1>1. PhantomInv => PhantomDominates
    BY DEF PhantomInv
  <1>q. QED
    BY <1>1, PhantomInvariant, PTL

(* DoEnqueue never changes the virtual queue for a packet that the internal  *)
(* queue then refuses, in either unit of the limit.                          *)
THEOREM NoInternalDropCorrect == Spec => []NoInternalDrop
  <1>1. PhantomInv => NoInternalDrop
    BY DEF PhantomInv
  <1>q. QED
    BY <1>1, PhantomInvariant, PTL

(* Only a packet that is accepted is stored, and its mark is decided by the  *)
(* virtual queue it leaves behind.                                           *)
LEMMA StoredByAccept ==
  ASSUME PhantomInv, [Next]_vars, Stored
  PROVE  /\ LastStored.capable => (LastStored.marked <=> vq' > Threshold)
         /\ VqNow' = vq' /\ PhantomInv'
  <1>1. internal \in Seq(Items)
    BY DEF PhantomInv, TypeOK
  <1>2. ~DoDequeue
    <2>1. ASSUME DoDequeue PROVE FALSE
      <3>1. internal # <<>> /\ internal' = Tail(internal)
        BY <2>1 DEF DoDequeue
      <3>2. Len(internal') = Len(internal) - 1 /\ Len(internal) \in Nat
        BY <1>1, <3>1
      <3>q. QED
        BY <3>2 DEF Stored
    <2>q. QED
      BY <2>1
  <1>3. internal' # internal
    <2>1. Len(internal) \in Nat
      BY <1>1
    <2>q. QED
      BY <2>1 DEF Stored
  <1>4. \E s \in Sizes, c \in BOOLEAN : Accept(s, c)
    BY <1>2, <1>3 DEF Next, vars, Tick, DoEnqueue, DropForced
  <1>5. PICK s \in Sizes, c \in BOOLEAN : Accept(s, c)
    BY <1>4
  <1>6. LastStored = Item(s, c)
    <2>1. internal' = Append(internal, Item(s, c))
      BY <1>5, Accepted
    <2>q. QED
      BY <1>1, <2>1 DEF LastStored
  <1>7. vq' = VqAfter(s)
    BY <1>5 DEF Accept
  <1>8. LastStored.capable = c /\ LastStored.marked = (vq' > Threshold /\ c)
    BY <1>6, <1>7 DEF Item, OverThreshold, ItemMark
  <1>9. VqNow' = vq' /\ PhantomInv'
    BY <1>5, AcceptPhantom
  <1>q. QED
    BY <1>8, <1>9

(* Every variable keeps its type, for any bounds.                            *)
THEOREM PhantomTypeCorrect == Spec => []TypeOK
  <1>1. PhantomInv => TypeOK
    BY DEF PhantomInv
  <1>q. QED
    BY <1>1, PhantomInvariant, PTL

(* A packet that may be marked is marked exactly if the fluid virtual queue, *)
(* itself included, exceeds the threshold.                                   *)
THEOREM MarkCorrect == Spec => MarkExact
  <1>1. ASSUME PhantomInv, [Next]_vars, Stored, LastStored.capable
        PROVE  LastStored.marked <=> fluid' > Threshold
    <2>1. LastStored.marked <=> vq' > Threshold
      BY <1>1, StoredByAccept
    <2>2. fluid' = vq'
      BY <1>1, StoredByAccept DEF PhantomInv, LazyEqualsFluid
    <2>q. QED
      BY <2>1, <2>2
  <1>2. PhantomInv /\ [Next]_vars
          => [Stored /\ LastStored.capable
                => (LastStored.marked <=> fluid' > Threshold)]_vars
    BY <1>1
  <1>q. QED
    BY <1>2, PhantomInvariant, PTL DEF Spec, MarkExact

(* The promise of HULL, for every choice of the constants: a packet that is  *)
(* left unmarked finds a link that has no more to do than the virtual queue  *)
(* has when it is at the threshold.                                          *)
THEOREM PromiseCorrect == Spec => UnmarkedMeansShort
  <1>1. ASSUME PhantomInv, [Next]_vars, Stored, LastStored.capable, ~LastStored.marked
        PROVE  work' * Drain <= Threshold * LinkRate
    <2>1. ~(vq' > Threshold) /\ VqNow' = vq' /\ PhantomInv'
      BY <1>1, StoredByAccept
    <2>2. vq' \in Nat /\ work' \in Nat
      BY <2>1 DEF PhantomInv, TypeOK
    <2>3. Drain \in Nat /\ LinkRate \in Nat /\ Threshold \in Nat
      BY RatesNat
    <2>4. vq' <= Threshold
      BY <2>1, <2>2, <2>3
    <2>5. /\ vq' * LinkRate <= Threshold * LinkRate
          /\ vq' * LinkRate \in Nat /\ Threshold * LinkRate \in Nat
      BY <2>2, <2>3, <2>4, ProductMonotone
    <2>6. work' * Drain <= vq' * LinkRate /\ work' * Drain \in Nat
      <3>1. work' * Drain <= VqNow' * LinkRate
        BY <2>1 DEF PhantomInv, PhantomDominates
      <3>2. work' * Drain \in Nat
        BY <2>2, <2>3, ProductMonotone, work' <= work'
      <3>q. QED
        BY <2>1, <3>1, <3>2
    <2>q. QED
      BY <2>5, <2>6
  <1>2. PhantomInv /\ [Next]_vars
          => [Stored /\ LastStored.capable /\ ~LastStored.marked
                => work' * Drain <= Threshold * LinkRate]_vars
    BY <1>1
  <1>q. QED
    BY <1>2, PhantomInvariant, PTL DEF Spec, UnmarkedMeansShort
=============================================================================
