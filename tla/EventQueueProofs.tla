--------------------------- MODULE EventQueueProofs ---------------------------
(***************************************************************************)
(* The order of events in EventQueue for any delays and any number of      *)
(* events: time never goes back, events of one time are executed in the    *)
(* order they entered the queue, and IsExpired is exact.  All three follow *)
(* from one fact: what is in the queue lies after the key of the event     *)
(* that was executed last, and what was in it before or at it.             *)
(*                                                                         *)
(* On top of it, no event is lost or executed twice, and the count of      *)
(* unscheduled events is exact: an event that Remove takes out of the      *)
(* queue really is there, because IsExpired is exact.                      *)
(***************************************************************************)
EXTENDS EventQueue, FiniteSetTheorems, FunctionTheorems, TLAPS

(* The events in the queue have numbers of their own and lie ahead. *)
Ahead ==
  /\ currentUid < nextUid
  /\ \A e \in events : Before(now, currentUid, e.ts, e.uid) /\ e.uid < nextUid
  /\ \A e, f \in events : e.uid = f.uid => e = f

(* An event that left the queue was reached or is cancelled. *)
LeftExpired == \A e \in handles : e \notin events => Reached(e) \/ e.id \in cancelled

(* The inductive invariant. *)
OrderInv == TypeOK /\ Ahead /\ LeftExpired

(* An event of the queue has not been reached. *)
LEMMA AheadUnreached ==
  ASSUME TypeOK, Ahead, NEW e \in events
  PROVE  ~Reached(e)
  <1>1. e.ts \in Nat /\ e.uid \in Nat /\ now \in Nat /\ currentUid \in Nat
    BY DEF TypeOK, Events
  <1>2. Before(now, currentUid, e.ts, e.uid)
    BY DEF Ahead
  <1>q. QED
    BY <1>1, <1>2 DEF Before, Reached

(* What IsExpired says follows. *)
LEMMA InvExpired == ASSUME OrderInv PROVE ExpiredExact
  <1>1. SUFFICES ASSUME NEW e \in handles
                 PROVE  IsExpired(e) <=> e \notin events \/ e.id \in cancelled
    BY DEF ExpiredExact
  <1>2. e \in events => ~Reached(e)
    BY AheadUnreached DEF OrderInv
  <1>3. e \notin events => Reached(e) \/ e.id \in cancelled
    BY DEF OrderInv, LeftExpired
  <1>q. QED
    BY <1>2, <1>3 DEF IsExpired

(* The initial states satisfy the invariant. *)
LEMMA InitOrder == ASSUME Init PROVE OrderInv
  <1>1. TypeOK
    <2>1. events \in SUBSET Events /\ handles \in SUBSET Events
      BY DEF Init
    <2>2. {now, currentUid, nextUid, made} \subseteq Nat /\ unscheduled \in Int
      BY DEF Init
    <2>3. withContext \in Seq([id : Nat, delay : Nat])
      BY DEF Init
    <2>4. cancelled \subseteq Nat /\ executed \subseteq Nat /\ removed \subseteq Nat
      BY DEF Init
    <2>q. QED
      BY <2>1, <2>2, <2>3, <2>4 DEF Init, TypeOK
  <1>2. Ahead /\ LeftExpired
    BY DEF Init, Ahead, LeftExpired
  <1>q. QED
    BY <1>1, <1>2 DEF OrderInv

(* A step that adds nothing to the queue and executes nothing. *)
LEMMA QuietOrder ==
  ASSUME OrderInv, TypeOK', UNCHANGED <<now, currentUid, nextUid, handles>>,
         events' \subseteq events, cancelled \subseteq cancelled',
         \A e \in events \ events' : e.id \in cancelled'
  PROVE  OrderInv'
  <1>1. Ahead'
    BY DEF OrderInv, Ahead, Before
  <1>2. LeftExpired'
    BY DEF OrderInv, LeftExpired, Reached
  <1>q. QED
    BY <1>1, <1>2 DEF OrderInv

(* The program's steps keep the invariant. *)
LEMMA ProgramOrder == ASSUME OrderInv, Program PROVE OrderInv'
  <1>1. ASSUME NEW delay \in Delays, Schedule(delay) PROVE OrderInv'
    <2>1. /\ delay \in Nat /\ now \in Nat /\ currentUid \in Nat /\ nextUid \in Nat
          /\ made \in Nat /\ unscheduled \in Int /\ currentUid < nextUid
      BY EventQueueAssumption DEF EventQueueAssumption, OrderInv, TypeOK, Ahead
    <2>2. PICK e \in {[id |-> made + 1, ts |-> now + delay, uid |-> nextUid]} :
            events' = events \cup {e} /\ handles' = handles \cup {e}
      BY <1>1 DEF Schedule
    <2>3. /\ e = [id |-> made + 1, ts |-> now + delay, uid |-> nextUid]
          /\ UNCHANGED <<now, currentUid, cancelled, at, stop, contextVars, executed, removed>>
          /\ nextUid' = nextUid + 1 /\ made' = made + 1 /\ unscheduled' = unscheduled + 1
      BY <1>1, <2>2 DEF Schedule
    <2>4. e \in Events /\ e.uid = nextUid /\ e.ts = now + delay
      BY <2>1, <2>3 DEF Events
    <2>5. TypeOK'
      <3>1. events' \in SUBSET Events /\ handles' \in SUBSET Events
        BY <2>2, <2>4 DEF OrderInv, TypeOK
      <3>2. {now', currentUid', nextUid', made'} \subseteq Nat /\ unscheduled' \in Int
        BY <2>1, <2>3
      <3>q. QED
        BY <2>3, <3>1, <3>2 DEF OrderInv, TypeOK, contextVars
    <2>6. \A f \in events : f.uid \in Nat /\ f.uid < nextUid /\ Before(now, currentUid, f.ts, f.uid)
      BY DEF OrderInv, TypeOK, Events, Ahead
    <2>7. Before(now, currentUid, e.ts, e.uid)
      BY <2>1, <2>4 DEF Before
    <2>8. Ahead'
      <3>1. currentUid' < nextUid'
        BY <2>1, <2>3
      <3>2. \A f \in events' : Before(now', currentUid', f.ts, f.uid) /\ f.uid < nextUid'
        BY <2>1, <2>2, <2>3, <2>4, <2>6, <2>7
      <3>3. \A f, g \in events' : f.uid = g.uid => f = g
        BY <2>1, <2>2, <2>4, <2>6 DEF OrderInv, Ahead
      <3>q. QED
        BY <3>1, <3>2, <3>3 DEF Ahead
    <2>9. LeftExpired'
      BY <2>2, <2>3 DEF OrderInv, LeftExpired, Reached
    <2>q. QED
      BY <2>5, <2>8, <2>9 DEF OrderInv
  <1>2. ASSUME NEW e \in handles, Cancel(e) PROVE OrderInv'
    <2>1. TypeOK'
      BY <1>2 DEF OrderInv, TypeOK, Cancel, contextVars, Events
    <2>q. QED
      BY <1>2, <2>1, QuietOrder DEF Cancel
  <1>3. ASSUME NEW e \in handles, Remove(e) PROVE OrderInv'
    <2>1. TypeOK'
      <3>1. e.id \in Nat /\ unscheduled' \in Int
        BY <1>3 DEF OrderInv, TypeOK, Events, Remove, UnscheduledLess
      <3>q. QED
        BY <1>3, <3>1 DEF OrderInv, TypeOK, Remove, contextVars
    <2>q. QED
      BY <1>3, <2>1, QuietOrder DEF Remove
  <1>4. CASE Stop
    <2>1. TypeOK'
      BY <1>4 DEF OrderInv, TypeOK, Stop, contextVars
    <2>q. QED
      BY <1>4, <2>1, QuietOrder DEF Stop
  <1>q. QED
    BY <1>1, <1>2, <1>3, <1>4 DEF Program

(* The elements of a sequence. *)
LEMMA ElementsOfSeq ==
  ASSUME NEW S, NEW q \in Seq(S)
  PROVE  Len(q) \in Nat /\ \A i \in 1..Len(q) : q[i] \in S
  OBVIOUS

(* The events of other threads enter the queue. *)
LEMMA SwapOrder == ASSUME OrderInv, Swap PROVE OrderInv'
  <1> DEFINE Moved(i) == [id |-> withContext[i].id, ts |-> now + withContext[i].delay,
                          uid |-> nextUid + i - 1]
  <1>1. /\ now \in Nat /\ currentUid \in Nat /\ nextUid \in Nat /\ currentUid < nextUid
        /\ Len(withContext) \in Nat
        /\ \A i \in 1..Len(withContext) : withContext[i].id \in Nat /\ withContext[i].delay \in Nat
    <2>1. withContext \in Seq([id : Nat, delay : Nat])
      BY DEF OrderInv, TypeOK
    <2>2. /\ Len(withContext) \in Nat
          /\ \A i \in 1..Len(withContext) : withContext[i] \in [id : Nat, delay : Nat]
      BY <2>1, ElementsOfSeq
    <2>q. QED
      BY <2>2 DEF OrderInv, TypeOK, Ahead
  <1>2. /\ events' = events \cup {Moved(i) : i \in 1..Len(withContext)}
        /\ nextUid' = nextUid + Len(withContext)
        /\ unscheduled' = unscheduled + Len(withContext)
        /\ withContext' = <<>> /\ contextEmpty' = TRUE /\ at' = "looping"
        /\ UNCHANGED <<now, currentUid, stop, cancelled, handles, executed, removed, made>>
    BY DEF Swap, SwapOut
  <1>3. ASSUME NEW i \in 1..Len(withContext)
        PROVE  /\ Moved(i) \in Events
               /\ Moved(i).uid = nextUid + i - 1 /\ Moved(i).ts >= now
    BY <1>1 DEF Events
  <1>4. TypeOK'
    <2>1. events' \in SUBSET Events
      BY <1>2, <1>3 DEF OrderInv, TypeOK
    <2>2. nextUid' \in Nat /\ unscheduled' \in Int
      BY <1>1, <1>2 DEF OrderInv, TypeOK
    <2>q. QED
      BY <1>2, <2>1, <2>2 DEF OrderInv, TypeOK
  <1>5. \A f \in events : f.uid \in Nat /\ f.uid < nextUid /\ Before(now, currentUid, f.ts, f.uid)
    BY DEF OrderInv, TypeOK, Events, Ahead
  <1>6. Ahead'
    <2>1. currentUid' < nextUid'
      BY <1>1, <1>2
    <2>2. ASSUME NEW f \in events'
          PROVE  Before(now, currentUid, f.ts, f.uid) /\ f.uid < nextUid'
      <3>1. CASE f \in events
        BY <1>1, <1>2, <1>5, <3>1
      <3>2. CASE f \notin events
        <4>1. PICK i \in 1..Len(withContext) : f = Moved(i)
          BY <1>2, <3>2
        <4>2. /\ f.uid = nextUid + i - 1 /\ f.ts >= now /\ f.ts \in Nat /\ i \in Nat
              /\ 1 <= i /\ i <= Len(withContext)
          BY <1>1, <1>3, <4>1 DEF Events
        <4>3. f.uid < nextUid'
          BY <1>1, <1>2, <4>2
        <4>4. currentUid < f.uid
          BY <1>1, <4>2
        <4>q. QED
          BY <1>1, <4>2, <4>3, <4>4 DEF Before
      <3>q. QED
        BY <3>1, <3>2
    <2>3. ASSUME NEW f \in events', NEW g \in events', f.uid = g.uid PROVE f = g
      <3>1. CASE f \in events /\ g \in events
        BY <2>3, <3>1 DEF OrderInv, Ahead
      <3>2. CASE f \in events /\ g \notin events
        <4>1. PICK i \in 1..Len(withContext) : g = Moved(i)
          BY <1>2, <3>2
        <4>2. g.uid = nextUid + i - 1 /\ i \in Nat /\ 1 <= i
          BY <1>1, <1>3, <4>1
        <4>3. f.uid \in Nat /\ f.uid < nextUid
          BY <1>5, <3>2
        <4>q. QED
          BY <1>1, <2>3, <4>2, <4>3
      <3>3. CASE f \notin events /\ g \in events
        <4>1. PICK i \in 1..Len(withContext) : f = Moved(i)
          BY <1>2, <3>3
        <4>2. f.uid = nextUid + i - 1 /\ i \in Nat /\ 1 <= i
          BY <1>1, <1>3, <4>1
        <4>3. g.uid \in Nat /\ g.uid < nextUid
          BY <1>5, <3>3
        <4>q. QED
          BY <1>1, <2>3, <4>2, <4>3
      <3>4. CASE f \notin events /\ g \notin events
        <4>1. PICK i \in 1..Len(withContext) : f = Moved(i)
          BY <1>2, <3>4
        <4>2. PICK k \in 1..Len(withContext) : g = Moved(k)
          BY <1>2, <3>4
        <4>3. f.uid = nextUid + i - 1 /\ g.uid = nextUid + k - 1 /\ i \in Nat /\ k \in Nat
          BY <1>1, <1>3, <4>1, <4>2
        <4>4. i = k
          <5>1. nextUid + i - 1 = nextUid + k - 1 /\ nextUid \in Nat
            BY <1>1, <2>3, <4>3
          <5>q. QED
            BY <4>3, <5>1
        <4>q. QED
          BY <4>1, <4>2, <4>4
      <3>q. QED
        BY <3>1, <3>2, <3>3, <3>4
    <2>q. QED
      BY <1>2, <2>1, <2>2, <2>3 DEF Ahead
  <1>7. LeftExpired'
    BY <1>2 DEF OrderInv, LeftExpired, Reached
  <1>q. QED
    BY <1>4, <1>6, <1>7 DEF OrderInv

(* The next event is executed: it is ahead of the last one, and all others   *)
(* are ahead of it.                                                          *)
LEMMA ProcessOrder ==
  ASSUME OrderInv, NEW e \in events, ProcessOneEvent(e)
  PROVE  OrderInv' /\ Before(now, currentUid, now', currentUid')
  <1>1. /\ e \in Events /\ e.ts \in Nat /\ e.uid \in Nat /\ e.id \in Nat
        /\ now \in Nat /\ currentUid \in Nat /\ nextUid \in Nat
        /\ e.uid < nextUid
        /\ Before(now, currentUid, e.ts, e.uid)
    BY DEF OrderInv, TypeOK, Events, Ahead
  <1>2. /\ events' = events \ {e} /\ now' = e.ts /\ currentUid' = e.uid
        /\ \A f \in events \ {e} : Before(e.ts, e.uid, f.ts, f.uid)
        /\ UNCHANGED <<nextUid, stop, cancelled, handles, removed, contextVars, made>>
        /\ unscheduled' = unscheduled - 1 /\ executed' = executed \cup {e.id}
    BY DEF ProcessOneEvent, Least
  <1>3. at' \in {"outside", "checking", "swapping", "looping", "invoking"}
    BY DEF ProcessOneEvent
  <1>4. TypeOK'
    <2>1. unscheduled' \in Int /\ now' \in Nat /\ currentUid' \in Nat
      BY <1>1, <1>2 DEF OrderInv, TypeOK
    <2>q. QED
      BY <1>1, <1>2, <1>3, <2>1 DEF OrderInv, TypeOK, contextVars
  <1>5. Ahead'
    <2>1. currentUid' < nextUid'
      BY <1>1, <1>2
    <2>2. \A f \in events' : Before(now', currentUid', f.ts, f.uid) /\ f.uid < nextUid'
      BY <1>2 DEF OrderInv, Ahead
    <2>3. \A f, g \in events' : f.uid = g.uid => f = g
      BY <1>2 DEF OrderInv, Ahead
    <2>q. QED
      BY <2>1, <2>2, <2>3 DEF Ahead
  <1>6. ASSUME NEW h \in handles, h \notin events' PROVE Reached(h)' \/ h.id \in cancelled'
    <2>1. h.ts \in Nat /\ h.uid \in Nat
      BY DEF OrderInv, TypeOK, Events
    <2>2. CASE h = e
      BY <1>1, <1>2, <2>2 DEF Reached
    <2>3. CASE h # e
      <3>1. Reached(h) \/ h.id \in cancelled
        BY <1>2, <1>6, <2>3 DEF OrderInv, LeftExpired
      <3>2. Reached(h) => Reached(h)'
        BY <1>1, <1>2, <2>1 DEF Reached, Before
      <3>q. QED
        BY <1>2, <3>1, <3>2
    <2>q. QED
      BY <2>2, <2>3
  <1>7. LeftExpired'
    BY <1>2, <1>6 DEF LeftExpired
  <1>q. QED
    BY <1>1, <1>2, <1>4, <1>5, <1>7 DEF OrderInv

(* Every step keeps the invariant, and one that executes an event goes       *)
(* forward.                                                                  *)
LEMMA StepOrder ==
  ASSUME OrderInv, [Next]_vars
  PROVE  OrderInv' /\ (executed' # executed => Before(now, currentUid, now', currentUid'))
  <1>1. CASE Program
    <2>1. UNCHANGED executed
      BY <1>1 DEF Program, Schedule, Cancel, Remove, Stop
    <2>q. QED
      BY <1>1, <2>1, ProgramOrder
  <1>2. CASE Swap
    BY <1>2, SwapOrder DEF Swap
  <1>3. CASE \E e \in events : ProcessOneEvent(e)
    BY <1>3, ProcessOrder
  <1>4. CASE RunBegins \/ CheckContext \/ HandlerReturns \/ RunReturns
    <2>1. /\ UNCHANGED <<events, now, currentUid, nextUid, unscheduled, cancelled,
                         handles, executed, removed, contextVars, made>>
          /\ stop' \in BOOLEAN
          /\ at' \in {"outside", "checking", "swapping", "looping", "invoking"}
      BY <1>4 DEF OrderInv, TypeOK, RunBegins, CheckContext, HandlerReturns, RunReturns
    <2>2. TypeOK'
      BY <2>1 DEF OrderInv, TypeOK, contextVars
    <2>q. QED
      BY <2>1, <2>2, QuietOrder
  <1>5. ASSUME NEW delay \in Delays, ScheduleWithContext(delay)
        PROVE  OrderInv' /\ UNCHANGED executed
    <2>1. withContext' \in Seq([id : Nat, delay : Nat]) /\ made' \in Nat
      BY <1>5, EventQueueAssumption
      DEF EventQueueAssumption, OrderInv, TypeOK, ScheduleWithContext
    <2>2. TypeOK'
      BY <1>5, <2>1 DEF OrderInv, TypeOK, ScheduleWithContext, mainVars
    <2>q. QED
      BY <1>5, <2>2, QuietOrder DEF ScheduleWithContext, mainVars
  <1>6. CASE UNCHANGED vars
    <2>1. TypeOK'
      BY <1>6 DEF OrderInv, TypeOK, vars, mainVars, contextVars
    <2>q. QED
      BY <1>6, <2>1, QuietOrder DEF vars, mainVars
  <1>q. QED
    BY <1>1, <1>2, <1>3, <1>4, <1>5, <1>6 DEF Next, Running

(* Every variable of the event queue keeps its type. *)
THEOREM QueueTypeCorrect == Spec => []TypeOK
  <1>1. OrderInv => TypeOK
    BY DEF OrderInv
  <1>q. QED
    BY <1>1, InitOrder, StepOrder, PTL DEF Spec

(* Events are executed in the order of their times and, at one time, in the  *)
(* order they entered the queue (ProcessOneEvent), for any delays, whatever  *)
(* handlers, other threads, cancels and removals do.                         *)
THEOREM OrderCorrect == Spec => Chronological
  <1>1. ASSUME OrderInv, [Next]_vars
        PROVE  [executed' # executed => Before(now, currentUid, now', currentUid')]_vars
    BY <1>1, StepOrder
  <1>q. QED
    BY <1>1, InitOrder, StepOrder, PTL DEF Spec, Chronological

(* IsExpired is exact, so that Remove and Cancel do what they are asked for. *)
THEOREM ExpiredCorrect == Spec => []ExpiredExact
  BY InitOrder, StepOrder, InvExpired, PTL DEF Spec

-----------------------------------------------------------------------------
(* Every event is in one place                                               *)

(* c, e, x and r part the numbers 1 to n. *)
Parted(c, e, x, r, n) ==
  /\ c \cup e \cup x \cup r = 1..n
  /\ c \cap e = {}
  /\ (c \cup e) \cap x = {}
  /\ (c \cup e \cup x) \cap r = {}

(* No two events have one identity, in the queue or in the list. *)
DistinctIds ==
  /\ \A e, f \in events : e.id = f.id => e = f
  /\ \A i, k \in 1..Len(withContext) : withContext[i].id = withContext[k].id => i = k

(* The count of the events in the queue. *)
Counted == IsFiniteSet(events) /\ unscheduled = Cardinality(events)

(* The inductive invariant. *)
OnceInv ==
  /\ OrderInv
  /\ Parted(ContextIds, EventIds, executed, removed, made)
  /\ DistinctIds
  /\ Counted

(* The image of a finite set under a function that tells its elements apart  *)
(* has as many elements.                                                     *)
LEMMA ImageCount ==
  ASSUME NEW S, IsFiniteSet(S), NEW f, f = [x \in S |-> f[x]],
         \A x, y \in S : f[x] = f[y] => x = y
  PROVE  /\ IsFiniteSet({f[x] : x \in S})
         /\ Cardinality({f[x] : x \in S}) = Cardinality(S)
  <1> DEFINE T == {f[x] : x \in S}
  <1>1. f \in [S -> T]
    <2>1. \A x \in S : f[x] \in T
      OBVIOUS
    <2>q. QED
      BY <2>1
  <1>2. f \in Injection(S, T)
    BY <1>1 DEF Injection, IsInjective
  <1>3. f \in Surjection(S, T)
    BY <1>1 DEF Surjection
  <1>4. f \in Bijection(S, T)
    BY <1>2, <1>3 DEF Bijection
  <1>5. ExistsBijection(S, T)
    BY <1>4 DEF ExistsBijection
  <1>q. QED
    BY <1>5, FS_Bijection

(* The queue has as many identities as events. *)
LEMMA IdsCount ==
  ASSUME IsFiniteSet(events), \A e, f \in events : e.id = f.id => e = f
  PROVE  Cardinality(EventIds) = Cardinality(events)
  <1> DEFINE idOf == [e \in events |-> e.id]
  <1>1. Cardinality({idOf[e] : e \in events}) = Cardinality(events)
    <2>1. \A e, f \in events : idOf[e] = idOf[f] => e = f
      OBVIOUS
    <2>2. idOf = [e \in events |-> idOf[e]]
      OBVIOUS
    <2> HIDE DEF idOf
    <2>q. QED
      BY <2>1, <2>2, ImageCount
  <1>2. {idOf[e] : e \in events} = EventIds
    BY DEF EventIds
  <1>q. QED
    BY <1>1, <1>2

(* What the run checks follows. *)
LEMMA InvOnce == ASSUME OnceInv PROVE EachEventOnce
  BY IdsCount DEF OnceInv, Parted, DistinctIds, Counted, EachEventOnce

(* The initial states satisfy the invariant. *)
LEMMA InitOnce == ASSUME Init PROVE OnceInv
  <1>1. ContextIds = {} /\ EventIds = {} /\ executed = {} /\ removed = {} /\ 1..made = {}
    BY DEF Init, ContextIds, EventIds
  <1>2. Parted(ContextIds, EventIds, executed, removed, made)
    BY <1>1 DEF Parted
  <1>3. DistinctIds
    BY DEF Init, DistinctIds
  <1>4. Counted
    BY FS_EmptySet DEF Init, Counted
  <1>q. QED
    BY <1>2, <1>3, <1>4, InitOrder DEF OnceInv

(* A step that moves no event. *)
LEMMA QuietOnce ==
  ASSUME OnceInv, OrderInv',
         UNCHANGED <<events, withContext, executed, removed, made, unscheduled>>
  PROVE  OnceInv'
  <1>1. Parted(ContextIds, EventIds, executed, removed, made)'
    BY DEF OnceInv, Parted, ContextIds, EventIds
  <1>2. DistinctIds' /\ Counted'
    BY DEF OnceInv, DistinctIds, Counted
  <1>q. QED
    BY <1>1, <1>2 DEF OnceInv

(* An identity above all that were given is a new one. *)
LEMMA FreshId ==
  ASSUME NEW c, NEW e, NEW x, NEW r, NEW n \in Nat, Parted(c, e, x, r, n)
  PROVE  /\ n + 1 \notin c \cup e \cup x \cup r
         /\ Parted(c \cup {n + 1}, e, x, r, n + 1)
         /\ Parted(c, e \cup {n + 1}, x, r, n + 1)
  <1>1. n + 1 \notin 1..n /\ 1..(n + 1) = (1..n) \cup {n + 1}
    OBVIOUS
  <1>q. QED
    BY <1>1, Zenon DEF Parted

(* Schedule. *)
LEMMA ScheduleOnce ==
  ASSUME OnceInv, OrderInv', NEW delay \in Delays, Schedule(delay)
  PROVE  OnceInv'
  <1>1. PICK e \in {[id |-> made + 1, ts |-> now + delay, uid |-> nextUid]} :
          events' = events \cup {e}
    BY DEF Schedule
  <1>2. /\ e.id = made + 1 /\ made' = made + 1 /\ made \in Nat
        /\ unscheduled' = unscheduled + 1
        /\ UNCHANGED <<withContext, executed, removed>>
    BY <1>1 DEF Schedule, contextVars, OnceInv, OrderInv, TypeOK
  <1>3. EventIds' = EventIds \cup {made + 1} /\ ContextIds' = ContextIds
    BY <1>1, <1>2 DEF EventIds, ContextIds
  <1>4. Parted(ContextIds, EventIds, executed, removed, made)
    BY DEF OnceInv
  <1>5. made + 1 \notin EventIds
    BY <1>2, <1>4, FreshId
  <1>6. Parted(ContextIds, EventIds, executed, removed, made)'
    <2>1. Parted(ContextIds, EventIds \cup {made + 1}, executed, removed, made + 1)
      BY <1>2, <1>4, FreshId
    <2>q. QED
      BY <1>2, <1>3, <2>1 DEF Parted
  <1>7. \A f \in events : f.id # e.id
    BY <1>2, <1>5 DEF EventIds
  <1>8. DistinctIds'
    BY <1>1, <1>2, <1>7 DEF OnceInv, DistinctIds
  <1>9. Counted'
    <2>1. e \notin events
      BY <1>7
    <2>2. IsFiniteSet(events) /\ unscheduled = Cardinality(events)
      BY DEF OnceInv, Counted
    <2>q. QED
      BY <1>1, <1>2, <2>1, <2>2, FS_AddElement DEF Counted
  <1>q. QED
    BY <1>6, <1>8, <1>9 DEF OnceInv

(* Another thread's event enters the list. *)
LEMMA ContextOnce ==
  ASSUME OnceInv, OrderInv', NEW delay \in Delays, ScheduleWithContext(delay)
  PROVE  OnceInv'
  <1>1. /\ withContext' = Append(withContext, [id |-> made + 1, delay |-> delay])
        /\ made' = made + 1 /\ made \in Nat /\ withContext \in Seq([id : Nat, delay : Nat])
        /\ UNCHANGED <<events, unscheduled, executed, removed>>
    BY DEF ScheduleWithContext, mainVars, OnceInv, OrderInv, TypeOK
  <1>2. /\ Len(withContext) \in Nat /\ Len(withContext') = Len(withContext) + 1
        /\ \A i \in 1..Len(withContext) : withContext'[i] = withContext[i]
        /\ withContext'[Len(withContext) + 1].id = made + 1
    BY <1>1
  <1>3. EventIds' = EventIds /\ ContextIds' = ContextIds \cup {made + 1}
    <2>1. 1..Len(withContext') = (1..Len(withContext)) \cup {Len(withContext) + 1}
      BY <1>2
    <2>2. EventIds' = EventIds
      BY <1>1, Zenon DEF EventIds
    <2>3. ContextIds' = ContextIds \cup {made + 1}
      BY <1>2, <2>1, ZenonT(60) DEF ContextIds
    <2>q. QED
      BY <2>2, <2>3
  <1>4. Parted(ContextIds, EventIds, executed, removed, made)
    BY DEF OnceInv
  <1>5. made + 1 \notin ContextIds
    BY <1>1, <1>4, FreshId
  <1>6. Parted(ContextIds, EventIds, executed, removed, made)'
    <2>1. Parted(ContextIds \cup {made + 1}, EventIds, executed, removed, made + 1)
      BY <1>1, <1>4, FreshId
    <2>q. QED
      BY <1>1, <1>3, <2>1 DEF Parted
  <1>7. \A i \in 1..Len(withContext) : withContext[i].id # made + 1
    BY <1>5 DEF ContextIds
  <1>8. DistinctIds'
    <2>1. \A i, k \in 1..Len(withContext') :
            withContext'[i].id = withContext'[k].id => i = k
      BY <1>2, <1>7 DEF OnceInv, DistinctIds
    <2>q. QED
      BY <1>1, <2>1 DEF OnceInv, DistinctIds
  <1>9. Counted'
    BY <1>1 DEF OnceInv, Counted
  <1>q. QED
    BY <1>6, <1>8, <1>9 DEF OnceInv

(* An event leaves the queue: it was executed or removed. *)
LEMMA LeaveOnce ==
  ASSUME OnceInv, OrderInv', NEW e \in events, events' = events \ {e},
         unscheduled' = unscheduled - 1,
         UNCHANGED <<withContext, made>>,
         \/ executed' = executed \cup {e.id} /\ removed' = removed
         \/ executed' = executed /\ removed' = removed \cup {e.id}
  PROVE  OnceInv'
  <1>1. EventIds' = EventIds \ {e.id} /\ ContextIds' = ContextIds /\ e.id \in EventIds
    BY DEF EventIds, ContextIds, OnceInv, DistinctIds
  <1>2. Parted(ContextIds, EventIds, executed, removed, made)'
    BY <1>1 DEF OnceInv, Parted
  <1>3. DistinctIds'
    BY DEF OnceInv, DistinctIds
  <1>4. Counted'
    <2>1. IsFiniteSet(events) /\ unscheduled = Cardinality(events)
      BY DEF OnceInv, Counted
    <2>2. IsFiniteSet(events \ {e}) /\ Cardinality(events \ {e}) = Cardinality(events) - 1
      BY <2>1, FS_RemoveElement
    <2>q. QED
      BY <2>1, <2>2 DEF Counted
  <1>q. QED
    BY <1>2, <1>3, <1>4 DEF OnceInv

(* Remove takes out an event of the queue: one that is not expired is there. *)
LEMMA RemoveOnce ==
  ASSUME OnceInv, OrderInv', NEW e \in handles, Remove(e)
  PROVE  OnceInv'
  <1>1. e \in events
    BY InvExpired DEF OnceInv, Remove, ExpiredExact
  <1>2. /\ events' = events \ {e} /\ unscheduled' = unscheduled - 1
        /\ executed' = executed /\ removed' = removed \cup {e.id}
        /\ UNCHANGED <<withContext, made>>
    BY DEF Remove, UnscheduledLess, contextVars
  <1>q. QED
    BY <1>1, <1>2, LeaveOnce

(* The list is moved into the queue. *)
LEMMA SwapOnce == ASSUME OnceInv, OrderInv', Swap PROVE OnceInv'
  <1> DEFINE n == Len(withContext)
             moved == [i \in 1..n |-> [id |-> withContext[i].id,
                         ts |-> now + withContext[i].delay, uid |-> nextUid + i - 1]]
             M == {moved[i] : i \in 1..n}
  <1>1. /\ n \in Nat /\ unscheduled \in Int
        /\ \A i, k \in 1..n : withContext[i].id = withContext[k].id => i = k
        /\ \A e, f \in events : e.id = f.id => e = f
    <2>1. withContext \in Seq([id : Nat, delay : Nat]) /\ unscheduled \in Int
      BY DEF OnceInv, OrderInv, TypeOK
    <2>2. n \in Nat
      BY <2>1, ElementsOfSeq
    <2>q. QED
      BY <2>1, <2>2 DEF OnceInv, DistinctIds
  <1>2. \A i \in 1..n : moved[i].id = withContext[i].id
    OBVIOUS
  <1>3. /\ events' = events \cup M
        /\ unscheduled' = unscheduled + n
        /\ withContext' = <<>>
        /\ UNCHANGED <<executed, removed, made>>
    <2>1. M = {[id |-> withContext[i].id, ts |-> now + withContext[i].delay,
                uid |-> nextUid + i - 1] : i \in 1..n}
      OBVIOUS
    <2> HIDE DEF M
    <2>q. QED
      BY <2>1 DEF Swap, SwapOut
  <1>4. moved = [i \in 1..n |-> moved[i]]
    OBVIOUS
  <1> HIDE DEF moved
  <1>5. ContextIds' = {} /\ EventIds' = EventIds \cup ContextIds
    <2>1. ContextIds' = {}
      BY <1>3 DEF ContextIds
    <2>2. {e.id : e \in M} = ContextIds
      BY <1>2 DEF ContextIds
    <2>3. EventIds' = EventIds \cup {e.id : e \in M}
      BY <1>3 DEF EventIds
    <2>q. QED
      BY <2>1, <2>2, <2>3
  <1>6. Parted(ContextIds, EventIds, executed, removed, made)'
    BY <1>3, <1>5 DEF OnceInv, Parted
  <1>7. \A e \in events : \A i \in 1..n : e.id # moved[i].id
    BY <1>2 DEF OnceInv, Parted, EventIds, ContextIds
  <1>8. \A i, k \in 1..n : moved[i].id = moved[k].id => i = k
    BY <1>1, <1>2
  <1>9. DistinctIds'
    <2>1. \A e, f \in events' : e.id = f.id => e = f
      BY <1>1, <1>3, <1>7, <1>8
    <2>q. QED
      BY <1>3, <2>1 DEF DistinctIds
  <1>10. IsFiniteSet(M) /\ Cardinality(M) = n
    <2>1. IsFiniteSet(1..n) /\ Cardinality(1..n) = n
      <3> HIDE DEF n
      <3>1. n \in Nat /\ n \in Int /\ 1 \in Int
        BY <1>1
      <3>2. IsFiniteSet(1..n) /\ Cardinality(1..n) = IF 1 > n THEN 0 ELSE n - 1 + 1
        BY <3>1, FS_Interval
      <3>q. QED
        BY <3>1, <3>2
    <2>2. \A i, k \in 1..n : moved[i] = moved[k] => i = k
      BY <1>8
    <2>3. ASSUME NEW K, IsFiniteSet(K), Cardinality(K) = n, moved = [i \in K |-> moved[i]],
                 \A i, k \in K : moved[i] = moved[k] => i = k
          PROVE  IsFiniteSet({moved[i] : i \in K}) /\ Cardinality({moved[i] : i \in K}) = n
      <3> HIDE DEF n, M
      <3>q. QED
        BY <2>3, ImageCount
    <2>q. QED
      BY <1>4, <2>1, <2>2, <2>3
  <1>11. Counted'
    <2>1. IsFiniteSet(events) /\ unscheduled = Cardinality(events)
      BY DEF OnceInv, Counted
    <2>2. events \cap M = {}
      BY <1>7
    <2> HIDE DEF M
    <2>3. /\ IsFiniteSet(events \cup M)
          /\ Cardinality(events \cup M) = Cardinality(events) + Cardinality(M) - Cardinality({})
      BY <1>10, <2>1, <2>2, FS_Union
    <2>4. Cardinality({}) = 0
      BY FS_EmptySet
    <2>q. QED
      BY <1>1, <1>3, <1>10, <2>1, <2>3, <2>4 DEF Counted
  <1>q. QED
    BY <1>6, <1>9, <1>11 DEF OnceInv

(* Every step keeps the invariant. *)
LEMMA StepOnce == ASSUME OnceInv, [Next]_vars PROVE OnceInv'
  <1>1. OrderInv'
    BY StepOrder DEF OnceInv
  <1>2. CASE \E delay \in Delays : Schedule(delay)
    BY <1>1, <1>2, ScheduleOnce
  <1>3. CASE \E e \in handles : Remove(e)
    BY <1>1, <1>3, RemoveOnce
  <1>4. CASE \E delay \in Delays : ScheduleWithContext(delay)
    BY <1>1, <1>4, ContextOnce
  <1>5. CASE Swap
    BY <1>1, <1>5, SwapOnce
  <1>6. ASSUME NEW e \in events, ProcessOneEvent(e) PROVE OnceInv'
    BY <1>1, <1>6, LeaveOnce DEF ProcessOneEvent, contextVars
  <1>7. CASE \/ \E e \in handles : Cancel(e)
             \/ Stop \/ RunBegins \/ CheckContext \/ HandlerReturns \/ RunReturns
             \/ UNCHANGED vars
    <2>1. UNCHANGED <<events, withContext, executed, removed, made, unscheduled>>
      BY <1>7 DEF Cancel, Stop, RunBegins, CheckContext, HandlerReturns, RunReturns,
                  vars, mainVars, contextVars
    <2>q. QED
      BY <1>1, <2>1, QuietOnce
  <1>q. QED
    BY <1>2, <1>3, <1>4, <1>5, <1>6, <1>7 DEF Next, Program, Running

(* No event is lost or executed twice, whatever threads, cancels and         *)
(* removals do, and m_unscheduledEvents counts the queue: the assertion of   *)
(* Run for any number of events.                                             *)
THEOREM OnceCorrect == Spec => []EachEventOnce
  BY InitOnce, StepOnce, InvOnce, PTL DEF Spec
=============================================================================
