------------------------------ MODULE EventQueue ------------------------------
(***************************************************************************)
(* DefaultSimulatorImpl: the events of a simulation, executed in the order *)
(* of their times and, at one time, of their numbers.  The program         *)
(* schedules, cancels and removes events before Run and in the handlers of *)
(* events; other threads schedule events (ScheduleWithContext) into a list *)
(* behind a mutex, which the main thread moves into its own queue after    *)
(* each event.                                                             *)
(*                                                                         *)
(* The queue is what a Scheduler promises, a set of events of which        *)
(* RemoveNext takes the least; SetScheduler does not change it.  What an   *)
(* event does besides, and its context, are left out.                      *)
(***************************************************************************)
EXTENDS Integers, Sequences, FiniteSets

CONSTANTS
  Delays,        (* the delays the program uses                              *)
  MaxEvents      (* bound: how many events are scheduled                     *)

ASSUME EventQueueAssumption == Delays \subseteq Nat /\ MaxEvents \in Nat

VARIABLES
  events,        (* m_events                                                 *)
  now,           (* m_currentTs                                              *)
  currentUid,    (* m_currentUid                                             *)
  nextUid,       (* m_uid                                                    *)
  stop,          (* m_stop                                                   *)
  unscheduled,   (* m_unscheduledEvents                                      *)
  withContext,   (* m_eventsWithContext: events with their delays            *)
  contextEmpty,  (* m_eventsWithContextEmpty                                 *)
  at,            (* what the main thread is doing                            *)
  cancelled,     (* the events whose EventImpl is cancelled                  *)
  handles,       (* history: the EventIds returned by Schedule               *)
  made,          (* history: how many events were scheduled                  *)
  executed,      (* history: the events that were dispatched                 *)
  removed        (* history: the events that were removed                    *)

mainVars    == <<events, now, currentUid, nextUid, stop, unscheduled, at,
                 cancelled, handles, executed, removed>>
contextVars == <<withContext, contextEmpty>>
vars        == <<mainVars, contextVars, made>>

Init ==
  /\ events = {}
  /\ now = 0 /\ currentUid = 0 /\ nextUid = 4
  /\ stop = FALSE
  /\ unscheduled = 0
  /\ withContext = <<>> /\ contextEmpty = TRUE
  /\ at = "outside"
  /\ cancelled = {} /\ handles = {}
  /\ made = 0 /\ executed = {} /\ removed = {}

-----------------------------------------------------------------------------
(* Keys and EventIds                                                         *)

(* operator < of Scheduler::EventKey. *)
Before(t1, uid1, t2, uid2) == t1 < t2 \/ (t1 = t2 /\ uid1 < uid2)

(* Mutant: at one time events have no order. *)
Least_TimeOnly(e) == e \in events /\ \A f \in events : e.ts <= f.ts

(* Scheduler::RemoveNext returns this one. *)
Least(e) == e \in events /\ \A f \in events \ {e} : Before(e.ts, e.uid, f.ts, f.uid)

(* Mutant: the event that is being executed is not expired. *)
Reached_Later(e) == Before(e.ts, e.uid, now, currentUid)

(* The time and the number of the event have been reached. *)
Reached(e) == e.ts < now \/ (e.ts = now /\ e.uid <= currentUid)

IsExpired(e) == Reached(e) \/ e.id \in cancelled

-----------------------------------------------------------------------------
(* The program: before and between runs, and in the handlers of events       *)

ProgramRuns == at \in {"outside", "invoking"}

(* Schedule, ScheduleNow (no delay) and, on the main thread,                 *)
(* ScheduleWithContext (whose EventId nobody gets).                          *)
Schedule(delay) ==
  /\ ProgramRuns /\ made < MaxEvents
  /\ made' = made + 1
  /\ \E e \in {[id |-> made', ts |-> now + delay, uid |-> nextUid]} :
       /\ events' = events \cup {e}
       /\ handles' = handles \cup {e}
  /\ nextUid' = nextUid + 1
  /\ unscheduled' = unscheduled + 1
  /\ UNCHANGED <<now, currentUid, stop, at, cancelled, executed, removed, contextVars>>

(* Cancel: the event stays in the queue and does nothing when its turn comes. *)
Cancel(e) ==
  /\ ProgramRuns /\ e \in handles
  /\ ~IsExpired(e)
  /\ cancelled' = cancelled \cup {e.id}
  /\ UNCHANGED <<events, now, currentUid, nextUid, stop, unscheduled, at, handles,
                 executed, removed, contextVars, made>>

UnscheduledLess == unscheduled - 1

(* Remove: it is taken out of the queue. *)
Remove(e) ==
  /\ ProgramRuns /\ e \in handles
  /\ ~IsExpired(e)
  /\ events' = events \ {e}
  /\ cancelled' = cancelled \cup {e.id}
  /\ unscheduled' = UnscheduledLess
  /\ removed' = removed \cup {e.id}
  /\ UNCHANGED <<now, currentUid, nextUid, stop, at, handles, executed, contextVars, made>>

(* Stop, called in a handler; Run forgets one that came before it. *)
Stop ==
  /\ ProgramRuns
  /\ stop' = TRUE
  /\ UNCHANGED <<events, now, currentUid, nextUid, unscheduled, at, cancelled,
                 handles, executed, removed, contextVars, made>>

Program ==
  \/ \E delay \in Delays : Schedule(delay)
  \/ \E e \in handles : Cancel(e) \/ Remove(e)
  \/ Stop

(* ScheduleWithContext, called by another thread, under the mutex. *)
ScheduleWithContext(delay) ==
  /\ made < MaxEvents
  /\ made' = made + 1
  /\ withContext' = Append(withContext, [id |-> made', delay |-> delay])
  /\ contextEmpty' = FALSE
  /\ UNCHANGED mainVars

-----------------------------------------------------------------------------
(* Run                                                                       *)

(* Run begins: nothing else reads stop before the loop, so it is cleared     *)
(* here.                                                                     *)
RunBegins ==
  /\ at = "outside"
  /\ at' = "checking"
  /\ stop' = FALSE
  /\ UNCHANGED <<events, now, currentUid, nextUid, unscheduled, cancelled,
                 handles, executed, removed, contextVars, made>>

(* ProcessEventsWithContext reads the flag without the mutex, so it may miss *)
(* that another thread has just cleared it.                                  *)
CheckContext ==
  /\ at = "checking"
  /\ \/ at' = "looping"
     \/ ~contextEmpty /\ at' = "swapping"
  /\ UNCHANGED <<events, now, currentUid, nextUid, stop, unscheduled, cancelled,
                 handles, executed, removed, contextVars, made>>

(* Mutant: the list is copied. *)
SwapOut_Copies == contextEmpty' = TRUE /\ UNCHANGED withContext
SwapOut == contextEmpty' = TRUE /\ withContext' = <<>>

(* The events of other threads are moved into the queue; their delays count  *)
(* from now.                                                                 *)
Swap ==
  /\ at = "swapping" /\ at' = "looping"
  /\ SwapOut
  /\ events' = events \cup
       {[id |-> withContext[i].id, ts |-> now + withContext[i].delay,
         uid |-> nextUid + i - 1] : i \in 1..Len(withContext)}
  /\ nextUid' = nextUid + Len(withContext)
  /\ unscheduled' = unscheduled + Len(withContext)
  /\ UNCHANGED <<now, currentUid, stop, cancelled, handles, executed, removed, made>>

(* Mutant: the last event is left. *)
RunEnds_OneLeft == Cardinality(events) <= 1 \/ stop

RunEnds == events = {} \/ stop

(* ProcessOneEvent: the handler of an event that was cancelled does nothing. *)
ProcessOneEvent(e) ==
  /\ at = "looping" /\ ~RunEnds
  /\ Least(e)
  /\ events' = events \ {e}
  /\ unscheduled' = unscheduled - 1
  /\ now' = e.ts
  /\ currentUid' = e.uid
  /\ executed' = executed \cup {e.id}
  /\ at' = IF e.id \in cancelled THEN "checking" ELSE "invoking"
  /\ UNCHANGED <<nextUid, stop, cancelled, handles, removed, contextVars, made>>

HandlerReturns ==
  /\ at = "invoking" /\ at' = "checking"
  /\ UNCHANGED <<events, now, currentUid, nextUid, stop, unscheduled, cancelled,
                 handles, executed, removed, contextVars, made>>

RunReturns ==
  /\ at = "looping" /\ RunEnds
  /\ at' = "outside"
  /\ UNCHANGED <<events, now, currentUid, nextUid, stop, unscheduled, cancelled,
                 handles, executed, removed, contextVars, made>>

Running ==
  \/ CheckContext \/ Swap \/ HandlerReturns \/ RunReturns
  \/ \E e \in events : ProcessOneEvent(e)

Next ==
  \/ Program
  \/ RunBegins
  \/ Running
  \/ \E delay \in Delays : ScheduleWithContext(delay)

Spec == Init /\ [][Next]_vars

(* Run goes on and handlers return. *)
FairSpec == Spec /\ WF_vars(Running)

-----------------------------------------------------------------------------
Events == [id : Nat, ts : Nat, uid : Nat]

(* Every variable has its type.                                              *)
TypeOK ==
  /\ events \in SUBSET Events /\ handles \in SUBSET Events
  /\ {now, currentUid, nextUid, made} \subseteq Nat /\ unscheduled \in Int
  /\ {stop, contextEmpty} \subseteq BOOLEAN
  /\ withContext \in Seq([id : Nat, delay : Nat])
  /\ at \in {"outside", "checking", "swapping", "looping", "invoking"}
  /\ cancelled \subseteq Nat /\ executed \subseteq Nat /\ removed \subseteq Nat

ContextIds == {withContext[i].id : i \in 1..Len(withContext)}
EventIds   == {e.id : e \in events}

(* Every event is in one place, and the count that is asserted to be 0 at    *)
(* the end of Run ("make a consistency test to check that we didn't lose any *)
(* events along the way") is that of the events in the queue, whatever       *)
(* threads, cancels and removals do.                                         *)
EachEventOnce ==
  /\ ContextIds \cup EventIds \cup executed \cup removed = 1..made
  /\ ContextIds \cap EventIds = {}
  /\ (ContextIds \cup EventIds) \cap executed = {}
  /\ (ContextIds \cup EventIds \cup executed) \cap removed = {}
  /\ unscheduled = Cardinality(events) /\ Cardinality(EventIds) = Cardinality(events)

(* Events are executed in the order of their times and, at one time, in the  *)
(* order they entered the queue, although handlers, programs between two     *)
(* runs and other threads add events to it: the assertion of ProcessOneEvent *)
(* that time does not go back, and more.                                     *)
Chronological ==
  [][executed' # executed => Before(now, currentUid, now', currentUid')]_vars

(* IsExpired, which sees only a time and a number, tells exactly whether the *)
(* event is no longer in the queue or was cancelled: Remove does not look    *)
(* for an event that is not there, nor keep one that is.                     *)
ExpiredExact ==
  \A e \in handles : IsExpired(e) <=> e \notin events \/ e.id \in cancelled

(* An event in the queue of a simulation that runs is executed or removed,   *)
(* unless a handler stops the run.                                           *)
Completes ==
  \A i \in 1..MaxEvents :
    (at # "outside" /\ i \in EventIds) ~> (i \in executed \cup removed \/ stop)
=============================================================================
