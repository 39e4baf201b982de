--------------------------- MODULE VisualizerProofs ---------------------------
(***************************************************************************)
(* Visualizer for any bounds: its types, that the update timer that can be *)
(* removed is there while the simulation plays, that every pause message   *)
(* is shown once and in order, and that at most two more of the longest    *)
(* periods are simulated before the user answers, however deep the         *)
(* handlers are nested.                                                    *)
(***************************************************************************)
EXTENDS Visualizer, SequenceTheorems, TLAPS

(* The handlers there can be on the stack. *)
Pcs == {"polling", "iterating", "updated", "locking", "signalling", "joining"}
Frames == [kind : {"timer", "handler", "quit"}, timer : Timers \cup {None}, pc : Pcs]

(* The parts of TypeOK. *)
FlagTypes ==
  /\ sim \in {"waiting", "signalled", "cleared", "locking", "running", "looping", "done"}
  /\ go \in BOOLEAN /\ quit \in BOOLEAN /\ playing \in BOOLEAN
  /\ closed \in BOOLEAN /\ idle \in BOOLEAN
  /\ locked = (sim = "running")

TimeTypes ==
  /\ now \in 0..MaxTime /\ target \in 0..(MaxTime + MaxPeriod) /\ period \in 1..MaxPeriod
  /\ pauses \in Seq(0..MaxTime)

MessageTypes ==
  /\ messages \in Seq(Nat) /\ pauseMessages \in Seq(Nat)
  /\ taken \in Seq(Nat) /\ shown \in Seq(Nat)

TimerTypes ==
  /\ timers \subseteq Timers /\ timeoutId \in Timers \cup {None}
  /\ answered \in Nat /\ toggles \in 0..MaxToggles /\ inputs \in 0..MaxInputs

StackType == stack \in Seq(Frames)

Types == FlagTypes /\ TimeTypes /\ MessageTypes /\ TimerTypes /\ StackType

-----------------------------------------------------------------------------
(* The types                                                                 *)

(* The initial states have the types. *)
LEMMA InitTypes == ASSUME Init PROVE Types
  <1>1. FlagTypes
    BY DEF Init, FlagTypes
  <1>2. TimeTypes
    <2>1. 0 \in 0..MaxTime /\ 0 \in 0..(MaxTime + MaxPeriod) /\ SamplePeriod \in 1..MaxPeriod
      BY VisualizerAssumption
    <2>q. QED
      BY <2>1 DEF Init, TimeTypes
  <1>3. MessageTypes
    BY DEF Init, MessageTypes
  <1>4. TimerTypes
    <2>1. FirstTimer \in Timers
      BY VisualizerAssumption DEF FirstTimer, Timers
    <2>2. 0 \in 0..MaxToggles /\ 0 \in 0..MaxInputs
      BY VisualizerAssumption
    <2>q. QED
      BY <2>1, <2>2 DEF Init, TimerTypes
  <1>5. StackType
    BY DEF Init, StackType
  <1>q. QED
    BY <1>1, <1>2, <1>3, <1>4, <1>5 DEF Types

(* The flags. *)
LEMMA FlagStep == ASSUME Types, [Next]_vars PROVE FlagTypes'
  <1>1. FlagTypes
    BY DEF Types
  <1>2. CASE Wait \/ Clear \/ CheckQuit \/ Acquire \/ Loop
    BY <1>1, <1>2 DEF Wait, Clear, CheckQuit, Acquire, Loop, SimGoes, viewVars, FlagTypes
  <1>3. CASE RunUntil
    BY <1>1, <1>3 DEF RunUntil, viewVars, FlagTypes
  <1>4. ASSUME NEW t \in timers, TimerFires(t) PROVE FlagTypes'
    BY <1>1, <1>4 DEF TimerFires, simVars, FlagTypes
  <1>5. CASE Poll \/ PollAgain \/ UpdateView \/ HandlerLocks
    BY <1>1, <1>5 DEF Poll, PollAgain, UpdateView, HandlerLocks, simVars, FlagTypes
  <1>6. CASE SignalQuit \/ Join \/ Quit
    BY <1>1, <1>6 DEF SignalQuit, QuitSignal, Join, Quit, simVars, FlagTypes
  <1>7. CASE EndUpdate
    <2>1. playing' \in BOOLEAN
      BY <1>1, <1>7 DEF EndUpdate, AfterMessages, FlagTypes
    <2>2. go' \in BOOLEAN
      BY <1>1, <1>7 DEF EndUpdate, FlagTypes
    <2>q. QED
      BY <1>1, <1>7, <2>1, <2>2 DEF EndUpdate, simVars, FlagTypes
  <1>8. CASE Handler \/ Toggle \/ SpeedChanged
    BY <1>1, <1>8 DEF Handler, Toggle, SpeedChanged, simVars, FlagTypes
  <1>9. CASE UNCHANGED vars
    BY <1>1, <1>9 DEF vars, simVars, viewVars, FlagTypes
  <1>q. QED
    BY <1>2, <1>3, <1>4, <1>5, <1>6, <1>7, <1>8, <1>9 DEF Next, Sim, View, User

(* Time stays within the bound, whatever chunk is run. *)
LEMMA TimeStep == ASSUME Types, [Next]_vars PROVE TimeTypes'
  <1>1. /\ now \in 0..MaxTime /\ target \in 0..(MaxTime + MaxPeriod) /\ period \in 1..MaxPeriod
        /\ pauses \in Seq(0..MaxTime) /\ MaxTime \in Nat /\ MaxPeriod \in Nat
    BY VisualizerAssumption DEF Types, TimeTypes
  <1>2. CASE RunUntil
    <2>1. now' \in ChunkEnds /\ UNCHANGED <<target, period>>
      BY <1>2 DEF RunUntil, viewVars, timerVars
    <2>2. now' \in 0..MaxTime
      <3>1. CASE target < MaxTime
        BY <1>1, <2>1, <3>1 DEF ChunkEnds
      <3>2. CASE ~(target < MaxTime)
        BY <1>1, <2>1, <3>2 DEF ChunkEnds
      <3>q. QED
        BY <3>1, <3>2
    <2>3. pauses' = pauses \/ pauses' = Append(pauses, now')
      BY <1>2 DEF RunUntil
    <2>4. pauses' \in Seq(0..MaxTime)
      <3>1. CASE pauses' = pauses
        BY <1>1, <3>1
      <3>2. CASE pauses' = Append(pauses, now')
        BY <1>1, <2>2, <3>2
      <3>q. QED
        BY <2>3, <3>1, <3>2
    <2>q. QED
      BY <1>1, <2>1, <2>2, <2>4 DEF TimeTypes
  <1>3. CASE UpdateView
    <2>1. target' = now + period /\ UNCHANGED <<now, pauses, period>>
      BY <1>3 DEF UpdateView, NextTarget, simVars, timerVars
    <2>2. now + period \in 0..(MaxTime + MaxPeriod)
      BY <1>1
    <2>q. QED
      BY <1>1, <2>1, <2>2 DEF TimeTypes
  <1>4. CASE SpeedChanged
    BY <1>1, <1>4 DEF SpeedChanged, simVars, TimeTypes
  <1>5. CASE UNCHANGED <<now, target, pauses, period>>
    BY <1>1, <1>5 DEF TimeTypes
  <1>6. CASE Wait \/ Clear \/ CheckQuit \/ Acquire \/ Loop \/ UNCHANGED vars
    BY <1>5, <1>6 DEF Wait, Clear, CheckQuit, Acquire, Loop, SimGoes, vars, simVars, viewVars,
                      timerVars
  <1>7. CASE \/ \E t \in timers : TimerFires(t)
             \/ Poll \/ PollAgain \/ EndUpdate \/ HandlerLocks \/ SignalQuit \/ Join
             \/ Handler \/ Toggle \/ Quit
    BY <1>5, <1>7 DEF TimerFires, Poll, PollAgain, EndUpdate, HandlerLocks, SignalQuit, Join,
                      Handler, Toggle, Quit, simVars, timerVars
  <1>q. QED
    BY <1>2, <1>3, <1>4, <1>6, <1>7 DEF Next, Sim, View, User

(* The messages are sequences of numbers. *)
LEMMA MessageTypeStep == ASSUME Types, [Next]_vars PROVE MessageTypes'
  <1>1. /\ messages \in Seq(Nat) /\ pauseMessages \in Seq(Nat)
        /\ taken \in Seq(Nat) /\ shown \in Seq(Nat) /\ <<>> \in Seq(Nat)
    BY DEF Types, MessageTypes
  <1>2. CASE RunUntil
    <2>1. /\ UNCHANGED <<taken, shown>> /\ pauseMessages' = pauseMessages \o messages'
          /\ messages' = <<>> \/ messages' = Append(<<>>, Len(pauses'))
      BY <1>2 DEF RunUntil, MessagesBefore, viewVars
    <2>2. Len(pauses') \in Nat
      BY TimeStep DEF TimeTypes
    <2>3. messages' \in Seq(Nat)
      <3>1. Append(<<>>, Len(pauses')) \in Seq(Nat)
        BY <1>1, <2>2
      <3>q. QED
        BY <1>1, <2>1, <3>1
    <2>4. pauseMessages' \in Seq(Nat)
      BY <1>1, <2>1, <2>3, ConcatProperties
    <2>q. QED
      BY <1>1, <2>1, <2>3, <2>4 DEF MessageTypes
  <1>3. CASE UpdateView
    BY <1>1, <1>3 DEF UpdateView, Take, simVars, MessageTypes
  <1>4. CASE EndUpdate
    <2>1. shown' = shown \o taken /\ taken' = <<>> /\ UNCHANGED <<messages, pauseMessages>>
      BY <1>4 DEF EndUpdate, simVars
    <2>2. shown' \in Seq(Nat)
      BY <1>1, <2>1, ConcatProperties
    <2>q. QED
      BY <1>1, <2>1, <2>2 DEF MessageTypes
  <1>5. CASE UNCHANGED <<messages, pauseMessages, taken, shown>>
    BY <1>1, <1>5 DEF MessageTypes
  <1>6. CASE Wait \/ Clear \/ CheckQuit \/ Acquire \/ Loop \/ UNCHANGED vars
    BY <1>5, <1>6 DEF Wait, Clear, CheckQuit, Acquire, Loop, SimGoes, vars, simVars, viewVars
  <1>7. CASE \/ \E t \in timers : TimerFires(t)
             \/ Poll \/ PollAgain \/ HandlerLocks \/ SignalQuit \/ Join
             \/ Handler \/ Toggle \/ SpeedChanged \/ Quit
    BY <1>5, <1>7 DEF TimerFires, Poll, PollAgain, HandlerLocks, SignalQuit, Join,
                      Handler, Toggle, SpeedChanged, Quit, simVars
  <1>q. QED
    BY <1>2, <1>3, <1>4, <1>6, <1>7 DEF Next, Sim, View, User

(* A timer that is started is one of Timers. *)
LEMMA StartTypes ==
  ASSUME Types, StartUpdateTimer, playing' \in BOOLEAN,
         toggles' \in 0..MaxToggles, inputs' \in 0..MaxInputs
  PROVE  timers' \subseteq Timers /\ timeoutId' \in Timers \cup {None}
  <1>1. 1 + toggles' + inputs' \in 1..(1 + MaxToggles + MaxInputs)
    <2>1. MaxToggles \in Nat /\ MaxInputs \in Nat
      BY VisualizerAssumption
    <2>2. \A a \in 0..MaxToggles, b \in 0..MaxInputs :
            1 + a + b \in 1..(1 + MaxToggles + MaxInputs)
      BY <2>1
    <2>q. QED
      BY <2>2
  <1>2. timeoutId' \in Timers
    BY <1>1 DEF StartUpdateTimer, Timers
  <1>3. timers \subseteq Timers /\ timers' = (timers \ {timeoutId}) \cup {timeoutId'}
    BY DEF Types, TimerTypes, StartUpdateTimer, WithoutTimer
  <1>q. QED
    BY <1>2, <1>3

(* The timers, and what is counted. *)
LEMMA TimerTypeStep == ASSUME Types, [Next]_vars PROVE TimerTypes'
  <1>1. /\ timers \subseteq Timers /\ timeoutId \in Timers \cup {None}
        /\ answered \in Nat /\ toggles \in 0..MaxToggles /\ inputs \in 0..MaxInputs
    BY DEF Types, TimerTypes
  <1>2. playing' \in BOOLEAN
    BY FlagStep DEF FlagTypes
  <1>3. Press => toggles' \in 0..MaxToggles /\ inputs' \in 0..MaxInputs
    BY <1>1, VisualizerAssumption DEF Press
  <1>4. Input => toggles' \in 0..MaxToggles /\ inputs' \in 0..MaxInputs
    BY <1>1, VisualizerAssumption DEF Input
  <1>5. CASE Toggle
    <2>1. toggles' \in 0..MaxToggles /\ inputs' \in 0..MaxInputs
      BY <1>3, <1>5 DEF Toggle
    <2>2. timers' \subseteq Timers /\ timeoutId' \in Timers \cup {None}
      <3>1. CASE playing'
        BY <1>2, <1>5, <2>1, <3>1, StartTypes DEF Toggle
      <3>2. CASE ~playing'
        BY <1>1, <1>5, <3>2 DEF Toggle, WithoutTimer
      <3>q. QED
        BY <3>1, <3>2
    <2>3. answered' \in Nat
      <3>1. Len(shown) \in Nat
        BY DEF Types, MessageTypes
      <3>q. QED
        BY <1>1, <1>5, <3>1 DEF Toggle
    <2>q. QED
      BY <2>1, <2>2, <2>3 DEF TimerTypes
  <1>6. CASE SpeedChanged
    <2>1. toggles' \in 0..MaxToggles /\ inputs' \in 0..MaxInputs
      BY <1>4, <1>6 DEF SpeedChanged
    <2>2. timers' \subseteq Timers /\ timeoutId' \in Timers \cup {None}
      BY <1>2, <1>6, <2>1, StartTypes DEF SpeedChanged
    <2>q. QED
      BY <1>1, <1>6, <2>1, <2>2 DEF SpeedChanged, TimerTypes
  <1>7. CASE EndUpdate
    <2>1. timers' \subseteq Timers /\ timeoutId' \in Timers \cup {None}
      BY <1>1, <1>7 DEF EndUpdate
    <2>q. QED
      BY <1>1, <1>7, <2>1 DEF EndUpdate, TimerTypes, counts
  <1>8. CASE Quit
    BY <1>1, <1>8 DEF Quit, TimerTypes, counts
  <1>9. CASE Handler
    <2>1. toggles' \in 0..MaxToggles /\ inputs' \in 0..MaxInputs
      BY <1>1, <1>4, <1>9 DEF Handler, counts
    <2>q. QED
      BY <1>1, <1>9, <2>1 DEF Handler, TimerTypes, timerVars
  <1>10. CASE UNCHANGED <<timers, timeoutId, answered, toggles, inputs>>
    BY <1>1, <1>10 DEF TimerTypes
  <1>11. CASE Sim \/ UNCHANGED vars
    BY <1>10, <1>11 DEF Sim, Wait, Clear, CheckQuit, Acquire, RunUntil, Loop, SimGoes, vars,
                        viewVars, timerVars, counts
  <1>12. CASE \/ \E t \in timers : TimerFires(t)
              \/ Poll \/ PollAgain \/ UpdateView \/ HandlerLocks \/ SignalQuit \/ Join
    BY <1>10, <1>12 DEF TimerFires, Poll, PollAgain, UpdateView, HandlerLocks, SignalQuit, Join,
                        timerVars, counts
  <1>q. QED
    BY <1>5, <1>6, <1>7, <1>8, <1>9, <1>11, <1>12 DEF Next, View, User

(* A handler that goes on is still the innermost one. *)
LEMMA GoesOn ==
  ASSUME NEW s \in Seq(Frames), s # <<>>, NEW pc \in Pcs,
         NEW t, t = [s EXCEPT ![Len(s)].pc = pc]
  PROVE  /\ t \in Seq(Frames) /\ t # <<>>
         /\ t[Len(t)].kind = s[Len(s)].kind /\ t[Len(t)].pc = pc
  <1> DEFINE top == s[Len(s)]
             next == [top EXCEPT !.pc = pc]
  <1>1. Len(s) \in 1..Len(s)
    OBVIOUS
  <1>2. top \in Frames
    BY <1>1
  <1>3. next \in Frames /\ next.kind = top.kind /\ next.pc = pc
    BY <1>2 DEF Frames
  <1>4. t = [s EXCEPT ![Len(s)] = next]
    OBVIOUS
  <1> HIDE DEF next
  <1>5. t \in Seq(Frames) /\ Len(t) = Len(s) /\ t[Len(s)] = next
    BY <1>1, <1>3, <1>4
  <1>q. QED
    BY <1>1, <1>3, <1>5

(* The stack. *)
LEMMA StackStep == ASSUME Types, [Next]_vars PROVE StackType'
  <1>1. stack \in Seq(Frames)
    BY DEF Types, StackType
  <1>2. ASSUME NEW kind \in {"timer", "handler", "quit"}, NEW timer \in Timers \cup {None},
               NEW pc \in Pcs, Call(kind, timer, pc)
        PROVE  StackType'
    <2>1. [kind |-> kind, timer |-> timer, pc |-> pc] \in Frames
      BY DEF Frames
    <2>q. QED
      BY <1>1, <1>2, <2>1 DEF Call, StackType
  <1>3. ASSUME stack # <<>>, NEW pc \in Pcs, GoesTo(pc) PROVE StackType'
    BY <1>1, <1>3, GoesOn DEF GoesTo, StackType
  <1>4. ASSUME stack # <<>>, Return PROVE StackType'
    BY <1>1, <1>4 DEF Return, Below, StackType
  <1>5. CASE UNCHANGED stack
    BY <1>1, <1>5 DEF StackType
  <1>6. ASSUME NEW t \in timers, TimerFires(t) PROVE StackType'
    <2>1. t \in Timers
      BY DEF Types, TimerTypes
    <2>q. QED
      BY <1>2, <1>6, <2>1 DEF TimerFires, Pcs
  <1>7. CASE Handler \/ Quit
    BY <1>2, <1>7 DEF Handler, Quit, Pcs
  <1>8. CASE Poll \/ PollAgain \/ UpdateView \/ SignalQuit
    BY <1>3, <1>8 DEF Poll, PollAgain, UpdateView, SignalQuit, At, Pcs
  <1>9. CASE EndUpdate \/ HandlerLocks \/ Join
    BY <1>4, <1>9 DEF EndUpdate, HandlerLocks, Join, At
  <1>10. CASE Sim \/ Toggle \/ SpeedChanged \/ UNCHANGED vars
    BY <1>5, <1>10 DEF Sim, Wait, Clear, CheckQuit, Acquire, RunUntil, Loop, SimGoes, Toggle,
                       SpeedChanged, vars, viewVars
  <1>q. QED
    BY <1>6, <1>7, <1>8, <1>9, <1>10 DEF Next, View, User

(* Every step keeps the types. *)
LEMMA TypeStep == ASSUME Types, [Next]_vars PROVE Types'
  BY FlagStep, TimeStep, MessageTypeStep, TimerTypeStep, StackStep DEF Types

(* The parts make up the type invariant. *)
LEMMA TypesTogether == ASSUME Types PROVE TypeOK
  <1>1. FlagTypes /\ TimeTypes /\ MessageTypes /\ TimerTypes /\ StackType
    BY DEF Types
  <1>2. {locked, go, quit, playing, closed, idle} \subseteq BOOLEAN
    BY <1>1 DEF FlagTypes
  <1>3. /\ sim \in {"waiting", "signalled", "cleared", "locking", "running", "looping", "done"}
        /\ locked <=> sim = "running"
    BY <1>1 DEF FlagTypes
  <1>4. {answered, toggles, inputs} \subseteq Nat
    <2>1. MaxToggles \in Nat /\ MaxInputs \in Nat
      BY VisualizerAssumption
    <2>q. QED
      BY <1>1, <2>1 DEF TimerTypes
  <1>5. timers \subseteq Timers /\ timeoutId \in Timers \cup {None}
    BY <1>1 DEF TimerTypes
  <1>6. stack \in Seq([kind : {"timer", "handler", "quit"}, timer : Timers \cup {None},
                       pc : {"polling", "iterating", "updated", "locking", "signalling",
                             "joining"}])
    BY <1>1 DEF StackType, Frames, Pcs
  <1>q. QED
    BY <1>1, <1>2, <1>3, <1>4, <1>5, <1>6 DEF TypeOK, TimeTypes, MessageTypes

(* Simulated time never passes its bound, the lock is held exactly while the *)
(* simulation thread runs a chunk, and every timer there is an id of is one  *)
(* that was started (SimulationThread, update_view_timeout).                 *)
THEOREM VisualizerTypeCorrect == Spec => []TypeOK
  <1>q. QED
    BY InitTypes, TypeStep, TypesTogether, PTL DEF Spec

-----------------------------------------------------------------------------
(* The timer                                                                 *)

(* Pressing the button, changing the speed, a pause message and the end of a *)
(* timer keep the timer that can be removed, and leave early ones only.      *)
LEMMA TimerStep == ASSUME TimerRecorded, [Next]_vars PROVE TimerRecorded'
  <1>1. CASE Toggle
    <2>1. quit' = quit
      BY <1>1 DEF Toggle
    <2>2. CASE playing'
      <3>1. ~playing /\ timers' = (timers \ {timeoutId}) \cup {timeoutId'}
        BY <1>1, <2>2 DEF Toggle, StartUpdateTimer, WithoutTimer
      <3>q. QED
        BY <2>1, <2>2, <3>1 DEF TimerRecorded
    <2>3. CASE ~playing'
      <3>1. playing /\ timers' = timers \ {timeoutId}
        BY <1>1, <2>3 DEF Toggle, WithoutTimer
      <3>q. QED
        BY <2>1, <2>3, <3>1 DEF TimerRecorded
    <2>q. QED
      BY <2>2, <2>3
  <1>2. CASE SpeedChanged
    <2>1. /\ UNCHANGED <<quit, playing>>
          /\ timers' = (timers \ {timeoutId}) \cup {timeoutId'}
          /\ timeoutId' = [n |-> 1 + toggles' + inputs', early |-> ~playing']
      BY <1>2 DEF SpeedChanged, StartUpdateTimer, WithoutTimer
    <2>2. timeoutId'.early = ~playing'
      BY <2>1
    <2>3. CASE playing
      BY <2>1, <2>3 DEF TimerRecorded
    <2>4. CASE ~playing
      <3>1. timeoutId'.early
        BY <2>1, <2>2, <2>4
      <3>q. QED
        BY <2>1, <2>4, <3>1 DEF TimerRecorded
    <2>q. QED
      BY <2>3, <2>4
  <1>3. CASE EndUpdate
    <2>1. quit' = quit
      BY <1>3 DEF EndUpdate
    <2>2. CASE playing'
      <3>1. playing /\ UNCHANGED <<timers, timeoutId>>
        BY <1>3, <2>2 DEF EndUpdate, AfterMessages
      <3>q. QED
        BY <2>1, <2>2, <3>1 DEF TimerRecorded
    <2>3. CASE ~playing'
      <3>1. timers' = (IF playing THEN timers \ {timeoutId} ELSE timers) \ {Top.timer}
        BY <1>3, <2>3 DEF EndUpdate
      <3>q. QED
        BY <2>1, <2>3, <3>1 DEF TimerRecorded
    <2>q. QED
      BY <2>2, <2>3
  <1>4. CASE Quit
    BY <1>4 DEF Quit, TimerRecorded
  <1>5. CASE UNCHANGED <<timers, timeoutId, playing, quit>>
    BY <1>5 DEF TimerRecorded
  <1>6. CASE Sim \/ UNCHANGED vars
    BY <1>5, <1>6 DEF Sim, Wait, Clear, CheckQuit, Acquire, RunUntil, Loop, SimGoes, vars,
                      viewVars, timerVars
  <1>7. CASE \/ \E t \in timers : TimerFires(t)
             \/ Poll \/ PollAgain \/ UpdateView \/ HandlerLocks \/ SignalQuit \/ Join \/ Handler
    BY <1>5, <1>7 DEF TimerFires, Poll, PollAgain, UpdateView, HandlerLocks, SignalQuit, Join,
                      Handler, timerVars
  <1>q. QED
    BY <1>1, <1>2, <1>3, <1>4, <1>6, <1>7 DEF Next, View, User

(* While the simulation plays, the timer that can be removed is there, and   *)
(* any other was started by a change of the speed before                     *)
(* (_start_update_timer, _speed_changed, update_view_timeout, _quit), at any *)
(* depth of nested main loops and for any bounds.                            *)
THEOREM TimerCorrect == Spec => []TimerRecorded
  <1>1. Init => TimerRecorded
    BY DEF Init, FirstTimer, TimerRecorded
  <1>q. QED
    BY <1>1, TimerStep, PTL DEF Spec

-----------------------------------------------------------------------------
(* The messages                                                              *)

(* Only a timer that has just updated the view holds messages.               *)
TakenByTop == taken # <<>> => At("timer", "updated")

(* The inductive invariant of the messages. *)
MessagesInv == Types /\ TakenByTop /\ MessagesExact

(* The numbers of the pauses so far, in order. *)
UpTo(n) == [i \in 1..n |-> i]

(* One more number. *)
LEMMA UpToNext ==
  ASSUME NEW n \in Nat
  PROVE  UpTo(n) \in Seq(Nat) /\ UpTo(n) \o <<n + 1>> = UpTo(n + 1)
  <1>1. UpTo(n) \in Seq(Nat) /\ Len(UpTo(n)) = n
    BY DEF UpTo
  <1>2. UpTo(n + 1) \in Seq(Nat) /\ Len(UpTo(n + 1)) = n + 1
    BY DEF UpTo
  <1>3. /\ <<n + 1>> \in Seq(Nat) /\ Len(<<n + 1>>) = 1 /\ <<n + 1>>[1] = n + 1
        /\ UpTo(n) \o <<n + 1>> \in Seq(Nat)
        /\ Len(UpTo(n) \o <<n + 1>>) = n + 1
    BY <1>1
  <1>4. ASSUME NEW i \in 1..(n + 1)
        PROVE  (UpTo(n) \o <<n + 1>>)[i] = UpTo(n + 1)[i]
    <2>1. (UpTo(n) \o <<n + 1>>)[i] = IF i <= n THEN UpTo(n)[i] ELSE <<n + 1>>[i - n]
      <3>1. \A j \in 1..(Len(UpTo(n)) + Len(<<n + 1>>)) :
               (UpTo(n) \o <<n + 1>>)[j] =
                  IF j <= Len(UpTo(n)) THEN UpTo(n)[j] ELSE <<n + 1>>[j - Len(UpTo(n))]
        BY <1>1, <1>3, ConcatProperties
      <3>2. i \in 1..(Len(UpTo(n)) + Len(<<n + 1>>))
        BY <1>1, <1>3
      <3>q. QED
        BY <1>1, <3>1, <3>2
    <2>2. CASE i \in 1..n
      BY <2>1, <2>2 DEF UpTo
    <2>3. CASE i = n + 1
      <3>1. i - n = 1 /\ ~(i <= n)
        BY <2>3
      <3>q. QED
        BY <1>3, <2>1, <2>3, <3>1 DEF UpTo
    <2>4. i \in 1..n \/ i = n + 1
      OBVIOUS
    <2>q. QED
      BY <2>2, <2>3, <2>4
  <1>5. UpTo(n) \o <<n + 1>> = UpTo(n + 1)
    BY <1>2, <1>3, <1>4, SeqEqual
  <1>q. QED
    BY <1>1, <1>5

(* A step that leaves the messages where they are, when none is taken. *)
LEMMA QuietMessages ==
  ASSUME MessagesInv, ~At("timer", "updated"),
         UNCHANGED <<shown, taken, pauseMessages, pauses>>
  PROVE  TakenByTop' /\ MessagesExact'
  BY DEF MessagesInv, TakenByTop, MessagesExact

(* A chunk may end with one more message. *)
LEMMA RunUntilMessages ==
  ASSUME MessagesInv, RunUntil
  PROVE  TakenByTop' /\ MessagesExact'
  <1>1. /\ UNCHANGED <<shown, taken, stack>>
        /\ pauseMessages' = pauseMessages \o messages'
    BY DEF RunUntil, viewVars
  <1>2. /\ shown \in Seq(Nat) /\ taken \in Seq(Nat) /\ pauseMessages \in Seq(Nat)
        /\ pauses \in Seq(0..MaxTime) /\ Len(pauses) \in Nat
    BY DEF MessagesInv, Types, MessageTypes, TimeTypes
  <1>3. \/ /\ messages' = <<Len(pauses) + 1>>
           /\ Len(pauses') = Len(pauses) + 1
        \/ pauses' = pauses /\ messages' = <<>>
    <2>1. PICK paused \in BOOLEAN :
            IF paused
            THEN /\ now' > now /\ Len(pauses) < MaxPauses
                 /\ pauses' = Append(pauses, now')
                 /\ messages' = Append(MessagesBefore, Len(pauses'))
            ELSE messages' = MessagesBefore /\ UNCHANGED pauses
      BY DEF RunUntil
    <2>2. CASE paused
      <3>1. pauses' = Append(pauses, now') /\ messages' = Append(<<>>, Len(pauses'))
        BY <2>1, <2>2 DEF MessagesBefore
      <3>2. Len(pauses') = Len(pauses) + 1
        BY <1>2, <3>1
      <3>3. Append(<<>>, Len(pauses) + 1) = <<Len(pauses) + 1>>
        OBVIOUS
      <3>q. QED
        BY <3>1, <3>2, <3>3
    <2>3. CASE ~paused
      BY <2>1, <2>3 DEF MessagesBefore
    <2>q. QED
      BY <2>2, <2>3
  <1>4. messages' \in Seq(Nat)
    <2>1. Len(pauses) + 1 \in Nat
      BY <1>2
    <2>2. <<>> \in Seq(Nat) /\ <<Len(pauses) + 1>> \in Seq(Nat)
      BY <2>1
    <2>q. QED
      BY <1>3, <2>2
  <1>5. shown' \o taken' \o pauseMessages' = (shown \o taken \o pauseMessages) \o messages'
    <2>1. shown \o taken \in Seq(Nat)
      BY <1>2, ConcatProperties
    <2>2. \A X \in Seq(Nat), Y \in Seq(Nat), Z \in Seq(Nat) : (X \o Y) \o Z = X \o (Y \o Z)
      BY ConcatAssociative, SMTT(40)
    <2>3. ((shown \o taken) \o pauseMessages) \o messages' = (shown \o taken) \o (pauseMessages \o messages')
      BY <1>2, <1>4, <2>1, <2>2
    <2>q. QED
      BY <1>1, <2>3
  <1>6. shown \o taken \o pauseMessages = UpTo(Len(pauses))
    BY DEF MessagesInv, MessagesExact, UpTo
  <1>7. shown' \o taken' \o pauseMessages' = UpTo(Len(pauses'))
    <2>1. CASE messages' = <<>> /\ pauses' = pauses
      <3>1. UpTo(Len(pauses)) \o <<>> = UpTo(Len(pauses))
        BY <1>2, UpToNext, ConcatEmptySeq
      <3>q. QED
        BY <1>5, <1>6, <2>1, <3>1
    <2>2. CASE messages' = <<Len(pauses) + 1>> /\ Len(pauses') = Len(pauses) + 1
      BY <1>2, <1>5, <1>6, <2>2, UpToNext
    <2>q. QED
      BY <1>3, <2>1, <2>2
  <1>8. MessagesExact'
    BY <1>7 DEF MessagesExact, UpTo
  <1>9. TakenByTop'
    BY <1>1 DEF MessagesInv, TakenByTop, At, Top
  <1>q. QED
    BY <1>8, <1>9

(* The timer takes the messages that wait. *)
LEMMA UpdateViewMessages ==
  ASSUME MessagesInv, UpdateView
  PROVE  TakenByTop' /\ MessagesExact'
  <1>1. /\ stack # <<>> /\ Top.kind = "timer" /\ Top.pc = "polling"
        /\ taken' = pauseMessages /\ pauseMessages' = <<>>
        /\ stack' = [stack EXCEPT ![Len(stack)].pc = "updated"]
        /\ UNCHANGED <<shown, pauses>>
    BY DEF UpdateView, At, Take, GoesTo, simVars
  <1>2. taken = <<>>
    BY <1>1 DEF At, MessagesInv, TakenByTop
  <1>3. shown \in Seq(Nat) /\ pauseMessages \in Seq(Nat) /\ stack \in Seq(Frames)
    BY DEF MessagesInv, Types, MessageTypes, StackType
  <1>4. TakenByTop'
    <2>1. "updated" \in Pcs
      BY DEF Pcs
    <2>2. /\ stack' # <<>>
          /\ stack'[Len(stack')].kind = stack[Len(stack)].kind
          /\ stack'[Len(stack')].pc = "updated"
      BY <1>1, <1>3, <2>1, GoesOn
    <2>q. QED
      BY <1>1, <2>2 DEF TakenByTop, At, Top
  <1>5. MessagesExact'
    <2>1. shown \o <<>> = shown
      BY <1>3, ConcatEmptySeq
    <2>2. (shown \o pauseMessages) \o <<>> = shown \o pauseMessages
      BY <1>3, ConcatProperties, ConcatEmptySeq
    <2>3. shown \o taken \o pauseMessages = shown' \o taken' \o pauseMessages'
      BY <1>1, <1>2, <2>1, <2>2
    <2>q. QED
      BY <1>1, <2>3 DEF MessagesInv, MessagesExact
  <1>q. QED
    BY <1>4, <1>5

(* It shows them when it ends. *)
LEMMA EndUpdateMessages ==
  ASSUME MessagesInv, EndUpdate
  PROVE  TakenByTop' /\ MessagesExact'
  <1>1. /\ shown' = shown \o taken /\ taken' = <<>>
        /\ UNCHANGED <<pauseMessages, pauses>>
    BY DEF EndUpdate, simVars
  <1>2. shown \in Seq(Nat) /\ taken \in Seq(Nat)
    BY DEF MessagesInv, Types, MessageTypes
  <1>3. (shown \o taken) \o <<>> = shown \o taken
    BY <1>2, ConcatProperties, ConcatEmptySeq
  <1>4. shown' \o taken' \o pauseMessages' = shown \o taken \o pauseMessages
    BY <1>1, <1>3
  <1>q. QED
    BY <1>1, <1>4 DEF MessagesInv, MessagesExact, TakenByTop

(* Every step preserves the invariant: the other handlers are called, go on  *)
(* and return while no message is taken.                                     *)
LEMMA MessagesStep == ASSUME MessagesInv, [Next]_vars PROVE MessagesInv'
  <1>1. Types'
    BY TypeStep DEF MessagesInv
  <1>2. CASE RunUntil
    BY <1>1, <1>2, RunUntilMessages DEF MessagesInv
  <1>3. CASE UpdateView
    BY <1>1, <1>3, UpdateViewMessages DEF MessagesInv
  <1>4. CASE EndUpdate
    BY <1>1, <1>4, EndUpdateMessages DEF MessagesInv
  <1>5. CASE Wait \/ Clear \/ CheckQuit \/ Acquire \/ Loop \/ UNCHANGED vars
    <2>1. UNCHANGED <<shown, taken, pauseMessages, pauses, stack>>
      BY <1>5 DEF Wait, Clear, CheckQuit, Acquire, Loop, SimGoes, viewVars, vars, simVars
    <2>q. QED
      BY <1>1, <2>1 DEF MessagesInv, TakenByTop, MessagesExact, At, Top
  <1>6. CASE \/ \E t \in timers : TimerFires(t)
             \/ Handler \/ Toggle \/ SpeedChanged \/ Quit
    <2>1. ~At("timer", "updated")
      BY <1>6 DEF TimerFires, Handler, Toggle, SpeedChanged, Quit, HandlesEvents, At
    <2>2. UNCHANGED <<shown, taken, pauseMessages, pauses>>
      BY <1>6 DEF TimerFires, Handler, Toggle, SpeedChanged, Quit, simVars
    <2>q. QED
      BY <1>1, <2>1, <2>2, QuietMessages DEF MessagesInv
  <1>7. CASE Poll \/ PollAgain \/ HandlerLocks \/ SignalQuit \/ Join
    <2>1. ~At("timer", "updated")
      BY <1>7 DEF Poll, PollAgain, HandlerLocks, SignalQuit, Join, At
    <2>2. UNCHANGED <<shown, taken, pauseMessages, pauses>>
      BY <1>7 DEF Poll, PollAgain, HandlerLocks, SignalQuit, Join, simVars
    <2>q. QED
      BY <1>1, <2>1, <2>2, QuietMessages DEF MessagesInv
  <1>q. QED
    BY <1>2, <1>3, <1>4, <1>5, <1>6, <1>7 DEF Next, Sim, View, User

(* Every pause message is shown once and in order (SimulationThread.run,     *)
(* update_view_timeout), for any number of pauses, of presses of the button  *)
(* and of nested handlers.                                                   *)
THEOREM MessagesCorrect == Spec => []MessagesExact
  <1>1. Init => MessagesInv
    <2>1. ASSUME Init PROVE TakenByTop /\ MessagesExact
      <3>1. [i \in 1..0 |-> i] = <<>>
        OBVIOUS
      <3>q. QED
        BY <2>1, <3>1 DEF Init, TakenByTop, MessagesExact
    <2>q. QED
      BY <2>1, InitTypes DEF MessagesInv
  <1>2. MessagesInv => MessagesExact
    BY DEF MessagesInv
  <1>q. QED
    BY <1>1, <1>2, MessagesStep, PTL DEF Spec

-----------------------------------------------------------------------------
(* The pauses                                                                *)

(* Only the innermost handler has updated the view, and _quit has set quit.  *)
Nested(s, q) ==
  /\ \A i \in 1..Len(s) - 1 : s[i].pc # "updated"
  /\ \A i \in 1..Len(s) : s[i].kind = "quit" => q

Calm(s) == s # <<>> => s[Len(s)].pc # "updated"

(* A timer is about to signal go. *)
Signals == At("timer", "updated") /\ playing /\ taken = <<>>

One(b) == IF b THEN 1 ELSE 0

(* The chunks that run though the user does nothing: the one that is begun,  *)
(* the one of a go that is signalled and the one of a go that is about to be. *)
Begun == sim \in {"locking", "running"} \/ (~quit /\ sim \in {"signalled", "cleared"})
GoWaits == ~quit /\ go /\ sim # "signalled"
Due == One(Begun) + One(GoWaits) + One(Signals)

(* There is time for them before two periods have passed since a pause that  *)
(* is not answered.                                                          *)
TimeLeft == \A i \in answered + 1..Len(pauses) : now + Due * MaxPeriod <= pauses[i] + 2 * MaxPeriod

(* A message that was shown released the button; pressing it again answers.  *)
Answers ==
  /\ answered <= Len(shown)
  /\ answered < Len(shown) => ~playing

(* The inductive invariant of the pauses. *)
PauseInv ==
  MessagesInv /\ Nested(stack, quit) /\ target <= now + MaxPeriod /\ Answers /\ TimeLeft

(* What is counted is nothing or one. *)
LEMMA OneIs == \A b : One(b) \in {0, 1} /\ (b => One(b) = 1) /\ (~b => One(b) = 0)
  BY DEF One

(* The time of a few chunks. *)
Span(n, p) == n * p

(* More chunks take more time. *)
LEMMA Spans ==
  ASSUME NEW a \in 0..3, NEW b \in 0..3, a <= b, NEW p \in Nat
  PROVE  /\ Span(a, p) \in Nat /\ Span(b, p) \in Nat /\ Span(a, p) <= Span(b, p)
         /\ Span(a + 1, p) = Span(a, p) + p
  <1>1. a \in {0, 1, 2, 3} /\ b \in {0, 1, 2, 3}
    OBVIOUS
  <1>2. /\ Span(0, p) = 0 /\ Span(1, p) = p /\ Span(2, p) = p + p /\ Span(3, p) = p + p + p
        /\ Span(4, p) = p + p + p + p
    BY DEF Span
  <1>q. QED
    BY <1>1, <1>2

(* A handler is called while the innermost one has not updated the view.     *)
LEMMA NestedCall ==
  ASSUME NEW s \in Seq(Frames), NEW q \in BOOLEAN, Nested(s, q), Calm(s),
         NEW f \in Frames, f.pc # "updated", NEW r \in BOOLEAN, q => r, f.kind = "quit" => r
  PROVE  Nested(Append(s, f), r) /\ Calm(Append(s, f))
  <1> DEFINE t == Append(s, f)
  <1>1. /\ Len(s) \in Nat /\ Len(t) = Len(s) + 1 /\ t[Len(s) + 1] = f
        /\ \A i \in 1..Len(s) : t[i] = s[i]
    OBVIOUS
  <1> HIDE DEF t
  <1>2. \A i \in 1..Len(s) : s[i].pc # "updated"
    <2>1. ASSUME NEW i \in 1..Len(s) PROVE s[i].pc # "updated"
      <3>1. CASE i = Len(s)
        BY <3>1 DEF Calm
      <3>2. CASE i \in 1..Len(s) - 1
        BY <3>2 DEF Nested
      <3>3. i = Len(s) \/ i \in 1..Len(s) - 1
        BY <1>1
      <3>q. QED
        BY <3>1, <3>2, <3>3
    <2>q. QED
      BY <2>1
  <1>3. \A i \in 1..Len(t) - 1 : t[i].pc # "updated"
    BY <1>1, <1>2
  <1>4. \A i \in 1..Len(t) : t[i].kind = "quit" => r
    <2>1. ASSUME NEW i \in 1..Len(t), t[i].kind = "quit" PROVE r
      <3>1. i \in 1..Len(s) \/ i = Len(s) + 1
        BY <1>1
      <3>q. QED
        BY <1>1, <2>1, <3>1 DEF Nested
    <2>q. QED
      BY <2>1
  <1>5. Calm(t)
    BY <1>1 DEF Calm
  <1>q. QED
    BY <1>3, <1>4, <1>5 DEF Nested, t

(* The innermost handler goes on.                                            *)
LEMMA NestedGoes ==
  ASSUME NEW s \in Seq(Frames), s # <<>>, NEW q \in BOOLEAN, Nested(s, q), NEW pc \in Pcs,
         NEW t, t = [s EXCEPT ![Len(s)].pc = pc]
  PROVE  Nested(t, q) /\ (pc # "updated" => Calm(t))
  <1>1. /\ Len(s) \in 1..Len(s) /\ Len(t) = Len(s) /\ t \in Seq(Frames)
        /\ \A i \in 1..Len(s) - 1 : t[i] = s[i]
    <2>1. Len(s) \in 1..Len(s) /\ s[Len(s)] \in Frames
      OBVIOUS
    <2>2. t \in Seq(Frames)
      BY GoesOn
    <2>q. QED
      BY <2>1, <2>2
  <1>2. t[Len(t)].kind = s[Len(s)].kind /\ t[Len(t)].pc = pc
    BY GoesOn
  <1>3. \A i \in 1..Len(t) : t[i].kind = "quit" => q
    <2>1. ASSUME NEW i \in 1..Len(t), t[i].kind = "quit" PROVE q
      <3>1. i \in 1..Len(s) - 1 \/ i = Len(s)
        BY <1>1
      <3>2. s[i].kind = "quit" /\ i \in 1..Len(s)
        BY <1>1, <1>2, <2>1, <3>1
      <3>q. QED
        BY <3>2 DEF Nested
    <2>q. QED
      BY <2>1
  <1>q. QED
    BY <1>1, <1>2, <1>3 DEF Nested, Calm

(* The innermost handler returns: the one below has not updated the view.    *)
LEMMA NestedReturn ==
  ASSUME NEW s \in Seq(Frames), s # <<>>, NEW q \in BOOLEAN, Nested(s, q),
         NEW t, t = SubSeq(s, 1, Len(s) - 1)
  PROVE  Nested(t, q) /\ Calm(t)
  <1> DEFINE n == Len(s) - 1
  <1>a. Len(s) \in Nat \ {0}
    OBVIOUS
  <1>b. 1 \in 1..Len(s) + 1 /\ n \in 1 - 1..Len(s) /\ n - 1 + 1 = n
    BY <1>a
  <1>c. Len(t) = n - 1 + 1 /\ \A i \in 1..n - 1 + 1 : t[i] = s[1 + i - 1]
    BY <1>b, SubSeqProperties
  <1>1. /\ Len(s) \in Nat \ {0} /\ Len(t) = Len(s) - 1
        /\ \A i \in 1..Len(s) - 1 : t[i] = s[i]
    <2>1. \A i \in 1..n : 1 + i - 1 = i
      OBVIOUS
    <2>q. QED
      BY <1>a, <1>b, <1>c, <2>1
  <1> HIDE DEF n
  <1>2. t # <<>> => Len(t) \in 1..Len(s) - 1
    BY <1>1
  <1>q. QED
    BY <1>1, <1>2 DEF Nested, Calm

(* The stack of handlers stays in order and no timer is newly about to signal. *)
StackKept == Nested(stack', quit') /\ (Signals' => Signals)

(* Who is called or returns leaves no timer that is about to signal.         *)
LEMMA CalmNoSignal ==
  ASSUME Calm(stack')
  PROVE  ~Signals'
  BY DEF Calm, Signals, At, Top

(* Only the update of the view brings a timer to where it is about to signal. *)
LEMMA StackQuiet ==
  ASSUME PauseInv, [Next]_vars, ~UpdateView
  PROVE  StackKept /\ (EndUpdate => ~Signals')
  <1>1. /\ stack \in Seq(Frames) /\ Nested(stack, quit) /\ quit \in BOOLEAN
        /\ quit' \in BOOLEAN /\ stack' \in Seq(Frames)
    BY TypeStep DEF PauseInv, MessagesInv, Types, StackType, FlagTypes
  <1>2. HandlesEvents => Calm(stack)
    BY DEF HandlesEvents, At, Top, Calm
  <1>3. CASE Sim \/ UNCHANGED vars
    <2>1. UNCHANGED <<viewVars, quit>>
      BY <1>3 DEF Sim, Wait, Clear, CheckQuit, Acquire, RunUntil, Loop, SimGoes, vars
    <2>2. ~EndUpdate \/ UNCHANGED stack
      BY <2>1 DEF viewVars
    <2>3. ~EndUpdate
      <3>1. ASSUME EndUpdate PROVE FALSE
        <4>1. stack # <<>> /\ stack' = SubSeq(stack, 1, Len(stack) - 1)
          BY <3>1 DEF EndUpdate, At, Return, Below
        <4>2. stack' = stack
          BY <2>1 DEF viewVars
        <4>q. QED
          BY <1>1, <4>1, <4>2
      <3>q. QED
        BY <3>1
    <2>q. QED
      BY <1>1, <2>1, <2>3 DEF viewVars, StackKept, Signals, At, Top
  <1>4. ASSUME NEW t \in timers, TimerFires(t)
        PROVE  StackKept /\ (EndUpdate => ~Signals')
    <2>1. [kind |-> "timer", timer |-> t, pc |-> "polling"] \in Frames
      BY DEF Frames, Pcs, PauseInv, MessagesInv, Types, TimerTypes
    <2>2. Nested(stack', quit') /\ Calm(stack')
      BY <1>1, <1>2, <1>4, <2>1, NestedCall DEF TimerFires, Call
    <2>q. QED
      BY <2>2, CalmNoSignal DEF StackKept
  <1>5. CASE Handler
    <2>1. [kind |-> "handler", timer |-> None, pc |-> "locking"] \in Frames
      BY DEF Frames, Pcs
    <2>2. Nested(stack', quit') /\ Calm(stack')
      BY <1>1, <1>2, <1>5, <2>1, NestedCall DEF Handler, Call
    <2>q. QED
      BY <2>2, CalmNoSignal DEF StackKept
  <1>6. CASE Quit
    <2>1. [kind |-> "quit", timer |-> None, pc |-> "signalling"] \in Frames
      BY DEF Frames, Pcs
    <2>2. Nested(stack', quit') /\ Calm(stack')
      BY <1>1, <1>2, <1>6, <2>1, NestedCall DEF Quit, Call
    <2>q. QED
      BY <2>2, CalmNoSignal DEF StackKept
  <1>7. ASSUME NEW pc \in Pcs, pc # "updated", GoesTo(pc), stack # <<>>, quit' = quit
        PROVE  StackKept /\ (EndUpdate => ~Signals')
    <2>1. Nested(stack', quit') /\ Calm(stack')
      BY <1>1, <1>7, NestedGoes DEF GoesTo
    <2>q. QED
      BY <2>1, CalmNoSignal DEF StackKept
  <1>8. CASE Poll
    BY <1>7, <1>8 DEF Poll, At, Pcs
  <1>9. CASE PollAgain
    BY <1>7, <1>9 DEF PollAgain, At, Pcs
  <1>10. CASE SignalQuit
    BY <1>7, <1>10 DEF SignalQuit, At, Pcs
  <1>11. CASE EndUpdate \/ HandlerLocks \/ Join
    <2>1. stack # <<>> /\ stack' = SubSeq(stack, 1, Len(stack) - 1) /\ quit' = quit
      BY <1>11 DEF EndUpdate, HandlerLocks, Join, At, Return, Below
    <2>2. Nested(stack', quit') /\ Calm(stack')
      BY <1>1, <2>1, NestedReturn
    <2>q. QED
      BY <2>2, CalmNoSignal DEF StackKept
  <1>12. CASE Toggle \/ SpeedChanged
    <2>1. stack' = stack /\ quit' = quit /\ HandlesEvents
      BY <1>12 DEF Toggle, SpeedChanged
    <2>2. Calm(stack')
      BY <1>2, <2>1
    <2>q. QED
      BY <1>1, <2>1, <2>2, CalmNoSignal DEF StackKept
  <1>q. QED
    BY <1>3, <1>4, <1>5, <1>6, <1>8, <1>9, <1>10, <1>11, <1>12 DEF Next, View, User

(* At most three chunks are due.                                             *)
LEMMA DueIs ==
  /\ Due \in 0..3 /\ Due' \in 0..3
  /\ One(Begun) \in {0, 1} /\ One(GoWaits) \in {0, 1} /\ One(Signals) \in {0, 1}
  /\ One(Begun') \in {0, 1} /\ One(GoWaits') \in {0, 1} /\ One(Signals') \in {0, 1}
  /\ Due = One(Begun) + One(GoWaits) + One(Signals)
  /\ Due' = One(Begun') + One(GoWaits') + One(Signals')
  BY DEF Due, One

(* A pause that is not answered afterwards was not answered before.          *)
LEMMA Unanswered ==
  ASSUME NEW a \in Nat, NEW b \in Nat, a <= b, NEW n \in Nat, NEW i \in b + 1..n
  PROVE  i \in a + 1..n /\ i \in 1..n /\ a < n
  OBVIOUS

(* As long as no more chunks are due, and time stands still, there is time.  *)
LEMMA TimeKept ==
  ASSUME PauseInv, now' = now, pauses' = pauses, answered <= answered', answered' \in Nat,
         answered < Len(pauses) => Due' <= Due
  PROVE  TimeLeft'
  <1>1. /\ now \in Nat /\ MaxPeriod \in Nat /\ answered \in Nat /\ Len(pauses) \in Nat
        /\ pauses \in Seq(Nat)
    <2>1. /\ now \in 0..MaxTime /\ pauses \in Seq(0..MaxTime) /\ answered \in Nat
          /\ MaxTime \in Nat /\ MaxPeriod \in Nat
      BY VisualizerAssumption DEF PauseInv, MessagesInv, Types, TimeTypes, TimerTypes
    <2>2. 0..MaxTime \subseteq Nat
      BY <2>1
    <2>q. QED
      BY <2>1, <2>2
  <1>2. ASSUME NEW i \in answered' + 1..Len(pauses)
        PROVE  now + Due' * MaxPeriod <= pauses[i] + 2 * MaxPeriod
    <2>1. i \in answered + 1..Len(pauses) /\ i \in 1..Len(pauses) /\ answered < Len(pauses)
      BY <1>1, Unanswered
    <2>2. Due' <= Due /\ Due \in 0..3 /\ Due' \in 0..3
      BY <2>1, DueIs
    <2>3. /\ Span(Due', MaxPeriod) \in Nat /\ Span(Due, MaxPeriod) \in Nat
          /\ Span(Due', MaxPeriod) <= Span(Due, MaxPeriod)
      BY <1>1, <2>2, Spans
    <2>4. now + Span(Due, MaxPeriod) <= pauses[i] + 2 * MaxPeriod
      BY <2>1 DEF PauseInv, TimeLeft, Span
    <2>5. pauses[i] \in Nat /\ 2 * MaxPeriod \in Nat
      BY <1>1, <2>1
    <2>6. now + Span(Due', MaxPeriod) <= pauses[i] + 2 * MaxPeriod
      BY <1>1, <2>3, <2>4, <2>5
    <2>q. QED
      BY <2>6 DEF Span
  <1>q. QED
    BY <1>2 DEF TimeLeft

(* No more are due than before if a go that waits is new only where a chunk  *)
(* is begun no longer.                                                       *)
LEMMA ArithmeticOfDue ==
  ASSUME (Begun' => Begun), (GoWaits' => GoWaits \/ (Begun /\ ~Begun')), (Signals' => Signals)
  PROVE  Due' <= Due
  BY DEF Due, One

(* The steps of the simulation thread between chunks. *)
LEMMA SimTime ==
  ASSUME PauseInv, Wait \/ Clear \/ CheckQuit \/ Acquire \/ Loop \/ UNCHANGED vars
  PROVE  TimeLeft'
  <1>1. /\ UNCHANGED <<viewVars, quit, now, pauses, answered>>
    BY DEF Wait, Clear, CheckQuit, Acquire, Loop, SimGoes, vars, simVars
  <1>2. /\ quit \in BOOLEAN /\ go \in BOOLEAN /\ answered \in Nat
    BY DEF PauseInv, MessagesInv, Types, FlagTypes, TimerTypes
  <1>3. Signals' => Signals
    BY <1>1 DEF viewVars, Signals, At, Top
  <1>4. Due' <= Due
    <2>1. CASE Wait
      <3>1. sim = "waiting" /\ sim' = "signalled" /\ go /\ go' = go
        BY <2>1 DEF Wait, SimGoes
      <3>2. quit => ~Begun'
        BY <1>1, <3>1 DEF Begun
      <3>3. ~GoWaits'
        BY <3>1 DEF GoWaits
      <3>4. ~quit => GoWaits
        BY <3>1 DEF GoWaits
      <3>q. QED
        BY <1>3, <3>2, <3>3, <3>4, DueIs, OneIs
    <2>2. CASE Clear
      <3>1. sim = "signalled" /\ sim' = "cleared" /\ go' = FALSE
        BY <2>2 DEF Clear, SimGoes
      <3>2. (Begun' => Begun) /\ ~GoWaits'
        BY <1>1, <3>1 DEF Begun, GoWaits
      <3>q. QED
        BY <1>3, <3>2, ArithmeticOfDue
    <2>3. CASE CheckQuit
      <3>1. /\ sim = "cleared" /\ sim' = (IF quit THEN "done" ELSE "locking") /\ go' = go
        BY <2>3 DEF CheckQuit, SimGoes
      <3>2. (Begun' => Begun) /\ (GoWaits' => GoWaits)
        BY <1>1, <3>1 DEF Begun, GoWaits
      <3>q. QED
        BY <1>3, <3>2, ArithmeticOfDue
    <2>4. CASE Acquire
      <3>1. sim = "locking" /\ sim' = "running" /\ go' = go
        BY <2>4 DEF Acquire, SimGoes
      <3>2. (Begun' => Begun) /\ (GoWaits' => GoWaits)
        BY <1>1, <3>1 DEF Begun, GoWaits
      <3>q. QED
        BY <1>3, <3>2, ArithmeticOfDue
    <2>5. CASE Loop
      <3>1. /\ sim = "looping" /\ sim' = (IF quit THEN "done" ELSE "waiting") /\ go' = go
        BY <2>5 DEF Loop, SimGoes
      <3>2. (Begun' => Begun) /\ (GoWaits' => GoWaits)
        BY <1>1, <3>1 DEF Begun, GoWaits
      <3>q. QED
        BY <1>3, <3>2, ArithmeticOfDue
    <2>6. CASE UNCHANGED vars
      <3>1. (Begun' => Begun) /\ (GoWaits' => GoWaits)
        BY <2>6 DEF Begun, GoWaits, vars, simVars
      <3>q. QED
        BY <1>3, <3>1, ArithmeticOfDue
    <2>q. QED
      BY <2>1, <2>2, <2>3, <2>4, <2>5, <2>6
  <1>q. QED
    BY <1>1, <1>2, <1>4, TimeKept

(* The order of three times. *)
LEMMA Later ==
  ASSUME NEW t \in Nat, NEW m \in Nat, NEW n \in Nat, NEW p \in Nat, t <= m + p, m <= n
  PROVE  t <= n + p
  OBVIOUS

(* A chunk is run: it takes at most a period, and one chunk less is due.     *)
LEMMA ChunkTime ==
  ASSUME PauseInv, RunUntil
  PROVE  TimeLeft' /\ target' <= now' + MaxPeriod
  <1>1. /\ now \in Nat /\ MaxPeriod \in Nat /\ answered \in Nat /\ target \in Nat
        /\ target <= now + MaxPeriod /\ MaxTime \in Nat
        /\ pauses \in Seq(Nat) /\ Len(pauses) \in Nat
    <2>1. /\ now \in 0..MaxTime /\ pauses \in Seq(0..MaxTime) /\ answered \in Nat
          /\ target \in 0..(MaxTime + MaxPeriod) /\ MaxTime \in Nat /\ MaxPeriod \in Nat
          /\ target <= now + MaxPeriod
      BY VisualizerAssumption DEF PauseInv, MessagesInv, Types, TimeTypes, TimerTypes
    <2>2. 0..MaxTime \subseteq Nat
      BY <2>1
    <2>q. QED
      BY <2>1, <2>2
  <1>2. now' \in Nat /\ now <= now' /\ now' <= now + MaxPeriod
    <2>1. now' \in ChunkEnds
      BY DEF RunUntil
    <2>2. CASE target < MaxTime
      BY <1>1, <2>1, <2>2 DEF ChunkEnds
    <2>3. CASE ~(target < MaxTime)
      BY <1>1, <2>1, <2>3 DEF ChunkEnds
    <2>q. QED
      BY <2>2, <2>3
  <1>3. target' <= now' + MaxPeriod
    <2>1. target' = target
      BY DEF RunUntil
    <2>2. target <= now' + MaxPeriod
      BY <1>1, <1>2, Later
    <2>q. QED
      BY <2>1, <2>2
  <1>4. Due = Due' + 1 /\ Due' \in 0..2 /\ Due \in 0..3
    <2>1. /\ sim = "running" /\ sim' = "looping" /\ UNCHANGED <<viewVars, go, quit>>
      BY DEF RunUntil
    <2>2. Begun /\ ~Begun' /\ (GoWaits' = GoWaits)
      BY <2>1 DEF Begun, GoWaits
    <2>3. Signals' = Signals
      BY <2>1 DEF viewVars, Signals, At, Top
    <2>4. One(GoWaits') = One(GoWaits) /\ One(Signals') = One(Signals)
      BY <2>2, <2>3
    <2>5. One(Begun) = 1 /\ One(Begun') = 0
      BY <2>2 DEF One
    <2>q. QED
      BY <2>4, <2>5, DueIs
  <1>5. /\ Span(Due', MaxPeriod) \in Nat /\ Span(Due, MaxPeriod) = Span(Due', MaxPeriod) + MaxPeriod
        /\ Span(Due', MaxPeriod) <= Span(2, MaxPeriod) /\ Span(2, MaxPeriod) \in Nat
    <2>1. Due' \in 0..3 /\ 2 \in 0..3 /\ Due' <= 2
      BY <1>4
    <2>2. Span(Due' + 1, MaxPeriod) = Span(Due', MaxPeriod) + MaxPeriod
      BY <1>1, <2>1, Spans
    <2>3. /\ Span(Due', MaxPeriod) \in Nat /\ Span(Due', MaxPeriod) <= Span(2, MaxPeriod)
          /\ Span(2, MaxPeriod) \in Nat
      BY <1>1, <2>1, Spans
    <2>q. QED
      BY <1>4, <2>2, <2>3
  <1>6. ASSUME NEW i \in answered + 1..Len(pauses)
        PROVE  now' + Span(Due', MaxPeriod) <= pauses[i] + Span(2, MaxPeriod)
    <2>1. i \in 1..Len(pauses)
      BY <1>1
    <2>2. now + Span(Due, MaxPeriod) <= pauses[i] + Span(2, MaxPeriod)
      BY DEF PauseInv, TimeLeft, Span
    <2>3. pauses[i] \in Nat
      BY <1>1, <2>1
    <2>q. QED
      BY <1>1, <1>2, <1>5, <2>2, <2>3, SMTT(40)
  <1>7. pauses' = pauses \/ pauses' = Append(pauses, now')
    BY DEF RunUntil
  <1>8. answered' = answered
    BY DEF RunUntil
  <1>9. ASSUME NEW i \in answered + 1..Len(pauses')
        PROVE  now' + Span(Due', MaxPeriod) <= pauses'[i] + Span(2, MaxPeriod)
    <2>1. CASE pauses' = pauses
      BY <1>6, <2>1
    <2>2. CASE pauses' = Append(pauses, now')
      <3>1. /\ Len(pauses') = Len(pauses) + 1 /\ pauses'[Len(pauses) + 1] = now'
            /\ \A j \in 1..Len(pauses) : pauses'[j] = pauses[j]
        BY <1>1, <2>2
      <3>2. i \in answered + 1..Len(pauses) \/ i = Len(pauses) + 1
        BY <1>1, <3>1
      <3>3. CASE i \in answered + 1..Len(pauses)
        BY <1>1, <1>6, <3>1, <3>3
      <3>4. CASE i = Len(pauses) + 1
        BY <1>2, <1>5, <3>1, <3>4
      <3>q. QED
        BY <3>2, <3>3, <3>4
    <2>q. QED
      BY <1>7, <2>1, <2>2
  <1>q. QED
    BY <1>3, <1>8, <1>9 DEF TimeLeft, Span

(* The steps of the view thread and of the user that leave the event go and  *)
(* the quitting alone.                                                       *)
LEMMA StillTime ==
  ASSUME PauseInv, [Next]_vars, ~UpdateView, answered <= answered', answered' \in Nat,
         UNCHANGED <<sim, go, quit, now, pauses>>
  PROVE  TimeLeft'
  <1>1. (Begun' => Begun) /\ (GoWaits' => GoWaits)
    BY DEF Begun, GoWaits
  <1>2. Signals' => Signals
    BY StackQuiet DEF StackKept
  <1>3. Due' <= Due
    BY <1>1, <1>2, ArithmeticOfDue
  <1>q. QED
    BY <1>3, TimeKept

(* The window is closed: what go still waits for does not count any more.    *)
LEMMA QuitTime ==
  ASSUME PauseInv, [Next]_vars, Quit \/ SignalQuit
  PROVE  TimeLeft'
  <1>1. answered \in Nat /\ stack \in Seq(Frames) /\ Nested(stack, quit)
    BY DEF PauseInv, MessagesInv, Types, TimerTypes, StackType
  <1>2. UNCHANGED <<sim, now, pauses, answered>>
    BY DEF Quit, SignalQuit, simVars
  <1>3. quit' /\ ~UpdateView
    <2>1. CASE Quit
      <3>1. ~At("timer", "polling")
        BY <2>1 DEF Quit, HandlesEvents, At
      <3>q. QED
        BY <2>1, <3>1 DEF Quit, UpdateView
    <2>2. CASE SignalQuit
      <3>1. stack # <<>> /\ stack[Len(stack)].kind = "quit" /\ quit' = quit
        BY <2>2 DEF SignalQuit, At, Top
      <3>2. Len(stack) \in 1..Len(stack)
        BY <1>1, <3>1
      <3>3. quit
        BY <1>1, <3>1, <3>2 DEF Nested
      <3>4. ~At("timer", "polling")
        BY <3>1 DEF At, Top
      <3>q. QED
        BY <3>1, <3>3, <3>4 DEF UpdateView
    <2>q. QED
      BY <2>1, <2>2
  <1>4. ~GoWaits' /\ (Begun' => Begun)
    BY <1>2, <1>3 DEF GoWaits, Begun
  <1>5. Signals' => Signals
    BY <1>3, StackQuiet DEF StackKept
  <1>6. Due' <= Due
    BY <1>4, <1>5, ArithmeticOfDue
  <1>q. QED
    BY <1>1, <1>2, <1>6, TimeKept

(* A timer signals go: it was about to.                                      *)
LEMMA EndUpdateTime ==
  ASSUME PauseInv, EndUpdate
  PROVE  TimeLeft'
  <1>1. answered \in Nat
    BY DEF PauseInv, MessagesInv, Types, TimerTypes
  <1>2. UNCHANGED <<sim, now, pauses, answered, quit>> /\ At("timer", "updated")
    BY DEF EndUpdate, simVars
  <1>3. ~Signals'
    <2>1. ~UpdateView
      BY <1>2 DEF UpdateView, At
    <2>2. [Next]_vars
      BY DEF Next, View
    <2>q. QED
      BY <2>1, <2>2, StackQuiet
  <1>4. Begun' => Begun
    BY <1>2 DEF Begun
  <1>5. CASE playing'
    <2>1. Signals
      BY <1>2, <1>5 DEF EndUpdate, AfterMessages, Signals
    <2>2. One(Begun') <= One(Begun)
      BY <1>4 DEF One
    <2>3. Due' <= Due
      <3>1. One(Signals) = 1 /\ One(Signals') = 0
        BY <1>3, <2>1 DEF One
      <3>q. QED
        BY <2>2, <3>1, DueIs
    <2>q. QED
      BY <1>1, <1>2, <2>3, TimeKept
  <1>6. CASE ~playing'
    <2>1. go' = go
      BY <1>6 DEF EndUpdate
    <2>2. GoWaits' => GoWaits
      BY <1>2, <2>1 DEF GoWaits
    <2>3. Due' <= Due
      BY <1>3, <1>4, <2>2, ArithmeticOfDue
    <2>q. QED
      BY <1>1, <1>2, <2>3, TimeKept
  <1>q. QED
    BY <1>5, <1>6

(* A timer updates the view: it is about to signal go only if there was no   *)
(* message of a pause, and then every pause was answered.                    *)
LEMMA UpdateViewTime ==
  ASSUME PauseInv, UpdateView
  PROVE  TimeLeft'
  <1>1. answered \in Nat /\ Len(pauses) \in Nat /\ shown \in Seq(Nat)
    BY DEF PauseInv, MessagesInv, Types, TimerTypes, TimeTypes, MessageTypes
  <1>2. /\ UNCHANGED <<sim, now, pauses, answered, quit, go, playing>>
        /\ taken' = pauseMessages /\ At("timer", "polling")
    BY DEF UpdateView, Take, simVars
  <1>3. (Begun' => Begun) /\ (GoWaits' => GoWaits)
    BY <1>2 DEF Begun, GoWaits
  <1>4. ASSUME answered < Len(pauses), Signals' PROVE FALSE
    <2>1. playing /\ pauseMessages = <<>>
      BY <1>2, <1>4 DEF Signals
    <2>2. taken = <<>>
      BY <1>2 DEF PauseInv, MessagesInv, TakenByTop, At
    <2>3. shown \o <<>> = shown
      BY <1>1, ConcatEmptySeq
    <2>4. shown = UpTo(Len(pauses))
      BY <2>1, <2>2, <2>3 DEF PauseInv, MessagesInv, MessagesExact, UpTo
    <2>5. Len(shown) = Len(pauses)
      BY <1>1, <2>4 DEF UpTo
    <2>q. QED
      BY <1>4, <2>1, <2>5 DEF PauseInv, Answers
  <1>5. answered < Len(pauses) => Due' <= Due
    BY <1>3, <1>4, ArithmeticOfDue
  <1>q. QED
    BY <1>1, <1>2, <1>5, TimeKept

(* Every step leaves time for the chunks that are due. *)
LEMMA TimeLeftStep == ASSUME PauseInv, [Next]_vars PROVE TimeLeft'
  <1>1. answered \in Nat /\ answered' \in Nat
    BY TypeStep DEF PauseInv, MessagesInv, Types, TimerTypes
  <1>2. CASE Wait \/ Clear \/ CheckQuit \/ Acquire \/ Loop \/ UNCHANGED vars
    BY <1>2, SimTime
  <1>3. CASE RunUntil
    BY <1>3, ChunkTime
  <1>4. CASE UpdateView
    BY <1>4, UpdateViewTime
  <1>5. CASE EndUpdate
    BY <1>5, EndUpdateTime
  <1>6. CASE Quit \/ SignalQuit
    BY <1>6, QuitTime
  <1>7. CASE Toggle \/ SpeedChanged
    <2>1. UNCHANGED <<sim, go, quit, now, pauses>> /\ HandlesEvents
      BY <1>7 DEF Toggle, SpeedChanged, simVars
    <2>2. ~UpdateView
      BY <2>1 DEF UpdateView, HandlesEvents, At
    <2>3. answered <= answered'
      BY <1>1, <1>7 DEF Toggle, SpeedChanged, PauseInv, Answers
    <2>q. QED
      BY <1>1, <2>1, <2>2, <2>3, StillTime
  <1>8. CASE \/ \E t \in timers : TimerFires(t)
             \/ Poll \/ PollAgain \/ HandlerLocks \/ Join \/ Handler
    <2>1. UNCHANGED <<sim, go, quit, now, pauses, answered>>
      BY <1>8 DEF TimerFires, Poll, PollAgain, HandlerLocks, Join, Handler, simVars
    <2>2. CASE UpdateView
      BY <2>2, UpdateViewTime
    <2>3. CASE ~UpdateView
      <3>1. answered <= answered'
        BY <1>1, <2>1
      <3>q. QED
        BY <1>1, <2>1, <2>3, <3>1, StillTime
    <2>q. QED
      BY <2>2, <2>3
  <1>q. QED
    BY <1>2, <1>3, <1>4, <1>5, <1>6, <1>7, <1>8 DEF Next, Sim, View, User

(* The next target is at most a period away. *)
LEMMA TargetStep == ASSUME PauseInv, [Next]_vars PROVE target' <= now' + MaxPeriod
  <1>1. /\ now \in Int /\ target \in Int /\ MaxPeriod \in Nat /\ MaxTime \in Nat
        /\ target <= now + MaxPeriod /\ period \in 1..MaxPeriod
    BY VisualizerAssumption DEF PauseInv, MessagesInv, Types, TimeTypes
  <1>2. CASE RunUntil
    BY <1>2, ChunkTime
  <1>3. CASE UpdateView
    <2>1. target' = now + period /\ now' = now
      BY <1>3 DEF UpdateView, NextTarget, simVars
    <2>q. QED
      BY <1>1, <2>1
  <1>4. CASE UNCHANGED <<now, target>>
    BY <1>1, <1>4
  <1>5. CASE Wait \/ Clear \/ CheckQuit \/ Acquire \/ Loop \/ UNCHANGED vars
    BY <1>4, <1>5 DEF Wait, Clear, CheckQuit, Acquire, Loop, SimGoes, vars, simVars
  <1>6. CASE \/ \E t \in timers : TimerFires(t)
             \/ Poll \/ PollAgain \/ EndUpdate \/ HandlerLocks \/ SignalQuit \/ Join
             \/ Handler \/ Toggle \/ SpeedChanged \/ Quit
    BY <1>4, <1>6 DEF TimerFires, Poll, PollAgain, EndUpdate, HandlerLocks, SignalQuit, Join,
                      Handler, Toggle, SpeedChanged, Quit, simVars
  <1>q. QED
    BY <1>2, <1>3, <1>5, <1>6 DEF Next, Sim, View, User

(* While a pause that was shown is not answered, the button is not active.   *)
LEMMA AnswersStep == ASSUME PauseInv, [Next]_vars PROVE Answers'
  <1>1. /\ answered \in Nat /\ shown \in Seq(Nat) /\ Len(shown) \in Nat /\ taken \in Seq(Nat)
        /\ answered <= Len(shown) /\ (answered < Len(shown) => ~playing)
    BY DEF PauseInv, MessagesInv, Types, TimerTypes, MessageTypes, Answers
  <1>2. CASE Toggle
    <2>1. shown' = shown /\ answered' = IF playing' THEN Len(shown) ELSE answered
      BY <1>2 DEF Toggle
    <2>2. CASE playing'
      BY <1>1, <2>1, <2>2 DEF Answers
    <2>3. CASE ~playing'
      BY <1>1, <2>1, <2>3 DEF Answers
    <2>q. QED
      BY <2>2, <2>3
  <1>3. CASE EndUpdate
    <2>1. shown' = shown \o taken /\ playing' = (playing /\ taken = <<>>) /\ answered' = answered
      BY <1>3 DEF EndUpdate, AfterMessages
    <2>2. CASE taken = <<>>
      <3>1. shown' = shown
        BY <1>1, <2>1, <2>2, ConcatEmptySeq
      <3>q. QED
        BY <1>1, <2>1, <3>1 DEF Answers
    <2>3. CASE taken # <<>>
      <3>1. ~playing'
        BY <2>1, <2>3
      <3>2. Len(shown') = Len(shown) + Len(taken) /\ Len(taken) \in Nat
        BY <1>1, <2>1, ConcatProperties
      <3>3. answered' <= Len(shown')
        BY <1>1, <2>1, <3>2
      <3>q. QED
        BY <3>1, <3>3 DEF Answers
    <2>q. QED
      BY <2>2, <2>3
  <1>4. CASE UNCHANGED <<answered, shown, playing>>
    BY <1>1, <1>4 DEF Answers
  <1>5. CASE Sim \/ UNCHANGED vars
    BY <1>4, <1>5 DEF Sim, Wait, Clear, CheckQuit, Acquire, RunUntil, Loop, SimGoes, vars, viewVars
  <1>6. CASE \/ \E t \in timers : TimerFires(t)
             \/ Poll \/ PollAgain \/ UpdateView \/ HandlerLocks \/ SignalQuit \/ Join
             \/ Handler \/ SpeedChanged \/ Quit
    BY <1>4, <1>6 DEF TimerFires, Poll, PollAgain, UpdateView, HandlerLocks, SignalQuit, Join,
                      Handler, SpeedChanged, Quit
  <1>q. QED
    BY <1>2, <1>3, <1>5, <1>6 DEF Next, View, User

(* The handlers stay in order, the view that is updated being the innermost. *)
LEMMA NestedStep == ASSUME PauseInv, [Next]_vars PROVE Nested(stack', quit')
  <1>1. CASE UpdateView
    <2>1. /\ stack \in Seq(Frames) /\ quit \in BOOLEAN /\ Nested(stack, quit)
      BY DEF PauseInv, MessagesInv, Types, StackType, FlagTypes
    <2>2. /\ stack # <<>> /\ quit' = quit /\ "updated" \in Pcs
          /\ stack' = [stack EXCEPT ![Len(stack)].pc = "updated"]
      BY <1>1 DEF UpdateView, At, GoesTo, Pcs
    <2>q. QED
      BY <2>1, <2>2, NestedGoes
  <1>2. CASE ~UpdateView
    BY <1>2, StackQuiet DEF StackKept
  <1>q. QED
    BY <1>1, <1>2

(* A pause holds until the user answers it (PyViz::Pause,                    *)
(* SimulationThread.run, update_view_timeout): at most two more of the       *)
(* longest periods are simulated, for any speeds, any number of pauses, of   *)
(* timers that wait for the simulator and of handlers nested in each other.  *)
THEOREM PausesCorrect == Spec => []PauseHolds
  <1>1. Init => PauseInv
    <2>1. ASSUME Init PROVE PauseInv
      <3>1. MessagesInv
        <4>1. [i \in 1..0 |-> i] = <<>>
          OBVIOUS
        <4>2. TakenByTop /\ MessagesExact
          BY <2>1, <4>1 DEF Init, TakenByTop, MessagesExact
        <4>q. QED
          BY <2>1, <4>2, InitTypes DEF MessagesInv
      <3>2. Nested(stack, quit)
        BY <2>1 DEF Init, Nested
      <3>3. target <= now + MaxPeriod /\ Answers /\ TimeLeft
        BY <2>1, VisualizerAssumption DEF Init, Answers, TimeLeft
      <3>q. QED
        BY <3>1, <3>2, <3>3 DEF PauseInv
    <2>q. QED
      BY <2>1
  <1>2. PauseInv /\ [Next]_vars => PauseInv'
    <2>1. ASSUME PauseInv, [Next]_vars PROVE PauseInv'
      <3>1. MessagesInv'
        BY <2>1, MessagesStep DEF PauseInv
      <3>q. QED
        BY <2>1, <3>1, NestedStep, TargetStep, AnswersStep, TimeLeftStep DEF PauseInv
    <2>q. QED
      BY <2>1
  <1>3. PauseInv => PauseHolds
    <2>1. ASSUME PauseInv, answered < Len(pauses)
          PROVE  now <= pauses[answered + 1] + 2 * MaxPeriod
      <3>1. /\ now \in Nat /\ MaxPeriod \in Nat /\ answered \in Nat /\ Len(pauses) \in Nat
            /\ pauses \in Seq(0..MaxTime) /\ MaxTime \in Nat
        BY <2>1, VisualizerAssumption DEF PauseInv, MessagesInv, Types, TimeTypes, TimerTypes
      <3>2. answered + 1 \in answered + 1..Len(pauses) /\ answered + 1 \in 1..Len(pauses)
        BY <2>1, <3>1
      <3>3. now + Span(Due, MaxPeriod) <= pauses[answered + 1] + 2 * MaxPeriod
        BY <2>1, <3>2 DEF PauseInv, TimeLeft, Span
      <3>4. Span(Due, MaxPeriod) \in Nat
        <4>1. Due \in 0..3 /\ 3 \in 0..3 /\ Due <= 3
          BY DueIs
        <4>q. QED
          BY <3>1, <4>1, Spans
      <3>5. pauses[answered + 1] \in Nat
        BY <3>1, <3>2
      <3>q. QED
        BY <3>1, <3>3, <3>4, <3>5
    <2>q. QED
      BY <2>1 DEF PauseHolds
  <1>q. QED
    BY <1>1, <1>2, <1>3, PTL DEF Spec
=============================================================================
