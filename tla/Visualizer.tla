------------------------------ MODULE Visualizer ------------------------------
(***************************************************************************)
(* The two threads of the visualizer.  The simulation thread waits for the *)
(* event go and runs the simulator for one chunk, up to target_time, under *)
(* the lock.  The view thread is the GTK main loop: its update timer polls *)
(* the lock and handles events, in a nested main loop, while the simulator *)
(* is busy; then it redraws, sets the next target and signals go.          *)
(*                                                                         *)
(* The user presses the play button, changes the speed and closes the      *)
(* window at any iteration of a main loop, nested ones included, so        *)
(* handlers pile up on a stack.                                            *)
(* GLib does not dispatch a source that is being dispatched.  Sections     *)
(* that the view executes under the lock are single steps: the simulation  *)
(* thread touches what they touch under the lock only.                     *)
(***************************************************************************)
EXTENDS Naturals, Sequences

CONSTANTS
  SamplePeriod,  (* SAMPLE_PERIOD, in units of simulated time                *)
  MaxPeriod,     (* sample_period at the highest speed                       *)
  MaxTime,       (* bound: the simulation is over at this time               *)
  MaxToggles,    (* bound: how often the user presses the play button        *)
  MaxInputs,     (* bound: how often the user changes the speed or does      *)
                 (* something else that takes the lock                       *)
  MaxPauses      (* bound: how often the model calls PyViz::Pause            *)

ASSUME VisualizerAssumption ==
  /\ MaxPeriod \in Nat /\ SamplePeriod \in 1..MaxPeriod
  /\ {MaxTime, MaxToggles, MaxInputs, MaxPauses} \subseteq Nat

(* The timers, numbered as they are started; early ones are started while    *)
(* the play button is not active.                                            *)
Timers == [n : 1..(1 + MaxToggles + MaxInputs), early : BOOLEAN]
FirstTimer == [n |-> 1, early |-> TRUE]
None == [n |-> 0, early |-> FALSE]          \* _update_timeout_id: no timer

VARIABLES
  sim,           (* what the simulation thread is doing                      *)
  locked,        (* it holds the lock                                        *)
  go,            (* the event go                                             *)
  quit,
  target,        (* target_time                                              *)
  now,           (* Simulator::Now                                           *)
  messages,      (* PyViz::m_pauseMessages, by their numbers                 *)
  pauseMessages, (* pause_messages                                           *)
  idle,          (* a call of update_model was added to the main loop; more  *)
                 (* than one count as one                                    *)
  playing,       (* the play button is active                                *)
  timers,        (* the update timers that are sources of the main loop      *)
  timeoutId,     (* _update_timeout_id                                       *)
  period,        (* sample_period                                            *)
  stack,         (* the handlers that are being executed, the innermost last *)
  taken,         (* the pause messages taken by the innermost one            *)
  closed,        (* main_quit was called                                     *)
  toggles, inputs,                           (* counted for the bounds       *)
  pauses,        (* history: the times of the pauses, in order               *)
  shown,         (* history: the messages shown, in order                    *)
  answered       (* history: how many pauses the user has answered           *)

simVars   == <<sim, locked, now, messages, idle, pauses>>
counts    == <<toggles, inputs>>
timerVars == <<timers, timeoutId, period>>
viewVars  == <<playing, timerVars, stack, taken, closed, counts, shown>>
vars      == <<simVars, viewVars, go, quit, target, pauseMessages, answered>>

(* create_gui shows the speed, which starts the first timer. *)
Init ==
  /\ sim = "waiting" /\ locked = FALSE
  /\ go = FALSE /\ quit = FALSE
  /\ target = 0 /\ now = 0
  /\ messages = <<>> /\ pauseMessages = <<>>
  /\ idle = FALSE
  /\ playing = FALSE /\ timers = {FirstTimer} /\ timeoutId = FirstTimer
  /\ period = SamplePeriod
  /\ stack = <<>> /\ taken = <<>> /\ closed = FALSE
  /\ toggles = 0 /\ inputs = 0
  /\ pauses = <<>> /\ shown = <<>> /\ answered = 0

-----------------------------------------------------------------------------
(* SimulationThread.run                                                      *)

(* A step that only brings the thread elsewhere. *)
SimGoes(from, to) ==
  /\ sim = from /\ sim' = to
  /\ UNCHANGED <<now, messages, idle, pauses, viewVars, quit, target, pauseMessages,
                 answered>>

(* go.wait returns. *)
Wait == go /\ SimGoes("waiting", "signalled") /\ UNCHANGED <<locked, go>>

Clear == SimGoes("signalled", "cleared") /\ go' = FALSE /\ UNCHANGED locked

CheckQuit ==
  /\ SimGoes("cleared", IF quit THEN "done" ELSE "locking")
  /\ UNCHANGED <<locked, go>>

Acquire ==
  /\ SimGoes("locking", "running")
  /\ locked' = TRUE
  /\ UNCHANGED go

(* SimulatorRunUntil begins by forgetting them. *)
MessagesBefore == <<>>

(* Where a chunk can end: at the target, or where the model calls Stop; it   *)
(* does not begin if the target has been reached.                            *)
ChunkEnds ==
  LET limit == IF target < MaxTime THEN target ELSE MaxTime
  IN  IF now >= limit THEN {now} ELSE (now + 1)..limit

(* SimulatorRunUntil runs the chunk, in which the model may call Pause; its  *)
(* messages are added to pause_messages and update_model to the main loop.   *)
RunUntil ==
  /\ sim = "running" /\ sim' = "looping"
  /\ now' \in ChunkEnds
  /\ \E paused \in BOOLEAN :
       IF paused
       THEN /\ now' > now /\ Len(pauses) < MaxPauses
            /\ pauses' = Append(pauses, now')
            /\ messages' = Append(MessagesBefore, Len(pauses'))
       ELSE messages' = MessagesBefore /\ UNCHANGED pauses
  /\ pauseMessages' = pauseMessages \o messages'
  /\ idle' = TRUE
  /\ locked' = FALSE
  /\ UNCHANGED <<viewVars, go, quit, target, answered>>

Loop ==
  /\ SimGoes("looping", IF quit THEN "done" ELSE "waiting")
  /\ UNCHANGED <<locked, go>>

Sim == Wait \/ Clear \/ CheckQuit \/ Acquire \/ RunUntil \/ Loop

-----------------------------------------------------------------------------
(* The GTK main loop                                                         *)

Top == stack[Len(stack)]
Below == SubSeq(stack, 1, Len(stack) - 1)
Call(kind, timer, pc) == stack' = Append(stack, [kind |-> kind, timer |-> timer, pc |-> pc])
GoesTo(pc) == stack' = [stack EXCEPT ![Len(stack)].pc = pc]
Return == stack' = Below

At(kind, pc) == stack # <<>> /\ Top.kind = kind /\ Top.pc = pc

(* Events are handled: by the outermost main loop, or while a timer waits    *)
(* for the simulator.                                                        *)
HandlesEvents == ~closed /\ (stack = <<>> \/ At("timer", "iterating"))

(* The user does something. *)
Press == toggles < MaxToggles /\ toggles' = toggles + 1 /\ UNCHANGED inputs
Input == inputs < MaxInputs /\ inputs' = inputs + 1 /\ UNCHANGED toggles

(* A timer that is not being dispatched fires: update_view_timeout.          *)
TimerFires(t) ==
  /\ HandlesEvents
  /\ \A i \in 1..Len(stack) : stack[i].timer # t
  /\ Call("timer", t, "polling")
  /\ UNCHANGED <<simVars, playing, timerVars, taken, closed, counts, shown, go,
                 quit, target, pauseMessages, answered>>

(* lock.acquire(False) fails, and pending events are handled. *)
Poll ==
  /\ At("timer", "polling") /\ locked
  /\ GoesTo("iterating")
  /\ UNCHANGED <<simVars, playing, timerVars, taken, closed, counts, shown, go,
                 quit, target, pauseMessages, answered>>

PollAgain ==
  /\ At("timer", "iterating")
  /\ GoesTo("polling")
  /\ UNCHANGED <<simVars, playing, timerVars, taken, closed, counts, shown, go,
                 quit, target, pauseMessages, answered>>

(* Mutant: the messages stay where they are. *)
Take_Copies == taken' = pauseMessages /\ UNCHANGED pauseMessages
Take == taken' = pauseMessages /\ pauseMessages' = <<>>

(* Mutant: the period is not added. *)
NextTarget_Now == now
NextTarget == now + period

(* It succeeds: the view is updated and the next target is set. *)
UpdateView ==
  /\ At("timer", "polling") /\ ~locked
  /\ Take
  /\ target' = NextTarget
  /\ GoesTo("updated")
  /\ UNCHANGED <<simVars, playing, timerVars, closed, counts, shown, go, quit,
                 answered>>

(* Mutant: the play button is left alone. *)
AfterMessages_Plays == playing

(* play_button.set_active(False), if there are messages. *)
AfterMessages == playing /\ taken = <<>>

(* The messages are shown, which releases the play button and so removes the *)
(* timer; the handler ends its own timer if the button is not active, and    *)
(* signals go otherwise.                                                     *)
EndUpdate ==
  /\ At("timer", "updated")
  /\ shown' = shown \o taken
  /\ taken' = <<>>
  /\ playing' = AfterMessages
  /\ IF playing'
     THEN /\ go' = TRUE
          /\ UNCHANGED <<timers, timeoutId>>
     ELSE /\ timers' = (IF playing THEN timers \ {timeoutId} ELSE timers) \ {Top.timer}
          /\ timeoutId' = None
          /\ UNCHANGED go
  /\ Return
  /\ UNCHANGED <<simVars, period, closed, counts, quit, target, pauseMessages,
                 answered>>

(* A handler that takes the lock and waits for it: update_model, a tooltip,  *)
(* the selection or the drag of a node.                                      *)
Handler ==
  /\ HandlesEvents
  /\ \/ idle /\ idle' = FALSE /\ UNCHANGED counts
     \/ Input /\ UNCHANGED idle
  /\ Call("handler", None, "locking")
  /\ UNCHANGED <<sim, locked, now, messages, pauses, playing, timerVars, taken,
                 closed, shown, go, quit, target, pauseMessages, answered>>

HandlerLocks ==
  /\ At("handler", "locking") /\ ~locked
  /\ Return
  /\ UNCHANGED <<simVars, playing, timerVars, taken, closed, counts, shown, go,
                 quit, target, pauseMessages, answered>>

(* Mutant: the timer of before goes on. *)
WithoutTimer_Keeps == timers
WithoutTimer == timers \ {timeoutId}

(* _start_update_timer: in place of the timer there is still an id of. *)
StartUpdateTimer ==
  /\ timeoutId' = [n |-> 1 + toggles' + inputs', early |-> ~playing']
  /\ timers' = WithoutTimer \cup {timeoutId'}

(* _on_play_button_toggled: a timer is started, or it is removed and its id  *)
(* kept.  The user answers a pause by pressing the button after the messages *)
(* were shown.                                                               *)
Toggle ==
  /\ HandlesEvents /\ Press
  /\ playing' = ~playing
  /\ IF playing'
     THEN StartUpdateTimer
     ELSE timers' = WithoutTimer /\ UNCHANGED timeoutId
  /\ answered' = IF playing' THEN Len(shown) ELSE answered
  /\ UNCHANGED <<simVars, period, stack, taken, closed, shown, go, quit, target,
                 pauseMessages>>

(* _speed_changed: a timer is started, whether the button is active or not.  *)
SpeedChanged ==
  /\ HandlesEvents /\ Input
  /\ UNCHANGED playing
  /\ period' \in 1..MaxPeriod
  /\ StartUpdateTimer
  /\ UNCHANGED <<simVars, stack, taken, closed, shown, go, quit, target,
                 pauseMessages, answered>>

(* _quit: the timer is removed and quit set,                                 *)
Quit ==
  /\ HandlesEvents /\ ~quit
  /\ timers' = timers \ {timeoutId} /\ timeoutId' = None
  /\ quit' = TRUE
  /\ Call("quit", None, "signalling")
  /\ UNCHANGED <<simVars, playing, period, taken, closed, counts, shown, go, target,
                 pauseMessages, answered>>

(* Mutant: the simulation thread is not woken. *)
QuitSignal_None == UNCHANGED go
QuitSignal == go' = TRUE

(* go is signalled,                                                          *)
SignalQuit ==
  /\ At("quit", "signalling")
  /\ QuitSignal
  /\ GoesTo("joining")
  /\ UNCHANGED <<simVars, playing, timerVars, taken, closed, counts, shown, quit,
                 target, pauseMessages, answered>>

(* the simulation thread is joined and the main loop ended.                  *)
Join ==
  /\ At("quit", "joining") /\ sim = "done"
  /\ closed' = TRUE
  /\ Return
  /\ UNCHANGED <<simVars, playing, timerVars, taken, counts, shown, go, quit,
                 target, pauseMessages, answered>>

View ==
  \/ \E t \in timers : TimerFires(t)
  \/ Poll \/ PollAgain \/ UpdateView \/ EndUpdate
  \/ HandlerLocks \/ SignalQuit \/ Join

User == Handler \/ Toggle \/ SpeedChanged \/ Quit

Next == Sim \/ View \/ User

Spec == Init /\ [][Next]_vars

(* Both threads are scheduled, a timer fires and a chunk ends.  Nothing is   *)
(* asked of the user.                                                        *)
FairSpec == Spec /\ WF_vars(Sim) /\ WF_vars(View)

-----------------------------------------------------------------------------
(* Every variable has its type.                                              *)
TypeOK ==
  /\ sim \in {"waiting", "signalled", "cleared", "locking", "running", "looping", "done"}
  /\ {locked, go, quit, playing, closed, idle} \subseteq BOOLEAN
  /\ locked <=> sim = "running"
  /\ now \in 0..MaxTime /\ target \in 0..(MaxTime + MaxPeriod)
  /\ {answered, toggles, inputs} \subseteq Nat /\ period \in 1..MaxPeriod
  /\ messages \in Seq(Nat) /\ pauseMessages \in Seq(Nat)
  /\ taken \in Seq(Nat) /\ shown \in Seq(Nat)
  /\ timers \subseteq Timers /\ timeoutId \in Timers \cup {None}
  /\ stack \in Seq([kind : {"timer", "handler", "quit"}, timer : Timers \cup {None},
                    pc : {"polling", "iterating", "updated", "locking", "signalling",
                          "joining"}])
  /\ pauses \in Seq(0..MaxTime)

(* While the simulation plays, the timer that can be removed is there, and   *)
(* any other that goes on was started by a change of the speed before play   *)
(* was pressed, although the button is pressed while timers wait for the     *)
(* simulator and each of them writes _update_timeout_id when it ends.        *)
TimerRecorded ==
  ~quit => /\ playing => timeoutId \in timers
           /\ \A t \in timers : t.early \/ (playing /\ t = timeoutId)

(* Every pause message is shown once and in order, although the list they    *)
(* wait in is exchanged by one thread and extended by the other, and chunks  *)
(* are run in which nothing happens.                                         *)
MessagesExact == shown \o taken \o pauseMessages = [i \in 1..Len(pauses) |-> i]

(* A pause holds until the user answers it: at most two more chunks are run, *)
(* one for a go that was signalled before and one for a go that the view is  *)
(* about to signal, however many timers are waiting for the simulator, and   *)
(* the longest the speed allows.                                             *)
PauseHolds ==
  answered < Len(pauses) => now <= pauses[answered + 1] + 2 * MaxPeriod

(* Closing the window ends the program, whatever the threads are doing: no   *)
(* signal is missed and nobody waits for the lock for ever.                  *)
QuitTerminates == quit ~> closed

(* While the button stays active the simulation goes on, to its end.         *)
Advances == playing ~> (now = MaxTime \/ ~playing \/ quit)
=============================================================================
