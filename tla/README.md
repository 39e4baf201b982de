# Verification of HULL in ns-3

This directory holds TLA+ models of the code that carries HULL in this
repository (`src/ns-3-dev-dctcp`, ns-3 with a DCTCP congestion control and a
phantom-queue discipline), the TLC configurations that check them, and proofs
checked by TLAPS. Source paths below are relative to
`src/ns-3-dev-dctcp/src/`.

HULL keeps the queues of a data centre short by marking packets *before* the
link is saturated: a **phantom queue**, a counter that drains at a fraction of
the link rate, stands beside each real queue and decides which packets get the
ECN mark; **DCTCP** at the ends turns the fraction of marked bytes into a small
reduction of the window. Everything depends on the path between them - the
queue discs, the flow control between them and the device, the device - doing
what it promises. That path is the core of the project, with the feedback between
the two ends. Around it stand the concurrent programs of the tree: the event queue
of the simulator, on whose order of events everything rests, the interactive
visualizer, and the multi-threaded test runner `test.py`, which tells whether the
simulator works. Paths of these that do not begin below `src/ns-3-dev-dctcp/src/`
say so.

## 1. Inventory

| component | state | operations | interacts with |
|---|---|---|---|
| `QueueDisc` (traffic-control/model/queue-disc.cc) | internal queues, `m_requeued`, `m_peeked`, `m_nPackets`, `m_running`, statistics | `Enqueue`, `Dequeue`, `Peek`, `Run` (a loop of `Restart` = `DequeuePacket` + `Transmit`), `Requeue`, callbacks of the internal queues | called by the traffic control layer and by wake callbacks; calls the device's `Send`; asks the device queues whether they are stopped |
| `PhantomQueueDisc` (traffic-control/model/pq-queue-disc.cc) | an internal drop-tail queue, `m_vq`, `m_lastSet` | `DoEnqueue`, `DoDequeue`, `DoPeek` | subclass of `QueueDisc`; marks the item it enqueues |
| `Queue`, `DropTailQueue` (network/utils/queue.h) | packets, `m_nPackets`, `m_nBytes` | `Enqueue`, `Dequeue`, `Peek`, `Remove`, `Flush`, traces | internal queue of a queue disc, device queue |
| `NetDeviceQueue` (network/utils/net-device-queue-interface.\*) | `m_stoppedByDevice`, `m_stoppedByQueueLimits`, wake callback | `Start`, `Stop`, `Wake`, traces of the device queue | stops and wakes the queue disc above |
| `DynamicQueueLimits` (network/utils/dynamic-queue-limits.cc) | 32-bit byte counters, limit | `Queued`, `Completed`, `Available`, `Reset` | `NetDeviceQueue` |
| `PointToPointNetDevice`, `PointToPointChannel` (point-to-point/model) | transmit state, current packet, device queue | `Send`, `TransmitStart`, `TransmitComplete`, `Receive`, `Attach` | channel, peer device, upper layers |
| `TrafficControlLayer` (traffic-control/model) | devices and their root queue discs | `Send`, `Receive`, installation and removal of queue discs | IP above, queue disc and device below |
| `TcpDctcp` (internet/model/tcp-dctcp.cc) | alpha, acked and marked bytes, CE state, delayed-ACK flag | `PktsAcked`, `CwndEvent`, `ReduceCwnd` | the TCP socket |
| TCP socket and buffers (internet/model/tcp-socket-base.cc, tcp-tx-buffer.cc, tcp-rx-buffer.cc) | connection state, send and receive sequences, scoreboard | segments, timers, application calls | congestion control, IP |
| other queue discs (RED, CoDel, FQ-CoDel, PIE, COBALT, TBF, prio, mq, ...) | their own drop laws | `DoEnqueue`, `DoDequeue` | subclasses of `QueueDisc` |
| simulator core (core/model/default-simulator-impl.cc, heap-scheduler.cc) | event queue, `m_currentTs`, `m_uid`, the list of events of other threads, the heap | `Schedule`, `ScheduleNow`, `ScheduleWithContext`, `Cancel`, `Remove`, `IsExpired`, `Run`, `Stop` | everything |
| test runner (`src/ns-3-dev-dctcp/test.py`) | input and output queue, `thread_exit`, `Job`s, counters, the results file | `run_tests`, `worker_thread.run`, `run_job_synchronously`, `sigint_hook` | child processes (core/model/test.cc), which write results files |
| visualizer (visualizer/visualizer/core.py, visualizer/model/pyviz.cc) | `lock`, `go`, `quit`, `target_time`, `pause_messages`, `_update_timeout_id` | `SimulationThread.run`, `update_view_timeout`, `_on_play_button_toggled`, `_speed_changed`, `update_model`, `_quit` | the simulator in one thread, the GTK main loop in another |
| Python bindings (`*/bindings/modulegen__*.py`) | none | generated registration calls | - |

What is hard in this code:

* **One callback chain, many owners.** `TrafficControlLayer::Send` calls
  `Enqueue` and `Run`; `Run` calls the device's `Send`; that fires the traces of
  the device queue, which stop the transmission queue, start a transmission, wake
  the queue again and schedule another run - all before `Run` looks at its own
  state again.
* **Wake-ups can get lost.** A stopped queue is opened only by the dequeue trace
  of the device queue; a queue disc is run only after an enqueue or a wake-up.
* **A packet can be out of the queue but still there**: held by a peek
  (`m_peeked`) or requeued because its own queue was stopped. Each case counts
  differently in the statistics.
* **Two ways to measure a queue.** Limits are in packets or in bytes, and the
  bytes of a packet change on its way (the PPP header).
* **Lazy virtual time.** The phantom queue is drained only when a packet is
  accepted.
* **Counters that wrap.** The byte queue limits compare 32-bit counters that are
  never reset, and stop the same queue as the device does, for their own reason.
* **Threads.** The simulator takes events from other threads through a list and a
  flag it reads without the mutex; the visualizer runs the simulator in a thread
  while the view polls its lock *in a nested main loop*, where the user may press
  any button; the test runner has a worker for each processor, a signal handler, and
  a main thread that counts results without looking whose they are.
* **One variable, many writers.** `m_ecnState` of a socket is written by the CE
  marks it receives, the CWR flag, the echoes it sends and the echoes it
  receives, several of them in the handler of one segment; delayed
  acknowledgements put a timer in between.

The list of hazards, each with its line and the properties that cover it, is in
`PROJECT.json`.

What makes each component correct: the queue disc neither loses, duplicates nor
reorders packets, its counters agree with what is there, and nothing that can be
sent stays without a run to come; the limits keep what the device holds within
bounds and always reopen the queue; the flow control never lets the device queue
discard and never leaves it stopped; the device transmits in order, one packet at
a time; the whole path is a FIFO pipe and work conserving; the virtual queue is
never shorter than the real one, so an unmarked packet means a short queue; the echo of
a DCTCP receiver follows the marks, the sender counts everything that is
acknowledged and reduces its window once per window, and no segment stays
unacknowledged; simulated time never goes back, no event is lost and `IsExpired` is
exact; every test is run and reported once and success means that tests passed; the
visualizer can always remove the timer that plays, shows each message once, keeps its
pauses and can be closed.

## 2. The modules

| module | what it is |
|---|---|
| `QueueDisc` | the base class of every queue disc, with the run loop |
| `PointToPointLink` | one direction of a link: device queue, flow control, transmitter, channel, receiver |
| `TxPath` | `TrafficControlLayer::Send` + `QueueDisc` + `PointToPointLink`, which it extends |
| `FifoPipe` | the abstract specification that `TxPath` implements |
| `PhantomQueue` | `PhantomQueueDisc`, with a fluid virtual queue and the backlog of the link as histories |
| `ByteQueueLimits` | `DynamicQueueLimits` attached to the `NetDeviceQueue` of a device |
| `DctcpFeedback` | two TCP sockets with `TcpDctcp`: CE marks, echoes, delayed acknowledgements, counts, window reductions |
| `EventQueue` | `DefaultSimulatorImpl` over an abstract scheduler, with a program and other threads |
| `HeapScheduler` | the heap of `HeapScheduler`, with the array and its loops |
| `Visualizer` | the simulation thread, the GTK main loop with nested handlers, the user |
| `TestRunner` | `test.py`: main thread, workers, SIGINT, child processes, results file |
| `QueueDiscProofs`, `PhantomQueueProofs`, `ByteQueueLimitsProofs`, `DctcpFeedbackProofs`, `EventQueueProofs`, `VisualizerProofs`, `TestRunnerProofs` | proofs about the modules they are named after |
| `TxPathProofs` | proofs about `PointToPointLink` and `TxPath` |
| `MC...` | instances for TLC |

An operator named `Operation_Something` is a mutant: `Operation` with a plausible
bug. It is used to show that the property it is paired with in `PROJECT.json`
can fail; nothing else refers to it.

### QueueDisc

| variable or action | code |
|---|---|
| `internal` | the packets of the internal queue |
| `requeued`, `peeked` | `m_requeued`, `m_peeked` |
| `nPackets` | `m_nPackets` |
| `nReceived` ... `nDroppedAfter` | the packet counters of `m_stats` |
| `running`, `quota` | `m_running` and the local variable of `Run` |
| `stopped`, `wakes` | `NetDeviceQueue::IsStopped`; wake events that were scheduled |
| `withHeader` | the items whose `AddHeader` was called |
| `arrived`, `dropped`, `sent` | histories |
| `Enqueue` | `Enqueue`, and the start of the `Run` that follows in `TrafficControlLayer::Send` |
| `Peek` | `DoPeek` of the base class: dequeue and hold |
| `Dequeue` | `Dequeue`, called by the parent of a child queue disc |
| `RestartNothing`, `RestartRequeue`, `RestartSend` | the outcomes of one iteration of `Run` |
| `DeviceWake`, `WakeCallback` | `NetDeviceQueue::Wake`, and the event it schedules |

What a subclass may do is left open: any packet may be dropped before it is
enqueued, any number of packets at the head may be dropped in a dequeue, also in
a dequeue made for a peek (CoDel). What a device may do is left open too: when
it takes a packet it may leave its queue open, stop it, or stop and wake it, and
it may wake a stopped queue at any time. The simulator has one thread, so no
other event interleaves with the loop of `Run`; the loop is one step per
iteration because the device acts inside it.

Left out: the byte counters (every change of one sits beside the change of the
packet counter and by the same item), counters per drop reason, mark statistics,
traces, and the configuration calls.

### PointToPointLink

`devQueue` and `used` are the device queue and its counter in the unit of its
limit; `txState` and `current` are `m_txMachineState` and `m_currentPkt`;
`stopped` is `m_stoppedByDevice`; `wire` holds what the channel has been given and
will deliver. `SendDiscarded`, `SendQueued` and `SendNow` are the three ways
through `PointToPointNetDevice::Send` with the traces each one fires;
`TransmitCompleteIdle` and `TransmitCompleteNext` those through
`TransmitComplete`. Time is left out. What is kept of it is an order: the channel
has one delay, so packets arrive in the order they were transmitted, and an event
scheduled for now (the wake callback) runs before an event of a later time
(the end of the transmission that has just begun); hence the guard `wakes = 0` of
`TransmitComplete`.
A packet carries its size without the PPP header in `SizeOf`; `Cost` adds the
header that `Send` puts on it before the device queue sees it. `hasCallback` says
whether a root queue disc has set the wake callback: without one, `Wake` opens the
queue and schedules nothing. `SetWakeCallback` sets or clears it at any time,
also while a wake event is pending: such an event calls a null callback (`CallsNull`)
and the program ends there, so `UpperWoken` needs a callback and nothing later, such as
the end of a transmission, is executed. Its `LinkInit`, `LinkNext`, `LinkSpec` and `LinkFairSpec` are named so because
`TxPath` extends the module and has an `Init`, `Next` and `Spec` of its own.

### TxPath

`TxPath` extends `PointToPointLink` and instantiates `QueueDisc` (as `Disc`) over
variables they share (`stopped`, `wakes`, `sent`); `Quota`, `BasePeek` and `DropsLate`
are the constants of the queue disc. A step of `RunIteration` is at once a
`RestartSend` of the queue disc and a `Send` of the device; `DeviceCompletes` and
`DeviceReceives` are the events of the link that the queue disc has no part in but
to be woken. Besides its own properties, TLC checks that the
composition *implements both parts*: `DiscSpec` (the device does only what
`QueueDisc` expects of a device) and `LinkSpec` (the traffic control layer never
sends into a stopped queue, as `PointToPointLink` expects of its users); so what
is checked of the parts holds in the composition.

Both cases of `TrafficControlLayer::Send` are here: the initial states have a root
queue disc or none (`HasRootDisc`), and `DeleteRootQueueDisc` takes it away between
any two events, with the packets it holds and the wake callback. If a wake event is
pending at that moment, it is the last event of the program. Otherwise, from then on
`SendToDevice` goes past it, and packets that find the queue stopped are `forgotten`,
as are those the queue disc held. `DiscSpec` is asked of the device as long as there
is a queue disc.

`PipeSpec` is the refinement of `FifoPipe`: `pending` is the concatenation of the
wire, the device queue, the held packet and the internal queue, and `lost` is what some part recorded as dropped,
discarded, corrupted or forgotten. `Lose` takes a stretch of `pending` away, wherever it
is: a corrupted packet is its head, late drops and a discard at the device are in the
middle, the packets of a deleted queue disc are its tail. A packet that vanishes without such a record
is a step `FifoPipe` does not allow.

### PhantomQueue

`vq` and `since` are `m_vq` and the time since `m_lastSet`, in bytes and ticks;
`internal` and `nBytes` are the internal queue. `Exceeds` is the code's own test
(bytes of the packet plus the size of the queue *in its unit*), `InternalFull`
that of the internal queue. `m_idle`, `m_idleTime` and `m_linkDelay` are written
and never read, and are left out. Two histories give the properties their
meaning: `fluid`, a virtual queue drained at every tick, and `work`, the bytes
(with the device's overhead) that the link has yet to serialise. The link is
assumed to be work conserving, which is what `TxPath!WorkConserving` says; the
guard of `Tick` ties the internal queue to that backlog.

### ByteQueueLimits

| variable or action | code |
|---|---|
| `dql` | the fields of `DynamicQueueLimits`, each a word of `Modulus` values |
| `byDevice`, `byLimits` | `m_stoppedByDevice`, `m_stoppedByQueueLimits` |
| `wakes` | wake events scheduled by either reopening |
| `devQueue`, `busy` | the sizes in the device queue, the transmit state |
| `running`, `backlog` | the queue disc above: inside `Run`, and whether it holds packets |
| `Queued`, `Available`, `Completed` | the methods of `DynamicQueueLimits`, as functions of its fields |
| `NotifyQueuedBytes`, `PacketDequeued` | the enqueue and dequeue traces, the limits before the device |
| `Arrive`, `SendQueued`, `SendNow`, `RunEnds` | a packet enters the queue disc; the iterations of `Run` |
| `TransmitComplete`, `WakeCallback` | the events |

`Signed` is the conversion of a word to `int32_t`, which is how the code compares
counters; `m_adjLimit` starts with any value because `Reset` does not set it. Time
is left out: whether the hold time has passed is open at each completion. `Reset`
is modelled as construction, and a limits object is never exchanged at run time
(`SetQueueLimits`, `ResetQueueLimits`).

### DctcpFeedback

`sock[e]` is the state of the socket at end `e`, congestion control included, as
one record: `una`, `nextTx` and `nextRx` are the head of the send buffer, the next
sequence to send and to receive; `ecnState`, `ecnCESeq`, `ecnEchoSeq`, `ecnCWRSeq`
the ECN variables of the socket; `delAckCount` and `delAckTimer` the delayed
acknowledgement; `ceState`, `delayedAckReserved`, `prior` the receiver's half of
`TcpDctcp`, `nextSeq`, `ackedTotal`, `ackedEcn` the sender's. `wire` holds what the
socket has sent and the peer has not received; `marked` and `from` are histories.

The initial states are those after the handshake. The client has received nothing that
could change its receiver's half (a mark on the SYN-ACK has no new sequence number, and
ECN is not negotiated yet). The server has received the last packet of the handshake
(`Accepted`), an acknowledgement that is itself ECT unless the client set a type of
service, and may be marked. It has the sequence number of the first segment; if it was
marked, `ForwardUp` has set `m_ecnCESeq` to that number and the mark of the first segment
is no longer a new one. `marked` records such a handshake as 0, and `Heard` is what the
properties about echoes ask for: every mark, but that of the first segment after a marked
handshake.

| action | code |
|---|---|
| `Send` | the application's `Send`, which runs `SendPendingData` |
| `Receive` | the whole handler of a segment: `ForwardUp` (`CeEvent`), `DoForwardUp` (`CwrEvent`), `ProcessEstablished`, `ReceivedAck` with `ProcessAck` and `PktsAcked`, `ReceivedData`, `SendPendingData` |
| `DelAckTimeout` | the timer of the delayed acknowledgement |

Each function of the chain takes the state the one before left, in the order of
the code; this order is what most of the properties depend on. Segments have one
size and are counted. The network delivers in order and loses nothing (which is
what `TxPath` shows of a path without drops), so nothing is retransmitted, the
congestion state stays `CA_OPEN`, and with SACK (the default) a repeated
acknowledgement without SACK blocks does not count as a duplicate one. What data
and windows allow to be sent is left open up to `MaxFlight`, so the value of alpha
and of the window need not be modelled. Every packet of a `TcpDctcp` socket is
ECT, pure acknowledgements too, so any packet may arrive marked.

### EventQueue and HeapScheduler

| variable or action | code |
|---|---|
| `events` | `m_events`, as what `Scheduler` promises: a set of which `RemoveNext` takes the least key |
| `now`, `currentUid`, `nextUid`, `stop`, `unscheduled` | `m_currentTs`, `m_currentUid`, `m_uid`, `m_stop`, `m_unscheduledEvents` |
| `withContext`, `contextEmpty` | `m_eventsWithContext`, `m_eventsWithContextEmpty` |
| `cancelled` | `EventImpl::m_cancel` of each event |
| `Schedule`, `Cancel`, `Remove`, `Stop` | the calls of the program, outside `Run` or in a handler |
| `ScheduleWithContext` | the call of another thread, one step under the mutex |
| `CheckContext`, `Swap` | `ProcessEventsWithContext`: the flag read without the mutex, the exchange of the lists under it |
| `ProcessOneEvent`, `HandlerReturns` | the dispatch of an event, and the end of its handler |
| `RunBegins`, `RunReturns` | `Run` |

Handlers are open: any sequence of schedules, cancels, removes and stops. The flag
is a data race, so `CheckContext` may miss that it was just cleared. `EventQueue` is
about the promise of a scheduler, `HeapScheduler` about one that should keep it: `heap`
is the array, `BottomUp` and `TopDown` the loops, `Without` what `Remove` and
`RemoveNext` do to the array.

### Visualizer

| variable or action | code |
|---|---|
| `sim`, `locked` | where `SimulationThread.run` is; it holds `lock` |
| `go`, `quit`, `target`, `pauseMessages` | the fields of these names |
| `messages`, `now` | `PyViz::m_pauseMessages`, the time of the simulator |
| `playing`, `timeoutId`, `period` | the play button, `_update_timeout_id`, `sample_period` |
| `timers` | the update timers that are GLib sources: a number and whether one was started `early`, with the play button up |
| `stack`, `taken` | the handlers being executed, nested main loops included; the messages held by the innermost |
| `Wait`, `Clear`, `CheckQuit`, `Acquire`, `RunUntil`, `Loop` | the loop of `SimulationThread.run` |
| `TimerFires`, `Poll`, `PollAgain`, `UpdateView`, `EndUpdate` | `update_view_timeout` |
| `Handler`, `HandlerLocks` | `update_model` and the handlers of input that wait for the lock |
| `Init` | after `create_gui`, which shows the speed and so starts the first timer |
| `StartUpdateTimer` | `_start_update_timer`, of the two handlers below |
| `Toggle` | `_on_play_button_toggled` |
| `SpeedChanged` | `_speed_changed`, whether the button is pressed or not |
| `Quit`, `SignalQuit`, `Join` | `_quit` |

The GTK main loop is external and modelled by how it is used: it dispatches one
source at a time, never one that is being dispatched, and a nested loop dispatches
the others. What the view does under the lock is one step, since the simulation
thread touches it under the lock only.

### TestRunner

| variable or action | code |
|---|---|
| `input`, `output` | `input_queue`, `output_queue` |
| `at`, `holds` | where `worker_thread.run` is, its local `job` |
| `threadExit`, `isBreak`, `returncode`, `file` | `thread_exit`, `Job.is_break`, `Job.returncode`, the file of `Job.tmp_file_name` |
| `dispatched`, `collected`, `passed`, `skipped`, `results` | `jobs`, the loop over results, the counters, `xml_results_file` |
| `Get`, `Refuse`, `Skip`, `Launch`, `Complete`, `Raise` | the ways through the loop of `worker_thread.run` with `run_job_synchronously` |
| `Interrupt` | `sigint_hook` |
| `Dispatch`, `DispatchBreak`, `CollectBreak`, `Collect`, `Finish` | `run_tests` |

A child process is seen by its exit code, by whether its output can be decoded, and
by what it left in its results file: a suite that crashed left none or a part of one
(`FileLeft`, from core/model/test.cc). `Break` is the job that tells a worker to end.

## 3. The runs

| run | question | instance |
|---|---|---|
| `qdisc_root` | above a multi-queue device, is the order kept, nothing lost, nothing left behind, and everything sent in the end? | 4 packets, 2 device queues, late drops |
| `qdisc_child` | do peeks, drops inside peeks and dequeues agree on the counters? | 4 packets, a child queue disc |
| `link_packets` | does the flow control in packets prevent discards, and does a stopped queue reopen, with or without a wake callback, as long as no event calls one that was removed? | 5 packets, device queue of 2, corrupting receiver |
| `txpath` | with everything that may drop on the way, with a root queue disc, without one and with one that is deleted, is the whole path a FIFO pipe that accounts for its losses, work conserving, and true to what its parts assume of one another? | 4 packets, device queue in bytes, discards, peeks, late drops, corruption |
| `phantom_bytes` | is the lazy virtual queue the fluid one, ahead of the real one, and does an unmarked packet find a short backlog? | sizes 2 and 4, overhead 1, rates 2 and 3 |
| `byte_queue_limits` | with counters that wrap, do the limits count right, stop only when they must, and lose no wake-up? | words of 4 bits, sizes 1 and 3, limit up to 4, device queue of 3 |
| `dctcp_loop` | does the echo follow the marks, does the sender count all and reduce once per window, and is all acknowledged? | 5 segments one way, 3 in flight, delayed acknowledgements of 2, marks in any pattern, on the handshake too |
| `event_queue` | are events executed in order, none lost, is expiry exact, and does `Run` finish what is in the queue? | 4 events, now or one unit later |
| `visualizer` | can the timer that plays always be removed, is each message shown once, does a pause hold, does the window close, and does the simulation go on? | 6 units in chunks of 1 or 2, 3 presses of the button, one change of the speed or other input, one pause |
| `test_runner` | is every job run and reported once, is success real, are results well-formed, and does the main thread end? | 2 workers, 2 suites, 2 examples of which one is skipped |
| `phantom_packets` | are packets dropped only from a full queue? (violated) | limit of 3 packets |
| `heap_scheduler` | does time never go back? (violated) | a heap of 8 events, two times |

Why these bounds are enough. A requeue needs two transmission queues and two
packets, overtaking a held packet a third one, and a run after it a fourth. A
device queue of one packet is stopped by each packet and woken by each
transmission, which is the busiest the flow control gets; one of two packets has
every occupancy (empty, some room, full); in bytes, a limit of 9 with costs 2, 4
and 5 has an occupancy that leaves room for an MTU but not for an MTU and its
header. In `phantom_bytes` the bounds `MaxVq` and `MaxIdle` let the virtual queue
pass the threshold, drain to zero and stay there, and the size limit of 8 is
reached; `MaxDrops` only bounds a counter. In `byte_queue_limits` the counters wrap
after a handful of packets and a limit of 4 is passed by two packets of 3 while
the device queue of 3 fills with small ones, so either reason to stop comes first
in some behaviour; the assumption on `Modulus` keeps what can be queued below half
a word, as it is in the code by a wide margin. In `dctcp_loop` five segments are
two delayed acknowledgements and one left to the timer, and three in flight let
a window end while marked and unmarked segments of the next are on their way.
In `event_queue` four events are one that is executed while another waits in the
list of the other threads and two of one time are in the queue. In `visualizer` three
presses let the timer of the first wait for the simulator while the third starts
another, and a change of the speed between them starts one that nobody has an id of;
two chunks and more follow the one pause there is. The order of several messages is
what `MessagesCorrect` proves. In `test_runner` two workers let
one run a job while the other is refused one, and four jobs are both kinds, run and
skipped. `heap_scheduler` needs eight elements: the removed one and the last must be
in different branches, the last one below a small element.
`MaxWakes` bounds the wake events pending at a time; with two device queues at most one per queue is ever useful.
`Quota` is large enough not to be used up; the value 0, used in `qdisc_root`,
wraps around in the code and never runs out.
The instances with a fixed set of packets, segments, events, jobs or steps of a user
stop when all of them are used up, so deadlock is not checked there; `ByteQueueLimits` never stops, and is
checked.

Fairness. The simulator executes every scheduled event and a run once begun goes
on to its end, so `Restart`, `WakeCallback`, `TransmitComplete` and `Receive` are
weakly fair. For `QueueDisc` alone, the device is asked to wake each queue that
stays or keeps being stopped (strong fairness of `DeviceWake`);
`link_packets` (`QueueReopens`) shows that the point-to-point device does so, and
`txpath` (`AllDelivered`) needs no such assumption. In `ByteQueueLimits`
packets may arrive at any time, also between an event and the next, so the two
events are strongly fair: the simulator's clock does not stand still. In
`DctcpFeedback` a packet on the wire arrives and a running timer expires or is
cancelled. In `EventQueue` only `Running` is fair: `Run` goes on and handlers return,
but nothing makes the program or another thread act. In `Visualizer` both threads are
scheduled, timers fire and a chunk ends; nothing is asked of the user. In
`TestRunner` threads are scheduled and child processes end, since
`run_job_synchronously` waits for them without a timeout.
Nothing obliges the upper layers to send or anybody to peek.

### What the code does differently from what it says

| run | property | what happens |
|---|---|---|
| `phantom_packets` | `DropsOnlyWhenFull` | in packet mode the phantom queue adds bytes to packets and drops with an empty queue |
| `heap_scheduler` | `TimeGoesOn` | `HeapScheduler::Remove` moves the element it puts in the place of the removed one down only; if it comes from another branch it may be smaller than its new parent, and a later event is taken out before it: the assertion of `ProcessOneEvent` fails |

More was seen with the same modules, or while reading the code for them, and is not
a run of its own:

* `GetStats` during a peek reports one sent packet too few (below zero if none was
  sent, which wraps): a packet held by a peek is subtracted although it was not
  counted as dequeued (queue-disc.cc:426). A child of TBF is peeked like this;
* with a limit in bytes the device queue discards packets of MTU size from a sender
  that respects flow control, because the PPP header is not in the MTU
  (`NoDiscard` with `ByteMode = TRUE`; net-device-queue-interface.h:336);
* the early acknowledgement made when the CE state changes repeats the last
  acknowledgement, because the number saved for it is taken before the segment is
  stored (tcp-dctcp.cc:192), and the sender ignores its ECE flag: a single marked
  segment whose acknowledgement was delayed is never heard of;
* a root queue disc that was peeked sends the held packet without its header
  (`HeadersComplete` with `BasePeek = TRUE`; queue-disc.cc:1016);
* a device queue whose byte limit is one MTU stops for ever when it discards a
  packet while empty (`QueueReopens` with `MaxSize = Mtu`), since only a dequeue
  trace wakes it;
* a run that uses up its quota leaves packets with no run to come (`NoStall` with
  a small `Quota`), which a todo in the code admits;
* `GetNPackets` does not count a requeued packet, a difference from its
  documentation;
* with data in both directions a marked pure acknowledgement makes an early
  acknowledgement that cancels the delayed one and restarts no timer, so a segment
  waits for the peer's retransmission timeout (`AllAcked` with both ends in
  `Senders`); and `m_ecnState` being shared by both directions, an echo that is due
  can be overwritten by an echo received. The properties about echoes are
  therefore stated for an end that only receives;
* an event that another thread schedules after the last event was executed is not
  run by that `Run`, and a `Stop` before `Run` is forgotten; the event number is a
  32-bit counter, and after it wraps events of one time lose their order;
* if the last packet of the handshake is CE-marked, the mark of the first segment is taken
  for an old one, because both have the same sequence number, and the receiver leaves the
  CE state (tcp-socket-base.cc:1129 and 2814);
* a queue disc deleted while a wake event is pending leaves an event that calls a null
  callback (net-device-queue-interface.cc:80, traffic-control-layer.cc:262; `CallsNull`);
* a change of the speed starts an update timer although the play button is up
  (visualizer/visualizer/core.py:1042). If the callback of an old timer still waits for the
  simulator, ends after the change and clears `_update_timeout_id`, a press of the button
  starts a second timer, and the view is updated by two, one of which nobody can remove; it ends
  itself when the button is up;
* the `m_stop` of a pause is not looked at between chunks, so up to two more chunks
  are run after a pause message (`PauseHolds` says two), and `Simulator::Stop` in a
  model ends a chunk of the visualizer, not the simulation;
* the identifier of a removed update timer is kept after the button was released, and
  removed again when it is pressed; the samples of a chunk are cleared when the next
  one starts, so some may never be drawn;
* `Job.returncode` starts as `False`, which equals the code of a job that passed; an
  exception in a worker leaves the main thread waiting for ever; and a suite that
  crashed while its output could not be decoded counts as failed, so its broken
  results file is taken over.

## 4. The proofs

Every theorem is proved for all values of the constants, from the named assumption
of its module (`QueueDiscAssumption`, `LinkAssumption`, ...) and what it says itself.

`QueueDiscProofs` proves, for any packets, transmission queues, quota and
subclass behaviour,

* `TypeCorrect`: `Spec => []TypeOK`,
* `BacklogCorrect`: `Spec => []BacklogExact`,
* `StatisticsCorrect`: `Spec => []CountersBalance`,
* `HeadersCorrect`: `Spec => []HeadersComplete` if `~BasePeek` (nobody peeks).

`TypeOK` is not inductive: that `nPackets` does not go below zero depends on it
being the number of packets really there, and that depends on a peeked packet
being held. The inductive invariant is therefore `CInv /\ RestType`: the types,
`PeekedIsHeld`, `BacklogExact` and `CountersBalance`. The argument has two parts.
`DoDequeueEffect` and `TakeHeldEffect` say what the two ways of taking packets out
do to the counters (`CountersAfter`); `CountersStep` says that the identities
survive any step that moves as many packets as it counts. Each action is then
shown to be such a step (`EnqueueCounters`, `PeekCounters`, `ExtractCounters`), and
`NextCounters` and `NextType` put them together. `HeadersCorrect` has an invariant of
its own (`HeadersInv`): a packet that is requeued already has its header.

Its second part proves, for the same constants,

* `FifoCorrect`: `Spec => []FifoOrder`,
* `CompleteCorrect`: `Spec => []NoLoss`.

`FifoOrder` alone is not inductive: a packet that is stored must come after the
packets before it, so these must be known to have arrived (`AllArrived`). Every
step does one of three things to the pipeline: nothing (`SameOrder`), a packet
more at its end (`StoredOrder`), or `k` dropped packets less behind its front with
at most one packet moving into the front (`MovedUpOrder`). The three lemmas are
about sequences only; the rest shows which of them an action is.

Its third part is about what is left behind when a run ends:

* `StallOnlyByQuota`: `Spec => [](QuotaLeft => NoStall)`, for every quota: only a run
  that used up its quota leaves packets that could be sent without a run to come;
* `NoStallCorrect`: `Spec => []NoStall` if `Quota = 0`, the quota that never runs out.

`NoStall` speaks of the state between runs, so its invariant (`StallInv`) has to say
how a run gets there: a run that goes on has quota left, and the only other way to end
(`RestartNothing`, `RestartRequeue`) is for lack of packets or at a stopped queue.

`TxPathProofs` proves, about the link alone, for any packets, sizes, MTU and size of
the device queue in either unit,

* `LinkTypeCorrect`: `LinkSpec => []LinkTypeOK`,
* `StoppedCorrect`: `LinkSpec => []StoppedHasPackets` if the device queue has room for one
  packet of the size it keeps room for (`FitsOne`),
* `FlowControlCorrect`: `LinkSpec => []NoDiscard` if, besides, no packet with its PPP
  header is larger than the MTU (`CostsCovered`),
* `FlowControlInPackets`: both, without any condition, if the limit is in packets.

The two conditions are what the code lacks in bytes: without `CostsCovered` a packet of MTU
size is discarded, without `FitsOne` the queue stops for ever (see section 3). None of the
four is inductive. `LinkInv` adds that the counter of the queue is the sum of what its
packets cost (`SumsTo`, which states the sum by the sequence of its partial sums, so that it
follows an enqueue and a dequeue without an induction), that a ready transmitter has an
empty queue (`IdleIsEmpty`: `TransmitComplete` takes the next packet at once), and that
a stopped queue has no room for one more packet (`StoppedIsLow`). The properties then follow
from arithmetic: an empty queue has room, so it is not stopped.

About the composition, with and without a queue disc and while it is deleted, it proves

* `LinkCorrect`: `Spec => LinkSpec`,
* `DiscCorrect`: `Spec => DiscSpec`,
* `PipeCorrect`: `Spec => PipeSpec`, the refinement of `FifoPipe`,
* `PathFlowControl`: `Spec => []NoDiscard` under the conditions of `FlowControlCorrect`, from
  which it follows by `LinkCorrect`,
* `IdleOnlyByQuota`: `Spec => [](QuotaLeft => WorkConserving)` if `FitsOne`,
* `WorkCorrect`: `Spec => []WorkConserving` if `FitsOne` and `Quota = 0`.

`PathInv` (`PathCorrect`) is the invariant of the three refinements: that of the link, the types,
that no packet waits in two places and each of them arrived (`WaitsOnce`), that without a queue disc
nothing waits and nothing runs (`DiscOrNot`), and that between runs packets wait only for a
stopped queue (`WaitsForWake`). `LinkStep` shows each step to be one of
the link or a stutter, `DiscCorrect` the same for the queue disc. For `PipeSpec` each
action is one of four things to the concatenation of the places a packet can be in: an
append, a packet delivered from the front, a stretch lost (`Cut`, `Split`), or nothing,
when a packet only moves from one place to the next; `Takes` says that of the two ways
in which the queue disc takes packets out.

`PhantomQueueProofs` proves, for any sizes, rates, threshold, limit and bounds:

* `PhantomTypeCorrect`: `Spec => []TypeOK`,
* `LazyCorrect`: `Spec => []LazyEqualsFluid`,
* `DominationCorrect`: `Spec => []PhantomDominates`,
* `NoInternalDropCorrect`: `Spec => []NoInternalDrop`,
* `MarkCorrect`: `Spec => MarkExact`,
* `PromiseCorrect`: `Spec => UnmarkedMeansShort`.

The invariant is the conjunction of the first three with the types. That the code
adds up what passed since the last accepted packet in one product
(`since * Drain`) and the fluid queue drains tick by tick is the lemma
`TickPhantom`; that a packet adds no more to the link than to the virtual queue is
`SumCovered` with the assumption on the overhead; that a tick drains both without
either overtaking the other at zero is `DrainCovered`. That `nBytes` is the sum of
the sizes in the queue is not stated.

`ByteQueueLimitsProofs` proves, for words of any width, any limits and any sizes,

* `LimitsTypeCorrect`: `Spec => []TypeOK`,
* `WakeCorrect`: `Spec => []NoLostWake`,
* `AvailableCorrect`: `Spec => []AvailableExact`,
* `StopCorrect`: `Spec => []StopJustified`.

The bound on the wake callbacks is not inductive: `LimitsInv` adds that an idle device
leaves none pending (`IdleHasNoWakes`) and that a full queue is a stopped one
(`FullIsStopped`), so a packet is never put into a full one. `NoLostWake` is preserved
because whichever reason goes last is the one that schedules (`DequeuedWakes`).

The counters need more (`StoreInv`). The counter of queued bytes is that of completed
bytes plus what is in flight, modulo the word (`Counts`); `m_adjLimit`, which starts with
anything, is right as soon as the device is busy (`Ready`); the queue never holds
more than one packet above `MaxLimit`, because the limits close before another is taken; and
a queue the limits left open holds no more than `MaxLimit`. With the assumption that this fits
into half a word, the signed comparison of two wrapped counters is the comparison of the
numbers (`WrapOnce`, `WrapAgain`). What is in flight is a sum over the device queue, defined
by a recursive function: that it is defined at all, and what an enqueue and a dequeue
do to it (`TotalAppend`, `TotalTail`), is proved by induction on the length, with the least
counterexample (`Smallest`, from the library's theorem that `<` is well-founded) in the
place of the library's induction rules.

`DctcpFeedbackProofs` proves, for any senders, number of segments, windows and limit of
delayed acknowledgements,

* `TypeCorrect`: `Spec => []TypeOK`,
* `CountsCorrect`: `Spec => []CountsCover`,
* `ReductionsCorrect`: `Spec => OncePerWindow`,
* `EchoCorrect`: `Spec => []EchoFollowsMark`,
* `EchoDistance`: `Spec => []EchoOffByOne`.

The invariant has two layers. `SockInv` is about both ends: what each variable of a
socket may be (`Accounts`), and what each direction carries (`Stream`): segments one after
the other up to the next to be sent, acknowledgements of what was received, and no data that
acknowledges less than an earlier segment. The last part is needed because
`ProcessEstablished` ignores a segment whose acknowledgement is old, data and all. `EchoInv`
is about an end that only receives: its CE state is whether the last segment had a mark that was heard
(`Heard`), it echoes exactly then, the acknowledgement it saved is the one before the last segment, and
every echo on the wire is right about the segment before the one it asks for or, made
by the early acknowledgement, about that one (`EchoFits`). The handler of a segment is a
chain of functions; each has a lemma about what it changes (`...Effect`) and one that
what it leaves is an end of the invariant (`...Fit`), and `ReceiveIs` puts the chain
together, so no step of the proof expands more than one link of it.

`EventQueueProofs` proves, for any delays and any number of events,

* `QueueTypeCorrect`: `Spec => []TypeOK`,
* `OrderCorrect`: `Spec => Chronological`,
* `ExpiredCorrect`: `Spec => []ExpiredExact`,
* `OnceCorrect`: `Spec => []EachEventOnce`.

The invariant `OrderInv` says that what is in the queue lies after the key of the event
executed last and has a number of its own that was given out (`Ahead`), and that an
event somebody has an id of and that left the queue was reached or is cancelled
(`LeftExpired`). Time goes on because what `ProcessOneEvent` takes is in the queue;
`ExpiredExact` is the two parts together. For `OnceCorrect`, `OnceInv` adds that each number
given out is in exactly one place (`Parted`), that no two events have the same number
(`DistinctIds`), and that `m_unscheduledEvents` is the number of events in the queue
(`Counted`); an event that is executed or removed thus leaves one place for one other, and `Swap` moves
a whole list without merging two events.

`VisualizerProofs` proves, for any speeds and any bounds,

* `VisualizerTypeCorrect`: `Spec => []TypeOK`,
* `TimerCorrect`: `Spec => []TimerRecorded`,
* `MessagesCorrect`: `Spec => []MessagesExact`,
* `PausesCorrect`: `Spec => []PauseHolds`.

There may be several timers, because a change of the speed starts one whatever the play
button does. `TimerRecorded` says what is left of the idea of one: while the simulation
plays, the recorded timer is there, and any other was started before play was pressed; with
the button up, none is left that was started by a press. It is inductive as it stands. The
messages need
that only the innermost handler holds messages (`TakenByTop`), and then that exchange
and extension of the list are both a move along one sequence.

`PauseHolds` bounds a time, so its invariant (`PauseInv`) counts what may still use it up:
`Due` is how many of these there are: a chunk begun, a `go` that waits, a `go` about to be
signalled by the timer. Each takes at most the longest period, and for every pause that is
unanswered there is time left for all of them (`TimeLeft`). When a third chunk would become due, the message
has been shown and the button is up (`Answers`); that the timer and the quit handler nest
as they do (`Nested`) keeps a second signal from being given in between.

`TestRunnerProofs` proves, for any number of workers and jobs,

* `TypeCorrect`: `Spec => []TypeOK`,
* `JobsCorrect`: `Spec => []EachJobOnce`,
* `ReportCorrect`: `Spec => []AllReported`,
* `SuccessCorrect`: `Spec => []SuccessIsReal`,
* `CorruptCorrect`: `Spec => []CorruptOnlyGarbled`.

`EachJobOnce` is the core of `RunnerInv`: each action moves one job from one place to
the next. That the loop which only counts results ends with the right ones is a count:
as many jobs were reported as the loop went round, so all of them, if it went round
as often as jobs were dispatched. `CorruptOnlyGarbled` needs what a worker leaves
for the main thread to find (`FilesLeft`: a suite that was run and does not count as crashed left
a complete file, or its crash went unnoticed) and that the culprit was
reported before the results file is malformed or the main thread gives up
(`CulpritReported`). `SuccessIsReal` compares two sums with one: the jobs
that passed and those skipped are different jobs, and if there are as many of them as
jobs, each job is one.

So every invariant, action property and refinement that the passing runs check is a theorem,
except that the liveness properties of these runs (`AllServed`, `QueueReopens`,
`AllDelivered`, `LimitsReopen`, `AllAcked`, `Advances`, `Completes`, `Terminates`,
`QuitTerminates`) are only model-checked: they need fairness and `ENABLED`, which are
out of the prover's reach. `HeapScheduler` has recursive operators and is for TLC only.
A theorem with a condition (`Quota = 0`, `FitsOne`, `CostsCovered`, `~BasePeek`) names what the
code does not ensure by itself; what happens without it is in section 3. The runs that
check these properties meet the conditions, but for `txpath`, whose quota of 64 is not used
up by its four packets: there it is `IdleOnlyByQuota` that applies.

## 5. Plan and limits

Done: the transmission path with and without a queue disc, the phantom queue, byte queue
limits, the feedback of DCTCP in one direction without losses, the event queue and one
scheduler, the visualizer's threads, the test runner. What could follow, in this
order: `DctcpFeedback` on a network that loses, with retransmission; `TcpTxBuffer` and
`TcpRxBuffer` against an abstract byte stream; the marks of `PhantomQueue` as the marks
of `DctcpFeedback`; limits exchanged while they stop the queue.

Not modelled:

* **Generated Python bindings** (`*/bindings/modulegen__*.py`). Some 690,000 of the 710,000
  lines of Python in the tree: lists of classes and methods, one registration call after
  another, with neither state nor control. There is nothing in them to model, so the
  modelled share of the Python code stays small whatever is added.
* **The rest of ns-3** (wireless, LTE, routing, mobility, energy): upstream code that
  HULL's scenarios do not use.
* **TCP buffers and the rest of the TCP socket**: connection set-up, loss recovery,
  timers and windows. HULL leaves them as they are.
* **Other queue discs**: what they may do to the base class is an input of `QueueDisc`;
  their drop laws are statistical.
* **Configuration at run time**: a queue disc can be deleted, but none installed later in
  `TxPath` (`PointToPointLink` has both), and `SetQueueLimits` is not called while the
  simulation runs. Hazards that need it are in `PROJECT.json` with a note.
* **Scenario scripts** under `scratch/`, which choose parameters only.
