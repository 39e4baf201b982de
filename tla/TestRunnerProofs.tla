--------------------------- MODULE TestRunnerProofs ---------------------------
(***************************************************************************)
(* The bookkeeping of TestRunner for any number of jobs, workers, suites   *)
(* and skipped jobs, whenever SIGINT comes and whichever worker dies: each *)
(* job is in one place, the loop over the results ends only after every    *)
(* job was reported, and run_tests returns 0 only if every job was skipped *)
(* or did run and pass.                                                    *)
(***************************************************************************)
EXTENDS TestRunner, FiniteSetTheorems, TLAPS

(* The results taken so far are those of the reported jobs. *)
CollectedCounts == collected = Cardinality(Reported)

(* The results are collected when everything was dispatched. *)
AllDispatched == main # "dispatching" => dispatched = Total

JobsWith(verdict) == {j \in Jobs : status[j] = verdict}

(* passed_tests and skipped_tests count the jobs reported as such. *)
TalliesCount ==
  /\ passed = Cardinality(JobsWith("PASS"))
  /\ skipped = Cardinality(JobsWith("SKIP"))

(* A job that is given back was run, unless it is marked or skipped; one     *)
(* reported as passed was run with return code 0.                            *)
RanBefore ==
  /\ \A j \in Ready : j \in isBreak \/ j \in Skipped \/ j \in ran
  /\ \A j \in Jobs : status[j] = "PASS" => j \in ran /\ returncode[j] = 0
  /\ \A j \in Jobs : status[j] = "SKIP" => j \in Skipped

(* Success is decided at the end, from the tallies. *)
SuccessMeans ==
  success => main = "finished" /\ \A j \in Jobs : status[j] \in {"PASS", "SKIP"}

(* The inductive invariant. *)
RunnerInv ==
  /\ TypeOK
  /\ EachJobOnce
  /\ CollectedCounts
  /\ AllDispatched
  /\ TalliesCount
  /\ RanBefore
  /\ SuccessMeans

-----------------------------------------------------------------------------
(* Queues and hands                                                          *)

(* A queue with one more element. *)
LEMMA QueuedAppend ==
  ASSUME NEW S, NEW q \in Seq(S), NEW x \in S
  PROVE  /\ Append(q, x) \in Seq(S)
         /\ Queued(Append(q, x)) = Queued(q) \cup {x}
         /\ NoneTwice(q) /\ (x \notin Queued(q) \/ x = Break) => NoneTwice(Append(q, x))
  <1>1. /\ Append(q, x) \in Seq(S)
        /\ Len(q) \in Nat
        /\ Len(Append(q, x)) = Len(q) + 1
        /\ Append(q, x)[Len(q) + 1] = x
        /\ \A i \in 1..Len(q) : Append(q, x)[i] = q[i]
    OBVIOUS
  <1>2. Queued(Append(q, x)) = Queued(q) \cup {x}
    BY <1>1 DEF Queued
  <1>3. ASSUME NoneTwice(q), x \notin Queued(q) \/ x = Break
        PROVE  NoneTwice(Append(q, x))
    <2>1. SUFFICES ASSUME NEW i \in 1..Len(Append(q, x)), NEW k \in 1..Len(Append(q, x)),
                          i # k, Append(q, x)[i] = Append(q, x)[k]
                   PROVE  Append(q, x)[i] = Break
      BY DEF NoneTwice
    <2>2. CASE i \in 1..Len(q) /\ k \in 1..Len(q)
      BY <1>1, <1>3, <2>1, <2>2 DEF NoneTwice
    <2>3. CASE i = Len(q) + 1 /\ k \in 1..Len(q)
      BY <1>1, <1>3, <2>1, <2>3 DEF Queued
    <2>4. CASE i \in 1..Len(q) /\ k = Len(q) + 1
      BY <1>1, <1>3, <2>1, <2>4 DEF Queued
    <2>q. QED
      BY <1>1, <2>1, <2>2, <2>3, <2>4
  <1>q. QED
    BY <1>1, <1>2, <1>3

(* A queue without its head. *)
LEMMA QueuedTail ==
  ASSUME NEW S, NEW q \in Seq(S), q # <<>>
  PROVE  /\ Head(q) \in S /\ Tail(q) \in Seq(S)
         /\ Queued(q) = Queued(Tail(q)) \cup {Head(q)}
         /\ NoneTwice(q) => NoneTwice(Tail(q)) /\ (Head(q) \notin Queued(Tail(q)) \/ Head(q) = Break)
  <1>1. /\ Head(q) \in S /\ Tail(q) \in Seq(S)
        /\ Len(q) \in Nat /\ Len(q) > 0
        /\ Len(Tail(q)) = Len(q) - 1
        /\ Head(q) = q[1]
        /\ \A i \in 1..(Len(q) - 1) : Tail(q)[i] = q[i + 1]
    OBVIOUS
  <1>2. Queued(q) = Queued(Tail(q)) \cup {Head(q)}
    <2>1. ASSUME NEW i \in 1..Len(q) PROVE q[i] \in Queued(Tail(q)) \cup {Head(q)}
      <3>1. CASE i = 1
        BY <1>1, <3>1
      <3>2. CASE i # 1
        <4>1. i - 1 \in 1..(Len(q) - 1) /\ (i - 1) + 1 = i
          BY <1>1, <3>2
        <4>q. QED
          BY <1>1, <4>1 DEF Queued
      <3>q. QED
        BY <3>1, <3>2
    <2>2. ASSUME NEW i \in 1..(Len(q) - 1) PROVE Tail(q)[i] \in Queued(q)
      <3>1. i + 1 \in 1..Len(q)
        BY <1>1
      <3>q. QED
        BY <1>1, <3>1 DEF Queued
    <2>3. Head(q) \in Queued(q)
      BY <1>1 DEF Queued
    <2>q. QED
      BY <1>1, <2>1, <2>2, <2>3 DEF Queued
  <1>3. ASSUME NoneTwice(q) PROVE NoneTwice(Tail(q))
    <2>1. SUFFICES ASSUME NEW i \in 1..(Len(q) - 1), NEW k \in 1..(Len(q) - 1),
                          i # k, Tail(q)[i] = Tail(q)[k]
                   PROVE  Tail(q)[i] = Break
      BY <1>1 DEF NoneTwice
    <2>2. i + 1 \in 1..Len(q) /\ k + 1 \in 1..Len(q) /\ i + 1 # k + 1
      BY <1>1, <2>1
    <2>q. QED
      BY <1>1, <1>3, <2>1, <2>2 DEF NoneTwice
  <1>4. ASSUME NoneTwice(q), Head(q) \in Queued(Tail(q)) PROVE Head(q) = Break
    <2>1. PICK i \in 1..(Len(q) - 1) : Tail(q)[i] = Head(q)
      BY <1>1, <1>4 DEF Queued
    <2>2. i + 1 \in 1..Len(q) /\ 1 \in 1..Len(q) /\ i + 1 # 1
      BY <1>1
    <2>q. QED
      BY <1>1, <1>4, <2>1, <2>2 DEF NoneTwice
  <1>q. QED
    BY <1>1, <1>2, <1>3, <1>4

(* The jobs in the hands of the workers, as h says. *)
InHands(h) == {h[w] : w \in Workers} \ {NoJob}
NoneShared(h) == \A v, w \in Workers : v # w /\ h[v] = h[w] => h[v] = NoJob

(* A worker with empty hands takes a job nobody has. *)
LEMMA HandTakes ==
  ASSUME NEW h \in [Workers -> Jobs \cup {NoJob}], NEW w \in Workers, NEW j \in Jobs,
         h[w] = NoJob, NoneShared(h), j \notin InHands(h)
  PROVE  /\ InHands([h EXCEPT ![w] = j]) = InHands(h) \cup {j}
         /\ NoneShared([h EXCEPT ![w] = j])
  <1>1. j # NoJob
    BY TestRunnerAssumption DEF TestRunnerAssumption
  <1>2. InHands([h EXCEPT ![w] = j]) = InHands(h) \cup {j}
    BY <1>1 DEF InHands
  <1>3. NoneShared([h EXCEPT ![w] = j])
    BY <1>1 DEF NoneShared, InHands
  <1>q. QED
    BY <1>2, <1>3

(* A worker hands over its job, which nobody else has. *)
LEMMA HandGives ==
  ASSUME NEW h \in [Workers -> Jobs \cup {NoJob}], NEW w \in Workers,
         h[w] # NoJob, NoneShared(h)
  PROVE  /\ h[w] \in Jobs
         /\ InHands([h EXCEPT ![w] = NoJob]) = InHands(h) \ {h[w]}
         /\ h[w] \in InHands(h)
         /\ NoneShared([h EXCEPT ![w] = NoJob])
  <1>1. InHands([h EXCEPT ![w] = NoJob]) = InHands(h) \ {h[w]}
    BY DEF InHands, NoneShared
  <1>2. h[w] \in InHands(h)
    BY DEF InHands
  <1>3. NoneShared([h EXCEPT ![w] = NoJob])
    BY DEF NoneShared
  <1>q. QED
    BY <1>1, <1>2, <1>3

-----------------------------------------------------------------------------
(* Where the jobs are                                                        *)

(* The types of the variables that say where the jobs are. *)
LEMMA PlaceTypes ==
  ASSUME TypeOK, EachJobOnce
  PROVE  /\ input \in Seq(Jobs \cup {Break}) /\ output \in Seq(Jobs)
         /\ holds \in [Workers -> Jobs \cup {NoJob}]
         /\ Held = InHands(holds) /\ NoneShared(holds)
         /\ NoneTwice(input) /\ NoneTwice(output)
         /\ dispatched \in Nat
  BY DEF TypeOK, EachJobOnce, Held, InHands, NoneShared

(* A job moves from a worker to the output queue. *)
LEMMA GiveBackPlaces ==
  ASSUME TypeOK, EachJobOnce, NEW w \in Workers, at[w] \in {"deciding", "running"},
         GiveBack(w), UNCHANGED <<input, status, lost, dispatched>>
  PROVE  /\ EachJobOnce'
         /\ holds[w] \in Held /\ holds[w] \in Jobs
         /\ Ready' = Ready \cup {holds[w]}
         /\ Reported' = Reported
  <1>1. holds[w] # NoJob
    BY DEF TypeOK
  <1>2. /\ holds' = [holds EXCEPT ![w] = NoJob]
        /\ output' = Append(output, holds[w])
    BY DEF GiveBack, Goes
  <1>3. /\ holds[w] \in Jobs /\ holds[w] \in Held
        /\ InHands(holds') = Held \ {holds[w]} /\ NoneShared(holds')
    BY <1>1, <1>2, PlaceTypes, HandGives
  <1>4. Held' = Held \ {holds[w]}
    BY <1>3 DEF Held, InHands
  <1>5. holds[w] \notin Ready
    BY <1>3 DEF EachJobOnce
  <1>6. Ready' = Ready \cup {holds[w]} /\ NoneTwice(output')
    BY <1>2, <1>3, <1>5, PlaceTypes, QueuedAppend DEF Ready
  <1>7. Waiting' = Waiting /\ NoneTwice(input') /\ Reported' = Reported
    BY PlaceTypes DEF Waiting, Queued, NoneTwice, Reported
  <1>8. \A u, v \in Workers : u # v /\ holds'[u] = holds'[v] => holds'[u] = NoJob
    BY <1>3 DEF NoneShared
  <1>9. NoneTwice(input)' /\ NoneTwice(output)'
    BY <1>6, <1>7 DEF NoneTwice
  <1>10. EachJobOnce'
    BY <1>3, <1>4, <1>6, <1>7, <1>8, <1>9 DEF EachJobOnce
  <1>q. QED
    BY <1>3, <1>6, <1>7, <1>10

(* A job moves from the output queue to the report. *)
LEMMA CollectPlaces ==
  ASSUME TypeOK, EachJobOnce, output # <<>>, output' = Tail(output),
         NEW verdict, verdict # "none",
         status' = [status EXCEPT ![Head(output)] = verdict],
         UNCHANGED <<input, holds, lost, dispatched>>
  PROVE  /\ EachJobOnce'
         /\ Head(output) \in Ready /\ Head(output) \in Jobs
         /\ Ready' \subseteq Ready
         /\ Head(output) \notin Reported
         /\ Reported' = Reported \cup {Head(output)}
  <1>1. /\ Head(output) \in Jobs
        /\ Queued(output) = Queued(Tail(output)) \cup {Head(output)}
        /\ NoneTwice(Tail(output))
        /\ Head(output) \notin Queued(Tail(output)) \/ Head(output) = Break
    BY PlaceTypes, QueuedTail
  <1>2. Head(output) # Break
    BY <1>1, TestRunnerAssumption DEF TestRunnerAssumption
  <1>3. /\ Ready = Queued(Tail(output)) \cup {Head(output)}
        /\ Ready' = Queued(Tail(output))
    BY <1>1 DEF Ready, Queued
  <1>4. Reported' = Reported \cup {Head(output)}
    BY <1>1 DEF Reported, TypeOK
  <1>5. Held' = Held /\ Waiting' = Waiting
    BY DEF Held, Waiting, Queued
  <1>6. NoneTwice(input)' /\ NoneTwice(output)'
    BY <1>1, PlaceTypes DEF NoneTwice
  <1>7. \A u, v \in Workers : u # v /\ holds'[u] = holds'[v] => holds'[u] = NoJob
    BY DEF EachJobOnce
  <1>8. Head(output) \notin Reported
    BY <1>3 DEF EachJobOnce
  <1>9. EachJobOnce'
    BY <1>1, <1>2, <1>3, <1>4, <1>5, <1>6, <1>7, <1>8 DEF EachJobOnce
  <1>q. QED
    BY <1>1, <1>3, <1>4, <1>8, <1>9

(* A worker takes what is first in the input queue. *)
LEMMA GetPlaces ==
  ASSUME TypeOK, EachJobOnce, NEW w \in Workers, Get(w)
  PROVE  EachJobOnce'
  <1>1. /\ at[w] = "getting" /\ holds[w] = NoJob
        /\ input # <<>> /\ input' = Tail(input)
        /\ UNCHANGED <<output, status, lost, dispatched>>
    BY DEF Get, TypeOK, mainVars
  <1>2. /\ Head(input) \in Jobs \cup {Break}
        /\ Queued(input) = Queued(Tail(input)) \cup {Head(input)}
        /\ NoneTwice(Tail(input))
        /\ Head(input) \notin Queued(Tail(input)) \/ Head(input) = Break
    BY <1>1, PlaceTypes, QueuedTail
  <1>3. Ready' = Ready /\ Reported' = Reported
    BY <1>1 DEF Ready, Queued, Reported
  <1>4. NoneTwice(input)' /\ NoneTwice(output)'
    BY <1>1, <1>2, PlaceTypes DEF NoneTwice
  <1>5. Waiting = (Queued(Tail(input)) \cup {Head(input)}) \ {Break} /\ Waiting' = Queued(Tail(input)) \ {Break}
    BY <1>1, <1>2 DEF Waiting, Queued
  <1>6. CASE Head(input) = Break
    <2>1. holds' = holds
      BY <1>1, <1>6, PlaceTypes DEF Get, Goes
    <2>2. Held' = Held
      BY <2>1 DEF Held
    <2>3. \A u, v \in Workers : u # v /\ holds'[u] = holds'[v] => holds'[u] = NoJob
      BY <2>1 DEF EachJobOnce
    <2>q. QED
      BY <1>1, <1>3, <1>4, <1>5, <1>6, <2>2, <2>3 DEF EachJobOnce
  <1>7. CASE Head(input) # Break
    <2>1. Head(input) \in Jobs /\ Head(input) \in Waiting
      BY <1>2, <1>5, <1>7
    <2>2. holds' = [holds EXCEPT ![w] = Head(input)]
      BY <1>7 DEF Get, Goes
    <2>3. Head(input) \notin Held
      BY <2>1 DEF EachJobOnce
    <2>4. InHands(holds') = Held \cup {Head(input)} /\ NoneShared(holds')
      <3>1. /\ holds \in [Workers -> Jobs \cup {NoJob}] /\ NoneShared(holds)
            /\ Held = InHands(holds)
        BY PlaceTypes
      <3>2. Head(input) \notin InHands(holds)
        BY <2>3, <3>1
      <3>q. QED
        BY <1>1, <2>1, <2>2, <3>1, <3>2, HandTakes, ZenonT(60)
    <2>5. Held' = Held \cup {Head(input)}
      BY <2>4 DEF Held, InHands
    <2>6. \A u, v \in Workers : u # v /\ holds'[u] = holds'[v] => holds'[u] = NoJob
      BY <2>4 DEF NoneShared
    <2>7. Waiting = Waiting' \cup {Head(input)} /\ Head(input) \notin Waiting'
      BY <1>2, <1>5, <1>7
    <2>8. /\ Waiting' \cup Held' = Waiting \cup Held
          /\ Waiting' \cap Held' = {}
      BY <2>1, <2>3, <2>5, <2>7 DEF EachJobOnce
    <2>9. /\ Waiting' \cup Held' \cup Ready' \cup Reported' \cup lost' = 1..dispatched'
          /\ (Waiting' \cup Held') \cap Ready' = {}
          /\ (Waiting' \cup Held' \cup Ready') \cap Reported' = {}
          /\ (Waiting' \cup Held' \cup Ready' \cup Reported') \cap lost' = {}
      BY <1>1, <1>3, <2>8 DEF EachJobOnce
    <2>q. QED
      BY <1>4, <2>6, <2>8, <2>9 DEF EachJobOnce
  <1>q. QED
    BY <1>6, <1>7

(* A worker dies, and its job with it. *)
LEMMA RaisePlaces ==
  ASSUME TypeOK, EachJobOnce, NEW w \in Workers, Raise(w)
  PROVE  EachJobOnce'
  <1>1. /\ holds[w] # NoJob
        /\ holds' = [holds EXCEPT ![w] = NoJob]
        /\ lost' = lost \cup {holds[w]}
        /\ UNCHANGED <<input, output, status, dispatched>>
    BY DEF Raise, TypeOK, mainVars, Goes
  <1>2. /\ holds[w] \in Jobs /\ holds[w] \in Held
        /\ InHands(holds') = Held \ {holds[w]} /\ NoneShared(holds')
    BY <1>1, PlaceTypes, HandGives
  <1>3. Held' = Held \ {holds[w]}
    BY <1>2 DEF Held, InHands
  <1>4. Ready' = Ready /\ Reported' = Reported /\ Waiting' = Waiting
    BY <1>1 DEF Ready, Queued, Reported, Waiting
  <1>5. NoneTwice(input)' /\ NoneTwice(output)'
    BY <1>1, PlaceTypes DEF NoneTwice
  <1>6. \A u, v \in Workers : u # v /\ holds'[u] = holds'[v] => holds'[u] = NoJob
    BY <1>2 DEF NoneShared
  <1>q. QED
    BY <1>1, <1>2, <1>3, <1>4, <1>5, <1>6 DEF EachJobOnce

(* The next job is dispatched. *)
LEMMA DispatchPlaces ==
  ASSUME TypeOK, EachJobOnce, Dispatch
  PROVE  EachJobOnce'
  <1>1. /\ dispatched \in Nat /\ dispatched < Total /\ dispatched' = dispatched + 1
        /\ input' = Append(input, dispatched + 1)
        /\ UNCHANGED <<output, holds, status, lost>>
    BY DEF Dispatch, TypeOK, workerVars
  <1>2. dispatched + 1 \in Jobs
    BY <1>1, TestRunnerAssumption DEF Jobs, TestRunnerAssumption
  <1>3. /\ 1..(dispatched + 1) = (1..dispatched) \cup {dispatched + 1}
        /\ dispatched + 1 \notin 1..dispatched
    BY <1>1
  <1>4. dispatched + 1 # Break
    BY <1>2, TestRunnerAssumption DEF TestRunnerAssumption
  <1>5. dispatched + 1 \notin Queued(input)
    BY <1>3, <1>4 DEF EachJobOnce, Waiting
  <1>6. Queued(input') = Queued(input) \cup {dispatched + 1} /\ NoneTwice(input')
    BY <1>1, <1>2, <1>5, PlaceTypes, QueuedAppend
  <1>7. Waiting' = Waiting \cup {dispatched + 1}
    BY <1>4, <1>6 DEF Waiting, Queued
  <1>8. Ready' = Ready /\ Reported' = Reported /\ Held' = Held
    BY <1>1 DEF Ready, Queued, Reported, Held
  <1>9. NoneTwice(input)' /\ NoneTwice(output)'
    BY <1>1, <1>6, PlaceTypes DEF NoneTwice
  <1>10. \A u, v \in Workers : u # v /\ holds'[u] = holds'[v] => holds'[u] = NoJob
    BY <1>1 DEF EachJobOnce
  <1>q. QED
    BY <1>1, <1>3, <1>7, <1>8, <1>9, <1>10 DEF EachJobOnce

(* A break job is dispatched. *)
LEMMA DispatchBreakPlaces ==
  ASSUME TypeOK, EachJobOnce, DispatchBreak
  PROVE  EachJobOnce'
  <1>1. /\ input' = Append(input, Break)
        /\ UNCHANGED <<output, holds, status, lost, dispatched>>
    BY DEF DispatchBreak, workerVars
  <1>2. Queued(input') = Queued(input) \cup {Break} /\ NoneTwice(input')
    BY <1>1, PlaceTypes, QueuedAppend
  <1>3. Waiting' = Waiting
    BY <1>2 DEF Waiting, Queued
  <1>4. Ready' = Ready /\ Reported' = Reported /\ Held' = Held
    BY <1>1 DEF Ready, Queued, Reported, Held
  <1>5. NoneTwice(input)' /\ NoneTwice(output)'
    BY <1>1, <1>2, PlaceTypes DEF NoneTwice
  <1>6. \A u, v \in Workers : u # v /\ holds'[u] = holds'[v] => holds'[u] = NoJob
    BY <1>1 DEF EachJobOnce
  <1>q. QED
    BY <1>1, <1>3, <1>4, <1>5, <1>6 DEF EachJobOnce

(* Nothing moves. *)
LEMMA SamePlaces ==
  ASSUME EachJobOnce, UNCHANGED <<input, output, holds, status, lost, dispatched>>
  PROVE  EachJobOnce' /\ Ready' = Ready /\ Reported' = Reported
  <1>1. Ready' = Ready /\ Reported' = Reported
    BY DEF Ready, Queued, Reported
  <1>2. Waiting' = Waiting /\ Held' = Held
    BY DEF Waiting, Queued, Held
  <1>3. NoneTwice(input)' /\ NoneTwice(output)'
    BY DEF EachJobOnce, NoneTwice
  <1>4. \A u, v \in Workers : u # v /\ holds'[u] = holds'[v] => holds'[u] = NoJob
    BY DEF EachJobOnce
  <1>q. QED
    BY <1>1, <1>2, <1>3, <1>4 DEF EachJobOnce

-----------------------------------------------------------------------------
(* Types                                                                     *)

(* The initial states satisfy the invariant. *)
LEMMA InitInv == ASSUME Init PROVE RunnerInv
  <1>1. /\ Waiting = {} /\ Held = {} /\ Ready = {} /\ Reported = {}
    BY DEF Init, Waiting, Held, Ready, Reported, Queued
  <1>2. TypeOK
    <2>1. input \in Seq(Jobs \cup {Break}) /\ output \in Seq(Jobs)
      BY DEF Init
    <2>2. /\ at \in [Workers -> {"getting", "deciding", "running", "returned", "raised"}]
          /\ holds \in [Workers -> Jobs \cup {NoJob}]
          /\ \A w \in Workers : holds[w] = NoJob <=> at[w] \notin {"deciding", "running"}
      BY DEF Init
    <2>3. /\ returncode \in [Jobs -> 0..3]
          /\ file \in [Jobs -> {"none", "partial", "complete"}]
          /\ status \in [Jobs -> {"none", "ignored", "SKIP", "PASS", "FAIL", "VALGR", "CRASH"}]
      BY DEF Init
    <2>4. dispatched <= Total
      BY TestRunnerAssumption DEF Init, TestRunnerAssumption
    <2>5. {threadExit, success} \subseteq BOOLEAN
      BY DEF Init
    <2>6. /\ isBreak \subseteq Jobs /\ ran \subseteq Jobs /\ garbled \subseteq Jobs
          /\ lost \subseteq Jobs
      BY DEF Init
    <2>7. main \in {"dispatching", "collecting", "finished", "raised"}
      BY DEF Init
    <2>8. {dispatched, breaks, collected, passed, skipped} \subseteq Nat
      BY DEF Init
    <2>q. QED
      BY <2>1, <2>2, <2>3, <2>4, <2>5, <2>6, <2>7, <2>8 DEF TypeOK
  <1>3. NoneTwice(input) /\ NoneTwice(output)
    BY DEF Init, NoneTwice
  <1>4. EachJobOnce
    BY <1>1, <1>3 DEF Init, EachJobOnce
  <1>5. CollectedCounts
    BY <1>1, FS_EmptySet DEF Init, CollectedCounts
  <1>6. JobsWith("PASS") = {} /\ JobsWith("SKIP") = {}
    BY DEF Init, JobsWith
  <1>7. TalliesCount
    BY <1>6, FS_EmptySet DEF Init, TalliesCount
  <1>8. RanBefore
    BY <1>1 DEF Init, RanBefore
  <1>9. AllDispatched /\ SuccessMeans
    BY DEF Init, AllDispatched, SuccessMeans
  <1>q. QED
    BY <1>2, <1>4, <1>5, <1>7, <1>8, <1>9 DEF RunnerInv

(* What a job is reported as. *)
LEMMA OutcomeType ==
  ASSUME NEW j
  PROVE  Outcome(j) \in {"SKIP", "PASS", "FAIL", "VALGR", "CRASH"}
  BY DEF Outcome

(* Every step keeps the types. *)
LEMMA StepType == ASSUME RunnerInv, [Next]_vars PROVE TypeOK'
  <1>1. TypeOK /\ EachJobOnce /\ TestRunnerAssumption
    BY TestRunnerAssumption DEF RunnerInv
  <1>a. \A w \in Workers : at[w] \in {"deciding", "running"} => holds[w] \in Jobs
    BY <1>1 DEF TypeOK
  <1>b. ASSUME NEW w \in Workers, NEW where \in {"returned", "raised", "getting"}, Goes(w, where, NoJob)
        PROVE  /\ at' \in [Workers -> {"getting", "deciding", "running", "returned", "raised"}]
               /\ holds' \in [Workers -> Jobs \cup {NoJob}]
               /\ \A v \in Workers : holds'[v] = NoJob <=> at'[v] \notin {"deciding", "running"}
    BY <1>1, <1>b DEF TypeOK, Goes
  <1>c. ASSUME NEW w \in Workers, NEW where \in {"deciding", "running"}, NEW j \in Jobs, Goes(w, where, j)
        PROVE  /\ at' \in [Workers -> {"getting", "deciding", "running", "returned", "raised"}]
               /\ holds' \in [Workers -> Jobs \cup {NoJob}]
               /\ \A v \in Workers : holds'[v] = NoJob <=> at'[v] \notin {"deciding", "running"}
    BY <1>1, <1>c DEF TypeOK, Goes, TestRunnerAssumption
  <1>d. ASSUME NEW w \in Workers, at[w] \in {"deciding", "running"}, GiveBack(w)
        PROVE  output' \in Seq(Jobs)
    BY <1>1, <1>a, <1>d DEF TypeOK, GiveBack
  <1>2. ASSUME NEW w \in Workers, Get(w) PROVE TypeOK'
    <2>1. /\ Head(input) \in Jobs \cup {Break}
          /\ input' \in Seq(Jobs \cup {Break})
      BY <1>1, <1>2 DEF Get, TypeOK
    <2>2. CASE Head(input) = Break
      BY <1>1, <1>2, <1>b, <2>1, <2>2 DEF Get, TypeOK, mainVars
    <2>3. CASE Head(input) # Break
      BY <1>1, <1>2, <1>c, <2>1, <2>3 DEF Get, TypeOK, mainVars
    <2>q. QED
      BY <2>2, <2>3
  <1>3. ASSUME NEW w \in Workers, Refuse(w) PROVE TypeOK'
    <2>1. GiveBack(w) /\ output' \in Seq(Jobs)
      BY <1>3, <1>d DEF Refuse
    <2>2. isBreak' \subseteq Jobs
      BY <1>1, <1>3, <1>a DEF Refuse, SetIsBreak, TypeOK
    <2>q. QED
      BY <1>1, <1>3, <1>b, <2>1, <2>2 DEF Refuse, GiveBack, TypeOK, mainVars
  <1>4. ASSUME NEW w \in Workers, Skip(w) PROVE TypeOK'
    <2>1. GiveBack(w) /\ output' \in Seq(Jobs)
      BY <1>4, <1>d DEF Skip
    <2>q. QED
      BY <1>1, <1>4, <1>b, <2>1 DEF Skip, GiveBack, TypeOK, mainVars
  <1>5. ASSUME NEW w \in Workers, Launch(w) PROVE TypeOK'
    BY <1>1, <1>5, <1>a, <1>c DEF Launch, TypeOK, mainVars
  <1>6. ASSUME NEW w \in Workers, Complete(w) PROVE TypeOK'
    <2>1. GiveBack(w) /\ output' \in Seq(Jobs) /\ holds[w] \in Jobs
      BY <1>6, <1>a, <1>d DEF Complete
    <2>2. PICK code \in 0..3, decodes \in BOOLEAN :
            /\ returncode' = [returncode EXCEPT ![holds[w]] = ReturnCode(code, decodes)]
            /\ garbled' = IF decodes THEN garbled ELSE garbled \cup {holds[w]}
            /\ \E left \in FileLeft(holds[w], code) : file' = [file EXCEPT ![holds[w]] = left]
      BY <1>6 DEF Complete
    <2>3. returncode' \in [Jobs -> 0..3]
      <3>1. ReturnCode(code, decodes) \in 0..3
        BY DEF ReturnCode
      <3>q. QED
        BY <1>1, <2>2, <3>1 DEF TypeOK
    <2>4. file' \in [Jobs -> {"none", "partial", "complete"}]
      BY <1>1, <2>2 DEF TypeOK, FileLeft
    <2>5. garbled' \subseteq Jobs /\ ran' \subseteq Jobs
      BY <1>1, <1>6, <2>1, <2>2 DEF TypeOK, Complete
    <2>q. QED
      BY <1>1, <1>6, <1>b, <2>1, <2>3, <2>4, <2>5 DEF Complete, GiveBack, TypeOK, mainVars
  <1>7. ASSUME NEW w \in Workers, Raise(w) PROVE TypeOK'
    BY <1>1, <1>7, <1>a, <1>b DEF Raise, TypeOK, mainVars
  <1>8. CASE Interrupt
    BY <1>1, <1>8 DEF Interrupt, TypeOK, workerVars, mainVars
  <1>9. CASE Dispatch
    <2>1. dispatched + 1 \in Jobs
      BY <1>1, <1>9 DEF Dispatch, TypeOK, Jobs, TestRunnerAssumption
    <2>2. input' \in Seq(Jobs \cup {Break})
      BY <1>1, <1>9, <2>1 DEF Dispatch, TypeOK
    <2>3. dispatched' \in Nat /\ dispatched' <= Total
      BY <1>1, <1>9 DEF Dispatch, TypeOK, TestRunnerAssumption
    <2>q. QED
      BY <1>1, <1>9, <2>2, <2>3 DEF Dispatch, TypeOK, workerVars
  <1>10. CASE DispatchBreak
    <2>1. input' \in Seq(Jobs \cup {Break})
      BY <1>1, <1>10 DEF DispatchBreak, TypeOK
    <2>2. breaks' \in Nat /\ main' \in {"dispatching", "collecting", "finished", "raised"}
      BY <1>1, <1>10 DEF DispatchBreak, TypeOK
    <2>q. QED
      BY <1>1, <1>10, <2>1, <2>2 DEF DispatchBreak, TypeOK, workerVars
  <1>11. CASE CollectBreak
    <2>1. Head(output) \in Jobs /\ output' \in Seq(Jobs)
      BY <1>1, <1>11 DEF CollectBreak, TypeOK
    <2>2. collected' \in Nat
      BY <1>1, <1>11 DEF CollectBreak, TypeOK
    <2>q. QED
      BY <1>1, <1>11, <2>1, <2>2 DEF CollectBreak, TypeOK, workerVars
  <1>12. CASE Collect
    <2>1. Head(output) \in Jobs /\ output' \in Seq(Jobs)
      BY <1>1, <1>12 DEF Collect, TypeOK
    <2>2. {collected', passed', skipped'} \subseteq Nat
      BY <1>1, <1>12 DEF Collect, TypeOK
    <2>3. status' \in [Jobs -> {"none", "ignored", "SKIP", "PASS", "FAIL", "VALGR", "CRASH"}]
      BY <1>1, <1>12, <2>1, OutcomeType DEF Collect, TypeOK
    <2>4. main' \in {"dispatching", "collecting", "finished", "raised"}
      BY <1>1, <1>12 DEF Collect, TypeOK
    <2>q. QED
      BY <1>1, <1>12, <2>1, <2>2, <2>3, <2>4, SMTT(40) DEF Collect, TypeOK, workerVars
  <1>13. CASE Finish
    BY <1>1, <1>13 DEF Finish, TypeOK, workerVars
  <1>14. CASE UNCHANGED vars
    BY <1>1, <1>14 DEF TypeOK, vars, workerVars, mainVars
  <1>q. QED
    BY <1>2, <1>3, <1>4, <1>5, <1>6, <1>7, <1>8, <1>9, <1>10, <1>11, <1>12, <1>13, <1>14
    DEF Next, Main, Worker

-----------------------------------------------------------------------------
(* Steps of the workers                                                      *)

(* A job that is given back is marked, skipped or was run, and no return     *)
(* code of a reported job changes.                                           *)
LEMMA GiveBackStep ==
  ASSUME RunnerInv, NEW w \in Workers, at[w] \in {"deciding", "running"}, GiveBack(w),
         UNCHANGED <<input, lost, mainVars>>,
         isBreak \subseteq isBreak', ran \subseteq ran',
         holds[w] \in isBreak' \/ holds[w] \in Skipped \/ holds[w] \in ran',
         \A j \in Jobs : j # holds[w] => returncode'[j] = returncode[j]
  PROVE  EachJobOnce' /\ CollectedCounts' /\ AllDispatched' /\ TalliesCount' /\ RanBefore'
         /\ SuccessMeans'
  <1>1. TypeOK /\ EachJobOnce
    BY DEF RunnerInv
  <1>2. UNCHANGED <<main, dispatched, breaks, collected, passed, skipped, status, results, success>>
    BY DEF mainVars
  <1>3. /\ EachJobOnce'
        /\ holds[w] \in Held /\ holds[w] \in Jobs
        /\ Ready' = Ready \cup {holds[w]} /\ Reported' = Reported
    BY <1>1, <1>2, GiveBackPlaces
  <1>4. CollectedCounts' /\ AllDispatched' /\ SuccessMeans'
    BY <1>2, <1>3 DEF RunnerInv, CollectedCounts, AllDispatched, SuccessMeans
  <1>5. TalliesCount'
    BY <1>2 DEF RunnerInv, TalliesCount, JobsWith
  <1>6. \A j \in Ready' : j \in isBreak' \/ j \in Skipped \/ j \in ran'
    BY <1>3 DEF RunnerInv, RanBefore
  <1>7. ASSUME NEW j \in Jobs, status'[j] = "PASS" PROVE j \in ran' /\ returncode'[j] = 0
    <2>1. status[j] = "PASS" /\ j \in ran /\ returncode[j] = 0
      BY <1>2, <1>7 DEF RunnerInv, RanBefore
    <2>2. j \in Reported /\ j # holds[w]
      BY <1>1, <1>3, <2>1 DEF Reported, EachJobOnce
    <2>q. QED
      BY <2>1, <2>2
  <1>8. \A j \in Jobs : status'[j] = "SKIP" => j \in Skipped
    BY <1>2 DEF RunnerInv, RanBefore
  <1>9. RanBefore'
    BY <1>6, <1>7, <1>8 DEF RanBefore
  <1>q. QED
    BY <1>3, <1>4, <1>5, <1>9

(* A step that neither reports nor gives back a job. *)
LEMMA QuietStep ==
  ASSUME RunnerInv, EachJobOnce',
         UNCHANGED <<output, isBreak, ran, returncode, main, collected, passed, skipped,
                     status, success>>,
         main = "dispatching" \/ dispatched' = dispatched
  PROVE  CollectedCounts' /\ AllDispatched' /\ TalliesCount' /\ RanBefore' /\ SuccessMeans'
  <1>1. Ready' = Ready /\ Reported' = Reported
    BY DEF Ready, Queued, Reported
  <1>2. CollectedCounts' /\ AllDispatched' /\ SuccessMeans'
    BY <1>1 DEF RunnerInv, CollectedCounts, AllDispatched, SuccessMeans
  <1>3. TalliesCount'
    BY DEF RunnerInv, TalliesCount, JobsWith
  <1>4. RanBefore'
    BY <1>1 DEF RunnerInv, RanBefore
  <1>q. QED
    BY <1>2, <1>3, <1>4

(* Every step of a worker keeps the invariant. *)
LEMMA WorkerInv == ASSUME RunnerInv, NEW w \in Workers, Worker(w) PROVE RunnerInv'
  <1>1. TypeOK /\ EachJobOnce
    BY DEF RunnerInv
  <1>2. TypeOK'
    BY StepType DEF Next
  <1>3. CASE Get(w)
    <2>1. EachJobOnce'
      BY <1>1, <1>3, GetPlaces
    <2>q. QED
      BY <1>2, <1>3, <2>1, QuietStep DEF Get, mainVars, RunnerInv
  <1>4. CASE Refuse(w)
    <2>1. /\ isBreak' = isBreak \cup {holds[w]}
          /\ at[w] \in {"deciding", "running"} /\ GiveBack(w)
          /\ UNCHANGED <<input, lost, mainVars, ran, returncode>>
      BY <1>4 DEF Refuse, SetIsBreak
    <2>q. QED
      BY <1>2, <2>1, GiveBackStep DEF RunnerInv
  <1>5. CASE Skip(w)
    <2>1. /\ holds[w] \in Skipped
          /\ at[w] \in {"deciding", "running"} /\ GiveBack(w)
          /\ UNCHANGED <<input, lost, mainVars, ran, returncode, isBreak>>
      BY <1>5 DEF Skip
    <2>q. QED
      BY <1>2, <2>1, GiveBackStep DEF RunnerInv
  <1>6. CASE Launch(w)
    <2>1. UNCHANGED <<input, output, status, lost, dispatched>>
      BY <1>6 DEF Launch, mainVars
    <2>2. holds' = holds
      BY <1>1, <1>6 DEF Launch, Goes, TypeOK
    <2>3. EachJobOnce'
      BY <1>1, <2>1, <2>2, SamePlaces
    <2>q. QED
      BY <1>2, <1>6, <2>3, QuietStep DEF Launch, mainVars, RunnerInv
  <1>7. CASE Complete(w)
    <2>1. /\ ran' = ran \cup {holds[w]}
          /\ at[w] \in {"deciding", "running"} /\ GiveBack(w)
          /\ UNCHANGED <<input, lost, mainVars, isBreak>>
      BY <1>7 DEF Complete
    <2>2. \A j \in Jobs : j # holds[w] => returncode'[j] = returncode[j]
      BY <1>1, <1>7 DEF Complete, TypeOK
    <2>q. QED
      BY <1>2, <2>1, <2>2, GiveBackStep DEF RunnerInv
  <1>8. CASE Raise(w)
    <2>1. EachJobOnce'
      BY <1>1, <1>8, RaisePlaces
    <2>q. QED
      BY <1>2, <1>8, <2>1, QuietStep DEF Raise, mainVars, RunnerInv
  <1>q. QED
    BY <1>3, <1>4, <1>5, <1>6, <1>7, <1>8 DEF Worker

-----------------------------------------------------------------------------
(* Steps of the main thread                                                  *)

(* One more job is reported: one more result, and a tally if the verdict has *)
(* one.                                                                      *)
LEMMA ReportCounts ==
  ASSUME RunnerInv, NEW j \in Jobs, j \notin Reported, NEW verdict, verdict # "none",
         status' = [status EXCEPT ![j] = verdict], collected' = collected + 1,
         Reported' = Reported \cup {j},
         passed' = passed + (IF verdict = "PASS" THEN 1 ELSE 0),
         skipped' = skipped + (IF verdict = "SKIP" THEN 1 ELSE 0)
  PROVE  CollectedCounts' /\ TalliesCount'
  <1>1. IsFiniteSet(Jobs)
    BY TestRunnerAssumption, FS_Interval DEF Jobs, TestRunnerAssumption
  <1>2. status[j] = "none" /\ status \in [Jobs -> {"none", "ignored", "SKIP", "PASS", "FAIL", "VALGR", "CRASH"}]
    BY DEF Reported, RunnerInv, TypeOK
  <1>3. Reported \in SUBSET Jobs
    BY DEF Reported
  <1>4. CollectedCounts'
    <2>1. IsFiniteSet(Reported)
      BY <1>1, <1>3, FS_Subset
    <2>2. Cardinality(Reported \cup {j}) = Cardinality(Reported) + 1
      BY <2>1, FS_AddElement
    <2>q. QED
      BY <2>2 DEF CollectedCounts, RunnerInv
  <1>5. ASSUME NEW v \in {"PASS", "SKIP"}
        PROVE  Cardinality(JobsWith(v)') = Cardinality(JobsWith(v)) + (IF verdict = v THEN 1 ELSE 0)
    <2>1. JobsWith(v) \in SUBSET Jobs /\ j \notin JobsWith(v)
      BY <1>2 DEF JobsWith
    <2>2. IsFiniteSet(JobsWith(v))
      BY <1>1, <2>1, FS_Subset
    <2>3. Cardinality(JobsWith(v)) \in Nat
      BY <2>2, FS_CardinalityType
    <2>4. CASE verdict = v
      <3>1. JobsWith(v)' = JobsWith(v) \cup {j}
        BY <1>2, <2>4 DEF JobsWith
      <3>q. QED
        BY <2>1, <2>2, <2>4, <3>1, FS_AddElement
    <2>5. CASE verdict # v
      <3>1. JobsWith(v)' = JobsWith(v)
        BY <1>2, <2>5 DEF JobsWith
      <3>q. QED
        BY <2>3, <2>5, <3>1
    <2>q. QED
      BY <2>4, <2>5
  <1>6. TalliesCount'
    BY <1>5 DEF TalliesCount, RunnerInv
  <1>q. QED
    BY <1>4, <1>6

(* Every step of the main thread keeps the invariant. *)
LEMMA MainInv == ASSUME RunnerInv, Main PROVE RunnerInv'
  <1>1. TypeOK /\ EachJobOnce
    BY DEF RunnerInv
  <1>2. TypeOK'
    BY StepType DEF Next
  <1>3. CASE Dispatch
    <2>1. EachJobOnce'
      BY <1>1, <1>3, DispatchPlaces
    <2>q. QED
      BY <1>2, <1>3, <2>1, QuietStep DEF Dispatch, workerVars, RunnerInv
  <1>4. CASE DispatchBreak
    <2>1. EachJobOnce'
      BY <1>1, <1>4, DispatchBreakPlaces
    <2>2. Ready' = Ready /\ Reported' = Reported
      BY <1>4 DEF DispatchBreak, Ready, Queued, Reported, workerVars
    <2>3. /\ main = "dispatching" /\ dispatched = Total
          /\ UNCHANGED <<isBreak, ran, returncode, dispatched, collected, passed, skipped, status, success>>
      BY <1>4 DEF DispatchBreak, workerVars
    <2>4. CollectedCounts' /\ AllDispatched' /\ SuccessMeans'
      BY <2>2, <2>3 DEF RunnerInv, CollectedCounts, AllDispatched, SuccessMeans
    <2>5. TalliesCount'
      BY <2>3 DEF RunnerInv, TalliesCount, JobsWith
    <2>6. RanBefore'
      BY <2>2, <2>3 DEF RunnerInv, RanBefore
    <2>q. QED
      BY <1>2, <2>1, <2>4, <2>5, <2>6 DEF RunnerInv
  <1>5. CASE CollectBreak
    <2>1. /\ output # <<>> /\ output' = Tail(output) /\ main = "collecting"
          /\ status' = [status EXCEPT ![Head(output)] = "ignored"]
          /\ collected' = collected + 1
          /\ UNCHANGED <<input, holds, lost, dispatched, isBreak, ran, returncode, main,
                         passed, skipped, success>>
      BY <1>5 DEF CollectBreak, workerVars
    <2>2. /\ EachJobOnce' /\ Head(output) \in Jobs /\ Ready' \subseteq Ready
          /\ Head(output) \notin Reported /\ Reported' = Reported \cup {Head(output)}
      BY <1>1, <2>1, CollectPlaces
    <2>3. passed \in Nat /\ skipped \in Nat
      BY <1>1 DEF TypeOK
    <2>4. CollectedCounts' /\ TalliesCount'
      <3>1. /\ passed' = passed + (IF "ignored" = "PASS" THEN 1 ELSE 0)
            /\ skipped' = skipped + (IF "ignored" = "SKIP" THEN 1 ELSE 0)
        BY <2>1, <2>3
      <3>q. QED
        BY <2>1, <2>2, <3>1, ReportCounts
    <2>5. RanBefore'
      BY <1>1, <2>1, <2>2 DEF RunnerInv, RanBefore, TypeOK
    <2>6. AllDispatched' /\ SuccessMeans'
      BY <2>1 DEF RunnerInv, AllDispatched, SuccessMeans
    <2>q. QED
      BY <1>2, <2>2, <2>4, <2>5, <2>6 DEF RunnerInv
  <1>6. CASE Collect
    <2>1. /\ output # <<>> /\ output' = Tail(output) /\ main = "collecting"
          /\ Head(output) \notin isBreak
          /\ status' = [status EXCEPT ![Head(output)] = Outcome(Head(output))]
          /\ collected' = collected + 1
          /\ passed' = passed + (IF Outcome(Head(output)) = "PASS" THEN 1 ELSE 0)
          /\ skipped' = skipped + (IF Outcome(Head(output)) = "SKIP" THEN 1 ELSE 0)
          /\ UNCHANGED <<input, holds, lost, dispatched, isBreak, ran, returncode, success>>
      BY <1>6 DEF Collect, workerVars
    <2>2. Outcome(Head(output)) # "none"
      BY OutcomeType
    <2>3. /\ EachJobOnce' /\ Head(output) \in Jobs /\ Head(output) \in Ready /\ Ready' \subseteq Ready
          /\ Head(output) \notin Reported /\ Reported' = Reported \cup {Head(output)}
      BY <1>1, <2>1, <2>2, CollectPlaces
    <2>4. CollectedCounts' /\ TalliesCount'
      BY <2>1, <2>2, <2>3, ReportCounts
    <2>5. RanBefore'
      <3>1. Outcome(Head(output)) = "PASS" => Head(output) \notin Skipped /\ returncode[Head(output)] = 0
        BY DEF Outcome
      <3>2. Outcome(Head(output)) = "SKIP" => Head(output) \in Skipped
        BY DEF Outcome
      <3>3. Head(output) \in Skipped \/ Head(output) \in ran
        BY <2>1, <2>3 DEF RunnerInv, RanBefore
      <3>4. \A j \in Jobs : status'[j] = (IF j = Head(output) THEN Outcome(j) ELSE status[j])
        BY <1>1, <2>1, <2>3 DEF TypeOK
      <3>5. \A j \in Jobs : status'[j] = "PASS" => j \in ran' /\ returncode'[j] = 0
        BY <2>1, <3>1, <3>3, <3>4 DEF RunnerInv, RanBefore
      <3>6. \A j \in Jobs : status'[j] = "SKIP" => j \in Skipped
        BY <3>2, <3>4 DEF RunnerInv, RanBefore
      <3>7. \A j \in Ready' : j \in isBreak' \/ j \in Skipped \/ j \in ran'
        BY <2>1, <2>3 DEF RunnerInv, RanBefore
      <3>q. QED
        BY <3>5, <3>6, <3>7 DEF RanBefore
    <2>6. AllDispatched' /\ SuccessMeans'
      BY <2>1 DEF RunnerInv, AllDispatched, SuccessMeans
    <2>q. QED
      BY <1>2, <2>3, <2>4, <2>5, <2>6 DEF RunnerInv
  <1>7. CASE Finish
    <2>1. /\ main = "collecting" /\ main' \in {"finished", "raised"} /\ collected = dispatched
          /\ UNCHANGED <<input, output, holds, isBreak, ran, returncode, lost, dispatched,
                         collected, passed, skipped, status>>
      BY <1>7 DEF Finish, workerVars
    <2>2. EachJobOnce' /\ Ready' = Ready /\ Reported' = Reported
      BY <1>1, <2>1, SamePlaces
    <2>3. CollectedCounts' /\ AllDispatched'
      BY <2>1, <2>2 DEF RunnerInv, CollectedCounts, AllDispatched
    <2>4. TalliesCount' /\ JobsWith("PASS")' = JobsWith("PASS")
      BY <2>1 DEF RunnerInv, TalliesCount, JobsWith
    <2>5. RanBefore'
      BY <2>1, <2>2 DEF RunnerInv, RanBefore
    <2>6. ASSUME success' PROVE main' = "finished" /\ \A j \in Jobs : status[j] \in {"PASS", "SKIP"}
      <3>1. main' = "finished" /\ passed + skipped = dispatched
        BY <1>7, <2>1, <2>6 DEF Finish, RunnerInv, SuccessMeans
      <3>2. dispatched = Total
        BY <2>1 DEF RunnerInv, AllDispatched
      <3>3. IsFiniteSet(Jobs) /\ Cardinality(Jobs) = Total
        BY TestRunnerAssumption, FS_Interval DEF Jobs, TestRunnerAssumption
      <3>4. JobsWith("PASS") \in SUBSET Jobs /\ JobsWith("SKIP") \in SUBSET Jobs
        BY DEF JobsWith
      <3>5. IsFiniteSet(JobsWith("PASS")) /\ IsFiniteSet(JobsWith("SKIP"))
        BY <3>3, <3>4, FS_Subset
      <3>6. JobsWith("PASS") \cap JobsWith("SKIP") = {}
        BY DEF JobsWith
      <3>7. Cardinality(JobsWith("PASS") \cup JobsWith("SKIP")) = passed + skipped - 0
        BY <3>5, <3>6, FS_Union, FS_EmptySet DEF RunnerInv, TalliesCount
      <3>8. Cardinality(JobsWith("PASS") \cup JobsWith("SKIP")) = Cardinality(Jobs)
        BY <1>1, <3>1, <3>2, <3>3, <3>7 DEF TypeOK
      <3>9. JobsWith("PASS") \cup JobsWith("SKIP") = Jobs
        BY <3>3, <3>4, <3>8, FS_Subset
      <3>q. QED
        BY <3>1, <3>9 DEF JobsWith
    <2>7. SuccessMeans'
      BY <2>1, <2>6 DEF SuccessMeans
    <2>q. QED
      BY <1>2, <2>2, <2>3, <2>4, <2>5, <2>7 DEF RunnerInv
  <1>q. QED
    BY <1>3, <1>4, <1>5, <1>6, <1>7 DEF Main

(* The invariant is inductive. *)
LEMMA StepInv == ASSUME RunnerInv, [Next]_vars PROVE RunnerInv'
  <1>1. CASE Main
    BY <1>1, MainInv
  <1>2. CASE \E w \in Workers : Worker(w)
    BY <1>2, WorkerInv
  <1>3. CASE Interrupt \/ UNCHANGED vars
    <2>1. TypeOK'
      BY StepType
    <2>2. UNCHANGED <<input, output, workerVars, mainVars>>
      BY <1>3 DEF Interrupt, vars
    <2>3. EachJobOnce'
      BY <2>2, SamePlaces DEF RunnerInv, workerVars, mainVars
    <2>q. QED
      BY <2>1, <2>2, <2>3, QuietStep DEF workerVars, mainVars, RunnerInv
  <1>q. QED
    BY <1>1, <1>2, <1>3 DEF Next

(* When as many results were taken as jobs dispatched, all are reported.     *)
LEMMA CollectedAll ==
  ASSUME RunnerInv, main # "dispatching", collected = dispatched
  PROVE  Reported = Jobs
  <1>1. Cardinality(Reported) = Total
    BY DEF RunnerInv, CollectedCounts, AllDispatched
  <1>2. IsFiniteSet(Jobs) /\ Cardinality(Jobs) = Total
    BY TestRunnerAssumption, FS_Interval DEF Jobs, TestRunnerAssumption
  <1>3. Reported \in SUBSET Jobs
    BY DEF Reported
  <1>q. QED
    BY <1>1, <1>2, <1>3, FS_Subset

(* The invariant implies AllReported. *)
LEMMA InvAllReported == ASSUME RunnerInv PROVE AllReported
  <1>1. SUFFICES ASSUME main \in {"collecting", "finished"}, collected = dispatched, dispatched = dispatched
                 PROVE  Reported = Jobs /\ output = <<>> /\ Waiting = {}
    BY DEF AllReported
  <1>2. Reported = Jobs
    BY <1>1, CollectedAll
  <1>3. output \in Seq(Jobs) /\ input \in Seq(Jobs \cup {Break}) /\ EachJobOnce
    BY DEF RunnerInv, TypeOK
  <1>4. output = <<>>
    <2>1. SUFFICES ASSUME output # <<>> PROVE FALSE
      OBVIOUS
    <2>2. Head(output) \in Jobs /\ Queued(output) = Queued(Tail(output)) \cup {Head(output)}
      BY <1>3, <2>1, QueuedTail
    <2>q. QED
      BY <1>2, <1>3, <2>2 DEF EachJobOnce, Ready
  <1>5. Waiting = {}
    <2>1. Queued(input) \subseteq Jobs \cup {Break}
      BY <1>3 DEF Queued
    <2>q. QED
      BY <1>2, <1>3, <2>1 DEF EachJobOnce, Waiting
  <1>q. QED
    BY <1>2, <1>4, <1>5

(* Every variable of the runner keeps its type. *)
THEOREM TypeCorrect == Spec => []TypeOK
  <1>1. RunnerInv => TypeOK
    BY DEF RunnerInv
  <1>q. QED
    BY <1>1, InitInv, StepInv, PTL DEF Spec

(* No job is run twice, reported twice or forgotten, for any number of       *)
(* workers and jobs and whatever SIGINT and exceptions do (worker_thread.run,*)
(* run_tests).                                                               *)
THEOREM JobsCorrect == Spec => []EachJobOnce
  <1>1. RunnerInv => EachJobOnce
    BY DEF RunnerInv
  <1>q. QED
    BY <1>1, InitInv, StepInv, PTL DEF Spec

(* The loop of run_tests that counts results ends only when every job has    *)
(* been reported.                                                            *)
THEOREM ReportCorrect == Spec => []AllReported
  BY InitInv, StepInv, InvAllReported, PTL DEF Spec

(* run_tests returns 0 only if every job was skipped or did run and pass,    *)
(* although Job.returncode starts as one that passed.                        *)
THEOREM SuccessCorrect == Spec => []SuccessIsReal
  <1>1. RunnerInv => SuccessIsReal
    BY DEF RunnerInv, SuccessMeans, RanBefore, SuccessIsReal
  <1>q. QED
    BY <1>1, InitInv, StepInv, PTL DEF Spec

-----------------------------------------------------------------------------
(* What is wrong with the results                                            *)

(* A suite whose crash goes unnoticed: what it printed cannot be decoded, so *)
(* its return code became that of a failed test.                             *)
Unnoticed(j) == j \in garbled /\ j \in Suites /\ returncode[j] = 1

(* A suite that was run and does not count as crashed left a complete file,  *)
(* or its crash went unnoticed.                                              *)
FilesLeft ==
  \A j \in ran \cap Suites :
    returncode[j] \in 0..2 => file[j] = "complete" \/ Unnoticed(j)

(* The entries that were written. *)
EntriesType == results \in Seq([job : Jobs, what : {"partial", "complete", "SKIP", "PASS", "FAIL", "VALGR", "CRASH"}])

(* A missing or malformed result was reported for such a suite. *)
CulpritReported == main = "raised" \/ Malformed => \E j \in Reported : Unnoticed(j)

(* The inductive invariant. *)
CorruptInv == RunnerInv /\ FilesLeft /\ EntriesType /\ CulpritReported

(* What the run checks follows. *)
LEMMA InvCorrupt == ASSUME CorruptInv PROVE CorruptOnlyGarbled
  BY DEF CorruptInv, CulpritReported, Unnoticed, CorruptOnlyGarbled

(* The initial states satisfy the invariant. *)
LEMMA InitCorrupt == ASSUME Init PROVE CorruptInv
  <1>1. results = <<>> /\ ran = {} /\ main = "dispatching"
    BY DEF Init
  <1>2. EntriesType
    BY <1>1 DEF EntriesType
  <1>3. FilesLeft
    BY <1>1 DEF FilesLeft
  <1>4. CulpritReported
    BY <1>1 DEF CulpritReported, Malformed
  <1>q. QED
    BY <1>2, <1>3, <1>4, InitInv DEF CorruptInv

(* A step that runs no job and writes no result. *)
LEMMA QuietCorrupt ==
  ASSUME CorruptInv, RunnerInv',
         UNCHANGED <<returncode, file, ran, garbled, results>>,
         main' = "raised" => main = "raised" \/ Malformed,
         Reported \subseteq Reported'
  PROVE  CorruptInv'
  <1>1. FilesLeft'
    BY DEF CorruptInv, FilesLeft, Unnoticed
  <1>2. EntriesType'
    BY DEF CorruptInv, EntriesType
  <1>3. CulpritReported'
    BY DEF CorruptInv, CulpritReported, Unnoticed, Malformed
  <1>q. QED
    BY <1>1, <1>2, <1>3 DEF CorruptInv

(* A child process ends: what its suite leaves fits its return code, and no  *)
(* job that was reported is run again.                                       *)
LEMMA CompleteCorrupt ==
  ASSUME CorruptInv, RunnerInv', NEW w \in Workers, Complete(w)
  PROVE  CorruptInv'
  <1> DEFINE j == holds[w]
  <1>1. /\ TypeOK /\ EachJobOnce
        /\ at[w] \in {"deciding", "running"} /\ GiveBack(w)
        /\ UNCHANGED <<input, threadExit, isBreak, lost, main, dispatched, breaks, collected,
                       passed, skipped, status, results, success>>
    BY DEF CorruptInv, RunnerInv, Complete, mainVars
  <1>2. j \in Jobs /\ j \in Held /\ Reported' = Reported
    BY <1>1, GiveBackPlaces
  <1>3. j \notin Reported
    BY <1>1, <1>2 DEF EachJobOnce
  <1>4. PICK code \in 0..3, decodes \in BOOLEAN :
          /\ returncode' = [returncode EXCEPT ![j] = ReturnCode(code, decodes)]
          /\ garbled' = IF decodes THEN garbled ELSE garbled \cup {j}
          /\ \E left \in FileLeft(j, code) : file' = [file EXCEPT ![j] = left]
    BY DEF Complete
  <1>5. ran' = ran \cup {j}
    BY DEF Complete
  <1>6. PICK left \in FileLeft(j, code) : file' = [file EXCEPT ![j] = left]
    BY <1>4
  <1>7. /\ returncode'[j] = ReturnCode(code, decodes) /\ file'[j] = left
        /\ garbled \subseteq garbled'
        /\ \A k \in Jobs : k # j => returncode'[k] = returncode[k] /\ file'[k] = file[k]
    <2>1. returncode \in [Jobs -> 0..3] /\ file \in [Jobs -> {"none", "partial", "complete"}]
      BY <1>1 DEF TypeOK
    <2>q. QED
      BY <1>2, <1>4, <1>6, <2>1
  <1>8. Suites \subseteq Jobs
    BY TestRunnerAssumption DEF TestRunnerAssumption
  <1>9. FilesLeft'
    <2>1. SUFFICES ASSUME NEW k \in ran' \cap Suites, returncode'[k] \in 0..2
                   PROVE  file'[k] = "complete" \/ Unnoticed(k)'
      BY DEF FilesLeft
    <2>2. CASE k # j
      BY <1>5, <1>7, <1>8, <2>1, <2>2 DEF CorruptInv, FilesLeft, Unnoticed
    <2>3. CASE k = j /\ decodes
      <3>1. code \in 0..2
        BY <1>7, <2>1, <2>3 DEF ReturnCode
      <3>2. left = "complete"
        BY <1>6, <2>1, <2>3, <3>1 DEF FileLeft
      <3>q. QED
        BY <1>7, <2>3, <3>2
    <2>4. CASE k = j /\ ~decodes
      BY <1>4, <1>7, <2>1, <2>4 DEF ReturnCode, Unnoticed
    <2>q. QED
      BY <2>2, <2>3, <2>4
  <1>10. EntriesType'
    BY <1>1 DEF CorruptInv, EntriesType
  <1>11. CulpritReported'
    <2>1. \A k \in Reported : Unnoticed(k) => Unnoticed(k)'
      BY <1>3, <1>7 DEF Unnoticed, Reported
    <2>q. QED
      BY <1>1, <1>2, <2>1 DEF CorruptInv, CulpritReported, Malformed
  <1>q. QED
    BY <1>9, <1>10, <1>11 DEF CorruptInv

(* A result is written, or its file is missing. *)
LEMMA CollectCorrupt == ASSUME CorruptInv, RunnerInv', Collect PROVE CorruptInv'
  <1> DEFINE j == Head(output)
  <1>1. /\ TypeOK /\ EachJobOnce /\ RanBefore
        /\ output # <<>> /\ output' = Tail(output) /\ j \notin isBreak
        /\ status' = [status EXCEPT ![j] = Outcome(j)]
        /\ main = "collecting"
        /\ UNCHANGED <<input, holds, lost, dispatched, returncode, file, ran, garbled>>
    BY DEF CorruptInv, RunnerInv, Collect, workerVars
  <1>2. Outcome(j) \in {"SKIP", "PASS", "FAIL", "VALGR", "CRASH"}
    BY OutcomeType
  <1>3. j \in Ready /\ j \in Jobs /\ Reported' = Reported \cup {j}
    BY <1>1, <1>2, CollectPlaces
  <1>4. j \in Skipped \/ j \in ran
    BY <1>1, <1>3 DEF RanBefore
  <1>5. file[j] \in {"none", "partial", "complete"}
    BY <1>1, <1>3 DEF TypeOK
  <1>6. \/ Entry(j) \in {"complete", "SKIP", "PASS", "FAIL", "VALGR", "CRASH"}
        \/ Entry(j) \in {"none", "partial"} /\ Unnoticed(j)
    <2>1. CASE j \in Suites \ Skipped /\ returncode[j] \in 0..2
      <3>1. Entry(j) = file[j] /\ j \in ran \cap Suites
        BY <1>4, <2>1 DEF Entry
      <3>2. file[j] = "complete" \/ Unnoticed(j)
        BY <2>1, <3>1 DEF CorruptInv, FilesLeft
      <3>q. QED
        BY <1>5, <3>1, <3>2
    <2>2. CASE ~(j \in Suites \ Skipped /\ returncode[j] \in 0..2)
      <3>1. Entry(j) = Outcome(j)
        BY <2>2, Zenon DEF Entry
      <3>q. QED
        BY <1>2, <3>1
    <2>q. QED
      BY <2>1, <2>2
  <1>7. FilesLeft'
    BY <1>1 DEF CorruptInv, FilesLeft, Unnoticed
  <1>8. Unnoticed(j) => CulpritReported'
    BY <1>1, <1>3 DEF CulpritReported, Unnoticed
  <1>9. CASE Entry(j) = "none"
    <2>1. results' = results
      BY <1>9 DEF Collect
    <2>q. QED
      BY <1>6, <1>7, <1>8, <1>9, <2>1 DEF CorruptInv, EntriesType
  <1>10. CASE Entry(j) # "none"
    <2>1. results' = Append(results, [job |-> j, what |-> Entry(j)]) /\ main' = main
      BY <1>10 DEF Collect
    <2>2. EntriesType'
      <3>1. [job |-> j, what |-> Entry(j)] \in
              [job : Jobs, what : {"partial", "complete", "SKIP", "PASS", "FAIL", "VALGR", "CRASH"}]
        BY <1>3, <1>6, <1>10
      <3>q. QED
        BY <2>1, <3>1 DEF CorruptInv, EntriesType
    <2>3. CulpritReported'
      <3>1. CASE Unnoticed(j)
        BY <1>8, <3>1
      <3>2. CASE ~Unnoticed(j)
        <4>1. Entry(j) # "partial"
          BY <1>6, <3>2
        <4>2. Malformed' => Malformed
          <5>1. SUFFICES ASSUME NEW i \in 1..Len(results'), results'[i].what = "partial"
                         PROVE  Malformed
            BY DEF Malformed
          <5>2. /\ Len(results) \in Nat /\ Len(results') = Len(results) + 1
                /\ results'[Len(results) + 1] = [job |-> j, what |-> Entry(j)]
                /\ \A k \in 1..Len(results) : results'[k] = results[k]
            BY <2>1 DEF CorruptInv, EntriesType
          <5>3. i \in 1..Len(results)
            BY <4>1, <5>1, <5>2
          <5>q. QED
            BY <5>1, <5>2, <5>3 DEF Malformed
        <4>3. \A k \in Reported : Unnoticed(k) => Unnoticed(k)'
          BY <1>1 DEF Unnoticed
        <4>q. QED
          BY <1>3, <2>1, <4>2, <4>3 DEF CorruptInv, CulpritReported
      <3>q. QED
        BY <3>1, <3>2
    <2>q. QED
      BY <1>7, <2>2, <2>3 DEF CorruptInv
  <1>q. QED
    BY <1>9, <1>10

(* Every step keeps the invariant. *)
LEMMA StepCorrupt == ASSUME CorruptInv, [Next]_vars PROVE CorruptInv'
  <1>1. RunnerInv' /\ TypeOK /\ EachJobOnce
    BY StepInv DEF CorruptInv, RunnerInv
  <1>2. CASE Collect
    BY <1>1, <1>2, CollectCorrupt
  <1>3. CASE \E w \in Workers : Complete(w)
    BY <1>1, <1>3, CompleteCorrupt
  <1>4. CASE \/ \E w \in Workers : Get(w) \/ Refuse(w) \/ Skip(w) \/ Launch(w) \/ Raise(w)
             \/ Interrupt \/ Dispatch \/ Finish \/ UNCHANGED vars
    <2>1. UNCHANGED <<returncode, file, ran, garbled, results, status>>
      BY <1>4 DEF Get, Refuse, Skip, Launch, Raise, Interrupt, Dispatch, Finish,
                  vars, workerVars, mainVars
    <2>2. main' = "raised" => main = "raised" \/ Malformed
      BY <1>4 DEF Get, Refuse, Skip, Launch, Raise, Interrupt, Dispatch, Finish,
                  vars, mainVars
    <2>3. Reported' = Reported
      BY <2>1 DEF Reported
    <2>q. QED
      BY <1>1, <2>1, <2>2, <2>3, QuietCorrupt
  <1>5. CASE DispatchBreak
    <2>1. /\ UNCHANGED <<returncode, file, ran, garbled, results, status>>
          /\ main' = "raised" => main = "raised"
      BY <1>5 DEF DispatchBreak, workerVars
    <2>2. Reported' = Reported
      BY <2>1 DEF Reported
    <2>q. QED
      BY <1>1, <2>1, <2>2, QuietCorrupt
  <1>6. CASE CollectBreak
    <2>1. /\ UNCHANGED <<returncode, file, ran, garbled, results, main, input, holds, lost, dispatched>>
          /\ output # <<>> /\ output' = Tail(output)
          /\ status' = [status EXCEPT ![Head(output)] = "ignored"]
      BY <1>6 DEF CollectBreak, workerVars
    <2>2. Reported \subseteq Reported'
      BY <1>1, <2>1, CollectPlaces
    <2>q. QED
      BY <1>1, <2>1, <2>2, QuietCorrupt
  <1>q. QED
    BY <1>2, <1>3, <1>4, <1>5, <1>6 DEF Next, Main, Worker

(* The results are missing or malformed only if a suite crashed while it     *)
(* printed something that cannot be decoded (run_job_synchronously), for any *)
(* jobs and workers.                                                         *)
THEOREM CorruptCorrect == Spec => []CorruptOnlyGarbled
  BY InitCorrupt, StepCorrupt, InvCorrupt, PTL DEF Spec
=============================================================================
