------------------------------ MODULE TestRunner ------------------------------
(***************************************************************************)
(* test.py: the main thread dispatches the test suites and examples to a   *)
(* pool of worker threads through a queue, follows them with one break job *)
(* for each worker, and then collects as many results as it dispatched     *)
(* jobs, writing them into one XML file.  A worker runs each job as a      *)
(* child process; SIGINT sets the global thread_exit, after which workers  *)
(* hand jobs back without running them.                                    *)
(*                                                                         *)
(* A child process is seen through its exit code (0 passed, 1 failed, 2 an *)
(* error found by valgrind, 3 for any other), the results file a suite     *)
(* writes, and whether what it printed can be decoded.                     *)
(***************************************************************************)
EXTENDS Naturals, Sequences, FiniteSets

CONSTANTS
  Workers,       (* the worker threads, one per processor                    *)
  Total,         (* how many suites and examples are dispatched              *)
  Suites,        (* which of them are suites: the others are examples        *)
  Skipped,       (* which of them are dispatched with is_skip                *)
  Break,         (* a job made to tell a worker to return                    *)
  NoJob,         (* a worker has no job                                      *)
  MayRaise       (* starting a child process may raise an exception          *)

Jobs == 1..Total

ASSUME TestRunnerAssumption ==
  /\ Total \in Nat
  /\ IsFiniteSet(Workers) /\ Workers # {}
  /\ Suites \subseteq Jobs /\ Skipped \subseteq Jobs
  /\ Break \notin Jobs /\ NoJob \notin Jobs
  /\ MayRaise \in BOOLEAN

VARIABLES
  input, output, (* input_queue and output_queue                             *)
  at,            (* what each worker is doing                                *)
  holds,         (* the job each worker has taken                            *)
  threadExit,    (* thread_exit                                              *)
  isBreak,       (* the jobs that were given back with is_break set          *)
  returncode,    (* Job.returncode of each job                               *)
  file,          (* what is in tmp_file_name of each job                     *)
  main,          (* what the main thread is doing                            *)
  dispatched,    (* jobs, the number of jobs put into the input queue        *)
  breaks,        (* how many break jobs were put into it                     *)
  collected,     (* how often the loop over the results went round           *)
  passed,        (* passed_tests                                             *)
  skipped,       (* skipped_tests                                            *)
  status,        (* what was printed for each job                            *)
  results,       (* the entries of xml_results_file                          *)
  success,       (* run_tests returned 0                                     *)
  ran,           (* history: the jobs whose child process ran to its end     *)
  garbled,       (* history: those whose output could not be decoded         *)
  lost           (* history: the jobs whose worker died of an exception      *)

workerVars == <<at, holds, isBreak, returncode, file, ran, garbled, lost>>
mainVars   == <<main, dispatched, breaks, collected, passed, skipped, status,
                results, success>>
vars       == <<input, output, threadExit, workerVars, mainVars>>

(* Job.__init__: returncode is False, which equals 0. *)
Init ==
  /\ input = <<>> /\ output = <<>>
  /\ at = [w \in Workers |-> "getting"]
  /\ holds = [w \in Workers |-> NoJob]
  /\ threadExit = FALSE
  /\ isBreak = {}
  /\ returncode = [j \in Jobs |-> 0]
  /\ file = [j \in Jobs |-> "none"]
  /\ main = "dispatching"
  /\ dispatched = 0 /\ breaks = 0 /\ collected = 0
  /\ passed = 0 /\ skipped = 0
  /\ status = [j \in Jobs |-> "none"]
  /\ results = <<>>
  /\ success = FALSE
  /\ ran = {} /\ garbled = {} /\ lost = {}

-----------------------------------------------------------------------------
(* worker_thread.run                                                         *)

Goes(w, where, job) ==
  /\ at' = [at EXCEPT ![w] = where]
  /\ holds' = [holds EXCEPT ![w] = job]

(* The worker takes a job; a break job makes it return. *)
Get(w) ==
  /\ at[w] = "getting"
  /\ input # <<>>
  /\ input' = Tail(input)
  /\ IF Head(input) = Break THEN Goes(w, "returned", NoJob)
                            ELSE Goes(w, "deciding", Head(input))
  /\ UNCHANGED <<output, threadExit, isBreak, returncode, file, ran, garbled,
                 lost, mainVars>>

(* output_queue.put(job), and the next round of the loop. *)
GiveBack(w) ==
  /\ output' = Append(output, holds[w])
  /\ Goes(w, "getting", NoJob)

(* Mutant: the job is not marked. *)
SetIsBreak_Not(j) == UNCHANGED isBreak
SetIsBreak(j) == isBreak' = isBreak \cup {j}

(* Mutant: the worker goes on without giving the job back. *)
Refuse_Drops(w) ==
  /\ at[w] = "deciding"
  /\ threadExit
  /\ Goes(w, "getting", NoJob)
  /\ UNCHANGED <<input, output, isBreak, threadExit, returncode, file, ran,
                 garbled, lost, mainVars>>

(* thread_exit is set: the job is given back without having been run. *)
Refuse(w) ==
  /\ at[w] = "deciding"
  /\ threadExit
  /\ SetIsBreak(holds[w])
  /\ GiveBack(w)
  /\ UNCHANGED <<input, threadExit, returncode, file, ran, garbled, lost, mainVars>>

(* Mutant: the job is given back and run all the same. *)
Skip_RunsToo(w) ==
  /\ at[w] = "deciding"
  /\ ~threadExit /\ holds[w] \in Skipped
  /\ output' = Append(output, holds[w])
  /\ Goes(w, "running", holds[w])
  /\ UNCHANGED <<input, threadExit, isBreak, returncode, file, ran, garbled,
                 lost, mainVars>>

(* A job with is_skip is given back as it is. *)
Skip(w) ==
  /\ at[w] = "deciding"
  /\ ~threadExit /\ holds[w] \in Skipped
  /\ GiveBack(w)
  /\ UNCHANGED <<input, threadExit, isBreak, returncode, file, ran, garbled,
                 lost, mainVars>>

Launch(w) ==
  /\ at[w] = "deciding"
  /\ ~threadExit /\ holds[w] \notin Skipped
  /\ Goes(w, "running", holds[w])
  /\ UNCHANGED <<input, output, threadExit, isBreak, returncode, file, ran,
                 garbled, lost, mainVars>>

(* What a suite that exits with the code leaves in its results file: it is   *)
(* complete if the suite ran to its end.                                     *)
FileLeft(j, code) ==
  IF j \notin Suites THEN {"none"}
  ELSE IF code \in 0..2 THEN {"complete"} ELSE {"partial", "none"}

(* Mutant: a child that crashed and whose output is garbled passes. *)
ReturnCode_Zero(code, decodes) == IF decodes THEN code ELSE 0

(* run_job_synchronously: output that cannot be decoded makes the code 1. *)
ReturnCode(code, decodes) == IF decodes THEN code ELSE 1

(* The child process ends and the result is given back. *)
Complete(w) ==
  /\ at[w] = "running"
  /\ \E code \in 0..3, decodes \in BOOLEAN :
       /\ returncode' = [returncode EXCEPT ![holds[w]] = ReturnCode(code, decodes)]
       /\ garbled' = IF decodes THEN garbled ELSE garbled \cup {holds[w]}
       /\ \E left \in FileLeft(holds[w], code) :
            file' = [file EXCEPT ![holds[w]] = left]
  /\ ran' = ran \cup {holds[w]}
  /\ GiveBack(w)
  /\ UNCHANGED <<input, threadExit, isBreak, lost, mainVars>>

(* subprocess.Popen raises: nothing in run catches it, the thread ends. *)
Raise(w) ==
  /\ MayRaise
  /\ at[w] = "running"
  /\ lost' = lost \cup {holds[w]}
  /\ Goes(w, "raised", NoJob)
  /\ UNCHANGED <<input, output, threadExit, isBreak, returncode, file, ran,
                 garbled, mainVars>>

Worker(w) ==
  Get(w) \/ Refuse(w) \/ Skip(w) \/ Launch(w) \/ Complete(w) \/ Raise(w)

(* sigint_hook. *)
Interrupt ==
  /\ ~threadExit /\ main \notin {"finished", "raised"}
  /\ threadExit' = TRUE
  /\ UNCHANGED <<input, output, workerVars, mainVars>>

-----------------------------------------------------------------------------
(* run_tests, in the main thread                                             *)

Processors == Cardinality(Workers)

(* A job is put into the input queue. *)
Dispatch ==
  /\ main = "dispatching" /\ dispatched < Total
  /\ dispatched' = dispatched + 1
  /\ input' = Append(input, dispatched')
  /\ UNCHANGED <<output, threadExit, workerVars, main, breaks, collected,
                 passed, skipped, status, results, success>>

(* Mutant: one break job for all workers. *)
EnoughBreaks_One(n) == n = 1
EnoughBreaks(n) == n = Processors

(* A break job for one of the workers; after the last one the loop over the  *)
(* results begins.                                                           *)
DispatchBreak ==
  /\ main = "dispatching" /\ dispatched = Total
  /\ breaks' = breaks + 1
  /\ input' = Append(input, Break)
  /\ main' = IF EnoughBreaks(breaks') THEN "collecting" ELSE main
  /\ UNCHANGED <<output, threadExit, workerVars, dispatched, collected, passed,
                 skipped, status, results, success>>

Outcome(j) ==
  IF j \in Skipped THEN "SKIP"
  ELSE CASE returncode[j] = 0 -> "PASS"
         [] returncode[j] = 1 -> "FAIL"
         [] returncode[j] = 2 -> "VALGR"
         [] OTHER -> "CRASH"

(* What is added to the results: one line for an example, for a suite that   *)
(* was skipped and for one that crashed, the suite's own file otherwise.     *)
Entry(j) ==
  IF j \in Suites \ Skipped /\ returncode[j] \in 0..2 THEN file[j] ELSE Outcome(j)

(* The loop over the results: a job marked as a break job is ignored.        *)
CollectBreak ==
  /\ main = "collecting" /\ collected < dispatched
  /\ output # <<>> /\ Head(output) \in isBreak
  /\ output' = Tail(output)
  /\ collected' = collected + 1
  /\ status' = [status EXCEPT ![Head(output)] = "ignored"]
  /\ UNCHANGED <<input, threadExit, workerVars, main, dispatched, breaks,
                 passed, skipped, results, success>>

(* Any other is counted and written; a file that is missing cannot be opened *)
(* and the exception ends run_tests.                                         *)
Collect ==
  /\ main = "collecting" /\ collected < dispatched
  /\ output # <<>> /\ Head(output) \notin isBreak
  /\ output' = Tail(output)
  /\ collected' = collected + 1
  /\ LET j == Head(output)
     IN  /\ status' = [status EXCEPT ![j] = Outcome(j)]
         /\ passed' = passed + (IF Outcome(j) = "PASS" THEN 1 ELSE 0)
         /\ skipped' = skipped + (IF Outcome(j) = "SKIP" THEN 1 ELSE 0)
         /\ IF Entry(j) = "none"
            THEN main' = "raised" /\ UNCHANGED results
            ELSE results' = Append(results, [job |-> j, what |-> Entry(j)]) /\ UNCHANGED main
  /\ UNCHANGED <<input, threadExit, workerVars, dispatched, breaks, success>>

(* Some file that was taken over is not well-formed. *)
Malformed == \E i \in 1..Len(results) : results[i].what = "partial"

(* All workers are joined, the results are closed and translated, if that is *)
(* asked for; the parser raises an exception if they are not well-formed.    *)
Finish ==
  /\ main = "collecting" /\ collected = dispatched
  /\ \A w \in Workers : at[w] \in {"returned", "raised"}
  /\ \/ main' = "finished" /\ success' = (passed + skipped = dispatched)
     \/ main' = "raised" /\ Malformed /\ UNCHANGED success
  /\ UNCHANGED <<input, output, threadExit, workerVars, dispatched, breaks,
                 collected, passed, skipped, status, results>>

Main == Dispatch \/ DispatchBreak \/ CollectBreak \/ Collect \/ Finish

Next == Main \/ Interrupt \/ \E w \in Workers : Worker(w)

Spec == Init /\ [][Next]_vars

(* Threads are scheduled, and every child process ends: run_job_synchronously *)
(* waits for it without a timeout.                                            *)
FairSpec == Spec /\ WF_vars(Main) /\ \A w \in Workers : WF_vars(Worker(w))

-----------------------------------------------------------------------------
Queued(queue) == {queue[i] : i \in 1..Len(queue)}

(* No job is in the queue twice. *)
NoneTwice(queue) ==
  \A i, k \in 1..Len(queue) : i # k /\ queue[i] = queue[k] => queue[i] = Break

(* Where a job can be: in a queue, in the hands of a worker, reported.       *)
Waiting  == Queued(input) \ {Break}
Held     == {holds[w] : w \in Workers} \ {NoJob}
Ready    == Queued(output)
Reported == {j \in Jobs : status[j] # "none"}

(* Every variable has its type; a worker holds a job while it deals with it. *)
TypeOK ==
  /\ input \in Seq(Jobs \cup {Break}) /\ output \in Seq(Jobs)
  /\ at \in [Workers -> {"getting", "deciding", "running", "returned", "raised"}]
  /\ holds \in [Workers -> Jobs \cup {NoJob}]
  /\ \A w \in Workers : holds[w] = NoJob <=> at[w] \notin {"deciding", "running"}
  /\ {threadExit, success} \subseteq BOOLEAN
  /\ isBreak \subseteq Jobs /\ ran \subseteq Jobs /\ garbled \subseteq Jobs
  /\ lost \subseteq Jobs
  /\ returncode \in [Jobs -> 0..3]
  /\ file \in [Jobs -> {"none", "partial", "complete"}]
  /\ main \in {"dispatching", "collecting", "finished", "raised"}
  /\ {dispatched, breaks, collected, passed, skipped} \subseteq Nat
  /\ dispatched <= Total
  /\ status \in [Jobs -> {"none", "ignored", "SKIP", "PASS", "FAIL", "VALGR", "CRASH"}]

(* A job that was dispatched is in exactly one place: a queue, the hands of  *)
(* one worker, reported or lost; so none is run or reported twice, and none  *)
(* is forgotten, whatever SIGINT and exceptions do.                          *)
EachJobOnce ==
  /\ Waiting \cup Held \cup Ready \cup Reported \cup lost = 1..dispatched
  /\ Waiting \cap Held = {}
  /\ (Waiting \cup Held) \cap Ready = {}
  /\ (Waiting \cup Held \cup Ready) \cap Reported = {}
  /\ (Waiting \cup Held \cup Ready \cup Reported) \cap lost = {}
  /\ NoneTwice(input) /\ NoneTwice(output)
  /\ \A v, w \in Workers : v # w /\ holds[v] = holds[w] => holds[v] = NoJob

(* The loop over the results takes as many results as there are jobs, not    *)
(* the results of the jobs: when it ends, all jobs were reported all the     *)
(* same, and the workers still there have only break jobs left to take.      *)
AllReported ==
  main \in {"collecting", "finished"} /\ collected = dispatched =>
    Reported = Jobs /\ output = <<>> /\ Waiting = {}

(* run_tests returns 0 only if every job was skipped or did run and pass:    *)
(* a job that was never run has the return code of one that passed.          *)
SuccessIsReal ==
  success => \A j \in Jobs : j \in Skipped \/ (j \in ran /\ returncode[j] = 0)

(* Results that are not well-formed, or missing, come only from a suite that *)
(* crashed while it printed something that cannot be decoded.                *)
CorruptOnlyGarbled ==
  main = "raised" \/ Malformed => \E j \in garbled \cap Suites : returncode[j] = 1

(* The main thread comes to an end, unless an exception ended a worker: the  *)
(* result of its job is then waited for for ever.                            *)
Terminates == <>(main \in {"finished", "raised"} \/ lost # {})

=============================================================================
