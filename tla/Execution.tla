------------------------------ MODULE Execution ------------------------------
(***************************************************************************)
(* One batch of runs (src/src/harness/runner.py, measure) and the processes*)
(* it is made of (src/src/sandbox/executor.py).  A pool of threads takes   *)
(* the runs in order; each thread starts a child, waits until nobody holds *)
(* the write ends of the run's output any more or its wall clock is over,  *)
(* kills the child's group in the second case, reaps the child and         *)
(* classifies the run.  The batch's report is made when all have returned. *)
(*                                                                         *)
(* Simplifications.                                                        *)
(*  - A run's processes are its leader, the child the batch started, and   *)
(*    at most one helper the leader leaves behind, in the leader's process *)
(*    group or out of it.  A leader holds its output until it exits: that  *)
(*    a forked one may close it before, and be waited for without a        *)
(*    timeout (executor.py:460), is left out.                              *)
(*  - The several streams of a run are one pipe, with the set of those who *)
(*    hold its write end.                                                  *)
(*  - Exit codes are one of each range classify tells apart.               *)
(*  - A child is in its own process group before its wall clock is over.   *)
(*  - The report's counts are the sets of runs counted.                    *)
(*  - The stage cache is in AgentLoop, the trajectory's failures in Tracer.*)
(***************************************************************************)
EXTENDS Integers, FiniteSets

CONSTANTS
  Runs,        \* bound: runs of the batch
  MaxWorkers,  \* bound: threads of the pool
  None         \* an absent value

ASSUME ExecutionAssumption == Runs \in Nat /\ MaxWorkers \in Nat \ {0}

VARIABLES
  strategy,  \* measure's argument: how a child is started
  workers,   \* measure's argument: concurrent runs
  pc,        \* what the thread of each run does next
  leader,    \* each run's child
  helper,    \* what it left behind
  status,    \* the exit status of each child
  ends,      \* who holds the write end of each run's pipe
  timedOut,  \* run_once's timed_out
  result,    \* the outcome each run is given
  batch,     \* the measurement: under way, reported, or ended by an exception
  report,    \* the BatchReport
  struck,    \* observability: runs whose child the batch's own kill ended
  wronged    \* observability: runs out of time when no process of theirs held the pipe

arguments == <<strategy, workers>>
processes == <<leader, helper, status>>
outcomes  == <<result, batch, report>>
vars      == <<arguments, pc, processes, ends, timedOut, outcomes, struck, wronged>>

RunIds     == 1..Runs
Strategies == {"spawn", "fork"}
Outcomes   == {"pass", "fail", "timeout", "error"}
ExitCodes  == {-11, 0, 1, 5}  \* a signal, passed, failed, nothing collected
Killed     == -9              \* SIGKILL

\* Processes that can hold a pipe: the batch, and each run's leader and helper.
Batch   == <<0, "batch">>
Leader(r) == <<r, "leader">>
Helper(r) == <<r, "helper">>
Holders == {Batch} \cup (RunIds \X {"leader", "helper"})
Reports == [failed : SUBSET RunIds, errored : SUBSET RunIds]

ASSUME ExecutionNoneAssumption ==
  None \notin ExitCodes \cup {Killed} /\ None \notin Outcomes /\ None \notin Reports

Goto(r, phase) == pc' = [pc EXCEPT ![r] = phase]

\* A thread of the pool is in run_once.
Underway == {"prepare", "pipe", "forked", "wait", "kill", "drain", "reap"}
Active   == {r \in RunIds : pc[r] \in Underway}

\* Process p is gone, and the ends it held with it.
Released(p) == [q \in RunIds |-> ends[q] \ {p}]

\* Mutant of Classify: a run that was killed is judged by its exit code.
ClassifyByCode(code, late) ==
  CASE code = 0             -> "pass"
    [] code = 1 \/ code < 0 -> "fail"
    [] OTHER                -> "error"

\* classify: the clock first, then the exit code.
Classify(code, late) ==
  IF late THEN "timeout"
  ELSE CASE code = 0             -> "pass"
         [] code = 1 \/ code < 0 -> "fail"
         [] OTHER                -> "error"

-----------------------------------------------------------------------------

Init ==
  /\ strategy \in Strategies /\ workers \in 1..MaxWorkers
  /\ pc = [r \in RunIds |-> "queued"]
  /\ leader = [r \in RunIds |-> "none"] /\ helper = [r \in RunIds |-> "none"]
  /\ status = [r \in RunIds |-> None]
  /\ ends = [r \in RunIds |-> {}]
  /\ timedOut = [r \in RunIds |-> FALSE]
  /\ result = [r \in RunIds |-> None] /\ batch = "running" /\ report = None
  /\ struck = {} /\ wronged = {}

\* A free thread takes the next run; without a pool, an exception has ended the loop.
TakeRun(r) ==
  /\ batch = "running" /\ pc[r] = "queued"
  /\ \A q \in RunIds : q < r => pc[q] # "queued"
  /\ Cardinality(Active) < workers
  /\ workers > 1 \/ \A q \in RunIds : pc[q] # "raised"
  /\ Goto(r, "prepare")
  /\ UNCHANGED <<arguments, processes, ends, timedOut, outcomes, struck, wronged>>

\* The workdir cannot be made or the child not started: run_once raises.
StartFails(r) ==
  /\ pc[r] = "prepare"
  /\ Goto(r, "raised")
  /\ UNCHANGED <<arguments, processes, ends, timedOut, outcomes, struck, wronged>>

\* Mutant of SpawnChild: descriptors open in the batch are inherited.
SpawnInheriting(r) ==
  /\ strategy = "spawn" /\ pc[r] = "prepare"
  /\ leader' = [leader EXCEPT ![r] = "running"]
  /\ ends' = [q \in RunIds |->
       IF q = r \/ pc[q] = "wait" THEN ends[q] \cup {Leader(r)} ELSE ends[q]]
  /\ Goto(r, "wait")
  /\ UNCHANGED <<arguments, helper, status, timedOut, outcomes, struck, wronged>>

\* Popen: the child executes a new program, with nothing but its own output open.
SpawnChild(r) ==
  /\ strategy = "spawn" /\ pc[r] = "prepare"
  /\ leader' = [leader EXCEPT ![r] = "running"]
  /\ ends' = [ends EXCEPT ![r] = {Leader(r)}]
  /\ Goto(r, "wait")
  /\ UNCHANGED <<arguments, helper, status, timedOut, outcomes, struck, wronged>>

\* os.pipe...
OpenPipe(r) ==
  /\ strategy = "fork" /\ pc[r] = "prepare"
  /\ ends' = [ends EXCEPT ![r] = {Batch}]
  /\ Goto(r, "pipe")
  /\ UNCHANGED <<arguments, processes, timedOut, outcomes, struck, wronged>>

\* ... os.fork, which copies every write end the batch has open, other runs' included...
ForkChild(r) ==
  /\ pc[r] = "pipe"
  /\ leader' = [leader EXCEPT ![r] = "running"]
  /\ ends' = [q \in RunIds |->
       IF Batch \in ends[q] THEN ends[q] \cup {Leader(r)} ELSE ends[q]]
  /\ Goto(r, "forked")
  /\ UNCHANGED <<arguments, helper, status, timedOut, outcomes, struck, wronged>>

\* ... and os.close in the parent.
CloseWriteEnd(r) ==
  /\ pc[r] = "forked"
  /\ ends' = [ends EXCEPT ![r] = @ \ {Batch}]
  /\ Goto(r, "wait")
  /\ UNCHANGED <<arguments, processes, timedOut, outcomes, struck, wronged>>

-----------------------------------------------------------------------------
(* The code under test. *)

\* The test starts a process, which stays in the group or leaves it and keeps what the
\* leader has open or closes it.
LeaveHelper(r, kind, keeps) ==
  /\ leader[r] = "running" /\ helper[r] = "none"
  /\ helper' = [helper EXCEPT ![r] = kind]
  /\ ends' = [q \in RunIds |->
       IF keeps /\ Leader(r) \in ends[q] THEN ends[q] \cup {Helper(r)} ELSE ends[q]]
  /\ UNCHANGED <<arguments, pc, leader, status, timedOut, outcomes, struck, wronged>>

LeaderExits(r, code) ==
  /\ leader[r] = "running"
  /\ leader' = [leader EXCEPT ![r] = "exited"]
  /\ status' = [status EXCEPT ![r] = code]
  /\ ends' = Released(Leader(r))
  /\ UNCHANGED <<arguments, pc, helper, timedOut, outcomes, struck, wronged>>

Living(r) == helper[r] \in {"grouped", "escaped"}

HelperExits(r) ==
  /\ Living(r)
  /\ helper' = [helper EXCEPT ![r] = "gone"]
  /\ ends' = Released(Helper(r))
  /\ UNCHANGED <<arguments, pc, leader, status, timedOut, outcomes, struck, wronged>>

-----------------------------------------------------------------------------
(* The thread of run r. *)

\* End of file: everyone who could still write is gone.
SeeEnd(r) ==
  /\ pc[r] = "wait" /\ ends[r] = {}
  /\ Goto(r, "reap")
  /\ UNCHANGED <<arguments, processes, ends, timedOut, outcomes, struck, wronged>>

\* The wall clock is over first.
TimeOut(r) ==
  /\ pc[r] = "wait" /\ ends[r] # {}
  /\ timedOut' = [timedOut EXCEPT ![r] = TRUE]
  /\ wronged' = IF {Leader(r), Helper(r)} \cap ends[r] = {} THEN wronged \cup {r} ELSE wronged
  /\ Goto(r, "kill")
  /\ UNCHANGED <<arguments, processes, ends, outcomes, struck>>

\* Mutants of KillGroup: only the direct child is killed; a child that has exited leaves
\* nothing to kill.
KillChild(r) ==
  /\ pc[r] = "kill"
  /\ leader' = [leader EXCEPT ![r] = "exited"]
  /\ status' = [status EXCEPT ![r] = IF leader[r] = "running" THEN Killed ELSE @]
  /\ struck' = IF leader[r] = "running" THEN struck \cup {r} ELSE struck
  /\ ends' = Released(Leader(r))
  /\ Goto(r, IF strategy = "spawn" THEN "drain" ELSE "reap")
  /\ UNCHANGED <<arguments, helper, timedOut, outcomes, wronged>>
KillIfRunning(r) ==
  /\ pc[r] = "kill"
  /\ IF leader[r] = "running"
     THEN /\ leader' = [leader EXCEPT ![r] = "exited"]
          /\ status' = [status EXCEPT ![r] = Killed]
          /\ struck' = struck \cup {r}
          /\ helper' = [helper EXCEPT ![r] = IF @ = "grouped" THEN "gone" ELSE @]
          /\ ends' = [q \in RunIds |-> ends[q] \
               ({Leader(r)} \cup IF helper[r] = "grouped" THEN {Helper(r)} ELSE {})]
     ELSE UNCHANGED <<processes, struck, ends>>
  /\ Goto(r, IF strategy = "spawn" THEN "drain" ELSE "reap")
  /\ UNCHANGED <<arguments, timedOut, outcomes, wronged>>

\* _kill_group: the group is found through the child, exited or not, as nobody has reaped
\* it; spawning then reads the output to its end, forking does not.
KillGroup(r) ==
  LET victims == {Leader(r)} \cup IF helper[r] = "grouped" THEN {Helper(r)} ELSE {} IN
  /\ pc[r] = "kill"
  /\ leader' = [leader EXCEPT ![r] = "exited"]
  /\ helper' = [helper EXCEPT ![r] = IF @ = "grouped" THEN "gone" ELSE @]
  /\ status' = [status EXCEPT ![r] = IF leader[r] = "running" THEN Killed ELSE @]
  /\ struck' = IF leader[r] = "running" THEN struck \cup {r} ELSE struck
  /\ ends' = [q \in RunIds |-> ends[q] \ victims]
  /\ Goto(r, IF strategy = "spawn" THEN "drain" ELSE "reap")
  /\ UNCHANGED <<arguments, timedOut, outcomes, wronged>>

\* The second communicate has no timeout.
Drain(r) ==
  /\ pc[r] = "drain" /\ ends[r] = {}
  /\ Goto(r, "reap")
  /\ UNCHANGED <<arguments, processes, ends, timedOut, outcomes, struck, wronged>>

\* waitpid, and the run's result.
Reap(r) ==
  /\ pc[r] = "reap" /\ leader[r] = "exited"
  /\ leader' = [leader EXCEPT ![r] = "reaped"]
  /\ result' = [result EXCEPT ![r] = Classify(status[r], timedOut[r])]
  /\ Goto(r, "done")
  /\ UNCHANGED <<arguments, helper, status, ends, timedOut, batch, report, struck, wronged>>

-----------------------------------------------------------------------------
(* measure. *)

\* The results are taken in order; at one that is an exception the rest is cancelled.
Cancel ==
  /\ batch = "running"
  /\ \E r \in RunIds : pc[r] = "raised" /\ \A q \in RunIds : q < r => pc[q] = "done"
  /\ \E r \in RunIds : pc[r] = "queued"
  /\ pc' = [r \in RunIds |-> IF pc[r] = "queued" THEN "cancelled" ELSE pc[r]]
  /\ UNCHANGED <<arguments, processes, ends, timedOut, outcomes, struck, wronged>>

\* Mutant of Raise: the exception does not wait for the pool.
RaiseAtOnce ==
  /\ batch = "running" /\ \A r \in RunIds : pc[r] # "queued"
  /\ \E r \in RunIds : pc[r] = "raised"
  /\ batch' = "raised"
  /\ UNCHANGED <<arguments, pc, processes, ends, timedOut, result, report, struck, wronged>>

\* The pool is shut down and the exception goes on.
Raise ==
  /\ batch = "running" /\ Active = {}
  /\ \A r \in RunIds : pc[r] # "queued"
  /\ \E r \in RunIds : pc[r] = "raised"
  /\ batch' = "raised"
  /\ UNCHANGED <<arguments, pc, processes, ends, timedOut, result, report, struck, wronged>>

Tally ==
  [failed  |-> {r \in RunIds : result[r] \in {"fail", "timeout"}},
   errored |-> {r \in RunIds : result[r] = "error"}]

\* Mutant of Report: runs that raised are left out.
ReportWhatThereIs ==
  /\ batch = "running" /\ Active = {} /\ \A r \in RunIds : pc[r] # "queued"
  /\ batch' = "reported" /\ report' = Tally
  /\ UNCHANGED <<arguments, pc, processes, ends, timedOut, result, struck, wronged>>

Report ==
  /\ batch = "running" /\ \A r \in RunIds : pc[r] = "done"
  /\ batch' = "reported" /\ report' = Tally
  /\ UNCHANGED <<arguments, pc, processes, ends, timedOut, result, struck, wronged>>

Over == batch # "running" /\ UNCHANGED vars

ThreadStep(r) ==
  \/ StartFails(r) \/ SpawnChild(r) \/ OpenPipe(r) \/ ForkChild(r) \/ CloseWriteEnd(r)
  \/ SeeEnd(r) \/ TimeOut(r) \/ KillGroup(r) \/ Drain(r) \/ Reap(r)

TestStep(r) ==
  \/ \E kind \in {"grouped", "escaped"}, keeps \in BOOLEAN : LeaveHelper(r, kind, keeps)
  \/ \E code \in ExitCodes : LeaderExits(r, code)
  \/ HelperExits(r)

Next ==
  \/ \E r \in RunIds : TakeRun(r) \/ ThreadStep(r) \/ TestStep(r)
  \/ Cancel \/ Raise \/ Report
  \/ Over

\* The batch's threads advance; the code under test need not.
Fairness ==
  /\ \A r \in RunIds : WF_vars(TakeRun(r)) /\ WF_vars(ThreadStep(r))
  /\ WF_vars(Cancel) /\ WF_vars(Raise) /\ WF_vars(Report)

Spec == Init /\ [][Next]_vars /\ Fairness

-----------------------------------------------------------------------------
(* Properties. *)

\* Every variable holds a value of its kind.
TypeOK ==
  /\ strategy \in Strategies /\ workers \in 1..MaxWorkers
  /\ pc \in [RunIds -> Underway \cup {"queued", "done", "raised", "cancelled"}]
  /\ leader \in [RunIds -> {"none", "running", "exited", "reaped"}]
  /\ helper \in [RunIds -> {"none", "grouped", "escaped", "gone"}]
  /\ status \in [RunIds -> ExitCodes \cup {Killed, None}]
  /\ ends \in [RunIds -> SUBSET Holders]
  /\ timedOut \in [RunIds -> BOOLEAN]
  /\ result \in [RunIds -> Outcomes \cup {None}]
  /\ batch \in {"running", "reported", "raised"} /\ report \in Reports \cup {None}
  /\ struck \in SUBSET RunIds /\ wronged \in SUBSET RunIds

\* A run that is out of time is so because of a process of its own, spawned runs side by
\* side or runs forked one at a time.  (Forked side by side, a run can wait for another's
\* child.)
TimeoutIsItsOwn == strategy = "spawn" \/ workers = 1 => wronged = {}

\* "Killed by a signal we did not send" (executor.py:220): no outcome but timeout rests
\* on a status the batch's own kill produced, and the kill meets nobody else's child.
VerdictIsNotOurKill ==
  \A r \in RunIds :
    /\ result[r] \in Outcomes \ {"timeout"} => status[r] # Killed
    /\ status[r] = Killed => timedOut[r] /\ r \in struck

\* What a finished run can leave behind, to perturb later runs of the batch: a process
\* that left its group, or one that had given up its output when the run ended in time.
LeftoversAreSilent ==
  \A r \in RunIds :
    pc[r] = "done" /\ Living(r) =>
      helper[r] = "escaped" \/ (~timedOut[r] /\ Helper(r) \notin ends[r])

\* A report covers every run, each one once: it counts no failure and no error only if
\* every child ended by itself, in time and with status 0; an error is a child that ended
\* by itself without running the tests.
ReportIsFaithful ==
  report # None =>
    /\ report.failed \cap report.errored = {}
    /\ \A r \in RunIds :
         /\ pc[r] = "done"
         /\ r \notin report.failed \cup report.errored <=> status[r] = 0 /\ ~timedOut[r]
         /\ r \in report.errored => status[r] > 1 /\ ~timedOut[r]

\* A batch ends, whatever the tests do, unless a spawned run waits for a process that left
\* its group and keeps its output for ever.
BatchEnds ==
  \/ <>(batch # "running")
  \/ <>[](\E r \in RunIds : pc[r] = "drain" /\ helper[r] = "escaped")

\* How far the thread of a run has come.
Stage(r) ==
  CASE pc[r] = "queued"  -> 0
    [] pc[r] = "prepare" -> 1
    [] pc[r] = "pipe"    -> 2
    [] pc[r] = "forked"  -> 3
    [] pc[r] = "wait"    -> 4
    [] pc[r] = "kill"    -> 5
    [] pc[r] = "drain"   -> 6
    [] pc[r] = "reap"    -> 7
    [] OTHER             -> 8

\* No step of the batch or of the tests takes a run back, and every step of the batch's
\* takes one further or ends the batch: no more than eight steps a run.
RunsGoForward ==
  [][/\ \A r \in RunIds : Stage(r)' >= Stage(r)
     /\ \/ \E r \in RunIds : Stage(r)' > Stage(r)
        \/ batch = "running" /\ batch' # "running"
        \/ \E r \in RunIds : TestStep(r)]_vars

\* Thread of run r can move now, or waits for a process that left its group and keeps the
\* run's output.
CanGoOn(r) ==
  \/ pc[r] \in {"prepare", "pipe", "forked", "wait", "kill"}
  \/ pc[r] = "drain" /\ (ends[r] = {} \/ helper[r] = "escaped")
  \/ pc[r] = "reap" /\ leader[r] = "exited"

\* The pool never deadlocks: whatever runs have failed to start, been cancelled or are
\* waiting, a batch that is not over has a run whose thread can move, a free thread and a
\* run for it to take, or can cancel, raise or report.  With RunsGoForward, what BatchEnds
\* rests on.
NeverStuck ==
  batch = "running" =>
    \/ \E r \in Active : CanGoOn(r)
    \/ /\ Active = {}
       /\ \E r \in RunIds : pc[r] = "queued" /\ \A q \in RunIds : q < r => pc[q] # "queued"
       /\ workers > 1 \/ \A q \in RunIds : pc[q] # "raised"
    \/ /\ \E r \in RunIds : pc[r] = "raised" /\ \A q \in RunIds : q < r => pc[q] = "done"
       /\ \E r \in RunIds : pc[r] = "queued"
    \/ /\ Active = {} /\ \A r \in RunIds : pc[r] # "queued"
       /\ (\E r \in RunIds : pc[r] = "raised") \/ (\A r \in RunIds : pc[r] = "done")

\* "one test run is one short-lived child process in a fresh scratch workdir, under a
\* wall-clock timeout" (executor.py:9-10): the wall clock ends every batch.
WallClockEndsEveryBatch == <>(batch # "running")

\* Where a run is for the caller of measure.
PhaseOf(r) ==
  CASE pc[r] = "queued" -> "waiting"
    [] pc[r] = "done"   -> "judged"
    [] pc[r] = "raised" -> "broken"
    [] pc[r] \in Underway -> "begun"
    [] OTHER            -> "cancelled"

Measured == INSTANCE Measurement WITH
  Failures <- {"fail", "timeout"},
  Errors   <- {"error"},
  Verdicts <- Outcomes,
  phase    <- [r \in RunIds |-> PhaseOf(r)],
  children <- {r \in RunIds : leader[r] \in {"running", "exited"}},
  verdict  <- result,
  state    <- batch

\* To its caller a batch is a Measurement, whatever the tests leave behind and however a
\* run ends: runs are begun in order within the pool's width and judged once each, when
\* their child is reaped, and neither a report nor an exception comes out while a child is
\* left (runner.py's measure, executor.py's run_once).
ImplementsMeasurement == Measured!Spec

=============================================================================
