------------------------------- MODULE Evidence -------------------------------
(***************************************************************************)
(* What a batch of runs is taken to show: the run protocol                 *)
(* (src/src/harness/protocol.py), the experiments                          *)
(* (src/src/agent/experiments.py), the stress check                        *)
(* (FixValidator.check_behaviour) and the verdicts CONFIRM and VERIFY draw *)
(* (src/src/agent/orchestrator.py), beside the baseline's                  *)
(* (src/src/baseline/one_shot.py), for one case.  AgentLoop orders the     *)
(* same phases and leaves their verdicts open; here the verdicts are       *)
(* computed, and deaths, proposals and files are left out.                 *)
(*                                                                         *)
(* Simplifications.                                                        *)
(*  - Rates are compared as fractions, without the rounding of floats.     *)
(*  - A parameter is the integer it spells, or that there is none.         *)
(***************************************************************************)
EXTENDS Integers

CONSTANTS
  ConfirmRuns, ExperimentRuns, StressRuns, VerifyRuns,  \* RUN_COUNTS
  LeastRuns,        \* the least a halved count may be
  DefaultWorkers,   \* DEFAULT_WORKERS
  Overrides,        \* values given to --confirm-runs, --verify-runs or --runs
  Counts            \* the failures and errors a batch may have

\* The counts are those of a protocol; with an experiment of 200 runs or more, one
\* failure would be within the band that is read as none.
ASSUME EvidenceAssumption ==
  /\ {ConfirmRuns, ExperimentRuns, StressRuns, VerifyRuns, LeastRuns} \subseteq Nat \ {0}
  /\ ExperimentRuns < 200 /\ LeastRuns < 200
  /\ DefaultWorkers \in Nat /\ DefaultWorkers > 1
  /\ Overrides \subseteq Nat \ {0}
  /\ Counts \subseteq Nat

VARIABLES
  pc,           \* the phase about to run
  pinned,       \* the case is in PINNED_WORKERS
  confirm,      \* the report of CONFIRM
  experiment,   \* the experiment behind the patch: manipulation, parameter, prediction
  observed,     \* its report
  effect,       \* its actual_effect
  matches,      \* its matches_prediction: TRUE while the loop works on a patch
  unsupported,  \* its flag
  stress,       \* the stress_report behind the patch that is verified
  final,        \* the report the status rests on: VERIFY's, or the baseline's
  status        \* what became of the case

judged == <<experiment, observed, effect, matches, unsupported>>
vars   == <<pc, pinned, confirm, judged, stress, final, status>>

Phases == {"confirm", "round", "patch", "verify", "baseline", "end"}

Manipulations == {"serialize_execution", "amplify_contention", "isolate_test",
                  "force_test_order", "pin_hash_seed", "pin_timezone", "repeat_baseline",
                  "unknown"}

\* From the least failures to the most; an invalid batch shows none of them.
Effects == {"eliminated", "reduced", "unchanged", "increased"}

\* A parameter: empty, a text that int() refuses, or an integer.
Parameters == {"empty", "text", "0", "4", "9"}
IntegerOf == [p \in {"0", "4", "9"} |-> CASE p = "0" -> 0 [] p = "4" -> 4 [] p = "9" -> 9]

Experiments == [manipulation : Manipulations, parameter : Parameters,
                predicted : Effects]

Reports == [runs : Nat, failures : Nat, errors : Nat, workers : Nat]

NoReport == [runs |-> 0, failures |-> 0, errors |-> 0, workers |-> 0]
NoExperiment == [manipulation |-> "repeat_baseline", parameter |-> "empty",
                 predicted |-> "unchanged"]

Larger(a, b) == IF a > b THEN a ELSE b
Smaller(a, b) == IF a < b THEN a ELSE b

-----------------------------------------------------------------------------
\* The protocol.

WorkersFor == IF pinned THEN 1 ELSE DefaultWorkers

\* Serial cases run half as often, but not where the headline number is measured.
Halved(runs) == IF pinned THEN Larger(runs \div 2, LeastRuns) ELSE runs

\* A batch: any failures and errors of Counts that fit its runs.
Batches(runs, workers) ==
  { r \in [runs : {runs}, failures : Counts, errors : Counts, workers : {workers}] :
      r.failures + r.errors <= runs }

IsSound(r) == r.errors = 0

-----------------------------------------------------------------------------
\* Experiments.

\* max(2, min(int(parameter), 8)), and 4 without a number.
Factor(parameter) ==
  IF parameter \in DOMAIN IntegerOf THEN Larger(2, Smaller(IntegerOf[parameter], 8)) ELSE 4

\* _resolve: the workers, and whether the manipulation could be honoured.
Resolve(e) ==
  [workers |-> CASE e.manipulation = "serialize_execution" -> 1
                 [] e.manipulation = "amplify_contention" -> WorkersFor * Factor(e.parameter)
                 [] OTHER -> WorkersFor,
   note |-> \/ e.manipulation = "unknown"
            \/ e.manipulation \in {"isolate_test", "force_test_order"} /\ e.parameter = "empty"]

\* Mutant of ClassifyEffect: the comparison with 0.4 is turned round.
ClassifyTurned(base, seen) ==
  IF 1000 * seen.failures <= 5 * seen.runs THEN "eliminated"
  ELSE IF base.failures = 0 THEN "increased"
  ELSE IF 4 * seen.failures * base.runs >= 7 * base.failures * seen.runs THEN "increased"
  ELSE IF 10 * seen.failures * base.runs <= 4 * base.failures * seen.runs THEN "unchanged"
  ELSE "reduced"

\* classify_effect: at most 0.5%; 0.4 and 1.75 times the baseline rate.
ClassifyEffect(base, seen) ==
  IF 1000 * seen.failures <= 5 * seen.runs THEN "eliminated"
  ELSE IF base.failures = 0 THEN "increased"
  ELSE IF 10 * seen.failures * base.runs <= 4 * base.failures * seen.runs THEN "reduced"
  ELSE IF 4 * seen.failures * base.runs >= 7 * base.failures * seen.runs THEN "increased"
  ELSE "unchanged"

Matches(predicted, actual) ==
  actual = predicted \/ (predicted = "eliminated" /\ actual = "reduced")

\* Mutant of Judge: the rate is read before the errors.
JudgeErrorsLast(base, seen, e) ==
  LET actual == ClassifyEffect(base, seen) IN
  [effect |-> actual, matches |-> Matches(e.predicted, actual),
   unsupported |-> ~IsSound(seen) \/ Resolve(e).note]

\* run_experiment's verdict: an unsound batch is not evidence, whatever its rate.
Judge(base, seen, e) ==
  IF ~IsSound(seen)
  THEN [effect |-> "invalid", matches |-> FALSE, unsupported |-> TRUE]
  ELSE LET actual == ClassifyEffect(base, seen) IN
       [effect |-> actual, matches |-> Matches(e.predicted, actual),
        unsupported |-> Resolve(e).note]

-----------------------------------------------------------------------------

Init ==
  /\ pc \in {"confirm", "baseline"} /\ pinned \in BOOLEAN
  /\ confirm = NoReport /\ observed = NoReport /\ stress = NoReport /\ final = NoReport
  /\ experiment = NoExperiment /\ effect = "invalid"
  /\ matches = FALSE /\ unsupported = FALSE
  /\ status = "INCOMPLETE"

\* CONFIRM: measured, or restored from an earlier launch's checkpoint.
Confirm ==
  /\ pc = "confirm"
  /\ \E runs \in {Halved(ConfirmRuns)} \cup Overrides :
       \E r \in Batches(runs, WorkersFor) : confirm' = r
  /\ IF confirm'.failures = 0
     THEN pc' = "end" /\ status' = "NO_FLAKE"
     ELSE pc' = "round" /\ UNCHANGED status
  /\ UNCHANGED <<pinned, judged, stress, final>>

\* The next round starts over: of a round that led nowhere, only the evidence lines remain.
StartOver ==
  /\ pc' = "round"
  /\ experiment' = NoExperiment /\ observed' = NoReport /\ effect' = "invalid"
  /\ matches' = FALSE /\ unsupported' = FALSE

\* A round's experiment: a patch follows it if the prediction came true.
RunExperiment(e) ==
  /\ pc = "round"
  /\ \E r \in Batches(Halved(ExperimentRuns), Resolve(e).workers) :
       LET verdict == Judge(confirm, r, e) IN
       IF verdict.matches
       THEN /\ pc' = "patch"
            /\ experiment' = e /\ observed' = r
            /\ effect' = verdict.effect /\ matches' = TRUE
            /\ unsupported' = verdict.unsupported
       ELSE StartOver
  /\ UNCHANGED <<pinned, confirm, stress, final, status>>

\* STRESS_WORKER_MULTIPLIER times the workers, and no fewer than 8.
StressWorkers == Larger(4 * WorkersFor, 8)

\* Mutant of Survives: a batch that never ran has no failures.
SurvivesByFailures(r) == r.failures = 0

\* check_behaviour: an unsound batch is inconclusive, a failure is a mask; both reject.
Survives(r) == IsSound(r) /\ r.failures = 0

\* The stress check of a patch that passed the structural ones.  A rejected patch is
\* authored again, or given up for another round.
Stress ==
  /\ pc = "patch"
  /\ \E r \in Batches(Halved(StressRuns), StressWorkers) :
       \/ Survives(r) /\ pc' = "verify" /\ stress' = r /\ UNCHANGED judged
       \/ ~Survives(r) /\ UNCHANGED <<pc, stress, judged>>
       \/ ~Survives(r) /\ StartOver /\ UNCHANGED stress
  /\ UNCHANGED <<pinned, confirm, final, status>>

\* VERIFY.
Verify ==
  /\ pc = "verify"
  /\ \E runs \in {VerifyRuns} \cup Overrides :
       \E r \in Batches(runs, WorkersFor) :
         IF r.failures = 0 /\ IsSound(r)
         THEN pc' = "end" /\ status' = "PENDING" /\ final' = r /\ UNCHANGED <<judged, stress>>
         ELSE StartOver /\ stress' = NoReport /\ UNCHANGED <<final, status>>
  /\ UNCHANGED <<pinned, confirm>>

\* The rounds are used up, or nothing new is proposed.
Exhaust ==
  /\ pc = "round"
  /\ pc' = "end" /\ status' = "EXHAUSTED"
  /\ UNCHANGED <<pinned, confirm, judged, stress, final>>

\* run_baseline_case measures its one patch; a dry run measures it zero times, and the
\* pool of zero runs reports at once.
MeasureBaseline ==
  /\ pc = "baseline"
  /\ \E runs \in {VerifyRuns, 0} \cup Overrides :
       \E r \in Batches(runs, WorkersFor) :
         /\ final' = r
         /\ status' = IF r.failures = 0 /\ IsSound(r) THEN "fixed" ELSE "not fixed"
  /\ pc' = "end"
  /\ UNCHANGED <<pinned, confirm, judged, stress>>

Rest == pc = "end" /\ UNCHANGED vars

Next ==
  \/ Confirm
  \/ \E e \in Experiments : RunExperiment(e)
  \/ Stress
  \/ Verify
  \/ Exhaust
  \/ MeasureBaseline
  \/ Rest

Spec == Init /\ [][Next]_vars

-----------------------------------------------------------------------------

TypeOK ==
  /\ pc \in Phases /\ pinned \in BOOLEAN
  /\ confirm \in Reports /\ observed \in Reports /\ stress \in Reports /\ final \in Reports
  /\ observed.workers <= 8 * DefaultWorkers
  /\ experiment \in Experiments
  /\ effect \in Effects \cup {"invalid"}
  /\ matches \in BOOLEAN /\ unsupported \in BOOLEAN
  /\ status \in {"INCOMPLETE", "NO_FLAKE", "EXHAUSTED", "PENDING", "fixed", "not fixed"}

Executed(r) == r.runs - r.errors

\* An experiment supports its hypothesis only if every run of it ran, and the failures
\* moved the predicted way: below CONFIRM's rate for "eliminated" and "reduced", however
\* many of CONFIRM's own runs errored, and above it for "increased", if none did.  The
\* first rests on the protocol: "eliminated" is a rate of at most 0.5%, which within
\* EXPERIMENT's count is no failure at all (experiments.py 224-241, 326-360).  Where contention was
\* amplified, the workers at least doubled.
SupportIsMeasured ==
  matches =>
    /\ IsSound(observed) /\ observed.runs > 0
    /\ experiment.predicted \in {"eliminated", "reduced"} =>
         observed.failures * Executed(confirm) < confirm.failures * observed.runs
    /\ experiment.predicted = "increased" /\ IsSound(confirm) =>
         observed.failures * confirm.runs > confirm.failures * observed.runs
    /\ experiment.manipulation = "amplify_contention" =>
         observed.workers >= 2 * confirm.workers

\* The judgement is not a matter of thresholds: what supports a prediction of elimination
\* would have done so with fewer failures, and what supports one of increase with more.
SupportIsOrdered ==
  matches =>
    \A f \in Counts :
      LET other == [observed EXCEPT !.failures = f] IN
      \/ experiment.predicted = "eliminated" /\ f > observed.failures
      \/ experiment.predicted = "increased" /\ f < observed.failures
      \/ experiment.predicted \in {"reduced", "unchanged"}
      \/ Judge(confirm, other, experiment).matches

\* A case waits for approval only after a supported hypothesis, a stress batch and a
\* verification in which every run ran and none failed, the stress on at least four
\* times the workers that failed in CONFIRM and pass in VERIFY, and eight at least.
PendingIsProven ==
  status = "PENDING" =>
    /\ matches /\ confirm.failures > 0
    /\ \A r \in {stress, final} : r.runs > 0 /\ r.failures = 0 /\ r.errors = 0
    /\ stress.workers >= 8
    /\ \A r \in {confirm, final} : stress.workers >= 4 * r.workers
=============================================================================
