------------------------------ MODULE AgentLoop ------------------------------
(***************************************************************************)
(* The agent's case loop (src/src/agent/orchestrator.py, run_agent_case)   *)
(* and the checkpoint that lets a case survive a dead process              *)
(* (src/src/agent/checkpoint.py).  A launch of run_agent.py is a process:  *)
(* it loads the checkpoint file, CONFIRMs the flake, then hypothesises,    *)
(* experiments, patches, validates and verifies until a stopping rule      *)
(* fires.  Any step may be the process's last; what is on disk then is     *)
(* what the next launch, possibly with another model or another CONFIRM    *)
(* budget, starts from.                                                    *)
(*                                                                         *)
(* Simplifications.                                                        *)
(*  - A hypothesis list is its first class (the stuck signature reads it)  *)
(*    and the class its experiment targets; any pair of classes is a list. *)
(*  - A batch report is its size and whether any run failed or errored.    *)
(*  - An experiment is judged "confirms", "refutes" or "invalid", the      *)
(*    three ways run_experiment sets matches_prediction.                   *)
(*  - A patch is a model value; whether it applies, passes the structural  *)
(*    checks or survives a batch is chosen afresh each time, since the     *)
(*    tests it is measured with are nondeterministic.                      *)
(*  - history, rationale texts and token counts are left out.              *)
(***************************************************************************)
EXTENDS Integers

CONSTANTS
  Classes,           \* root-cause classes the model may name
  Models,            \* LLM model identifiers a launch may be configured with
  Patches,           \* patches the model may author
  MaxRounds,         \* AgentConfig.max_rounds
  MaxPatchAttempts,  \* AgentConfig.max_patch_attempts
  ConfirmRuns,       \* CONFIRM budgets a launch may be given
  MaxLaunches,       \* bound: how many times the case is launched
  None               \* an absent value

ASSUME BoundsAssumption ==
  /\ MaxRounds \in Nat \ {0}
  /\ MaxPatchAttempts \in Nat \ {0}
  /\ MaxLaunches \in Nat \ {0}
  /\ ConfirmRuns \subseteq Nat \ {0}

VARIABLES
  (* On disk. *)
  ckpt,         \* results/checkpoints/<case>.json; None when missing or unparseable
  package,      \* results/pending_approval/<case>
  patchedDir,   \* which patch the scratch copy of the project carries; None: no whole one
  (* In the process. *)
  pc,           \* the phase about to execute; "idle" when no process runs
  model,        \* client.model
  budget,       \* config.confirm_runs
  confirm,      \* the CONFIRM report the loop rests on
  round,        \* outcome.rounds
  experiments,  \* len(outcome.experiments)
  eliminated,   \* classes ruled out
  seen,         \* seen_signatures
  top,          \* hypotheses[0].root_cause_class
  target,       \* targeted.root_cause_class
  attempt,      \* patch attempts begun this round
  patch,        \* outcome.patch
  staged,       \* executor._staged[patched]: the content staged for the patched path
  status,       \* outcome.status; "NONE" and "BROKEN" when it ended without one
  (* Observability: what was really established, whatever the process remembers. *)
  launches,
  authors,      \* the models whose reasoning the loop's state comes from
  basis,        \* what the last checks and verification of a patch looked at
  ruledOut,     \* classes this line of reasoning has ruled out
  fresh         \* signatures proposed since a class was last newly ruled out

disk  == <<ckpt, package, patchedDir>>
cause == <<top, target>>
work  == <<attempt, patch, staged>>
ghost == <<launches, authors, basis, ruledOut, fresh>>
loop  == <<model, budget, confirm, round, experiments, eliminated, seen>>
vars  == <<disk, pc, loop, cause, work, status, ghost>>

-----------------------------------------------------------------------------
(* Reports, signatures, the checkpoint file and the approval package. *)

Report    == [runs : ConfirmRuns, failed : BOOLEAN, errored : BOOLEAN]
Signature == Classes \X SUBSET Classes
MaybePatch == Patches \cup {None}
Basis     == [checked : MaybePatch, stressed : MaybePatch, verified : MaybePatch,
              clean : BOOLEAN]

\* An absent value is no value of the kinds it stands in for.
ASSUME NoneAssumption == None \notin Patches /\ None \notin Classes /\ None \notin Report

Checkpoint ==
  [model : Models, confirm : Report \cup {None}, rounds : 0..MaxRounds,
   experiments : 0..MaxRounds, eliminated : SUBSET Classes, seen : SUBSET Signature,
   authors : SUBSET Models]

Phases   == {"idle", "confirm", "propose", "experiment", "patch", "apply", "validate",
             "verify", "clear", "files", "evidence", "approve"}
\* "STUCK" is UNRESOLVED with the stuck rule's reason.
Statuses == {"NO_FLAKE", "PENDING", "UNRESOLVED", "STUCK", "ERROR", "NONE", "BROKEN"}

NoBasis   == [checked |-> None, stressed |-> None, verified |-> None, clean |-> FALSE]
NoPackage == [files |-> None, proof |-> NoBasis, complete |-> FALSE]

\* A case never checkpointed under model m.
Fresh(m) ==
  [model |-> m, confirm |-> None, rounds |-> 0, experiments |-> 0, eliminated |-> {},
   seen |-> {}, authors |-> {}]

\* Mutants of LoadCheckpoint: the writer's model is not compared; the round counter
\* outlives the experiments it counts; the signatures stay in the file.
LoadAnyModel(m) == IF ckpt = None THEN Fresh(m) ELSE [ckpt EXCEPT !.model = m]
LoadKeepsRounds(m) ==
  IF ckpt = None THEN Fresh(m)
  ELSE IF ckpt.model = m THEN ckpt
  ELSE [Fresh(m) EXCEPT !.confirm = ckpt.confirm, !.rounds = ckpt.rounds]
LoadForgetsSignatures(m) ==
  IF ckpt = None THEN Fresh(m)
  ELSE IF ckpt.model = m THEN [ckpt EXCEPT !.seen = {}]
  ELSE [Fresh(m) EXCEPT !.confirm = ckpt.confirm]

\* load_checkpoint: another model's file yields its CONFIRM and nothing else.
LoadCheckpoint(m) ==
  IF ckpt = None THEN Fresh(m)
  ELSE IF ckpt.model = m THEN ckpt
  ELSE [Fresh(m) EXCEPT !.confirm = ckpt.confirm]

\* Mutant of Reusable: any stored CONFIRM will do.
ReusableAtAnySize(report, runs) == report # None

\* A stored CONFIRM may stand in for one at least as large as this launch would take.
Reusable(report, runs) == report # None /\ report.runs >= runs

\* save_checkpoint: what the process holds, `eliminated` as it stands at the save.
SavedCheckpoint(report, nRounds, nExperiments, by) ==
  [model |-> model, confirm |-> report, rounds |-> nRounds, experiments |-> nExperiments,
   eliminated |-> eliminated, seen |-> seen, authors |-> by]

-----------------------------------------------------------------------------
(* The steps of run_agent_case. *)

Init ==
  /\ ckpt = None /\ package = NoPackage /\ patchedDir = None
  /\ pc = "idle" /\ status = "NONE"
  /\ model \in Models /\ budget \in ConfirmRuns
  /\ confirm = None /\ round = 0 /\ experiments = 0 /\ eliminated = {} /\ seen = {}
  /\ top = None /\ target = None
  /\ attempt = 0 /\ patch = None /\ staged = None
  /\ launches = 0 /\ authors = {} /\ basis = NoBasis
  /\ ruledOut = {} /\ fresh = {}

\* A process starts on the case with model m and a CONFIRM budget of runs.
Launch(m, runs) ==
  LET stored == LoadCheckpoint(m)
      same   == ckpt # None /\ ckpt.model = m
  IN /\ pc = "idle" /\ launches < MaxLaunches
     /\ pc' = "confirm" /\ status' = "UNRESOLVED"
     /\ model' = m /\ budget' = runs
     /\ confirm' = IF Reusable(stored.confirm, runs) THEN stored.confirm ELSE None
     /\ round' = stored.rounds /\ experiments' = stored.experiments
     /\ eliminated' = stored.eliminated /\ seen' = stored.seen
     /\ top' = None /\ target' = None
     /\ attempt' = 0 /\ patch' = None /\ staged' = None
     /\ launches' = launches + 1 /\ authors' = stored.authors /\ basis' = NoBasis
     /\ ruledOut' = IF same THEN ruledOut ELSE {}
     /\ fresh'    = IF same THEN fresh ELSE {}
     /\ UNCHANGED disk

\* The loop goes on only from a baseline in which some run failed.
AfterConfirm(report) ==
  IF report.failed
  THEN pc' = "propose" /\ status' = status
  ELSE pc' = "idle" /\ status' = "NO_FLAKE"

ReuseConfirm ==
  /\ pc = "confirm" /\ confirm # None
  /\ AfterConfirm(confirm)
  /\ UNCHANGED <<disk, loop, cause, work, ghost>>

MeasureConfirm(failed, errored) ==
  LET report == [runs |-> budget, failed |-> failed, errored |-> errored]
  IN /\ pc = "confirm" /\ confirm = None
     /\ confirm' = report
     /\ ckpt' = SavedCheckpoint(report, round, experiments, authors)
     /\ AfterConfirm(report)
     /\ UNCHANGED <<package, patchedDir, model, budget, round, experiments, eliminated,
                    seen, cause, work, ghost>>

\* The process ends, with an outcome or without; what it knew of a patch goes with it.
End(outcome) ==
  /\ pc' = "idle" /\ status' = outcome
  /\ attempt' = 0 /\ patch' = None /\ staged' = None

\* The case is over: the process returns an outcome.
Conclude(outcome) == End(outcome) /\ UNCHANGED disk

\* range(already_done + 1, max_rounds + 1) and range(1, max_patch_attempts + 1).
RoundsLeft == round < MaxRounds
AttemptsLeft == attempt < MaxPatchAttempts

\* All rounds are spent.
Exhaust ==
  /\ pc = "propose" /\ ~RoundsLeft
  /\ Conclude("UNRESOLVED")
  /\ UNCHANGED <<loop, cause, ghost>>

NoHypotheses ==
  /\ pc = "propose" /\ RoundsLeft
  /\ round' = round + 1
  /\ Conclude("UNRESOLVED")
  /\ UNCHANGED <<model, budget, confirm, experiments, eliminated, seen, cause, ghost>>

\* Mutant of SignatureOf: what is ruled out is left out.
SignatureOfClass(class) == <<class, {}>>

\* What a hypothesis is compared on: its class, and what is ruled out by now.
SignatureOf(class) == <<class, eliminated>>

\* The leading hypothesis was already proposed with these classes ruled out.
Stuck(class) ==
  /\ pc = "propose" /\ RoundsLeft
  /\ SignatureOf(class) \in seen
  /\ round' = round + 1 /\ top' = class
  /\ Conclude("STUCK")
  /\ UNCHANGED <<model, budget, confirm, experiments, eliminated, seen, target, ghost>>

Propose(class, aim) ==
  /\ pc = "propose" /\ RoundsLeft
  /\ SignatureOf(class) \notin seen
  /\ pc' = "experiment"
  /\ round' = round + 1
  /\ top' = class /\ target' = aim
  /\ seen' = seen \cup {SignatureOf(class)}
  /\ fresh' = fresh \cup {<<class, ruledOut>>}
  /\ UNCHANGED <<disk, model, budget, confirm, experiments, eliminated, work, status,
                 launches, authors, basis, ruledOut>>

\* A propose or patch request dies for good: quota, or the retries ran out.
LLMFails ==
  /\ \/ pc = "propose" /\ RoundsLeft /\ round' = round + 1
     \/ pc = "patch" /\ AttemptsLeft /\ round' = round
  /\ Conclude("ERROR")
  /\ UNCHANGED <<model, budget, confirm, experiments, eliminated, seen, cause, ghost>>

\* `eliminated.append(targeted.root_cause_class)`, then the next round; an experiment whose
\* runs errored does this like one that refutes its hypothesis.
Eliminate ==
  /\ pc' = "propose"
  /\ eliminated' = eliminated \cup {target}
  /\ ruledOut' = ruledOut \cup {target}
  /\ fresh' = IF target \in ruledOut THEN fresh ELSE {}

\* run_experiment and the round's checkpoint, which is written before the
\* experiment's own verdict is appended to `eliminated`.
RunExperiment(verdict) ==
  /\ pc = "experiment"
  /\ experiments' = experiments + 1
  /\ authors' = authors \cup {model}
  /\ ckpt' = SavedCheckpoint(confirm, round, experiments + 1, authors \cup {model})
  /\ \/ /\ verdict = "confirms"
        /\ pc' = "patch" /\ attempt' = 0
        /\ UNCHANGED <<eliminated, ruledOut, fresh>>
     \/ /\ verdict \in {"refutes", "invalid"}
        /\ Eliminate
        /\ attempt' = attempt
  /\ UNCHANGED <<package, patchedDir, model, budget, confirm, round, seen, cause, patch,
                 staged, status, launches, basis>>

AuthorPatch(p) ==
  /\ pc = "patch" /\ AttemptsLeft
  /\ pc' = "apply"
  /\ attempt' = attempt + 1 /\ patch' = p
  /\ UNCHANGED <<disk, loop, cause, staged, status, ghost>>

\* Mutant of ApplyPatch: the path stays staged.
ApplyPatchStaged ==
  /\ pc = "apply"
  /\ pc' = "validate"
  /\ patchedDir' = patch
  /\ UNCHANGED <<ckpt, package, loop, cause, work, status, ghost>>

\* apply_patch rebuilds the copy, then clear_stage drops its staged content.
ApplyPatch ==
  /\ pc = "apply"
  /\ pc' = "validate"
  /\ patchedDir' = patch /\ staged' = None
  /\ UNCHANGED <<ckpt, package, loop, cause, attempt, patch, status, ghost>>

\* Mutant of RejectPatch: the attempt is not counted.
RejectPatchUncounted ==
  /\ pc = "apply"
  /\ pc' = "patch"
  /\ patchedDir' = None /\ attempt' = attempt - 1
  /\ UNCHANGED <<ckpt, package, loop, cause, patch, staged, status, ghost>>

\* PatchApplicationError: the copy is left rebuilt, at most partly patched.
RejectPatch ==
  /\ pc = "apply"
  /\ pc' = "patch"
  /\ patchedDir' = None
  /\ UNCHANGED <<ckpt, package, loop, cause, work, status, ghost>>

\* executor.stage: a path already staged is not read again.
Staged(cached) == IF cached = None THEN patchedDir ELSE cached

\* FixValidator.validate: structure is read from the directory; only a patch that
\* passes it is stressed, and the stress batch runs the staged content.
Validate(intact, failed, errored) ==
  /\ pc = "validate"
  /\ staged' = IF intact THEN Staged(staged) ELSE staged
  /\ basis' = [basis EXCEPT !.checked = IF intact THEN patchedDir ELSE @,
                            !.stressed = IF intact THEN Staged(staged) ELSE @]
  /\ pc' = IF intact /\ ~failed /\ ~errored THEN "verify" ELSE "patch"
  /\ UNCHANGED <<disk, loop, cause, attempt, patch, status, launches, authors, ruledOut,
                 fresh>>

\* Every attempt was rejected: the hypothesis goes, and so does the round.
AbandonPatches ==
  /\ pc = "patch" /\ ~AttemptsLeft
  /\ Eliminate
  /\ UNCHANGED <<disk, model, budget, confirm, round, experiments, seen, cause, work,
                 status, launches, authors, basis>>

\* VERIFY: clear_stage, then a full batch over the patched copy.
Verify(failed, errored) ==
  /\ pc = "verify"
  /\ staged' = Staged(None)
  /\ basis' = [basis EXCEPT !.verified = Staged(None), !.clean = ~failed /\ ~errored]
  /\ \/ /\ ~failed /\ ~errored
        /\ pc' = "clear" /\ status' = "PENDING"
        /\ UNCHANGED <<eliminated, ruledOut, fresh>>
     \/ /\ failed \/ errored
        /\ Eliminate
        /\ status' = status
  /\ UNCHANGED <<disk, model, budget, confirm, round, experiments, seen, cause, attempt,
                 patch, launches, authors>>

-----------------------------------------------------------------------------
(* write_approval_package, one file-system effect at a time. *)

InPackage(from, to) ==
  /\ pc = from /\ pc' = to
  /\ UNCHANGED <<ckpt, patchedDir, loop, cause, work, status, ghost>>

\* Mutant of ClearPackage: the new package is written over the old one.
KeepPackage == InPackage("clear", "files") /\ UNCHANGED package

ClearPackage == InPackage("clear", "files") /\ package' = NoPackage

WriteFiles ==
  /\ InPackage("files", "evidence")
  /\ package' = [files |-> patch, proof |-> basis, complete |-> FALSE]

WriteEvidence ==
  /\ InPackage("evidence", "approve")
  /\ package' = [package EXCEPT !.complete = TRUE]

\* The approve turn is traced and the outcome returned.
Present ==
  /\ pc = "approve"
  /\ Conclude("PENDING")
  /\ UNCHANGED <<loop, cause, ghost>>

-----------------------------------------------------------------------------
(* The process ends without an outcome.                                    *)

Die(how) ==
  /\ pc # "idle"
  /\ End(how)
  /\ UNCHANGED <<package, patchedDir, loop, cause, ghost>>

\* It is killed, or its trace cannot be kept.
Crash == Die("NONE") /\ UNCHANGED ckpt

\* A reply that is not JSON, or an error of the client's other than LLMError, is raised
\* through the loop, which catches LLMError alone.
Break ==
  /\ (pc = "propose" /\ RoundsLeft) \/ (pc = "patch" /\ AttemptsLeft)
  /\ Die("BROKEN") /\ UNCHANGED ckpt

\* save_checkpoint truncates the file before it writes: dying there loses it.
CrashInSave ==
  /\ pc = "experiment" \/ (pc = "confirm" /\ confirm = None)
  /\ ckpt' = None
  /\ Die("NONE")

\* Nothing runs and the bound on launches is reached.
Rest == pc = "idle" /\ launches = MaxLaunches /\ UNCHANGED vars

Step ==
  \/ ReuseConfirm
  \/ \E failed, errored \in BOOLEAN : MeasureConfirm(failed, errored)
  \/ Exhaust \/ NoHypotheses \/ LLMFails
  \/ \E class \in Classes : Stuck(class)
  \/ \E class, aim \in Classes : Propose(class, aim)
  \/ \E verdict \in {"confirms", "refutes", "invalid"} : RunExperiment(verdict)
  \/ \E p \in Patches : AuthorPatch(p)
  \/ ApplyPatch \/ RejectPatch
  \/ \E intact, failed, errored \in BOOLEAN : Validate(intact, failed, errored)
  \/ AbandonPatches
  \/ \E failed, errored \in BOOLEAN : Verify(failed, errored)
  \/ ClearPackage \/ WriteFiles \/ WriteEvidence \/ Present

Next ==
  \/ \E m \in Models, runs \in ConfirmRuns : Launch(m, runs)
  \/ Step
  \/ Crash \/ CrashInSave \/ Break
  \/ Rest

Spec == Init /\ [][Next]_vars

-----------------------------------------------------------------------------
(* Properties. *)

\* Every variable holds a value of its kind.
TypeOK ==
  /\ ckpt \in Checkpoint \cup {None}
  /\ package \in [files : MaybePatch, proof : Basis, complete : BOOLEAN]
  /\ patchedDir \in MaybePatch
  /\ pc \in Phases /\ status \in Statuses
  /\ model \in Models /\ budget \in ConfirmRuns /\ confirm \in Report \cup {None}
  /\ round \in 0..MaxRounds /\ experiments \in 0..MaxRounds
  /\ eliminated \in SUBSET Classes /\ seen \in SUBSET Signature
  /\ top \in Classes \cup {None} /\ target \in Classes \cup {None}
  /\ attempt \in 0..MaxPatchAttempts
  /\ patch \in MaybePatch /\ staged \in MaybePatch
  /\ launches \in 0..MaxLaunches /\ authors \in SUBSET Models /\ basis \in Basis
  /\ ruledOut \in SUBSET Classes
  /\ fresh \in SUBSET Signature

\* A basis that proves a patch: the structural checks, the stress batch and a clean
\* verification all looked at that patch.
Proves(b, p) == b.clean /\ b.checked = p /\ b.stressed = p /\ b.verified = p

\* Nothing unverified ever reaches the approval directory, whole or half written, in
\* this launch or a later one: what lies there is the patch that passed every check and
\* survived verification, not one from another attempt, round or launch that a stage
\* cache or a scratch copy still held (orchestrator.py:450-506).
PackageIsProven == package.files # None => Proves(package.proof, package.files)

\* Past CONFIRM the loop rests on a baseline that failed at least once and is at least
\* as large as this launch's configuration asks for, however many launches, models and
\* budgets the checkpoint has been through (orchestrator.py:326-361).
ConfirmSupportsTheLoop ==
  pc \notin {"idle", "confirm"} =>
    confirm # None /\ confirm.failed /\ confirm.runs >= budget

\* A round counts as completed only if its experiment actually ran: across crashes,
\* resumes and changes of model the file never claims a round it has no experiment for,
\* and a resumed loop starts at the round after the last one it has (DECISIONS D-018).
RoundsAreBackedByExperiments ==
  /\ ckpt # None => ckpt.rounds = ckpt.experiments
  /\ pc \in {"propose", "patch", "apply", "validate", "verify"} => round = experiments

\* What one model concluded is never evidence for another: all of the reasoning a
\* process acts on, and all that it saves, comes from the model it runs
\* (checkpoint.py:16-23).
OneModelsReasoning ==
  /\ pc # "idle" => authors \subseteq {model}
  /\ ckpt # None => ckpt.authors \subseteq {ckpt.model}

\* The patch this launch has proven, if any.
ProvenPatch == IF Proves(basis, basis.verified) THEN basis.verified ELSE None

\* The loop implements the approval gate (ApprovalGate): seen from the approval
\* directory, every step of a launch, every crash and every relaunch is a step the
\* gate allows (orchestrator.py:198-287, 501-550).
Gate == INSTANCE ApprovalGate WITH
  proven    <- ProvenPatch,
  offered   <- package.files,
  sealed    <- package.complete,
  announced <- pc = "idle" /\ status = "PENDING"

ImplementsGate == Gate!Spec

\* What a launch can still do, in steps: the rounds it has left with all their patch
\* attempts, what is left of this round, and the package.
RoundSteps == 4 * MaxPatchAttempts + 3

StepsLeft ==
  LET rounds   == (MaxRounds - round) * RoundSteps
      attempts == 4 * (MaxPatchAttempts - attempt)
  IN  CASE pc = "confirm"    -> rounds + 6
        [] pc = "propose"    -> rounds + 5
        [] pc = "experiment" -> rounds + 4 + RoundSteps
        [] pc = "patch"      -> rounds + attempts + 6
        [] pc = "apply"      -> rounds + attempts + 9
        [] pc = "validate"   -> rounds + attempts + 8
        [] pc = "verify"     -> rounds + attempts + 7
        [] pc = "clear"      -> 4
        [] pc = "files"      -> 3
        [] pc = "evidence"   -> 2
        [] pc = "approve"    -> 1
        [] pc = "idle"       -> 0

\* "Five rounds is an arbitrary bound to keep a loop finite" (orchestrator.py:19-20): no
\* reply, verdict, rejection or resumption makes a launch spend nothing of what it has
\* left, which at its start is at most 6 + MaxRounds * RoundSteps.  That its calls return is
\* not claimed: a run may hold its batch (Execution), a trickling reply its request.
LaunchRunsOut ==
  [][/\ pc # "idle" => StepsLeft' < StepsLeft
     /\ pc = "idle" /\ pc' # "idle" => StepsLeft' <= 6 + MaxRounds * RoundSteps]_vars

\* "throwing them away means the next attempt spends its first requests rediscovering them"
\* (checkpoint.py:6-8): whatever launches, models, budgets and crashes come between, a
\* rewritten file rests on a CONFIRM at least as large, and under the same model on every
\* round, elimination and proposal it had.  (A torn file is None: it starts over.)
CheckpointOnlyGrows ==
  [][ckpt # None /\ ckpt' # None =>
       /\ ckpt'.confirm.runs >= ckpt.confirm.runs
       /\ ckpt'.model = ckpt.model =>
            /\ ckpt'.rounds >= ckpt.rounds
            /\ ckpt.eliminated \subseteq ckpt'.eliminated
            /\ ckpt.seen \subseteq ckpt'.seen]_vars

\* What the results file makes of an outcome (ResultsLedger's RunCase): PENDING comes with
\* the whole package of the patch that was verified, and a launch that found no flake has
\* verified nothing (run_agent_case's returns, results_store.py:49-67).
OutcomeIsBacked ==
  pc = "idle" =>
    /\ status = "PENDING" => package.complete /\ Proves(basis, package.files)
    /\ status = "NO_FLAKE" => basis = NoBasis

\* A case is given up as stuck only if no class was newly ruled out since its leading
\* hypothesis was last proposed, which is what the outcome tells the user
\* (orchestrator.py:399-406).  Of a case's first launch; see ResumeKeepsEliminations.
StuckMeansNoNewEvidence ==
  launches <= 1 /\ status = "STUCK" => <<top, ruledOut>> \in fresh

\* A resumed case "starts from the hypotheses already ruled out rather than proposing them
\* again" (checkpoint.py:10-12): a relaunch with the same model knows every class the
\* earlier launch ruled out.
ResumeKeepsEliminations == pc # "idle" => ruledOut \subseteq eliminated

=============================================================================
