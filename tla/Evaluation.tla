----------------------------- MODULE Evaluation -----------------------------
(***************************************************************************)
(* The results a reader of the project is shown, and the programs that     *)
(* make them one file at a time, run by hand in any order and side by      *)
(* side: scripts/run_baseline.py (one patch per case, measured and merged  *)
(* into baseline_results.json), scripts/run_agent.py (packages and agent   *)
(* results), scripts/revalidate_pending.py (today's validator over the     *)
(* patches of both arms), scripts/record_decision.py (a person's word on a *)
(* package) and src/src/evaluate/compare.py, which joins what they wrote.  *)
(*                                                                         *)
(* Simplifications.                                                        *)
(*  - A patch is a number; a later one has a higher number, and none is 0. *)
(*  - The report is a function of the files: Claimed, Verified, FindingsOf *)
(*    and Status are what it would show if it were made now.               *)
(*  - A results file is read, merged and rewritten in one step; so is a    *)
(*    decision made.  ResultsLedger has the interleavings of these steps.  *)
(*  - Which cases a launch was given shows in those it concludes; it may   *)
(*    end after any of them.                                               *)
(*  - NO_FLAKE stands under UNRESOLVED: an attempt without a package.      *)
(*  - A finding or a banner is the patch it is of: what is at stake here   *)
(*    is which patch a verdict is read for, not which way it goes.         *)
(*  - There are two agent results files, as in results/: the one launches  *)
(*    write, which sorts first, and one an earlier model left behind.      *)
(***************************************************************************)
EXTENDS Integers

CONSTANTS
  Cases,       \* corpus cases
  Excluded,    \* cases kept out of both arms (run_compare.EXCLUDED)
  Decisions,   \* what record_decision.py writes: APPROVED and REJECTED_BY_HUMAN
  MaxPatches,  \* bound: patches authored, by both arms
  Scopes,      \* what may be run together: the programs, the cases they are run on, and
               \* those an earlier model may have left a record of
  None         \* an absent value

ASSUME EvaluationAssumption == Excluded \subseteq Cases /\ MaxPatches \in Nat

VARIABLES
  scope,      \* the one of Scopes this is
  (* On disk. *)
  baseline,   \* baseline_results.json: a row per case
  findings,   \* revalidation.json: the findings of the last re-validation
  directories, \* cases that have a directory of an approval package
  packages,   \* the patch in it, 0 if there is none
  banners,    \* REVALIDATION.md of each package: the patch it is of
  current,    \* agent_results.json: the status of each case
  earlier,    \* the other agent_results_*.json
  (* run_baseline.py. *)
  pcB, todo, mode, rows,
  (* run_agent.py. *)
  pcA, case, outcomes,
  (* revalidate_pending.py. *)
  pcV, targets, judged,
  patches,    \* patches authored so far
  (* Observability. *)
  unmoved,    \* cases whose row is as the running re-validation read it
  upToDate,   \* cases whose row is as the re-validation behind findings read it
  crossed,    \* packages replaced while a re-validation held their earlier patch
  decided     \* the decision recorded on a case, until a launch saves an outcome of it

files     == <<baseline, findings, directories, packages, banners, current, earlier>>
one_shot  == <<pcB, todo, mode, rows>>
launch    == <<pcA, case, outcomes>>
recheck   == <<pcV, targets, judged>>
marks     == <<unmoved, upToDate, crossed, decided>>
vars      == <<scope, files, one_shot, launch, recheck, patches, marks>>

-----------------------------------------------------------------------------

Patches == 1..MaxPatches
Arms == {"agent", "baseline"}

\* How many runs a baseline makes of a patch: those the protocol or --runs asks for, none
\* (--dry-run), or as many as range(n) has for a negative --runs.
Modes == {"measured", "dry", "negative"}

\* A BaselineResult: the patch and its batch of runs, if it applied; "unclean" is a batch
\* with failures or errors, "dry" and "void" are empty ones.  An LLMError leaves a row
\* without a patch.
Measured == {"clean", "unclean"}
Batches  == Measured \cup {"dry", "void", "unapplied"}
Row      == [patch : 0..MaxPatches, batch : Batches]
ErrorRow == [patch |-> 0, batch |-> "unapplied"]

Target  == [arm : Arms, case : Cases, patch : Patches]
Finding == Target

NotAttempted == {"ERROR"}
Concluded    == {"PENDING", "UNRESOLVED", "ERROR"}
Statuses     == Concluded \cup Decisions

ASSUME DecisionAssumption == Decisions \cap {"PENDING", "UNRESOLVED", "ERROR", "NOT RUN"} = {}
ASSUME EvaluationNoneAssumption == None \notin Row \cup Statuses \cup 0..MaxPatches \cup Cases

NoRows   == [c \in Cases |-> None]

-----------------------------------------------------------------------------
(* The report: build_rows and what is rendered of the rows. *)

\* The patch of the row was returned, i.e. the baseline claims to have fixed the case.
Claimed == {c \in Cases : baseline[c] # None /\ baseline[c].patch # 0}

\* residual_flake_rate == 0.0 and is_sound: so is an empty batch.
Verified == {c \in Claimed : baseline[c].batch \in {"clean", "dry", "void"}}

FindingsOf(c) == {f \in findings : f.arm = "baseline" /\ f.case = c}

\* A later file wins only if it attempted the case and the earlier one did not.
Status(c) ==
  IF c \in Excluded THEN "EXCLUDED"
  ELSE IF current[c] = None /\ earlier[c] = None THEN "NOT RUN"
  ELSE IF \/ current[c] = None
          \/ current[c] \in NotAttempted /\ earlier[c] # None /\ earlier[c] \notin NotAttempted
       THEN earlier[c]
  ELSE current[c]

AgentVerified == {c \in Cases : Status(c) = "PENDING"}

-----------------------------------------------------------------------------

Init ==
  /\ scope \in Scopes
  /\ baseline = NoRows /\ findings = {}
  /\ directories = {} /\ packages = [c \in Cases |-> 0]
  /\ banners = [c \in Cases |-> None]
  /\ current = NoRows /\ earlier \in [Cases -> {None, "PENDING", "ERROR"}]
  /\ \A c \in Cases \ scope.older : earlier[c] = None
  /\ pcB = "idle" /\ todo = {} /\ mode = "measured" /\ rows = NoRows
  /\ pcA = "cases" /\ case = None /\ outcomes = NoRows
  /\ pcV = "idle" /\ targets = {} /\ judged = {}
  /\ patches = 0
  /\ unmoved = {} /\ upToDate = {} /\ crossed = {} /\ decided = NoRows

-----------------------------------------------------------------------------
(* run_baseline.py. *)

StartBaseline(selected, asked) ==
  /\ "run_baseline" \in scope.programs /\ selected \subseteq scope.cases
  /\ pcB = "idle" /\ selected # {}
  /\ pcB' = "cases" /\ todo' = selected /\ mode' = asked /\ rows' = NoRows
  /\ UNCHANGED <<files, launch, recheck, patches, marks>>

\* run_baseline_case: one call, one patch; if it applies, a batch of the runs asked for.
BaselineCase(c, batch) ==
  /\ pcB = "cases" /\ c \in todo /\ patches < MaxPatches
  /\ batch \in Measured => mode = "measured"
  /\ batch = "dry" => mode = "dry"
  /\ batch = "void" => mode = "negative"
  /\ patches' = patches + 1
  /\ todo' = todo \ {c}
  /\ rows' = [rows EXCEPT ![c] = [patch |-> patches + 1, batch |-> batch]]
  /\ UNCHANGED <<files, pcB, mode, launch, recheck, marks>>

\* The call fails; the case's row says so.
BaselineCallFails(c) ==
  /\ pcB = "cases" /\ c \in todo
  /\ todo' = todo \ {c} /\ rows' = [rows EXCEPT ![c] = ErrorRow]
  /\ UNCHANGED <<files, pcB, mode, launch, recheck, patches, marks>>

BaselineEnds == pcB' = "idle" /\ todo' = {} /\ mode' = "measured" /\ rows' = NoRows

\* Rows of this run replace those of the file, an error row a measured one as well.
Merged == [c \in Cases |-> IF rows[c] # None THEN rows[c] ELSE baseline[c]]
Rerun  == {c \in Cases : rows[c] # None}

\* Mutant of SaveBaseline: a dry run is merged into the published file.
SaveEitherRun ==
  /\ pcB = "cases" /\ todo = {}
  /\ baseline' = Merged
  /\ unmoved' = unmoved \ Rerun /\ upToDate' = upToDate \ Rerun
  /\ BaselineEnds
  /\ UNCHANGED <<findings, directories, packages, banners, current, earlier, launch,
                 recheck, patches,
                 crossed, decided>>

\* A dry run writes a file of its own.
SaveBaseline ==
  /\ pcB = "cases" /\ todo = {}
  /\ IF mode = "dry" THEN UNCHANGED <<baseline, unmoved, upToDate>>
     ELSE /\ baseline' = Merged
          /\ unmoved' = unmoved \ Rerun /\ upToDate' = upToDate \ Rerun
  /\ BaselineEnds
  /\ UNCHANGED <<findings, directories, packages, banners, current, earlier, launch,
                 recheck, patches,
                 crossed, decided>>

\* The process dies, or an exception ends it; while writing, the file goes with it.
BaselineDies ==
  /\ pcB = "cases"
  /\ \/ UNCHANGED baseline
     \/ todo = {} /\ mode # "dry" /\ baseline' = NoRows
  /\ BaselineEnds
  /\ UNCHANGED <<findings, directories, packages, banners, current, earlier, launch,
                 recheck, patches,
                 marks>>

-----------------------------------------------------------------------------
(* run_agent.py, seen from its files. *)

\* A case of the launch concludes; PENDING has an approval package to write first.
Conclude(c, status) ==
  /\ "run_agent" \in scope.programs /\ c \in scope.cases
  /\ pcA = "cases" /\ outcomes[c] = None
  /\ status = "PENDING" => patches < MaxPatches
  /\ pcA' = IF status = "PENDING" THEN "clear" ELSE "save"
  /\ case' = c /\ outcomes' = [outcomes EXCEPT ![c] = status]
  /\ UNCHANGED <<files, one_shot, recheck, patches, marks>>

Held(c) == \E t \in targets : t.arm = "agent" /\ t.case = c

\* write_approval_package: rmtree removes the earlier package file by file, the banner with
\* it, and the directory last...
RemoveFiles ==
  /\ pcA = "clear" /\ case \in directories
  /\ packages' \in {packages, [packages EXCEPT ![case] = 0]}
  /\ banners' \in {banners, [banners EXCEPT ![case] = None]}
  /\ \/ UNCHANGED directories
     \/ packages'[case] = 0 /\ banners'[case] = None /\ directories' = directories \ {case}
  /\ UNCHANGED <<baseline, findings, current, earlier, one_shot, launch, recheck, patches,
                 marks>>

\* Mutant of ClearPackage: files are written over what is left of the earlier package.
KeepPackage ==
  /\ pcA = "clear" /\ pcA' = "write"
  /\ directories' = directories \cup {case}
  /\ packages' = [packages EXCEPT ![case] = 0]
  /\ crossed' = IF Held(case) THEN crossed \cup {case} ELSE crossed \ {case}
  /\ UNCHANGED <<baseline, findings, banners, current, earlier, one_shot, case, outcomes,
                 recheck, patches, unmoved, upToDate, decided>>

\* ... mkdir makes it anew, once the earlier package is gone...
ClearPackage ==
  /\ pcA = "clear" /\ pcA' = "write"
  /\ directories' = directories \cup {case}
  /\ packages' = [packages EXCEPT ![case] = 0]
  /\ banners' = [banners EXCEPT ![case] = None]
  /\ crossed' = IF Held(case) THEN crossed \cup {case} ELSE crossed \ {case}
  /\ UNCHANGED <<baseline, findings, current, earlier, one_shot, case, outcomes, recheck,
                 patches, unmoved, upToDate, decided>>

\* ... and the new one is written.
WritePackage ==
  /\ pcA = "write" /\ pcA' = "save"
  /\ patches < MaxPatches /\ patches' = patches + 1
  /\ packages' = [packages EXCEPT ![case] = patches + 1]
  /\ UNCHANGED <<baseline, findings, directories, banners, current, earlier, one_shot, case,
                 outcomes, recheck, marks>>

\* STATUS_RANK.
Rank(status) ==
  CASE status = "PENDING"    -> 2
    [] status = "UNRESOLVED" -> 1
    [] OTHER                 -> 0

\* The statuses merge_results may keep of the two; with equal ranks the rest decides.
Kept(old, new) ==
  {s \in {old, new} : s # None /\ (s = new => old = None \/ Rank(new) >= Rank(old))
                               /\ (s = old => new = None \/ Rank(old) >= Rank(new))}

\* save_agent_results merges into the file all that the launch has concluded, also what it
\* saved before; then the launch takes up another case.
SaveAgent ==
  /\ pcA = "save"
  /\ current' \in [Cases -> Statuses \cup {None}]
  /\ \A c \in Cases : IF outcomes[c] = None THEN current'[c] = current[c]
                      ELSE current'[c] \in Kept(current[c], outcomes[c])
  /\ decided' = [c \in Cases |-> IF outcomes[c] = None THEN decided[c] ELSE None]
  /\ pcA' = "cases" /\ case' = None
  /\ UNCHANGED <<baseline, findings, directories, packages, banners, earlier, one_shot,
                 outcomes, recheck, patches, unmoved, upToDate, crossed>>

\* It is over, or dies; while saving, the file goes with it.
LaunchEnds ==
  /\ outcomes # NoRows
  /\ pcA' = "cases" /\ case' = None /\ outcomes' = NoRows
  /\ \/ UNCHANGED <<current, decided>>
     \/ pcA = "save" /\ current' = NoRows /\ decided' = NoRows
  /\ UNCHANGED <<baseline, findings, directories, packages, banners, earlier, one_shot,
                 recheck, patches, unmoved, upToDate, crossed>>

-----------------------------------------------------------------------------
(* record_decision.py. *)

\* Mutant of Decide: the decision is looked for in agent_results.json only.
DecideInOneFile(c, decision) ==
  /\ "record_decision" \in scope.programs
  /\ c \in directories
  /\ current' = [current EXCEPT ![c] = IF @ = None THEN None ELSE decision]
  /\ decided' = [decided EXCEPT ![c] =
       IF current[c] = None /\ earlier[c] = None THEN @ ELSE decision]
  /\ UNCHANGED <<baseline, findings, directories, packages, banners, earlier, one_shot,
                 launch, recheck, patches, unmoved, upToDate, crossed>>

\* The case has a package directory, whatever is in it; update_results: every file that has
\* a record of the case takes the decision.
Decide(c, decision) ==
  /\ "record_decision" \in scope.programs
  /\ c \in directories
  /\ current' = [current EXCEPT ![c] = IF @ = None THEN None ELSE decision]
  /\ earlier' = [earlier EXCEPT ![c] = IF @ = None THEN None ELSE decision]
  /\ decided' = [decided EXCEPT ![c] =
       IF current[c] = None /\ earlier[c] = None THEN @ ELSE decision]
  /\ UNCHANGED <<baseline, findings, directories, packages, banners, one_shot, launch,
                 recheck, patches, unmoved, upToDate, crossed>>

-----------------------------------------------------------------------------
(* revalidate_pending.py. *)

Collected(arms) ==
  {t \in Target : /\ t.arm \in arms
                  /\ t.arm = "agent" => t.patch = packages[t.case]
                  /\ t.arm = "baseline" => t.case \in Claimed /\ t.patch = baseline[t.case].patch}

\* collect_targets reads every patch up front; --arm keeps those of one arm.
Collect(arms) ==
  /\ "revalidate_pending" \in scope.programs
  /\ pcV = "idle"
  /\ pcV' = "judging" /\ targets' = Collected(arms) /\ judged' = {}
  /\ unmoved' = Cases
  /\ UNCHANGED <<files, one_shot, launch, patches, upToDate, crossed, decided>>

\* A patch that does not apply has no finding.
Unappliable(t) ==
  /\ pcV = "judging" /\ t \in targets
  /\ targets' = targets \ {t}
  /\ UNCHANGED <<files, one_shot, launch, pcV, judged, patches, marks>>

\* write_banner: a finding of the agent's arm is also written to the package, whatever
\* patch that now holds.
WithBanner(t) ==
  IF t.arm = "baseline" THEN banners ELSE [banners EXCEPT ![t.case] = t.patch]

\* The validator's verdict.  Without a directory its banner cannot be written.
Judge(t) ==
  /\ pcV = "judging" /\ t \in targets
  /\ t.arm = "agent" => t.case \in directories
  /\ targets' = targets \ {t}
  /\ judged' = judged \cup {t}
  /\ banners' = WithBanner(t)
  /\ UNCHANGED <<baseline, findings, directories, packages, current, earlier, one_shot,
                 launch, pcV, patches, marks>>

RecheckEnds == pcV' = "idle" /\ targets' = {} /\ judged' = {} /\ unmoved' = {}

\* Mutant of SaveFindings: findings of the file that were not made again are kept.
MergeFindings ==
  /\ pcV = "judging" /\ targets = {}
  /\ findings' = judged \cup
       {f \in findings : \A g \in judged : <<g.arm, g.case>> # <<f.arm, f.case>>}
  /\ upToDate' = unmoved
  /\ RecheckEnds
  /\ UNCHANGED <<baseline, directories, packages, banners, current, earlier, one_shot,
                 launch,
                 patches, crossed, decided>>

\* revalidation.json holds this run's findings and no others.
SaveFindings ==
  /\ pcV = "judging" /\ targets = {}
  /\ findings' = judged
  /\ upToDate' = unmoved
  /\ RecheckEnds
  /\ UNCHANGED <<baseline, directories, packages, banners, current, earlier, one_shot,
                 launch,
                 patches, crossed, decided>>

\* It dies, or a write fails; while writing the findings, the file goes with it.
RecheckDies ==
  /\ pcV = "judging"
  /\ \/ UNCHANGED findings
     \/ targets = {} /\ findings' = {}
  /\ RecheckEnds
  /\ UNCHANGED <<baseline, directories, packages, banners, current, earlier, one_shot,
                 launch,
                 patches, upToDate, crossed, decided>>

-----------------------------------------------------------------------------

Step ==
  \/ \E selected \in SUBSET Cases, asked \in Modes : StartBaseline(selected, asked)
  \/ \E c \in Cases, batch \in Batches : BaselineCase(c, batch)
  \/ \E c \in Cases : BaselineCallFails(c)
  \/ SaveBaseline
  \/ BaselineDies
  \/ \E c \in Cases, status \in Concluded : Conclude(c, status)
  \/ RemoveFiles
  \/ ClearPackage
  \/ WritePackage
  \/ SaveAgent
  \/ LaunchEnds
  \/ \E c \in Cases, decision \in Decisions : Decide(c, decision)
  \/ \E arms \in {Arms, {"agent"}, {"baseline"}} : Collect(arms)
  \/ \E t \in targets : Unappliable(t)
  \/ \E t \in targets : Judge(t)
  \/ SaveFindings
  \/ RecheckDies

Next == Step /\ UNCHANGED scope

Spec == Init /\ [][Next]_vars

-----------------------------------------------------------------------------

TypeOK ==
  /\ scope \in Scopes
  /\ baseline \in [Cases -> Row \cup {None}] /\ rows \in [Cases -> Row \cup {None}]
  /\ findings \subseteq Finding /\ judged \subseteq Finding /\ targets \subseteq Target
  /\ directories \subseteq Cases
  /\ packages \in [Cases -> 0..MaxPatches] /\ banners \in [Cases -> Patches \cup {None}]
  /\ current \in [Cases -> Statuses \cup {None}] /\ earlier \in [Cases -> Statuses \cup {None}]
  /\ pcB \in {"idle", "cases"} /\ todo \subseteq Cases /\ mode \in Modes
  /\ pcA \in {"cases", "clear", "write", "save"} /\ case \in Cases \cup {None}
  /\ outcomes \in [Cases -> Concluded \cup {None}]
  /\ pcV \in {"idle", "judging"} /\ patches \in 0..MaxPatches
  /\ unmoved \subseteq Cases /\ upToDate \subseteq Cases /\ crossed \subseteq Cases
  /\ decided \in [Cases -> Decisions \cup {None}]

\* A row the report counts as verified is no dry run's: an empty batch, whose flake rate is
\* 0.0 and which has no errors, gets into the published file through no sequence of dry
\* runs, re-runs, merges and deaths.  (An empty batch of a negative --runs does.)
VerifiedIsNoDryRun == \A c \in Verified : baseline[c].batch # "dry"

\* What the report says the validator made of a baseline patch, it made of the very patch
\* whose residual the same row shows, not of an earlier one, nor of the agent's: as long as
\* the row has not been measured again since the re-validation read it.  (After that the
\* report joins the two by the case's name.)
VerdictIsOfThePatch ==
  \A c \in Claimed \cap upToDate : \A f \in FindingsOf(c) : f.patch = baseline[c].patch

\* A re-validation's banner lies beside the patch it judges, so that "do not apply" never
\* outlives the patch it was said of and an old approval never covers a new patch, whatever
\* half-removed packages the launches that died left behind; except on a package replaced
\* while a re-validation held its earlier patch.
BannerIsOfThePatch ==
  \A c \in Cases \ crossed :
    banners[c] # None /\ packages[c] # 0 => banners[c] = packages[c]

\* A decision recorded on a case is what the report shows of it, in whichever file its
\* record lies, until a launch that has an outcome of the case saves: a new one, or the one
\* the decision was about, which the launch saves again after each of its other cases.
DecisionReachesTheReport ==
  \A c \in Cases \ Excluded :
    decided[c] # None => Status(c) = decided[c] /\ c \notin AgentVerified
=============================================================================
