---------------------------- MODULE ResultsLedger ----------------------------
(***************************************************************************)
(* The agent's results file (src/src/agent/results_store.py) and the two   *)
(* programs that rewrite it: a launch of src/scripts/run_agent.py, which   *)
(* merges all of its outcomes into the file after every case, and the      *)
(* human's src/scripts/record_decision.py, which applies, traces,          *)
(* documents and records a decision on a package.  Neither knows of the    *)
(* other, either may die at any point, and both rewrite the file by        *)
(* reading it, truncating it and writing it back.                          *)
(*                                                                         *)
(* Simplifications.                                                        *)
(*  - A record is its status, the launch it comes from and a number that   *)
(*    orders what evidence_depth compares after the status.                *)
(*  - A truncated or half-written file is an empty one: both readers take  *)
(*    an unreadable file for a file without results.                       *)
(*  - superseded_attempts is the set of launches in it; the same launch is *)
(*    entered again at each of its later saves.                            *)
(*  - A package is replaced in two steps; AgentLoop has the finer ones.    *)
(*  - The decision's turn is appended, or lost to a gap; Tracer has the    *)
(*    writes.  A script traces one turn, so its tracer does not raise.     *)
(*  - One agent_results*.json file; the scripts write only that one.       *)
(***************************************************************************)
EXTENDS Integers

CONSTANTS
  Cases,        \* corpus cases
  MaxEvidence,  \* bound: evidence beyond the status is 0..MaxEvidence
  Verified,     \* evidence from which a verification is part of it
  MaxLaunches,  \* bound: launches of the agent
  MaxDecisions, \* bound: runs of record_decision
  None          \* an absent value

ASSUME LedgerAssumption ==
  /\ MaxEvidence \in Nat /\ Verified \in 0..MaxEvidence
  /\ MaxLaunches \in Nat /\ MaxDecisions \in Nat

VARIABLES
  (* On disk. *)
  results,    \* results/agent_results.json: the record of each case
  packages,   \* results/pending_approval/<case>
  corpus,     \* the launch whose patch was copied over the case, 0 if none
  turns,      \* human turns in the trajectories: <<case, decision>>
  (* The launch. *)
  pcL, todo, case,
  outcomes,   \* what the launch has concluded, case by case
  merged,     \* what save_agent_results is about to write
  launches,
  (* The human's script. *)
  pcH, subject, decision, apply,
  updated,    \* the document update_results is about to write
  decisions,
  (* Observability. *)
  found,      \* the file as the launch found it
  best,       \* the deepest outcome saved of each case since the file was last torn
  latest,     \* the launch that last saved an outcome of each case, likewise
  overlapped, \* the two programs were both between a read and a write of the file
  cut,        \* cases whose package was being replaced when the launch died
  gaps,       \* human turns the tracer could not write: <<case, decision>>
  judged      \* cases on which a decision was recorded

files   == <<results, packages, corpus, turns>>
process == <<todo, case, outcomes, merged, launches>>
script  == <<subject, decision, apply, updated, decisions>>
saves   == <<found, best, latest, overlapped>>
marks   == <<cut, gaps, judged>>
vars    == <<files, pcL, process, pcH, script, saves, marks>>

-----------------------------------------------------------------------------

Decisions == {"approved", "rejected"}
Concluded == {"PENDING", "UNRESOLVED", "NO_FLAKE", "ERROR"}
Statuses  == Concluded \cup {"APPROVED", "REJECTED_BY_HUMAN"}

Record  == [launch : 1..MaxLaunches, status : Statuses, evidence : 0..MaxEvidence,
            superseded : SUBSET (1..MaxLaunches)]
Ledger  == [Cases -> Record \cup {None}]
Package == [launch : 0..MaxLaunches, whole : BOOLEAN, decision : Decisions \cup {None}]

ASSUME LedgerNoneAssumption == None \notin Record /\ None \notin Decisions /\ None \notin Cases

NoPackage == [launch |-> 0, whole |-> FALSE, decision |-> None]
Empty     == [c \in Cases |-> None]

Judged(record) == record.status \in {"APPROVED", "REJECTED_BY_HUMAN"}

\* STATUS_RANK, where a status it does not know ranks with ERROR.
Rank(status) ==
  CASE status = "PENDING"    -> 4
    [] status = "UNRESOLVED" -> 3
    [] status = "NO_FLAKE"   -> 2
    [] OTHER                 -> 0

\* evidence_depth(a) >= evidence_depth(b): the status first, the rest after.
AsDeep(a, b) ==
  \/ Rank(a.status) > Rank(b.status)
  \/ Rank(a.status) = Rank(b.status) /\ a.evidence >= b.evidence

\* Mutants of Merge: only this run's cases are kept; the shallower attempt leaves no
\* trace.
MergeOwnCasesOnly(existing, incoming) == incoming
MergeSilently(existing, incoming) ==
  [c \in Cases |->
     IF incoming[c] = None THEN existing[c]
     ELSE IF existing[c] = None \/ AsDeep(incoming[c], existing[c]) THEN incoming[c]
     ELSE existing[c]]

\* merge_results: the deeper record of each case, with a trace of a shallower attempt.
Merge(existing, incoming) ==
  [c \in Cases |->
     IF incoming[c] = None THEN existing[c]
     ELSE IF existing[c] = None \/ AsDeep(incoming[c], existing[c]) THEN incoming[c]
     ELSE [existing[c] EXCEPT !.superseded = @ \cup {incoming[c].launch}]]

\* Between reading the file and having written it back.
LaunchSaves == pcL \in {"truncate", "write"}
ScriptSaves == pcH \in {"truncate", "write"}

-----------------------------------------------------------------------------

Init ==
  /\ results = Empty /\ packages = [c \in Cases |-> NoPackage]
  /\ corpus = [c \in Cases |-> 0] /\ turns = {}
  /\ pcL = "idle" /\ todo = {} /\ case = None
  /\ outcomes = Empty /\ merged = Empty /\ launches = 0
  /\ pcH = "idle" /\ subject = None /\ decision = None /\ apply = FALSE
  /\ updated = Empty /\ decisions = 0
  /\ found = Empty /\ best = Empty /\ latest = [c \in Cases |-> 0] /\ overlapped = FALSE
  /\ cut = {} /\ gaps = {} /\ judged = {}

\* Mutant of Launch: the packages of the selected cases are cleared up front.
LaunchClearing(selected) ==
  /\ pcL = "idle" /\ launches < MaxLaunches
  /\ pcL' = "case" /\ todo' = selected
  /\ launches' = launches + 1
  /\ found' = results
  /\ packages' = [c \in Cases |-> IF c \in selected THEN NoPackage ELSE packages[c]]
  /\ UNCHANGED <<results, corpus, turns, case, outcomes, merged, pcH, script, best, latest,
                 overlapped, marks>>

\* run_agent.py is started on some of the cases.
Launch(selected) ==
  /\ pcL = "idle" /\ launches < MaxLaunches
  /\ pcL' = "case" /\ todo' = selected
  /\ launches' = launches + 1
  /\ found' = results
  /\ UNCHANGED <<files, case, outcomes, merged, pcH, script, best, latest, overlapped,
                 marks>>

\* run_agent_case returns, but for the package a PENDING case writes first.
RunCase(c, status, evidence) ==
  /\ pcL = "case" /\ c \in todo
  /\ status = "PENDING" => evidence >= Verified
  /\ status = "NO_FLAKE" => evidence < Verified
  /\ pcL' = IF status = "PENDING" THEN "replace" ELSE "read"
  /\ case' = c /\ todo' = todo \ {c}
  /\ outcomes' = [outcomes EXCEPT ![c] =
       [launch |-> launches, status |-> status, evidence |-> evidence, superseded |-> {}]]
  /\ UNCHANGED <<files, merged, launches, pcH, script, saves, marks>>

\* write_approval_package: the earlier package goes and the patch's files are written...
ReplacePackage ==
  /\ pcL = "replace" /\ pcL' = "package"
  /\ packages' = [packages EXCEPT ![case] = [NoPackage EXCEPT !.launch = launches]]
  /\ UNCHANGED <<results, corpus, turns, process, pcH, script, saves, marks>>

\* ... and then its evidence.
FinishPackage ==
  /\ pcL = "package" /\ pcL' = "read"
  /\ packages' = [packages EXCEPT ![case].whole = TRUE]
  /\ cut' = cut \ {case}
  /\ UNCHANGED <<results, corpus, turns, process, pcH, script, saves, gaps, judged>>

\* save_agent_results reads the file and merges every outcome of the launch into it.
ReadAndMerge ==
  /\ pcL = "read" /\ pcL' = "truncate"
  /\ merged' = Merge(results, outcomes)
  /\ overlapped' = (overlapped \/ ScriptSaves)
  /\ UNCHANGED <<files, todo, case, outcomes, launches, pcH, script, found, best, latest,
                 marks>>

\* write_text opens the file for writing.
LaunchTruncates ==
  /\ pcL = "truncate" /\ pcL' = "write"
  /\ results' = Empty
  /\ UNCHANGED <<packages, corpus, turns, process, pcH, script, saves, marks>>

\* What the process knew goes with it.
ProcessEnds ==
  pcL' = "idle" /\ todo' = {} /\ case' = None /\ outcomes' = Empty /\ merged' = Empty

\* The results are written; the next case is taken up, or the launch is over.
LaunchWrites ==
  /\ pcL = "write"
  /\ results' = merged
  /\ IF todo = {} THEN ProcessEnds
     ELSE pcL' = "case" /\ merged' = Empty /\ UNCHANGED <<todo, case, outcomes>>
  /\ best' = [c \in Cases |->
       IF outcomes[c] = None \/ (best[c] # None /\ AsDeep(best[c], outcomes[c]))
       THEN best[c] ELSE outcomes[c]]
  /\ latest' = [c \in Cases |-> IF outcomes[c] = None THEN latest[c] ELSE launches]
  /\ UNCHANGED <<packages, corpus, turns, launches, pcH, script, found, overlapped, marks>>

\* The file is lost when a writer dies between the truncation and the write.
Tear(torn) ==
  /\ best' = IF torn THEN Empty ELSE best
  /\ latest' = IF torn THEN [c \in Cases |-> 0] ELSE latest

LaunchDies ==
  /\ pcL # "idle" /\ ProcessEnds
  /\ Tear(pcL = "write")
  /\ cut' = IF pcL = "package" THEN cut \cup {case} ELSE cut
  /\ UNCHANGED <<files, launches, pcH, script, found, overlapped, gaps, judged>>

-----------------------------------------------------------------------------
(* record_decision.py. *)

\* A person decides on case c; only an approval can be applied.
Decide(c, verdict, install) ==
  /\ pcH = "idle" /\ decisions < MaxDecisions
  /\ packages[c] # NoPackage
  /\ install => verdict = "approved"
  /\ pcH' = IF install THEN "apply" ELSE "trace"
  /\ subject' = c /\ decision' = verdict /\ apply' = install
  /\ decisions' = decisions + 1
  /\ UNCHANGED <<files, updated, pcL, process, saves, marks>>

\* The script is over; what it held goes with it.
ScriptEnds ==
  pcH' = "idle" /\ subject' = None /\ decision' = None /\ apply' = FALSE /\ updated' = Empty

ApplyPatchFiles ==
  /\ pcH = "apply" /\ pcH' = "trace"
  /\ corpus' = [corpus EXCEPT ![subject] = packages[subject].launch]
  /\ UNCHANGED <<results, packages, turns, pcL, process, script, saves, marks>>

\* Mutant of TraceDecision: the trajectory is left alone.
TraceNothing ==
  /\ pcH = "trace" /\ pcH' = "document"
  /\ UNCHANGED <<files, pcL, process, script, saves, marks>>

\* The one turn of the script's own trajectory.  If no attempt to append it succeeds it is
\* counted as a gap, the first of a new tracer, and the script goes on.
TraceDecision ==
  /\ pcH = "trace" /\ pcH' = "document"
  /\ \/ turns' = turns \cup {<<subject, decision>>} /\ UNCHANGED gaps
     \/ gaps' = gaps \cup {<<subject, decision>>} /\ UNCHANGED turns
  /\ UNCHANGED <<results, packages, corpus, pcL, process, script, saves, cut, judged>>

\* DECISION.md, into whatever package is there by now.
DocumentDecision ==
  /\ pcH = "document" /\ pcH' = "read"
  /\ packages' = [packages EXCEPT ![subject].decision = decision]
  /\ UNCHANGED <<results, corpus, turns, pcL, process, script, saves, marks>>

\* What update_results stores as the status.
StatusOf(verdict) == IF verdict = "approved" THEN "APPROVED" ELSE "REJECTED_BY_HUMAN"

\* update_results reads the file; a file without the case is not written.
UpdateResults ==
  /\ pcH = "read"
  /\ IF results[subject] = None
     THEN ScriptEnds /\ UNCHANGED overlapped
     ELSE /\ pcH' = "truncate"
          /\ updated' = [results EXCEPT ![subject].status = StatusOf(decision)]
          /\ overlapped' = (overlapped \/ LaunchSaves)
          /\ UNCHANGED <<subject, decision, apply>>
  /\ UNCHANGED <<files, pcL, process, decisions, found, best, latest, marks>>

ScriptTruncates ==
  /\ pcH = "truncate" /\ pcH' = "write"
  /\ results' = Empty
  /\ UNCHANGED <<packages, corpus, turns, pcL, process, script, saves, marks>>

ScriptWrites ==
  /\ pcH = "write" /\ ScriptEnds
  /\ results' = updated
  /\ judged' = judged \cup {subject}
  /\ UNCHANGED <<packages, corpus, turns, pcL, process, decisions, saves, cut, gaps>>

ScriptDies ==
  /\ pcH # "idle" /\ ScriptEnds
  /\ Tear(pcH = "write")
  /\ UNCHANGED <<files, pcL, process, decisions, found, overlapped, marks>>

-----------------------------------------------------------------------------

\* Nothing runs and the bounds are reached, or nobody cares to go on.
Rest == pcL = "idle" /\ pcH = "idle" /\ UNCHANGED vars

LaunchStep ==
  \/ \E c \in Cases, status \in Concluded, evidence \in 0..MaxEvidence :
       RunCase(c, status, evidence)
  \/ ReplacePackage \/ FinishPackage
  \/ ReadAndMerge \/ LaunchTruncates \/ LaunchWrites

ScriptStep ==
  \/ ApplyPatchFiles \/ TraceDecision \/ DocumentDecision
  \/ UpdateResults \/ ScriptTruncates \/ ScriptWrites

Next ==
  \/ \E selected \in SUBSET Cases \ {{}} : Launch(selected)
  \/ LaunchStep \/ LaunchDies
  \/ \E c \in Cases, verdict \in Decisions, install \in BOOLEAN : Decide(c, verdict, install)
  \/ ScriptStep \/ ScriptDies
  \/ Rest

Spec == Init /\ [][Next]_vars

-----------------------------------------------------------------------------
(* Properties. *)

\* Every variable holds a value of its kind.
TypeOK ==
  /\ results \in Ledger /\ packages \in [Cases -> Package]
  /\ corpus \in [Cases -> 0..MaxLaunches] /\ turns \in SUBSET (Cases \X Decisions)
  /\ pcL \in {"idle", "case", "replace", "package", "read", "truncate", "write"}
  /\ todo \in SUBSET Cases /\ case \in Cases \cup {None}
  /\ outcomes \in Ledger /\ merged \in Ledger /\ launches \in 0..MaxLaunches
  /\ pcH \in {"idle", "apply", "trace", "document", "read", "truncate", "write"}
  /\ subject \in Cases \cup {None} /\ decision \in Decisions \cup {None}
  /\ apply \in BOOLEAN /\ updated \in Ledger /\ decisions \in 0..MaxDecisions
  /\ found \in Ledger /\ best \in Ledger /\ latest \in [Cases -> 0..MaxLaunches]
  /\ overlapped \in BOOLEAN
  /\ cut \in SUBSET Cases /\ gaps \in SUBSET (Cases \X Decisions)
  /\ judged \in SUBSET Cases

\* The file is being rewritten by neither program.
Settled == pcL # "write" /\ pcH # "write"

\* "a record may only be replaced by one of equal or greater evidence depth"
\* (results_store.py:13-14), over any number of launches on any cases: as long as the
\* programs took turns, the file holds for every case no human has judged a record at
\* least as deep as every outcome saved since the file was last torn.
DeepestSurvives ==
  Settled /\ ~overlapped =>
    \A c \in Cases \ judged :
      best[c] # None => results[c] # None /\ AsDeep(results[c], best[c])

\* "otherwise a quota-blocked re-run is invisible" (results_store.py:95-96): the launch
\* that last saved an outcome of a case is the record's, or among those it superseded,
\* decisions or none, as long as the programs took turns.
LatestAttemptIsVisible ==
  Settled /\ ~overlapped =>
    \A c \in Cases :
      latest[c] # 0 =>
        /\ results[c] # None
        /\ latest[c] = results[c].launch \/ latest[c] \in results[c].superseded

\* Decisions whose turn is in a trajectory, or was given to a tracer that could not write it.
Told == turns \cup gaps

\* A decision is told before it shows: a judged record and a DECISION.md each have their
\* turn, or the gap counted in its place, whatever the launches and other decisions rewrote
\* in between and wherever the programs died (record_decision.py:117-165).
DecisionsAreTold ==
  \A c \in Cases :
    /\ results[c] # None /\ Judged(results[c]) =>
         \E verdict \in Decisions :
           results[c].status = StatusOf(verdict) /\ <<c, verdict>> \in Told
    /\ packages[c].decision # None => <<c, packages[c].decision>> \in Told

\* "a record may only be replaced by one of equal or greater evidence depth"
\* (results_store.py:13-14), a record a human has judged included: as long as the programs
\* took turns, each case has a judged record, or one as deep as every outcome saved.
JudgedIsNotLost ==
  Settled /\ ~overlapped =>
    \A c \in Cases :
      best[c] # None =>
        results[c] # None /\ (Judged(results[c]) \/ AsDeep(results[c], best[c]))

\* "Every finished case is PENDING with a package" (self_audit.py:99): a case PENDING in
\* the file has a whole package, across launches and decisions, unless a later launch is
\* replacing it or died doing so.
PendingHasPackage ==
  \A c \in Cases :
    /\ results[c] # None /\ results[c].status = "PENDING"
    /\ c \notin cut /\ ~(pcL = "package" /\ case = c)
    => packages[c].whole

\* "an interrupted run ... cannot leave *worse* results than it found"
\* (results_store.py:122-123): once a launch is over, however it ended, each case it
\* found has a record at least as deep.
NoWorseThanFound ==
  pcL = "idle" =>
    \A c \in Cases : found[c] # None => results[c] # None /\ AsDeep(results[c], found[c])

\* The records the next reader will find, or would if the writer under way does not die: a
\* rewrite takes effect when the file is truncated.
Effective ==
  IF pcL = "write" THEN merged ELSE IF pcH = "write" THEN updated ELSE results

Store == INSTANCE ResultsStore WITH
  Verdicts  <- {StatusOf(verdict) : verdict \in Decisions},
  store     <- Effective,
  attempts  <- outcomes,
  launch    <- launches,
  contested <- overlapped

\* The file is a ResultsStore: as long as the two programs take turns, reading, merging,
\* truncating and writing it is one step, and a death anywhere in between leaves either
\* what was there, or what was to be there, or nothing (results_store.py:113-135,
\* record_decision.py:60-87).
ImplementsStore == Store!Spec

=============================================================================
