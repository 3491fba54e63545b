-------------------------- MODULE EvaluationProofs --------------------------
(***************************************************************************)
(* That what the report shows was measured and judged of the patch it is   *)
(* shown for, for any cases and any number of patches.                     *)
(*                                                                         *)
(* Each file is safe because of what its writer holds in memory meanwhile: *)
(* a run has dry rows only if it is a dry run (NoDryRows), a re-validation *)
(* holds the patches that are on file unless they moved or were removed    *)
(* (TargetsOnFile, TargetsInPackage), and a package that was made anew has *)
(* neither a patch yet nor a banner (ReplacedIsGone).  With these the four *)
(* properties are inductive.                                               *)
(***************************************************************************)
EXTENDS Evaluation, TLAPS

NoDryRows ==
  /\ \A c \in Cases : baseline[c] # None => baseline[c].batch # "dry"
  /\ mode # "dry" => \A c \in Cases : rows[c] # None => rows[c].batch # "dry"

OnFile(t) == baseline[t.case] # None => t.patch = baseline[t.case].patch

TargetsOnFile ==
  /\ \A t \in targets \cup judged : (t.arm = "baseline" /\ t.case \in unmoved) => OnFile(t)
  /\ \A f \in findings : (f.arm = "baseline" /\ f.case \in upToDate) => OnFile(f)

TargetsInPackage ==
  \A t \in targets : (t.arm = "agent" /\ t.case \notin crossed) => packages[t.case] \in {0, t.patch}

ReplacedIsGone ==
  /\ pcA # "cases" => case \in Cases
  /\ pcA = "write" =>
       /\ packages[case] = 0
       /\ case \notin crossed => banners[case] = None /\ ~Held(case)

DecidedOnFile ==
  \A c \in Cases : decided[c] # None =>
    /\ current[c] \in {None, decided[c]} /\ earlier[c] \in {None, decided[c]}
    /\ current[c] # None \/ earlier[c] # None

IInv ==
  /\ TypeOK /\ NoDryRows /\ TargetsOnFile
  /\ TargetsInPackage /\ BannerIsOfThePatch /\ ReplacedIsGone
  /\ DecidedOnFile

-----------------------------------------------------------------------------

LEMMA NextPatch ==
  ASSUME NEW n \in Nat, NEW p \in 0..n, p < n
  PROVE  p + 1 \in 0..n
OBVIOUS

LEMMA InitInvariant == Init => IInv
<1> SUFFICES ASSUME Init PROVE IInv
  OBVIOUS
<1> USE EvaluationAssumption DEF Init, NoRows
<1>1. earlier \in [Cases -> Statuses \cup {None}]
  BY DEF Statuses, Concluded
<1>2. TypeOK
  <2>1. /\ 0 \in 0..MaxPatches /\ packages \in [Cases -> 0..MaxPatches]
        /\ directories \subseteq Cases /\ mode \in Modes
    BY DEF Modes
  <2>2. /\ baseline \in [Cases -> Row \cup {None}] /\ rows \in [Cases -> Row \cup {None}]
        /\ banners \in [Cases -> Patches \cup {None}]
        /\ current \in [Cases -> Statuses \cup {None}]
        /\ decided \in [Cases -> Decisions \cup {None}]
        /\ outcomes \in [Cases -> Concluded \cup {None}]
    OBVIOUS
  <2>3. findings \subseteq Finding /\ judged \subseteq Finding /\ targets \subseteq Target
    OBVIOUS
  <2>. QED
    BY <1>1, <2>1, <2>2, <2>3 DEF TypeOK
<1>3. NoDryRows
  BY DEF NoDryRows
<1>4. TargetsOnFile /\ TargetsInPackage
  BY DEF TargetsOnFile, TargetsInPackage
<1>5. BannerIsOfThePatch /\ ReplacedIsGone /\ DecidedOnFile
  BY DEF BannerIsOfThePatch, ReplacedIsGone, DecidedOnFile
<1>. QED
  BY <1>2, <1>3, <1>4, <1>5 DEF IInv

\* Type correctness: rows, findings, packages and statuses stay what they are.
LEMMA TypeInvariant == IInv /\ [Next]_vars => TypeOK'
<1> SUFFICES ASSUME IInv, [Next]_vars PROVE TypeOK'
  OBVIOUS
<1>0. scope' \in Scopes
  BY DEF IInv, TypeOK, Next, vars
<1> USE EvaluationAssumption, <1>0 DEF IInv, TypeOK
<1>1. ASSUME NEW selected \in SUBSET Cases, NEW asked \in Modes,
             StartBaseline(selected, asked)
      PROVE  TypeOK'
  BY <1>1 DEF StartBaseline, NoRows, files, launch, recheck, marks
<1>2. ASSUME NEW c \in Cases, NEW batch \in Batches,
             BaselineCase(c, batch)
      PROVE  TypeOK'
  <2>0. patches + 1 \in 0..MaxPatches
    <3>1. patches \in 0..MaxPatches /\ MaxPatches \in Nat
      OBVIOUS
    <3>2. patches < MaxPatches
      BY <1>2 DEF BaselineCase
    <3>. QED
      BY <3>1, <3>2, NextPatch
  <2>1. [patch |-> patches + 1, batch |-> batch] \in Row
    BY <2>0 DEF Row
  <2>2. rows' \in [Cases -> Row \cup {None}] /\ patches' \in 0..MaxPatches /\ todo' \subseteq Cases
    BY <1>2, <2>0, <2>1 DEF BaselineCase
  <2>. QED
    BY <1>2, <2>2 DEF BaselineCase, files, launch, recheck, marks
<1>3. ASSUME NEW c \in Cases, BaselineCallFails(c) PROVE TypeOK'
  <2>1. ErrorRow \in Row
    <3>1. 0 \in 0..MaxPatches /\ "unapplied" \in Batches
      BY DEF Batches
    <3>. QED
      BY <3>1 DEF ErrorRow, Row
  <2>. QED
    BY <1>3, <2>1 DEF BaselineCallFails, files, launch, recheck, marks
<1>4. CASE SaveBaseline
  <2>1. Merged \in [Cases -> Row \cup {None}]
    BY DEF Merged
  <2>2. baseline' \in [Cases -> Row \cup {None}] /\ unmoved' \subseteq Cases
        /\ upToDate' \subseteq Cases
    BY <1>4, <2>1 DEF SaveBaseline
  <2>. QED
    BY <1>4, <2>2 DEF SaveBaseline, BaselineEnds, NoRows, Modes, launch, recheck
<1>5. CASE BaselineDies
  BY <1>5 DEF BaselineDies, BaselineEnds, NoRows, Modes, launch, recheck, marks
<1>6. ASSUME NEW c \in Cases, NEW status \in Concluded, Conclude(c, status) PROVE TypeOK'
  BY <1>6 DEF Conclude, files, one_shot, recheck, marks
<1>7. CASE ClearPackage
  BY <1>7 DEF ClearPackage, ReplacedIsGone, one_shot, recheck
<1>8. CASE WritePackage
  BY <1>8 DEF WritePackage, ReplacedIsGone, one_shot, recheck, marks
<1>9. CASE SaveAgent
  <2>1. decided' \in [Cases -> Decisions \cup {None}]
    BY <1>9 DEF SaveAgent
  <2>. QED
    BY <1>9, <2>1 DEF SaveAgent, one_shot, recheck
<1>10. CASE LaunchEnds
  <2>1. /\ current' \in [Cases -> Statuses \cup {None}]
        /\ decided' \in [Cases -> Decisions \cup {None}]
        /\ outcomes' \in [Cases -> Concluded \cup {None}]
    BY <1>10 DEF LaunchEnds, NoRows
  <2>. QED
    BY <1>10, <2>1 DEF LaunchEnds, one_shot, recheck
<1>18. CASE RemoveFiles
  <2>1. /\ packages' \in [Cases -> 0..MaxPatches] /\ banners' \in [Cases -> Patches \cup {None}]
        /\ directories' \subseteq Cases
    BY <1>18 DEF RemoveFiles
  <2>. QED
    BY <1>18, <2>1 DEF RemoveFiles, one_shot, launch, recheck, marks
<1>11. ASSUME NEW c \in Cases, NEW decision \in Decisions, Decide(c, decision) PROVE TypeOK'
  BY <1>11 DEF Decide, Statuses, one_shot, launch, recheck
<1>12. ASSUME NEW arms \in {Arms, {"agent"}, {"baseline"}}, Collect(arms) PROVE TypeOK'
  BY <1>12 DEF Collect, Collected, files, one_shot, launch
<1>13. ASSUME NEW t \in targets, Unappliable(t) PROVE TypeOK'
  BY <1>13 DEF Unappliable, files, one_shot, launch, marks
<1>14. ASSUME NEW t \in targets, Judge(t) PROVE TypeOK'
  <2>1. t \in Target /\ t.case \in Cases /\ t.patch \in Patches
    BY DEF Target
  <2>2. banners' \in [Cases -> Patches \cup {None}]
    BY <1>14, <2>1 DEF Judge, WithBanner
  <2>. QED
    BY <1>14, <2>1, <2>2 DEF Judge, WithBanner, Finding, one_shot, launch, marks
<1>15. CASE SaveFindings
  BY <1>15 DEF SaveFindings, RecheckEnds, one_shot, launch
<1>16. CASE RecheckDies
  BY <1>16 DEF RecheckDies, RecheckEnds, one_shot, launch
<1>17. CASE UNCHANGED vars
  BY <1>17 DEF vars, files, one_shot, launch, recheck, marks
<1>. QED
  BY <1>1, <1>2, <1>3, <1>4, <1>5, <1>6, <1>7, <1>8, <1>9, <1>10, <1>11, <1>12, <1>13, <1>14,
     <1>15, <1>16, <1>17, <1>18 DEF Next, Step

\* A dry run's rows stay out of the file, and no other run has any.
LEMMA RowInvariant == IInv /\ [Next]_vars => NoDryRows'
<1> SUFFICES ASSUME IInv, [Next]_vars PROVE NoDryRows'
  OBVIOUS
<1> USE DEF IInv, NoDryRows
<1>1. ASSUME NEW selected \in SUBSET Cases, NEW asked \in Modes,
             StartBaseline(selected, asked)
      PROVE  NoDryRows'
  BY <1>1 DEF StartBaseline, NoRows, files
<1>2. ASSUME NEW c \in Cases, NEW batch \in Batches,
             BaselineCase(c, batch)
      PROVE  NoDryRows'
  BY <1>2 DEF BaselineCase, files, TypeOK
<1>3. ASSUME NEW c \in Cases, BaselineCallFails(c) PROVE NoDryRows'
  BY <1>3 DEF BaselineCallFails, ErrorRow, files, TypeOK
<1>4. CASE SaveBaseline
  BY <1>4 DEF SaveBaseline, Merged, BaselineEnds, NoRows
<1>5. CASE BaselineDies
  BY <1>5 DEF BaselineDies, BaselineEnds, NoRows
<1>6. CASE UNCHANGED <<baseline, mode, rows>>
  BY <1>6
<1>. QED
  BY <1>1, <1>2, <1>3, <1>4, <1>5, <1>6
     DEF Next, Step, Conclude, RemoveFiles, ClearPackage, WritePackage, SaveAgent, LaunchEnds,
            Decide,
         Collect, Unappliable, Judge, WithBanner, SaveFindings, RecheckDies, vars, files, one_shot

\* What a re-validation holds of the baseline is on file, or the file has moved.
LEMMA FileInvariant == IInv /\ [Next]_vars => TargetsOnFile'
<1> SUFFICES ASSUME IInv, [Next]_vars PROVE TargetsOnFile'
  OBVIOUS
<1> USE DEF IInv, TargetsOnFile, OnFile
<1>1. CASE SaveBaseline
  <2>1. CASE mode = "dry"
    BY <1>1, <2>1 DEF SaveBaseline, recheck
  <2>2. CASE mode # "dry"
    <3>1. \A c \in Cases : c \in unmoved' \/ c \in upToDate' => baseline'[c] = baseline[c]
      BY <1>1, <2>2 DEF SaveBaseline, Merged, Rerun
    <3>2. unmoved' \subseteq unmoved /\ upToDate' \subseteq upToDate
          /\ UNCHANGED <<targets, judged, findings>>
      BY <1>1, <2>2 DEF SaveBaseline, recheck
    <3>3. \A t \in targets \cup judged \cup findings : t.case \in Cases
      BY DEF TypeOK, Target, Finding
    <3>. QED
      BY <3>1, <3>2, <3>3
  <2>. QED
    BY <2>1, <2>2
<1>2. CASE BaselineDies
  <2>1. UNCHANGED <<targets, judged, findings, unmoved, upToDate>>
        /\ (baseline' = baseline \/ baseline' = NoRows)
    BY <1>2 DEF BaselineDies, recheck, marks
  <2>2. \A t \in targets \cup judged \cup findings : t.case \in Cases
    BY DEF TypeOK, Target, Finding
  <2>. QED
    BY <2>1, <2>2 DEF NoRows
<1>3. ASSUME NEW arms \in {Arms, {"agent"}, {"baseline"}}, Collect(arms) PROVE TargetsOnFile'
  <2>1. \A t \in targets' : t.arm = "baseline" => OnFile(t)
    BY <1>3 DEF Collect, Collected
  <2>. QED
    BY <1>3, <2>1 DEF Collect, files
<1>4. ASSUME NEW t \in targets, Unappliable(t) PROVE TargetsOnFile'
  BY <1>4 DEF Unappliable, files, marks
<1>5. ASSUME NEW t \in targets, Judge(t) PROVE TargetsOnFile'
  BY <1>5 DEF Judge, WithBanner, marks
<1>6. CASE SaveFindings
  BY <1>6 DEF SaveFindings, RecheckEnds
<1>7. CASE RecheckDies
  BY <1>7 DEF RecheckDies, RecheckEnds
<1>8. CASE UNCHANGED <<baseline, targets, judged, findings, unmoved, upToDate>>
  BY <1>8
<1>. QED
  BY <1>1, <1>2, <1>3, <1>4, <1>5, <1>6, <1>7, <1>8
     DEF Next, Step, StartBaseline, BaselineCase, BaselineCallFails, Conclude, RemoveFiles,
         ClearPackage, WritePackage, SaveAgent, LaunchEnds, Decide, vars, files, recheck, marks

\* What it holds of a package is in the package, or the package was replaced; and the same
\* of the banners it writes.
LEMMA PackageInvariant ==
  IInv /\ [Next]_vars => TargetsInPackage' /\ BannerIsOfThePatch' /\ ReplacedIsGone'
<1> SUFFICES ASSUME IInv, [Next]_vars
             PROVE  TargetsInPackage' /\ BannerIsOfThePatch' /\ ReplacedIsGone'
  OBVIOUS
<1> USE EvaluationNoneAssumption
        DEF IInv, TypeOK, TargetsInPackage, BannerIsOfThePatch, ReplacedIsGone
<1>1. ASSUME NEW c \in Cases, NEW status \in Concluded, Conclude(c, status)
      PROVE  TargetsInPackage' /\ BannerIsOfThePatch' /\ ReplacedIsGone'
  BY <1>1 DEF Conclude, files, recheck, marks
<1>2. CASE ClearPackage
  <2>1. /\ case \in Cases /\ case' = case /\ targets' = targets /\ pcA' = "write"
        /\ packages' = [packages EXCEPT ![case] = 0]
        /\ banners' = [banners EXCEPT ![case] = None]
        /\ Held(case)' = Held(case)
    BY <1>2 DEF ClearPackage, recheck, Held
  <2>2. CASE Held(case)
    <3>1. crossed' = crossed \cup {case}
      BY <1>2, <2>2 DEF ClearPackage
    <3>. QED
      BY <2>1, <3>1 DEF Target
  <2>3. CASE ~Held(case)
    <3>1. crossed' = crossed \ {case}
      BY <1>2, <2>3 DEF ClearPackage
    <3>2. TargetsInPackage' /\ BannerIsOfThePatch'
      BY <2>1, <2>3, <3>1 DEF Target, Held
    <3>3. ReplacedIsGone'
      BY <2>1, <2>3, <3>1 DEF Held
    <3>. QED
      BY <3>2, <3>3
  <2>. QED
    BY <2>2, <2>3
<1>3. CASE WritePackage
  <2>1. /\ case \in Cases /\ packages[case] = 0 /\ targets' = targets /\ crossed' = crossed
        /\ pcA' = "save" /\ case' = case /\ banners' = banners
        /\ packages' = [packages EXCEPT ![case] = patches + 1]
    BY <1>3 DEF WritePackage, recheck, marks
  <2>2. case \notin crossed => banners[case] = None /\ ~Held(case)
    BY <1>3 DEF WritePackage
  <2>3. \A t \in targets : t.arm = "agent" /\ t.case = case => case \in crossed
    BY <2>2 DEF Held
  <2>. QED
    BY <2>1, <2>2, <2>3 DEF Target
<1>4. CASE SaveAgent \/ LaunchEnds
  BY <1>4 DEF SaveAgent, LaunchEnds, recheck
<1>5. CASE RemoveFiles
  <2>1. /\ case \in Cases /\ UNCHANGED <<targets, crossed, pcA, case>> /\ pcA = "clear"
        /\ packages' \in {packages, [packages EXCEPT ![case] = 0]}
        /\ banners' \in {banners, [banners EXCEPT ![case] = None]}
    BY <1>5 DEF RemoveFiles, launch, recheck, marks
  <2>2. \A c \in Cases : packages'[c] \in {0, packages[c]} /\ banners'[c] \in {None, banners[c]}
    BY <2>1
  <2>. QED
    BY <2>1, <2>2 DEF Target
<1>6. ASSUME NEW arms \in {Arms, {"agent"}, {"baseline"}}, Collect(arms)
      PROVE  TargetsInPackage' /\ BannerIsOfThePatch' /\ ReplacedIsGone'
  <2>1. UNCHANGED <<packages, banners, crossed, pcA, case>> /\ targets' = Collected(arms)
    BY <1>6 DEF Collect, files, launch
  <2>2. \A t \in Collected(arms) : t.arm = "agent" => t.patch = packages[t.case] /\ t.patch # 0
    BY DEF Collected, Target, Patches
  <2>3. pcA = "write" => ~Held(case)'
    BY <2>1, <2>2 DEF Held
  <2>. QED
    BY <2>1, <2>2, <2>3
<1>7. ASSUME NEW t \in targets, Unappliable(t)
      PROVE  TargetsInPackage' /\ BannerIsOfThePatch' /\ ReplacedIsGone'
  BY <1>7 DEF Unappliable, Held, files, launch, marks
<1>8. ASSUME NEW t \in targets, Judge(t)
      PROVE  TargetsInPackage' /\ BannerIsOfThePatch' /\ ReplacedIsGone'
  <2>1. UNCHANGED <<packages, crossed, pcA, case>> /\ targets' \subseteq targets
        /\ t.case \in Cases
    BY <1>8 DEF Judge, WithBanner, launch, marks, Target
  <2>0. Held(case)' => Held(case)
    BY <2>1 DEF Held
  <2>2. CASE t.arm = "baseline"
    BY <1>8, <2>0, <2>1, <2>2 DEF Judge, WithBanner
  <2>3. CASE t.arm = "agent"
    <3>1. banners' = [banners EXCEPT ![t.case] = t.patch]
      BY <1>8, <2>3 DEF Judge, WithBanner
    <3>2. pcA = "write" /\ t.case = case => case \in crossed
      BY <2>3 DEF Held
    <3>. QED
      BY <2>0, <2>1, <2>3, <3>1, <3>2
  <2>. QED
    BY <2>2, <2>3 DEF Target, Arms
<1>9. CASE SaveFindings
  BY <1>9 DEF SaveFindings, RecheckEnds, Held, launch
<1>10. CASE RecheckDies
  BY <1>10 DEF RecheckDies, RecheckEnds, Held, launch
<1>11. CASE UNCHANGED <<packages, banners, targets, crossed, pcA, case>>
  BY <1>11 DEF Held
<1>. QED
  BY <1>1, <1>2, <1>3, <1>4, <1>5, <1>6, <1>7, <1>8, <1>9, <1>10, <1>11
     DEF Next, Step, StartBaseline, BaselineCase, BaselineCallFails, SaveBaseline, BaselineDies,
         Decide, vars, files, launch, recheck, marks

\* A decision is on file in every record of its case until a launch saves another.
LEMMA DecisionInvariant == IInv /\ [Next]_vars => DecidedOnFile'
<1> SUFFICES ASSUME IInv, [Next]_vars PROVE DecidedOnFile'
  OBVIOUS
<1> USE DEF IInv, TypeOK, DecidedOnFile
<1>1. CASE SaveAgent
  <2>1. \A c \in Cases : decided'[c] # None =>
          current'[c] = current[c] /\ decided'[c] = decided[c]
    BY <1>1 DEF SaveAgent
  <2>. QED
    BY <1>1, <2>1 DEF SaveAgent
<1>4. CASE LaunchEnds
  BY <1>4 DEF LaunchEnds, NoRows
<1>2. ASSUME NEW c \in Cases, NEW decision \in Decisions, Decide(c, decision)
      PROVE  DecidedOnFile'
  <2>1. \A d \in Cases : d # c =>
          current'[d] = current[d] /\ earlier'[d] = earlier[d] /\ decided'[d] = decided[d]
    BY <1>2 DEF Decide
  <2>2. /\ current'[c] = IF current[c] = None THEN None ELSE decision
        /\ earlier'[c] = IF earlier[c] = None THEN None ELSE decision
        /\ decided'[c] = IF current[c] = None /\ earlier[c] = None THEN decided[c] ELSE decision
    BY <1>2 DEF Decide
  <2>3. decision # None
    BY EvaluationNoneAssumption DEF Statuses
  <2>4. decided'[c] # None =>
          /\ current'[c] \in {None, decided'[c]} /\ earlier'[c] \in {None, decided'[c]}
          /\ current'[c] # None \/ earlier'[c] # None
    BY <2>2, <2>3
  <2>. QED
    BY <2>1, <2>4
<1>3. CASE UNCHANGED <<current, earlier, decided>>
  BY <1>3
<1>. QED
  BY <1>1, <1>2, <1>3, <1>4
     DEF Next, Step, StartBaseline, BaselineCase, BaselineCallFails, SaveBaseline, BaselineDies,
         Conclude, RemoveFiles, ClearPackage, WritePackage, Collect, Unappliable, Judge, WithBanner,
         SaveFindings, RecheckDies, vars, files, marks

THEOREM Invariance == Spec => []IInv
<1>1. IInv /\ [Next]_vars => IInv'
  BY TypeInvariant, RowInvariant, FileInvariant, PackageInvariant, DecisionInvariant
     DEF IInv
<1>. QED
  BY InitInvariant, <1>1, PTL DEF Spec

-----------------------------------------------------------------------------

\* TypeOK: files and processes keep their types, and no patch exceeds the bound.
THEOREM TypeCorrect == Spec => []TypeOK
<1>1. IInv => TypeOK
  BY DEF IInv
<1>. QED
  BY <1>1, Invariance, PTL

\* VerifiedIsNoDryRun: the batch of a dry run never counts as verified.
THEOREM VerifiedSafety == Spec => []VerifiedIsNoDryRun
<1>1. IInv => VerifiedIsNoDryRun
  BY DEF IInv, NoDryRows, VerifiedIsNoDryRun, Verified, Claimed
<1>. QED
  BY <1>1, Invariance, PTL

\* VerdictIsOfThePatch: the validator's verdict in a row is of that row's patch, until the
\* row moves.
THEOREM VerdictSafety == Spec => []VerdictIsOfThePatch
<1>1. IInv => VerdictIsOfThePatch
  BY DEF IInv, TargetsOnFile, OnFile, VerdictIsOfThePatch, Claimed, FindingsOf
<1>. QED
  BY <1>1, Invariance, PTL

\* BannerIsOfThePatch: a banner beside a package judges the patch in it, unless the package
\* was replaced under a re-validation.
THEOREM BannerSafety == Spec => []BannerIsOfThePatch
<1>1. IInv => BannerIsOfThePatch
  BY DEF IInv
<1>. QED
  BY <1>1, Invariance, PTL

\* DecisionReachesTheReport: a recorded decision is what the report shows, whichever file
\* holds the record, until a launch saves an outcome of the case, be it once more.
THEOREM DecisionSafety == Spec => []DecisionReachesTheReport
<1>1. IInv => DecisionReachesTheReport
  <2> SUFFICES ASSUME IInv, NEW c \in Cases \ Excluded, decided[c] # None
               PROVE  Status(c) = decided[c] /\ c \notin AgentVerified
    BY DEF DecisionReachesTheReport
  <2>1. decided[c] \in Decisions /\ decided[c] # "ERROR" /\ decided[c] # "PENDING"
    BY DecisionAssumption DEF IInv, TypeOK
  <2>2. /\ current[c] \in {None, decided[c]} /\ earlier[c] \in {None, decided[c]}
        /\ current[c] # None \/ earlier[c] # None
    BY DEF IInv, DecidedOnFile
  <2>3. Status(c) = decided[c]
    BY <2>1, <2>2 DEF Status, NotAttempted
  <2>. QED
    BY <2>1, <2>3 DEF AgentVerified
<1>. QED
  BY <1>1, Invariance, PTL
=============================================================================
