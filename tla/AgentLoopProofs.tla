--------------------------- MODULE AgentLoopProofs ---------------------------
(***************************************************************************)
(* Safety of the case loop for every set of classes, models and patches,   *)
(* every bound on rounds, attempts and launches, and every CONFIRM budget. *)
(***************************************************************************)
EXTENDS AgentLoop, TLAPS

(* What each phase may rely on, beyond the variables' types.               *)

\* A hypothesis is under investigation in these phases.
TargetIsSet ==
  pc \in {"experiment", "patch", "apply", "validate", "verify"} => target \in Classes

\* The round counter runs one ahead of the experiments only while one is due.
RoundsMatchExperiments ==
  /\ ckpt # None => ckpt.rounds = ckpt.experiments
  /\ pc \in {"confirm", "propose", "patch", "apply", "validate", "verify"} =>
       round = experiments
  /\ pc = "experiment" => round = experiments + 1

\* A CONFIRM taken from the checkpoint is large enough before the loop trusts it.
ConfirmIsLarge ==
  /\ pc = "confirm" /\ confirm # None => confirm.runs >= budget
  /\ ConfirmSupportsTheLoop

\* The patch in hand is the one on disk and the one the checks looked at.
PatchIsOnDisk ==
  /\ pc \in {"apply", "validate", "verify", "clear", "files", "evidence", "approve"} =>
       patch \in Patches
  /\ pc = "validate" => patchedDir = patch /\ staged = None
  /\ pc = "verify" =>
       patchedDir = patch /\ basis.checked = patch /\ basis.stressed = patch

\* Until VERIFY has passed nothing is proven; the package is written only over a proof
\* of the patch in hand, in order.
PackageFollowsProof ==
  /\ pc \in {"confirm", "propose", "experiment", "patch", "apply", "validate", "verify"} =>
       ~basis.clean
  /\ pc = "files" => package = NoPackage
  /\ pc \in {"evidence", "approve"} => package.files = patch
  /\ pc = "approve" => package.complete
  /\ pc \in {"clear", "files", "evidence", "approve"} => Proves(basis, patch)
  /\ PackageIsProven

IInv ==
  /\ TypeOK
  /\ TargetIsSet
  /\ RoundsMatchExperiments
  /\ ConfirmIsLarge
  /\ PatchIsOnDisk
  /\ PackageFollowsProof
  /\ OneModelsReasoning

-----------------------------------------------------------------------------

\* The frame of every action, and the sets the type invariant is made of.
USE DEF vars, disk, cause, work, ghost, loop, TypeOK, Checkpoint, Report, Basis, Signature,
        MaybePatch, Phases, Statuses, NoPackage, NoBasis

\* A case never launched satisfies the invariant.
LEMMA InitEstablishesIInv == Init => IInv
BY BoundsAssumption, NoneAssumption
   DEF Init, IInv, TargetIsSet, RoundsMatchExperiments, ConfirmIsLarge,
       ConfirmSupportsTheLoop, PatchIsOnDisk, PackageFollowsProof, PackageIsProven, Proves,
       OneModelsReasoning

\* Launch preserves the invariant.
LEMMA LaunchKeepsIInv ==
  ASSUME IInv, NEW m \in Models, NEW runs \in ConfirmRuns, Launch(m, runs)
  PROVE  IInv'
<1>1. TypeOK'
  BY BoundsAssumption
     DEF IInv, TargetIsSet, PatchIsOnDisk, RoundsMatchExperiments, Launch, LoadCheckpoint,
         Fresh, Reusable
<1>2. (TargetIsSet /\ RoundsMatchExperiments /\ ConfirmIsLarge)'
  BY BoundsAssumption
     DEF IInv, TargetIsSet, RoundsMatchExperiments, ConfirmIsLarge, ConfirmSupportsTheLoop,
         Launch, LoadCheckpoint, Fresh, Reusable
<1>3. (PatchIsOnDisk /\ PackageFollowsProof)'
  BY NoneAssumption
     DEF IInv, PatchIsOnDisk, PackageFollowsProof, PackageIsProven, Proves, Launch,
         LoadCheckpoint, Fresh, Reusable
<1>4. OneModelsReasoning'
  BY DEF IInv, OneModelsReasoning, Launch, LoadCheckpoint, Fresh, Reusable
<1>5. QED
  BY <1>1, <1>2, <1>3, <1>4 DEF IInv

\* ReuseConfirm preserves the invariant.
LEMMA ReuseConfirmKeepsIInv ==
  ASSUME IInv, ReuseConfirm
  PROVE  IInv'
<1>1. TypeOK'
  BY BoundsAssumption
     DEF IInv, TargetIsSet, PatchIsOnDisk, RoundsMatchExperiments, ReuseConfirm,
         AfterConfirm
<1>2. (TargetIsSet /\ RoundsMatchExperiments /\ ConfirmIsLarge)'
  BY BoundsAssumption
     DEF IInv, TargetIsSet, RoundsMatchExperiments, ConfirmIsLarge, ConfirmSupportsTheLoop,
         ReuseConfirm, AfterConfirm
<1>3. (PatchIsOnDisk /\ PackageFollowsProof)'
  BY NoneAssumption
     DEF IInv, PatchIsOnDisk, PackageFollowsProof, PackageIsProven, Proves, ReuseConfirm,
         AfterConfirm
<1>4. OneModelsReasoning'
  BY DEF IInv, OneModelsReasoning, ReuseConfirm, AfterConfirm
<1>5. QED
  BY <1>1, <1>2, <1>3, <1>4 DEF IInv

\* MeasureConfirm preserves the invariant.
LEMMA MeasureConfirmKeepsIInv ==
  ASSUME IInv, NEW failed \in BOOLEAN, NEW errored \in BOOLEAN, MeasureConfirm(failed, errored)
  PROVE  IInv'
<1>1. TypeOK'
  BY BoundsAssumption
     DEF IInv, TargetIsSet, PatchIsOnDisk, RoundsMatchExperiments, MeasureConfirm,
         AfterConfirm, SavedCheckpoint
<1>a. /\ pc' \in {"propose", "idle"}
      /\ pc' = "propose" => failed
  BY DEF MeasureConfirm, AfterConfirm
<1>b. /\ confirm' = [runs |-> budget, failed |-> failed, errored |-> errored]
      /\ budget' = budget /\ budget \in Nat
  BY BoundsAssumption DEF IInv, MeasureConfirm
<1>c. confirm' \in Report
  BY <1>b DEF IInv
<1>d. ConfirmIsLarge'
  BY <1>a, <1>b, <1>c, NoneAssumption DEF ConfirmIsLarge, ConfirmSupportsTheLoop
<1>e. (TargetIsSet /\ RoundsMatchExperiments)'
  BY <1>a DEF IInv, TargetIsSet, RoundsMatchExperiments, MeasureConfirm, SavedCheckpoint
<1>2. (TargetIsSet /\ RoundsMatchExperiments /\ ConfirmIsLarge)'
  BY <1>d, <1>e
<1>3. (PatchIsOnDisk /\ PackageFollowsProof)'
  BY NoneAssumption
     DEF IInv, PatchIsOnDisk, PackageFollowsProof, PackageIsProven, Proves, MeasureConfirm,
         AfterConfirm, SavedCheckpoint
<1>4. OneModelsReasoning'
  BY DEF IInv, OneModelsReasoning, MeasureConfirm, AfterConfirm, SavedCheckpoint
<1>5. QED
  BY <1>1, <1>2, <1>3, <1>4 DEF IInv

\* Exhaust preserves the invariant.
LEMMA ExhaustKeepsIInv ==
  ASSUME IInv, Exhaust
  PROVE  IInv'
<1>1. TypeOK'
  BY BoundsAssumption
     DEF IInv, TargetIsSet, PatchIsOnDisk, RoundsMatchExperiments, Exhaust, Conclude, End
<1>2. (TargetIsSet /\ RoundsMatchExperiments /\ ConfirmIsLarge)'
  BY BoundsAssumption
     DEF IInv, TargetIsSet, RoundsMatchExperiments, ConfirmIsLarge, ConfirmSupportsTheLoop,
         Exhaust, Conclude, End
<1>3. (PatchIsOnDisk /\ PackageFollowsProof)'
  BY NoneAssumption
     DEF IInv, PatchIsOnDisk, PackageFollowsProof, PackageIsProven, Proves, Exhaust,
         Conclude, End
<1>4. OneModelsReasoning'
  BY DEF IInv, OneModelsReasoning, Exhaust, Conclude, End
<1>5. QED
  BY <1>1, <1>2, <1>3, <1>4 DEF IInv

\* NoHypotheses preserves the invariant.
LEMMA NoHypothesesKeepsIInv ==
  ASSUME IInv, NoHypotheses
  PROVE  IInv'
<1>1. TypeOK'
  BY BoundsAssumption
     DEF IInv, TargetIsSet, PatchIsOnDisk, RoundsMatchExperiments, NoHypotheses, Conclude,
            End,
         RoundsLeft
<1>2. (TargetIsSet /\ RoundsMatchExperiments /\ ConfirmIsLarge)'
  BY BoundsAssumption
     DEF IInv, TargetIsSet, RoundsMatchExperiments, ConfirmIsLarge, ConfirmSupportsTheLoop,
         NoHypotheses, Conclude, End, RoundsLeft
<1>3. (PatchIsOnDisk /\ PackageFollowsProof)'
  BY NoneAssumption
     DEF IInv, PatchIsOnDisk, PackageFollowsProof, PackageIsProven, Proves, NoHypotheses,
         Conclude, End, RoundsLeft
<1>4. OneModelsReasoning'
  BY DEF IInv, OneModelsReasoning, NoHypotheses, Conclude, End, RoundsLeft
<1>5. QED
  BY <1>1, <1>2, <1>3, <1>4 DEF IInv

\* Stuck preserves the invariant.
LEMMA StuckKeepsIInv ==
  ASSUME IInv, NEW class \in Classes, Stuck(class)
  PROVE  IInv'
<1>1. TypeOK'
  BY BoundsAssumption
     DEF IInv, TargetIsSet, PatchIsOnDisk, RoundsMatchExperiments, Stuck, Conclude, End,
         RoundsLeft
<1>2. (TargetIsSet /\ RoundsMatchExperiments /\ ConfirmIsLarge)'
  BY BoundsAssumption
     DEF IInv, TargetIsSet, RoundsMatchExperiments, ConfirmIsLarge, ConfirmSupportsTheLoop,
         Stuck, Conclude, End, RoundsLeft
<1>3. (PatchIsOnDisk /\ PackageFollowsProof)'
  BY NoneAssumption
     DEF IInv, PatchIsOnDisk, PackageFollowsProof, PackageIsProven, Proves, Stuck,
         Conclude, End, RoundsLeft
<1>4. OneModelsReasoning'
  BY DEF IInv, OneModelsReasoning, Stuck, Conclude, End, RoundsLeft
<1>5. QED
  BY <1>1, <1>2, <1>3, <1>4 DEF IInv

\* Propose preserves the invariant.
LEMMA ProposeKeepsIInv ==
  ASSUME IInv, NEW class \in Classes, NEW aim \in Classes, Propose(class, aim)
  PROVE  IInv'
<1>1. TypeOK'
  BY BoundsAssumption
     DEF IInv, TargetIsSet, PatchIsOnDisk, RoundsMatchExperiments, Propose, RoundsLeft,
         SignatureOf
<1>2. (TargetIsSet /\ RoundsMatchExperiments /\ ConfirmIsLarge)'
  BY BoundsAssumption
     DEF IInv, TargetIsSet, RoundsMatchExperiments, ConfirmIsLarge, ConfirmSupportsTheLoop,
         Propose, RoundsLeft, SignatureOf
<1>3. (PatchIsOnDisk /\ PackageFollowsProof)'
  BY NoneAssumption
     DEF IInv, PatchIsOnDisk, PackageFollowsProof, PackageIsProven, Proves, Propose,
         RoundsLeft, SignatureOf
<1>4. OneModelsReasoning'
  BY DEF IInv, OneModelsReasoning, Propose, RoundsLeft, SignatureOf
<1>5. QED
  BY <1>1, <1>2, <1>3, <1>4 DEF IInv

\* LLMFails preserves the invariant.
LEMMA LLMFailsKeepsIInv ==
  ASSUME IInv, LLMFails
  PROVE  IInv'
<1>1. TypeOK'
  BY BoundsAssumption
     DEF IInv, TargetIsSet, PatchIsOnDisk, RoundsMatchExperiments, LLMFails, Conclude, End,
         RoundsLeft, AttemptsLeft
<1>2. (TargetIsSet /\ RoundsMatchExperiments /\ ConfirmIsLarge)'
  BY BoundsAssumption
     DEF IInv, TargetIsSet, RoundsMatchExperiments, ConfirmIsLarge, ConfirmSupportsTheLoop,
         LLMFails, Conclude, End, RoundsLeft, AttemptsLeft
<1>3. (PatchIsOnDisk /\ PackageFollowsProof)'
  BY NoneAssumption
     DEF IInv, PatchIsOnDisk, PackageFollowsProof, PackageIsProven, Proves, LLMFails,
         Conclude, End, RoundsLeft, AttemptsLeft
<1>4. OneModelsReasoning'
  BY DEF IInv, OneModelsReasoning, LLMFails, Conclude, End, RoundsLeft, AttemptsLeft
<1>5. QED
  BY <1>1, <1>2, <1>3, <1>4 DEF IInv

\* RunExperiment preserves the invariant.
LEMMA RunExperimentKeepsIInv ==
  ASSUME IInv, NEW verdict \in {"confirms", "refutes", "invalid"}, RunExperiment(verdict)
  PROVE  IInv'
<1>1. TypeOK'
  BY BoundsAssumption
     DEF IInv, TargetIsSet, PatchIsOnDisk, RoundsMatchExperiments, RunExperiment,
         Eliminate, SavedCheckpoint
<1>2. (TargetIsSet /\ RoundsMatchExperiments /\ ConfirmIsLarge)'
  BY BoundsAssumption
     DEF IInv, TargetIsSet, RoundsMatchExperiments, ConfirmIsLarge, ConfirmSupportsTheLoop,
         RunExperiment, Eliminate, SavedCheckpoint
<1>3. (PatchIsOnDisk /\ PackageFollowsProof)'
  BY NoneAssumption
     DEF IInv, PatchIsOnDisk, PackageFollowsProof, PackageIsProven, Proves, RunExperiment,
         Eliminate, SavedCheckpoint
<1>4. OneModelsReasoning'
  BY DEF IInv, OneModelsReasoning, RunExperiment, Eliminate, SavedCheckpoint
<1>5. QED
  BY <1>1, <1>2, <1>3, <1>4 DEF IInv

\* AuthorPatch preserves the invariant.
LEMMA AuthorPatchKeepsIInv ==
  ASSUME IInv, NEW p \in Patches, AuthorPatch(p)
  PROVE  IInv'
<1>1. TypeOK'
  BY BoundsAssumption
     DEF IInv, TargetIsSet, PatchIsOnDisk, RoundsMatchExperiments, AuthorPatch,
         AttemptsLeft
<1>2. (TargetIsSet /\ RoundsMatchExperiments /\ ConfirmIsLarge)'
  BY BoundsAssumption
     DEF IInv, TargetIsSet, RoundsMatchExperiments, ConfirmIsLarge, ConfirmSupportsTheLoop,
         AuthorPatch, AttemptsLeft
<1>3. (PatchIsOnDisk /\ PackageFollowsProof)'
  BY NoneAssumption
     DEF IInv, PatchIsOnDisk, PackageFollowsProof, PackageIsProven, Proves, AuthorPatch,
         AttemptsLeft
<1>4. OneModelsReasoning'
  BY DEF IInv, OneModelsReasoning, AuthorPatch, AttemptsLeft
<1>5. QED
  BY <1>1, <1>2, <1>3, <1>4 DEF IInv

\* ApplyPatch preserves the invariant.
LEMMA ApplyPatchKeepsIInv ==
  ASSUME IInv, ApplyPatch
  PROVE  IInv'
<1>1. TypeOK'
  BY BoundsAssumption
     DEF IInv, TargetIsSet, PatchIsOnDisk, RoundsMatchExperiments, ApplyPatch
<1>2. (TargetIsSet /\ RoundsMatchExperiments /\ ConfirmIsLarge)'
  BY BoundsAssumption
     DEF IInv, TargetIsSet, RoundsMatchExperiments, ConfirmIsLarge, ConfirmSupportsTheLoop,
         ApplyPatch
<1>3. (PatchIsOnDisk /\ PackageFollowsProof)'
  BY NoneAssumption
     DEF IInv, PatchIsOnDisk, PackageFollowsProof, PackageIsProven, Proves, ApplyPatch
<1>4. OneModelsReasoning'
  BY DEF IInv, OneModelsReasoning, ApplyPatch
<1>5. QED
  BY <1>1, <1>2, <1>3, <1>4 DEF IInv

\* RejectPatch preserves the invariant.
LEMMA RejectPatchKeepsIInv ==
  ASSUME IInv, RejectPatch
  PROVE  IInv'
<1>1. TypeOK'
  BY BoundsAssumption
     DEF IInv, TargetIsSet, PatchIsOnDisk, RoundsMatchExperiments, RejectPatch
<1>2. (TargetIsSet /\ RoundsMatchExperiments /\ ConfirmIsLarge)'
  BY BoundsAssumption
     DEF IInv, TargetIsSet, RoundsMatchExperiments, ConfirmIsLarge, ConfirmSupportsTheLoop,
         RejectPatch
<1>3. (PatchIsOnDisk /\ PackageFollowsProof)'
  BY NoneAssumption
     DEF IInv, PatchIsOnDisk, PackageFollowsProof, PackageIsProven, Proves, RejectPatch
<1>4. OneModelsReasoning'
  BY DEF IInv, OneModelsReasoning, RejectPatch
<1>5. QED
  BY <1>1, <1>2, <1>3, <1>4 DEF IInv

\* Validate preserves the invariant.
LEMMA ValidateKeepsIInv ==
  ASSUME IInv, NEW intact \in BOOLEAN, NEW failed \in BOOLEAN, NEW errored \in BOOLEAN,
         Validate(intact, failed, errored)
  PROVE  IInv'
<1>a. Staged(staged) \in MaybePatch /\ patchedDir \in MaybePatch
  BY DEF IInv, Staged
<1>b. basis' \in Basis
  BY <1>a DEF IInv, Validate
<1>1. TypeOK'
  BY <1>a, <1>b DEF IInv, Validate
<1>2. (TargetIsSet /\ RoundsMatchExperiments /\ ConfirmIsLarge)'
  BY BoundsAssumption
     DEF IInv, TargetIsSet, RoundsMatchExperiments, ConfirmIsLarge, ConfirmSupportsTheLoop,
         Validate, Staged
<1>3. (PatchIsOnDisk /\ PackageFollowsProof)'
  BY NoneAssumption
     DEF IInv, PatchIsOnDisk, PackageFollowsProof, PackageIsProven, Proves, Validate,
         Staged
<1>4. OneModelsReasoning'
  BY DEF IInv, OneModelsReasoning, Validate, Staged
<1>5. QED
  BY <1>1, <1>2, <1>3, <1>4 DEF IInv

\* AbandonPatches preserves the invariant.
LEMMA AbandonPatchesKeepsIInv ==
  ASSUME IInv, AbandonPatches
  PROVE  IInv'
<1>1. TypeOK'
  BY BoundsAssumption
     DEF IInv, TargetIsSet, PatchIsOnDisk, RoundsMatchExperiments, AbandonPatches,
         Eliminate
<1>2. (TargetIsSet /\ RoundsMatchExperiments /\ ConfirmIsLarge)'
  BY BoundsAssumption
     DEF IInv, TargetIsSet, RoundsMatchExperiments, ConfirmIsLarge, ConfirmSupportsTheLoop,
         AbandonPatches, Eliminate
<1>3. (PatchIsOnDisk /\ PackageFollowsProof)'
  BY NoneAssumption
     DEF IInv, PatchIsOnDisk, PackageFollowsProof, PackageIsProven, Proves, AbandonPatches,
         Eliminate
<1>4. OneModelsReasoning'
  BY DEF IInv, OneModelsReasoning, AbandonPatches, Eliminate
<1>5. QED
  BY <1>1, <1>2, <1>3, <1>4 DEF IInv

\* Verify preserves the invariant.
LEMMA VerifyKeepsIInv ==
  ASSUME IInv, NEW failed \in BOOLEAN, NEW errored \in BOOLEAN, Verify(failed, errored)
  PROVE  IInv'
<1>a. Staged(None) \in MaybePatch /\ (~failed /\ ~errored) \in BOOLEAN
  BY DEF IInv, Staged
<1>b. basis' \in Basis
  BY <1>a DEF IInv, Verify
<1>c. target \in Classes
  BY DEF IInv, TargetIsSet, Verify
<1>1. TypeOK'
  BY <1>a, <1>b, <1>c DEF IInv, Verify, Eliminate
<1>2. (TargetIsSet /\ RoundsMatchExperiments /\ ConfirmIsLarge)'
  BY BoundsAssumption
     DEF IInv, TargetIsSet, RoundsMatchExperiments, ConfirmIsLarge, ConfirmSupportsTheLoop,
         Verify, Eliminate, Staged
<1>3. (PatchIsOnDisk /\ PackageFollowsProof)'
  BY NoneAssumption
     DEF IInv, PatchIsOnDisk, PackageFollowsProof, PackageIsProven, Proves, Verify,
         Eliminate, Staged
<1>4. OneModelsReasoning'
  BY DEF IInv, OneModelsReasoning, Verify, Eliminate, Staged
<1>5. QED
  BY <1>1, <1>2, <1>3, <1>4 DEF IInv

\* ClearPackage preserves the invariant.
LEMMA ClearPackageKeepsIInv ==
  ASSUME IInv, ClearPackage
  PROVE  IInv'
<1>1. TypeOK'
  BY BoundsAssumption
     DEF IInv, TargetIsSet, PatchIsOnDisk, RoundsMatchExperiments, ClearPackage, InPackage
<1>2. (TargetIsSet /\ RoundsMatchExperiments /\ ConfirmIsLarge)'
  BY BoundsAssumption
     DEF IInv, TargetIsSet, RoundsMatchExperiments, ConfirmIsLarge, ConfirmSupportsTheLoop,
         ClearPackage, InPackage
<1>3. (PatchIsOnDisk /\ PackageFollowsProof)'
  BY NoneAssumption
     DEF IInv, PatchIsOnDisk, PackageFollowsProof, PackageIsProven, Proves, ClearPackage,
         InPackage
<1>4. OneModelsReasoning'
  BY DEF IInv, OneModelsReasoning, ClearPackage, InPackage
<1>5. QED
  BY <1>1, <1>2, <1>3, <1>4 DEF IInv

\* WriteFiles preserves the invariant.
LEMMA WriteFilesKeepsIInv ==
  ASSUME IInv, WriteFiles
  PROVE  IInv'
<1>1. TypeOK'
  BY BoundsAssumption
     DEF IInv, TargetIsSet, PatchIsOnDisk, RoundsMatchExperiments, WriteFiles, InPackage
<1>2. (TargetIsSet /\ RoundsMatchExperiments /\ ConfirmIsLarge)'
  BY BoundsAssumption
     DEF IInv, TargetIsSet, RoundsMatchExperiments, ConfirmIsLarge, ConfirmSupportsTheLoop,
         WriteFiles, InPackage
<1>3. (PatchIsOnDisk /\ PackageFollowsProof)'
  BY NoneAssumption
     DEF IInv, PatchIsOnDisk, PackageFollowsProof, PackageIsProven, Proves, WriteFiles,
         InPackage
<1>4. OneModelsReasoning'
  BY DEF IInv, OneModelsReasoning, WriteFiles, InPackage
<1>5. QED
  BY <1>1, <1>2, <1>3, <1>4 DEF IInv

\* WriteEvidence preserves the invariant.
LEMMA WriteEvidenceKeepsIInv ==
  ASSUME IInv, WriteEvidence
  PROVE  IInv'
<1>a. package' \in [files : MaybePatch, proof : Basis, complete : BOOLEAN]
  BY DEF IInv, WriteEvidence
<1>1. TypeOK'
  BY <1>a DEF IInv, WriteEvidence, InPackage
<1>2. (TargetIsSet /\ RoundsMatchExperiments /\ ConfirmIsLarge)'
  BY BoundsAssumption
     DEF IInv, TargetIsSet, RoundsMatchExperiments, ConfirmIsLarge, ConfirmSupportsTheLoop,
         WriteEvidence, InPackage
<1>3. (PatchIsOnDisk /\ PackageFollowsProof)'
  BY NoneAssumption
     DEF IInv, PatchIsOnDisk, PackageFollowsProof, PackageIsProven, Proves, WriteEvidence,
         InPackage
<1>4. OneModelsReasoning'
  BY DEF IInv, OneModelsReasoning, WriteEvidence, InPackage
<1>5. QED
  BY <1>1, <1>2, <1>3, <1>4 DEF IInv

\* Present preserves the invariant.
LEMMA PresentKeepsIInv ==
  ASSUME IInv, Present
  PROVE  IInv'
<1>1. TypeOK'
  BY BoundsAssumption
     DEF IInv, TargetIsSet, PatchIsOnDisk, RoundsMatchExperiments, Present, Conclude, End
<1>2. (TargetIsSet /\ RoundsMatchExperiments /\ ConfirmIsLarge)'
  BY BoundsAssumption
     DEF IInv, TargetIsSet, RoundsMatchExperiments, ConfirmIsLarge, ConfirmSupportsTheLoop,
         Present, Conclude, End
<1>3. (PatchIsOnDisk /\ PackageFollowsProof)'
  BY NoneAssumption
     DEF IInv, PatchIsOnDisk, PackageFollowsProof, PackageIsProven, Proves, Present,
         Conclude, End
<1>4. OneModelsReasoning'
  BY DEF IInv, OneModelsReasoning, Present, Conclude, End
<1>5. QED
  BY <1>1, <1>2, <1>3, <1>4 DEF IInv

\* Crash preserves the invariant.
LEMMA CrashKeepsIInv ==
  ASSUME IInv, Crash
  PROVE  IInv'
<1>1. TypeOK'
  BY BoundsAssumption
     DEF IInv, TargetIsSet, PatchIsOnDisk, RoundsMatchExperiments, Crash, Die, End
<1>2. (TargetIsSet /\ RoundsMatchExperiments /\ ConfirmIsLarge)'
  BY BoundsAssumption
     DEF IInv, TargetIsSet, RoundsMatchExperiments, ConfirmIsLarge, ConfirmSupportsTheLoop,
         Crash, Die, End
<1>3. (PatchIsOnDisk /\ PackageFollowsProof)'
  BY NoneAssumption
     DEF IInv, PatchIsOnDisk, PackageFollowsProof, PackageIsProven, Proves, Crash, Die, End
<1>4. OneModelsReasoning'
  BY DEF IInv, OneModelsReasoning, Crash, Die, End
<1>5. QED
  BY <1>1, <1>2, <1>3, <1>4 DEF IInv

\* Break preserves the invariant.
LEMMA BreakKeepsIInv ==
  ASSUME IInv, Break
  PROVE  IInv'
<1>1. TypeOK'
  BY BoundsAssumption
     DEF IInv, TargetIsSet, PatchIsOnDisk, RoundsMatchExperiments, Break, Die, End
<1>2. (TargetIsSet /\ RoundsMatchExperiments /\ ConfirmIsLarge)'
  BY BoundsAssumption
     DEF IInv, TargetIsSet, RoundsMatchExperiments, ConfirmIsLarge, ConfirmSupportsTheLoop,
         Break, Die, End
<1>3. (PatchIsOnDisk /\ PackageFollowsProof)'
  BY NoneAssumption
     DEF IInv, PatchIsOnDisk, PackageFollowsProof, PackageIsProven, Proves, Break, Die, End
<1>4. OneModelsReasoning'
  BY DEF IInv, OneModelsReasoning, Break, Die, End
<1>5. QED
  BY <1>1, <1>2, <1>3, <1>4 DEF IInv

\* CrashInSave preserves the invariant.
LEMMA CrashInSaveKeepsIInv ==
  ASSUME IInv, CrashInSave
  PROVE  IInv'
<1>1. TypeOK'
  BY BoundsAssumption
     DEF IInv, TargetIsSet, PatchIsOnDisk, RoundsMatchExperiments, CrashInSave, Die, End
<1>2. (TargetIsSet /\ RoundsMatchExperiments /\ ConfirmIsLarge)'
  BY BoundsAssumption
     DEF IInv, TargetIsSet, RoundsMatchExperiments, ConfirmIsLarge, ConfirmSupportsTheLoop,
         CrashInSave, Die, End
<1>3. (PatchIsOnDisk /\ PackageFollowsProof)'
  BY NoneAssumption
     DEF IInv, PatchIsOnDisk, PackageFollowsProof, PackageIsProven, Proves, CrashInSave,
         Die, End
<1>4. OneModelsReasoning'
  BY DEF IInv, OneModelsReasoning, CrashInSave, Die, End
<1>5. QED
  BY <1>1, <1>2, <1>3, <1>4 DEF IInv

\* A step that changes nothing preserves the invariant.
LEMMA StutterKeepsIInv ==
  ASSUME IInv, UNCHANGED vars
  PROVE  IInv'
<1>1. TypeOK'
  BY BoundsAssumption DEF IInv, TargetIsSet, PatchIsOnDisk, RoundsMatchExperiments, IInv
<1>2. (TargetIsSet /\ RoundsMatchExperiments /\ ConfirmIsLarge)'
  BY BoundsAssumption
     DEF IInv, TargetIsSet, RoundsMatchExperiments, ConfirmIsLarge, ConfirmSupportsTheLoop,
         IInv
<1>3. (PatchIsOnDisk /\ PackageFollowsProof)'
  BY NoneAssumption
     DEF IInv, PatchIsOnDisk, PackageFollowsProof, PackageIsProven, Proves, IInv
<1>4. OneModelsReasoning'
  BY DEF IInv, OneModelsReasoning, IInv
<1>5. QED
  BY <1>1, <1>2, <1>3, <1>4 DEF IInv

-----------------------------------------------------------------------------

\* Every step of the specification preserves the invariant.
LEMMA StepKeepsIInv == IInv /\ [Next]_vars => IInv'
<1> SUFFICES ASSUME IInv, [Next]_vars PROVE IInv'
  OBVIOUS
<1>1. CASE \E m \in Models, runs \in ConfirmRuns : Launch(m, runs)
  BY <1>1, LaunchKeepsIInv
<1>2. CASE Step
  <2>1. CASE \E failed, errored \in BOOLEAN : MeasureConfirm(failed, errored)
    BY <2>1, MeasureConfirmKeepsIInv
  <2>2. CASE \E class \in Classes : Stuck(class)
    BY <2>2, StuckKeepsIInv
  <2>3. CASE \E class, aim \in Classes : Propose(class, aim)
    BY <2>3, ProposeKeepsIInv
  <2>4. CASE \E verdict \in {"confirms", "refutes", "invalid"} : RunExperiment(verdict)
    BY <2>4, RunExperimentKeepsIInv
  <2>5. CASE \E p \in Patches : AuthorPatch(p)
    BY <2>5, AuthorPatchKeepsIInv
  <2>6. CASE \E intact, failed, errored \in BOOLEAN : Validate(intact, failed, errored)
    BY <2>6, ValidateKeepsIInv
  <2>7. CASE \E failed, errored \in BOOLEAN : Verify(failed, errored)
    BY <2>7, VerifyKeepsIInv
  <2>8. CASE ReuseConfirm \/ Exhaust \/ NoHypotheses \/ LLMFails
    BY <2>8, ReuseConfirmKeepsIInv, ExhaustKeepsIInv, NoHypothesesKeepsIInv,
       LLMFailsKeepsIInv
  <2>9. CASE ApplyPatch \/ RejectPatch \/ AbandonPatches
    BY <2>9, ApplyPatchKeepsIInv, RejectPatchKeepsIInv, AbandonPatchesKeepsIInv
  <2>10. CASE ClearPackage \/ WriteFiles \/ WriteEvidence \/ Present
    BY <2>10, ClearPackageKeepsIInv, WriteFilesKeepsIInv, WriteEvidenceKeepsIInv,
       PresentKeepsIInv
  <2>11. QED
    BY <1>2, <2>1, <2>2, <2>3, <2>4, <2>5, <2>6, <2>7, <2>8, <2>9, <2>10 DEF Step
<1>3. CASE Crash \/ CrashInSave \/ Break
  BY <1>3, CrashKeepsIInv, CrashInSaveKeepsIInv, BreakKeepsIInv
<1>4. CASE Rest \/ UNCHANGED vars
  BY <1>4, StutterKeepsIInv DEF Rest
<1>5. QED
  BY <1>1, <1>2, <1>3, <1>4 DEF Next

\* The strengthened invariant holds in every reachable state.
THEOREM Invariance == Spec => []IInv
<1>1. Init => IInv
  BY InitEstablishesIInv
<1>2. IInv /\ [Next]_vars => IInv'
  BY StepKeepsIInv
<1>3. QED
  BY <1>1, <1>2, PTL DEF Spec

\* The variables keep their types: rounds, experiments, attempts and launches stay
\* within their bounds whatever a checkpoint brings back.
THEOREM TypeCorrect == Spec => []TypeOK
<1>1. IInv => TypeOK
  BY DEF IInv
<1>2. QED
  BY <1>1, Invariance, PTL

\* Nothing unverified ever reaches the approval directory (orchestrator.py:450-506).
THEOREM ApprovalSafety == Spec => []PackageIsProven
<1>1. IInv => PackageIsProven
  BY DEF IInv, PackageFollowsProof
<1>2. QED
  BY <1>1, Invariance, PTL

\* The loop never reasons from a CONFIRM that did not fail or is smaller than this
\* launch's configuration (orchestrator.py:326-361).
THEOREM ConfirmSafety == Spec => []ConfirmSupportsTheLoop
<1>1. IInv => ConfirmSupportsTheLoop
  BY DEF IInv, ConfirmIsLarge
<1>2. QED
  BY <1>1, Invariance, PTL

\* A checkpoint never claims a round whose experiment did not run, and a resumed loop
\* starts right after the last round it has an experiment for (checkpoint.py:70-102).
THEOREM RoundSafety == Spec => []RoundsAreBackedByExperiments
<1>1. IInv => RoundsAreBackedByExperiments
  BY DEF IInv, RoundsMatchExperiments, RoundsAreBackedByExperiments
<1>2. QED
  BY <1>1, Invariance, PTL

\* No model's reasoning is built on another's (checkpoint.py:16-23, 70-102).
THEOREM ProvenanceSafety == Spec => []OneModelsReasoning
<1>1. IInv => OneModelsReasoning
  BY DEF IInv
<1>2. QED
  BY <1>1, Invariance, PTL

-----------------------------------------------------------------------------
(* The stuck rule, within the first launch of a case.                      *)

\* Until the first launch there is nothing to remember.  During it the process knows all
\* that it ruled out, and every signature it proposed since was proposed with the classes
\* ruled out now, or with fewer.
SignaturesOfOneLaunch ==
  /\ launches = 0 => pc = "idle" /\ status = "NONE" /\ ckpt = None
  /\ launches <= 1 =>
       /\ pc # "idle" => eliminated = ruledOut /\ status # "STUCK"
       /\ \A s \in seen : s[2] \subseteq ruledOut /\ (s[2] = ruledOut => s \in fresh)
       /\ StuckMeansNoNewEvidence

\* An elimination keeps the account: a signature with fewer classes is not one with more.
LEMMA EliminateKeepsSignatures ==
  ASSUME \A s \in seen : s[2] \subseteq ruledOut /\ (s[2] = ruledOut => s \in fresh),
         eliminated = ruledOut, Eliminate, seen' = seen
  PROVE  /\ eliminated' = ruledOut'
         /\ \A s \in seen' : s[2] \subseteq ruledOut' /\ (s[2] = ruledOut' => s \in fresh')
  BY DEF Eliminate

LEMMA LaunchKeepsSignatures ==
  ASSUME TypeOK, SignaturesOfOneLaunch, NEW m \in Models, NEW runs \in ConfirmRuns,
         Launch(m, runs)
  PROVE  SignaturesOfOneLaunch'
<1>1. launches' = launches + 1 /\ launches \in Nat
  BY BoundsAssumption DEF Launch
<1>2. CASE launches = 0
  <2>1. ckpt = None
    BY <1>2 DEF SignaturesOfOneLaunch
  <2>2. seen' = {} /\ eliminated' = {} /\ ruledOut' = {} /\ status' = "UNRESOLVED"
    BY <2>1 DEF Launch, LoadCheckpoint, Fresh
  <2>3. QED
    BY <1>1, <1>2, <2>2 DEF SignaturesOfOneLaunch, StuckMeansNoNewEvidence
<1>3. CASE launches # 0
  BY <1>1, <1>3 DEF SignaturesOfOneLaunch
<1>4. QED
  BY <1>2, <1>3

LEMMA StepKeepsSignatures ==
  TypeOK /\ SignaturesOfOneLaunch /\ [Next]_vars => SignaturesOfOneLaunch'
<1> SUFFICES ASSUME TypeOK, SignaturesOfOneLaunch, [Next]_vars PROVE SignaturesOfOneLaunch'
  OBVIOUS
<1> USE DEF SignaturesOfOneLaunch, StuckMeansNoNewEvidence
<1>1. CASE \E m \in Models, runs \in ConfirmRuns : Launch(m, runs)
  BY <1>1, LaunchKeepsSignatures
<1>2. ASSUME NEW class \in Classes, Stuck(class) PROVE SignaturesOfOneLaunch'
  BY <1>2 DEF Stuck, SignatureOf, Conclude, End
<1>3. ASSUME NEW class \in Classes, NEW aim \in Classes, Propose(class, aim)
      PROVE  SignaturesOfOneLaunch'
  BY <1>3 DEF Propose, SignatureOf
<1>4. ASSUME NEW verdict \in {"confirms", "refutes", "invalid"}, RunExperiment(verdict)
      PROVE  SignaturesOfOneLaunch'
  <2>1. CASE verdict = "confirms"
    BY <1>4, <2>1 DEF RunExperiment
  <2>2. CASE verdict # "confirms"
    BY <1>4, <2>2, EliminateKeepsSignatures DEF RunExperiment, Eliminate
  <2>3. QED
    BY <2>1, <2>2
<1>5. CASE AbandonPatches
  BY <1>5, EliminateKeepsSignatures DEF AbandonPatches, Eliminate
<1>6. ASSUME NEW failed \in BOOLEAN, NEW errored \in BOOLEAN, Verify(failed, errored)
      PROVE  SignaturesOfOneLaunch'
  <2>1. CASE ~failed /\ ~errored
    BY <1>6, <2>1 DEF Verify
  <2>2. CASE failed \/ errored
    BY <1>6, <2>2, EliminateKeepsSignatures DEF Verify, Eliminate
  <2>3. QED
    BY <2>1, <2>2
<1>7. ASSUME NEW failed \in BOOLEAN, NEW errored \in BOOLEAN, MeasureConfirm(failed, errored)
      PROVE  SignaturesOfOneLaunch'
  BY <1>7 DEF MeasureConfirm, AfterConfirm
<1>8. ASSUME NEW p \in Patches, AuthorPatch(p) PROVE SignaturesOfOneLaunch'
  BY <1>8 DEF AuthorPatch
<1>9. ASSUME NEW intact \in BOOLEAN, NEW failed \in BOOLEAN, NEW errored \in BOOLEAN,
             Validate(intact, failed, errored)
      PROVE  SignaturesOfOneLaunch'
  BY <1>9 DEF Validate
<1>10. CASE ReuseConfirm \/ ApplyPatch \/ RejectPatch \/ ClearPackage \/ WriteFiles \/ WriteEvidence
  BY <1>10 DEF ReuseConfirm, AfterConfirm, ApplyPatch, RejectPatch, ClearPackage,
         WriteFiles,
       WriteEvidence, InPackage
<1>11. CASE Exhaust \/ NoHypotheses \/ LLMFails \/ Present \/ Crash \/ CrashInSave
             \/ Break
  BY <1>11 DEF Exhaust, NoHypotheses, LLMFails, Present, Crash, CrashInSave, Break, Die,
       Conclude, End
<1>12. CASE Rest \/ UNCHANGED vars
  BY <1>12 DEF Rest
<1>13. QED
  BY <1>1, <1>2, <1>3, <1>4, <1>5, <1>6, <1>7, <1>8, <1>9, <1>10, <1>11, <1>12
     DEF Next, Step

\* A case is given up as stuck only when its leading hypothesis has been proposed before
\* with no class newly ruled out in between, on its first launch (orchestrator.py:398-407).
THEOREM StuckSafety == Spec => []StuckMeansNoNewEvidence
<1>1. Init => SignaturesOfOneLaunch
  BY DEF Init, SignaturesOfOneLaunch, StuckMeansNoNewEvidence
<1>2. TypeOK /\ SignaturesOfOneLaunch /\ [Next]_vars => SignaturesOfOneLaunch'
  BY StepKeepsSignatures
<1>3. SignaturesOfOneLaunch => StuckMeansNoNewEvidence
  BY DEF SignaturesOfOneLaunch, StuckMeansNoNewEvidence
<1>4. QED
  BY <1>1, <1>2, <1>3, TypeCorrect, PTL DEF Spec

-----------------------------------------------------------------------------
(* What the results file is told.                                          *)

\* Until it verifies something, a launch has looked at no patch.
OutcomeFollows ==
  /\ OutcomeIsBacked
  /\ pc = "confirm" => basis = NoBasis

\* Every step keeps outcomes backed: a launch starts without a basis, and only Present
\* returns PENDING.
LEMMA StepKeepsOutcome == IInv /\ OutcomeFollows /\ [Next]_vars => OutcomeFollows'
<1> SUFFICES ASSUME IInv, OutcomeFollows, [Next]_vars PROVE OutcomeFollows'
  OBVIOUS
<1> USE DEF OutcomeFollows, OutcomeIsBacked, Proves
<1>1. ASSUME NEW m \in Models, NEW runs \in ConfirmRuns, Launch(m, runs) PROVE OutcomeFollows'
  BY <1>1 DEF Launch
<1>2. CASE ReuseConfirm
  BY <1>2 DEF ReuseConfirm, AfterConfirm
<1>3. ASSUME NEW failed \in BOOLEAN, NEW errored \in BOOLEAN, MeasureConfirm(failed, errored)
      PROVE  OutcomeFollows'
  BY <1>3 DEF MeasureConfirm, AfterConfirm
<1>4. CASE Exhaust \/ NoHypotheses \/ LLMFails \/ Crash \/ CrashInSave \/ Break
  BY <1>4 DEF Exhaust, NoHypotheses, LLMFails, Crash, CrashInSave, Break, Die, Conclude, End
<1>5. ASSUME NEW class \in Classes, Stuck(class) PROVE OutcomeFollows'
  BY <1>5 DEF Stuck, Conclude, End
<1>6. CASE Present
  <2>1. package.complete /\ package.files = patch /\ Proves(basis, patch)
    BY <1>6 DEF IInv, PackageFollowsProof, Present
  <2>2. UNCHANGED <<package, basis>> /\ status' = "PENDING" /\ pc' = "idle"
    BY <1>6 DEF Present, Conclude, End
  <2>3. QED
    BY <2>1, <2>2
<1>7. CASE Rest \/ UNCHANGED vars
  BY <1>7 DEF Rest
<1>8. CASE pc' \notin {"idle", "confirm"}
  BY <1>8
<1>9. CASE \/ \E class, aim \in Classes : Propose(class, aim)
           \/ \E verdict \in {"confirms", "refutes", "invalid"} : RunExperiment(verdict)
           \/ \E p \in Patches : AuthorPatch(p)
           \/ ApplyPatch \/ RejectPatch
           \/ \E intact, failed, errored \in BOOLEAN : Validate(intact, failed, errored)
           \/ AbandonPatches
           \/ \E failed, errored \in BOOLEAN : Verify(failed, errored)
           \/ ClearPackage \/ WriteFiles \/ WriteEvidence
  <2>1. pc' \notin {"idle", "confirm"}
    BY <1>9 DEF Propose, RunExperiment, Eliminate, AuthorPatch, ApplyPatch, RejectPatch,
         Validate, AbandonPatches, Verify, ClearPackage, WriteFiles, WriteEvidence, InPackage
  <2>2. QED
    BY <1>8, <2>1
<1>10. QED
  BY <1>1, <1>2, <1>3, <1>4, <1>5, <1>6, <1>7, <1>9 DEF Next, Step

\* The outcomes ResultsLedger records are those a launch can return: PENDING only over the
\* whole package of a verified patch, NO_FLAKE only when nothing was verified
\* (run_agent_case's returns).
THEOREM OutcomeSafety == Spec => []OutcomeIsBacked
<1>1. Init => OutcomeFollows
  BY DEF Init, OutcomeFollows, OutcomeIsBacked
<1>2. IInv /\ OutcomeFollows /\ [Next]_vars => OutcomeFollows'
  BY StepKeepsOutcome
<1>3. OutcomeFollows => OutcomeIsBacked
  BY DEF OutcomeFollows
<1>4. QED
  BY <1>1, <1>2, <1>3, Invariance, PTL DEF Spec

-----------------------------------------------------------------------------
(* What a launch has left to do.                                           *)

\* A number of rounds times the steps of one is a natural number, and a round less is the
\* steps of one less.
LEMMA RoundsTimesSteps ==
  ASSUME NEW n \in Nat
  PROVE  /\ RoundSteps \in Nat /\ RoundSteps >= 7
         /\ n * RoundSteps \in Nat
         /\ n > 0 => (n - 1) * RoundSteps = n * RoundSteps - RoundSteps
<1>1. RoundSteps \in Nat /\ RoundSteps >= 7
  BY BoundsAssumption DEF RoundSteps
<1>2. n * RoundSteps \in Nat
  BY <1>1
<1>3. (n - 1) * RoundSteps = n * RoundSteps - RoundSteps
  BY <1>1
<1>4. QED
  BY <1>1, <1>2, <1>3

\* No launch starts with more to do than all rounds.
LEMMA FewerRoundsFewerSteps ==
  ASSUME NEW n \in Nat, NEW m \in Nat, n <= m
  PROVE  n * RoundSteps <= m * RoundSteps
<1>1. (m - n) \in Nat /\ RoundSteps \in Nat
  BY RoundsTimesSteps
<1>2. (m - n) * RoundSteps = m * RoundSteps - n * RoundSteps
  BY <1>1
<1>3. (m - n) * RoundSteps >= 0
  BY <1>1, RoundsTimesSteps
<1>4. QED
  BY <1>1, <1>2, <1>3, RoundsTimesSteps

\* A launch has something left to do until it is over.
LEMMA StepsLeftIsPositive ==
  ASSUME pc \in Phases, round \in 0..MaxRounds, attempt \in 0..MaxPatchAttempts
  PROVE  /\ pc = "idle" => StepsLeft = 0
         /\ pc # "idle" => StepsLeft \in Nat /\ StepsLeft > 0
<1> DEFINE rounds   == (MaxRounds - round) * RoundSteps
           attempts == 4 * (MaxPatchAttempts - attempt)
<1>1. rounds \in Nat /\ RoundSteps \in Nat
  BY BoundsAssumption, RoundsTimesSteps
<1>2. attempts \in Nat
  BY BoundsAssumption
<1>3. /\ pc = "confirm"    => StepsLeft = rounds + 6
      /\ pc = "propose"    => StepsLeft = rounds + 5
      /\ pc = "experiment" => StepsLeft = rounds + 4 + RoundSteps
      /\ pc = "patch"      => StepsLeft = rounds + attempts + 6
      /\ pc = "apply"      => StepsLeft = rounds + attempts + 9
      /\ pc = "validate"   => StepsLeft = rounds + attempts + 8
      /\ pc = "verify"     => StepsLeft = rounds + attempts + 7
      /\ pc \in {"clear", "files", "evidence", "approve"} => StepsLeft \in 1..4
      /\ pc = "idle"       => StepsLeft = 0
  BY DEF StepsLeft
<1> HIDE DEF rounds, attempts
<1>4. QED
  BY <1>1, <1>2, <1>3

\* Whatever ends the process leaves it nothing to do.
LEMMA EndingSpends ==
  ASSUME TypeOK, pc # "idle", pc' = "idle" PROVE StepsLeft' < StepsLeft
<1>1. StepsLeft' = 0
  BY DEF StepsLeft
<1>2. QED
  BY <1>1, StepsLeftIsPositive

\* Within a round, the phases are passed in order and every rejection costs an attempt.
LEMMA RoundSpends ==
  ASSUME IInv, UNCHANGED round, attempt' \in Nat,
         \/ pc = "confirm" /\ pc' = "propose"
         \/ pc = "experiment" /\ pc' = "patch" /\ attempt' = 0
         \/ pc \in {"experiment", "patch", "verify"} /\ pc' = "propose"
         \/ pc = "patch" /\ pc' = "apply" /\ attempt' = attempt + 1
         \/ pc = "apply" /\ pc' \in {"validate", "patch"} /\ UNCHANGED attempt
         \/ pc = "validate" /\ pc' \in {"verify", "patch"} /\ UNCHANGED attempt
         \/ pc = "verify" /\ pc' = "clear"
  PROVE  StepsLeft' < StepsLeft
<1> DEFINE rounds == (MaxRounds - round) * RoundSteps
<1>1. rounds \in Nat /\ rounds' = rounds
  BY BoundsAssumption, RoundsTimesSteps DEF IInv, RoundSteps
<1>2. attempt \in 0..MaxPatchAttempts /\ MaxPatchAttempts \in Nat
  BY BoundsAssumption DEF IInv
<1>3. RoundSteps = 4 * MaxPatchAttempts + 3
  BY DEF RoundSteps
<1> HIDE DEF rounds
<1>4. StepsLeft = CASE pc = "confirm"    -> rounds + 6
                    [] pc = "propose"    -> rounds + 5
                    [] pc = "experiment" -> rounds + 4 + RoundSteps
                    [] pc = "patch"      -> rounds + 4 * (MaxPatchAttempts - attempt) + 6
                    [] pc = "apply"      -> rounds + 4 * (MaxPatchAttempts - attempt) + 9
                    [] pc = "validate"   -> rounds + 4 * (MaxPatchAttempts - attempt) + 8
                    [] pc = "verify"     -> rounds + 4 * (MaxPatchAttempts - attempt) + 7
                    [] pc = "clear"      -> 4
                    [] pc = "files"      -> 3
                    [] pc = "evidence"   -> 2
                    [] pc = "approve"    -> 1
                    [] pc = "idle"       -> 0
  BY DEF StepsLeft, rounds
<1>5. /\ pc' = "propose"  => StepsLeft' = rounds + 5
      /\ pc' = "patch"    => StepsLeft' = rounds + 4 * (MaxPatchAttempts - attempt') + 6
      /\ pc' = "apply"    => StepsLeft' = rounds + 4 * (MaxPatchAttempts - attempt') + 9
      /\ pc' = "validate" => StepsLeft' = rounds + 4 * (MaxPatchAttempts - attempt') + 8
      /\ pc' = "verify"   => StepsLeft' = rounds + 4 * (MaxPatchAttempts - attempt') + 7
      /\ pc' = "clear"    => StepsLeft' = 4
  BY <1>1 DEF StepsLeft, rounds
<1>6. QED
  BY <1>1, <1>2, <1>3, <1>4, <1>5

\* A new round is paid for out of the rounds left.
LEMMA ProposeSpends ==
  ASSUME TypeOK, NEW class \in Classes, NEW aim \in Classes, Propose(class, aim)
  PROVE  StepsLeft' < StepsLeft
<1>1. /\ MaxRounds - round \in Nat /\ MaxRounds - round > 0
      /\ MaxRounds - round' = (MaxRounds - round) - 1
  BY BoundsAssumption DEF Propose, RoundsLeft
<1>2. (MaxRounds - round') * RoundSteps = (MaxRounds - round) * RoundSteps - RoundSteps
  BY <1>1, RoundsTimesSteps
<1>3. (MaxRounds - round) * RoundSteps \in Nat /\ RoundSteps \in Nat
  BY <1>1, RoundsTimesSteps
<1>4. StepsLeft = (MaxRounds - round) * RoundSteps + 5
  BY DEF StepsLeft, Propose
<1>5. StepsLeft' = (MaxRounds - round') * RoundSteps + 4 + RoundSteps
  BY DEF StepsLeft, Propose, RoundSteps
<1>6. QED
  BY <1>2, <1>3, <1>4, <1>5

\* A launch starts with at most all of its rounds to do.
LEMMA LaunchHasAllRounds ==
  ASSUME TypeOK, TypeOK', NEW m \in Models, NEW runs \in ConfirmRuns, Launch(m, runs)
  PROVE  StepsLeft' <= 6 + MaxRounds * RoundSteps
<1>1. StepsLeft' = (MaxRounds - round') * RoundSteps + 6
  BY DEF StepsLeft, Launch, RoundSteps
<1>2. MaxRounds - round' \in Nat /\ MaxRounds - round' <= MaxRounds /\ MaxRounds \in Nat
  BY BoundsAssumption
<1>3. (MaxRounds - round') * RoundSteps <= MaxRounds * RoundSteps
  BY <1>2, FewerRoundsFewerSteps
<1>4. (MaxRounds - round') * RoundSteps \in Nat /\ MaxRounds * RoundSteps \in Nat
  BY <1>2, RoundsTimesSteps
<1>5. QED
  BY <1>1, <1>3, <1>4

\* Every step of a process leaves it less to do.
LEMMA StepSpends ==
  ASSUME IInv, [Next]_vars, pc # "idle", ~UNCHANGED vars PROVE StepsLeft' < StepsLeft
<1> USE DEF IInv
<1>1. CASE Crash \/ CrashInSave \/ Break \/ Exhaust \/ NoHypotheses \/ LLMFails \/ Present
           \/ \E class \in Classes : Stuck(class)
  <2>1. pc' = "idle"
    BY <1>1 DEF Crash, CrashInSave, Break, Die, Exhaust, NoHypotheses, LLMFails, Present,
           Stuck,
                Conclude, End
  <2>2. QED
    BY <2>1, EndingSpends
<1>2. CASE \E class, aim \in Classes : Propose(class, aim)
  BY <1>2, ProposeSpends
<1>3. CASE ClearPackage \/ WriteFiles \/ WriteEvidence
  BY <1>3 DEF ClearPackage, WriteFiles, WriteEvidence, InPackage, StepsLeft
<1>4. CASE ReuseConfirm \/ \E failed, errored \in BOOLEAN : MeasureConfirm(failed, errored)
  <2>1. pc = "confirm" /\ pc' \in {"propose", "idle"} /\ UNCHANGED <<round, attempt>>
    BY <1>4 DEF ReuseConfirm, MeasureConfirm, AfterConfirm
  <2>2. QED
    BY <2>1, RoundSpends, EndingSpends
<1>5. CASE \E verdict \in {"confirms", "refutes", "invalid"} : RunExperiment(verdict)
  <2>1. /\ pc = "experiment" /\ UNCHANGED round /\ attempt' \in Nat
        /\ pc' = "propose" \/ (pc' = "patch" /\ attempt' = 0)
    BY <1>5 DEF RunExperiment, Eliminate
  <2>2. QED
    BY <2>1, RoundSpends
<1>6. CASE ApplyPatch \/ RejectPatch \/ AbandonPatches
           \/ \E intact, failed, errored \in BOOLEAN : Validate(intact, failed, errored)
  <2>1. /\ UNCHANGED <<round, attempt>>
        /\ \/ pc = "apply" /\ pc' \in {"validate", "patch"}
           \/ pc = "validate" /\ pc' \in {"verify", "patch"}
           \/ pc = "patch" /\ pc' = "propose"
    BY <1>6 DEF ApplyPatch, RejectPatch, AbandonPatches, Eliminate, Validate
  <2>2. QED
    BY <2>1, RoundSpends
<1>7. CASE \E p \in Patches : AuthorPatch(p)
  <2>1. pc = "patch" /\ pc' = "apply" /\ attempt' = attempt + 1 /\ UNCHANGED round
    BY <1>7 DEF AuthorPatch
  <2>2. QED
    BY <2>1, RoundSpends
<1>8. CASE \E failed, errored \in BOOLEAN : Verify(failed, errored)
  <2>1. pc = "verify" /\ pc' \in {"propose", "clear"} /\ UNCHANGED <<round, attempt>>
    BY <1>8 DEF Verify, Eliminate
  <2>2. QED
    BY <2>1, RoundSpends
<1>9. CASE Rest \/ \E m \in Models, runs \in ConfirmRuns : Launch(m, runs)
  BY <1>9 DEF Rest, Launch
<1>10. QED
  BY <1>1, <1>2, <1>3, <1>4, <1>5, <1>6, <1>7, <1>8, <1>9 DEF Next, Step

\* Every launch is bounded: it takes at most 6 + MaxRounds * RoundSteps steps, whatever the
\* model replies and the experiments say (orchestrator.py:19-23).
THEOREM LaunchBound == Spec => LaunchRunsOut
<1>1. IInv /\ IInv' /\ [Next]_vars =>
        [/\ pc # "idle" => StepsLeft' < StepsLeft
         /\ pc = "idle" /\ pc' # "idle" => StepsLeft' <= 6 + MaxRounds * RoundSteps]_vars
  <2> SUFFICES ASSUME IInv, IInv', [Next]_vars, ~UNCHANGED vars
               PROVE  /\ pc # "idle" => StepsLeft' < StepsLeft
                      /\ pc = "idle" /\ pc' # "idle" =>
                           StepsLeft' <= 6 + MaxRounds * RoundSteps
    OBVIOUS
  <2>1. pc # "idle" => StepsLeft' < StepsLeft
    BY StepSpends
  <2>2. ASSUME pc = "idle", pc' # "idle" PROVE \E m \in Models, runs \in ConfirmRuns : Launch(m, runs)
    BY <2>2
       DEF Next, Step, ReuseConfirm, MeasureConfirm, Exhaust, NoHypotheses, LLMFails, Stuck,
           Propose, RunExperiment, AuthorPatch, ApplyPatch, RejectPatch, Validate,
           AbandonPatches, Verify, ClearPackage, WriteFiles, WriteEvidence, InPackage, Present,
           Crash, CrashInSave, Break, Die, Rest
  <2>3. QED
    BY <2>1, <2>2, LaunchHasAllRounds DEF IInv
<1>2. QED
  BY <1>1, Invariance, PTL DEF Spec, LaunchRunsOut

-----------------------------------------------------------------------------
(* What a case knows outlives its launches.                                *)

\* The process knows at least what the file holds: the loop rests on the file's CONFIRM, and
\* under the file's model on all of its rounds, eliminations and proposals.
ProcessKnowsFile ==
  ckpt # None =>
    /\ ckpt.confirm # None
    /\ pc = "confirm" =>
         IF ckpt.confirm.runs >= budget THEN confirm = ckpt.confirm ELSE confirm = None
    /\ pc \in {"propose", "experiment", "patch", "apply", "validate", "verify"} =>
         confirm = ckpt.confirm
    /\ pc # "idle" /\ ckpt.model = model =>
         /\ round >= ckpt.rounds
         /\ ckpt.eliminated \subseteq eliminated
         /\ ckpt.seen \subseteq seen

\* Steps that leave the file and the process's memory alone, or only add to the latter.
OnlyLearns ==
  /\ UNCHANGED <<ckpt, model, budget, confirm>>
  /\ pc # "idle"
  /\ pc' = "confirm" => pc = "confirm"
  /\ pc = "confirm" => ckpt = None \/ pc' = "idle" \/ confirm # None
  /\ round' >= round /\ eliminated \subseteq eliminated' /\ seen \subseteq seen'

\* Such a step keeps the process ahead of the file.
LEMMA LearningKeepsAhead ==
  ASSUME TypeOK, TypeOK', ProcessKnowsFile, OnlyLearns,
         pc' \in {"propose", "experiment", "patch", "apply", "validate", "verify"} =>
           pc \in {"confirm", "propose", "experiment", "patch", "apply", "validate", "verify"}
  PROVE  ProcessKnowsFile'
<1> SUFFICES ASSUME ckpt # None
             PROVE  /\ ckpt.confirm # None
                    /\ pc' = "confirm" =>
                         IF ckpt.confirm.runs >= budget
                         THEN confirm = ckpt.confirm ELSE confirm = None
                    /\ pc' \in {"propose", "experiment", "patch", "apply", "validate", "verify"}
                         => confirm = ckpt.confirm
                    /\ pc' # "idle" /\ ckpt.model = model =>
                         /\ round' >= ckpt.rounds
                         /\ ckpt.eliminated \subseteq eliminated'
                         /\ ckpt.seen \subseteq seen'
  BY DEF ProcessKnowsFile, OnlyLearns
<1>1. /\ ckpt.confirm # None
      /\ pc' = "confirm" =>
           IF ckpt.confirm.runs >= budget THEN confirm = ckpt.confirm ELSE confirm = None
      /\ pc' \in {"propose", "experiment", "patch", "apply", "validate", "verify"} =>
           confirm = ckpt.confirm
  BY DEF ProcessKnowsFile, OnlyLearns
<1>2. round \in Nat /\ round' \in Nat /\ ckpt.rounds \in Nat
  BY BoundsAssumption
<1>3. ckpt.model = model =>
        /\ round' >= ckpt.rounds
        /\ ckpt.eliminated \subseteq eliminated'
        /\ ckpt.seen \subseteq seen'
  BY <1>2 DEF ProcessKnowsFile, OnlyLearns
<1>4. QED
  BY <1>1, <1>3

\* A launch starts from what the file holds for its model.
LEMMA LaunchKnowsFile ==
  ASSUME IInv, ProcessKnowsFile, NEW m \in Models, NEW runs \in ConfirmRuns, Launch(m, runs)
  PROVE  ProcessKnowsFile'
<1> SUFFICES ASSUME ckpt # None PROVE ProcessKnowsFile'
  BY DEF ProcessKnowsFile, Launch
<1>1. ckpt.confirm # None /\ ckpt' = ckpt /\ pc' = "confirm" /\ budget' = runs /\ model' = m
  BY DEF ProcessKnowsFile, Launch
<1>2. LoadCheckpoint(m).confirm = ckpt.confirm
  BY DEF IInv, LoadCheckpoint, Fresh
<1>3. IF ckpt.confirm.runs >= runs THEN confirm' = ckpt.confirm ELSE confirm' = None
  BY <1>1, <1>2 DEF Launch, Reusable
<1>4. ckpt.model = m => LoadCheckpoint(m) = ckpt
  BY DEF LoadCheckpoint
<1>5. ckpt.model = m => round' = ckpt.rounds /\ eliminated' = ckpt.eliminated /\ seen' = ckpt.seen
  BY <1>4 DEF Launch
<1>6. ckpt.rounds \in Nat
  BY BoundsAssumption DEF IInv
<1>7. QED
  BY <1>1, <1>3, <1>5, <1>6 DEF ProcessKnowsFile

\* A rewritten file: what the process held when it saved.
Rewrites ==
  \/ \E failed, errored \in BOOLEAN : MeasureConfirm(failed, errored)
  \/ \E verdict \in {"confirms", "refutes", "invalid"} : RunExperiment(verdict)

\* The process that saves holds at least what it overwrites, and what it saves it holds.
LEMMA SaveKeepsAll ==
  ASSUME IInv, ProcessKnowsFile, Rewrites
  PROVE  /\ ckpt # None =>
              /\ ckpt'.confirm.runs >= ckpt.confirm.runs
              /\ ckpt'.model = ckpt.model =>
                   /\ ckpt'.rounds >= ckpt.rounds
                   /\ ckpt.eliminated \subseteq ckpt'.eliminated
                   /\ ckpt.seen \subseteq ckpt'.seen
         /\ ProcessKnowsFile'
<1>1. ASSUME NEW failed \in BOOLEAN, NEW errored \in BOOLEAN, MeasureConfirm(failed, errored)
      PROVE  /\ ckpt'.confirm = confirm' /\ confirm' \in Report /\ confirm'.runs = budget
             /\ pc = "confirm" /\ confirm = None /\ pc' \in {"propose", "idle"}
             /\ UNCHANGED <<round, eliminated, seen>>
  BY <1>1 DEF IInv, MeasureConfirm, AfterConfirm, SavedCheckpoint
<1>2. ASSUME NEW verdict \in {"confirms", "refutes", "invalid"}, RunExperiment(verdict)
      PROVE  /\ ckpt'.confirm = confirm /\ confirm' = confirm /\ confirm \in Report
             /\ pc = "experiment" /\ pc' \in {"propose", "patch"}
             /\ UNCHANGED <<round, seen>> /\ eliminated \subseteq eliminated'
  <2>1. confirm \in Report
    BY <1>2 DEF IInv, ConfirmIsLarge, ConfirmSupportsTheLoop, RunExperiment
  <2>2. QED
    BY <1>2, <2>1 DEF RunExperiment, Eliminate, SavedCheckpoint
<1>3. /\ ckpt'.model = model /\ ckpt'.rounds = round
      /\ ckpt'.eliminated = eliminated /\ ckpt'.seen = seen
      /\ model' = model /\ budget' = budget
  <2>1. ASSUME NEW failed \in BOOLEAN, NEW errored \in BOOLEAN, MeasureConfirm(failed, errored)
        PROVE  /\ UNCHANGED <<model, budget>>
               /\ \E report : ckpt' = SavedCheckpoint(report, round, experiments, authors)
    BY <2>1 DEF MeasureConfirm
  <2>2. ASSUME NEW verdict \in {"confirms", "refutes", "invalid"}, RunExperiment(verdict)
        PROVE  /\ UNCHANGED <<model, budget>>
               /\ ckpt' = SavedCheckpoint(confirm, round, experiments + 1, authors \cup {model})
    BY <2>2 DEF RunExperiment
  <2>3. QED
    BY <2>1, <2>2 DEF Rewrites, SavedCheckpoint
<1>4. round \in Nat /\ budget \in Nat
  BY BoundsAssumption DEF IInv
<1>5. ASSUME ckpt # None PROVE ckpt'.confirm.runs >= ckpt.confirm.runs
  <2>1. ckpt.confirm \in Report /\ ckpt.confirm.runs \in Nat
    BY <1>5, BoundsAssumption DEF IInv, ProcessKnowsFile
  <2>2. CASE \E failed, errored \in BOOLEAN : MeasureConfirm(failed, errored)
    <3>1. confirm = None /\ pc = "confirm" /\ ckpt'.confirm.runs = budget
      BY <1>1, <2>2
    <3>2. ~(ckpt.confirm.runs >= budget)
      BY <1>5, <2>1, <3>1, NoneAssumption DEF ProcessKnowsFile
    <3>3. QED
      BY <1>4, <2>1, <3>1, <3>2
  <2>3. CASE \E verdict \in {"confirms", "refutes", "invalid"} : RunExperiment(verdict)
    BY <1>2, <1>5, <2>1, <2>3 DEF ProcessKnowsFile
  <2>4. QED
    BY <2>2, <2>3 DEF Rewrites
<1>6. ckpt # None /\ ckpt'.model = ckpt.model =>
        /\ ckpt'.rounds >= ckpt.rounds
        /\ ckpt.eliminated \subseteq ckpt'.eliminated
        /\ ckpt.seen \subseteq ckpt'.seen
  BY <1>1, <1>2, <1>3 DEF ProcessKnowsFile, Rewrites
<1>7. ProcessKnowsFile'
  BY <1>1, <1>2, <1>3, <1>4, NoneAssumption DEF ProcessKnowsFile, Rewrites
<1>8. QED
  BY <1>5, <1>6, <1>7

\* No other step of a process touches what it or the file knows, but to add to the former.
LEMMA OtherStepsLearn ==
  ASSUME IInv, Next, pc # "idle", ~Rewrites, ~CrashInSave
  PROVE  /\ OnlyLearns
         /\ pc' \in {"propose", "experiment", "patch", "apply", "validate", "verify"} =>
              pc \in {"confirm", "propose", "experiment", "patch", "apply", "validate", "verify"}
<1>1. round \in Nat
  BY BoundsAssumption DEF IInv
<1> USE DEF OnlyLearns
<1>2. CASE Exhaust \/ NoHypotheses \/ LLMFails \/ Present \/ Crash \/ Break
           \/ \E class \in Classes : Stuck(class)
  BY <1>1, <1>2 DEF Exhaust, NoHypotheses, LLMFails, Present, Crash, Break, Die, Stuck,
         Conclude,
       End
<1>3. CASE ReuseConfirm
  BY <1>1, <1>3 DEF ReuseConfirm, AfterConfirm
<1>4. CASE \E class, aim \in Classes : Propose(class, aim)
  BY <1>1, <1>4 DEF Propose
<1>5. CASE ApplyPatch \/ RejectPatch \/ AbandonPatches \/ \E p \in Patches : AuthorPatch(p)
  BY <1>1, <1>5 DEF ApplyPatch, RejectPatch, AbandonPatches, Eliminate, AuthorPatch
<1>6. CASE \E intact, failed, errored \in BOOLEAN : Validate(intact, failed, errored)
  BY <1>1, <1>6 DEF Validate
<1>7. CASE \E failed, errored \in BOOLEAN : Verify(failed, errored)
  BY <1>1, <1>7 DEF Verify, Eliminate
<1>8. CASE ClearPackage \/ WriteFiles \/ WriteEvidence
  BY <1>1, <1>8 DEF ClearPackage, WriteFiles, WriteEvidence, InPackage
<1>9. CASE Rest \/ \E m \in Models, runs \in ConfirmRuns : Launch(m, runs)
  BY <1>9 DEF Rest, Launch
<1>10. QED
  BY <1>2, <1>3, <1>4, <1>5, <1>6, <1>7, <1>8, <1>9 DEF Next, Step, Rewrites

\* Every step keeps the process ahead of the file and the file from losing anything.
LEMMA StepKeepsWhatIsKnown ==
  ASSUME IInv, IInv', ProcessKnowsFile, [Next]_vars
  PROVE  /\ ProcessKnowsFile'
         /\ ckpt # None /\ ckpt' # None =>
              /\ ckpt'.confirm.runs >= ckpt.confirm.runs
              /\ ckpt'.model = ckpt.model =>
                   /\ ckpt'.rounds >= ckpt.rounds
                   /\ ckpt.eliminated \subseteq ckpt'.eliminated
                   /\ ckpt.seen \subseteq ckpt'.seen
<1>1. CASE Rewrites
  BY <1>1, SaveKeepsAll
<1>2. ASSUME UNCHANGED ckpt, ckpt # None
      PROVE  /\ ckpt'.confirm.runs >= ckpt.confirm.runs
             /\ ckpt'.rounds >= ckpt.rounds
             /\ ckpt.eliminated \subseteq ckpt'.eliminated
             /\ ckpt.seen \subseteq ckpt'.seen
  <2>1. ckpt.confirm \in Report
    BY <1>2 DEF IInv, ProcessKnowsFile
  <2>2. ckpt.confirm.runs \in Nat /\ ckpt.rounds \in Nat
    BY <1>2, <2>1, BoundsAssumption DEF IInv
  <2>3. QED
    BY <1>2, <2>2
<1>3. CASE CrashInSave
  BY <1>3 DEF CrashInSave, ProcessKnowsFile
<1>4. CASE Next /\ pc # "idle" /\ ~Rewrites /\ ~CrashInSave
  <2>1. OnlyLearns /\ ProcessKnowsFile'
    BY <1>4, OtherStepsLearn, LearningKeepsAhead DEF IInv
  <2>2. QED
    BY <1>2, <2>1 DEF OnlyLearns
<1>5. CASE \E m \in Models, runs \in ConfirmRuns : Launch(m, runs)
  BY <1>2, <1>5, LaunchKnowsFile DEF Launch
<1>6. CASE UNCHANGED vars
  BY <1>2, <1>6 DEF ProcessKnowsFile
<1>7. ASSUME pc = "idle", Next
      PROVE  UNCHANGED vars \/ \E m \in Models, runs \in ConfirmRuns : Launch(m, runs)
  BY <1>7
     DEF Next, Step, ReuseConfirm, MeasureConfirm, Exhaust, NoHypotheses, LLMFails, Stuck,
         Propose, RunExperiment, AuthorPatch, ApplyPatch, RejectPatch, Validate,
         AbandonPatches, Verify, ClearPackage, WriteFiles, WriteEvidence, InPackage, Present,
         Crash, CrashInSave, Break, Die, Rest
<1>8. QED
  BY <1>1, <1>3, <1>4, <1>5, <1>6, <1>7

\* What a case has learned outlives crashes, relaunches and changes of model or budget: a
\* rewritten checkpoint holds all of the one it replaces (checkpoint.py:10-21).
THEOREM CheckpointSafety == Spec => CheckpointOnlyGrows
<1>1. Init => ProcessKnowsFile
  BY DEF Init, ProcessKnowsFile
<1>2. IInv /\ IInv' /\ ProcessKnowsFile /\ [Next]_vars => ProcessKnowsFile'
  BY StepKeepsWhatIsKnown
<1>3. IInv /\ IInv' /\ ProcessKnowsFile /\ [Next]_vars =>
        [ckpt # None /\ ckpt' # None =>
           /\ ckpt'.confirm.runs >= ckpt.confirm.runs
           /\ ckpt'.model = ckpt.model =>
                /\ ckpt'.rounds >= ckpt.rounds
                /\ ckpt.eliminated \subseteq ckpt'.eliminated
                /\ ckpt.seen \subseteq ckpt'.seen]_vars
  BY StepKeepsWhatIsKnown
<1>4. QED
  BY <1>1, <1>2, <1>3, Invariance, PTL DEF Spec, CheckpointOnlyGrows

-----------------------------------------------------------------------------
(* The loop implements the approval gate.                                  *)

\* An empty approval directory starts the gate.
LEMMA InitIsGateInit == Init => Gate!Init
BY DEF Init, Gate!Init, ProvenPatch, Proves

\* Steps that touch neither the package nor what is proven of the patch.
GateUnmoved ==
  /\ UNCHANGED <<package, basis>>
  /\ pc # "idle" /\ (pc' = "idle" => status' # "PENDING")

\* Such a step is a stutter of the gate.
LEMMA UnmovedStutters ==
  ASSUME IInv, GateUnmoved PROVE UNCHANGED Gate!gate
BY DEF GateUnmoved, Gate!gate, ProvenPatch, Proves

\* Every step of the loop is a step of the gate or a stutter of it.
LEMMA StepIsGateStep == IInv /\ [Next]_vars => [Gate!Next]_(Gate!gate)
<1> SUFFICES ASSUME IInv, [Next]_vars PROVE Gate!Next \/ UNCHANGED Gate!gate
  OBVIOUS
<1>1. CASE \E m \in Models, runs \in ConfirmRuns : Launch(m, runs)
  <2>1. Gate!Begin
    BY <1>1 DEF Launch, Gate!Begin, ProvenPatch, Proves
  <2>2. QED
    BY <2>1 DEF Gate!Next
<1>2. CASE \E intact, failed, errored \in BOOLEAN : Validate(intact, failed, errored)
  <2>1. ProvenPatch = None /\ ProvenPatch' = None
    BY <1>2 DEF IInv, PackageFollowsProof, Validate, ProvenPatch, Proves
  <2>2. QED
    BY <1>2, <2>1 DEF Validate, Gate!gate
<1>3. CASE \E failed, errored \in BOOLEAN : Verify(failed, errored)
  <2>a. PICK failed \in BOOLEAN, errored \in BOOLEAN : Verify(failed, errored)
    BY <1>3
  <2>1. ProvenPatch = None
    BY <2>a DEF IInv, PackageFollowsProof, Verify, ProvenPatch, Proves
  <2>2. CASE ~failed /\ ~errored
    <3>1. basis' = [basis EXCEPT !.verified = patch, !.clean = TRUE]
      BY <2>a, <2>2 DEF IInv, PatchIsOnDisk, Verify, Staged
    <3>2. ProvenPatch' = patch /\ patch \in Patches
      BY <2>a, <3>1 DEF IInv, PatchIsOnDisk, Verify, ProvenPatch, Proves
    <3>3. Gate!Prove(patch)
      BY <2>a, <2>1, <2>2, <3>2 DEF Verify, Gate!Prove
    <3>4. QED
      BY <3>2, <3>3 DEF Gate!Next
  <2>3. CASE failed \/ errored
    <3>1. ~basis'.clean
      BY <2>a, <2>3 DEF IInv, Verify
    <3>2. ProvenPatch' = None
      BY <3>1 DEF ProvenPatch, Proves
    <3>3. QED
      BY <2>a, <2>1, <2>3, <3>2 DEF Verify, Eliminate, Gate!gate
  <2>4. QED
    BY <2>2, <2>3
<1>4. CASE ClearPackage \/ WriteFiles \/ WriteEvidence \/ Present
  <2>1. /\ ProvenPatch = patch /\ patch # None
        /\ UNCHANGED basis /\ ProvenPatch' = patch
    BY <1>4, NoneAssumption
       DEF IInv, PatchIsOnDisk, PackageFollowsProof, ClearPackage, WriteFiles,
           WriteEvidence, Present, Conclude, End, InPackage, ProvenPatch, Proves
  <2>2. CASE ClearPackage
    BY <2>1, <2>2 DEF ClearPackage, InPackage, Gate!Next, Gate!Withdraw
  <2>3. CASE WriteFiles
    <3>1. package = NoPackage
      BY <2>3 DEF IInv, PackageFollowsProof, WriteFiles, InPackage
    <3>2. package' = [files |-> patch, proof |-> basis, complete |-> FALSE]
      BY <2>3 DEF WriteFiles
    <3>3. UNCHANGED (pc = "idle" /\ status = "PENDING")
      BY <2>3 DEF WriteFiles, InPackage
    <3>4. Gate!Offer
      BY <2>1, <3>1, <3>2, <3>3 DEF Gate!Offer
    <3>5. QED
      BY <3>4 DEF Gate!Next
  <2>4. CASE WriteEvidence
    <3>1. package.files = patch
      BY <2>4 DEF IInv, PackageFollowsProof, WriteEvidence, InPackage
    <3>2. package'.files = package.files /\ package'.complete = TRUE
      BY <2>4 DEF IInv, WriteEvidence
    <3>3. Gate!Seal
      BY <2>1, <2>4, <3>1, <3>2 DEF WriteEvidence, InPackage, Gate!Seal
    <3>4. QED
      BY <3>3 DEF Gate!Next
  <2>5. CASE Present
    BY <2>1, <2>5
       DEF IInv, PackageFollowsProof, Present, Conclude, End, Gate!Next, Gate!Announce
  <2>6. QED
    BY <1>4, <2>2, <2>3, <2>4, <2>5
<1>5. CASE Rest \/ UNCHANGED vars
  BY <1>5 DEF Rest, Gate!gate, ProvenPatch, Proves
<1>6. CASE Crash \/ CrashInSave \/ Break
  <2>1. GateUnmoved
    BY <1>6 DEF Crash, CrashInSave, Break, Die, End, GateUnmoved
  <2>2. QED
    BY <2>1, UnmovedStutters
<1>7. CASE \/ ReuseConfirm \/ \E failed, errored \in BOOLEAN : MeasureConfirm(failed, errored)
           \/ Exhaust \/ NoHypotheses \/ LLMFails \/ \E class \in Classes : Stuck(class)
           \/ \E class, aim \in Classes : Propose(class, aim)
           \/ \E verdict \in {"confirms", "refutes", "invalid"} : RunExperiment(verdict)
           \/ \E p \in Patches : AuthorPatch(p)
           \/ ApplyPatch \/ RejectPatch \/ AbandonPatches
  <2>1. GateUnmoved
    BY <1>7
       DEF ReuseConfirm, MeasureConfirm, AfterConfirm, Exhaust, NoHypotheses, LLMFails,
           Stuck, Propose, RunExperiment, AuthorPatch, ApplyPatch, RejectPatch,
           AbandonPatches, Eliminate, Conclude, End, GateUnmoved
  <2>2. QED
    BY <2>1, UnmovedStutters
<1>8. QED
  BY <1>1, <1>2, <1>3, <1>4, <1>5, <1>6, <1>7 DEF Next, Step

\* Seen from the approval directory the loop does only what ApprovalGate allows: a
\* patch is offered once proven, an earlier offer goes only to make way for a proven
\* one, and PENDING is announced only over a whole offer (orchestrator.py:198-287).
THEOREM GateRefinement == Spec => ImplementsGate
<1>1. Init => Gate!Init
  BY InitIsGateInit
<1>2. IInv /\ [Next]_vars => [Gate!Next]_(Gate!gate)
  BY StepIsGateStep
<1>3. QED
  BY <1>1, <1>2, Invariance, PTL DEF Spec, ImplementsGate, Gate!Spec

=============================================================================
