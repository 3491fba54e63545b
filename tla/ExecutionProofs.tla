--------------------------- MODULE ExecutionProofs ---------------------------
(***************************************************************************)
(* Safety of a batch for any number of runs and threads.                   *)
(***************************************************************************)
EXTENDS Execution, FiniteSetTheorems, TLAPS

\* What the phase of a run's thread says of its child.
ChildInPhase ==
  \A r \in RunIds :
    /\ pc[r] \in {"queued", "prepare", "pipe", "raised", "cancelled"} => leader[r] = "none"
    /\ pc[r] \in {"queued", "prepare"} => ends[r] = {}
    /\ pc[r] \in {"forked", "wait", "kill"} => leader[r] \in {"running", "exited"}
    /\ pc[r] \in {"drain", "reap"} => leader[r] = "exited"
    /\ pc[r] = "done" => leader[r] = "reaped"

\* Who can hold an end: processes that live, and the batch between pipe and close.  A
\* child that runs holds its own.
HoldersLive ==
  /\ \A q, r \in RunIds :
       /\ Leader(q) \in ends[r] => leader[q] = "running"
       /\ Helper(q) \in ends[r] => Living(q)
  /\ \A r \in RunIds :
       /\ Batch \in ends[r] <=> pc[r] \in {"pipe", "forked"}
       /\ leader[r] = "running" => Leader(r) \in ends[r]
  /\ strategy = "spawn" => \A r \in RunIds : pc[r] \notin {"pipe", "forked"}

\* What the clock and the kill leave behind.
EndOfRun ==
  \A r \in RunIds :
    /\ timedOut[r] => pc[r] \in {"kill", "drain", "reap", "done"}
    /\ pc[r] \in {"kill", "drain"} => timedOut[r]
    /\ pc[r] \in {"reap", "done"} /\ ~timedOut[r] => ends[r] = {}
    /\ pc[r] \in {"drain", "reap", "done"} /\ timedOut[r] =>
         helper[r] # "grouped"

\* A status is that of a child that is gone, and a run's result follows from it.
ResultFromStatus ==
  \A r \in RunIds :
    /\ leader[r] \in {"none", "running"} => status[r] = None
    /\ leader[r] \in {"exited", "reaped"} => status[r] \in ExitCodes \cup {Killed}
    /\ status[r] = Killed => timedOut[r] /\ r \in struck
    /\ pc[r] # "done" => result[r] = None
    /\ pc[r] = "done" => result[r] = Classify(status[r], timedOut[r])

ReportIsTally ==
  report # None => report = Tally /\ \A r \in RunIds : pc[r] = "done"

\* Without a pool at most one run is under way.
OneAtATime == workers = 1 => \A q, r \in Active : q = r

\* Spawned, or forked one at a time, a run's pipe is held by its own processes.
OwnEnds ==
  strategy = "spawn" \/ workers = 1 =>
    /\ \A r \in RunIds : ends[r] \subseteq {Batch, Leader(r), Helper(r)}
    /\ wronged = {}

IInv ==
  /\ TypeOK
  /\ ChildInPhase
  /\ HoldersLive
  /\ EndOfRun
  /\ ResultFromStatus
  /\ ReportIsTally
  /\ OneAtATime
  /\ OwnEnds

-----------------------------------------------------------------------------

USE ExecutionAssumption, ExecutionNoneAssumption
USE DEF vars, arguments, processes, outcomes, RunIds, Goto

\* The batch starts with every run queued and no process.
LEMMA InitEstablishesIInv == Init => IInv
BY DEF Init, IInv, TypeOK, Strategies, Underway, Reports, Outcomes, ChildInPhase,
       HoldersLive,
       EndOfRun, ResultFromStatus, ReportIsTally, OneAtATime, Active, OwnEnds

\* A thread that moves on without touching a process leaves the holders as they are.
LEMMA HoldersUnmoved ==
  ASSUME TypeOK, HoldersLive, NEW r \in RunIds, NEW phase,
         phase \notin {"pipe", "forked"}, Batch \notin ends[r],
         UNCHANGED <<strategy, leader, helper, ends>>, Goto(r, phase)
  PROVE  HoldersLive'
<1>1. \A q \in RunIds : pc'[q] = IF q = r THEN phase ELSE pc[q]
  BY DEF TypeOK
<1>2. \A q \in RunIds : Batch \in ends[q] <=> pc'[q] \in {"pipe", "forked"}
  BY <1>1 DEF HoldersLive
<1>3. strategy = "spawn" => \A q \in RunIds : pc'[q] \notin {"pipe", "forked"}
  BY <1>1 DEF HoldersLive
<1>4. QED
  BY <1>2, <1>3 DEF HoldersLive, Living

\* The single thread of a serial batch takes a run only when none is under way.
LEMMA NoneUnderway ==
  ASSUME TypeOK, workers = 1, Cardinality(Active) < workers
  PROVE  Active = {}
<1>1. IsFiniteSet(RunIds)
  BY FS_Interval
<1>2. IsFiniteSet(Active)
  BY <1>1, FS_Subset DEF Active
<1>3. Cardinality(Active) \in Nat
  BY <1>2, FS_CardinalityType
<1>4. QED
  BY <1>2, <1>3, FS_EmptySet

\* A free thread takes a run preserves the invariant.
LEMMA TakeRunKeepsIInv ==
  ASSUME IInv, NEW r \in RunIds, TakeRun(r)
  PROVE  IInv'
<1>1. TypeOK'
  BY DEF IInv, TypeOK, Strategies, Underway, Holders, Reports, Batch, Leader, Helper,
         Outcomes, TakeRun
<1>2. ChildInPhase'
  BY DEF IInv, ChildInPhase, TypeOK, HoldersLive, Batch, Leader, Helper, TakeRun
<1>3. HoldersLive'
  BY DEF IInv, HoldersLive, TypeOK, ChildInPhase, Living, Batch, Leader, Helper, TakeRun
<1>4. EndOfRun'
  BY DEF IInv, EndOfRun, TypeOK, HoldersLive, ChildInPhase, Leader, Helper, Batch, TakeRun
<1>5. ResultFromStatus'
  BY DEF IInv, ResultFromStatus, TypeOK, ChildInPhase, EndOfRun, ExitCodes, Killed,
         TakeRun
<1>6. ReportIsTally'
  BY DEF IInv, ReportIsTally, TypeOK, ChildInPhase, ResultFromStatus, Tally, TakeRun
<1>7. OneAtATime'
  <2> SUFFICES ASSUME workers = 1, NEW q \in Active', NEW u \in Active'
               PROVE  q = u
    BY DEF TakeRun, OneAtATime
  <2>1. Active = {}
    BY NoneUnderway DEF IInv, TakeRun
  <2>2. Active' = {r}
    BY <2>1 DEF IInv, TypeOK, TakeRun, Active, Underway
  <2>3. QED
    BY <2>2
<1>8. OwnEnds'
  BY DEF IInv, OwnEnds, TypeOK, HoldersLive, ChildInPhase, OneAtATime, Batch, Leader,
         Helper, TakeRun
<1>9. QED
  BY <1>1, <1>2, <1>3, <1>4, <1>5, <1>6, <1>7, <1>8 DEF IInv

\* A run that cannot start preserves the invariant.
LEMMA StartFailsKeepsIInv ==
  ASSUME IInv, NEW r \in RunIds, StartFails(r)
  PROVE  IInv'
<1>1. TypeOK'
  BY DEF IInv, TypeOK, Strategies, Underway, Holders, Reports, Batch, Leader, Helper,
         Outcomes, StartFails
<1>2. ChildInPhase'
  BY DEF IInv, ChildInPhase, TypeOK, HoldersLive, Batch, Leader, Helper, StartFails
<1>3. HoldersLive'
  <2>1. Batch \notin ends[r]
    BY DEF IInv, ChildInPhase, StartFails
  <2>2. QED
    BY <2>1, HoldersUnmoved DEF IInv, StartFails
<1>4. EndOfRun'
  BY DEF IInv, EndOfRun, TypeOK, HoldersLive, ChildInPhase, Leader, Helper, Batch,
         StartFails
<1>5. ResultFromStatus'
  BY DEF IInv, ResultFromStatus, TypeOK, ChildInPhase, EndOfRun, ExitCodes, Killed,
         StartFails
<1>6. ReportIsTally'
  BY DEF IInv, ReportIsTally, TypeOK, ChildInPhase, ResultFromStatus, Tally, StartFails
<1>7. OneAtATime'
  BY DEF IInv, OneAtATime, TypeOK, Active, Underway, StartFails
<1>8. OwnEnds'
  BY DEF IInv, OwnEnds, TypeOK, HoldersLive, ChildInPhase, OneAtATime, Batch, Leader,
         Helper, StartFails
<1>9. QED
  BY <1>1, <1>2, <1>3, <1>4, <1>5, <1>6, <1>7, <1>8 DEF IInv

\* Spawning a child preserves the invariant.
LEMMA SpawnChildKeepsIInv ==
  ASSUME IInv, NEW r \in RunIds, SpawnChild(r)
  PROVE  IInv'
<1>1. TypeOK'
  BY DEF IInv, TypeOK, Strategies, Underway, Holders, Reports, Batch, Leader, Helper,
         Outcomes, SpawnChild
<1>2. ChildInPhase'
  BY DEF IInv, ChildInPhase, TypeOK, HoldersLive, Batch, Leader, Helper, SpawnChild
<1>3. HoldersLive'
  <2>1. \A q \in RunIds : q # r => ends'[q] = ends[q] /\ leader'[q] = leader[q] /\ pc'[q] = pc[q]
    BY DEF IInv, TypeOK, SpawnChild
  <2>2. ends'[r] = {Leader(r)} /\ leader'[r] = "running" /\ pc'[r] = "wait"
    BY DEF IInv, TypeOK, SpawnChild
  <2>3. \A q, u \in RunIds : Leader(q) # Helper(u) /\ Leader(q) # Batch
    BY DEF Leader, Helper, Batch
  <2>4. \A q, u \in RunIds : Leader(q) = Leader(u) => q = u
    BY DEF Leader
  <2>5. leader[r] = "none" /\ Batch \notin ends[r]
    BY DEF IInv, ChildInPhase, HoldersLive, SpawnChild
  <2>6. \A q, u \in RunIds :
          /\ Leader(q) \in ends'[u] => leader'[q] = "running"
          /\ Helper(q) \in ends'[u] => Living(q)'
    BY <2>1, <2>2, <2>3, <2>4 DEF IInv, HoldersLive, Living, SpawnChild
  <2>7. \A q \in RunIds :
          /\ Batch \in ends'[q] <=> pc'[q] \in {"pipe", "forked"}
          /\ leader'[q] = "running" => Leader(q) \in ends'[q]
    BY <2>1, <2>2, <2>3 DEF IInv, HoldersLive
  <2>8. strategy' = "spawn" => \A q \in RunIds : pc'[q] \notin {"pipe", "forked"}
    BY <2>1, <2>2 DEF IInv, HoldersLive, SpawnChild
  <2>9. QED
    BY <2>6, <2>7, <2>8 DEF HoldersLive
<1>4. EndOfRun'
  BY DEF IInv, EndOfRun, TypeOK, HoldersLive, ChildInPhase, Leader, Helper, Batch,
         SpawnChild
<1>5. ResultFromStatus'
  BY DEF IInv, ResultFromStatus, TypeOK, ChildInPhase, EndOfRun, ExitCodes, Killed,
         SpawnChild
<1>6. ReportIsTally'
  BY DEF IInv, ReportIsTally, TypeOK, ChildInPhase, ResultFromStatus, Tally, SpawnChild
<1>7. OneAtATime'
  BY DEF IInv, OneAtATime, TypeOK, Active, Underway, SpawnChild
<1>8. OwnEnds'
  BY DEF IInv, OwnEnds, TypeOK, HoldersLive, ChildInPhase, OneAtATime, Batch, Leader,
         Helper, SpawnChild
<1>9. QED
  BY <1>1, <1>2, <1>3, <1>4, <1>5, <1>6, <1>7, <1>8 DEF IInv

\* Opening a pipe preserves the invariant.
LEMMA OpenPipeKeepsIInv ==
  ASSUME IInv, NEW r \in RunIds, OpenPipe(r)
  PROVE  IInv'
<1>1. TypeOK'
  BY DEF IInv, TypeOK, Strategies, Underway, Holders, Reports, Batch, Leader, Helper,
         Outcomes, OpenPipe
<1>2. ChildInPhase'
  BY DEF IInv, ChildInPhase, TypeOK, HoldersLive, Batch, Leader, Helper, OpenPipe
<1>3. HoldersLive'
  BY DEF IInv, HoldersLive, TypeOK, ChildInPhase, Living, Batch, Leader, Helper, OpenPipe
<1>4. EndOfRun'
  BY DEF IInv, EndOfRun, TypeOK, HoldersLive, ChildInPhase, Leader, Helper, Batch,
         OpenPipe
<1>5. ResultFromStatus'
  BY DEF IInv, ResultFromStatus, TypeOK, ChildInPhase, EndOfRun, ExitCodes, Killed,
         OpenPipe
<1>6. ReportIsTally'
  BY DEF IInv, ReportIsTally, TypeOK, ChildInPhase, ResultFromStatus, Tally, OpenPipe
<1>7. OneAtATime'
  BY DEF IInv, OneAtATime, TypeOK, Active, Underway, OpenPipe
<1>8. OwnEnds'
  BY DEF IInv, OwnEnds, TypeOK, HoldersLive, ChildInPhase, OneAtATime, Batch, Leader,
         Helper, OpenPipe
<1>9. QED
  BY <1>1, <1>2, <1>3, <1>4, <1>5, <1>6, <1>7, <1>8 DEF IInv

\* Forking a child preserves the invariant.
LEMMA ForkChildKeepsIInv ==
  ASSUME IInv, NEW r \in RunIds, ForkChild(r)
  PROVE  IInv'
<1>1. TypeOK'
  BY DEF IInv, TypeOK, Strategies, Underway, Holders, Reports, Batch, Leader, Helper,
         Outcomes, ForkChild
<1>2. ChildInPhase'
  BY DEF IInv, ChildInPhase, TypeOK, HoldersLive, Batch, Leader, Helper, ForkChild
<1>3. HoldersLive'
  <2>1. \A q \in RunIds : ends'[q] \subseteq ends[q] \cup {Leader(r)} /\ ends[q] \subseteq ends'[q]
    BY DEF IInv, TypeOK, ForkChild
  <2>2. Leader(r) \in ends'[r]
    BY DEF IInv, HoldersLive, TypeOK, ForkChild
  <2>3. QED
    BY <2>1, <2>2 DEF IInv, HoldersLive, TypeOK, Living, Batch, Leader, Helper, ForkChild
<1>4. EndOfRun'
  BY DEF IInv, EndOfRun, TypeOK, HoldersLive, ChildInPhase, Leader, Helper, Batch,
         ForkChild
<1>5. ResultFromStatus'
  BY DEF IInv, ResultFromStatus, TypeOK, ChildInPhase, EndOfRun, ExitCodes, Killed,
         ForkChild
<1>6. ReportIsTally'
  BY DEF IInv, ReportIsTally, TypeOK, ChildInPhase, ResultFromStatus, Tally, ForkChild
<1>7. OneAtATime'
  BY DEF IInv, OneAtATime, TypeOK, Active, Underway, ForkChild
<1>8. OwnEnds'
  <2>1. strategy # "spawn"
    BY DEF IInv, HoldersLive, ForkChild
  <2>2. ASSUME workers = 1, NEW q \in RunIds, Batch \in ends[q]
        PROVE  q = r
    BY <2>2 DEF IInv, HoldersLive, OneAtATime, Active, Underway, ForkChild
  <2>3. QED
    BY <2>1, <2>2 DEF IInv, OwnEnds, TypeOK, ForkChild
<1>9. QED
  BY <1>1, <1>2, <1>3, <1>4, <1>5, <1>6, <1>7, <1>8 DEF IInv

\* Closing the batch's end preserves the invariant.
LEMMA CloseWriteEndKeepsIInv ==
  ASSUME IInv, NEW r \in RunIds, CloseWriteEnd(r)
  PROVE  IInv'
<1>1. TypeOK'
  BY DEF IInv, TypeOK, Strategies, Underway, Holders, Reports, Batch, Leader, Helper,
         Outcomes, CloseWriteEnd
<1>2. ChildInPhase'
  BY DEF IInv, ChildInPhase, TypeOK, HoldersLive, Batch, Leader, Helper, CloseWriteEnd
<1>3. HoldersLive'
  BY DEF IInv, HoldersLive, TypeOK, ChildInPhase, Living, Batch, Leader, Helper,
         CloseWriteEnd
<1>4. EndOfRun'
  BY DEF IInv, EndOfRun, TypeOK, HoldersLive, ChildInPhase, Leader, Helper, Batch,
         CloseWriteEnd
<1>5. ResultFromStatus'
  BY DEF IInv, ResultFromStatus, TypeOK, ChildInPhase, EndOfRun, ExitCodes, Killed,
         CloseWriteEnd
<1>6. ReportIsTally'
  BY DEF IInv, ReportIsTally, TypeOK, ChildInPhase, ResultFromStatus, Tally, CloseWriteEnd
<1>7. OneAtATime'
  BY DEF IInv, OneAtATime, TypeOK, Active, Underway, CloseWriteEnd
<1>8. OwnEnds'
  BY DEF IInv, OwnEnds, TypeOK, HoldersLive, ChildInPhase, OneAtATime, Batch, Leader,
         Helper, CloseWriteEnd
<1>9. QED
  BY <1>1, <1>2, <1>3, <1>4, <1>5, <1>6, <1>7, <1>8 DEF IInv

\* A helper left behind preserves the invariant.
LEMMA LeaveHelperKeepsIInv ==
  ASSUME IInv, NEW r \in RunIds, NEW kind \in {"grouped", "escaped"},
         NEW keeps \in BOOLEAN, LeaveHelper(r, kind, keeps)
  PROVE  IInv'
<1>1. TypeOK'
  BY DEF IInv, TypeOK, Strategies, Underway, Holders, Reports, Batch, Leader, Helper,
         Outcomes, LeaveHelper
<1>2. ChildInPhase'
  BY DEF IInv, ChildInPhase, TypeOK, HoldersLive, Batch, Leader, Helper, LeaveHelper
<1>3. HoldersLive'
  BY DEF IInv, HoldersLive, TypeOK, ChildInPhase, Living, Batch, Leader, Helper,
         LeaveHelper
<1>4. EndOfRun'
  BY DEF IInv, EndOfRun, TypeOK, HoldersLive, ChildInPhase, Leader, Helper, Batch,
         LeaveHelper
<1>5. ResultFromStatus'
  BY DEF IInv, ResultFromStatus, TypeOK, ChildInPhase, EndOfRun, ExitCodes, Killed,
         LeaveHelper
<1>6. ReportIsTally'
  BY DEF IInv, ReportIsTally, TypeOK, ChildInPhase, ResultFromStatus, Tally, LeaveHelper
<1>7. OneAtATime'
  BY DEF IInv, OneAtATime, TypeOK, Active, Underway, LeaveHelper
<1>8. OwnEnds'
  BY DEF IInv, OwnEnds, TypeOK, HoldersLive, ChildInPhase, OneAtATime, Batch, Leader,
         Helper, LeaveHelper
<1>9. QED
  BY <1>1, <1>2, <1>3, <1>4, <1>5, <1>6, <1>7, <1>8 DEF IInv

\* A child's exit preserves the invariant.
LEMMA LeaderExitsKeepsIInv ==
  ASSUME IInv, NEW r \in RunIds, NEW code \in ExitCodes, LeaderExits(r, code)
  PROVE  IInv'
<1>1. TypeOK'
  BY DEF IInv, TypeOK, Strategies, Underway, Holders, Reports, Batch, Leader, Helper,
         Outcomes, LeaderExits, Released, ExitCodes
<1>2. ChildInPhase'
  BY DEF IInv, ChildInPhase, TypeOK, HoldersLive, Batch, Leader, Helper, LeaderExits,
         Released, ExitCodes
<1>3. HoldersLive'
  BY DEF IInv, HoldersLive, TypeOK, ChildInPhase, Living, Batch, Leader, Helper,
         LeaderExits, Released, ExitCodes
<1>4. EndOfRun'
  BY DEF IInv, EndOfRun, TypeOK, HoldersLive, ChildInPhase, Leader, Helper, Batch,
         LeaderExits, Released, ExitCodes
<1>5. ResultFromStatus'
  BY DEF IInv, ResultFromStatus, TypeOK, ChildInPhase, EndOfRun, ExitCodes, Killed,
         LeaderExits, Released
<1>6. ReportIsTally'
  BY DEF IInv, ReportIsTally, TypeOK, ChildInPhase, ResultFromStatus, Tally, LeaderExits,
         Released, ExitCodes
<1>7. OneAtATime'
  BY DEF IInv, OneAtATime, TypeOK, Active, Underway, LeaderExits, Released, ExitCodes
<1>8. OwnEnds'
  BY DEF IInv, OwnEnds, TypeOK, HoldersLive, ChildInPhase, OneAtATime, Batch, Leader,
         Helper, LeaderExits, Released, ExitCodes
<1>9. QED
  BY <1>1, <1>2, <1>3, <1>4, <1>5, <1>6, <1>7, <1>8 DEF IInv

\* A helper's exit preserves the invariant.
LEMMA HelperExitsKeepsIInv ==
  ASSUME IInv, NEW r \in RunIds, HelperExits(r)
  PROVE  IInv'
<1>1. TypeOK'
  BY DEF IInv, TypeOK, Strategies, Underway, Holders, Reports, Batch, Leader, Helper,
         Outcomes, HelperExits, Released, Living
<1>2. ChildInPhase'
  BY DEF IInv, ChildInPhase, TypeOK, HoldersLive, Batch, Leader, Helper, HelperExits,
         Released, Living
<1>3. HoldersLive'
  BY DEF IInv, HoldersLive, TypeOK, ChildInPhase, Living, Batch, Leader, Helper,
         HelperExits, Released
<1>4. EndOfRun'
  BY DEF IInv, EndOfRun, TypeOK, HoldersLive, ChildInPhase, Leader, Helper, Batch,
         HelperExits, Released, Living
<1>5. ResultFromStatus'
  BY DEF IInv, ResultFromStatus, TypeOK, ChildInPhase, EndOfRun, ExitCodes, Killed,
         HelperExits, Released, Living
<1>6. ReportIsTally'
  BY DEF IInv, ReportIsTally, TypeOK, ChildInPhase, ResultFromStatus, Tally, HelperExits,
         Released, Living
<1>7. OneAtATime'
  BY DEF IInv, OneAtATime, TypeOK, Active, Underway, HelperExits, Released, Living
<1>8. OwnEnds'
  BY DEF IInv, OwnEnds, TypeOK, HoldersLive, ChildInPhase, OneAtATime, Batch, Leader,
         Helper, HelperExits, Released, Living
<1>9. QED
  BY <1>1, <1>2, <1>3, <1>4, <1>5, <1>6, <1>7, <1>8 DEF IInv

\* The end of a run's output preserves the invariant.
LEMMA SeeEndKeepsIInv ==
  ASSUME IInv, NEW r \in RunIds, SeeEnd(r)
  PROVE  IInv'
<1>1. TypeOK'
  BY DEF IInv, TypeOK, Strategies, Underway, Holders, Reports, Batch, Leader, Helper,
         Outcomes, SeeEnd
<1>2. ChildInPhase'
  BY DEF IInv, ChildInPhase, TypeOK, HoldersLive, Batch, Leader, Helper, SeeEnd
<1>3. HoldersLive'
  BY HoldersUnmoved DEF IInv, SeeEnd
<1>4. EndOfRun'
  BY DEF IInv, EndOfRun, TypeOK, HoldersLive, ChildInPhase, Leader, Helper, Batch, SeeEnd
<1>5. ResultFromStatus'
  BY DEF IInv, ResultFromStatus, TypeOK, ChildInPhase, EndOfRun, ExitCodes, Killed, SeeEnd
<1>6. ReportIsTally'
  BY DEF IInv, ReportIsTally, TypeOK, ChildInPhase, ResultFromStatus, Tally, SeeEnd
<1>7. OneAtATime'
  BY DEF IInv, OneAtATime, TypeOK, Active, Underway, SeeEnd
<1>8. OwnEnds'
  BY DEF IInv, OwnEnds, TypeOK, HoldersLive, ChildInPhase, OneAtATime, Batch, Leader,
         Helper, SeeEnd
<1>9. QED
  BY <1>1, <1>2, <1>3, <1>4, <1>5, <1>6, <1>7, <1>8 DEF IInv

\* The end of the wall clock preserves the invariant.
LEMMA TimeOutKeepsIInv ==
  ASSUME IInv, NEW r \in RunIds, TimeOut(r)
  PROVE  IInv'
<1>1. TypeOK'
  BY DEF IInv, TypeOK, Strategies, Underway, Holders, Reports, Batch, Leader, Helper,
         Outcomes, TimeOut
<1>2. ChildInPhase'
  BY DEF IInv, ChildInPhase, TypeOK, HoldersLive, Batch, Leader, Helper, TimeOut
<1>3. HoldersLive'
  <2>1. Batch \notin ends[r]
    BY DEF IInv, HoldersLive, TimeOut
  <2>2. QED
    BY <2>1, HoldersUnmoved DEF IInv, TimeOut
<1>4. EndOfRun'
  BY DEF IInv, EndOfRun, TypeOK, HoldersLive, ChildInPhase, Leader, Helper, Batch, TimeOut
<1>5. ResultFromStatus'
  BY DEF IInv, ResultFromStatus, TypeOK, ChildInPhase, EndOfRun, ExitCodes, Killed,
         TimeOut
<1>6. ReportIsTally'
  BY DEF IInv, ReportIsTally, TypeOK, ChildInPhase, ResultFromStatus, Tally, TimeOut
<1>7. OneAtATime'
  BY DEF IInv, OneAtATime, TypeOK, Active, Underway, TimeOut
<1>8. OwnEnds'
  <2>1. Batch \notin ends[r] /\ ends[r] # {}
    BY DEF IInv, HoldersLive, TimeOut
  <2>2. ASSUME strategy = "spawn" \/ workers = 1
        PROVE  {Leader(r), Helper(r)} \cap ends[r] # {}
    BY <2>1, <2>2 DEF IInv, OwnEnds
  <2>3. QED
    BY <2>2 DEF IInv, OwnEnds, TimeOut
<1>9. QED
  BY <1>1, <1>2, <1>3, <1>4, <1>5, <1>6, <1>7, <1>8 DEF IInv

\* Killing the group preserves the invariant.
LEMMA KillGroupKeepsIInv ==
  ASSUME IInv, NEW r \in RunIds, KillGroup(r)
  PROVE  IInv'
<1>1. TypeOK'
  BY DEF IInv, TypeOK, Strategies, Underway, Holders, Reports, Batch, Leader, Helper,
         Outcomes, KillGroup
<1>2. ChildInPhase'
  BY DEF IInv, ChildInPhase, TypeOK, HoldersLive, Batch, Leader, Helper, KillGroup
<1>3. HoldersLive'
  <2>1. \A q \in RunIds : q # r => leader'[q] = leader[q] /\ helper'[q] = helper[q] /\ pc'[q] = pc[q]
    BY DEF IInv, TypeOK, KillGroup
  <2>2. leader'[r] = "exited" /\ pc'[r] \in {"drain", "reap"} /\ pc[r] = "kill"
    BY DEF IInv, TypeOK, KillGroup
  <2>3. helper'[r] = helper[r] \/ (helper[r] = "grouped" /\ helper'[r] = "gone")
    BY DEF IInv, TypeOK, KillGroup
  <2>4. \A q \in RunIds :
          /\ ends'[q] \subseteq ends[q] /\ Leader(r) \notin ends'[q]
          /\ helper[r] = "grouped" => Helper(r) \notin ends'[q]
          /\ ends[q] \subseteq ends'[q] \cup {Leader(r), Helper(r)}
    BY DEF IInv, TypeOK, KillGroup
  <2>5. \A q, u \in RunIds :
          /\ Leader(q) # Helper(u) /\ Leader(q) # Batch /\ Helper(q) # Batch
          /\ Leader(q) = Leader(u) => q = u
    BY DEF Leader, Helper, Batch
  <2>6. \A q, u \in RunIds :
          /\ Leader(q) \in ends'[u] => leader'[q] = "running"
          /\ Helper(q) \in ends'[u] => Living(q)'
    BY <2>1, <2>3, <2>4 DEF IInv, HoldersLive, Living
  <2>7. \A q \in RunIds :
          /\ Batch \in ends'[q] <=> pc'[q] \in {"pipe", "forked"}
          /\ leader'[q] = "running" => Leader(q) \in ends'[q]
    BY <2>1, <2>2, <2>4, <2>5 DEF IInv, HoldersLive
  <2>8. strategy' = "spawn" => \A q \in RunIds : pc'[q] \notin {"pipe", "forked"}
    BY <2>1, <2>2 DEF IInv, HoldersLive, KillGroup
  <2>9. QED
    BY <2>6, <2>7, <2>8 DEF HoldersLive
<1>4. EndOfRun'
  BY DEF IInv, EndOfRun, TypeOK, HoldersLive, ChildInPhase, Leader, Helper, Batch,
         KillGroup
<1>5. ResultFromStatus'
  BY DEF IInv, ResultFromStatus, TypeOK, ChildInPhase, EndOfRun, ExitCodes, Killed,
         KillGroup
<1>6. ReportIsTally'
  BY DEF IInv, ReportIsTally, TypeOK, ChildInPhase, ResultFromStatus, Tally, KillGroup
<1>7. OneAtATime'
  BY DEF IInv, OneAtATime, TypeOK, Active, Underway, KillGroup
<1>8. OwnEnds'
  BY DEF IInv, OwnEnds, TypeOK, HoldersLive, ChildInPhase, OneAtATime, Batch, Leader,
         Helper, KillGroup
<1>9. QED
  BY <1>1, <1>2, <1>3, <1>4, <1>5, <1>6, <1>7, <1>8 DEF IInv

\* The second end of output preserves the invariant.
LEMMA DrainKeepsIInv ==
  ASSUME IInv, NEW r \in RunIds, Drain(r)
  PROVE  IInv'
<1>1. TypeOK'
  BY DEF IInv, TypeOK, Strategies, Underway, Holders, Reports, Batch, Leader, Helper,
         Outcomes, Drain
<1>2. ChildInPhase'
  BY DEF IInv, ChildInPhase, TypeOK, HoldersLive, Batch, Leader, Helper, Drain
<1>3. HoldersLive'
  BY DEF IInv, HoldersLive, TypeOK, ChildInPhase, Living, Batch, Leader, Helper, Drain
<1>4. EndOfRun'
  BY DEF IInv, EndOfRun, TypeOK, HoldersLive, ChildInPhase, Leader, Helper, Batch, Drain
<1>5. ResultFromStatus'
  BY DEF IInv, ResultFromStatus, TypeOK, ChildInPhase, EndOfRun, ExitCodes, Killed, Drain
<1>6. ReportIsTally'
  BY DEF IInv, ReportIsTally, TypeOK, ChildInPhase, ResultFromStatus, Tally, Drain
<1>7. OneAtATime'
  BY DEF IInv, OneAtATime, TypeOK, Active, Underway, Drain
<1>8. OwnEnds'
  BY DEF IInv, OwnEnds, TypeOK, HoldersLive, ChildInPhase, OneAtATime, Batch, Leader,
         Helper, Drain
<1>9. QED
  BY <1>1, <1>2, <1>3, <1>4, <1>5, <1>6, <1>7, <1>8 DEF IInv

\* Reaping the child preserves the invariant.
LEMMA ReapKeepsIInv ==
  ASSUME IInv, NEW r \in RunIds, Reap(r)
  PROVE  IInv'
<1>1. TypeOK'
  BY DEF IInv, TypeOK, Strategies, Underway, Holders, Reports, Batch, Leader, Helper,
         Outcomes, Reap, Classify
<1>2. ChildInPhase'
  BY DEF IInv, ChildInPhase, TypeOK, HoldersLive, Batch, Leader, Helper, Reap, Classify
<1>3. HoldersLive'
  BY DEF IInv, HoldersLive, TypeOK, ChildInPhase, Living, Batch, Leader, Helper, Reap,
         Classify
<1>4. EndOfRun'
  BY DEF IInv, EndOfRun, TypeOK, HoldersLive, ChildInPhase, Leader, Helper, Batch, Reap,
         Classify
<1>5. ResultFromStatus'
  BY DEF IInv, ResultFromStatus, TypeOK, ChildInPhase, EndOfRun, ExitCodes, Killed, Reap,
         Classify
<1>6. ReportIsTally'
  BY DEF IInv, ReportIsTally, TypeOK, ChildInPhase, ResultFromStatus, Tally, Reap,
         Classify
<1>7. OneAtATime'
  BY DEF IInv, OneAtATime, TypeOK, Active, Underway, Reap, Classify
<1>8. OwnEnds'
  BY DEF IInv, OwnEnds, TypeOK, HoldersLive, ChildInPhase, OneAtATime, Batch, Leader,
         Helper, Reap, Classify
<1>9. QED
  BY <1>1, <1>2, <1>3, <1>4, <1>5, <1>6, <1>7, <1>8 DEF IInv

\* Cancelling the rest preserves the invariant.
LEMMA CancelKeepsIInv ==
  ASSUME IInv, Cancel
  PROVE  IInv'
<1>1. TypeOK'
  BY DEF IInv, TypeOK, Strategies, Underway, Holders, Reports, Batch, Leader, Helper,
         Outcomes, Cancel
<1>2. ChildInPhase'
  BY DEF IInv, ChildInPhase, TypeOK, HoldersLive, Batch, Leader, Helper, Cancel
<1>3. HoldersLive'
  BY DEF IInv, HoldersLive, TypeOK, ChildInPhase, Living, Batch, Leader, Helper, Cancel
<1>4. EndOfRun'
  BY DEF IInv, EndOfRun, TypeOK, HoldersLive, ChildInPhase, Leader, Helper, Batch, Cancel
<1>5. ResultFromStatus'
  BY DEF IInv, ResultFromStatus, TypeOK, ChildInPhase, EndOfRun, ExitCodes, Killed, Cancel
<1>6. ReportIsTally'
  BY DEF IInv, ReportIsTally, TypeOK, ChildInPhase, ResultFromStatus, Tally, Cancel
<1>7. OneAtATime'
  BY DEF IInv, OneAtATime, TypeOK, Active, Underway, Cancel
<1>8. OwnEnds'
  BY DEF IInv, OwnEnds, TypeOK, HoldersLive, ChildInPhase, OneAtATime, Batch, Leader,
         Helper, Cancel
<1>9. QED
  BY <1>1, <1>2, <1>3, <1>4, <1>5, <1>6, <1>7, <1>8 DEF IInv

\* A batch that raises preserves the invariant.
LEMMA RaiseKeepsIInv ==
  ASSUME IInv, Raise
  PROVE  IInv'
<1>1. TypeOK'
  BY DEF IInv, TypeOK, Strategies, Underway, Holders, Reports, Batch, Leader, Helper,
         Outcomes, Raise
<1>2. ChildInPhase'
  BY DEF IInv, ChildInPhase, TypeOK, HoldersLive, Batch, Leader, Helper, Raise
<1>3. HoldersLive'
  BY DEF IInv, HoldersLive, TypeOK, ChildInPhase, Living, Batch, Leader, Helper, Raise
<1>4. EndOfRun'
  BY DEF IInv, EndOfRun, TypeOK, HoldersLive, ChildInPhase, Leader, Helper, Batch, Raise
<1>5. ResultFromStatus'
  BY DEF IInv, ResultFromStatus, TypeOK, ChildInPhase, EndOfRun, ExitCodes, Killed, Raise
<1>6. ReportIsTally'
  BY DEF IInv, ReportIsTally, TypeOK, ChildInPhase, ResultFromStatus, Tally, Raise
<1>7. OneAtATime'
  BY DEF IInv, OneAtATime, TypeOK, Active, Underway, Raise
<1>8. OwnEnds'
  BY DEF IInv, OwnEnds, TypeOK, HoldersLive, ChildInPhase, OneAtATime, Batch, Leader,
         Helper, Raise
<1>9. QED
  BY <1>1, <1>2, <1>3, <1>4, <1>5, <1>6, <1>7, <1>8 DEF IInv

\* The report preserves the invariant.
LEMMA ReportKeepsIInv ==
  ASSUME IInv, Report
  PROVE  IInv'
<1>1. TypeOK'
  BY DEF IInv, TypeOK, Strategies, Underway, Holders, Reports, Batch, Leader, Helper,
         Outcomes, Report, Tally
<1>2. ChildInPhase'
  BY DEF IInv, ChildInPhase, TypeOK, HoldersLive, Batch, Leader, Helper, Report, Tally
<1>3. HoldersLive'
  BY DEF IInv, HoldersLive, TypeOK, ChildInPhase, Living, Batch, Leader, Helper, Report,
         Tally
<1>4. EndOfRun'
  BY DEF IInv, EndOfRun, TypeOK, HoldersLive, ChildInPhase, Leader, Helper, Batch, Report,
         Tally
<1>5. ResultFromStatus'
  BY DEF IInv, ResultFromStatus, TypeOK, ChildInPhase, EndOfRun, ExitCodes, Killed,
         Report, Tally
<1>6. ReportIsTally'
  BY DEF IInv, ReportIsTally, TypeOK, ChildInPhase, ResultFromStatus, Tally, Report
<1>7. OneAtATime'
  BY DEF IInv, OneAtATime, TypeOK, Active, Underway, Report, Tally
<1>8. OwnEnds'
  BY DEF IInv, OwnEnds, TypeOK, HoldersLive, ChildInPhase, OneAtATime, Batch, Leader,
         Helper, Report, Tally
<1>9. QED
  BY <1>1, <1>2, <1>3, <1>4, <1>5, <1>6, <1>7, <1>8 DEF IInv

\* Every step preserves the invariant.
LEMMA NextKeepsIInv == IInv /\ [Next]_vars => IInv'
<1> SUFFICES ASSUME IInv, [Next]_vars
             PROVE  IInv'
  OBVIOUS
<1>1. ASSUME NEW r \in RunIds, TakeRun(r)
      PROVE  IInv'
  BY <1>1, TakeRunKeepsIInv
<1>2. ASSUME NEW r \in RunIds, ThreadStep(r)
      PROVE  IInv'
  BY <1>2, StartFailsKeepsIInv, SpawnChildKeepsIInv, OpenPipeKeepsIInv, ForkChildKeepsIInv,
     CloseWriteEndKeepsIInv, SeeEndKeepsIInv, TimeOutKeepsIInv, KillGroupKeepsIInv,
     DrainKeepsIInv, ReapKeepsIInv DEF ThreadStep
<1>3. ASSUME NEW r \in RunIds, TestStep(r)
      PROVE  IInv'
  BY <1>3, LeaveHelperKeepsIInv, LeaderExitsKeepsIInv, HelperExitsKeepsIInv DEF TestStep
<1>4. CASE Cancel \/ Raise \/ Report
  BY <1>4, CancelKeepsIInv, RaiseKeepsIInv, ReportKeepsIInv
<1>5. CASE UNCHANGED vars
  BY <1>5 DEF IInv, TypeOK, ChildInPhase, HoldersLive, Living, EndOfRun, ResultFromStatus,
              ReportIsTally, Tally, OneAtATime, Active, OwnEnds
<1>6. QED
  BY <1>1, <1>2, <1>3, <1>4, <1>5 DEF Next, Over

LEMMA Invariance == Spec => []IInv
<1>1. Init => IInv
  BY InitEstablishesIInv
<1>2. IInv /\ [Next]_vars => IInv'
  BY NextKeepsIInv
<1>3. QED
  BY <1>1, <1>2, PTL DEF Spec

-----------------------------------------------------------------------------
(* Theorems. *)

\* Every variable of a batch keeps its type.
THEOREM TypeCorrect == Spec => []TypeOK
BY Invariance, PTL DEF IInv

\* However many runs are spawned side by side, or forked one after the other, a run is out
\* of time only for a process of its own (the wait of _run_spawn and _run_fork).
THEOREM TimeoutSafety == Spec => []TimeoutIsItsOwn
<1>1. IInv => TimeoutIsItsOwn
  BY DEF IInv, OwnEnds, TimeoutIsItsOwn
<1>2. QED
  BY <1>1, Invariance, PTL

\* No outcome but timeout rests on a status the batch's own kill produced (classify and
\* _kill_group).
THEOREM VerdictSafety == Spec => []VerdictIsNotOurKill
<1>1. IInv => VerdictIsNotOurKill
  <2> SUFFICES ASSUME IInv, NEW r \in RunIds, result[r] \in Outcomes \ {"timeout"},
                      status[r] = Killed
               PROVE  FALSE
    BY DEF IInv, ResultFromStatus, VerdictIsNotOurKill
  <2>1. timedOut[r] /\ result[r] # None
    BY DEF IInv, ResultFromStatus
  <2>2. result[r] = Classify(status[r], timedOut[r])
    BY <2>1 DEF IInv, ResultFromStatus
  <2>3. QED
    BY <2>1, <2>2 DEF Classify
<1>2. QED
  BY <1>1, Invariance, PTL

\* A finished run leaves behind only a process that left its group, or one that holds no
\* output of a run that ended in time (_kill_group, communicate and select).
THEOREM LeftoverSafety == Spec => []LeftoversAreSilent
<1>1. IInv => LeftoversAreSilent
  BY DEF IInv, TypeOK, EndOfRun, Living, LeftoversAreSilent
<1>2. QED
  BY <1>1, Invariance, PTL

\* The report of a batch covers every run and calls clean only what ended by itself, in
\* time and with status 0 (measure).
THEOREM ReportSafety == Spec => []ReportIsFaithful
<1>1. IInv => ReportIsFaithful
  <2> SUFFICES ASSUME IInv, report # None
               PROVE  ReportIsFaithful
    BY DEF ReportIsFaithful
  <2>1. report = Tally /\ \A r \in RunIds : pc[r] = "done"
    BY DEF IInv, ReportIsTally
  <2>2. \A r \in RunIds : r \in report.failed <=> result[r] \in {"fail", "timeout"}
    BY <2>1 DEF Tally
  <2>3. \A r \in RunIds : r \in report.errored <=> result[r] = "error"
    BY <2>1 DEF Tally
  <2>4. ASSUME NEW r \in RunIds
        PROVE  /\ result[r] = Classify(status[r], timedOut[r])
               /\ status[r] \in ExitCodes \cup {Killed}
               /\ status[r] = Killed => timedOut[r]
    BY <2>1 DEF IInv, ResultFromStatus, ChildInPhase
  <2>5. ASSUME NEW r \in RunIds
        PROVE  /\ result[r] \notin {"fail", "timeout", "error"} <=>
                    status[r] = 0 /\ ~timedOut[r]
               /\ result[r] = "error" => status[r] > 1 /\ ~timedOut[r]
    <3>1. CASE timedOut[r]
      BY <2>4, <3>1 DEF Classify
    <3>2. CASE ~timedOut[r]
      <4>1. status[r] \in {-11, 0, 1, 5}
        BY <2>4, <3>2 DEF ExitCodes
      <4>2. result[r] = IF status[r] = 0 THEN "pass"
                        ELSE IF status[r] = 1 \/ status[r] < 0 THEN "fail" ELSE "error"
        BY <2>4, <3>2, <4>1 DEF Classify
      <4>3. QED
        BY <3>2, <4>1, <4>2
    <3>3. QED
      BY <3>1, <3>2
  <2>6. report.failed \subseteq RunIds /\ report.errored \subseteq RunIds
    BY <2>1 DEF Tally
  <2>7. report.failed \cap report.errored = {}
    BY <2>2, <2>3, <2>6
  <2>8. ASSUME NEW r \in RunIds
        PROVE  /\ r \notin report.failed \cup report.errored <=>
                    status[r] = 0 /\ ~timedOut[r]
               /\ r \in report.errored => status[r] > 1 /\ ~timedOut[r]
    <3>1. r \notin report.failed \cup report.errored <=>
            result[r] \notin {"fail", "timeout", "error"}
      BY <2>2, <2>3
    <3>2. QED
      BY <3>1, <2>3, <2>5
  <2>9. QED
    BY <2>1, <2>7, <2>8 DEF ReportIsFaithful
<1>2. QED
  BY <1>1, Invariance, PTL

\* Failures and errors of a report are runs of the batch and add up to no more: the counts
\* that the verdicts on a report are drawn from (Evidence's Batches; runner.py's
\* BatchReport).
THEOREM CountsFit ==
  Spec => [](report # None => Cardinality(report.failed) + Cardinality(report.errored) <= Runs)
<1>1. ASSUME IInv, report # None
      PROVE  Cardinality(report.failed) + Cardinality(report.errored) <= Runs
  <2> DEFINE F == {r \in RunIds : result[r] \in {"fail", "timeout"}}
  <2> DEFINE E == {r \in RunIds : result[r] = "error"}
  <2>1. report.failed = F /\ report.errored = E
    BY <1>1 DEF IInv, ReportIsTally, Tally
  <2>2. IsFiniteSet(RunIds) /\ Cardinality(RunIds) = Runs
    BY FS_Interval
  <2>3. IsFiniteSet(F) /\ IsFiniteSet(E) /\ IsFiniteSet(F \cup E)
    BY <2>2, FS_Subset
  <2>4. F \cap E = {} /\ F \cup E \subseteq RunIds
    OBVIOUS
  <2> HIDE DEF F, E
  <2>5. Cardinality(F \cup E) = Cardinality(F) + Cardinality(E) - Cardinality(F \cap E)
    BY <2>3, FS_Union
  <2>6. Cardinality(F \cap E) = 0
    BY <2>4, FS_EmptySet
  <2>7. Cardinality(F \cup E) <= Cardinality(RunIds)
    BY <2>2, <2>4, FS_Subset
  <2>8. Cardinality(F) \in Nat /\ Cardinality(E) \in Nat
    BY <2>3, FS_CardinalityType
  <2>9. QED
    BY <2>1, <2>2, <2>5, <2>6, <2>7, <2>8
<1>2. QED
  BY <1>1, Invariance, PTL

-----------------------------------------------------------------------------
(* A batch goes on.                                                        *)

\* The moves of a thread.
Follows(from, to) ==
  \/ from = "queued" /\ to = "prepare"
  \/ from = "prepare" /\ to \in {"raised", "wait", "pipe"}
  \/ from = "pipe" /\ to = "forked"
  \/ from = "forked" /\ to = "wait"
  \/ from = "wait" /\ to \in {"reap", "kill"}
  \/ from = "kill" /\ to \in {"drain", "reap"}
  \/ from = "drain" /\ to = "reap"
  \/ from = "reap" /\ to = "done"

LEMMA StageRange == \A q : Stage(q) \in 0..8 /\ Stage(q)' \in 0..8
<1>1. ASSUME NEW q PROVE Stage(q) \in {0, 1, 2, 3, 4, 5, 6, 7, 8}
  BY Zenon DEF Stage
<1>2. ASSUME NEW q PROVE Stage(q)' \in {0, 1, 2, 3, 4, 5, 6, 7, 8}
  BY Zenon DEF Stage
<1>3. QED
  BY <1>1, <1>2

\* A thread that moves takes its run forward, and no other.
LEMMA MoveIsForward ==
  ASSUME TypeOK, NEW r \in RunIds, NEW step, Goto(r, step), Follows(pc[r], step)
  PROVE  /\ Stage(r)' > Stage(r)
         /\ \A q \in RunIds : Stage(q)' >= Stage(q)
<1>1. pc'[r] = step /\ \A q \in RunIds : q # r => pc'[q] = pc[q]
  BY DEF TypeOK
<1>2. Stage(r)' > Stage(r)
  BY <1>1 DEF Follows, Stage
<1>3. \A q \in RunIds : q # r => Stage(q)' = Stage(q)
  BY <1>1 DEF Stage
<1>4. \A q \in RunIds : Stage(q) \in 0..8 /\ Stage(q)' \in 0..8
  BY StageRange
<1>5. QED
  BY <1>2, <1>3, <1>4

\* No run goes back, and the batch's own steps take one forward or end the batch (run_once
\* and measure).
THEOREM Forward == Spec => RunsGoForward
<1>1. ASSUME IInv, Next, ~UNCHANGED vars
      PROVE  /\ \A r \in RunIds : Stage(r)' >= Stage(r)
             /\ \/ \E r \in RunIds : Stage(r)' > Stage(r)
                \/ batch = "running" /\ batch' # "running"
                \/ \E r \in RunIds : TestStep(r)
  <2> DEFINE unmoved == \A r \in RunIds : Stage(r)' >= Stage(r)
  <2>0. UNCHANGED pc => unmoved
    BY StageRange DEF Stage
  <2>1. ASSUME NEW r \in RunIds, TakeRun(r) \/ ThreadStep(r)
        PROVE  unmoved /\ Stage(r)' > Stage(r)
    <3>1. \E step : Goto(r, step) /\ Follows(pc[r], step)
      <4>1. CASE TakeRun(r) \/ StartFails(r) \/ SpawnChild(r) \/ OpenPipe(r) \/ ForkChild(r)
        BY <4>1 DEF TakeRun, StartFails, SpawnChild, OpenPipe, ForkChild, Follows
      <4>2. CASE CloseWriteEnd(r) \/ SeeEnd(r) \/ TimeOut(r) \/ KillGroup(r) \/ Drain(r) \/ Reap(r)
        BY <4>2 DEF CloseWriteEnd, SeeEnd, TimeOut, KillGroup, Drain, Reap, Follows
      <4>3. QED
        BY <2>1, <4>1, <4>2 DEF ThreadStep
    <3>2. QED
      BY <1>1, <3>1, MoveIsForward DEF IInv
  <2>2. ASSUME NEW r \in RunIds, TestStep(r) PROVE unmoved
    BY <2>0, <2>2 DEF TestStep, LeaveHelper, LeaderExits, HelperExits
  <2>3. CASE Cancel
    <3>1. PICK r \in RunIds : pc[r] = "queued"
      BY <2>3 DEF Cancel
    <3>2. \A q \in RunIds : pc'[q] = IF pc[q] = "queued" THEN "cancelled" ELSE pc[q]
      BY <2>3 DEF Cancel
    <3>3. \A q \in RunIds :
            /\ pc[q] = "queued" => Stage(q) = 0 /\ Stage(q)' = 8
            /\ pc[q] # "queued" => Stage(q)' = Stage(q)
      BY <3>2 DEF Stage
    <3>4. unmoved /\ Stage(r)' > Stage(r)
      BY <3>1, <3>3, StageRange
    <3>5. QED
      BY <3>4
  <2>4. CASE Raise \/ Report
    <3>1. UNCHANGED pc /\ batch = "running" /\ batch' # "running"
      BY <2>4 DEF Raise, Report
    <3>2. QED
      BY <2>0, <3>1
  <2>5. QED
    BY <1>1, <2>1, <2>2, <2>3, <2>4 DEF Next, Over
<1>2. IInv /\ [Next]_vars =>
        [/\ \A r \in RunIds : Stage(r)' >= Stage(r)
         /\ \/ \E r \in RunIds : Stage(r)' > Stage(r)
            \/ batch = "running" /\ batch' # "running"
            \/ \E r \in RunIds : TestStep(r)]_vars
  BY <1>1
<1>3. QED
  BY <1>2, Invariance, PTL DEF Spec, RunsGoForward

\* The runs are taken in order; once some are cancelled one has failed to start; without a
\* pool the run under way, or the one that failed to start, is the last that was taken;
\* and only spawned runs are drained.
PoolInOrder ==
  /\ (\A r \in RunIds : pc[r] # "cancelled") =>
       \E n \in 0..Runs : \A r \in RunIds : pc[r] = "queued" <=> r > n
  /\ (\E r \in RunIds : pc[r] = "cancelled") =>
       /\ \A r \in RunIds : pc[r] # "queued"
       /\ \E r \in RunIds : pc[r] = "raised"
  /\ workers = 1 =>
       \A r \in RunIds : pc[r] \in Underway \cup {"raised"} =>
         \A q \in RunIds : /\ q < r => pc[q] = "done"
                           /\ q > r => pc[q] \in {"queued", "cancelled"}
  /\ \A r \in RunIds : pc[r] = "drain" => strategy = "spawn"

\* A thread that moves inside run_once, or out of it, keeps the pool in order.
LEMMA MoveKeepsOrder ==
  ASSUME IInv, PoolInOrder, NEW r \in RunIds, NEW step, Goto(r, step),
         pc[r] \in Underway, step \in Underway \cup {"done", "raised"},
         step = "drain" => strategy = "spawn", UNCHANGED <<strategy, workers>>
  PROVE  PoolInOrder'
<1>1. pc'[r] = step /\ \A q \in RunIds : q # r => pc'[q] = pc[q]
  BY DEF IInv, TypeOK
<1>2. pc[r] \notin {"queued", "cancelled", "raised", "done"}
      /\ pc'[r] \notin {"queued", "cancelled"}
  BY <1>1 DEF Underway
<1>3. \A q \in RunIds : /\ pc'[q] = "queued" <=> pc[q] = "queued"
                        /\ pc'[q] = "cancelled" <=> pc[q] = "cancelled"
                        /\ pc[q] = "raised" => pc'[q] = "raised"
  BY <1>1, <1>2
<1>4. (\A q \in RunIds : pc'[q] # "cancelled") =>
        \E n \in 0..Runs : \A q \in RunIds : pc'[q] = "queued" <=> q > n
  BY <1>3 DEF PoolInOrder
<1>5. (\E q \in RunIds : pc'[q] = "cancelled") =>
        /\ \A q \in RunIds : pc'[q] # "queued"
        /\ \E q \in RunIds : pc'[q] = "raised"
  BY <1>3 DEF PoolInOrder
<1>6. ASSUME workers = 1, NEW u \in RunIds, pc'[u] \in Underway \cup {"raised"}, NEW q \in RunIds
      PROVE  /\ q < u => pc'[q] = "done"
             /\ q > u => pc'[q] \in {"queued", "cancelled"}
  <2>1. pc[u] \in Underway \cup {"raised"}
    BY <1>1, <1>6
  <2>2. u = r
    <3> SUFFICES ASSUME u # r PROVE FALSE
      OBVIOUS
    <3>1. pc[r] = "done" \/ pc[r] \in {"queued", "cancelled"}
      BY <1>6, <2>1 DEF PoolInOrder
    <3>2. QED
      BY <1>2, <3>1
  <2>3. q # r => pc'[q] = pc[q]
    BY <1>1
  <2>4. QED
    BY <1>6, <2>1, <2>2, <2>3 DEF PoolInOrder
<1>7. \A q \in RunIds : pc'[q] = "drain" => strategy = "spawn"
  BY <1>1 DEF PoolInOrder
<1>8. QED
  BY <1>4, <1>5, <1>6, <1>7 DEF PoolInOrder

\* A free thread takes the first of those that wait.
LEMMA TakeRunKeepsOrder ==
  ASSUME IInv, PoolInOrder, NEW r \in RunIds, TakeRun(r) PROVE PoolInOrder'
<1>1. /\ pc[r] = "queued" /\ pc'[r] = "prepare"
      /\ \A q \in RunIds : q # r => pc'[q] = pc[q]
      /\ \A q \in RunIds : q < r => pc[q] # "queued"
      /\ UNCHANGED <<workers, strategy>>
  BY DEF IInv, TypeOK, TakeRun
<1>2. \A q \in RunIds : pc[q] # "cancelled" /\ pc'[q] # "cancelled"
  BY <1>1 DEF PoolInOrder
<1>3. PICK n \in 0..Runs : \A q \in RunIds : pc[q] = "queued" <=> q > n
  BY <1>2 DEF PoolInOrder
<1>4. r = n + 1
  <2>1. r > n
    BY <1>1, <1>3
  <2>2. n + 1 \in RunIds /\ n + 1 > n
    BY <2>1
  <2>3. ~(n + 1 < r)
    BY <1>1, <1>3, <2>2
  <2>4. QED
    BY <2>1, <2>3
<1>5. \A q \in RunIds : pc'[q] = "queued" <=> q > r
  BY <1>1, <1>3, <1>4
<1>6. ASSUME workers = 1, NEW u \in RunIds, pc'[u] \in Underway \cup {"raised"}, NEW q \in RunIds
      PROVE  /\ q < u => pc'[q] = "done"
             /\ q > u => pc'[q] \in {"queued", "cancelled"}
  <2>1. Active = {}
    BY <1>6, NoneUnderway DEF IInv, TakeRun
  <2>2. \A v \in RunIds : pc[v] \notin Underway /\ pc[v] # "raised"
    BY <1>6, <2>1 DEF Active, TakeRun
  <2>3. u = r
    BY <1>1, <1>6, <2>2
  <2>4. q < r => pc[q] = "done"
    BY <1>1, <1>2, <2>2 DEF IInv, TypeOK
  <2>5. QED
    BY <1>1, <1>5, <2>3, <2>4
<1>7. \A q \in RunIds : pc'[q] = "drain" => strategy = "spawn"
  BY <1>1 DEF PoolInOrder
<1>8. QED
  BY <1>1, <1>2, <1>5, <1>6, <1>7 DEF PoolInOrder

LEMMA CancelKeepsOrder == ASSUME IInv, PoolInOrder, Cancel PROVE PoolInOrder'
<1>1. /\ \A q \in RunIds : pc'[q] = IF pc[q] = "queued" THEN "cancelled" ELSE pc[q]
      /\ \E q \in RunIds : pc[q] = "raised"
      /\ \E q \in RunIds : pc[q] = "queued"
      /\ UNCHANGED <<workers, strategy>>
  BY DEF Cancel
<1>2. \A q \in RunIds : pc'[q] \in Underway \cup {"raised", "drain"} => pc[q] = pc'[q]
  BY <1>1 DEF Underway
<1>3. QED
  BY <1>1, <1>2 DEF PoolInOrder

\* Every step keeps the pool in order.
LEMMA StepKeepsOrder == IInv /\ PoolInOrder /\ [Next]_vars => PoolInOrder'
<1> SUFFICES ASSUME IInv, PoolInOrder, [Next]_vars PROVE PoolInOrder'
  OBVIOUS
<1>1. ASSUME NEW r \in RunIds, TakeRun(r) PROVE PoolInOrder'
  BY <1>1, TakeRunKeepsOrder
<1>2. ASSUME NEW r \in RunIds, ThreadStep(r) PROVE PoolInOrder'
  <2>1. \E step : /\ Goto(r, step) /\ step \in Underway \cup {"done", "raised"}
                  /\ step = "drain" => strategy = "spawn"
    <3>1. CASE StartFails(r) \/ SpawnChild(r) \/ OpenPipe(r) \/ ForkChild(r) \/ CloseWriteEnd(r)
      BY <3>1 DEF StartFails, SpawnChild, OpenPipe, ForkChild, CloseWriteEnd, Underway
    <3>2. CASE SeeEnd(r) \/ TimeOut(r) \/ KillGroup(r) \/ Drain(r) \/ Reap(r)
      BY <3>2 DEF SeeEnd, TimeOut, KillGroup, Drain, Reap, Underway
    <3>3. QED
      BY <1>2, <3>1, <3>2 DEF ThreadStep
  <2>2. pc[r] \in Underway /\ UNCHANGED <<strategy, workers>>
    BY <1>2 DEF ThreadStep, StartFails, SpawnChild, OpenPipe, ForkChild, CloseWriteEnd,
           SeeEnd,
         TimeOut, KillGroup, Drain, Reap, Underway
  <2>3. QED
    BY <2>1, <2>2, MoveKeepsOrder
<1>3. CASE Cancel
  BY <1>3, CancelKeepsOrder
<1>4. CASE UNCHANGED <<pc, strategy, workers>>
  BY <1>4 DEF PoolInOrder
<1>5. ASSUME NEW r \in RunIds, TestStep(r) PROVE UNCHANGED <<pc, strategy, workers>>
  BY <1>5 DEF TestStep, LeaveHelper, LeaderExits, HelperExits
<1>6. CASE Raise \/ Report
  BY <1>6, <1>4 DEF Raise, Report
<1>7. QED
  BY <1>1, <1>2, <1>3, <1>4, <1>5, <1>6 DEF Next, Over

\* Only a process that left its group can keep a thread waiting.
LEMMA ActiveCanGoOn == ASSUME IInv, PoolInOrder, NEW r \in Active PROVE CanGoOn(r)
<1>1. r \in RunIds /\ pc[r] \in Underway
  BY DEF Active
<1>2. CASE pc[r] = "drain"
  <2>1. strategy = "spawn" /\ timedOut[r] /\ helper[r] # "grouped" /\ leader[r] = "exited"
    BY <1>1, <1>2 DEF IInv, PoolInOrder, EndOfRun, ChildInPhase
  <2>2. ends[r] \subseteq {Batch, Leader(r), Helper(r)}
    BY <1>1, <2>1 DEF IInv, OwnEnds
  <2>3. Batch \notin ends[r] /\ Leader(r) \notin ends[r]
    BY <1>1, <1>2, <2>1 DEF IInv, HoldersLive
  <2>4. Helper(r) \in ends[r] => helper[r] = "escaped"
    BY <1>1, <2>1 DEF IInv, HoldersLive, Living
  <2>5. QED
    BY <1>2, <2>2, <2>3, <2>4 DEF CanGoOn
<1>3. CASE pc[r] = "reap"
  BY <1>1, <1>3 DEF IInv, ChildInPhase, CanGoOn
<1>4. QED
  BY <1>1, <1>2, <1>3 DEF Underway, CanGoOn

\* The pool of measure never deadlocks, for any number of runs and threads: only a process
\* that left its group and keeps its output can hold a batch (measure, run_once).
THEOREM NoDeadlock == Spec => []NeverStuck
<1>1. Init => PoolInOrder
  <2> SUFFICES ASSUME Init PROVE PoolInOrder
    OBVIOUS
  <2>1. \A r \in RunIds : pc[r] = "queued" /\ r > 0
    BY DEF Init
  <2>2. 0 \in 0..Runs
    OBVIOUS
  <2>3. QED
    BY <2>1, <2>2 DEF PoolInOrder, Underway
<1>2. IInv /\ PoolInOrder /\ [Next]_vars => PoolInOrder'
  BY StepKeepsOrder
<1>3. IInv /\ PoolInOrder => NeverStuck
  <2> SUFFICES ASSUME IInv, PoolInOrder, batch = "running" PROVE NeverStuck
    BY DEF NeverStuck
  <2>1. CASE Active # {}
    BY <2>1, ActiveCanGoOn DEF NeverStuck
  <2>2. CASE Active = {} /\ \A r \in RunIds : pc[r] # "queued"
    <3>1. \A r \in RunIds : pc[r] \in {"done", "raised", "cancelled"}
      BY <2>2 DEF IInv, TypeOK, Active
    <3>2. (\E r \in RunIds : pc[r] = "raised") \/ (\A r \in RunIds : pc[r] = "done")
      BY <3>1 DEF PoolInOrder
    <3>3. QED
      BY <2>2, <3>2 DEF NeverStuck
  <2>3. CASE Active = {} /\ \E r \in RunIds : pc[r] = "queued"
    <3>1. PICK n \in 0..Runs : \A r \in RunIds : pc[r] = "queued" <=> r > n
      BY <2>3 DEF PoolInOrder
    <3>2. n + 1 \in RunIds
      BY <2>3, <3>1
    <3>3. pc[n + 1] = "queued" /\ \A q \in RunIds : q < n + 1 => pc[q] # "queued"
      BY <3>1, <3>2
    <3>4. CASE workers > 1 \/ \A q \in RunIds : pc[q] # "raised"
      BY <2>3, <3>2, <3>3, <3>4 DEF NeverStuck
    <3>5. CASE workers = 1 /\ \E q \in RunIds : pc[q] = "raised"
      <4>1. PICK q \in RunIds : pc[q] = "raised"
        BY <3>5
      <4>2. \A u \in RunIds : u < q => pc[u] = "done"
        BY <3>5, <4>1 DEF PoolInOrder
      <4>3. QED
        BY <2>3, <4>1, <4>2 DEF NeverStuck
    <3>6. workers > 1 \/ workers = 1
      BY DEF IInv, TypeOK
    <3>7. QED
      BY <3>4, <3>5, <3>6
  <2>4. QED
    BY <2>1, <2>2, <2>3
<1>4. QED
  BY <1>1, <1>2, <1>3, Invariance, PTL DEF Spec

-----------------------------------------------------------------------------
(* To its caller a batch is a Measurement.                                 *)

Phases   == [r \in RunIds |-> PhaseOf(r)]
Children == {r \in RunIds : leader[r] \in {"running", "exited"}}

\* The caller's phases and those of the thread.
LEMMA PhaseFacts ==
  ASSUME TypeOK, NEW r \in RunIds
  PROVE  /\ PhaseOf(r) = "waiting" <=> pc[r] = "queued"
         /\ PhaseOf(r) = "judged" <=> pc[r] = "done"
         /\ PhaseOf(r) = "broken" <=> pc[r] = "raised"
         /\ PhaseOf(r) = "begun" <=> pc[r] \in Underway
BY DEF TypeOK, PhaseOf, Underway

\* The runs the caller takes for begun are those a thread is at.
LEMMA BegunIsActive == ASSUME TypeOK PROVE Measured!In("begun") = Active
BY PhaseFacts DEF Measured!In, Measured!RunIds, Active

\* A thread that moves on inside run_once shows its caller nothing.
LEMMA UnseenMove ==
  ASSUME TypeOK, NEW r \in RunIds, NEW step \in Underway, pc[r] \in Underway, Goto(r, step)
  PROVE  Phases' = Phases
<1> SUFFICES ASSUME NEW q \in RunIds PROVE PhaseOf(q)' = PhaseOf(q)
  BY DEF Phases
<1>1. CASE q = r
  BY <1>1 DEF TypeOK, PhaseOf, Underway
<1>2. CASE q # r
  BY <1>2 DEF TypeOK, PhaseOf
<1>3. QED
  BY <1>1, <1>2

\* One that enters or leaves it moves its run's phase only.
LEMMA SeenMove ==
  ASSUME TypeOK, NEW r \in RunIds, NEW step, Goto(r, step), NEW p,
         \/ step = "prepare" /\ p = "begun"
         \/ step = "done" /\ p = "judged"
         \/ step = "raised" /\ p = "broken"
  PROVE  Phases' = [Phases EXCEPT ![r] = p]
<1>1. pc'[r] = step /\ \A q \in RunIds : q # r => pc'[q] = pc[q]
  BY DEF TypeOK
<1>2. PhaseOf(r)' = p
  BY <1>1 DEF PhaseOf, Underway
<1>3. \A q \in RunIds : q # r => PhaseOf(q)' = PhaseOf(q)
  BY <1>1 DEF PhaseOf
<1>4. QED
  BY <1>2, <1>3 DEF Phases

\* What the caller sees of a step: the instance's state, spelled out.
Seen == <<workers, Phases, Children, result, batch, report>>

LEMMA TakeRunIsBegin == ASSUME IInv, NEW r \in RunIds, TakeRun(r) PROVE Measured!Begin(r)
<1>1. Phases' = [Phases EXCEPT ![r] = "begun"]
  BY SeenMove DEF IInv, TakeRun
<1>2. Cardinality(Measured!In("begun")) < workers
  BY BegunIsActive DEF IInv, TakeRun
<1>3. \A q \in RunIds : Phases[q] = "waiting" <=> pc[q] = "queued"
  BY PhaseFacts DEF IInv, Phases
<1>4. /\ batch = "running" /\ pc[r] = "queued"
      /\ \A q \in RunIds : q < r => pc[q] # "queued"
      /\ UNCHANGED <<workers, Children, result, batch, report>>
  BY DEF TakeRun, Children
<1>5. Phases[r] = "waiting" /\ \A q \in RunIds : q < r => Phases[q] # "waiting"
  BY <1>3, <1>4
<1>6. Measured!Cardinality(Measured!In("begun")) < workers
  BY <1>2 DEF Cardinality, Measured!Cardinality
<1>7. QED
  BY <1>1, <1>4, <1>5, <1>6, Zenon DEF Measured!Begin, Measured!RunIds, Phases, Children

\* A spawned or forked child is what the caller counts as started; a run that cannot
\* start is broken.
LEMMA ChildIsStart ==
  ASSUME IInv, NEW r \in RunIds, SpawnChild(r) \/ ForkChild(r)
  PROVE  Measured!Start(r)
<1>1. pc[r] \in {"prepare", "pipe"} /\ leader[r] = "none"
  BY DEF IInv, ChildInPhase, SpawnChild, ForkChild
<1>2. Phases' = Phases
  BY <1>1, UnseenMove DEF IInv, SpawnChild, ForkChild, Underway
<1>3. Children' = Children \cup {r} /\ r \notin Children
  BY <1>1 DEF IInv, TypeOK, Children, SpawnChild, ForkChild
<1>4. Phases[r] = "begun"
  BY <1>1, PhaseFacts DEF IInv, Phases, Underway
<1>5. UNCHANGED <<workers, result, batch, report>>
  BY DEF SpawnChild, ForkChild
<1>6. QED
  BY <1>2, <1>3, <1>4, <1>5 DEF Measured!Start, Phases, Children

LEMMA StartFailsIsBreak ==
  ASSUME IInv, NEW r \in RunIds, StartFails(r)
  PROVE  Measured!Break(r)
<1>1. pc[r] = "prepare" /\ leader[r] = "none"
  BY DEF IInv, ChildInPhase, StartFails
<1>2. Phases' = [Phases EXCEPT ![r] = "broken"]
  BY SeenMove DEF IInv, StartFails
<1>3. Phases[r] = "begun" /\ r \notin Children
  BY <1>1, PhaseFacts DEF IInv, Phases, Underway, Children
<1>4. UNCHANGED <<workers, Children, result, batch, report>>
  BY DEF StartFails, Children
<1>5. QED
  BY <1>2, <1>3, <1>4 DEF Measured!Break, Phases, Children

\* Reaping the child judges the run.
LEMMA ReapIsJudge ==
  ASSUME IInv, NEW r \in RunIds, Reap(r)
  PROVE  \E v \in Outcomes : Measured!Judge(r, v)
<1>1. PICK v \in Outcomes : v = Classify(status[r], timedOut[r])
  BY DEF Classify, Outcomes
<1>2. Phases' = [Phases EXCEPT ![r] = "judged"]
  BY SeenMove DEF IInv, Reap
<1>3. Phases[r] = "begun"
  BY PhaseFacts DEF IInv, Reap, Phases, Underway
<1>4. r \in Children /\ Children' = Children \ {r}
  BY DEF IInv, TypeOK, Reap, Children
<1>5. result' = [result EXCEPT ![r] = v] /\ UNCHANGED <<workers, batch, report>>
  BY <1>1 DEF Reap
<1>6. Measured!Judge(r, v)
  BY <1>2, <1>3, <1>4, <1>5 DEF Measured!Judge, Phases, Children
<1>7. QED
  BY <1>6

\* What threads do between, what tests do, and what the clock and the kill do, shows the
\* caller nothing.
LEMMA UnseenSteps ==
  ASSUME IInv, NEW r \in RunIds,
         \/ OpenPipe(r) \/ CloseWriteEnd(r) \/ SeeEnd(r) \/ TimeOut(r) \/ KillGroup(r)
         \/ Drain(r) \/ TestStep(r)
  PROVE  UNCHANGED Seen
<1>1. UNCHANGED <<workers, result, batch, report>>
  BY DEF OpenPipe, CloseWriteEnd, SeeEnd, TimeOut, KillGroup, Drain, TestStep, LeaveHelper,
         LeaderExits, HelperExits
<1>2. Children' = Children
  <2>1. CASE KillGroup(r)
    <3>1. leader[r] \in {"running", "exited"}
      BY <2>1 DEF IInv, ChildInPhase, KillGroup
    <3>2. QED
      BY <2>1, <3>1 DEF IInv, TypeOK, KillGroup, Children
  <2>2. CASE TestStep(r)
    BY <2>2 DEF IInv, TypeOK, TestStep, LeaveHelper, LeaderExits, HelperExits, Children
  <2>3. CASE OpenPipe(r) \/ CloseWriteEnd(r) \/ SeeEnd(r) \/ TimeOut(r) \/ Drain(r)
    BY <2>3 DEF OpenPipe, CloseWriteEnd, SeeEnd, TimeOut, Drain, Children
  <2>4. QED
    BY <2>1, <2>2, <2>3
<1>3. Phases' = Phases
  <2>1. CASE TestStep(r)
    BY <2>1 DEF TestStep, LeaveHelper, LeaderExits, HelperExits, Phases, PhaseOf
  <2>2. CASE ~TestStep(r)
    <3>1. pc[r] \in Underway /\ \E step \in Underway : Goto(r, step)
      BY <2>2 DEF OpenPipe, CloseWriteEnd, SeeEnd, TimeOut, KillGroup, Drain, Underway
    <3>2. QED
      BY <3>1, UnseenMove DEF IInv
  <2>3. QED
    BY <2>1, <2>2
<1>4. QED
  BY <1>1, <1>2, <1>3 DEF Seen

LEMMA CancelIsCancel == ASSUME IInv, Cancel PROVE Measured!Cancel
<1>1. \A q \in RunIds :
        /\ pc'[q] = IF pc[q] = "queued" THEN "cancelled" ELSE pc[q]
        /\ Phases[q] = "waiting" <=> pc[q] = "queued"
        /\ Phases[q] = "broken" <=> pc[q] = "raised"
  BY PhaseFacts DEF IInv, Phases, Cancel
<1>2. \A q \in RunIds :
        PhaseOf(q)' = IF pc[q] = "queued" THEN "cancelled" ELSE PhaseOf(q)
  <2> TAKE q \in RunIds
  <2>1. CASE pc[q] = "queued"
    BY <1>1, <2>1 DEF PhaseOf, Underway
  <2>2. CASE pc[q] # "queued"
    BY <1>1, <2>2 DEF PhaseOf
  <2>3. QED
    BY <2>1, <2>2
<1>3. Phases' = [q \in RunIds |-> IF Phases[q] = "waiting" THEN "cancelled" ELSE Phases[q]]
  BY <1>1, <1>2 DEF Phases
<1>4. \E q \in RunIds : Phases[q] = "broken"
  BY <1>1 DEF Cancel
<1>5. UNCHANGED <<workers, Children, result, report>> /\ batch = "running" /\ batch' = batch
  BY DEF Cancel, Children
<1>6. QED
  BY <1>3, <1>4, <1>5
     DEF Measured!Cancel, Measured!In, Measured!RunIds, Phases, Children

\* When no thread is at a run, no child is left.
LEMMA NoChildLeft ==
  ASSUME IInv, \A r \in RunIds : pc[r] \in {"done", "raised", "cancelled"}
  PROVE  Children = {}
BY DEF IInv, ChildInPhase, Children

LEMMA RaiseIsRaise == ASSUME IInv, Raise PROVE Measured!Raise
<1>1. \A r \in RunIds : pc[r] \in {"done", "raised", "cancelled"}
  BY DEF IInv, TypeOK, Raise, Active
<1>2. Children = {}
  BY <1>1, NoChildLeft
<1>3. Measured!In("begun") = {} /\ Measured!In("waiting") = {} /\ Measured!In("broken") # {}
  BY <1>1, PhaseFacts DEF IInv, Raise, Underway, Measured!In, Measured!RunIds
<1>4. UNCHANGED <<workers, Phases, Children, result, report>>
  BY DEF Raise, Phases, PhaseOf, Children
<1>5. batch = "running" /\ batch' = "raised"
  BY DEF Raise
<1>6. QED
  BY <1>2, <1>3, <1>4, <1>5 DEF Measured!Raise, Phases, Children

LEMMA ReportIsReport == ASSUME IInv, Report PROVE Measured!Report
<1>1. \A r \in RunIds : pc[r] = "done"
  BY DEF Report
<1>2. Children = {}
  BY <1>1, NoChildLeft
<1>3. Measured!In("judged") = RunIds
  BY <1>1, PhaseFacts DEF IInv, Measured!In, Measured!RunIds
<1>4. UNCHANGED <<workers, Phases, Children, result>>
  BY DEF Report, Phases, PhaseOf, Children
<1>5. batch = "running" /\ batch' = "reported"
  BY DEF Report
<1>6. report' = [failed  |-> {r \in RunIds : result[r] \in {"fail", "timeout"}},
                 errored |-> {r \in RunIds : result[r] \in {"error"}}]
  BY DEF Report, Tally
<1>7. QED
  BY <1>2, <1>3, <1>4, <1>5, <1>6
     DEF Measured!Report, Measured!RunIds, Phases, Children

\* Every step of the batch and of the tests is a step of the measurement or shows its
\* caller nothing.
LEMMA StepIsMeasurementStep == IInv /\ [Next]_vars => [Measured!Next]_(Measured!batch)
<1> SUFFICES ASSUME IInv, [Next]_vars PROVE Measured!Next \/ UNCHANGED Seen
  BY DEF Measured!batch, Seen, Phases, Children
<1>1. ASSUME NEW r \in RunIds, TakeRun(r) PROVE Measured!Next
  BY <1>1, TakeRunIsBegin DEF Measured!Next, Measured!RunIds
<1>2. ASSUME NEW r \in RunIds, ThreadStep(r) PROVE Measured!Next \/ UNCHANGED Seen
  <2>1. CASE StartFails(r)
    BY <2>1, StartFailsIsBreak DEF Measured!Next, Measured!RunIds
  <2>2. CASE SpawnChild(r) \/ ForkChild(r)
    BY <2>2, ChildIsStart DEF Measured!Next, Measured!RunIds
  <2>3. CASE Reap(r)
    BY <2>3, ReapIsJudge DEF Measured!Next, Measured!RunIds
  <2>4. QED
    BY <1>2, <2>1, <2>2, <2>3, UnseenSteps DEF ThreadStep
<1>3. ASSUME NEW r \in RunIds, TestStep(r) PROVE UNCHANGED Seen
  BY <1>3, UnseenSteps
<1>4. CASE Cancel \/ Raise \/ Report
  BY <1>4, CancelIsCancel, RaiseIsRaise, ReportIsReport DEF Measured!Next
<1>5. CASE UNCHANGED vars
  BY <1>5 DEF Seen, Phases, PhaseOf, Children
<1>6. QED
  BY <1>1, <1>2, <1>3, <1>4, <1>5 DEF Next, Over

\* To its caller a batch is a Measurement, for any number of runs and threads, whatever the
\* tests leave behind (runner.py's measure, executor.py's run_once).
THEOREM MeasurementRefinement == Spec => ImplementsMeasurement
<1>1. Init => Measured!Init
  <2> SUFFICES ASSUME Init PROVE Measured!Init
    OBVIOUS
  <2>1. \A r \in RunIds : PhaseOf(r) = "waiting"
    BY InitEstablishesIInv, PhaseFacts DEF Init, IInv
  <2>2. Phases = [r \in RunIds |-> "waiting"] /\ Children = {}
    BY <2>1 DEF Init, Phases, Children
  <2>3. /\ workers \in Nat \ {0} /\ result = [r \in RunIds |-> None]
        /\ batch = "running" /\ report = None
    BY DEF Init
  <2>4. QED
    BY <2>2, <2>3 DEF Measured!Init, Measured!RunIds, Phases, Children
<1>2. IInv /\ [Next]_vars => [Measured!Next]_(Measured!batch)
  BY StepIsMeasurementStep
<1>3. QED
  BY <1>1, <1>2, Invariance, PTL DEF Spec, ImplementsMeasurement, Measured!Spec

=============================================================================
