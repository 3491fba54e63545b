----------------------------- MODULE Measurement -----------------------------
(***************************************************************************)
(* What a caller of measure (src/src/harness/runner.py) relies on.  The    *)
(* runs of a batch are begun in their order, so many at a time; each is    *)
(* judged once, when its child is gone.  The batch ends with a report that *)
(* counts every run, or with an exception and no report, and in neither    *)
(* case before all it has begun is over.                                   *)
(***************************************************************************)
EXTENDS Integers, FiniteSets

CONSTANTS
  Runs,             \* runs of the batch
  Failures, Errors, \* the verdicts a report counts as failed, and as errored
  Verdicts,         \* all verdicts
  None              \* no verdict, or no report, yet

VARIABLES
  workers,   \* runs that may be under way at a time
  phase,     \* waiting, begun, judged, broken or cancelled
  children,  \* runs whose child is there
  verdict,
  state,     \* running, reported or raised
  report

batch == <<workers, phase, children, verdict, state, report>>

RunIds == 1..Runs
In(p)  == {r \in RunIds : phase[r] = p}

Init ==
  /\ workers \in Nat \ {0}
  /\ phase = [r \in RunIds |-> "waiting"] /\ children = {}
  /\ verdict = [r \in RunIds |-> None] /\ state = "running" /\ report = None

Begin(r) ==
  /\ state = "running" /\ phase[r] = "waiting"
  /\ \A q \in RunIds : q < r => phase[q] # "waiting"
  /\ Cardinality(In("begun")) < workers
  /\ phase' = [phase EXCEPT ![r] = "begun"]
  /\ UNCHANGED <<workers, children, verdict, state, report>>

Start(r) ==
  /\ phase[r] = "begun" /\ r \notin children
  /\ children' = children \cup {r}
  /\ UNCHANGED <<workers, phase, verdict, state, report>>

\* No child could be started.
Break(r) ==
  /\ phase[r] = "begun" /\ r \notin children
  /\ phase' = [phase EXCEPT ![r] = "broken"]
  /\ UNCHANGED <<workers, children, verdict, state, report>>

Judge(r, v) ==
  /\ phase[r] = "begun" /\ r \in children
  /\ phase' = [phase EXCEPT ![r] = "judged"]
  /\ children' = children \ {r}
  /\ verdict' = [verdict EXCEPT ![r] = v]
  /\ UNCHANGED <<workers, state, report>>

\* After a broken run those that wait are not begun any more.
Cancel ==
  /\ state = "running" /\ In("broken") # {}
  /\ phase' = [r \in RunIds |-> IF phase[r] = "waiting" THEN "cancelled" ELSE phase[r]]
  /\ UNCHANGED <<workers, children, verdict, state, report>>

Raise ==
  /\ state = "running" /\ In("broken") # {}
  /\ In("waiting") = {} /\ In("begun") = {} /\ children = {}
  /\ state' = "raised"
  /\ UNCHANGED <<workers, phase, children, verdict, report>>

Report ==
  /\ state = "running" /\ In("judged") = RunIds /\ children = {}
  /\ state' = "reported"
  /\ report' = [failed  |-> {r \in RunIds : verdict[r] \in Failures},
                errored |-> {r \in RunIds : verdict[r] \in Errors}]
  /\ UNCHANGED <<workers, phase, children, verdict>>

Next ==
  \/ \E r \in RunIds :
       Begin(r) \/ Start(r) \/ Break(r) \/ \E v \in Verdicts : Judge(r, v)
  \/ Cancel \/ Raise \/ Report

Spec == Init /\ [][Next]_batch
=============================================================================
