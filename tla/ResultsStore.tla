---------------------------- MODULE ResultsStore ----------------------------
(***************************************************************************)
(* What the launches, the report and the person who decides rely on when   *)
(* they read results/agent_results.json (src/src/agent/results_store.py):  *)
(* a store that changes in one step.  A launch adds what it has concluded, *)
(* the deeper record of each case stays; a decision changes one status.    *)
(* The store may be lost as a whole, and once two programs have rewritten  *)
(* it at the same time nothing is promised of its records any more.        *)
(***************************************************************************)
EXTENDS Naturals

CONSTANTS
  Cases,         \* corpus cases
  Verdicts,      \* the statuses a decision gives
  AsDeep(_, _),  \* the first record is at least as deep as the second
  None           \* an absent record

VARIABLES
  store,     \* the record of each case
  attempts,  \* what the launch under way has concluded, case by case
  launch,    \* launches begun
  contested  \* two programs have been rewriting the store at once

contents == <<store, attempts, launch, contested>>

Empty == [c \in Cases |-> None]

Init == store = Empty /\ attempts = Empty /\ launch = 0 /\ contested = FALSE

Begin ==
  /\ attempts = Empty
  /\ launch' = launch + 1
  /\ UNCHANGED <<store, attempts, contested>>

\* The launch concludes case c, once.
Conclude(c) ==
  /\ attempts[c] = None /\ attempts'[c] # None
  /\ attempts' = [attempts EXCEPT ![c] = attempts'[c]]
  /\ attempts'[c].launch = launch /\ attempts'[c].superseded = {}
  /\ UNCHANGED <<store, launch, contested>>

\* Of two records of a case the deeper stays, the later one if neither is deeper; a later
\* one that goes leaves its launch in the other.
Deeper(old, new) ==
  IF AsDeep(new, old) THEN new ELSE [old EXCEPT !.superseded = @ \cup {new.launch}]

\* All that the launch has concluded so far is in the store.
Save ==
  /\ ~contested
  /\ store' = [c \in Cases |->
       CASE attempts[c] = None -> store[c]
         [] store[c] = None    -> attempts[c]
         [] OTHER              -> Deeper(store[c], attempts[c])]
  /\ UNCHANGED <<attempts, launch, contested>>

Judge(c, verdict) ==
  /\ ~contested /\ store[c] # None
  /\ store' = [store EXCEPT ![c].status = verdict]
  /\ UNCHANGED <<attempts, launch, contested>>

\* A program dies while it writes: every record is gone.  A launch takes what it had
\* concluded with it, and may end without any loss.
Lose == store' = Empty /\ UNCHANGED <<attempts, launch, contested>>
End  == attempts' = Empty /\ store' \in {store, Empty} /\ UNCHANGED <<launch, contested>>

Contest  == contested' = TRUE /\ UNCHANGED <<store, attempts, launch>>
Scramble == contested /\ attempts' \in {attempts, Empty} /\ UNCHANGED <<launch, contested>>

Next ==
  \/ Begin \/ \E c \in Cases : Conclude(c)
  \/ Save \/ \E c \in Cases, verdict \in Verdicts : Judge(c, verdict)
  \/ Lose \/ End
  \/ Contest \/ Scramble

Spec == Init /\ [][Next]_contents
=============================================================================
