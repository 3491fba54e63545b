----------------------------- MODULE MCAgentLoop -----------------------------
(* TLC instances of the case loop: the .cfg files choose the launches, models   *)
(* and budgets of each run.                                                     *)
EXTENDS AgentLoop, TLC

\* Classes, models and patches are only ever compared for equality.
Symmetry ==
  Permutations(Classes) \cup Permutations(Models) \cup Permutations(Patches)

=============================================================================
