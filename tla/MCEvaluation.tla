---------------------------- MODULE MCEvaluation ----------------------------
\* TLC instance of the evaluation's programs and files.  The two decisions are treated
\* alike, so they are interchangeable.
EXTENDS Evaluation, TLC

CONSTANTS c1, c2

Symmetry == Permutations(Decisions)

\* What a verdict and a banner depend on concerns one case, no decision and no other file of
\* agent results; a decision depends on what launches save of its case after other cases.
MCScopes ==
  { [programs |-> {"run_baseline", "run_agent", "revalidate_pending"}, cases |-> {c1},
      older |-> {}],
    [programs |-> {"run_agent", "record_decision"}, cases |-> {c1, c2},
      older |-> {c1, c2}] }
=============================================================================
