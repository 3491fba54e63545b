--------------------------- MODULE MCResultsLedger ---------------------------
(* TLC instances of the results file: two launches and a decision, or the       *)
(* smaller ones the counterexamples need.                                       *)
EXTENDS ResultsLedger, TLC

\* Cases are only ever compared for equality.
Symmetry == Permutations(Cases)

=============================================================================
