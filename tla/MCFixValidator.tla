---------------------------- MODULE MCFixValidator ----------------------------
\* TLC instance of the structural checks.  The values of a condition are alike.
EXTENDS FixValidator, TLC

Symmetry == Permutations(Values)
=============================================================================
