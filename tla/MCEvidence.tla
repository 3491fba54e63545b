------------------------------ MODULE MCEvidence ------------------------------
\* TLC instance of the protocol's verdicts: the code's own counts, with the failures and
\* errors that lie at and beside the bands' edges.
EXTENDS Evidence
=============================================================================
