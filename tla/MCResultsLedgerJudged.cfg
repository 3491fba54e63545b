\* A case, two launches and a decision; each may die.
CONSTANTS
  Cases = {c1}
  MaxEvidence = 1
  Verified = 1
  MaxLaunches = 2
  MaxDecisions = 1
  None = None
SPECIFICATION Spec
INVARIANT
  JudgedIsNotLost
