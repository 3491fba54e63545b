\* Two launches and nobody else; either may die.
CONSTANTS
  Cases = {c1, c2}
  MaxEvidence = 1
  Verified = 1
  MaxLaunches = 2
  MaxDecisions = 0
  None = None
SPECIFICATION Spec
INVARIANT
  NoWorseThanFound
