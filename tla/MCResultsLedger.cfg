\* Two launches and a decision over two cases, every one of them cut off anywhere.
CONSTANTS
  Cases = {c1, c2}
  MaxEvidence = 1
  Verified = 1
  MaxLaunches = 2
  MaxDecisions = 1
  None = None
SPECIFICATION Spec
SYMMETRY Symmetry
INVARIANTS
  DeepestSurvives
  LatestAttemptIsVisible
  DecisionsAreTold
  PendingHasPackage
PROPERTY
  ImplementsStore
