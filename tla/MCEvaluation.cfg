\* Two patches, of either arm: of one case, or of two when decisions are made.
SPECIFICATION Spec
SYMMETRY Symmetry
CONSTANTS
  Cases = {c1, c2}
  Excluded = {}
  Decisions = {APPROVED, REJECTED_BY_HUMAN}
  MaxPatches = 2
  Scopes <- MCScopes
  None = None
  c1 = c1
  c2 = c2
  APPROVED = APPROVED
  REJECTED_BY_HUMAN = REJECTED_BY_HUMAN
INVARIANTS
  VerifiedIsNoDryRun
  VerdictIsOfThePatch
  BannerIsOfThePatch
  DecisionReachesTheReport
