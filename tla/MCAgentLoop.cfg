\* Three launches, two models, two CONFIRM budgets: the case is cut off anywhere and
\* resumed twice, with or without the same configuration.
CONSTANTS
  Classes = {async, order}
  Models = {m1, m2}
  Patches = {p1, p2}
  MaxRounds = 3
  MaxPatchAttempts = 2
  ConfirmRuns = {60, 200}
  MaxLaunches = 3
  None = None
SPECIFICATION Spec
SYMMETRY Symmetry
INVARIANTS
  PackageIsProven
  ConfirmSupportsTheLoop
  RoundsAreBackedByExperiments
  OneModelsReasoning
  StuckMeansNoNewEvidence
PROPERTIES
  ImplementsGate
  CheckpointOnlyGrows
  LaunchRunsOut
