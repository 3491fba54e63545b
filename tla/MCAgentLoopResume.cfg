\* A launch and its resumption.
CONSTANTS
  Classes = {async, order}
  Models = {m1}
  Patches = {p1, p2}
  MaxRounds = 2
  MaxPatchAttempts = 2
  ConfirmRuns = {200}
  MaxLaunches = 2
  None = None
SPECIFICATION Spec
INVARIANT
  ResumeKeepsEliminations
