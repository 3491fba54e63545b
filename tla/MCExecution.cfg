\* Two runs, spawned or forked, one at a time or side by side.
CONSTANTS
  Runs = 2
  MaxWorkers = 2
  None = None
SPECIFICATION Spec
INVARIANTS
  TimeoutIsItsOwn
  VerdictIsNotOurKill
  LeftoversAreSilent
  ReportIsFaithful
PROPERTIES
  BatchEnds
  ImplementsMeasurement
