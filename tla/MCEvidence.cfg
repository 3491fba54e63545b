\* RUN_COUNTS, DEFAULT_WORKERS and the 50 of runs_for; one override with a finer rate.
SPECIFICATION Spec
CONSTANTS
  ConfirmRuns = 200
  ExperimentRuns = 150
  StressRuns = 200
  VerifyRuns = 500
  LeastRuns = 50
  DefaultWorkers = 8
  Overrides = {1000}
  Counts = {0, 1, 2, 30, 75}
INVARIANTS
  SupportIsMeasured
  SupportIsOrdered
  
