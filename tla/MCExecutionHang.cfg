\* A single run is enough.
CONSTANTS
  Runs = 1
  MaxWorkers = 1
  None = None
SPECIFICATION Spec
PROPERTY
  WallClockEndsEveryBatch
