\* A test module, the protected conftest.py and a source file; patches of up to three edits.
SPECIFICATION Spec
SYMMETRY Symmetry
CONSTANTS
  TestFiles = {test, conftest}
  Protected = {conftest}
  Sources = {app}
  Functions = {f}
  Conditions = {c}
  Values = {v1, v2}
  None = None
  test = test
  conftest = conftest
  app = app
  f = f
  c = c
  v1 = v1
  v2 = v2
  MaxAsserts = 1
  MaxEdits = 3
  MaxAttempts = 2
INVARIANTS
  AcceptedKeepsWhatIsRead
  AcceptedFixesSource
