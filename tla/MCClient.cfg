\* Budgets of 2 and 4 attempts; the backoff reaches its ceiling on the third; one delay
\* that is honoured and one that is too long.
SPECIFICATION Spec
CONSTANTS
  MaxAttempts = 2
  TransportAttempts = 4
  Base = 1
  MaxBackoff = 3
  MaxHonoured = 5
  Delays = {5, 6}
  Costs = {1, 2}
  MaxCalls = 2
INVARIANTS
  RetriesAreAllowed
  GivesUpForAReason
  SpendIsAccounted
  CallIsBounded
PROPERTY
  ImplementsModelCall
