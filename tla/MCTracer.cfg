\* Two threads, two turns, and every way an append can fail.
CONSTANTS
  Threads = {t1, t2}
  MaxTurns = 2
  MaxWriteAttempts = 2
  MaxConsecutiveGaps = 2
  None = None
SPECIFICATION FairSpec
INVARIANTS
  LostTurnsAreCounted
  ThreadsNeverBreakALine
  TurnIdsAreTheirOwn
  StreakIsNotOverstated

  
