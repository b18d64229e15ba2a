\* Three threads.
SPECIFICATION FairSpec
CONSTANTS
  Thread = {t1, t2, t3}
  NoThread = none
  Programs <- MCPrograms
  CountMask = 4
  MaxSeq = 3
INVARIANTS MutexExclusive OnceOnly RwExclusive NobodyForgotten
PROPERTY EveryCallEnds
CHECK_DEADLOCK FALSE
