CONSTANTS
  Takers = {t1, t2, t3}
  Timed = {t1}
  Length = 3
SPECIFICATION FairSpec
INVARIANTS
  TypeOK
  WakeupsOwed
PROPERTIES
  ImplementsSemaphore
  TimedWaitEnds
