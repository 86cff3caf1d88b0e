SPECIFICATION FairSpec
CONSTANTS
  Subs = {s1, s2}
  Parallel = {s2}
  Msgs = {m1, m2}
  Ids <- OneId
  Ranges <- TwoRanges
  Idle = 2
  Overall = 3
CHECK_DEADLOCK FALSE
INVARIANTS
  DeliveredOnce
  KeptOrDone
PROPERTIES
  RepliesFindSubscriber
  CollectedPutsEndOff
  EveryoneReturns
