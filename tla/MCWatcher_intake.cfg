\* Two processes poll one pool, with or without a saved cursor, under fair
\* scheduling.
SPECIFICATION FairSpec
CONSTANTS
  i1 = i1  i2 = i2
  Instances = {i1, i2}
  NumOps = 3
  Ops <- Twice
  SavedAtFirst <- WithOrWithoutCursor
  PageSize = 2
  ForwardQueue = 1
  MaxFaults = 2
CHECK_DEADLOCK FALSE
INVARIANTS NothingIsSkipped QueueIsRecorded
PROPERTIES OfferedOnce EveryDepositIsRecorded QueuedIsTaken
