SPECIFICATION FairSpec
CONSTANTS
  t1 = t1
  t2 = t2
  Messages <- TwoMessages
  NoMessage = NoMessage
  MaxCrashes = 2
  MaxHeartbeats = 1
  MaxFailures = 1
INVARIANTS TypeOK PersistedOnce OneTurnPerWorker StoredReplyOnce
PROPERTY EveryOrphanTaken
CHECK_DEADLOCK FALSE
