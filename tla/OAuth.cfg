SPECIFICATION FairSpec
CONSTANTS
  w1 = w1
  w2 = w2
  a = a
  s = s
  nobody = nobody
  NoTask <- nobody
  Workers <- TwoWorkers
  Turns <- OneTurn
  Sweeps <- OneSweep
  Home <- HomeOf
  MaxTokens = 3
  MaxNotes = 1
  MaxFaults = 1
INVARIANTS TypeOK ReplayNeedsLoss KeepsChoice ToldOnce
PROPERTIES StaleIsRefreshed
CHECK_DEADLOCK FALSE
