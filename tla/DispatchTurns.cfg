SPECIFICATION FairSpec
CONSTANTS
  t1 = t1
  t2 = t2
  w1 = w1
  NoMessage = NoMessage
  Messages <- TextAndWeb
  Web <- WebOnly
  MaxRounds = 2
  MaxAsks = 1
  MaxFailures = 1
INVARIANTS TypeOK MessagesAccounted AnswersWhatItRead NothingReadTwice
PROPERTIES ImplementsTurns EveryMessageSettles
CHECK_DEADLOCK FALSE
