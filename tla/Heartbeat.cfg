SPECIFICATION FairSpec
CONSTANTS
  u1 = u1
  u2 = u2
  Users <- TwoUsers
  Lasting <- FirstUser
  Concurrency = 1
  MaxDaily = 1
  MaxQueued = 1
  LastDay = 1
  MaxMishaps = 1
INVARIANTS TypeOK NudgesWithinBudget TypingEnds
PROPERTIES DueIsEvaluated
