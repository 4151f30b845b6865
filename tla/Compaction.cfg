SPECIFICATION Spec
CONSTANTS
  m1 = m1
  m2 = m2
  r1 = r1
  NoRow = NoRow
  Inbound <- TwoIn
  Outbound <- OneOut
  Blank <- TwoBlank
  Legacy <- NoneOld
  Limit = 2
  Surplus = 1
  PerTurn = 2
  MaxAttempts = 1
  MaxEvents = 2
  MaxRestarts = 1
  MaxDeletes = 1
  MaxAdmins = 1
  MaxEdits = 1
INVARIANTS TypeOK TrimsApart NothingUndone
PROPERTIES HandsOverWhatItHides OnlyAdminOvershoots SweepSparesLive
CHECK_DEADLOCK FALSE
