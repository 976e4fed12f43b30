SPECIFICATION FairSpec
CONSTANTS
  Sockets = {s1, s2, s3}
  s1 = s1
  s2 = s2
  s3 = s3
  NoSocket = NoSocket
  Orders <- MCOrders
  Side <- MCSide
  MaxOnWire = 1
  Signals <- MCSignals
  MinRows = 3
  MaxRows = 3
  Budgets <- MCBudgets
INVARIANTS NoPolledDuplicate OwnOrder NoFalseAlarm TrendIsSustained CacheHidesNothing FeedNeverLost
PROPERTIES OutcomeRecorded FeedSettles FalseAlarmsClear
CHECK_DEADLOCK FALSE
