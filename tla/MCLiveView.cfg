SPECIFICATION FairSpec
CONSTANTS
  bar = bar
  Screens = {bar}
  QueueLimit = 1
  ReplayLimit = 1
  InFlight = 2
  MaxEvents = 3
  MaxFailures = 1
INVARIANTS LiveTypeOK BroadcastIsCommitted NothingSlipsBy
PROPERTIES ScreensSettle
