SPECIFICATION WatcherFairSpec
CONSTANTS
  Watches = {w1, w2, w3}
  None = None
CHECK_DEADLOCK FALSE
INVARIANTS
  WatchesSound
  NotifiesAwaited
PROPERTIES
  WaitsEnd
