\* A reconnect callback that comes after the context has ended.
SPECIFICATION FairSpec
CONSTANTS
  WatchCallback = {w1}
  TrackCallback = {}
  MaxSessions = 3
CHECK_DEADLOCK FALSE
PROPERTY RunReturns
