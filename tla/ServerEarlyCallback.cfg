\* A reconnect callback of a track while Run is in its first installSession.
SPECIFICATION FairSpec
CONSTANTS
  WatchCallback = {}
  TrackCallback = {t1}
  MaxSessions = 3
CHECK_DEADLOCK FALSE
PROPERTY ServeFollows
