\* Deaths of sessions and two reconnect callbacks at once, up to the end of the context.
SPECIFICATION FairSpec
CONSTANTS
  WatchCallback = {w1}
  TrackCallback = {t1}
  MaxSessions = 5
CHECK_DEADLOCK FALSE
INVARIANTS TypeOK OneSession
PROPERTIES RunSparesSession SessionReturns
