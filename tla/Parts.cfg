SPECIFICATION Spec
CONSTANTS
  t1 = t1
  t2 = t2
  VpTracks <- MCTracks
  VpRestarts <- MCRestarts
  VpReconnects <- MCReconnects
  VpRuntimes = 5
  VpNoisy = {"a"}
  VpClosing = {"b"}
  RtPackets = 12
  RtStarts = {1, 2, 4, 7, 8, 11}
  RtWidth = 4
  VdTracks = 2
  VdPayloads = 2
  VdTimeouts = 1
  CnCallbacks = {"b1", "b2"}
  CnApps = {"a1"}
  CnCredentials = TRUE
  MkCalls = 2
  MkSamples = 3
  MkSlowest = 2
  PgSecond = 4
  PgRates <- MCRates
  PgBatches = {0, 3}
  PgAmounts = {0, 2}
  PgGaps = 1
INVARIANTS
  PartsTypeOK
  VpPeerIsNotSelf VpNoStrayRuntime
  RtFrameWhole
  VdSampleIsAsked VdNoStrayProcess
  CnNothingLeft
  MkCallsApart
  PgRateIsSafe PgGenComplete
PROPERTIES
  VpSettles
  VdCloseIsFinite
CHECK_DEADLOCK FALSE
