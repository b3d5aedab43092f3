\* Both links reconnect once, in any order and with frames on their way.
SPECIFICATION FairSpec
CONSTANTS
  Tunnel = {t1, t2}
  NoTunnel = NoTunnel
  MaxClientSessions = 2
  MaxServerSessions = 2
  LinkCap = 2
CHECK_DEADLOCK FALSE
INVARIANTS TypeOK SessionsApart SuccessMeansDialed
PROPERTY RequestEnds
