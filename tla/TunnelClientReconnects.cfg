\* The link of the client reconnects, that of the server does not.
SPECIFICATION Spec
CONSTANTS
  Tunnel = {t1, t2}
  NoTunnel = NoTunnel
  MaxClientSessions = 2
  MaxServerSessions = 1
  LinkCap = 2
CHECK_DEADLOCK FALSE
INVARIANT OwnTarget
