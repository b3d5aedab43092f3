\* The protocol against the reliable ordered link: loss, damage, retries, Close
\* and one restart of each process.  The system stops once every Send returned.
SPECIFICATION Spec
CONSTANTS
  a = a b = b m1 = m1 m2 = m2 m3 = m3 n1 = n1
  NoMsg = NoMsg
  Peer = {a, b}
  Other <- OtherPeer
  Message = {m1, m2}
  Origin <- OriginOf
  Frags <- FragsOf
  Track = {t1}
  MaxSendAttempts = 2
  OutboundCap = 2
  AckCap = 1
  DeliveredCap = 0
  AirCap = 1
  MaxRestarts = 1
CHECK_DEADLOCK FALSE
INVARIANTS TypeOK AckedIsAccepted AckedIsHanded HandedIntact DeliveredBounded
PROPERTY ImplementsLink
