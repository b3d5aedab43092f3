\* Both peers send: data and acknowledgements share one writer, a full
\* outboundAck blocks the goroutine that would resolve the peer's own Send.
SPECIFICATION FairSpec
CONSTANTS
  a = a b = b m1 = m1 m2 = m2 m3 = m3 n1 = n1
  NoMsg = NoMsg
  Peer = {a, b}
  Other <- OtherPeer
  Message = {m1, n1}
  Origin <- OriginOf
  Frags <- OneFrag
  Track = {t1}
  MaxSendAttempts = 2
  OutboundCap = 1
  AckCap = 1
  DeliveredCap = 0
  AirCap = 1
  MaxRestarts = 0
CHECK_DEADLOCK FALSE
PROPERTIES SendReturns CloseReturns
