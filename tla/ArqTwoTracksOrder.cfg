\* The frames of one peer reach the other on two tracks: two goroutines.
SPECIFICATION Spec
CONSTANTS
  a = a b = b m1 = m1 m2 = m2 m3 = m3 n1 = n1
  NoMsg = NoMsg
  Peer = {a, b}
  Other <- OtherPeer
  Message = {m1, m2}
  Origin <- OriginOf
  Frags <- OneFrag
  Track = {t1, t2}
  MaxSendAttempts = 2
  OutboundCap = 1
  AckCap = 1
  DeliveredCap = 2
  AirCap = 1
  MaxRestarts = 0
CHECK_DEADLOCK FALSE
INVARIANTS HandedInOrder
