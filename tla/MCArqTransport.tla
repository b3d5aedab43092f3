--------------------------- MODULE MCArqTransport ---------------------------
(* Small instances of ArqTransport: peers a and b, up to three messages    *)
(* from a and one from b, the first message in two fragments.              *)
EXTENDS ArqImplementsLink, TLC

CONSTANTS a, b, m1, m2, m3, n1

OtherPeer == a :> b @@ b :> a
OriginOf  == [m \in Message |-> IF m = n1 THEN b ELSE a]
FragsOf   == [m \in Message |-> IF m = m1 THEN 2 ELSE 1]
OneFrag   == [m \in Message |-> 1]
=============================================================================
