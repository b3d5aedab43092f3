----------------------------- MODULE RtpFrames ------------------------------
(***************************************************************************)
(* vp8FrameState of the vp8channel transport: a VP8 frame is put together  *)
(* from the RTP packets of a remote track, which may be lost, repeated and *)
(* reordered.  Packets are numbered without end; the sequence number in    *)
(* their header wraps.                                                     *)
(***************************************************************************)
EXTENDS Naturals, Sequences

CONSTANTS
  RtPackets,   \* bound: number of packets
  RtStarts,    \* the packets that start a frame (the S bit)
  RtWidth      \* number of sequence numbers (2^16 in the code)

RtPacket == 1..RtPackets

ASSUME RtAssumption ==
  RtPackets \in Nat /\ RtWidth \in Nat /\ RtWidth > 2 /\ RtStarts \subseteq RtPacket

VARIABLES
  rtLast,    \* lastSeq, and the packet that had it; 0 before the first (haveLastSeq)
  rtValid,   \* frameValid
  rtBuf,     \* frameBuf
  rtOut      \* the frame the last packet completed, or <<>>

rtVars == <<rtLast, rtValid, rtBuf, rtOut>>

RtTypeOK ==
  /\ rtLast \in 0..RtPackets /\ rtValid \in BOOLEAN
  /\ rtBuf \in Seq(RtPacket) /\ rtOut \in Seq(RtPacket)

RtInit == rtLast = 0 /\ rtValid = FALSE /\ rtBuf = <<>> /\ rtOut = <<>>

Marker(n) == n + 1 \in RtStarts \cup {RtPackets + 1}
RtSeq(n) == n % RtWidth

(* The packets of the frame that packet n belongs to.                      *)
FrameOf(n) ==
  LET first == CHOOSE s \in RtStarts : s <= n /\ \A r \in RtStarts : r <= s \/ r > n
      last == CHOOSE m \in RtPacket : m >= n /\ Marker(m) /\ \A k \in n..(m - 1) : ~Marker(k)
  IN [i \in 1..(last - first + 1) |-> first + i - 1]

(* Packets the network can bring after packet rtLast: it neither loses nor *)
(* delays as many packets as there are sequence numbers.                   *)
RtNear(n) == rtLast = 0 \/ (n + RtWidth - 1 > rtLast + 1 /\ rtLast + RtWidth > n)

(* Mutation: only a number that goes back shows a loss.                    *)
BrokenOnlyBack(n) == rtLast # 0 /\ RtSeq(n) < RtSeq(rtLast + 1)
Broken(n) == rtLast # 0 /\ RtSeq(n) # RtSeq(rtLast + 1)

(* processRTPPacket.  Unmarshal may find the payload malformed.            *)
RtReceive(n, wellFormed) ==
  LET whole == n \in RtStarts \/ (rtValid /\ ~Broken(n))
      buf == IF n \in RtStarts THEN <<n>> ELSE Append(rtBuf, n)
      done == wellFormed /\ whole /\ Marker(n)
  IN /\ RtNear(n)
     /\ rtLast' = n
     /\ rtValid' = (wellFormed /\ whole /\ ~done)
     /\ rtBuf' = IF rtValid' THEN buf ELSE <<>>
     /\ rtOut' = IF done THEN buf ELSE <<>>

RtNext == \E n \in RtPacket, wellFormed \in BOOLEAN : RtReceive(n, wellFormed)

(* Whatever the network does, a frame that comes out is a whole frame of   *)
(* the sender, its packets in order and no packet of another frame.        *)
RtFrameWhole == rtOut # <<>> => rtOut = FrameOf(rtOut[1])

RtSpec == RtInit /\ [][RtNext]_rtVars
=============================================================================
