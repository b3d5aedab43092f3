---------------------------- MODULE VideoProofs -----------------------------
(***************************************************************************)
(* The transports that carry video, for all their constants: the frames    *)
(* that RtpFrames puts together are whole, an end of Vp8Channel never      *)
(* takes itself for its peer nor leaves a runtime behind, and the ffmpeg   *)
(* processes of VideoPipes are closed and show what they were asked for.   *)
(***************************************************************************)
EXTENDS RtpFrames, Vp8Channel, VideoPipes, TLAPS

-----------------------------------------------------------------------------
(* RTP, for any number of packets, any frames they make up and any width   *)
(* of their numbers.  The argument: the buffer of a valid frame is a       *)
(* stretch of packets from a start to the last packet received, none of    *)
(* which ends a frame (Run).  A packet with the number that comes next is  *)
(* the one that comes next, because the network is not a whole turn of the *)
(* numbers away.                                                           *)

(* Packets that follow one another from the start of a frame.              *)
Stretch(buf) ==
  /\ buf \in Seq(RtPacket) /\ Len(buf) > 0 /\ buf[1] \in RtStarts
  /\ \A i \in 1..Len(buf) : buf[i] = buf[1] + i - 1

Unfinished(buf) == \A i \in 1..Len(buf) : ~Marker(buf[i])

Run == rtValid => Stretch(rtBuf) /\ Unfinished(rtBuf) /\ rtBuf[Len(rtBuf)] = rtLast

(* A frame that came out ends at the first packet that ends a frame.       *)
WholeFrame(out) ==
  /\ Stretch(out) /\ Marker(out[Len(out)])
  /\ \A i \in 1..(Len(out) - 1) : ~Marker(out[i])

RtInv == RtTypeOK /\ Run /\ (rtOut # <<>> => WholeFrame(rtOut))

-----------------------------------------------------------------------------
(* Numbers.                                                                *)

(* Quotient and remainder.                                                 *)
LEMMA Division ==
  ASSUME NEW a \in Nat, NEW w \in Nat, w > 0
  PROVE  a = w * (a \div w) + (a % w) /\ a % w < w /\ a % w \in Nat /\ a \div w \in Nat
OBVIOUS

(* A multiple of the width is at least the width above a smaller one.      *)
LEMMA Apart ==
  ASSUME NEW w \in Nat, NEW m \in Nat, NEW n \in Nat, m < n
  PROVE  w * m + w <= w * n
<1>1. w * (m + 1) <= w * n
  <2>1. m + 1 <= n
    OBVIOUS
  <2> QED
    BY <2>1
<1>2. w * (m + 1) = w * m + w
  OBVIOUS
<1> QED
  BY <1>1, <1>2

(* Less than a turn apart, the same sequence number is the same packet.    *)
LEMMA SameNumber ==
  ASSUME NEW a \in Nat, NEW b \in Nat, NEW w \in Nat, w > 0, a < b + w, b < a + w, a % w = b % w
  PROVE  a = b
<1> DEFINE m == a \div w
           n == b \div w
           r == a % w
<1>1. a = w * m + r /\ b = w * n + r /\ m \in Nat /\ n \in Nat /\ r \in Nat
  BY Division
<1> HIDE DEF m, n, r
<1>2. w * m \in Nat /\ w * n \in Nat
  BY <1>1
<1>3. ~(m < n)
  <2> SUFFICES ASSUME m < n PROVE FALSE
    OBVIOUS
  <2>1. w * m + w <= w * n
    BY <1>1, Apart
  <2> QED
    BY <1>1, <1>2, <2>1
<1>4. ~(n < m)
  <2> SUFFICES ASSUME n < m PROVE FALSE
    OBVIOUS
  <2>1. w * n + w <= w * m
    BY <1>1, Apart
  <2> QED
    BY <1>1, <1>2, <2>1
<1>5. m = n
  BY <1>1, <1>3, <1>4
<1> QED
  BY <1>1, <1>5

(* Packets are numbered from one.                                          *)
LEMMA Packets == RtStarts \subseteq RtPacket /\ RtPacket \subseteq Nat /\ 0 \notin RtPacket
BY RtAssumption DEF RtPacket

(* The frame of a packet that starts one goes to the first that ends one.  *)
LEMMA FrameFrom ==
  ASSUME NEW n \in RtStarts, NEW end \in RtPacket, n <= end, Marker(end),
         \A k \in n..(end - 1) : ~Marker(k)
  PROVE  FrameOf(n) = [i \in 1..(end - n + 1) |-> n + i - 1]
<1> DEFINE IsFirst(s) == s <= n /\ \A r \in RtStarts : r <= s \/ r > n
           IsLast(m) == m >= n /\ Marker(m) /\ \A k \in n..(m - 1) : ~Marker(k)
<1>1. n \in Nat /\ end \in Nat
  BY Packets
<1>2. (CHOOSE s \in RtStarts : IsFirst(s)) = n
  <2>1. IsFirst(n)
    BY <1>1, Packets
  <2>2. ASSUME NEW s \in RtStarts, IsFirst(s)
        PROVE  s = n
    BY <1>1, <2>2, Packets
  <2> HIDE DEF IsFirst
  <2> QED
    BY <2>1, <2>2
<1>3. (CHOOSE m \in RtPacket : IsLast(m)) = end
  <2>1. IsLast(end)
    BY <1>1
  <2>2. ASSUME NEW m \in RtPacket, IsLast(m)
        PROVE  m = end
    <3>1. m \in Nat
      BY Packets
    <3>2. ~(m < end)
      BY <1>1, <2>2, <3>1
    <3>3. ~(end < m)
      BY <1>1, <2>2, <3>1
    <3> QED
      BY <1>1, <3>1, <3>2, <3>3
  <2> HIDE DEF IsLast
  <2> QED
    BY <2>1, <2>2
<1> DEFINE first == CHOOSE s \in RtStarts : IsFirst(s)
           last == CHOOSE m \in RtPacket : IsLast(m)
<1>4. FrameOf(n) = [i \in 1..(last - first + 1) |-> first + i - 1]
  BY DEF FrameOf
<1>5. first = n /\ last = end
  BY <1>2, <1>3
<1> HIDE DEF first, last
<1> QED
  BY <1>4, <1>5

(* Every whole frame is the frame of its first packet.                     *)
LEMMA WholeIsFrame ==
  ASSUME NEW out, WholeFrame(out)
  PROVE  out = FrameOf(out[1])
<1>1. PICK n \in RtStarts : n = out[1]
  BY DEF WholeFrame, Stretch
<1>2. PICK end \in RtPacket : end = out[Len(out)]
  BY DEF WholeFrame, Stretch
<1>3. /\ n \in Nat /\ end \in Nat /\ Len(out) \in Nat /\ Len(out) > 0
      /\ \A i \in 1..Len(out) : out[i] = n + i - 1
  <2>1. n \in Nat /\ end \in Nat
    BY Packets
  <2>2. out \in Seq(RtPacket) /\ Len(out) > 0 /\ \A i \in 1..Len(out) : out[i] = out[1] + i - 1
    BY DEF WholeFrame, Stretch
  <2>3. Len(out) \in Nat
    BY <2>2
  <2> QED
    BY <1>1, <2>1, <2>2, <2>3
<1>4. end = n + Len(out) - 1
  BY <1>2, <1>3
<1>5. ASSUME NEW k \in n..(end - 1)
      PROVE  ~Marker(k)
  <2> DEFINE i == k - n + 1
  <2>1. i \in 1..(Len(out) - 1) /\ i \in 1..Len(out) /\ n + i - 1 = k
    BY <1>3, <1>4
  <2> HIDE DEF i
  <2>2. out[i] = k
    BY <1>3, <2>1
  <2> QED
    BY <2>1, <2>2 DEF WholeFrame
<1>6. FrameOf(n) = [i \in 1..(end - n + 1) |-> n + i - 1]
  BY <1>2, <1>3, <1>4, <1>5, FrameFrom DEF WholeFrame
<1>7. out = [i \in 1..Len(out) |-> out[i]]
  BY DEF WholeFrame, Stretch
<1>8. end - n + 1 = Len(out)
  BY <1>3, <1>4
<1>9. [i \in 1..Len(out) |-> out[i]] = [i \in 1..Len(out) |-> n + i - 1]
  BY <1>3
<1> QED
  BY <1>1, <1>6, <1>7, <1>8, <1>9

-----------------------------------------------------------------------------
(* The packets.                                                            *)

(* Before the first packet RtInv holds.                                    *)
LEMMA RtStarting == RtInit => RtInv
<1> SUFFICES ASSUME RtInit PROVE RtInv
  OBVIOUS
<1>1. rtBuf \in Seq(RtPacket) /\ rtOut \in Seq(RtPacket) /\ rtLast \in 0..RtPackets
  BY RtAssumption DEF RtInit
<1> QED
  BY <1>1 DEF RtInit, RtInv, RtTypeOK, Run

(* A packet that does not start a frame but is not found to be broken      *)
(* follows the last one.                                                   *)
LEMMA NextIsNext ==
  ASSUME RtTypeOK, NEW n \in RtPacket, rtLast # 0, RtNear(n), ~Broken(n)
  PROVE  n = rtLast + 1
<1>1. n \in Nat /\ rtLast \in Nat /\ RtWidth \in Nat /\ RtWidth > 0
  BY RtAssumption DEF RtTypeOK, RtPacket
<1>2. n % RtWidth = (rtLast + 1) % RtWidth
  BY DEF Broken, RtSeq
<1>3. n < rtLast + 1 + RtWidth /\ rtLast + 1 < n + RtWidth
  BY <1>1 DEF RtNear
<1> QED
  BY <1>1, <1>2, <1>3, SameNumber

(* Each packet keeps RtInv.                                                *)
LEMMA RtSteps == RtInv /\ [RtNext]_rtVars => RtInv'
<1> SUFFICES ASSUME RtInv, [RtNext]_rtVars PROVE RtInv'
  OBVIOUS
<1>1. CASE UNCHANGED rtVars
  BY <1>1 DEF rtVars, RtInv, RtTypeOK, Run, Stretch, Unfinished, WholeFrame
<1>2. CASE RtNext
  <2>1. PICK n \in RtPacket, wellFormed \in BOOLEAN : RtReceive(n, wellFormed)
    BY <1>2 DEF RtNext
  <2> DEFINE whole == n \in RtStarts \/ (rtValid /\ ~Broken(n))
             buf == IF n \in RtStarts THEN <<n>> ELSE Append(rtBuf, n)
             done == wellFormed /\ whole /\ Marker(n)
  <2>2. /\ RtNear(n) /\ rtLast' = n /\ rtValid' = (wellFormed /\ whole /\ ~done)
        /\ rtBuf' = (IF rtValid' THEN buf ELSE <<>>) /\ rtOut' = (IF done THEN buf ELSE <<>>)
    BY <2>1 DEF RtReceive
  <2>3. n \in Nat /\ n \in RtPacket /\ rtBuf \in Seq(RtPacket)
    BY RtAssumption DEF RtPacket, RtInv, RtTypeOK
  <2>4. ASSUME whole
        PROVE  /\ Stretch(buf) /\ buf[Len(buf)] = n
               /\ \A i \in 1..(Len(buf) - 1) : ~Marker(buf[i])
    <3>1. CASE n \in RtStarts
      BY <2>3, <3>1 DEF Stretch
    <3>2. CASE n \notin RtStarts
      <4>1. rtValid /\ ~Broken(n) /\ Stretch(rtBuf) /\ Unfinished(rtBuf) /\ rtBuf[Len(rtBuf)] = rtLast
        BY <2>4, <3>2 DEF RtInv, Run
      <4>2. Len(rtBuf) \in Nat /\ rtLast \in RtPacket /\ rtLast # 0
        BY <4>1, RtAssumption DEF Stretch, RtPacket
      <4>3. n = rtLast + 1
        BY <2>2, <4>1, <4>2, NextIsNext DEF RtInv
      <4>4. /\ buf = Append(rtBuf, n) /\ Len(buf) = Len(rtBuf) + 1 /\ buf[Len(rtBuf) + 1] = n
            /\ buf \in Seq(RtPacket)
            /\ \A i \in 1..Len(rtBuf) : buf[i] = rtBuf[i]
        BY <2>3, <3>2
      <4> HIDE DEF buf
      <4>5. rtBuf[1] \in RtPacket /\ rtBuf[1] \in Nat /\ rtLast = rtBuf[1] + Len(rtBuf) - 1
        BY SMTT(30), <4>1, <4>2, RtAssumption DEF Stretch, RtPacket
      <4>6. \A i \in 1..Len(buf) : buf[i] = buf[1] + i - 1
        BY SMTT(30), <4>1, <4>2, <4>3, <4>4, <4>5 DEF Stretch
      <4> QED
        BY <4>1, <4>2, <4>4, <4>6 DEF Stretch, Unfinished
    <3> QED
      BY <3>1, <3>2
  <2>5. Run'
    <3> SUFFICES ASSUME rtValid'
                 PROVE  Stretch(rtBuf') /\ Unfinished(rtBuf') /\ rtBuf'[Len(rtBuf')] = rtLast'
      BY DEF Run
    <3>1. whole /\ ~Marker(n) /\ rtBuf' = buf /\ rtLast' = n
      BY <2>2
    <3>2. Stretch(buf) /\ buf[Len(buf)] = n /\ \A i \in 1..(Len(buf) - 1) : ~Marker(buf[i])
      BY <2>4, <3>1
    <3> HIDE DEF buf
    <3>3. Unfinished(buf)
      BY <3>1, <3>2 DEF Unfinished, Stretch
    <3> QED
      BY <3>1, <3>2, <3>3
  <2>6. rtOut' # <<>> => WholeFrame(rtOut')
    <3> SUFFICES ASSUME rtOut' # <<>> PROVE WholeFrame(rtOut')
      OBVIOUS
    <3>1. whole /\ Marker(n) /\ rtOut' = buf
      BY <2>2
    <3> QED
      BY <2>4, <3>1 DEF WholeFrame
  <2>7. RtTypeOK'
    <3>1. whole => buf \in Seq(RtPacket)
      BY <2>4 DEF Stretch
    <3>2. rtBuf' \in Seq(RtPacket) /\ rtOut' \in Seq(RtPacket)
      <4>1. rtBuf' \in {<<>>, buf} /\ (rtBuf' = buf => whole \/ buf = <<>>)
        BY <2>2
      <4>2. rtOut' \in {<<>>, buf} /\ (rtOut' = buf => whole \/ buf = <<>>)
        BY <2>2
      <4> HIDE DEF buf, whole
      <4>3. <<>> \in Seq(RtPacket)
        OBVIOUS
      <4> QED
        BY <3>1, <4>1, <4>2, <4>3
    <3>3. rtValid' \in BOOLEAN
      BY <2>2
    <3>4. rtLast' \in 0..RtPackets
      BY <2>2, <2>3 DEF RtPacket
    <3> QED
      BY <3>2, <3>3, <3>4 DEF RtTypeOK
  <2> QED
    BY <2>5, <2>6, <2>7 DEF RtInv
<1> QED
  BY <1>1, <1>2

(* Whatever the network loses, repeats or reorders within one turn of the  *)
(* sequence numbers, a frame that comes out is a whole frame of the sender.*)
THEOREM FramesAreWhole == RtSpec => []RtFrameWhole
<1>1. RtInv => RtFrameWhole
  BY WholeIsFrame DEF RtInv, RtFrameWhole
<1> QED
  BY <1>1, RtStarting, RtSteps, PTL DEF RtSpec

-----------------------------------------------------------------------------
(* Vp8Channel.  The argument is about one end (EndInv): no goroutine holds *)
(* an epoch of its own process, a runtime that is open is p.kcp or in the  *)
(* hands of the goroutine that took it out, and without a race there is    *)
(* one such goroutine, and none beside Close.                              *)

(* The types, with the domains of the functions.                           *)
VpSeenEpoch == Epoch \cup {NoEpoch, Foreign}
VpGoroutine == [pc : VpPc, epoch : VpSeenEpoch, prev : VpSeenEpoch, rt : {0} \cup Runtime]
VpTyped ==
  /\ VpTypeOK
  /\ DOMAIN vpEpoch = VpEnd /\ DOMAIN vpReconnects = VpEnd /\ DOMAIN vpActor = VpEnd
  /\ \A e \in VpEnd : vpActor[e] \in [VpActor(e) -> VpGoroutine]

(* What a goroutine is about to take for the peer's epoch is no epoch of   *)
(* this process either.                                                    *)
NotOneself(e) ==
  /\ vpPeer[e] \notin {LocalEpoch(e), Foreign}
  /\ \A g \in VpActor(e) : vpActor[e][g].epoch \notin {LocalEpoch(e), Foreign}

(* A runtime is in the hands of a goroutine only between taking it out and *)
(* closing it.                                                             *)
InHands(e) == \A g \in VpActor(e) : Pc(e, g) # "make" => vpActor[e][g].rt = 0

(* Without a race one goroutine at a time replaces the runtime, none once  *)
(* Close has begun, and p.kcp is nil from taking to making.                *)
OneReplaces(e) ==
  ~vpRaced[e] =>
    /\ \A g, h \in VpActor(e) : Replacing(e, g) /\ Replacing(e, h) => g = h
    /\ \A g \in VpActor(e) : Replacing(e, g) => vpClose[e] = "no"
    /\ \A g \in VpActor(e) : Pc(e, g) = "make" => vpKcp[e] = 0

NoStray(e) ==
  ~vpRaced[e] =>
    vpOpen[e] \subseteq (IF vpClose[e] = "no" THEN {vpKcp[e]} ELSE {})
                          \cup {vpActor[e][g].rt : g \in VpActor(e)}

EndInv(e) == NotOneself(e) /\ InHands(e) /\ OneReplaces(e) /\ NoStray(e)
VpInv == VpTyped /\ \A e \in VpEnd : EndInv(e)

(* Epochs of processes are not those of no process and of another client.  *)
LEMMA EpochsApart ==
  ASSUME NEW e \in VpEnd
  PROVE  /\ LocalEpoch(e) \notin {NoEpoch, Foreign} /\ NoEpoch # Foreign
         /\ \A f \in VpEnd : f # e => LocalEpoch(f) # LocalEpoch(e)
BY DEF LocalEpoch, NoEpoch, Foreign, VpEnd

(* A goroutine at rest has the type of one.                                *)
LEMMA IdleTyped == Idle \in VpGoroutine
BY DEF Idle, VpGoroutine, VpPc, VpSeenEpoch

(* It holds before any end has connected.                                  *)
LEMMA VpStarts == VpInit => VpInv
<1> SUFFICES ASSUME VpInit PROVE VpInv
  OBVIOUS
<1>1. VpTyped
  <2>1. \A e \in VpEnd : VpRestarts[e] \in Nat /\ VpReconnects[e] \in Nat
    BY VpAssumption
  <2>2. \A e \in VpEnd : 1 \in 1..(VpRestarts[e] + 1) /\ 0 \in 0..VpReconnects[e]
    BY <2>1
  <2>3. \A e \in VpEnd : vpActor[e] \in [VpActor(e) -> VpGoroutine]
    BY IdleTyped DEF VpInit
  <2>4. \A e \in VpEnd : \A g \in VpActor(e) : vpActor[e][g] \in VpGoroutine
    BY <2>3
  <2>5. VpTypeOK
    BY <2>2, <2>4 DEF VpInit, VpTypeOK, VpGoroutine, VpSeenEpoch
  <2> QED
    BY <2>3, <2>5 DEF VpInit, VpTyped
<1>2. ASSUME NEW e \in VpEnd PROVE EndInv(e)
  BY EpochsApart DEF VpInit, EndInv, NotOneself, InHands, OneReplaces, NoStray, Idle, Replacing, Pc
<1> QED
  BY <1>1, <1>2 DEF VpInv

(* The move of a goroutine: its record changes, no other.                  *)
LEMMA ActorMoves ==
  ASSUME VpTyped, NEW e \in VpEnd, NEW g \in VpActor(e), NEW r, Becomes(e, g, r)
  PROVE  /\ DOMAIN vpActor' = VpEnd
         /\ \A f \in VpEnd : f # e => vpActor'[f] = vpActor[f]
         /\ r \in VpGoroutine => \A f \in VpEnd : vpActor'[f] \in [VpActor(f) -> VpGoroutine]
<1>1. /\ vpActor' = [vpActor EXCEPT ![e][g] = r] /\ DOMAIN vpActor = VpEnd
      /\ \A f \in VpEnd : vpActor[f] \in [VpActor(f) -> VpGoroutine]
  BY DEF Becomes, VpTyped
<1>2. /\ DOMAIN vpActor' = VpEnd /\ \A f \in VpEnd : f # e => vpActor'[f] = vpActor[f]
      /\ vpActor'[e] = [vpActor[e] EXCEPT ![g] = r]
  BY <1>1
<1>3. r \in VpGoroutine => \A f \in VpEnd : vpActor'[f] \in [VpActor(f) -> VpGoroutine]
  BY <1>1, <1>2
<1> QED
  BY <1>2, <1>3

(* What becomes of the goroutines of its end.                              *)
LEMMA ActorAfter ==
  ASSUME VpTyped, NEW e \in VpEnd, NEW g \in VpActor(e), NEW r, Becomes(e, g, r)
  PROVE  vpActor'[e][g] = r /\ \A h \in VpActor(e) : h # g => vpActor'[e][h] = vpActor[e][h]
<1>1. /\ vpActor' = [vpActor EXCEPT ![e][g] = r] /\ DOMAIN vpActor = VpEnd
      /\ vpActor[e] \in [VpActor(e) -> VpGoroutine]
  BY DEF Becomes, VpTyped
<1>2. vpActor'[e] = [vpActor[e] EXCEPT ![g] = r]
  BY <1>1
<1> QED
  BY <1>1, <1>2

(* The invariant of an end that does nothing stays.                        *)
LEMMA OtherEnd ==
  ASSUME NEW f \in VpEnd, EndInv(f),
         vpEpoch'[f] = vpEpoch[f], vpPeer'[f] = vpPeer[f], vpKcp'[f] = vpKcp[f], vpOpen'[f] = vpOpen[f],
         vpActor'[f] = vpActor[f], vpClose'[f] = vpClose[f], vpRaced'[f] = vpRaced[f]
  PROVE  EndInv(f)'
<1>1. NotOneself(f)' /\ InHands(f)'
  BY DEF EndInv, NotOneself, InHands, LocalEpoch, Pc
<1>2. OneReplaces(f)'
  BY DEF EndInv, OneReplaces, Replacing, Pc
<1>3. NoStray(f)'
  BY DEF EndInv, NoStray
<1> QED
  BY <1>1, <1>2, <1>3 DEF EndInv

(* The steps, one by one.                                                  *)
LEMMA VpCases ==
  ASSUME VpNext
  PROVE  \E e \in VpEnd :
           \/ VpConnect(e) \/ VpWriterStops(e) \/ VpCloseReturns(e)
           \/ VpWrites(e) \/ VpRestart(e) \/ CarrierReconnects(e) \/ VpCloseBegins(e)
           \/ \E t \in VpTracks[e] : \/ FirstPeer(e, t) \/ StartsOnce(e, t) \/ SwapsEpoch(e, t)
                                     \/ \E frame \in Epoch \cup {Foreign} : FrameArrives(e, t, frame)
           \/ \E g \in VpActor(e) : ResetTakes(e, g) \/ ResetMakes(e, g)
<1>1. PICK e \in VpEnd :
         \/ VpWork(e) \/ VpWrites(e)
         \/ VpRestart(e) \/ CarrierReconnects(e) \/ VpCloseBegins(e)
         \/ \E frame \in Epoch \cup {Foreign} : VpDelivers(e, frame)
  BY DEF VpNext
<1>2. CASE VpWork(e)
  BY <1>2 DEF VpWork
<1>3. CASE \E frame \in Epoch \cup {Foreign} : VpDelivers(e, frame)
  BY <1>3 DEF VpDelivers
<1> QED
  BY <1>1, <1>2, <1>3

(* A new runtime is one that was closed or never there.                    *)
LEMMA FreshIsNew ==
  ASSUME NEW e \in VpEnd, vpOpen[e] \subseteq Runtime, RuntimeLeft(e)
  PROVE  FreshRuntime(e) \in Runtime \ vpOpen[e]
BY DEF FreshRuntime, RuntimeLeft

(* A frame that arrives carries the epoch of some process, or is foreign.  *)
LEMMA FrameTyped ==
  ASSUME VpTypeOK, NEW e \in VpEnd
  PROVE  LocalEpoch(e) \in Epoch /\ vpAir[e] \cup SfuNoise(e) \subseteq Epoch \cup {Foreign}
<1>1. vpEpoch[e] \in 1..(VpRestarts[e] + 1) /\ vpAir[e] \subseteq Epoch \cup {Foreign}
  BY DEF VpTypeOK
<1>2. LocalEpoch(e) \in Epoch
  BY <1>1 DEF LocalEpoch, Epoch
<1> QED
  BY <1>1, <1>2 DEF SfuNoise

(* Every goroutine stays within the types when one of them moves.          *)
LEMMA ActorsTyped ==
  ASSUME VpTyped, [VpNext]_vpVars
  PROVE  /\ DOMAIN vpActor' = VpEnd
         /\ \A f \in VpEnd : vpActor'[f] \in [VpActor(f) -> VpGoroutine]
<1> DEFINE Good == /\ DOMAIN vpActor' = VpEnd
                   /\ \A f \in VpEnd : vpActor'[f] \in [VpActor(f) -> VpGoroutine]
<1>0. VpTypeOK /\ DOMAIN vpActor = VpEnd /\ \A f \in VpEnd : vpActor[f] \in [VpActor(f) -> VpGoroutine]
  BY DEF VpTyped
<1>1. ASSUME vpActor' = vpActor PROVE Good
  BY <1>0, <1>1
<1>2. ASSUME NEW e \in VpEnd, NEW g \in VpActor(e), NEW r \in VpGoroutine, Becomes(e, g, r) PROVE Good
  BY <1>2, ActorMoves
<1>3. ASSUME NEW e \in VpEnd, NEW g \in VpActor(e), NEW where \in VpPc, VpGoto(e, g, where) PROVE Good
  <2>1. vpActor[e][g] \in VpGoroutine
    BY <1>0
  <2>2. [vpActor[e][g] EXCEPT !.pc = where] \in VpGoroutine
    BY <1>3, <2>1 DEF VpGoroutine
  <2> QED
    BY <1>2, <1>3, <2>2 DEF VpGoto
<1>4. ASSUME NEW e \in VpEnd, VpRestart(e) PROVE Good
  BY <1>0, <1>4, IdleTyped DEF VpRestart
<1>5. ASSUME NEW e \in VpEnd, NEW t \in VpTracks[e], NEW frame, FrameArrives(e, t, frame) PROVE Good
  <2>1. frame \in VpSeenEpoch /\ vpPeer[e] \in VpSeenEpoch /\ t \in VpActor(e)
    BY <1>0, <1>5, FrameTyped DEF FrameArrives, VpSeenEpoch, VpTypeOK, VpActor
  <2>2. /\ [Idle EXCEPT !.pc = "first", !.epoch = frame] \in VpGoroutine
        /\ [Idle EXCEPT !.pc = "swap", !.epoch = frame, !.prev = vpPeer[e]] \in VpGoroutine
    BY <2>1 DEF Idle, VpGoroutine, VpPc, VpSeenEpoch
  <2> QED
    BY <1>1, <1>2, <1>5, <2>1, <2>2 DEF FrameArrives
<1>6. ASSUME NEW e \in VpEnd, NEW t \in VpTracks[e], FirstPeer(e, t) \/ StartsOnce(e, t) \/ SwapsEpoch(e, t)
      PROVE  Good
  BY <1>1, <1>2, <1>3, <1>6, IdleTyped DEF FirstPeer, StartsOnce, SwapsEpoch, VpActor, VpPc
<1>7. ASSUME NEW e \in VpEnd, CarrierReconnects(e) PROVE Good
  BY <1>3, <1>7 DEF CarrierReconnects, VpActor, VpPc
<1>8. ASSUME NEW e \in VpEnd, NEW g \in VpActor(e), ResetTakes(e, g) \/ ResetMakes(e, g) PROVE Good
  <2>1. vpActor[e][g] \in VpGoroutine /\ vpKcp[e] \in {0} \cup Runtime
    BY <1>0 DEF VpTypeOK
  <2>2. [vpActor[e][g] EXCEPT !.pc = "make", !.rt = vpKcp[e]] \in VpGoroutine
    BY <2>1 DEF VpGoroutine, VpPc
  <2> QED
    BY <1>2, <1>8, <2>2, IdleTyped DEF ResetTakes, ResetMakes
<1>9. ASSUME NEW e \in VpEnd,
             \/ VpConnect(e) \/ VpWrites(e) \/ VpWriterStops(e) \/ VpCloseBegins(e) \/ VpCloseReturns(e)
      PROVE  Good
  BY <1>1, <1>9 DEF VpConnect, VpWrites, VpWriterStops, VpCloseBegins, VpCloseReturns
<1>10. ASSUME UNCHANGED vpVars PROVE Good
  BY <1>1, <1>10 DEF vpVars
<1> HIDE DEF Good
<1>11. Good
  <2>1. CASE VpNext
    <3>1. PICK e \in VpEnd :
             \/ VpConnect(e) \/ VpWriterStops(e) \/ VpCloseReturns(e)
             \/ VpWrites(e) \/ VpRestart(e) \/ CarrierReconnects(e) \/ VpCloseBegins(e)
             \/ \E t \in VpTracks[e] : \/ FirstPeer(e, t) \/ StartsOnce(e, t) \/ SwapsEpoch(e, t)
                                       \/ \E frame \in Epoch \cup {Foreign} : FrameArrives(e, t, frame)
             \/ \E g \in VpActor(e) : ResetTakes(e, g) \/ ResetMakes(e, g)
      BY <2>1, VpCases
    <3> QED
      BY <1>4, <1>5, <1>6, <1>7, <1>8, <1>9, <3>1
  <2> QED
    BY <1>10, <2>1
<1> QED
  BY <1>11 DEF Good

(* What the rest of the variables may become.                              *)
LEMMA VpTypedStep == VpTyped /\ [VpNext]_vpVars => VpTyped'
<1> SUFFICES ASSUME VpTyped, [VpNext]_vpVars PROVE VpTyped'
  OBVIOUS
<1> USE DEF vpLife, vpSeen, vpRuntime
<1> DEFINE Fields ==
      /\ DOMAIN vpEpoch' = VpEnd /\ DOMAIN vpReconnects' = VpEnd
      /\ \A e \in VpEnd : vpEpoch'[e] \in 1..(VpRestarts[e] + 1)
      /\ vpHad' \in [VpEnd -> BOOLEAN] /\ vpPeer' \in [VpEnd -> VpSeenEpoch]
      /\ vpOnce' \in [VpEnd -> BOOLEAN] /\ vpKcp' \in [VpEnd -> {0} \cup Runtime]
      /\ vpOpen' \in [VpEnd -> SUBSET Runtime]
      /\ vpWriter' \in [VpEnd -> {"off", "run", "done"}]
      /\ vpClose' \in [VpEnd -> {"no", "wait", "closed"}]
      /\ vpAir' \in [VpEnd -> SUBSET (Epoch \cup {Foreign})]
      /\ \A e \in VpEnd : vpReconnects'[e] \in 0..VpReconnects[e]
      /\ vpRaced' \in [VpEnd -> BOOLEAN]
<1>0. /\ VpTypeOK /\ DOMAIN vpEpoch = VpEnd /\ DOMAIN vpReconnects = VpEnd
      /\ \A e \in VpEnd : vpActor[e] \in [VpActor(e) -> VpGoroutine]
  BY DEF VpTyped
<1>1. ASSUME NEW e \in VpEnd, VpConnect(e) \/ VpWriterStops(e) \/ VpCloseReturns(e) PROVE Fields
  BY <1>0, <1>1 DEF VpTypeOK, VpSeenEpoch, VpConnect, VpWriterStops, VpCloseReturns
<1>2. ASSUME NEW e \in VpEnd, VpWrites(e) PROVE Fields
  <2>1. Other(e) \in VpEnd /\ LocalEpoch(e) \in Epoch
    BY <1>0, FrameTyped DEF Other, VpEnd
  <2>2. vpAir' \in [VpEnd -> SUBSET (Epoch \cup {Foreign})]
    BY <1>0, <1>2, <2>1 DEF VpTypeOK, VpWrites
  <2> QED
    BY <1>0, <1>2, <2>2 DEF VpTypeOK, VpSeenEpoch, VpWrites
<1>3. ASSUME NEW e \in VpEnd, VpRestart(e) PROVE Fields
  <2>1. vpAir' \in [VpEnd -> SUBSET (Epoch \cup {Foreign})]
    BY <1>0, <1>3, FrameTyped DEF VpTypeOK, VpRestart
  <2>2. vpEpoch[e] \in 1..(VpRestarts[e] + 1) /\ vpEpoch[e] <= VpRestarts[e] /\ VpRestarts[e] \in Nat
    BY <1>0, <1>3, VpAssumption DEF VpTypeOK, VpRestart
  <2>3. vpEpoch[e] + 1 \in 1..(VpRestarts[e] + 1)
    BY <2>2
  <2>4. DOMAIN vpEpoch' = VpEnd /\ \A f \in VpEnd : vpEpoch'[f] \in 1..(VpRestarts[f] + 1)
    BY <1>0, <1>3, <2>3 DEF VpTypeOK, VpRestart
  <2> QED
    BY <1>0, <1>3, <2>1, <2>4 DEF VpTypeOK, VpSeenEpoch, VpRestart
<1>4. ASSUME NEW e \in VpEnd, NEW t \in VpTracks[e], NEW frame, FrameArrives(e, t, frame) PROVE Fields
  <2>1. vpAir' \in [VpEnd -> SUBSET (Epoch \cup {Foreign})] /\ vpHad' \in [VpEnd -> BOOLEAN]
    BY <1>0, <1>4 DEF VpTypeOK, FrameArrives
  <2>2. vpRaced' \in [VpEnd -> BOOLEAN]
    <3>1. vpRaced' = vpRaced \/ Raced(e, t)
      BY <1>4 DEF FrameArrives
    <3> QED
      BY <1>0, <3>1 DEF VpTypeOK, Raced
  <2> QED
    BY <1>0, <1>4, <2>1, <2>2 DEF VpTypeOK, VpSeenEpoch, FrameArrives
<1>5. ASSUME NEW e \in VpEnd, NEW t \in VpTracks[e], FirstPeer(e, t) \/ SwapsEpoch(e, t) PROVE Fields
  <2>1. t \in VpActor(e) /\ vpActor[e][t] \in VpGoroutine
    BY <1>0 DEF VpActor
  <2>2. vpPeer' \in [VpEnd -> VpSeenEpoch]
    BY <1>0, <1>5, <2>1 DEF VpTypeOK, VpSeenEpoch, VpGoroutine, FirstPeer, SwapsEpoch
  <2>3. vpRaced' \in [VpEnd -> BOOLEAN]
    <3>1. vpRaced' = vpRaced \/ Raced(e, t)
      BY <1>5 DEF FirstPeer, SwapsEpoch
    <3> QED
      BY <1>0, <3>1 DEF VpTypeOK, Raced
  <2> QED
    BY <1>0, <1>5, <2>2, <2>3 DEF VpTypeOK, VpSeenEpoch, FirstPeer, SwapsEpoch
<1>6. ASSUME NEW e \in VpEnd, NEW t \in VpTracks[e], StartsOnce(e, t) PROVE Fields
  <2>1. FreshRuntime(e) \in Runtime
    BY <1>0, <1>6, FreshIsNew DEF VpTypeOK, StartsOnce
  <2>2. vpOpen' \in [VpEnd -> SUBSET Runtime] /\ vpKcp' \in [VpEnd -> {0} \cup Runtime]
    BY <1>0, <1>6, <2>1 DEF VpTypeOK, StartsOnce
  <2>3. vpRaced' \in [VpEnd -> BOOLEAN] /\ vpOnce' \in [VpEnd -> BOOLEAN]
    BY <1>0, <1>6 DEF VpTypeOK, StartsOnce
  <2> QED
    BY <1>0, <1>6, <2>2, <2>3 DEF VpTypeOK, VpSeenEpoch, StartsOnce
<1>7. ASSUME NEW e \in VpEnd, CarrierReconnects(e) PROVE Fields
  <2>1. vpReconnects[e] + 1 \in 0..VpReconnects[e]
    <3>1. VpReconnects[e] \in Nat /\ vpReconnects[e] \in 0..VpReconnects[e] /\ vpReconnects[e] < VpReconnects[e]
      BY <1>0, <1>7, VpAssumption DEF VpTypeOK, CarrierReconnects
    <3> QED
      BY <3>1
  <2>2. DOMAIN vpReconnects' = VpEnd /\ \A f \in VpEnd : vpReconnects'[f] \in 0..VpReconnects[f]
    BY <1>0, <1>7, <2>1 DEF VpTypeOK, CarrierReconnects
  <2>3. vpRaced' \in [VpEnd -> BOOLEAN]
    BY <1>0, <1>7 DEF VpTypeOK, CarrierReconnects, Raced
  <2> QED
    BY <1>0, <1>7, <2>2, <2>3 DEF VpTypeOK, VpSeenEpoch, CarrierReconnects
<1>8. ASSUME NEW e \in VpEnd, NEW g \in VpActor(e), ResetTakes(e, g) PROVE Fields
  BY <1>0, <1>8 DEF VpTypeOK, VpSeenEpoch, ResetTakes
<1>9. ASSUME NEW e \in VpEnd, NEW g \in VpActor(e), ResetMakes(e, g) PROVE Fields
  <2>1. FreshRuntime(e) \in Runtime
    BY <1>0, <1>9, FreshIsNew DEF VpTypeOK, ResetMakes
  <2>2. vpOpen' \in [VpEnd -> SUBSET Runtime] /\ vpKcp' \in [VpEnd -> {0} \cup Runtime]
    BY <1>0, <1>9, <2>1 DEF VpTypeOK, ResetMakes, StillOpen
  <2>3. vpEpoch' = [vpEpoch EXCEPT ![e] = vpEpoch[e]]
    BY <1>9 DEF ResetMakes, EpochAfterReset
  <2>4. DOMAIN vpEpoch' = VpEnd /\ \A f \in VpEnd : vpEpoch'[f] \in 1..(VpRestarts[f] + 1)
    BY <1>0, <2>3 DEF VpTypeOK
  <2> QED
    BY <1>0, <1>9, <2>2, <2>4 DEF VpTypeOK, VpSeenEpoch, ResetMakes
<1>10. ASSUME NEW e \in VpEnd, VpCloseBegins(e) PROVE Fields
  <2>1. vpOpen' \in [VpEnd -> SUBSET Runtime] /\ vpClose' \in [VpEnd -> {"no", "wait", "closed"}]
    BY <1>0, <1>10 DEF VpTypeOK, VpCloseBegins
  <2>2. vpRaced' \in [VpEnd -> BOOLEAN]
    BY <1>0, <1>10 DEF VpTypeOK, VpCloseBegins
  <2> QED
    BY <1>0, <1>10, <2>1, <2>2 DEF VpTypeOK, VpSeenEpoch, VpCloseBegins
<1>11. ASSUME UNCHANGED vpVars PROVE Fields
  <2>1. UNCHANGED <<vpEpoch, vpHad, vpPeer, vpOnce, vpKcp, vpOpen>>
    BY <1>11 DEF vpVars, vpLife, vpSeen, vpRuntime
  <2>2. UNCHANGED <<vpWriter, vpClose, vpAir, vpReconnects, vpRaced>>
    BY <1>11 DEF vpVars, vpLife
  <2> QED
    BY <1>0, <2>1, <2>2 DEF VpTypeOK, VpSeenEpoch
<1> HIDE DEF Fields
<1>12. Fields
  <2>1. CASE VpNext
    <3>1. PICK e \in VpEnd :
             \/ VpConnect(e) \/ VpWriterStops(e) \/ VpCloseReturns(e)
             \/ VpWrites(e) \/ VpRestart(e) \/ CarrierReconnects(e) \/ VpCloseBegins(e)
             \/ \E t \in VpTracks[e] : \/ FirstPeer(e, t) \/ StartsOnce(e, t) \/ SwapsEpoch(e, t)
                                       \/ \E frame \in Epoch \cup {Foreign} : FrameArrives(e, t, frame)
             \/ \E g \in VpActor(e) : ResetTakes(e, g) \/ ResetMakes(e, g)
      BY <2>1, VpCases
    <3> QED
      BY <1>1, <1>2, <1>3, <1>4, <1>5, <1>6, <1>7, <1>8, <1>9, <1>10, <3>1
  <2> QED
    BY <1>11, <2>1
<1>13. DOMAIN vpActor' = VpEnd /\ \A f \in VpEnd : vpActor'[f] \in [VpActor(f) -> VpGoroutine]
  BY ActorsTyped
<1>14. \A f \in VpEnd : \A g \in VpActor(f) : vpActor'[f][g] \in VpGoroutine
  BY <1>13
<1>15. VpTypeOK'
  BY <1>12, <1>14 DEF Fields, VpTypeOK, VpGoroutine, VpSeenEpoch
<1> QED
  BY <1>12, <1>13, <1>15 DEF Fields, VpTyped

(* Steps that leave the goroutines and the runtimes of an end alone.       *)
LEMMA QuietEnd ==
  ASSUME VpTyped, NEW e \in VpEnd, EndInv(e), NEW f \in VpEnd,
         VpConnect(f) \/ VpWriterStops(f) \/ VpWrites(f) \/ VpCloseReturns(f)
  PROVE  EndInv(e)'
<1> USE DEF vpLife, vpSeen, vpRuntime
<1>1. UNCHANGED <<vpEpoch, vpPeer, vpKcp, vpOpen, vpActor, vpRaced>>
  BY DEF VpConnect, VpWriterStops, VpWrites, VpCloseReturns
<1>2. vpClose'[e] = "no" <=> vpClose[e] = "no"
  BY DEF VpTyped, VpTypeOK, VpConnect, VpWriterStops, VpWrites, VpCloseReturns
<1>3. NotOneself(e)' /\ InHands(e)'
  BY <1>1 DEF EndInv, NotOneself, InHands, LocalEpoch, Pc
<1>4. OneReplaces(e)'
  BY <1>1, <1>2 DEF EndInv, OneReplaces, Replacing, Pc
<1>5. NoStray(e)'
  BY <1>1, <1>2 DEF EndInv, NoStray
<1> QED
  BY <1>3, <1>4, <1>5 DEF EndInv

(* A new process starts afresh.                                            *)
LEMMA RestartedEnd ==
  ASSUME VpTyped, VpTyped', NEW e \in VpEnd, VpRestart(e)
  PROVE  EndInv(e)'
<1>1. /\ vpPeer'[e] = NoEpoch /\ vpKcp'[e] = 0 /\ vpOpen'[e] = {} /\ vpClose'[e] = "no"
      /\ vpActor'[e] = [g \in VpActor(e) |-> Idle]
  BY DEF VpTyped, VpTypeOK, VpRestart
<1>2. LocalEpoch(e)' # NoEpoch /\ NoEpoch # Foreign
  BY DEF LocalEpoch, NoEpoch, Foreign, VpEnd
<1> QED
  BY <1>1, <1>2 DEF EndInv, NotOneself, InHands, OneReplaces, NoStray, Idle, Replacing, Pc

(* A frame: one's own and foreign ones are left alone, the others are held *)
(* by the goroutine of the track.                                          *)
LEMMA ArrivedEnd ==
  ASSUME VpTyped, NEW e \in VpEnd, EndInv(e), NEW t \in VpTracks[e], NEW frame, FrameArrives(e, t, frame)
  PROVE  EndInv(e)'
<1> USE DEF vpLife, vpRuntime
<1>0. /\ t \in VpActor(e) /\ Pc(e, t) = "idle" /\ vpRaced \in [VpEnd -> BOOLEAN]
      /\ vpActor[e][t].rt = 0
  BY DEF VpActor, VpTyped, VpTypeOK, FrameArrives, EndInv, InHands
<1>1. UNCHANGED <<vpEpoch, vpPeer, vpKcp, vpOpen, vpClose>>
  BY DEF FrameArrives
<1>2. CASE UNCHANGED <<vpActor, vpRaced>>
  BY <1>1, <1>2, OtherEnd
<1>3. CASE /\ OfPeer(e, frame)
           /\ \/ /\ Becomes(e, t, [Idle EXCEPT !.pc = "first", !.epoch = frame])
                 /\ Raced(e, t)
              \/ /\ Becomes(e, t, [Idle EXCEPT !.pc = "swap", !.epoch = frame, !.prev = vpPeer[e]])
                 /\ vpRaced' = vpRaced
  <2>1. PICK r : /\ Becomes(e, t, r) /\ r.epoch = frame /\ r.rt = 0
                 /\ r.pc = "swap" \/ (r.pc = "first" /\ Raced(e, t))
                 /\ vpRaced' = vpRaced \/ Raced(e, t)
    BY <1>3 DEF Idle
  <2>2. vpActor'[e][t] = r /\ \A h \in VpActor(e) : h # t => vpActor'[e][h] = vpActor[e][h]
    BY <1>0, <2>1, ActorAfter
  <2>3. NotOneself(e)'
    BY <1>1, <1>3, <2>1, <2>2 DEF EndInv, NotOneself, LocalEpoch, OfPeer
  <2>4. InHands(e)'
    BY <2>1, <2>2 DEF EndInv, InHands, Pc
  <2>5. vpRaced[e] => vpRaced'[e]
    BY <1>0, <2>1 DEF Raced
  <2>6. OneReplaces(e)'
    <3>1. CASE r.pc = "swap"
      BY <1>1, <2>1, <2>2, <2>5, <3>1 DEF EndInv, OneReplaces, Replacing, Pc
    <3>2. CASE Raced(e, t)
      <4>1. ~vpRaced'[e] => vpClose[e] = "no" /\ \A h \in VpActor(e) \ {t} : ~Replacing(e, h)
        BY <1>0, <3>2 DEF Raced
      <4> QED
        BY <1>1, <2>1, <2>2, <2>5, <4>1 DEF EndInv, OneReplaces, Replacing, Pc
    <3> QED
      BY <2>1, <3>1, <3>2
  <2>7. NoStray(e)'
    <3>1. \A g \in VpActor(e) : vpActor'[e][g].rt = vpActor[e][g].rt
      BY <1>0, <2>1, <2>2
    <3> QED
      BY <1>1, <2>5, <3>1 DEF EndInv, NoStray
  <2> QED
    BY <2>3, <2>4, <2>6, <2>7 DEF EndInv
<1> QED
  BY <1>2, <1>3 DEF FrameArrives

(* handleFirstPeer and the swap of the epoch: peerEpoch becomes the one in *)
(* the goroutine's hands.                                                  *)
LEMMA PeerEnd ==
  ASSUME VpTyped, NEW e \in VpEnd, EndInv(e), NEW t \in VpTracks[e], FirstPeer(e, t) \/ SwapsEpoch(e, t)
  PROVE  EndInv(e)'
<1> USE DEF vpLife, vpRuntime
<1>0. /\ t \in VpActor(e) /\ vpRaced \in [VpEnd -> BOOLEAN] /\ vpPeer \in [VpEnd -> VpSeenEpoch]
      /\ Pc(e, t) \in {"first", "swap"} /\ vpActor[e][t].rt = 0 /\ vpActor[e][t] \in VpGoroutine
  BY DEF VpActor, VpTyped, VpTypeOK, VpSeenEpoch, FirstPeer, SwapsEpoch, EndInv, InHands
<1>1. UNCHANGED <<vpEpoch, vpKcp, vpOpen, vpClose>>
  BY DEF FirstPeer, SwapsEpoch
<1>2. PICK r : /\ Becomes(e, t, r) /\ r.rt = 0 /\ r.epoch \in {vpActor[e][t].epoch, NoEpoch}
               /\ \/ r.pc = "once" /\ Pc(e, t) = "first" /\ vpRaced' = vpRaced
                  \/ r.pc = "reset" /\ Raced(e, t)
                  \/ r.pc = "idle" /\ vpRaced' = vpRaced
  <2>1. CASE FirstPeer(e, t)
    BY <1>0, <2>1 DEF FirstPeer, VpGoto, VpGoroutine
  <2>2. CASE SwapsEpoch(e, t)
    BY <1>0, <2>2 DEF SwapsEpoch, VpGoto, VpGoroutine, Idle
  <2> QED
    BY <2>1, <2>2
<1>3. vpActor'[e][t] = r /\ \A h \in VpActor(e) : h # t => vpActor'[e][h] = vpActor[e][h]
  BY <1>0, <1>2, ActorAfter
<1>4. vpPeer'[e] \in {vpPeer[e], vpActor[e][t].epoch}
  BY <1>0 DEF FirstPeer, SwapsEpoch
<1>5. NotOneself(e)'
  <2>1. NoEpoch \notin {LocalEpoch(e), Foreign}
    BY EpochsApart
  <2> QED
    BY <1>0, <1>1, <1>2, <1>3, <1>4, <2>1 DEF EndInv, NotOneself, LocalEpoch
<1>6. InHands(e)'
  BY <1>2, <1>3 DEF EndInv, InHands, Pc
<1>7. vpRaced[e] => vpRaced'[e]
  BY <1>0, <1>2 DEF Raced
<1>8. OneReplaces(e)'
  <2>1. CASE r.pc # "reset"
    BY <1>1, <1>2, <1>3, <1>7, <2>1 DEF EndInv, OneReplaces, Replacing, Pc
  <2>2. CASE Raced(e, t)
    <3>1. ~vpRaced'[e] => vpClose[e] = "no" /\ \A h \in VpActor(e) \ {t} : ~Replacing(e, h)
      BY <1>0, <2>2 DEF Raced
    <3> QED
      BY <1>1, <1>2, <1>3, <1>7, <3>1 DEF EndInv, OneReplaces, Replacing, Pc
  <2> QED
    BY <1>2, <2>1, <2>2
<1>9. NoStray(e)'
  <2>1. \A g \in VpActor(e) : vpActor'[e][g].rt = vpActor[e][g].rt
    BY <1>0, <1>2, <1>3
  <2> QED
    BY <1>1, <1>7, <2>1 DEF EndInv, NoStray
<1> QED
  BY <1>5, <1>6, <1>8, <1>9 DEF EndInv

(* kcpOnce: the first runtime, if there is none yet.                       *)
LEMMA OnceEnd ==
  ASSUME VpTyped, NEW e \in VpEnd, EndInv(e), NEW t \in VpTracks[e], StartsOnce(e, t)
  PROVE  EndInv(e)'
<1>0. /\ t \in VpActor(e) /\ vpRaced \in [VpEnd -> BOOLEAN] /\ vpOpen \in [VpEnd -> SUBSET Runtime]
      /\ vpKcp \in [VpEnd -> {0} \cup Runtime]
      /\ Pc(e, t) = "once" /\ vpActor[e][t].rt = 0 /\ Becomes(e, t, Idle)
  BY DEF VpActor, VpTyped, VpTypeOK, StartsOnce, EndInv, InHands
<1>1. UNCHANGED <<vpEpoch, vpPeer, vpClose>> /\ (vpRaced[e] => vpRaced'[e])
  BY <1>0 DEF StartsOnce, vpLife, vpSeen
<1>2. vpActor'[e][t] = Idle /\ \A h \in VpActor(e) : h # t => vpActor'[e][h] = vpActor[e][h]
  <2>1. Becomes(e, t, Idle) /\ t \in VpActor(e)
    BY <1>0
  <2> QED
    BY <2>1, ActorAfter
<1>3. NotOneself(e)'
  <2>1. NoEpoch \notin {LocalEpoch(e), Foreign}
    BY EpochsApart
  <2> QED
    BY <1>1, <1>2, <2>1 DEF EndInv, NotOneself, LocalEpoch, Idle
<1>4. InHands(e)'
  BY <1>2 DEF EndInv, InHands, Pc, Idle
<1>5. OneReplaces(e)'
  <2>1. ASSUME ~vpRaced'[e], NEW g \in VpActor(e), Replacing(e, g)' PROVE FALSE
    BY <1>0, <1>1, <1>2, <2>1 DEF EndInv, OneReplaces, Replacing, Pc, Idle
  <2> QED
    BY <2>1 DEF OneReplaces, Replacing
<1>6. \A g \in VpActor(e) : vpActor'[e][g].rt = vpActor[e][g].rt
  BY <1>0, <1>2 DEF Idle
<1>7. NoStray(e)'
  <2>1. CASE vpOnce[e]
    <3>1. UNCHANGED <<vpOpen, vpKcp>>
      BY <2>1 DEF StartsOnce
    <3> QED
      BY <1>1, <1>6, <3>1 DEF EndInv, NoStray
  <2>2. CASE ~vpOnce[e]
    <3>1. /\ vpOpen'[e] = vpOpen[e] \cup {FreshRuntime(e)} /\ vpKcp'[e] = FreshRuntime(e)
          /\ ~vpRaced'[e] => ~vpRaced[e] /\ vpKcp[e] = 0
      BY <1>0, <2>2 DEF StartsOnce
    <3>2. ~vpRaced'[e] => vpClose[e] = "no"
      BY <1>0, <1>1 DEF EndInv, OneReplaces, Replacing
    <3>3. \A x \in vpOpen[e] : x # 0
      BY <1>0 DEF Runtime
    <3> QED
      BY <1>1, <1>6, <3>1, <3>2, <3>3 DEF EndInv, NoStray
  <2> QED
    BY <2>1, <2>2
<1> QED
  BY <1>3, <1>4, <1>5, <1>7 DEF EndInv

(* The carrier's callback, and the taking out of the runtime.              *)
LEMMA ResetEnd ==
  ASSUME VpTyped, NEW e \in VpEnd, EndInv(e), NEW g \in VpActor(e),
         (g = "carrier" /\ CarrierReconnects(e)) \/ ResetTakes(e, g)
  PROVE  EndInv(e)'
<1>0. /\ vpRaced \in [VpEnd -> BOOLEAN] /\ vpKcp \in [VpEnd -> {0} \cup Runtime]
      /\ Pc(e, g) \in {"idle", "reset"} /\ vpActor[e][g].rt = 0 /\ vpActor[e][g] \in VpGoroutine
  BY DEF VpTyped, VpTypeOK, CarrierReconnects, ResetTakes, EndInv, InHands
<1>1. UNCHANGED <<vpEpoch, vpPeer, vpOpen, vpClose>>
  BY DEF CarrierReconnects, ResetTakes, vpLife, vpSeen, vpRuntime
<1>2. PICK r : /\ Becomes(e, g, r) /\ r.epoch = vpActor[e][g].epoch
               /\ \/ /\ r.pc = "reset" /\ r.rt = 0 /\ Raced(e, g) /\ vpKcp' = vpKcp
                  \/ /\ r.pc = "make" /\ r.rt = vpKcp[e] /\ vpKcp' = [vpKcp EXCEPT ![e] = 0]
                     /\ Pc(e, g) = "reset" /\ vpRaced' = vpRaced
  <2>1. CASE CarrierReconnects(e) /\ g = "carrier"
    BY <1>0, <2>1 DEF CarrierReconnects, VpGoto, VpGoroutine, vpRuntime
  <2>2. CASE ResetTakes(e, g)
    <3> DEFINE r == [vpActor[e][g] EXCEPT !.pc = "make", !.rt = vpKcp[e]]
    <3>1. /\ Becomes(e, g, r) /\ vpKcp' = [vpKcp EXCEPT ![e] = 0] /\ Pc(e, g) = "reset" /\ vpRaced' = vpRaced
      BY <2>2 DEF ResetTakes
    <3>2. r.epoch = vpActor[e][g].epoch /\ r.pc = "make" /\ r.rt = vpKcp[e]
      BY <1>0 DEF VpGoroutine
    <3> HIDE DEF r
    <3> QED
      BY <3>1, <3>2
  <2> QED
    BY <2>1, <2>2
<1>3. vpActor'[e][g] = r /\ \A h \in VpActor(e) : h # g => vpActor'[e][h] = vpActor[e][h]
  <2>1. Becomes(e, g, r)
    BY <1>2
  <2> QED
    BY <2>1, ActorAfter
<1>4. NotOneself(e)'
  BY <1>1, <1>2, <1>3 DEF EndInv, NotOneself, LocalEpoch
<1>5. InHands(e)'
  BY <1>2, <1>3 DEF EndInv, InHands, Pc
<1>6. (OneReplaces(e) /\ NoStray(e))'
  <2>1. CASE r.pc = "reset" /\ r.rt = 0 /\ Raced(e, g) /\ vpKcp' = vpKcp
    <3>1. ~vpRaced'[e] => ~vpRaced[e] /\ vpClose[e] = "no" /\ \A h \in VpActor(e) \ {g} : ~Replacing(e, h)
      BY <1>0, <2>1 DEF Raced
    <3>2. OneReplaces(e)'
      BY <1>1, <1>3, <2>1, <3>1 DEF EndInv, OneReplaces, Replacing, Pc
    <3>3. \A h \in VpActor(e) : vpActor'[e][h].rt = vpActor[e][h].rt
      BY <1>0, <1>3, <2>1
    <3> QED
      BY <1>1, <2>1, <3>1, <3>2, <3>3 DEF EndInv, NoStray
  <2>2. CASE /\ r.pc = "make" /\ r.rt = vpKcp[e] /\ vpKcp' = [vpKcp EXCEPT ![e] = 0]
             /\ Pc(e, g) = "reset" /\ vpRaced' = vpRaced
    <3>1. vpKcp'[e] = 0
      BY <1>0, <2>2
    <3>2. ~vpRaced[e] => vpClose[e] = "no" /\ \A h \in VpActor(e) : Replacing(e, h) => h = g
      BY <2>2 DEF EndInv, OneReplaces, Replacing
    <3>3. OneReplaces(e)'
      BY <1>1, <1>3, <2>2, <3>1, <3>2 DEF EndInv, OneReplaces, Replacing, Pc
    <3>4. NoStray(e)'
      <4> SUFFICES ASSUME ~vpRaced[e], NEW x \in vpOpen[e]
                   PROVE  x = vpKcp'[e] \/ \E h \in VpActor(e) : x = vpActor'[e][h].rt
        BY <1>1, <2>2, <3>2 DEF NoStray
      <4>1. x = vpKcp[e] \/ \E h \in VpActor(e) : x = vpActor[e][h].rt
        BY <3>2 DEF EndInv, NoStray
      <4> QED
        BY <1>0, <1>3, <2>2, <3>1, <4>1
    <3> QED
      BY <3>3, <3>4
  <2> QED
    BY <1>2, <2>1, <2>2
<1> QED
  BY <1>4, <1>5, <1>6 DEF EndInv

(* The old runtime is closed, the new one put in its place.                *)
LEMMA MadeEnd ==
  ASSUME VpTyped, NEW e \in VpEnd, EndInv(e), NEW g \in VpActor(e), ResetMakes(e, g)
  PROVE  EndInv(e)'
<1>0. /\ vpEpoch'[e] = vpEpoch[e] /\ UNCHANGED <<vpPeer, vpClose, vpRaced>>
      /\ Pc(e, g) = "make" /\ Becomes(e, g, Idle)
      /\ vpKcp'[e] = FreshRuntime(e)
      /\ vpOpen'[e] = (vpOpen[e] \ {vpActor[e][g].rt}) \cup {FreshRuntime(e)}
  BY DEF VpTyped, VpTypeOK, ResetMakes, StillOpen, EpochAfterReset, vpSeen
<1>1. vpActor'[e][g] = Idle /\ \A h \in VpActor(e) : h # g => vpActor'[e][h] = vpActor[e][h]
  <2>1. Becomes(e, g, Idle) /\ g \in VpActor(e)
    BY <1>0
  <2> QED
    BY <2>1, ActorAfter
<1>2. NotOneself(e)'
  <2>1. NoEpoch \notin {LocalEpoch(e), Foreign}
    BY EpochsApart
  <2> QED
    BY <1>0, <1>1, <2>1 DEF EndInv, NotOneself, LocalEpoch, Idle
<1>3. InHands(e)'
  BY <1>1 DEF EndInv, InHands, Pc, Idle
<1>4. ~vpRaced[e] => /\ vpClose[e] = "no" /\ vpKcp[e] = 0
                     /\ \A h \in VpActor(e) : Replacing(e, h) => h = g
  BY <1>0 DEF EndInv, OneReplaces, Replacing
<1>5. OneReplaces(e)'
  BY <1>0, <1>1, <1>4 DEF OneReplaces, Replacing, Pc, Idle
<1>6. NoStray(e)'
  <2> SUFFICES ASSUME ~vpRaced[e], NEW x \in vpOpen[e], x # vpActor[e][g].rt
               PROVE  \E h \in VpActor(e) : x = vpActor'[e][h].rt
    BY <1>0, <1>4 DEF NoStray
  <2>1. x = 0 \/ \E h \in VpActor(e) : h # g /\ x = vpActor[e][h].rt
    BY <1>4 DEF EndInv, NoStray
  <2> QED
    BY <1>1, <2>1 DEF Idle
<1> QED
  BY <1>2, <1>3, <1>5, <1>6 DEF EndInv

(* Close takes the runtime with it.                                        *)
LEMMA ClosedEnd ==
  ASSUME VpTyped, NEW e \in VpEnd, EndInv(e), VpCloseBegins(e)
  PROVE  EndInv(e)'
<1>1. /\ UNCHANGED <<vpEpoch, vpPeer, vpKcp, vpActor>>
      /\ vpOpen'[e] = vpOpen[e] \ {vpKcp[e]} /\ vpClose[e] = "no"
      /\ ~vpRaced'[e] => ~vpRaced[e] /\ \A g \in VpActor(e) : ~Replacing(e, g)
  BY DEF VpTyped, VpTypeOK, VpCloseBegins, vpSeen
<1>2. NotOneself(e)' /\ InHands(e)'
  BY <1>1 DEF EndInv, NotOneself, InHands, LocalEpoch, Pc
<1>3. OneReplaces(e)'
  BY <1>1 DEF OneReplaces, Replacing, Pc
<1>4. NoStray(e)'
  BY <1>1 DEF EndInv, NoStray
<1> QED
  BY <1>2, <1>3, <1>4 DEF EndInv

(* A step at one end leaves the other as it is.                            *)
LEMMA AtOneEnd ==
  ASSUME VpTyped, NEW e \in VpEnd, NEW f \in VpEnd, f # e, EndInv(f),
         \/ VpRestart(e) \/ CarrierReconnects(e) \/ VpCloseBegins(e)
         \/ \E t \in VpTracks[e] : \/ FirstPeer(e, t) \/ StartsOnce(e, t) \/ SwapsEpoch(e, t)
                                   \/ \E frame \in Epoch \cup {Foreign} : FrameArrives(e, t, frame)
         \/ \E g \in VpActor(e) : ResetTakes(e, g) \/ ResetMakes(e, g)
  PROVE  EndInv(f)'
<1> USE DEF vpLife, vpSeen, vpRuntime
<1>0. /\ vpPeer \in [VpEnd -> VpSeenEpoch] /\ vpKcp \in [VpEnd -> {0} \cup Runtime]
      /\ vpOpen \in [VpEnd -> SUBSET Runtime] /\ vpClose \in [VpEnd -> {"no", "wait", "closed"}]
      /\ vpRaced \in [VpEnd -> BOOLEAN] /\ DOMAIN vpEpoch = VpEnd /\ DOMAIN vpActor = VpEnd
  BY DEF VpTyped, VpTypeOK, VpSeenEpoch
<1> DEFINE Same == /\ vpEpoch'[f] = vpEpoch[f] /\ vpPeer'[f] = vpPeer[f] /\ vpKcp'[f] = vpKcp[f]
                   /\ vpOpen'[f] = vpOpen[f] /\ vpActor'[f] = vpActor[f] /\ vpClose'[f] = vpClose[f]
                   /\ vpRaced'[f] = vpRaced[f]
<1>1. CASE VpRestart(e)
  <2>1. Same
    BY <1>0, <1>1 DEF VpRestart
  <2> QED
    BY <2>1, OtherEnd
<1>2. CASE CarrierReconnects(e) \/ VpCloseBegins(e)
  <2>1. Same
    BY <1>0, <1>2 DEF CarrierReconnects, VpCloseBegins, VpGoto, Becomes, Raced
  <2> QED
    BY <2>1, OtherEnd
<1>3. ASSUME NEW t \in VpTracks[e], FirstPeer(e, t) \/ StartsOnce(e, t) \/ SwapsEpoch(e, t)
      PROVE  EndInv(f)'
  <2>1. Same
    BY <1>0, <1>3 DEF FirstPeer, StartsOnce, SwapsEpoch, VpGoto, Becomes, Raced
  <2> QED
    BY <2>1, OtherEnd
<1>4. ASSUME NEW t \in VpTracks[e], NEW frame \in Epoch \cup {Foreign}, FrameArrives(e, t, frame)
      PROVE  EndInv(f)'
  <2>1. Same
    BY <1>0, <1>4 DEF FrameArrives, Becomes, Raced
  <2> QED
    BY <2>1, OtherEnd
<1>5. ASSUME NEW g \in VpActor(e), ResetTakes(e, g) \/ ResetMakes(e, g)
      PROVE  EndInv(f)'
  <2>1. Same
    BY <1>0, <1>5 DEF ResetTakes, ResetMakes, Becomes
  <2> QED
    BY <2>1, OtherEnd
<1> QED
  BY <1>1, <1>2, <1>3, <1>4, <1>5

(* Every step keeps the invariant of both ends.                            *)
LEMMA VpSteps == VpInv /\ [VpNext]_vpVars => VpInv'
<1> SUFFICES ASSUME VpInv, [VpNext]_vpVars PROVE VpInv'
  OBVIOUS
<1>0. VpTyped /\ VpTyped' /\ \A e \in VpEnd : EndInv(e)
  BY VpTypedStep DEF VpInv
<1>1. CASE UNCHANGED vpVars
  <2>1. UNCHANGED <<vpEpoch, vpPeer, vpKcp, vpOpen, vpActor, vpClose, vpRaced>>
    BY <1>1 DEF vpVars, vpLife, vpSeen, vpRuntime
  <2> QED
    BY <1>0, <2>1, OtherEnd DEF VpInv
<1>2. CASE VpNext
  <2>1. PICK e \in VpEnd :
           \/ VpConnect(e) \/ VpWriterStops(e) \/ VpCloseReturns(e)
           \/ VpWrites(e) \/ VpRestart(e) \/ CarrierReconnects(e) \/ VpCloseBegins(e)
           \/ \E t \in VpTracks[e] : \/ FirstPeer(e, t) \/ StartsOnce(e, t) \/ SwapsEpoch(e, t)
                                     \/ \E frame \in Epoch \cup {Foreign} : FrameArrives(e, t, frame)
           \/ \E g \in VpActor(e) : ResetTakes(e, g) \/ ResetMakes(e, g)
    BY <1>2, VpCases
  <2>2. EndInv(e)'
    <3>1. CASE VpConnect(e) \/ VpWriterStops(e) \/ VpWrites(e) \/ VpCloseReturns(e)
      BY <1>0, <3>1, QuietEnd
    <3>2. CASE VpRestart(e)
      BY <1>0, <3>2, RestartedEnd
    <3>3. CASE CarrierReconnects(e)
      BY <1>0, <3>3, ResetEnd DEF VpActor
    <3>4. CASE VpCloseBegins(e)
      BY <1>0, <3>4, ClosedEnd
    <3>5. ASSUME NEW t \in VpTracks[e], FirstPeer(e, t) \/ StartsOnce(e, t) \/ SwapsEpoch(e, t) PROVE EndInv(e)'
      BY <1>0, <3>5, PeerEnd, OnceEnd
    <3>6. ASSUME NEW t \in VpTracks[e], NEW frame \in Epoch \cup {Foreign}, FrameArrives(e, t, frame)
          PROVE  EndInv(e)'
      BY <1>0, <3>6, ArrivedEnd
    <3>7. ASSUME NEW g \in VpActor(e), ResetTakes(e, g) \/ ResetMakes(e, g) PROVE EndInv(e)'
      BY <1>0, <3>7, ResetEnd, MadeEnd
    <3> QED
      BY <2>1, <3>1, <3>2, <3>3, <3>4, <3>5, <3>6, <3>7
  <2>3. ASSUME NEW f \in VpEnd, f # e PROVE EndInv(f)'
    BY <1>0, <2>1, <2>3, QuietEnd, AtOneEnd
  <2> QED
    BY <1>0, <2>2, <2>3 DEF VpInv
<1> QED
  BY <1>1, <1>2

(* No end takes its own epoch, or a foreign one, for its peer's: whatever  *)
(* the SFU reflects, however many processes, tracks and reconnections.     *)
THEOREM PeerIsNeverSelf == VpSpec => []VpPeerIsNotSelf
<1>1. VpInv => VpPeerIsNotSelf
  BY DEF VpInv, EndInv, NotOneself, VpPeerIsNotSelf
<1> QED
  BY <1>1, VpStarts, VpSteps, PTL DEF VpSpec

(* A runtime that nobody can close is left open only by a race: for any    *)
(* number of tracks, processes and reconnections of the carrier.           *)
THEOREM NoRuntimeStrays == VpSpec => []VpNoStrayRuntime
<1>1. VpInv => VpNoStrayRuntime
  BY DEF VpInv, EndInv, NoStray, VpNoStrayRuntime
<1> QED
  BY <1>1, VpStarts, VpSteps, PTL DEF VpSpec

-----------------------------------------------------------------------------
(* VideoPipes, for any number of tracks, payloads and timeouts.            *)

(* Until a timeout, the encoder has the picture that the writer waits for, *)
(* and nothing else.  One whose process ended keeps what it has, and is    *)
(* never started again.                                                    *)
Encoding ==
  vdTimeouts = 0 /\ vdEncAlive => vdPipe = IF vdWriter = "encode" THEN <<vdAsked>> ELSE <<>>

(* The writer is the last thing that Connect makes; after it there is no   *)
(* encoder outside its field.                                              *)
Encoder ==
  /\ vdConnect = "new" => ~vdEncAlive
  /\ vdConnect # "done" => vdPipe = <<>> /\ vdWriter = "off"
  /\ vdEncAlive => vdConnect \in {"join", "check"} \/ vdEncoder = "set"

VdInv == VdTypeOK /\ Encoding /\ Encoder /\ VdSampleIsAsked /\ VdNoStrayProcess

(* It holds before Connect.                                                *)
LEMMA VdStarts == VdInit => VdInv
<1> SUFFICES ASSUME VdInit PROVE VdInv
  OBVIOUS
<1>1. VdTypeOK
  <2>1. 0 \in Picture /\ 0 \in 0..VdTimeouts /\ 0 \in 0..VdPayloads /\ <<>> \in Seq(Picture)
    BY VdAssumption DEF Picture
  <2> QED
    BY <2>1 DEF VdInit, VdTypeOK
<1> QED
  BY <1>1 DEF VdInit, VdInv, Encoding, Encoder, VdSampleIsAsked, VdNoStrayProcess

(* The writer: pictures go into the pipe and come out of it one by one.    *)
LEMMA WriterKeeps ==
  ASSUME VdInv,
         \/ VdSample \/ VdEncodeTimeout \/ VdEncoderGone \/ VdWriterStops
         \/ \E picture \in Picture : VdTick(picture)
  PROVE  VdInv'
<1> USE DEF vdDecode
<1>1. VdNoStrayProcess'
  BY DEF VdInv, VdNoStrayProcess, VdSample, VdEncodeTimeout, VdEncoderGone, VdWriterStops, VdTick
<1>2. Encoder'
  BY DEF VdInv, Encoder, VdSample, VdEncodeTimeout, VdEncoderGone, VdWriterStops, VdTick
<1>3. CASE VdSample
  <2>1. /\ vdPipe \in Seq(Picture) /\ vdPipe # <<>> /\ vdWriter' = "run" /\ vdWriter = "encode"
        /\ vdWire' = <<vdAsked, Head(vdPipe)>> /\ vdPipe' = Tail(vdPipe)
        /\ vdIdle' = IF vdAsked = 0 THEN <<Head(vdPipe)>> ELSE vdIdle
        /\ vdAsked \in Picture /\ vdTimeouts' = vdTimeouts /\ vdEncAlive
    BY <1>3 DEF VdInv, VdTypeOK, VdSample, Cached
  <2>2. Head(vdPipe) \in Picture /\ Tail(vdPipe) \in Seq(Picture)
    BY <2>1
  <2>3. VdTypeOK'
    BY <1>3, <2>1, <2>2 DEF VdInv, VdTypeOK, VdSample
  <2>4. vdTimeouts = 0 => Head(vdPipe) = vdAsked /\ Tail(vdPipe) = <<>>
    <3>1. vdTimeouts = 0 => vdPipe = <<vdAsked>>
      BY <2>1 DEF VdInv, Encoding
    <3> QED
      BY <2>1, <3>1
  <2> QED
    BY <1>1, <1>2, <2>1, <2>3, <2>4 DEF VdInv, Encoding, VdSampleIsAsked
<1>4. ASSUME NEW picture \in Picture, VdTick(picture) PROVE VdInv'
  <2>1. vdPipe \in Seq(Picture) /\ 0 \in Picture
    BY VdAssumption DEF VdInv, VdTypeOK, Picture
  <2>2. vdSent' \in 0..VdPayloads
    BY <1>4, VdAssumption DEF VdInv, VdTypeOK, VdTick, Picture
  <2>3. CASE picture = 0 /\ vdIdle # <<>>
    <3>1. vdWire' = <<0, vdIdle[1]>> /\ UNCHANGED <<vdWriter, vdAsked, vdPipe, vdIdle, vdEncAlive, vdTimeouts>>
      BY <1>4, <2>3 DEF VdTick
    <3>2. vdIdle[1] \in Picture /\ (vdTimeouts = 0 => vdIdle[1] = 0)
      BY <2>3 DEF VdInv, VdTypeOK, VdSampleIsAsked
    <3>3. VdTypeOK'
      BY <1>4, <2>1, <2>2, <3>1, <3>2 DEF VdInv, VdTypeOK, VdTick
    <3> QED
      BY <1>1, <1>2, <3>1, <3>2, <3>3 DEF VdInv, Encoding, VdSampleIsAsked
  <2>4. CASE ~(picture = 0 /\ vdIdle # <<>>)
    <3>1. /\ vdWriter = "run" /\ vdEncAlive /\ vdWriter' = "encode" /\ vdAsked' = picture
          /\ vdPipe' = Append(vdPipe, picture) /\ UNCHANGED <<vdWire, vdIdle, vdEncAlive, vdTimeouts>>
      BY <1>4, <2>4 DEF VdTick
    <3>2. Append(vdPipe, picture) \in Seq(Picture) /\ Append(<<>>, picture) = <<picture>>
      BY <2>1
    <3>3. VdTypeOK'
      BY <1>4, <2>2, <3>1, <3>2 DEF VdInv, VdTypeOK, VdTick
    <3> QED
      BY <1>1, <1>2, <3>1, <3>2, <3>3 DEF VdInv, Encoding, VdSampleIsAsked
  <2> QED
    BY <2>3, <2>4
<1>5. CASE VdEncodeTimeout
  <2>1. vdTimeouts \in Nat /\ vdTimeouts' = vdTimeouts + 1 /\ vdTimeouts' \in 0..VdTimeouts
    BY <1>5, VdAssumption DEF VdInv, VdTypeOK, VdEncodeTimeout
  <2>2. VdTypeOK'
    BY <1>5, <2>1 DEF VdInv, VdTypeOK, VdEncodeTimeout
  <2> QED
    BY <1>1, <1>2, <2>1, <2>2 DEF VdInv, Encoding, VdSampleIsAsked
<1>6. CASE VdEncoderGone \/ VdWriterStops
  <2>1. VdTypeOK'
    BY <1>6 DEF VdInv, VdTypeOK, VdEncoderGone, VdWriterStops
  <2>2. (Encoding /\ VdSampleIsAsked)'
    BY <1>6 DEF VdInv, Encoding, VdSampleIsAsked, VdEncoderGone, VdWriterStops
  <2> QED
    BY <1>1, <1>2, <2>1, <2>2 DEF VdInv
<1> QED
  BY <1>3, <1>4, <1>5, <1>6

(* Connect, and the part of Close that ends the encoder.                   *)
LEMMA EncoderKeeps ==
  ASSUME VdInv, VdMakeEncoder \/ VdJoinStream \/ VdSetEncoder \/ VdStartWriter \/ VdCloseEncoder
  PROVE  VdInv'
<1> USE DEF vdDecode, VdCloseGoes, VdClosed
<1>1. VdTypeOK'
  BY DEF VdInv, VdTypeOK, VdMakeEncoder, VdJoinStream, VdSetEncoder, VdStartWriter, VdCloseEncoder
<1>2. VdSampleIsAsked'
  BY DEF VdInv, VdSampleIsAsked, VdMakeEncoder, VdJoinStream, VdSetEncoder, VdStartWriter, VdCloseEncoder
<1>3. (Encoding /\ Encoder)'
  <2>1. CASE VdMakeEncoder \/ VdJoinStream
    BY <2>1 DEF VdInv, Encoding, Encoder, VdMakeEncoder, VdJoinStream
  <2>2. CASE VdSetEncoder
    BY <2>2 DEF VdInv, Encoding, Encoder, VdSetEncoder
  <2>3. CASE VdStartWriter
    BY <2>3 DEF VdInv, Encoding, Encoder, VdStartWriter
  <2>4. CASE VdCloseEncoder
    BY <2>4 DEF VdInv, Encoding, Encoder, VdCloseEncoder
  <2> QED
    BY <2>1, <2>2, <2>3, <2>4
<1>4. vdEncAlive' => vdConnect' \in {"join", "check"} \/ vdClose' \in {"no", "told"}
  <2>1. CASE VdMakeEncoder \/ VdJoinStream \/ VdSetEncoder
    BY <2>1 DEF VdInv, Encoder, VdNoStrayProcess, VdMakeEncoder, VdJoinStream, VdSetEncoder
  <2>2. CASE VdStartWriter \/ VdCloseEncoder
    BY <2>2 DEF VdInv, Encoder, VdNoStrayProcess, VdStartWriter, VdCloseEncoder
  <2> QED
    BY <2>1, <2>2
<1>5. /\ UNCHANGED <<vdDecAlive, vdHandler, vdDecoder>>
      /\ vdClose' = vdClose \/ (vdClose = "told" /\ vdClose' = "decoder")
  <2>1. CASE VdMakeEncoder \/ VdJoinStream \/ VdSetEncoder
    BY <2>1 DEF VdMakeEncoder, VdJoinStream, VdSetEncoder
  <2>2. CASE VdStartWriter \/ VdCloseEncoder
    BY <2>2 DEF VdStartWriter, VdCloseEncoder
  <2> QED
    BY <2>1, <2>2
<1>6. VdNoStrayProcess'
  BY <1>4, <1>5 DEF VdInv, VdNoStrayProcess
<1> QED
  BY <1>1, <1>2, <1>3, <1>6 DEF VdInv

(* The decoders of the tracks, and the rest of Close.                      *)
LEMMA DecoderKeeps ==
  ASSUME VdInv,
         \/ VdCloseBegins \/ VdCloseDecoder \/ VdCloseReturns
         \/ \E t \in VdTrack : VdSetDecoder(t) \/ VdTrackComes(t) \/ VdPopEnds(t) \/ VdReadEnds(t)
  PROVE  VdInv'
<1> USE DEF vdDecode, vdEncode, VdCloseGoes, VdClosed, DecoderWelcome
<1>1. /\ vdHandler \in [VdTrack -> {"off", "made", "done"}] /\ vdDecAlive \in [VdTrack -> BOOLEAN]
      /\ vdPop \in [VdTrack -> {"off", "run", "done"}] /\ vdRead \in [VdTrack -> {"off", "run", "done"}]
      /\ vdDecoder \in {0} \cup VdTrack
  BY DEF VdInv, VdTypeOK
<1>2. (Encoding /\ Encoder /\ VdSampleIsAsked)'
  BY DEF VdInv, Encoding, Encoder, VdSampleIsAsked, VdCloseBegins, VdCloseDecoder, VdCloseReturns,
         VdSetDecoder, VdTrackComes, VdPopEnds, VdReadEnds
<1>3. VdTypeOK'
  <2>1. CASE VdCloseBegins \/ VdCloseDecoder \/ VdCloseReturns
    BY <2>1 DEF VdInv, VdTypeOK, VdCloseBegins, VdCloseDecoder, VdCloseReturns
  <2>2. ASSUME NEW t \in VdTrack, VdSetDecoder(t) PROVE VdTypeOK'
    <3>1. /\ vdHandler' = [vdHandler EXCEPT ![t] = "done"] /\ vdDecoder' \in {vdDecoder, t}
          /\ \/ vdDecAlive' = [vdDecAlive EXCEPT ![t] = FALSE] /\ UNCHANGED <<vdPop, vdRead>>
             \/ /\ vdDecAlive' = [u \in VdTrack |-> vdDecAlive[u] /\ u # vdDecoder]
                /\ vdPop' = [vdPop EXCEPT ![t] = "run"] /\ vdRead' = [vdRead EXCEPT ![t] = "run"]
          /\ UNCHANGED <<vdConnect, vdClose, vdEncode>>
      BY <2>2 DEF VdSetDecoder
    <3>2. vdDecAlive' \in [VdTrack -> BOOLEAN]
      <4>1. CASE vdDecAlive' = [vdDecAlive EXCEPT ![t] = FALSE]
        BY <1>1, <4>1
      <4>2. CASE vdDecAlive' = [u \in VdTrack |-> vdDecAlive[u] /\ u # vdDecoder]
        BY <4>2
      <4> QED
        BY <3>1, <4>1, <4>2
    <3>3. /\ vdPop' \in [VdTrack -> {"off", "run", "done"}] /\ vdRead' \in [VdTrack -> {"off", "run", "done"}]
          /\ vdHandler' \in [VdTrack -> {"off", "made", "done"}] /\ vdDecoder' \in {0} \cup VdTrack
      BY <1>1, <3>1
    <3> QED
      BY <3>1, <3>2, <3>3 DEF VdInv, VdTypeOK
  <2>3. ASSUME NEW t \in VdTrack, VdTrackComes(t) \/ VdPopEnds(t) \/ VdReadEnds(t) PROVE VdTypeOK'
    <3>1. /\ vdHandler' \in [VdTrack -> {"off", "made", "done"}] /\ vdDecoder' \in {0} \cup VdTrack
          /\ vdDecAlive' \in [VdTrack -> BOOLEAN]
      BY <1>1, <2>3 DEF VdTrackComes, VdPopEnds, VdReadEnds
    <3>2. vdPop' \in [VdTrack -> {"off", "run", "done"}] /\ vdRead' \in [VdTrack -> {"off", "run", "done"}]
      BY <1>1, <2>3 DEF VdTrackComes, VdPopEnds, VdReadEnds
    <3>3. UNCHANGED <<vdConnect, vdClose, vdEncode>>
      BY <2>3 DEF VdTrackComes, VdPopEnds, VdReadEnds
    <3> QED
      BY <3>1, <3>2, <3>3 DEF VdInv, VdTypeOK
  <2> QED
    BY <2>1, <2>2, <2>3
<1>4. VdNoStrayProcess'
  <2>1. CASE VdCloseBegins \/ VdCloseReturns
    BY <2>1 DEF VdInv, VdNoStrayProcess, VdCloseBegins, VdCloseReturns
  <2>2. CASE VdCloseDecoder
    BY <2>2 DEF VdInv, VdNoStrayProcess, VdCloseDecoder
  <2>3. ASSUME NEW t \in VdTrack, VdSetDecoder(t) PROVE VdNoStrayProcess'
    BY <1>1, <2>3 DEF VdInv, VdNoStrayProcess, VdSetDecoder
  <2>4. ASSUME NEW t \in VdTrack, VdTrackComes(t) PROVE VdNoStrayProcess'
    BY <1>1, <2>4 DEF VdInv, VdNoStrayProcess, VdTrackComes
  <2>5. ASSUME NEW t \in VdTrack, VdPopEnds(t) \/ VdReadEnds(t) PROVE VdNoStrayProcess'
    BY <1>1, <2>5 DEF VdInv, VdNoStrayProcess, VdPopEnds, VdReadEnds
  <2> QED
    BY <2>1, <2>2, <2>3, <2>4, <2>5
<1> QED
  BY <1>2, <1>3, <1>4 DEF VdInv

(* Every step keeps it.                                                    *)
LEMMA VdSteps == VdInv /\ [VdNext]_vdVars => VdInv'
<1> SUFFICES ASSUME VdInv, [VdNext]_vdVars PROVE VdInv'
  OBVIOUS
<1>1. CASE UNCHANGED vdVars
  BY <1>1 DEF vdVars, vdEncode, vdDecode, VdInv, VdTypeOK, Encoding, Encoder, VdSampleIsAsked, VdNoStrayProcess
<1>2. CASE VdNext
  BY <1>2, WriterKeeps, EncoderKeeps, DecoderKeeps DEF VdNext, VdProgress
<1> QED
  BY <1>1, <1>2

(* A sample of the encoder is never sent under another picture's payload,  *)
(* until EncodeFrame gives up on one: for any number of payloads.          *)
THEOREM SamplesAreAsked == VdSpec => []VdSampleIsAsked
<1>1. VdInv => VdSampleIsAsked
  BY DEF VdInv
<1> QED
  BY <1>1, VdStarts, VdSteps, PTL DEF VdSpec

(* Close and Connect, the handlers and the loops leave no ffmpeg process   *)
(* behind, for any number of remote tracks.                                *)
THEOREM NoProcessIsLeft == VdSpec => []VdNoStrayProcess
<1>1. VdInv => VdNoStrayProcess
  BY DEF VdInv
<1> QED
  BY <1>1, VdStarts, VdSteps, PTL DEF VdSpec

=============================================================================
