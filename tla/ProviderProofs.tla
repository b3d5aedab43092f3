--------------------------- MODULE ProviderProofs ---------------------------
(***************************************************************************)
(* The Jazz peer keeps the order of what it sends, the WB Stream peer      *)
(* tells its owner no end that the owner made, and the Telemost peer       *)
(* leaves no connection behind and loses no more messages than its workers *)
(* held: for queues of any length and any number of messages, of workers   *)
(* and of reconnections.                                                   *)
(***************************************************************************)
EXTENDS MCProviders, FiniteSetTheorems, TLAPS

-----------------------------------------------------------------------------
(* WB Stream.                                                              *)

(* The flag is set before the room is left, so its callback, if it goes on *)
(* after the test of the flag, is the one of a room that was lost.         *)
WbInv ==
  /\ WbTypeOK
  /\ wbClosed = (wbClose # "no")
  /\ wbEnding = "run" => wbRoom = "lost"
  /\ wbConnect \notin {"done", "failed"} => wbRoom = "none"
  /\ wbSender = "put" => wbCalls > 0
  /\ WbEndIsNews

(* Before Connect WbInv holds.                                             *)
LEMMA WbStarts == WbInit => WbInv
<1> SUFFICES ASSUME WbInit PROVE WbInv
  OBVIOUS
<1>1. {wbAny, wbEnded, wbClosed, wbLate} \subseteq BOOLEAN
  BY DEF WbInit
<1>2. wbCalls \in 0..WbMessages /\ wbSent \in Seq(1..WbMessages) /\ wbQueue \in Seq(1..WbMessages)
      /\ Len(wbQueue) <= WbCapacity
  BY WbAssumption DEF WbInit
<1>3. WbTypeOK
  BY <1>1, <1>2 DEF WbInit, WbTypeOK
<1> QED
  BY <1>3 DEF WbInit, WbInv, WbEndIsNews

(* Each step of wbstream keeps WbInv.                                      *)
LEMMA WbSteps == WbInv /\ [WbNext]_wbVars => WbInv'
<1> SUFFICES ASSUME WbInv, [WbNext]_wbVars PROVE WbInv'
  OBVIOUS
<1> USE WbAssumption DEF WbInv, WbTypeOK, WbEndIsNews, wbRoomSide, wbEnd, wbSending
<1>1. CASE WbConnect
  BY <1>1 DEF WbConnect
<1>2. CASE WbRegisterGuest \/ WbCreateRoom \/ WbJoinRoom \/ WbGetToken
  <2>1. wbConnect \notin {"done", "failed"}
        /\ wbConnect' \in {"guest", "create", "join", "token", "room", "failed"}
    BY <1>2 DEF WbRegisterGuest, WbCreateRoom, WbJoinRoom, WbGetToken, WbRequest
  <2>2. UNCHANGED <<wbAny, wbRoom, wbLate, wbEnding, wbEnded, wbClose, wbClosed, wbSender, wbCalls,
                    wbQueue, wbSent, wbWorker>>
    BY <1>2 DEF WbRegisterGuest, WbCreateRoom, WbJoinRoom, WbGetToken, WbRequest
  <2> QED
    BY <2>1, <2>2
<1>3. CASE WbEnterRoom
  <2>1. wbRoom = "none" /\ wbEnding # "run" /\ ~wbEnded
    BY <1>3 DEF WbEnterRoom
  <2>2. UNCHANGED <<wbAny, wbEnding, wbEnded, wbClose, wbClosed, wbSender, wbCalls, wbQueue, wbSent>>
        /\ wbConnect' \in {"done", "failed"}
    BY <1>3 DEF WbEnterRoom
  <2>3. CASE UNCHANGED <<wbRoom, wbWorker, wbLate>>
    BY <2>1, <2>2, <2>3
  <2>4. CASE wbRoom' = "up" /\ wbLate' = (wbClose \in {"left", "wait", "closed"})
    <3>1. wbWorker' \in {wbWorker, "run"}
      BY <1>3 DEF WbEnterRoom
    <3>2. wbLate' \in BOOLEAN
      BY <2>4
    <3>3. {wbAny, wbEnded, wbClosed, wbLate}' \subseteq BOOLEAN
      BY <2>2, <3>2
    <3>4. WbTypeOK'
      BY <2>2, <2>4, <3>1, <3>3
    <3>5. WbEndIsNews'
      BY <2>1, <2>2, <2>4
    <3> QED
      BY <2>1, <2>2, <3>4, <3>5
  <2> QED
    BY <1>3, <2>3, <2>4 DEF WbEnterRoom
<1>4. CASE WbRoomLost
  BY <1>4 DEF WbRoomLost
<1>5. CASE WbCallsEnded
  BY <1>5 DEF WbCallsEnded
<1>6. CASE WbSendTests
  BY <1>6 DEF WbSendTests
<1>7. CASE WbSendPuts
  <2>1. wbQueue' \in {wbQueue, WbWith(wbCalls)} /\ wbSender' \in {"idle", "panic"}
    BY <1>7 DEF WbSendPuts
  <2>2. wbCalls \in 1..WbMessages
    BY <1>7 DEF WbSendPuts
  <2>3. WbWith(wbCalls) \in Seq(1..WbMessages) /\ Len(WbWith(wbCalls)) <= WbCapacity
    <3>1. CASE Len(wbQueue) = WbCapacity
      BY <3>1 DEF WbWith
    <3>2. CASE Len(wbQueue) # WbCapacity
      <4>1. WbWith(wbCalls) = Append(wbQueue, wbCalls)
        BY <3>2 DEF WbWith
      <4>2. Len(wbQueue) \in Nat /\ Len(wbQueue) < WbCapacity
        BY <3>2
      <4> QED
        BY <2>2, <4>1, <4>2
    <3> QED
      BY <3>1, <3>2
  <2>4. UNCHANGED <<wbAny, wbConnect, wbRoom, wbLate, wbEnding, wbEnded, wbClose, wbClosed, wbCalls,
                    wbSent, wbWorker>>
    BY <1>7 DEF WbSendPuts
  <2>5. wbQueue' \in Seq(1..WbMessages) /\ Len(wbQueue') <= WbCapacity
    BY <2>1, <2>3
  <2> QED
    BY <2>1, <2>4, <2>5
<1>8. CASE WbWorkerPublishes
  <2>1. wbQueue' \in Seq(1..WbMessages) /\ Len(wbQueue') <= WbCapacity
    BY <1>8 DEF WbWorkerPublishes
  <2>2. wbSent' \in Seq(1..WbMessages)
    <3>1. Head(wbQueue) \in 1..WbMessages
      BY <1>8 DEF WbWorkerPublishes
    <3>2. wbSent' \in {wbSent, Append(wbSent, Head(wbQueue))}
      BY <1>8 DEF WbWorkerPublishes
    <3>3. wbSent \in Seq(1..WbMessages)
      OBVIOUS
    <3>4. \A q, m : q \in Seq(1..WbMessages) /\ m \in 1..WbMessages => Append(q, m) \in Seq(1..WbMessages)
      OBVIOUS
    <3> QED
      BY ONLY <3>1, <3>2, <3>3, <3>4
  <2>3. UNCHANGED <<wbAny, wbConnect, wbRoom, wbLate, wbEnding, wbEnded, wbClose, wbClosed, wbSender,
                    wbCalls, wbWorker>>
    BY <1>8 DEF WbWorkerPublishes
  <2> QED
    BY <2>1, <2>2, <2>3
<1>9. CASE WbWorkerStops
  BY <1>9 DEF WbWorkerStops
<1>10. CASE WbCloseBegins
  BY <1>10 DEF WbCloseBegins, WbCloseGoes, WbClosedByNow
<1>11. CASE WbCloseLeaves
  BY <1>11 DEF WbCloseLeaves, WbCloseGoes, WbClosedByNow
<1>12. CASE WbCloseShutsQueue
  BY <1>12 DEF WbCloseShutsQueue, WbCloseGoes, WbClosedByNow
<1>13. CASE WbCloseReturns
  BY <1>13 DEF WbCloseReturns, WbCloseGoes, WbClosedByNow
<1>14. CASE UNCHANGED wbVars
  BY <1>14 DEF wbVars
<1> QED
  BY <1>1, <1>2, <1>3, <1>4, <1>5, <1>6, <1>7, <1>8, <1>9, <1>10, <1>11, <1>12, <1>13, <1>14 DEF WbNext

(* The WB Stream peer reports an end only of a room it has lost, whatever  *)
(* Close, Send, Connect and the callback of the room interleave to, and    *)
(* its Close leaves no room unless Connect entered one behind its back.    *)
THEOREM EndIsNews == WbSpec => []WbEndIsNews
<1>1. WbInv => WbEndIsNews
  BY DEF WbInv
<1> QED
  BY <1>1, WbStarts, WbSteps, PTL DEF WbSpec

-----------------------------------------------------------------------------
(* Jazz.                                                                   *)

(* The worker that OnOpen starts.                                          *)
Only == CHOOSE w \in JzWorkers : TRUE

(* Messages that have left the queue: the first ones, as many as this.     *)
Taken == jzAccepted - Len(jzQueue)
Came(n) == n \in JzOversized \/ \E i \in 1..Len(jzSent) : jzSent[i] = n

(* No other worker ever starts, and none before the data channel is open.  *)
OneWorker ==
  /\ \A w \in JzWorkers :
       /\ w # Only => jzWorker[w] = "off"
       /\ jzHolds[w] # 0 => jzWorker[w] = "run"
       /\ jzDc \in {"none", "new"} => jzWorker[w] = "off"
       /\ jzWorker[w] = "run" => w = Only
  /\ jzOwner = "new" => jzDc = "none"
  /\ (\A w \in JzWorkers : jzWorker[w] = "off") => Taken = 0

(* The queue holds the messages that follow.                               *)
QueueFollows ==
  /\ Taken \in Nat
  /\ \A i \in 1..Len(jzQueue) : jzQueue[i] = Taken + i

(* What the worker holds is the last message taken and not yet sent.       *)
SentBefore ==
  /\ \A i \in 1..Len(jzSent) : jzSent[i] <= Taken
  /\ \A w \in JzWorkers : jzHolds[w] # 0 =>
       jzHolds[w] = Taken /\ \A i \in 1..Len(jzSent) : jzSent[i] < Taken

(* As long as the worker runs nothing but oversized messages is skipped.   *)
NoGap ==
  \A w \in JzWorkers : jzWorker[w] = "run" =>
    \A n \in 1..Taken : Came(n) \/ n = jzHolds[w]

Increasing == \A i, j \in 1..Len(jzSent) : i < j => jzSent[i] < jzSent[j]
Complete == \A i \in 1..Len(jzSent), n \in JzMessage : n < jzSent[i] => Came(n)

JzInv ==
  /\ JzTypeOK /\ OneWorker /\ QueueFollows /\ SentBefore /\ NoGap /\ Increasing /\ Complete

(* Before Connect JzInv holds.                                             *)
LEMMA JzStarting == JzInit => JzInv
<1> SUFFICES ASSUME JzInit PROVE JzInv
  OBVIOUS
<1>1. {jzMedia, jzClosed, jzCloseCh, jzReconnectCh, jzCtx} \subseteq BOOLEAN
  BY DEF JzInit
<1>2. jzQueue \in Seq(JzMessage) /\ jzAccepted \in 0..JzMessages /\ jzSent \in Seq(JzMessage)
  BY JzAssumption DEF JzInit
<1>3. JzTypeOK
  BY <1>1, <1>2 DEF JzInit, JzTypeOK, JzObject
<1>4. Taken = 0 /\ Len(jzQueue) = 0 /\ Len(jzSent) = 0
  <2>1. jzAccepted = 0 /\ jzQueue = <<>> /\ jzSent = <<>>
    BY DEF JzInit
  <2>2. Len(jzQueue) = 0 /\ Len(jzSent) = 0 /\ jzAccepted = 0
    BY <2>1
  <2> QED
    BY <2>2 DEF Taken
<1>5. OneWorker
  BY <1>4 DEF JzInit, OneWorker
<1>6. QueueFollows /\ SentBefore /\ NoGap /\ Increasing /\ Complete
  BY <1>4 DEF JzInit, QueueFollows, SentBefore, NoGap, Increasing, Complete
<1> QED
  BY <1>3, <1>5, <1>6 DEF JzInv

(* Steps that leave the queue, the workers and what they sent alone.       *)
LEMMA Elsewhere ==
  ASSUME JzInv, JzTypeOK', UNCHANGED jzSend,
         jzDc' \in {"none", "new"} => jzDc \in {"none", "new"},
         jzOwner' = "new" => jzOwner = "new" /\ jzDc' = jzDc
  PROVE  JzInv'
BY DEF JzInv, JzTypeOK, OneWorker, QueueFollows, SentBefore, NoGap, Increasing, Complete, Taken, Came,
   jzSend, jzData

(* Each step of jazz keeps its types.                                      *)
LEMMA JzTyped == JzTypeOK /\ OneWorker /\ [JzNext]_jzVars => JzTypeOK'
<1> SUFFICES ASSUME JzTypeOK, OneWorker, [JzNext]_jzVars PROVE JzTypeOK'
  OBVIOUS
<1> USE JzAssumption DEF JzTypeOK, JzObject, JzMessage, jzLink, jzData, jzSend, jzFlags, JzQueued
<1>1. CASE JzConnect
  BY <1>1 DEF JzConnect
<1>2. CASE JzDialWebSocket \/ JzSendJoin \/ JzWaitForReady
  BY <1>2 DEF JzDialWebSocket, JzSendJoin, JzWaitForReady
<1>3. CASE JzSubscriberOffer \/ JzPublisherAnswer \/ JzSubscriberUp \/ JzPublisherUp
  BY <1>3 DEF JzSubscriberOffer, JzPublisherAnswer, JzSubscriberUp, JzPublisherUp, JzSignal, JzReads
<1>4. CASE JzDataChannelOpens
  BY <1>4 DEF JzDataChannelOpens
<1>5. CASE JzSubscriberFails \/ JzPublisherFails \/ JzWebSocketFails \/ JzReaderFails
  BY <1>5 DEF JzSubscriberFails, JzPublisherFails, JzWebSocketFails, JzReaderFails
<1>6. CASE JzSend
  BY <1>6 DEF JzSend
<1>7. ASSUME NEW w \in JzWorkers, JzTakes(w)
      PROVE  JzTypeOK'
  BY <1>7 DEF JzTakes
<1>8. ASSUME NEW w \in JzWorkers, JzSends(w)
      PROVE  JzTypeOK'
  BY <1>8 DEF JzSends
<1>9. ASSUME NEW w \in JzWorkers, JzSendFails(w) \/ JzWorkerStops(w)
      PROVE  JzTypeOK'
  BY <1>9 DEF JzSendFails, JzWorkerStops
<1>10. CASE JzWatchTakes \/ JzWatchEnds \/ JzCancel
  BY <1>10 DEF JzWatchTakes, JzWatchEnds, JzCancel
<1>11. CASE JzCloseBegins \/ JzCloseWaits \/ JzCloseTearsDown
  BY <1>11 DEF JzCloseBegins, JzCloseWaits, JzCloseTearsDown, JzShut, JzWsClosed
<1>12. CASE UNCHANGED jzVars
  BY <1>12 DEF jzVars
<1> QED
  BY <1>1, <1>2, <1>3, <1>4, <1>5, <1>6, <1>7, <1>8, <1>9, <1>10, <1>11, <1>12 DEF JzNext, JzProgress

(* An accepted message goes to the end of the queue.                       *)
LEMMA SendKeeps == ASSUME JzInv, JzSend, JzTypeOK' PROVE JzInv'
<1>1. jzQueue \in Seq(JzMessage) /\ jzAccepted \in Nat /\ jzQueue' = Append(jzQueue, jzAccepted + 1)
      /\ jzAccepted' = jzAccepted + 1
  BY JzAssumption DEF JzInv, JzTypeOK, JzSend
<1>2. UNCHANGED <<jzWorker, jzHolds, jzSent, jzDc, jzOwner>>
  BY DEF JzSend, jzLink
<1>3. Taken' = Taken /\ Taken \in Nat
  BY <1>1 DEF Taken, JzInv, QueueFollows
<1>4. QueueFollows'
  BY <1>1, <1>3 DEF JzInv, QueueFollows, Taken
<1>5. OneWorker' /\ SentBefore' /\ NoGap' /\ Increasing' /\ Complete'
  BY <1>2, <1>3 DEF JzInv, OneWorker, SentBefore, NoGap, Increasing, Complete, Came
<1> QED
  BY <1>4, <1>5 DEF JzInv

(* The worker takes the message that follows those it has sent.            *)
LEMMA TakeKeeps == ASSUME JzInv, NEW w \in JzWorkers, JzTakes(w), JzTypeOK' PROVE JzInv'
<1>1. jzQueue \in Seq(JzMessage) /\ jzQueue # <<>> /\ jzQueue' = Tail(jzQueue) /\ jzAccepted \in Nat
  BY JzAssumption DEF JzInv, JzTypeOK, JzTakes
<1>2. UNCHANGED <<jzWorker, jzAccepted, jzSent, jzDc, jzOwner>>
  BY DEF JzTakes, jzLink
<1>3. Taken' = Taken + 1 /\ Taken \in Nat /\ Head(jzQueue) = Taken + 1
  BY <1>1, <1>2 DEF Taken, JzInv, QueueFollows
<1>4. /\ w = Only /\ jzWorker[w] = "run" /\ jzHolds[w] = 0
      /\ jzHolds'[w] = IF Taken + 1 \in JzOversized THEN 0 ELSE Taken + 1
      /\ \A v \in JzWorkers : v # w => jzHolds'[v] = jzHolds[v] /\ jzHolds[v] = 0
  BY <1>3 DEF JzTakes, JzInv, JzTypeOK, OneWorker
<1>5. OneWorker'
  BY <1>2, <1>4 DEF JzInv, OneWorker
<1>6. QueueFollows'
  BY <1>1, <1>3 DEF JzInv, QueueFollows
<1>7. SentBefore'
  <2>1. \A i \in 1..Len(jzSent) : jzSent[i] \in Nat /\ jzSent[i] <= Taken
    <3>1. jzSent \in Seq(JzMessage) /\ SentBefore
      BY DEF JzInv, JzTypeOK
    <3>2. \A i \in 1..Len(jzSent) : jzSent[i] \in JzMessage
      BY <3>1
    <3> QED
      BY <3>1, <3>2 DEF SentBefore, JzMessage
  <2>2. \A v \in JzWorkers : jzHolds'[v] # 0 => jzHolds'[v] = Taken + 1
    BY <1>4
  <2> QED
    BY <1>2, <1>3, <2>1, <2>2 DEF SentBefore
<1>8. NoGap'
  <2> SUFFICES ASSUME NEW n \in 1..(Taken + 1) PROVE Came(n)' \/ n = jzHolds'[w]
    BY <1>2, <1>3, <1>4 DEF JzInv, OneWorker, NoGap
  <2>1. Came(n)' = Came(n)
    BY <1>2 DEF Came
  <2>2. CASE n = Taken + 1
    BY <1>4, <2>2, <2>1 DEF Came
  <2>3. CASE n \in 1..Taken
    BY <1>3, <1>4, <2>3, <2>1 DEF JzInv, NoGap
  <2> QED
    BY <1>3, <2>2, <2>3
<1>9. Increasing' /\ Complete'
  BY <1>2 DEF JzInv, Increasing, Complete, Came
<1> QED
  BY <1>5, <1>6, <1>7, <1>8, <1>9 DEF JzInv

(* What it held was the last message taken, and it goes to the channel.    *)
LEMMA ChannelKeeps == ASSUME JzInv, NEW w \in JzWorkers, JzSends(w), JzTypeOK' PROVE JzInv'
<1> DEFINE held == jzHolds[w]
<1>1. /\ jzSent \in Seq(JzMessage) /\ jzSent' = Append(jzSent, held) /\ held \in JzMessage
      /\ held = Taken /\ Taken \in Nat
  BY DEF JzInv, JzTypeOK, JzSends, SentBefore, QueueFollows
<1>2. UNCHANGED <<jzWorker, jzQueue, jzAccepted, jzDc, jzOwner>> /\ Taken' = Taken
  BY DEF JzSends, jzLink, Taken
<1>3. /\ w = Only /\ jzWorker[w] = "run"
      /\ \A v \in JzWorkers : jzHolds'[v] = 0
  BY DEF JzSends, JzInv, JzTypeOK, OneWorker
<1>4. /\ Len(jzSent') = Len(jzSent) + 1 /\ Len(jzSent) \in Nat /\ jzSent'[Len(jzSent) + 1] = held
      /\ \A i \in 1..Len(jzSent) : jzSent'[i] = jzSent[i] /\ jzSent[i] < held /\ jzSent[i] \in Nat
  <2>1. \A i \in 1..Len(jzSent) : jzSent[i] < held
    BY DEF JzInv, SentBefore, JzSends
  <2> HIDE DEF held
  <2>2. /\ Len(jzSent') = Len(jzSent) + 1 /\ Len(jzSent) \in Nat /\ jzSent'[Len(jzSent) + 1] = held
        /\ \A i \in 1..Len(jzSent) : jzSent'[i] = jzSent[i] /\ jzSent[i] \in JzMessage
    BY <1>1
  <2> QED
    BY <2>1, <2>2 DEF JzMessage
<1>5. OneWorker' /\ QueueFollows'
  BY <1>2, <1>3 DEF JzInv, OneWorker, QueueFollows
<1>6. SentBefore'
  BY <1>1, <1>2, <1>3, <1>4 DEF SentBefore
<1>7. \A n : Came(n) \/ n = held => Came(n)'
  BY <1>4 DEF Came
<1>8. \A n \in 1..Taken : Came(n)'
  BY <1>3, <1>7 DEF JzInv, NoGap
<1>9. NoGap'
  BY <1>2, <1>8 DEF NoGap
<1>10. Increasing'
  <2> SUFFICES ASSUME NEW i \in 1..Len(jzSent'), NEW j \in 1..Len(jzSent'), i < j
               PROVE  jzSent'[i] < jzSent'[j]
    BY DEF Increasing
  <2>1. i \in 1..Len(jzSent)
    BY <1>4
  <2>2. CASE j \in 1..Len(jzSent)
    BY <1>4, <2>1, <2>2 DEF JzInv, Increasing
  <2>3. CASE j = Len(jzSent) + 1
    BY <1>4, <2>1, <2>3
  <2> QED
    BY <1>4, <2>2, <2>3
<1>11. Complete'
  <2> SUFFICES ASSUME NEW i \in 1..Len(jzSent'), NEW n \in JzMessage, n < jzSent'[i] PROVE Came(n)'
    BY DEF Complete
  <2>1. n \in 1..Taken
    BY <1>1, <1>4 DEF JzMessage
  <2> QED
    BY <1>8, <2>1
<1> QED
  BY <1>5, <1>6, <1>9, <1>10, <1>11 DEF JzInv

(* A worker that ends sends no more.                                       *)
LEMMA StopKeeps ==
  ASSUME JzInv, NEW w \in JzWorkers, JzSendFails(w) \/ JzWorkerStops(w), JzTypeOK' PROVE JzInv'
<1>1. UNCHANGED <<jzQueue, jzAccepted, jzSent, jzDc, jzOwner>> /\ Taken' = Taken
  BY DEF JzSendFails, JzWorkerStops, jzLink, jzData, Taken
<1>2. /\ w = Only /\ jzWorker[w] = "run" /\ jzWorker'[w] = "done" /\ jzHolds'[w] = 0
      /\ \A v \in JzWorkers : v # w => jzWorker'[v] = jzWorker[v] /\ jzHolds'[v] = jzHolds[v]
  BY DEF JzSendFails, JzWorkerStops, JzInv, JzTypeOK, OneWorker
<1>3. OneWorker'
  BY <1>1, <1>2 DEF JzInv, OneWorker
<1>4. QueueFollows' /\ SentBefore' /\ Increasing' /\ Complete'
  BY <1>1, <1>2 DEF JzInv, QueueFollows, SentBefore, Increasing, Complete, Came
<1>5. NoGap'
  BY <1>1, <1>2 DEF JzInv, NoGap, Came, OneWorker
<1> QED
  BY <1>3, <1>4, <1>5 DEF JzInv

(* Each step of jazz keeps JzInv.                                          *)
LEMMA JzSteps == JzInv /\ [JzNext]_jzVars => JzInv'
<1> SUFFICES ASSUME JzInv, [JzNext]_jzVars PROVE JzInv'
  OBVIOUS
<1>0. JzTypeOK'
  BY JzTyped DEF JzInv
<1> USE DEF jzLink, jzFlags, JzQueued
<1>1. CASE JzConnect
  BY <1>0, <1>1, Elsewhere DEF JzConnect, JzInv, OneWorker
<1>2. CASE JzDialWebSocket \/ JzSendJoin \/ JzWaitForReady
  BY <1>0, <1>2, Elsewhere DEF JzDialWebSocket, JzSendJoin, JzWaitForReady
<1>3. CASE JzSubscriberOffer \/ JzPublisherAnswer \/ JzSubscriberUp \/ JzPublisherUp
  BY <1>0, <1>3, Elsewhere
     DEF JzSubscriberOffer, JzPublisherAnswer, JzSubscriberUp, JzPublisherUp, JzSignal, JzReads
<1>4. CASE JzSubscriberFails \/ JzWebSocketFails \/ JzReaderFails
  BY <1>0, <1>4, Elsewhere DEF JzSubscriberFails, JzWebSocketFails, JzReaderFails
<1>13. CASE JzPublisherFails
  BY <1>0, <1>13, Elsewhere DEF JzPublisherFails, JzInv, OneWorker
<1>5. CASE JzWatchTakes \/ JzWatchEnds \/ JzCancel
  BY <1>0, <1>5, Elsewhere DEF JzWatchTakes, JzWatchEnds, JzCancel
<1>6. CASE JzCloseBegins \/ JzCloseWaits \/ JzCloseTearsDown
  BY <1>0, <1>6, Elsewhere DEF JzCloseBegins, JzCloseWaits, JzCloseTearsDown, JzShut, JzWsClosed
<1>7. CASE UNCHANGED jzVars
  BY <1>0, <1>7, Elsewhere DEF jzVars
<1>8. CASE JzDataChannelOpens
  <2>1. \A w \in JzWorkers :
          jzWorker[w] = "off" /\ jzHolds[w] = 0 /\ jzWorker'[w] = IF w = Only THEN "run" ELSE "off"
    BY <1>8 DEF JzDataChannelOpens, JzStarts, Only, JzInv, OneWorker
  <2>2. Taken = 0 /\ UNCHANGED <<jzHolds, jzQueue, jzAccepted, jzSent, jzOwner>> /\ jzDc' = "up"
        /\ jzDc = "new"
    BY <1>8, <2>1 DEF JzDataChannelOpens, JzInv, OneWorker, jzData
  <2>3. OneWorker'
    BY <2>1, <2>2 DEF JzInv, OneWorker, Taken
  <2>4. QueueFollows' /\ SentBefore' /\ NoGap' /\ Increasing' /\ Complete'
    BY <2>1, <2>2 DEF JzInv, QueueFollows, SentBefore, NoGap, Increasing, Complete, Taken, Came
  <2> QED
    BY <1>0, <2>3, <2>4 DEF JzInv
<1>9. CASE JzSend
  BY <1>0, <1>9, SendKeeps
<1>10. ASSUME NEW w \in JzWorkers, JzTakes(w)
       PROVE  JzInv'
  BY <1>0, <1>10, TakeKeeps
<1>11. ASSUME NEW w \in JzWorkers, JzSends(w)
       PROVE  JzInv'
  BY <1>0, <1>11, ChannelKeeps
<1>12. ASSUME NEW w \in JzWorkers, JzSendFails(w) \/ JzWorkerStops(w)
       PROVE  JzInv'
  BY <1>0, <1>12, StopKeeps
<1> QED
  BY <1>1, <1>2, <1>3, <1>4, <1>5, <1>6, <1>7, <1>8, <1>9, <1>10, <1>11, <1>12,
     <1>13 DEF JzNext, JzProgress

(* Whatever fails and whenever it is closed, the Jazz peer gives the data  *)
(* channel what Send accepted, in that order, and with no gap but for what *)
(* is too long.                                                            *)
THEOREM SentInOrder == JzSpec => []JzInOrder
<1>1. JzInv => JzInOrder
  <2> SUFFICES ASSUME JzTypeOK, Increasing, Complete PROVE JzInOrder
    BY DEF JzInv
  <2>1. jzSent \in Seq(JzMessage)
    BY DEF JzTypeOK
  <2> QED
    BY <2>1 DEF Increasing, Complete, Came, JzInOrder
<1> QED
  BY <1>1, JzStarting, JzSteps, PTL DEF JzSpec

-----------------------------------------------------------------------------
(* Telemost.                                                               *)

Dead(c) == Closed(c) /\ Over(c)

TmTypes ==
  /\ tmPc \in [owner : OwnerPc, watcher : WatcherPc]
  /\ tmNow \in Nat /\ tmConn \in [TmConn -> Conn]
  /\ tmQueue \in Seq(TmMessage) /\ tmAccepted \in 0..TmMessages

(* Only one of owner and watcher can be in Connect, the owner before there *)
(* is a watcher.                                                           *)
OneConnects ==
  /\ tmPc.owner \in {"new", "dial", "await", "failed"} => tmPc.watcher = "off"
  /\ tmPc.owner = "new" <=> tmNow = 0
  /\ tmNow # 0 => tmNow \in TmConn

(* All connections but the current one are dead, and so is the current one *)
(* when reconnect is about to replace it.                                  *)
OthersDead ==
  /\ \A s \in TmConn : s # tmNow => Dead(tmConn[s])
  /\ tmPc.watcher \in {"down", "informed"} => Closed(tmConn[tmNow])
  /\ tmPc.watcher = "informed" => Over(tmConn[tmNow])

Released == tmPc.owner \in {"waiting", "closed"} /\ ~tmLate => Closed(tmConn[tmNow])

TmInv == TmTypes /\ OneConnects /\ OthersDead /\ Released

(* Before Connect TmInv holds.                                             *)
LEMMA TmStarts == TmInit => TmInv
<1> SUFFICES ASSUME TmInit PROVE TmInv
  OBVIOUS
<1>1. NoConn \in Conn /\ Dead(NoConn)
  BY DEF NoConn, Conn, Link, Routine, Dead, Closed, Over, WorkersOver
<1>2. tmPc.owner = "new" /\ tmPc.watcher = "off" /\ tmPc \in [owner : OwnerPc, watcher : WatcherPc]
  BY DEF TmInit, OwnerPc, WatcherPc
<1>3. tmQueue \in Seq(TmMessage) /\ tmAccepted \in 0..TmMessages
  BY TmAssumption DEF TmInit
<1> QED
  BY <1>1, <1>2, <1>3 DEF TmInit, TmInv, TmTypes, OneConnects, OthersDead, Released

(* One of the two goes on.                                                 *)
LEMMA Gone ==
  ASSUME TmTypes, NEW who \in {"owner", "watcher"}, NEW where, TmGoto(who, where),
         where \in (IF who = "owner" THEN OwnerPc ELSE WatcherPc)
  PROVE  /\ tmPc' \in [owner : OwnerPc, watcher : WatcherPc]
         /\ who = "owner" => tmPc'.owner = where /\ tmPc'.watcher = tmPc.watcher
         /\ who = "watcher" => tmPc'.watcher = where /\ tmPc'.owner = tmPc.owner
BY DEF TmTypes, TmGoto

(* Steps that touch no connection and open none.                           *)
LEMMA NoneMoves ==
  ASSUME TmInv, UNCHANGED <<tmConn, tmNow>>, tmLate => tmLate',
         tmPc' \in [owner : OwnerPc, watcher : WatcherPc],
         tmQueue' \in Seq(TmMessage), tmAccepted' \in 0..TmMessages,
         tmPc'.owner \in {"new", "dial", "await", "failed"} => tmPc'.watcher = "off",
         tmPc'.owner = "new" <=> tmPc.owner = "new",
         tmPc'.watcher \in {"down", "informed"} => tmPc.watcher \in {"down", "informed"},
         tmPc'.watcher = "informed" => tmPc.watcher = "informed" \/ Over(tmConn[tmNow]),
         tmPc'.owner \in {"waiting", "closed"} => tmPc.owner \in {"waiting", "closed"}
  PROVE  TmInv'
BY DEF TmInv, TmTypes, OneConnects, OthersDead, Released, Dead, Closed, Over, WorkersOver

(* Steps of one connection that is not opened again by them.               *)
LEMMA OneMoves ==
  ASSUME TmInv, NEW s \in TmConn, tmConn' \in [TmConn -> Conn], UNCHANGED <<tmPc, tmNow, tmLate>>,
         tmQueue' \in Seq(TmMessage), tmAccepted' \in 0..TmMessages,
         \A r \in TmConn : r # s => tmConn'[r] = tmConn[r],
         Closed(tmConn[s]) => Closed(tmConn'[s]),
         Dead(tmConn[s]) => Over(tmConn'[s])
  PROVE  TmInv'
<1>1. \A r \in TmConn : /\ Closed(tmConn[r]) => Closed(tmConn'[r])
                        /\ Dead(tmConn[r]) => Dead(tmConn'[r])
  <2> SUFFICES ASSUME NEW r \in TmConn
               PROVE  /\ Closed(tmConn[r]) => Closed(tmConn'[r])
                      /\ Dead(tmConn[r]) => Dead(tmConn'[r])
    OBVIOUS
  <2>1. CASE r = s
    BY <2>1 DEF Dead
  <2>2. CASE r # s
    <3>1. tmConn'[r] = tmConn[r]
      BY <2>2
    <3> QED
      BY <3>1 DEF Dead, Closed, Over, WorkersOver
  <2> QED
    BY <2>1, <2>2
<1>2. tmPc.watcher # "off" \/ tmPc.owner \in {"waiting", "closed"} => tmNow \in TmConn
  BY DEF TmInv, OneConnects
<1>3. TmTypes' /\ OneConnects'
  BY DEF TmInv, TmTypes, OneConnects
<1>4. OthersDead'
  BY <1>1, <1>2 DEF TmInv, OthersDead, Dead
<1>5. Released'
  BY <1>1, <1>2 DEF TmInv, Released
<1> QED
  BY <1>3, <1>4, <1>5 DEF TmInv

(* Steps of the owner and of the watcher beside Connect and the teardowns. *)
Talk ==
  \/ \E who \in {"owner", "watcher"} : AwaitReady(who) \/ AwaitFails(who)
  \/ TelemetryEnds \/ TmSend \/ TmCancel \/ CloseBegins \/ LeaveAnswered \/ CloseReturns
  \/ WatchEnds \/ ReconnectAttempt \/ ReconnectAgain \/ ReconnectInforms \/ ReconnectDone
  \/ \E s \in TmConn : ServerHello(s)

(* These steps neither open nor close anything.                            *)
LEMMA TalkKeeps == ASSUME TmInv, Talk PROVE TmInv'
<1> USE DEF tmFlags, tmTele, tmData, tmWorld, tmHistory, At
<1>0. TmTypes /\ OneConnects
  BY DEF TmInv
<1>1. ASSUME NEW who \in {"owner", "watcher"}, AwaitReady(who)
      PROVE  TmInv'
  <2>1. UNCHANGED <<tmConn, tmNow, tmLate, tmQueue, tmAccepted>>
    BY <1>1 DEF AwaitReady
  <2>2. CASE who = "owner"
    <3>1. tmPc.owner = "await" /\ tmPc' = [owner |-> "up", watcher |-> "watch"]
      BY <1>1, <2>2 DEF AwaitReady
    <3> QED
      BY <1>0, <2>1, <3>1, NoneMoves DEF OwnerPc, WatcherPc, TmTypes
  <2>3. CASE who = "watcher"
    <3>1. tmPc.watcher = "await" /\ TmGoto("watcher", "restored")
      BY <1>1, <2>3 DEF AwaitReady, TmGoto
    <3> QED
      BY <1>0, <2>1, <3>1, NoneMoves, Gone DEF WatcherPc, TmTypes, OneConnects
  <2> QED
    BY <2>2, <2>3
<1>2. ASSUME NEW who \in {"owner", "watcher"}, AwaitFails(who)
      PROVE  TmInv'
  <2>1. UNCHANGED <<tmConn, tmNow, tmLate, tmQueue, tmAccepted>> /\ tmPc[who] = "await"
        /\ TmGoto(who, IF who = "owner" THEN "failed" ELSE "backoff")
    BY <1>2 DEF AwaitFails, ConnectError
  <2>2. CASE who = "owner"
    BY <1>0, <2>1, <2>2, NoneMoves, Gone DEF OwnerPc, TmTypes, OneConnects
  <2>3. CASE who = "watcher"
    BY <1>0, <2>1, <2>3, NoneMoves, Gone DEF WatcherPc, TmTypes, OneConnects
  <2> QED
    BY <2>2, <2>3
<1>3. CASE TelemetryEnds \/ TmCancel \/ \E s \in TmConn : ServerHello(s)
  <2>1. UNCHANGED <<tmConn, tmNow, tmLate, tmQueue, tmAccepted, tmPc>>
    BY <1>3 DEF TelemetryEnds, TmCancel, ServerHello
  <2> QED
    BY <1>0, <2>1, NoneMoves DEF TmTypes, OneConnects
<1>4. CASE TmSend
  <2>1. UNCHANGED <<tmConn, tmNow, tmLate, tmPc>>
    BY <1>4 DEF TmSend
  <2>2. tmAccepted' \in 1..TmMessages /\ tmQueue' = Append(tmQueue, tmAccepted')
    BY <1>0, <1>4, TmAssumption DEF TmSend, TmTypes
  <2>3. tmQueue' \in Seq(TmMessage) /\ tmAccepted' \in 0..TmMessages
    BY <1>0, <2>2 DEF TmTypes, TmMessage
  <2> QED
    BY <1>0, <2>1, <2>3, NoneMoves DEF TmTypes, OneConnects
<1>5. CASE CloseBegins \/ LeaveAnswered \/ CloseReturns
  <2>1. UNCHANGED <<tmConn, tmNow, tmLate, tmQueue, tmAccepted>>
    BY <1>5 DEF CloseBegins, LeaveAnswered, CloseReturns
  <2>2. /\ tmPc.owner \in {"up", "leaving", "waiting"}
        /\ \E where \in {"leaving", "closing", "closed"} :
             TmGoto("owner", where) /\ (where = "closed" => tmPc.owner = "waiting")
    BY <1>5 DEF CloseBegins, LeaveAnswered, CloseReturns
  <2> QED
    BY <1>0, <2>1, <2>2, NoneMoves, Gone DEF OwnerPc, TmTypes, OneConnects
<1>6. CASE WatchEnds \/ ReconnectAttempt \/ ReconnectAgain \/ ReconnectDone
  <2>1. UNCHANGED <<tmConn, tmNow, tmLate, tmQueue, tmAccepted>>
    BY <1>6 DEF WatchEnds, ReconnectAttempt, ReconnectAgain, ReconnectDone
  <2>2. /\ tmPc.watcher \in {"watch", "backoff", "restored"}
        /\ \E where \in {"gone", "leave", "watch"} : TmGoto("watcher", where)
    BY <1>6 DEF WatchEnds, ReconnectAttempt, ReconnectAgain, ReconnectDone
  <2> QED
    BY <1>0, <2>1, <2>2, NoneMoves, Gone DEF WatcherPc, TmTypes, OneConnects
<1>7. CASE ReconnectInforms
  <2>1. UNCHANGED <<tmConn, tmNow, tmLate, tmQueue, tmAccepted>>
    BY <1>7 DEF ReconnectInforms
  <2>2. /\ tmPc.watcher = "down" /\ Over(Cur)
        /\ TmGoto("watcher", "informed") \/ TmGoto("watcher", "backoff")
    BY <1>7 DEF ReconnectInforms, ConnectError
  <2>3. Cur = tmConn[tmNow]
    BY <1>0, <2>2 DEF OneConnects, TmTypes, Cur
  <2>4. Over(tmConn[tmNow])
    BY <2>2, <2>3
  <2> QED
    BY <1>0, <2>1, <2>2, <2>4, NoneMoves, Gone DEF WatcherPc, TmTypes, OneConnects
<1> QED
  BY <1>1, <1>2, <1>3, <1>4, <1>5, <1>6, <1>7 DEF Talk

(* A goroutine of a connection ends.                                       *)
LEMMA RoutineEnds ==
  ASSUME TmInv, NEW s \in TmConn, NEW field \in {"reader", "pinger"},
         tmConn' = [tmConn EXCEPT ![s][field] = "done"],
         UNCHANGED <<tmPc, tmNow, tmLate, tmQueue, tmAccepted>>
  PROVE  TmInv'
<1>1. TmTypes /\ "done" \in Routine
  BY DEF TmInv, Routine
<1>2. /\ tmConn' \in [TmConn -> Conn]
      /\ \A r \in TmConn : r # s => tmConn'[r] = tmConn[r]
      /\ tmConn'[s].dc = tmConn[s].dc /\ tmConn'[s].ws = tmConn[s].ws /\ tmConn'[s].pc = tmConn[s].pc
      /\ tmConn'[s].reader \in {"done", tmConn[s].reader}
      /\ tmConn'[s].pinger \in {"done", tmConn[s].pinger}
      /\ tmConn'[s].worker = tmConn[s].worker
  <2>1. CASE field = "reader"
    BY <1>1, <2>1 DEF TmTypes, Conn
  <2>2. CASE field = "pinger"
    BY <1>1, <2>2 DEF TmTypes, Conn
  <2> QED
    BY <2>1, <2>2
<1>3. Closed(tmConn[s]) => Closed(tmConn'[s])
  BY <1>2 DEF Closed
<1>4. Over(tmConn[s]) => Over(tmConn'[s])
  BY <1>2 DEF Over, WorkersOver
<1> QED
  BY <1>1, <1>2, <1>3, <1>4, OneMoves DEF Dead, TmTypes

(* An object of a connection that is not closed changes.                   *)
LEMMA LinkChanges ==
  ASSUME TmInv, NEW s \in TmConn, NEW field \in {"dc", "ws", "pc"}, NEW value \in Link,
         tmConn' = [tmConn EXCEPT ![s][field] = value],
         tmConn[s][field] \in {"new", "up"},
         UNCHANGED <<tmPc, tmNow, tmLate, tmQueue, tmAccepted>>
  PROVE  TmInv'
<1>1. TmTypes
  BY DEF TmInv
<1>2. /\ tmConn' \in [TmConn -> Conn]
      /\ \A r \in TmConn : r # s => tmConn'[r] = tmConn[r]
  BY <1>1 DEF TmTypes, Conn
<1>3. ~Closed(tmConn[s])
  BY DEF Closed
<1> QED
  BY <1>1, <1>2, <1>3, OneMoves DEF Dead, TmTypes

(* A worker takes, sends or drops a message, or ends.                      *)
LEMMA WorkerMoves ==
  ASSUME TmInv, NEW s \in TmConn, NEW held \in [TmWorkers -> {0} \cup TmMessage],
         NEW states \in [TmWorkers -> Routine],
         tmConn' = [tmConn EXCEPT ![s] = [tmConn[s] EXCEPT !.holds = held, !.worker = states]],
         \A v \in TmWorkers : states[v] \in {"done", tmConn[s].worker[v]},
         UNCHANGED <<tmPc, tmNow, tmLate>>, tmQueue' \in Seq(TmMessage), tmAccepted' = tmAccepted
  PROVE  TmInv'
<1>1. TmTypes
  BY DEF TmInv
<1>2. tmConn[s] \in Conn
  BY <1>1 DEF TmTypes
<1> DEFINE c == [tmConn[s] EXCEPT !.holds = held, !.worker = states]
<1>3. /\ c \in Conn /\ c.dc = tmConn[s].dc /\ c.ws = tmConn[s].ws /\ c.pc = tmConn[s].pc
      /\ c.reader = tmConn[s].reader /\ c.pinger = tmConn[s].pinger /\ c.worker = states
  BY <1>2 DEF Conn
<1> HIDE DEF c
<1>4. /\ tmConn' \in [TmConn -> Conn] /\ tmConn'[s] = c
      /\ \A r \in TmConn : r # s => tmConn'[r] = tmConn[r]
  BY <1>1, <1>3 DEF TmTypes, c
<1>5. /\ Closed(tmConn[s]) => Closed(c)
      /\ Over(tmConn[s]) => Over(c)
  BY <1>3 DEF Closed, Over, WorkersOver
<1> QED
  BY <1>1, <1>4, <1>5, OneMoves DEF Dead, TmTypes

(* A step of a worker neither opens nor closes a connection.               *)
LEMMA WorkersKeep ==
  ASSUME TmInv, NEW s \in TmConn, NEW w \in TmWorkers,
         WorkerTakes(s, w) \/ WorkerSends(s, w) \/ WorkerFails(s, w) \/ WorkerStops(s, w)
  PROVE  TmInv'
<1> USE DEF tmFlags, tmTele, tmData, tmWorld, tmHistory
<1>1. TmTypes /\ tmConn[s] \in Conn /\ tmQueue \in Seq(TmMessage)
  BY DEF TmInv, TmTypes
<1>2. /\ tmConn[s].holds \in [TmWorkers -> {0} \cup TmMessage]
      /\ tmConn[s].worker \in [TmWorkers -> Routine]
  BY <1>1 DEF Conn
<1> DEFINE Put(m) == [tmConn[s].holds EXCEPT ![w] = m]
           Off == [tmConn[s].worker EXCEPT ![w] = "done"]
<1>3. /\ \A m \in {0} \cup TmMessage : Put(m) \in [TmWorkers -> {0} \cup TmMessage]
      /\ Off \in [TmWorkers -> Routine]
      /\ \A v \in TmWorkers : Off[v] \in {"done", tmConn[s].worker[v]}
  BY <1>2 DEF Routine
<1>4. UNCHANGED <<tmPc, tmNow, tmLate, tmAccepted>>
  BY DEF WorkerTakes, WorkerSends, WorkerFails, WorkerStops
<1>5. CASE WorkerTakes(s, w)
  <2>1. tmQueue' \in Seq(TmMessage) /\ Head(tmQueue) \in TmMessage
    BY <1>1, <1>5 DEF WorkerTakes
  <2>2. CASE Head(tmQueue) \in TmOversized
    <3>1. UNCHANGED tmConn
      BY <1>5, <2>2 DEF WorkerTakes
    <3> QED
      BY <1>1, <1>4, <2>1, <3>1, NoneMoves DEF TmInv, TmTypes, OneConnects
  <2>3. CASE Head(tmQueue) \notin TmOversized
    <3>1. tmConn' = [tmConn EXCEPT ![s].holds[w] = Head(tmQueue)]
      BY <1>5, <2>3 DEF WorkerTakes
    <3>2. tmConn' = [tmConn EXCEPT ![s] =
                      [tmConn[s] EXCEPT !.holds = Put(Head(tmQueue)), !.worker = tmConn[s].worker]]
      BY <1>1, <3>1 DEF TmTypes, Conn
    <3> QED
      BY <1>2, <1>3, <1>4, <2>1, <3>2, WorkerMoves
  <2> QED
    BY <2>2, <2>3
<1>6. CASE WorkerSends(s, w)
  <2>1. tmConn' = [tmConn EXCEPT ![s].holds[w] = 0] /\ UNCHANGED tmQueue
    BY <1>6 DEF WorkerSends
  <2>2. tmConn' = [tmConn EXCEPT ![s] = [tmConn[s] EXCEPT !.holds = Put(0), !.worker = tmConn[s].worker]]
    BY <1>1, <2>1 DEF TmTypes, Conn
  <2> QED
    BY <1>1, <1>2, <1>3, <1>4, <2>1, <2>2, WorkerMoves
<1>7. CASE WorkerFails(s, w) \/ WorkerStops(s, w)
  <2>1. /\ UNCHANGED tmQueue
        /\ \/ tmConn' = [tmConn EXCEPT ![s].holds[w] = 0, ![s].worker[w] = "done"]
           \/ tmConn' = [tmConn EXCEPT ![s].worker[w] = "done", ![s].holds[w] = 0]
    BY <1>7 DEF WorkerFails, WorkerStops, AfterError
  <2>2. tmConn' = [tmConn EXCEPT ![s] = [tmConn[s] EXCEPT !.holds = Put(0), !.worker = Off]]
    BY <1>1, <2>1 DEF TmTypes, Conn
  <2> QED
    BY <1>1, <1>3, <1>4, <2>1, <2>2, WorkerMoves
<1> QED
  BY <1>5, <1>6, <1>7

(* Steps of the network, and of the goroutines that end with it.           *)
LEMMA NetworkKeeps ==
  ASSUME TmInv,
         \/ PcConnected \/ DataChannelOpens \/ WebSocketFails \/ \E side \in {"pc", "dc"} : LinkFails(side)
         \/ \E s \in TmConn : ReaderFails(s) \/ PingFails(s) \/ PingerStops(s) \/ ConferenceEnds(s)
  PROVE  TmInv'
<1> USE DEF tmFlags, tmTele, tmData, tmWorld, tmHistory
<1>1. TmTypes /\ (tmNow # 0 => tmNow \in TmConn /\ Cur = tmConn[tmNow]) /\ tmNow \in Nat
  BY DEF TmInv, TmTypes, OneConnects, Cur
<1>2. {"new", "up", "down"} \subseteq Link
  BY DEF Link
<1>3. CASE PcConnected
  <2>1. /\ tmNow \in TmConn /\ tmConn[tmNow]["pc"] = "new" /\ tmConn' = [tmConn EXCEPT ![tmNow]["pc"] = "up"]
        /\ UNCHANGED <<tmPc, tmNow, tmLate, tmQueue, tmAccepted>>
    <3>1. tmNow \in TmConn /\ Cur = tmConn[tmNow]
      BY <1>1, <1>3 DEF PcConnected
    <3>2. Cur.pc = "new" /\ tmConn' = [tmConn EXCEPT ![tmNow].pc = "up"]
          /\ UNCHANGED <<tmPc, tmNow, tmLate, tmQueue, tmAccepted>>
      BY <1>3 DEF PcConnected
    <3> QED
      BY <3>1, <3>2
  <2> QED
    BY <1>2, <2>1, LinkChanges
<1>4. CASE WebSocketFails
  <2>1. /\ tmNow \in TmConn /\ tmConn[tmNow]["ws"] = "up" /\ tmConn' = [tmConn EXCEPT ![tmNow]["ws"] = "down"]
        /\ UNCHANGED <<tmPc, tmNow, tmLate, tmQueue, tmAccepted>>
    <3>1. tmNow \in TmConn /\ Cur = tmConn[tmNow]
      BY <1>1, <1>4 DEF WebSocketFails
    <3>2. Cur.ws = "up" /\ tmConn' = [tmConn EXCEPT ![tmNow].ws = "down"]
          /\ UNCHANGED <<tmPc, tmNow, tmLate, tmQueue, tmAccepted>>
      BY <1>4 DEF WebSocketFails
    <3> QED
      BY <3>1, <3>2
  <2> QED
    BY <1>2, <2>1, LinkChanges
<1>5. ASSUME NEW side \in {"pc", "dc"}, LinkFails(side)
      PROVE  TmInv'
  <2>1. /\ tmNow \in TmConn /\ tmConn[tmNow][side] = "up" /\ tmConn' = [tmConn EXCEPT ![tmNow][side] = "down"]
        /\ UNCHANGED <<tmPc, tmNow, tmLate, tmQueue, tmAccepted>>
    BY <1>1, <1>5 DEF LinkFails
  <2> QED
    BY <1>2, <2>1, LinkChanges
<1>6. CASE DataChannelOpens
  <2> DEFINE all == [w \in TmWorkers |-> "run"]
             c == [tmConn[tmNow] EXCEPT !.dc = "up", !.worker = all]
  <2>1. /\ tmNow \in TmConn /\ tmConn[tmNow].dc = "new"
        /\ tmConn' = [tmConn EXCEPT ![tmNow].dc = "up", ![tmNow].worker = all]
        /\ UNCHANGED <<tmPc, tmNow, tmLate, tmQueue, tmAccepted>>
    BY <1>1, <1>6 DEF DataChannelOpens
  <2>2. tmConn' = [tmConn EXCEPT ![tmNow] = c]
    BY <1>1, <2>1 DEF TmTypes, Conn
  <2>3. all \in [TmWorkers -> Routine]
    BY DEF Routine
  <2> HIDE DEF all
  <2>4. c \in Conn
    BY <1>1, <2>1, <2>3 DEF TmTypes, Conn, Link
  <2> HIDE DEF c
  <2>5. ~Closed(tmConn[tmNow])
    BY <2>1 DEF Closed
  <2>6. tmConn' \in [TmConn -> Conn] /\ \A r \in TmConn : r # tmNow => tmConn'[r] = tmConn[r]
    BY ZenonT(60), <1>1, <2>1, <2>2, <2>4 DEF TmTypes
  <2>7. ~Dead(tmConn[tmNow])
    BY <2>5 DEF Dead
  <2>8. tmQueue' \in Seq(TmMessage) /\ tmAccepted' \in 0..TmMessages
    BY <1>1, <2>1 DEF TmTypes
  <2> QED
    BY <2>1, <2>5, <2>6, <2>7, <2>8, OneMoves
<1>7. ASSUME NEW s \in TmConn, ReaderFails(s) \/ ConferenceEnds(s)
      PROVE  TmInv'
  <2>1. /\ tmConn' = [tmConn EXCEPT ![s]["reader"] = "done"]
        /\ UNCHANGED <<tmPc, tmNow, tmLate, tmQueue, tmAccepted>>
    BY <1>7 DEF ReaderFails, ConferenceEnds
  <2> QED
    BY <2>1, RoutineEnds
<1>8. ASSUME NEW s \in TmConn, PingFails(s) \/ PingerStops(s)
      PROVE  TmInv'
  <2>1. /\ tmConn' = [tmConn EXCEPT ![s]["pinger"] = "done"]
        /\ UNCHANGED <<tmPc, tmNow, tmLate, tmQueue, tmAccepted>>
    BY <1>8 DEF PingFails, PingerStops
  <2> QED
    BY <2>1, RoutineEnds
<1> QED
  BY <1>3, <1>4, <1>5, <1>6, <1>7, <1>8

(* A new connection takes the place of one that is dead.                   *)
LEMMA ConnectKeeps == ASSUME TmInv, TmConnect \/ TmReconnectConnect PROVE TmInv'
<1> USE DEF tmTele, tmData
<1>1. TmTypes /\ OneConnects /\ OthersDead
  BY DEF TmInv
<1>2. PICK who \in {"owner", "watcher"} :
        ConnectBegin(who, IF who = "owner" THEN "new" ELSE "informed")
  BY DEF TmConnect, TmReconnectConnect
<1> DEFINE dc == IF tmMedia' THEN "none" ELSE "new"
           new == [tmConn[tmNow + 1] EXCEPT !.dc = dc, !.pc = "new"]
<1>3. /\ tmNow + 1 \in TmConn /\ tmNow' = tmNow + 1 /\ TmGoto(who, "dial")
      /\ tmConn' = [tmConn EXCEPT ![tmNow'].dc = dc, ![tmNow'].pc = "new"]
      /\ UNCHANGED <<tmQueue, tmAccepted>>
  BY <1>2 DEF ConnectBegin
<1>4. tmConn' = [tmConn EXCEPT ![tmNow + 1] = new]
  BY <1>1, <1>3 DEF TmTypes, Conn
<1>5. new \in Conn
  <2>1. dc \in Link /\ "new" \in Link /\ tmConn[tmNow + 1] \in Conn
    BY <1>1, <1>3 DEF TmTypes, Link
  <2> HIDE DEF dc
  <2> QED
    BY <2>1 DEF Conn
<1> HIDE DEF new
<1>6. tmConn' \in [TmConn -> Conn] /\ \A s \in TmConn : s # tmNow + 1 => tmConn'[s] = tmConn[s]
  BY <1>1, <1>3, <1>4, <1>5 DEF TmTypes
<1>7. tmNow # 0 => tmPc.watcher = "informed"
  BY <1>1, <1>2 DEF ConnectBegin, At, OneConnects
<1>8. \A s \in TmConn : s # tmNow + 1 => Dead(tmConn[s])
  BY <1>1, <1>3, <1>7 DEF OthersDead, OneConnects, Dead, TmConn
<1>9. OthersDead'
  <2>1. \A s \in TmConn : s # tmNow' => Dead(tmConn'[s])
    BY <1>3, <1>6, <1>8 DEF Dead, Closed, Over, WorkersOver
  <2>2. tmPc'.watcher \notin {"down", "informed"}
    BY <1>1, <1>2, <1>3, Gone DEF OwnerPc, WatcherPc, ConnectBegin, At, OneConnects
  <2> QED
    BY <2>1, <2>2 DEF OthersDead
<1>10. TmTypes'
  BY <1>1, <1>3, <1>6, Gone DEF TmTypes, OwnerPc, WatcherPc
<1>11. OneConnects'
  <2>1. tmPc'.owner # "new" /\ tmNow' # 0 /\ tmNow' \in TmConn
    BY <1>1, <1>2, <1>3, Gone DEF OneConnects, TmTypes, OwnerPc, WatcherPc, ConnectBegin, At
  <2>2. tmPc'.owner \in {"new", "dial", "await", "failed"} => tmPc'.watcher = "off"
    BY <1>1, <1>2, <1>3, Gone DEF OneConnects, OwnerPc, WatcherPc, ConnectBegin, At
  <2> QED
    BY <2>1, <2>2 DEF OneConnects
<1>12. Released'
  <2>1. tmLate' = (tmLate \/ tmPc.owner \in Closing)
    BY <1>2 DEF ConnectBegin
  <2>2. tmPc'.owner \in {"waiting", "closed"} => tmPc.owner \in Closing
    BY <1>1, <1>2, <1>3, Gone DEF Closing, OwnerPc, WatcherPc
  <2> QED
    BY <2>1, <2>2 DEF Released
<1> QED
  BY <1>9, <1>10, <1>11, <1>12 DEF TmInv

(* The websocket of the connection that Connect is making.                 *)
LEMMA DialKeeps ==
  ASSUME TmInv, NEW who \in {"owner", "watcher"}, DialWebSocket(who)
  PROVE  TmInv'
<1> USE DEF tmTele, tmData
<1>1. TmTypes /\ OneConnects /\ OthersDead
  BY DEF TmInv
<1>2. UNCHANGED <<tmNow, tmQueue, tmAccepted>> /\ tmPc[who] = "dial"
  BY DEF DialWebSocket, At
<1>3. CASE ConnectError(who) /\ UNCHANGED <<tmConn, tmLate>>
  <2>1. TmGoto(who, IF who = "owner" THEN "failed" ELSE "backoff")
    BY <1>3 DEF ConnectError
  <2>2. CASE who = "owner"
    BY <1>1, <1>2, <1>3, <2>1, <2>2, NoneMoves, Gone DEF OwnerPc, TmTypes, OneConnects
  <2>3. CASE who = "watcher"
    BY <1>1, <1>2, <1>3, <2>1, <2>3, NoneMoves, Gone DEF WatcherPc, TmTypes, OneConnects
  <2> QED
    BY <2>2, <2>3
<1>4. CASE /\ tmConn' = [tmConn EXCEPT ![tmNow].ws = "up", ![tmNow].reader = "run", ![tmNow].pinger = "run"]
           /\ TmGoto(who, "await") /\ tmLate' = (tmLate \/ tmPc.owner \in {"waiting", "closed"})
  <2>1. tmNow \in TmConn
    BY <1>1, <1>2 DEF OneConnects
  <2> DEFINE new == [tmConn[tmNow] EXCEPT !.ws = "up", !.reader = "run", !.pinger = "run"]
  <2>2. tmConn' = [tmConn EXCEPT ![tmNow] = new]
    BY <1>1, <1>4, <2>1 DEF TmTypes, Conn
  <2>3. new \in Conn
    <3>1. tmConn[tmNow] \in Conn /\ "up" \in Link /\ "run" \in Routine
      BY <1>1, <2>1 DEF TmTypes, Link, Routine
    <3> QED
      BY <3>1 DEF Conn
  <2> HIDE DEF new
  <2>4. tmConn' \in [TmConn -> Conn] /\ \A s \in TmConn : s # tmNow => tmConn'[s] = tmConn[s]
    BY <1>1, <2>1, <2>2, <2>3 DEF TmTypes
  <2>5. /\ tmPc' \in [owner : OwnerPc, watcher : WatcherPc]
        /\ tmPc'.watcher \in {"off", "await"}
        /\ tmPc'.owner \in {"new", "dial", "await", "failed"} => tmPc'.watcher = "off"
        /\ tmPc'.owner # "new"
        /\ tmPc'.owner \in {"waiting", "closed"} => tmPc.owner \in {"waiting", "closed"}
    <3>1. CASE who = "owner"
      BY <1>1, <1>2, <1>4, <3>1, Gone DEF OwnerPc, OneConnects
    <3>2. CASE who = "watcher"
      BY <1>1, <1>2, <1>4, <2>1, <3>2, Gone DEF WatcherPc, OneConnects, TmConn
    <3> QED
      BY <3>1, <3>2
  <2>6. TmTypes' /\ OneConnects'
    BY <1>1, <1>2, <2>1, <2>4, <2>5 DEF TmTypes, OneConnects, TmConn
  <2>7. OthersDead'
    BY <1>1, <1>2, <2>4, <2>5 DEF OthersDead, Dead, Closed, Over, WorkersOver
  <2>8. Released'
    BY <1>4, <2>5 DEF Released
  <2> QED
    BY <2>6, <2>7, <2>8 DEF TmInv
<1> QED
  BY <1>3, <1>4 DEF DialWebSocket

(* A teardown closes the current connection.                               *)
LEMMA TeardownKeeps == ASSUME TmInv, CloseTearsDown \/ ReconnectTearsDown PROVE TmInv'
<1> USE DEF tmTele, tmData, tmFlags, tmWorld, tmHistory
<1>1. TmTypes /\ OneConnects /\ OthersDead
  BY DEF TmInv
<1>2. PICK who \in {"owner", "watcher"} :
        /\ tmPc[who] = (IF who = "owner" THEN "closing" ELSE "leave")
        /\ TmGoto(who, IF who = "owner" THEN "waiting" ELSE "down")
  BY DEF CloseTearsDown, ReconnectTearsDown, At
<1>3. /\ UNCHANGED <<tmNow, tmQueue, tmAccepted, tmLate>>
      /\ tmConn' = [tmConn EXCEPT ![tmNow] = TornDown(tmConn[tmNow])]
  BY DEF CloseTearsDown, ReconnectTearsDown
<1>4. tmNow \in TmConn
  BY <1>1, <1>2 DEF OneConnects
<1>5. tmConn[tmNow] \in Conn
  BY <1>1, <1>4 DEF TmTypes
<1>6. TornDown(tmConn[tmNow]) \in Conn /\ Closed(TornDown(tmConn[tmNow]))
  BY <1>5 DEF Conn, TornDown, Shut, Closed, Link
<1>7. /\ tmConn' \in [TmConn -> Conn] /\ Closed(tmConn'[tmNow])
      /\ \A s \in TmConn : s # tmNow => tmConn'[s] = tmConn[s]
  BY <1>1, <1>3, <1>4, <1>6 DEF TmTypes
<1>8. /\ tmPc' \in [owner : OwnerPc, watcher : WatcherPc]
      /\ tmPc'.owner \in {"new", "dial", "await", "failed"} => tmPc'.watcher = "off"
      /\ tmPc'.owner # "new"
      /\ tmPc'.watcher = "informed" => tmPc.watcher = "informed"
  <2>1. CASE who = "owner"
    BY <1>1, <1>2, <2>1, Gone DEF OwnerPc, OneConnects
  <2>2. CASE who = "watcher"
    BY <1>1, <1>2, <1>4, <2>2, Gone DEF WatcherPc, OneConnects, TmConn
  <2> QED
    BY <2>1, <2>2
<1>9. TmTypes' /\ OneConnects' /\ Released'
  BY <1>1, <1>3, <1>4, <1>7, <1>8 DEF TmTypes, OneConnects, Released, TmConn
<1>10. OthersDead'
  <2>1. \A s \in TmConn : s # tmNow' => Dead(tmConn'[s])
    BY <1>1, <1>3, <1>7 DEF OthersDead, Dead, Closed, Over, WorkersOver
  <2>2. tmPc'.watcher = "informed" => Over(tmConn'[tmNow])
    <3> SUFFICES ASSUME tmPc'.watcher = "informed" PROVE Over(tmConn'[tmNow])
      OBVIOUS
    <3>1. Over(tmConn[tmNow])
      BY <1>1, <1>8 DEF OthersDead
    <3>2. /\ tmConn'[tmNow].worker = tmConn[tmNow].worker
          /\ tmConn'[tmNow].reader = tmConn[tmNow].reader /\ tmConn'[tmNow].pinger = tmConn[tmNow].pinger
      BY <1>1, <1>3, <1>4, <1>5 DEF TmTypes, TornDown, Conn
    <3> QED
      BY <3>1, <3>2 DEF Over, WorkersOver
  <2> QED
    BY <1>3, <1>7, <2>1, <2>2 DEF OthersDead
<1> QED
  BY <1>9, <1>10 DEF TmInv

(* Each step of Telemost keeps TmInv.                                      *)
LEMMA TmSteps == TmInv /\ [TmNext]_tmVars => TmInv'
<1> SUFFICES ASSUME TmInv, [TmNext]_tmVars PROVE TmInv'
  OBVIOUS
<1>1. CASE UNCHANGED tmVars
  BY <1>1, NoneMoves DEF tmVars, tmData, tmHistory, TmInv, TmTypes, OneConnects
<1>2. CASE TmNext
  <2>1. CASE Talk
    BY <2>1, TalkKeeps
  <2>2. CASE \E s \in TmConn, w \in TmWorkers :
               WorkerTakes(s, w) \/ WorkerSends(s, w) \/ WorkerFails(s, w) \/ WorkerStops(s, w)
    BY <2>2, WorkersKeep
  <2>3. CASE \/ PcConnected \/ DataChannelOpens \/ WebSocketFails \/ \E side \in {"pc", "dc"} : LinkFails(side)
             \/ \E s \in TmConn : ReaderFails(s) \/ PingFails(s) \/ PingerStops(s) \/ ConferenceEnds(s)
    BY <2>3, NetworkKeeps
  <2>4. CASE TmConnect \/ TmReconnectConnect
    BY <2>4, ConnectKeeps
  <2>5. CASE \E who \in {"owner", "watcher"} : DialWebSocket(who)
    BY <2>5, DialKeeps
  <2>6. CASE CloseTearsDown \/ ReconnectTearsDown
    BY <2>6, TeardownKeeps
  <2> QED
    BY <1>2, <2>1, <2>2, <2>3, <2>4, <2>5, <2>6 DEF TmNext, TmProgress, TmWatcherSteps, TmWorkerSteps, Talk
<1> QED
  BY <1>1, <1>2

(* TmInv holds throughout.                                                 *)
LEMMA TmAlways == TmSpec => []TmInv
BY TmStarts, TmSteps, PTL DEF TmSpec

(* However often it reconnects, the Telemost peer has closed every         *)
(* connection but the current one, and its goroutines have ended.          *)
THEOREM OneConnectionLives == TmSpec => []TmOneLive
<1>1. TmInv => TmOneLive
  <2> SUFFICES ASSUME TmInv, NEW s \in 1..(tmNow - 1) PROVE Closed(tmConn[s]) /\ Over(tmConn[s])
    BY DEF TmOneLive
  <2>1. tmNow \in Nat /\ tmNow # 0 /\ tmNow \in TmConn
    BY DEF TmInv, TmTypes, OneConnects
  <2>2. s \in TmConn /\ s # tmNow
    BY <2>1, TmAssumption DEF TmConn
  <2> QED
    BY <2>2 DEF TmInv, OthersDead, Dead
<1> QED
  BY <1>1, TmAlways, PTL

(* When Close has torn down no connection is open, unless a reconnection   *)
(* opened one beside it.                                                   *)
THEOREM CloseReleasesAll == TmSpec => []TmCloseReleases
<1>1. TmInv => TmCloseReleases
  BY DEF TmInv, OthersDead, Released, Dead, TmCloseReleases
<1> QED
  BY <1>1, TmAlways, PTL

-----------------------------------------------------------------------------
(* What the workers of Telemost lose.                                      *)

Pairs == TmConn \X TmWorkers
Holding == {p \in Pairs : tmConn[p[1]].holds[p[2]] # 0}
Stopped == {p \in Pairs : tmConn[p[1]].worker[p[2]] = "done"}
Lost == (1..tmAccepted) \ (TmKept \cup TmOversized)

(* Only a running worker holds a message, and no worker runs before its    *)
(* data channel is open.                                                   *)
HoldsWhileRunning ==
  \A s \in TmConn, w \in TmWorkers :
    /\ tmConn[s].holds[w] # 0 => tmConn[s].worker[w] = "run"
    /\ s > tmNow \/ tmConn[s].dc = "new" => tmConn[s].worker[w] = "off"

LostInv ==
  /\ tmSent \in Seq(TmMessage)
  /\ HoldsWhileRunning
  /\ Cardinality(Lost) <= Cardinality(Stopped)
  /\ Len(tmQueue) + Len(tmSent) + Cardinality(Holding) <= tmAccepted

(* The numbers that are compared are numbers.                              *)
LEMMA PairsAreFinite ==
  /\ IsFiniteSet(Pairs)
  /\ \A S \in SUBSET Pairs : IsFiniteSet(S) /\ Cardinality(S) \in Nat
<1>1. IsFiniteSet(TmConn)
  BY FS_Interval, TmAssumption DEF TmConn
<1>2. IsFiniteSet(Pairs)
  BY <1>1, FS_Product, TmAssumption DEF Pairs
<1>3. ASSUME NEW S \in SUBSET Pairs
      PROVE  IsFiniteSet(S) /\ Cardinality(S) \in Nat
  <2>1. IsFiniteSet(S)
    BY <1>2, FS_Subset
  <2> QED
    BY <2>1, FS_CardinalityType
<1> QED
  BY <1>2, <1>3

(* The messages that are lost can be counted.                              *)
LEMMA LostIsFinite ==
  ASSUME TmTypes PROVE IsFiniteSet(Lost) /\ Cardinality(Lost) \in Nat
<1>1. tmAccepted \in Int
  BY TmAssumption DEF TmTypes
<1>2. IsFiniteSet(1..tmAccepted)
  BY <1>1, FS_Interval
<1>3. IsFiniteSet(Lost)
  BY <1>2, FS_Difference DEF Lost
<1> QED
  BY <1>3, FS_CardinalityType

(* Nothing is lost before anything is accepted.                            *)
LEMMA LostStarts == TmInit => LostInv
<1> SUFFICES ASSUME TmInit PROVE LostInv
  OBVIOUS
<1>1. tmQueue = <<>> /\ tmSent = <<>> /\ tmAccepted = 0
  BY DEF TmInit
<1>2. tmSent \in Seq(TmMessage) /\ Len(tmQueue) = 0 /\ Len(tmSent) = 0
  BY <1>1
<1>3. Lost = {} /\ Cardinality(Lost) = 0
  <2>1. Lost = {}
    BY <1>1 DEF Lost
  <2> QED
    BY <2>1, FS_EmptySet
<1>4. Holding = {} /\ Cardinality(Holding) = 0
  <2>1. \A p \in Pairs : tmConn[p[1]].holds[p[2]] = 0
    BY DEF Pairs, TmInit, NoConn
  <2>2. Holding = {}
    BY <2>1 DEF Holding
  <2> QED
    BY <2>2, FS_EmptySet
<1>5. Cardinality(Stopped) \in Nat
  BY PairsAreFinite DEF Stopped
<1>6. HoldsWhileRunning
  BY DEF HoldsWhileRunning, TmInit, NoConn
<1> QED
  BY <1>1, <1>2, <1>3, <1>4, <1>5, <1>6 DEF LostInv

(* A step after which everything is kept that was kept loses nothing.      *)
LEMMA NothingLost ==
  ASSUME TmInv, TmInv', LostInv, tmSent' \in Seq(TmMessage), HoldsWhileRunning',
         Lost' \subseteq Lost, Stopped' = Stopped,
         Len(tmQueue') + Len(tmSent') + Cardinality(Holding') <= tmAccepted'
  PROVE  LostInv'
<1>1. Cardinality(Lost') <= Cardinality(Lost)
  BY LostIsFinite, FS_Subset DEF TmInv
<1>2. TmTypes'
  BY DEF TmInv
<1>3. Cardinality(Lost') \in Nat
  <2>1. IsFiniteSet(Lost')
    BY LostIsFinite, FS_Subset DEF TmInv
  <2> QED
    BY <2>1, FS_CardinalityType
<1>4. Cardinality(Stopped) \in Nat /\ Cardinality(Lost) \in Nat
  BY PairsAreFinite, LostIsFinite DEF Stopped, TmInv
<1> QED
  BY <1>1, <1>3, <1>4 DEF LostInv

(* Steps that move no message and end no worker.                           *)
LEMMA NoWorkerMoves ==
  ASSUME TmInv, TmInv', LostInv, UNCHANGED tmData, tmNow' \in {tmNow, tmNow + 1},
         \A s \in TmConn :
           /\ tmConn'[s].holds = tmConn[s].holds /\ tmConn'[s].worker = tmConn[s].worker
           /\ tmConn'[s].dc = "new" => tmConn[s].dc = "new" \/ s > tmNow
  PROVE  LostInv'
<1>1. UNCHANGED <<tmQueue, tmAccepted, tmSent>>
  BY DEF tmData
<1>2. Holding' = Holding /\ Stopped' = Stopped
  BY DEF Holding, Stopped, Pairs
<1>3. Lost' = Lost
  BY <1>1 DEF Lost, TmKept
<1>4. tmNow \in Nat
  BY DEF TmInv, TmTypes
<1>5. HoldsWhileRunning'
  <2> SUFFICES ASSUME NEW s \in TmConn, NEW w \in TmWorkers
               PROVE  /\ tmConn'[s].holds[w] # 0 => tmConn'[s].worker[w] = "run"
                      /\ s > tmNow' \/ tmConn'[s].dc = "new" => tmConn'[s].worker[w] = "off"
    BY DEF HoldsWhileRunning
  <2>1. s > tmNow' => s > tmNow
    BY <1>4, TmAssumption DEF TmConn
  <2> QED
    BY <2>1 DEF LostInv, HoldsWhileRunning
<1> QED
  BY <1>1, <1>2, <1>3, <1>5, NothingLost DEF LostInv

(* Everything but the workers, Send, Connect and the data channel leaves   *)
(* the messages and the workers alone.                                     *)
LEMMA OthersLoseNothing ==
  ASSUME TmInv, TmInv', LostInv,
         \/ Talk /\ ~TmSend
         \/ PcConnected \/ WebSocketFails \/ \E side \in {"pc", "dc"} : LinkFails(side)
         \/ \E s \in TmConn : ReaderFails(s) \/ PingFails(s) \/ PingerStops(s) \/ ConferenceEnds(s)
         \/ \E who \in {"owner", "watcher"} : DialWebSocket(who)
         \/ CloseTearsDown \/ ReconnectTearsDown
         \/ TmConnect \/ TmReconnectConnect
  PROVE  LostInv'
<1>0. tmConn \in [TmConn -> Conn] /\ tmNow \in Nat
  BY DEF TmInv, TmTypes
<1> DEFINE Stays == \A s \in TmConn :
             /\ tmConn'[s].holds = tmConn[s].holds /\ tmConn'[s].worker = tmConn[s].worker
             /\ tmConn'[s].dc = "new" => tmConn[s].dc = "new" \/ s > tmNow
<1> SUFFICES UNCHANGED tmData /\ tmNow' \in {tmNow, tmNow + 1} /\ Stays
  BY NoWorkerMoves
<1>1. ASSUME UNCHANGED tmConn
      PROVE  Stays
  BY <1>1
<1>2. ASSUME NEW t \in TmConn, NEW c \in Conn, tmConn' = [tmConn EXCEPT ![t] = c],
             c.holds = tmConn[t].holds, c.worker = tmConn[t].worker,
             c.dc = "new" => tmConn[t].dc = "new" \/ t > tmNow
      PROVE  Stays
  <2> SUFFICES ASSUME NEW s \in TmConn
               PROVE  /\ tmConn'[s].holds = tmConn[s].holds /\ tmConn'[s].worker = tmConn[s].worker
                      /\ tmConn'[s].dc = "new" => tmConn[s].dc = "new" \/ s > tmNow
    OBVIOUS
  <2>1. tmConn'[s] = IF s = t THEN c ELSE tmConn[s]
    BY <1>0, <1>2
  <2> QED
    BY <1>2, <2>1
<1>3. CASE Talk /\ ~TmSend
  <2>1. UNCHANGED <<tmData, tmNow, tmConn>>
    BY <1>3 DEF Talk, AwaitReady, AwaitFails, TelemetryEnds, TmCancel, CloseBegins, LeaveAnswered,
       CloseReturns, WatchEnds, ReconnectAttempt, ReconnectAgain, ReconnectInforms, ReconnectDone, ServerHello
  <2> QED
    BY <1>1, <2>1
<1>4. ASSUME NEW t \in TmConn, NEW field \in {"pc", "dc", "ws", "reader", "pinger"},
             NEW value \in Link \cup Routine, value # "new",
             tmConn' = [tmConn EXCEPT ![t][field] = value]
      PROVE  Stays
  <2> SUFFICES ASSUME NEW s \in TmConn
               PROVE  /\ tmConn'[s].holds = tmConn[s].holds /\ tmConn'[s].worker = tmConn[s].worker
                      /\ tmConn'[s].dc = "new" => tmConn[s].dc = "new" \/ s > tmNow
    OBVIOUS
  <2>1. tmConn'[s] = IF s = t THEN [tmConn[t] EXCEPT ![field] = value] ELSE tmConn[s]
    BY <1>0, <1>4
  <2>2. tmConn[t] \in Conn
    BY <1>0
  <2> QED
    BY <1>4, <2>1, <2>2 DEF Conn
<1>5. CASE PcConnected \/ WebSocketFails \/ \E side \in {"pc", "dc"} : LinkFails(side)
  <2>1. UNCHANGED <<tmData, tmNow>>
    BY <1>5 DEF PcConnected, WebSocketFails, LinkFails
  <2>2. tmNow \in TmConn
    BY <1>5 DEF PcConnected, WebSocketFails, LinkFails, TmInv, OneConnects
  <2>3. \E field \in {"pc", "dc", "ws"}, value \in {"up", "down"} :
          tmConn' = [tmConn EXCEPT ![tmNow][field] = value]
    <3>1. CASE PcConnected
      <4>1. tmConn' = [tmConn EXCEPT ![tmNow]["pc"] = "up"]
        BY <3>1 DEF PcConnected
      <4> QED
        BY <4>1
    <3>2. CASE WebSocketFails
      <4>1. tmConn' = [tmConn EXCEPT ![tmNow]["ws"] = "down"]
        BY <3>2 DEF WebSocketFails
      <4> QED
        BY <4>1
    <3>3. CASE \E side \in {"pc", "dc"} : LinkFails(side)
      BY <3>3 DEF LinkFails
    <3> QED
      BY <1>5, <3>1, <3>2, <3>3
  <2> HIDE DEF Stays
  <2> QED
    BY <1>4, <2>1, <2>2, <2>3 DEF Link
<1>6. CASE \E s \in TmConn : ReaderFails(s) \/ PingFails(s) \/ PingerStops(s) \/ ConferenceEnds(s)
  <2>1. PICK s \in TmConn : ReaderFails(s) \/ PingFails(s) \/ PingerStops(s) \/ ConferenceEnds(s)
    BY <1>6
  <2>2. UNCHANGED <<tmData, tmNow>>
    BY <2>1 DEF ReaderFails, PingFails, PingerStops, ConferenceEnds, tmFlags
  <2>3. \E field \in {"reader", "pinger"} : tmConn' = [tmConn EXCEPT ![s][field] = "done"]
    BY <2>1 DEF ReaderFails, PingFails, PingerStops, ConferenceEnds
  <2> HIDE DEF Stays
  <2> QED
    BY <1>4, <2>2, <2>3 DEF Routine
<1>7. ASSUME NEW who \in {"owner", "watcher"}, DialWebSocket(who)
      PROVE  UNCHANGED tmData /\ tmNow' \in {tmNow, tmNow + 1} /\ Stays
  <2>1. UNCHANGED <<tmData, tmNow>>
    BY <1>7 DEF DialWebSocket
  <2>2. CASE UNCHANGED tmConn
    BY <1>1, <2>1, <2>2
  <2>3. CASE tmConn' = [tmConn EXCEPT ![tmNow].ws = "up", ![tmNow].reader = "run", ![tmNow].pinger = "run"]
    <3> DEFINE c == [tmConn[tmNow] EXCEPT !.ws = "up", !.reader = "run", !.pinger = "run"]
    <3>1. tmNow \in TmConn
      BY <1>7 DEF DialWebSocket, At, TmInv, OneConnects
    <3>2. tmConn[tmNow] \in Conn
      BY <1>0, <3>1
    <3>3. tmConn' = [tmConn EXCEPT ![tmNow] = c]
      BY <1>0, <2>3, <3>1 DEF Conn
    <3>4. c \in Conn /\ c.holds = tmConn[tmNow].holds /\ c.worker = tmConn[tmNow].worker
          /\ c.dc = tmConn[tmNow].dc
      BY <3>2 DEF Conn, Link, Routine
    <3> HIDE DEF c, Stays
    <3> QED
      BY <1>2, <2>1, <3>1, <3>3, <3>4
  <2> QED
    BY <1>7, <2>2, <2>3 DEF DialWebSocket
<1>8. CASE CloseTearsDown \/ ReconnectTearsDown
  <2>1. UNCHANGED <<tmData, tmNow>> /\ tmConn' = [tmConn EXCEPT ![tmNow] = TornDown(tmConn[tmNow])]
    BY <1>8 DEF CloseTearsDown, ReconnectTearsDown
  <2> DEFINE c == TornDown(tmConn[tmNow])
  <2>2. tmNow \in TmConn
    BY <1>8 DEF CloseTearsDown, ReconnectTearsDown, At, TmInv, OneConnects
  <2>3. tmConn[tmNow] \in Conn
    BY <1>0, <2>2
  <2>4. c \in Conn /\ c.holds = tmConn[tmNow].holds /\ c.worker = tmConn[tmNow].worker /\ c.dc # "new"
    BY <2>3 DEF Conn, TornDown, Shut, Link
  <2> HIDE DEF c, Stays
  <2> QED
    BY <1>2, <2>1, <2>2, <2>4 DEF c
<1>9. CASE TmConnect \/ TmReconnectConnect
  <2>1. \E who \in {"owner", "watcher"}, from \in {"new", "informed"} : ConnectBegin(who, from)
    BY <1>9 DEF TmConnect, TmReconnectConnect
  <2> DEFINE dc == IF tmMedia' THEN "none" ELSE "new"
             c == [tmConn[tmNow + 1] EXCEPT !.dc = dc, !.pc = "new"]
  <2>2. /\ tmNow + 1 \in TmConn /\ tmNow' = tmNow + 1 /\ UNCHANGED tmData
        /\ tmConn' = [tmConn EXCEPT ![tmNow'].dc = dc, ![tmNow'].pc = "new"]
    BY <2>1 DEF ConnectBegin
  <2>3. tmConn[tmNow + 1] \in Conn /\ dc \in Link /\ "new" \in Link
    BY <1>0, <2>2 DEF Link
  <2> HIDE DEF dc
  <2>4. tmConn' = [tmConn EXCEPT ![tmNow + 1] = c]
    BY <1>0, <2>2, <2>3 DEF Conn
  <2>5. c \in Conn /\ c.holds = tmConn[tmNow + 1].holds /\ c.worker = tmConn[tmNow + 1].worker
    BY <2>3 DEF Conn
  <2> HIDE DEF c, Stays
  <2>6. tmNow + 1 > tmNow
    BY <1>0
  <2> QED
    BY <1>2, <2>2, <2>4, <2>5, <2>6
<1> QED
  BY <1>3, <1>5, <1>6, <1>7, <1>8, <1>9

(* The workers that the data channel starts have not run before.           *)
LEMMA OpeningLosesNothing ==
  ASSUME TmInv, TmInv', LostInv, DataChannelOpens PROVE LostInv'
<1>1. tmNow \in TmConn /\ tmConn[tmNow].dc = "new" /\ UNCHANGED <<tmNow, tmQueue, tmAccepted, tmSent>>
  BY DEF DataChannelOpens, TmInv, OneConnects, Cur, tmData
<1> DEFINE all == [w \in TmWorkers |-> "run"]
           c == [tmConn[tmNow] EXCEPT !.dc = "up", !.worker = all]
<1>2. tmConn[tmNow] \in Conn /\ tmConn \in [TmConn -> Conn]
  BY <1>1 DEF TmInv, TmTypes
<1>3. tmConn' = [tmConn EXCEPT ![tmNow] = c]
  BY <1>1, <1>2 DEF DataChannelOpens, Conn
<1>4. c.holds = tmConn[tmNow].holds /\ c.worker = all /\ c.dc = "up"
  BY <1>2 DEF Conn
<1>5. \A s \in TmConn : tmConn'[s] = IF s = tmNow THEN c ELSE tmConn[s]
  BY <1>2, <1>3
<1> HIDE DEF c
<1>6. \A w \in TmWorkers : tmConn[tmNow].worker[w] = "off" /\ c.worker[w] = "run"
  BY <1>1, <1>4 DEF LostInv, HoldsWhileRunning
<1>7. \A s \in TmConn : tmConn'[s].holds = tmConn[s].holds
  BY <1>4, <1>5
<1>8. Lost' = Lost /\ Holding' = Holding
  BY <1>1, <1>7 DEF Lost, TmKept, Holding, Pairs
<1>9. Stopped' = Stopped
  <2> SUFFICES ASSUME NEW p \in Pairs
               PROVE  tmConn'[p[1]].worker[p[2]] = "done" <=> tmConn[p[1]].worker[p[2]] = "done"
    BY DEF Stopped, Pairs
  <2>1. p[1] \in TmConn /\ p[2] \in TmWorkers
    BY DEF Pairs
  <2>2. CASE p[1] = tmNow
    BY <1>5, <1>6, <2>1, <2>2
  <2>3. CASE p[1] # tmNow
    BY <1>5, <2>1, <2>3
  <2> QED
    BY <2>2, <2>3
<1>10. HoldsWhileRunning'
  <2> SUFFICES ASSUME NEW s \in TmConn, NEW w \in TmWorkers
               PROVE  /\ tmConn'[s].holds[w] # 0 => tmConn'[s].worker[w] = "run"
                      /\ s > tmNow \/ tmConn'[s].dc = "new" => tmConn'[s].worker[w] = "off"
    BY <1>1 DEF HoldsWhileRunning
  <2>1. CASE s = tmNow
    BY <1>1, <1>4, <1>5, <1>6, <2>1, TmAssumption DEF TmConn
  <2>2. CASE s # tmNow
    BY <1>5, <2>2 DEF LostInv, HoldsWhileRunning
  <2> QED
    BY <2>1, <2>2
<1> QED
  BY <1>1, <1>8, <1>9, <1>10, NothingLost DEF LostInv

(* What Send accepts is in the queue.                                      *)
LEMMA SendLosesNothing == ASSUME TmInv, TmInv', LostInv, TmSend PROVE LostInv'
<1>1. UNCHANGED <<tmNow, tmConn, tmSent>> /\ tmAccepted' = tmAccepted + 1
      /\ tmQueue' = Append(tmQueue, tmAccepted + 1)
  BY DEF TmSend
<1>2. tmQueue \in Seq(TmMessage) /\ tmAccepted \in Nat /\ tmSent \in Seq(TmMessage)
  BY TmAssumption DEF TmInv, TmTypes, LostInv
<1>3. /\ Len(tmQueue') = Len(tmQueue) + 1 /\ Len(tmQueue) \in Nat /\ Len(tmSent) \in Nat
      /\ tmQueue'[Len(tmQueue) + 1] = tmAccepted + 1
      /\ \A i \in 1..Len(tmQueue) : tmQueue'[i] = tmQueue[i]
  BY <1>1, <1>2
<1>4. TmKept \cup {tmAccepted + 1} \subseteq TmKept'
  BY <1>1, <1>3 DEF TmKept
<1>5. Lost' \subseteq Lost
  BY <1>1, <1>2, <1>4 DEF Lost
<1>6. Holding' = Holding /\ Stopped' = Stopped /\ HoldsWhileRunning'
  BY <1>1 DEF Holding, Stopped, LostInv, HoldsWhileRunning
<1>7. Cardinality(Holding) \in Nat
  BY PairsAreFinite DEF Holding
<1>8. Len(tmQueue') + Len(tmSent') + Cardinality(Holding') <= tmAccepted'
  BY <1>1, <1>2, <1>3, <1>6, <1>7 DEF LostInv
<1> QED
  BY <1>1, <1>5, <1>6, <1>8, NothingLost DEF LostInv

(* A step of one worker, which then holds m and is in that state.          *)
Moves(s, w, m, state) ==
  tmConn' = [tmConn EXCEPT ![s] = [tmConn[s] EXCEPT !.holds = [tmConn[s].holds EXCEPT ![w] = m],
                                                    !.worker = [tmConn[s].worker EXCEPT ![w] = state]]]

(* Such a step leaves every other worker and every channel as it was.      *)
LEMMA OneWorkerMoves ==
  ASSUME TmInv, NEW s \in TmConn, NEW w \in TmWorkers, NEW m, NEW state,
         Moves(s, w, m, state)
  PROVE  \A t \in TmConn, v \in TmWorkers :
           /\ tmConn'[t].dc = tmConn[t].dc
           /\ tmConn'[t].holds[v] = IF t = s /\ v = w THEN m ELSE tmConn[t].holds[v]
           /\ tmConn'[t].worker[v] = IF t = s /\ v = w THEN state ELSE tmConn[t].worker[v]
<1>1. tmConn \in [TmConn -> Conn]
  BY DEF TmInv, TmTypes
<1>2. tmConn[s] \in Conn
  BY <1>1
<1>3. tmConn[s].holds \in [TmWorkers -> {0} \cup TmMessage] /\ tmConn[s].worker \in [TmWorkers -> Routine]
  BY <1>2 DEF Conn
<1> DEFINE held == [tmConn[s].holds EXCEPT ![w] = m]
           states == [tmConn[s].worker EXCEPT ![w] = state]
           c == [tmConn[s] EXCEPT !.holds = held, !.worker = states]
<1>4. \A v \in TmWorkers : /\ held[v] = IF v = w THEN m ELSE tmConn[s].holds[v]
                           /\ states[v] = IF v = w THEN state ELSE tmConn[s].worker[v]
  BY <1>3
<1>5. tmConn' = [tmConn EXCEPT ![s] = c]
  BY DEF Moves
<1> HIDE DEF held, states
<1>6. c.dc = tmConn[s].dc /\ c.holds = held /\ c.worker = states
  BY <1>2 DEF Conn
<1> HIDE DEF c
<1>7. \A t \in TmConn : tmConn'[t] = IF t = s THEN c ELSE tmConn[t]
  BY <1>1, <1>5
<1> TAKE t \in TmConn, v \in TmWorkers
<1>8. CASE t = s
  BY <1>4, <1>6, <1>7, <1>8
<1>9. CASE t # s
  <2>1. tmConn'[t] = tmConn[t]
    BY <1>7, <1>9
  <2> QED
    BY <1>9, <2>1
<1> QED
  BY <1>8, <1>9

(* A worker that takes or sends a message loses none, and one that fails   *)
(* or stops loses at most the one it holds.                                *)
LEMMA WorkersLoseWhatTheyHold ==
  ASSUME TmInv, TmInv', LostInv, NEW s \in TmConn, NEW w \in TmWorkers,
         WorkerTakes(s, w) \/ WorkerSends(s, w) \/ WorkerFails(s, w) \/ WorkerStops(s, w)
  PROVE  LostInv'
<1> DEFINE p == <<s, w>>
           old == tmConn[s].holds[w]
<1>0. /\ tmConn \in [TmConn -> Conn] /\ tmConn[s] \in Conn /\ tmQueue \in Seq(TmMessage)
      /\ tmSent \in Seq(TmMessage) /\ tmAccepted \in Nat /\ tmAccepted \in 0..TmMessages
  BY TmAssumption DEF TmInv, TmTypes, LostInv
<1>1. p \in Pairs /\ old \in {0} \cup TmMessage /\ tmNow' = tmNow
      /\ Len(tmQueue) \in Nat /\ Len(tmSent) \in Nat
  BY <1>0 DEF Pairs, Conn, WorkerTakes, WorkerSends, WorkerFails, WorkerStops
<1>2. /\ IsFiniteSet(Holding) /\ Cardinality(Holding) \in Nat
      /\ IsFiniteSet(Stopped) /\ Cardinality(Stopped) \in Nat
      /\ IsFiniteSet(Lost) /\ Cardinality(Lost) \in Nat
  BY PairsAreFinite, LostIsFinite DEF Holding, Stopped, TmInv
<1>3. ASSUME NEW m, NEW state,
             Moves(s, w, m, state)
      PROVE  /\ Holding' = IF m = 0 THEN Holding \ {p} ELSE Holding \cup {p}
             /\ Stopped' = IF state = "done" THEN Stopped \cup {p} ELSE Stopped \ {p}
             /\ \A t \in TmConn, v \in TmWorkers :
                  /\ tmConn'[t].dc = tmConn[t].dc
                  /\ tmConn'[t].holds[v] = IF <<t, v>> = p THEN m ELSE tmConn[t].holds[v]
                  /\ tmConn'[t].worker[v] = IF <<t, v>> = p THEN state ELSE tmConn[t].worker[v]
  <2>1. \A t \in TmConn, v \in TmWorkers :
           /\ tmConn'[t].dc = tmConn[t].dc
           /\ tmConn'[t].holds[v] = IF t = s /\ v = w THEN m ELSE tmConn[t].holds[v]
           /\ tmConn'[t].worker[v] = IF t = s /\ v = w THEN state ELSE tmConn[t].worker[v]
    BY <1>3, OneWorkerMoves
  <2>2. \A q \in Pairs :
           /\ q[1] \in TmConn /\ q[2] \in TmWorkers /\ (q[1] = s /\ q[2] = w <=> q = p)
           /\ tmConn'[q[1]].holds[q[2]] = IF q = p THEN m ELSE tmConn[q[1]].holds[q[2]]
           /\ tmConn'[q[1]].worker[q[2]] = IF q = p THEN state ELSE tmConn[q[1]].worker[q[2]]
    BY <2>1 DEF Pairs
  <2>3. Holding' = IF m = 0 THEN Holding \ {p} ELSE Holding \cup {p}
    BY <1>1, <2>2 DEF Holding, Pairs
  <2>4. Stopped' = IF state = "done" THEN Stopped \cup {p} ELSE Stopped \ {p}
    BY <1>1, <2>2 DEF Stopped, Pairs
  <2>5. \A t \in TmConn, v \in TmWorkers : <<t, v>> = p <=> t = s /\ v = w
    OBVIOUS
  <2> HIDE DEF p
  <2> QED
    BY <2>1, <2>3, <2>4, <2>5
<1> HIDE DEF p
<1>4. CASE WorkerTakes(s, w)
  <2>1. /\ tmQueue # <<>> /\ old = 0 /\ tmConn[s].worker[w] = "run" /\ p \notin Holding
        /\ UNCHANGED <<tmAccepted, tmSent>> /\ tmQueue' = Tail(tmQueue)
    BY <1>4 DEF WorkerTakes, Holding, p
  <2>2. /\ Head(tmQueue) \in TmMessage /\ Len(tmQueue') = Len(tmQueue) - 1
        /\ \A i \in 1..Len(tmQueue) :
             tmQueue[i] = Head(tmQueue) \/ \E j \in 1..Len(tmQueue') : tmQueue[i] = tmQueue'[j]
    <3>1. \A i \in 1..Len(tmQueue) : i = 1 \/ (i - 1 \in 1..Len(tmQueue') /\ tmQueue[i] = tmQueue'[i - 1])
      BY <1>0, <2>1
    <3>2. Head(tmQueue) \in TmMessage /\ Len(tmQueue') = Len(tmQueue) - 1 /\ tmQueue[1] = Head(tmQueue)
      BY <1>0, <2>1
    <3> QED
      BY <3>1, <3>2
  <2>3. CASE Head(tmQueue) \in TmOversized
    <3>1. UNCHANGED tmConn
      BY <1>4, <2>3 DEF WorkerTakes
    <3>2. Lost' \subseteq Lost
      BY <2>1, <2>2, <2>3, <3>1 DEF Lost, TmKept
    <3>3. Holding' = Holding /\ Stopped' = Stopped /\ HoldsWhileRunning'
      BY <1>1, <3>1 DEF Holding, Stopped, LostInv, HoldsWhileRunning
    <3>4. Len(tmQueue') + Len(tmSent') + Cardinality(Holding') <= tmAccepted'
      BY <1>0, <1>1, <1>2, <2>1, <2>2, <3>3 DEF LostInv
    <3> QED
      BY <1>0, <2>1, <3>2, <3>3, <3>4, NothingLost
  <2>4. CASE Head(tmQueue) \notin TmOversized
    <3> DEFINE m == Head(tmQueue)
    <3>1. Moves(s, w, m, "run")
      <4>1. tmConn' = [tmConn EXCEPT ![s].holds[w] = m]
        BY <1>4, <2>4 DEF WorkerTakes
      <4>2. [tmConn[s].worker EXCEPT ![w] = "run"] = tmConn[s].worker
        BY <1>0, <2>1 DEF Conn
      <4> QED
        BY <1>0, <4>1, <4>2 DEF Conn, Moves
    <3>2. m # 0 /\ m \in TmMessage
      BY <2>2 DEF TmMessage
    <3> HIDE DEF m
    <3>3. /\ Holding' = Holding \cup {p} /\ Stopped' = Stopped \ {p}
          /\ \A t \in TmConn, v \in TmWorkers :
                  /\ tmConn'[t].dc = tmConn[t].dc
                  /\ tmConn'[t].holds[v] = IF <<t, v>> = p THEN m ELSE tmConn[t].holds[v]
                  /\ tmConn'[t].worker[v] = IF <<t, v>> = p THEN "run" ELSE tmConn[t].worker[v]
      BY <1>3, <3>1, <3>2
    <3>4. Stopped' = Stopped
      BY <2>1, <3>3 DEF Stopped, p
    <3>5. Cardinality(Holding') = Cardinality(Holding) + 1
      BY <1>2, <2>1, <3>3, FS_AddElement
    <3>6. HoldsWhileRunning'
      BY <1>1, <2>1, <3>3 DEF LostInv, HoldsWhileRunning, p
    <3>7. TmKept \subseteq TmKept'
      <4>1. \E t \in TmConn, v \in TmWorkers : tmConn'[t].holds[v] = m
        BY <3>3 DEF p
      <4>2. \A t \in TmConn, v \in TmWorkers :
              tmConn[t].holds[v] \in TmMessage => tmConn'[t].holds[v] = tmConn[t].holds[v]
        BY <2>1, <3>3 DEF p, TmMessage
      <4>3. \A i \in 1..Len(tmQueue) : tmQueue[i] \in TmKept'
        BY <2>2, <3>2, <4>1 DEF TmKept, m
      <4>4. \A n \in TmMessage :
              (\E t \in TmConn, v \in TmWorkers : tmConn[t].holds[v] = n)
                => \E t \in TmConn, v \in TmWorkers : tmConn'[t].holds[v] = n
        BY <4>2
      <4> QED
        BY <2>1, <4>3, <4>4 DEF TmKept
    <3>8. Lost' \subseteq Lost
      BY <2>1, <3>7 DEF Lost
    <3>9. Len(tmQueue') + Len(tmSent') + Cardinality(Holding') <= tmAccepted'
      BY <1>0, <1>1, <1>2, <2>1, <2>2, <3>5 DEF LostInv
    <3> QED
      BY <1>0, <2>1, <3>4, <3>6, <3>8, <3>9, NothingLost
  <2> QED
    BY <2>3, <2>4
<1>5. CASE WorkerSends(s, w)
  <2>1. /\ old # 0 /\ old \in TmMessage /\ tmConn[s].worker[w] = "run" /\ p \in Holding
        /\ UNCHANGED <<tmAccepted, tmQueue>> /\ tmSent' = Append(tmSent, old)
    BY <1>1, <1>5 DEF WorkerSends, Holding, p, LostInv, HoldsWhileRunning
  <2>2. Moves(s, w, 0, "run")
    <3>1. tmConn' = [tmConn EXCEPT ![s].holds[w] = 0]
      BY <1>5 DEF WorkerSends
    <3>2. [tmConn[s].worker EXCEPT ![w] = "run"] = tmConn[s].worker
      BY <1>0, <2>1 DEF Conn
    <3> QED
      BY <1>0, <3>1, <3>2 DEF Conn, Moves
  <2>3. /\ Holding' = Holding \ {p} /\ Stopped' = Stopped \ {p}
        /\ \A t \in TmConn, v \in TmWorkers :
                /\ tmConn'[t].dc = tmConn[t].dc
                /\ tmConn'[t].holds[v] = IF <<t, v>> = p THEN 0 ELSE tmConn[t].holds[v]
                /\ tmConn'[t].worker[v] = IF <<t, v>> = p THEN "run" ELSE tmConn[t].worker[v]
    BY <1>3, <2>2
  <2>4. Stopped' = Stopped
    BY <2>1, <2>3 DEF Stopped, p
  <2>5. Cardinality(Holding') = Cardinality(Holding) - 1
    BY <1>2, <2>1, <2>3, FS_RemoveElement
  <2>6. HoldsWhileRunning'
    BY <1>1, <2>1, <2>3 DEF LostInv, HoldsWhileRunning, p
  <2> HIDE DEF old
  <2>7. /\ tmSent' \in Seq(TmMessage) /\ Len(tmSent') = Len(tmSent) + 1
        /\ tmSent'[Len(tmSent) + 1] = old
        /\ \A i \in 1..Len(tmSent) : tmSent'[i] = tmSent[i]
    BY <1>0, <2>1
  <2>8. TmKept \subseteq TmKept'
    <3>1. old \in TmKept'
      BY <1>1, <2>7 DEF TmKept
    <3>2. \A t \in TmConn, v \in TmWorkers :
            tmConn[t].holds[v] = old \/ tmConn'[t].holds[v] = tmConn[t].holds[v]
      BY <2>3 DEF p, old
    <3>3. \A n \in TmMessage :
            (\E t \in TmConn, v \in TmWorkers : tmConn[t].holds[v] = n)
              => n = old \/ \E t \in TmConn, v \in TmWorkers : tmConn'[t].holds[v] = n
      BY <3>2
    <3>4. \A i \in 1..Len(tmSent) : tmSent[i] \in TmKept'
      BY <1>1, <2>7 DEF TmKept
    <3> QED
      BY <2>1, <3>1, <3>3, <3>4 DEF TmKept
  <2>9. Lost' \subseteq Lost
    BY <2>1, <2>8 DEF Lost
  <2>10. Len(tmQueue') + Len(tmSent') + Cardinality(Holding') <= tmAccepted'
    BY <1>0, <1>1, <1>2, <2>1, <2>5, <2>7 DEF LostInv
  <2> QED
    BY <2>4, <2>6, <2>7, <2>9, <2>10, NothingLost
<1>6. CASE WorkerFails(s, w) \/ WorkerStops(s, w)
  <2>1. tmConn[s].worker[w] = "run" /\ p \notin Stopped /\ UNCHANGED <<tmAccepted, tmQueue, tmSent>>
    BY <1>6 DEF WorkerFails, WorkerStops, Stopped, p, LostInv, HoldsWhileRunning, tmData
  <2>2. Moves(s, w, 0, "done")
    <3>1. \/ tmConn' = [tmConn EXCEPT ![s].holds[w] = 0, ![s].worker[w] = "done"]
          \/ tmConn' = [tmConn EXCEPT ![s].worker[w] = "done", ![s].holds[w] = 0]
      BY <1>6 DEF WorkerFails, WorkerStops, AfterError
    <3> QED
      BY <1>0, <3>1 DEF Conn, Moves
  <2>3. /\ Holding' = Holding \ {p} /\ Stopped' = Stopped \cup {p}
        /\ \A t \in TmConn, v \in TmWorkers :
                /\ tmConn'[t].dc = tmConn[t].dc
                /\ tmConn'[t].holds[v] = IF <<t, v>> = p THEN 0 ELSE tmConn[t].holds[v]
                /\ tmConn'[t].worker[v] = IF <<t, v>> = p THEN "done" ELSE tmConn[t].worker[v]
    BY <1>3, <2>2
  <2>4. Cardinality(Stopped') = Cardinality(Stopped) + 1
    BY <1>2, <2>1, <2>3, FS_AddElement
  <2>5. Cardinality(Holding') <= Cardinality(Holding) /\ Cardinality(Holding') \in Nat
    <3>1. Cardinality(Holding') = IF p \in Holding THEN Cardinality(Holding) - 1 ELSE Cardinality(Holding)
      BY <1>2, <2>3, FS_RemoveElement
    <3>2. IsFiniteSet(Holding')
      BY <1>2, <2>3, FS_RemoveElement
    <3>3. Cardinality(Holding') \in Nat
      BY <3>2, FS_CardinalityType
    <3> QED
      BY <1>2, <3>1, <3>3
  <2>6. HoldsWhileRunning'
    BY <1>1, <2>1, <2>3 DEF LostInv, HoldsWhileRunning, p
  <2>7. Lost' \subseteq Lost \cup {old}
    <3>1. \A t \in TmConn, v \in TmWorkers :
            tmConn[t].holds[v] = old \/ tmConn'[t].holds[v] = tmConn[t].holds[v]
      BY <2>3 DEF p
    <3> HIDE DEF old
    <3>2. \A n \in TmMessage :
            (\E t \in TmConn, v \in TmWorkers : tmConn[t].holds[v] = n)
              => n = old \/ \E t \in TmConn, v \in TmWorkers : tmConn'[t].holds[v] = n
      BY <3>1
    <3>3. TmKept \subseteq TmKept' \cup {old}
      BY <2>1, <3>2 DEF TmKept
    <3> QED
      BY <2>1, <3>3 DEF Lost
  <2>8. Cardinality(Lost') <= Cardinality(Lost) + 1 /\ Cardinality(Lost') \in Nat
    <3> HIDE DEF old
    <3>1. IsFiniteSet(Lost \cup {old}) /\ Cardinality(Lost \cup {old}) <= Cardinality(Lost) + 1
      <4>1. Cardinality(Lost \cup {old}) \in {Cardinality(Lost), Cardinality(Lost) + 1}
        BY <1>2, FS_AddElement
      <4>2. IsFiniteSet(Lost \cup {old})
        BY <1>2, FS_AddElement
      <4> QED
        BY <1>2, <4>1, <4>2
    <3>2. IsFiniteSet(Lost') /\ Cardinality(Lost') <= Cardinality(Lost \cup {old})
      BY <2>7, <3>1, FS_Subset
    <3>3. Cardinality(Lost') \in Nat /\ Cardinality(Lost \cup {old}) \in Nat
      BY <3>1, <3>2, FS_CardinalityType
    <3> QED
      BY <1>2, <3>1, <3>2, <3>3
  <2>9. Len(tmQueue') + Len(tmSent') + Cardinality(Holding') <= tmAccepted'
    BY <1>0, <1>1, <1>2, <2>1, <2>5 DEF LostInv
  <2>10. Cardinality(Lost') <= Cardinality(Stopped')
    BY <1>2, <2>4, <2>8 DEF LostInv
  <2> QED
    BY <1>0, <2>1, <2>6, <2>9, <2>10 DEF LostInv
<1> QED
  BY <1>4, <1>5, <1>6

(* Each step of Telemost keeps LostInv.                                    *)
LEMMA LostSteps == TmInv /\ TmInv' /\ LostInv /\ [TmNext]_tmVars => LostInv'
<1> SUFFICES ASSUME TmInv, TmInv', LostInv, [TmNext]_tmVars PROVE LostInv'
  OBVIOUS
<1>1. CASE UNCHANGED tmVars
  <2>1. UNCHANGED <<tmData, tmNow, tmConn>>
    BY <1>1 DEF tmVars
  <2> QED
    BY <2>1, NoWorkerMoves
<1>2. CASE TmNext
  <2>1. CASE TmSend
    BY <2>1, SendLosesNothing
  <2>2. CASE DataChannelOpens
    BY <2>2, OpeningLosesNothing
  <2>3. CASE \E s \in TmConn, w \in TmWorkers :
               WorkerTakes(s, w) \/ WorkerSends(s, w) \/ WorkerFails(s, w) \/ WorkerStops(s, w)
    BY <2>3, WorkersLoseWhatTheyHold
  <2>4. CASE \/ Talk /\ ~TmSend
             \/ PcConnected \/ WebSocketFails \/ \E side \in {"pc", "dc"} : LinkFails(side)
             \/ \E s \in TmConn : ReaderFails(s) \/ PingFails(s) \/ PingerStops(s) \/ ConferenceEnds(s)
             \/ \E who \in {"owner", "watcher"} : DialWebSocket(who)
             \/ CloseTearsDown \/ ReconnectTearsDown
             \/ TmConnect \/ TmReconnectConnect
    BY <2>4, OthersLoseNothing
  <2> QED
    BY <1>2, <2>1, <2>2, <2>3, <2>4 DEF TmNext, TmProgress, TmWatcherSteps, TmWorkerSteps, Talk
<1> QED
  BY <1>1, <1>2

(* However the connections fail and are replaced, a message that Send has  *)
(* accepted is waiting, held, sent or too long, but for at most one for    *)
(* every worker that has ended; and no more of them wait or are sent than  *)
(* were accepted.                                                          *)
THEOREM WorkersLoseOneEach == TmSpec => []TmConserved
<1>1. TmInv /\ LostInv => TmConserved
  <2> SUFFICES ASSUME TmInv, LostInv PROVE TmConserved
    OBVIOUS
  <2>1. Cardinality(Holding) \in Nat
    BY PairsAreFinite DEF Holding
  <2>2. Len(tmQueue) \in Nat /\ Len(tmSent) \in Nat /\ tmAccepted \in Nat
    BY TmAssumption DEF TmInv, TmTypes, LostInv
  <2>3. Len(tmQueue) + Len(tmSent) <= tmAccepted
    BY <2>1, <2>2 DEF LostInv
  <2> QED
    BY <2>3 DEF LostInv, TmConserved, Lost, Stopped, Pairs
<1> QED
  BY <1>1, TmAlways, LostStarts, LostSteps, PTL DEF TmSpec

-----------------------------------------------------------------------------
(* Types.                                                                  *)

(* The flags of the peer, its counts and its telemetry.  The attempt that  *)
(* passes the bound of the count is the last one.                          *)
TmFlagsOK ==
  /\ {tmClosed, tmCloseCh, tmReconnecting, tmReconnectCh, tmTelemetryCh} \subseteq BOOLEAN
  /\ {tmMedia, tmEnded, tmCtx, tmMissed, tmLate} \subseteq BOOLEAN
  /\ tmTelemetry \in {"off", "on"} /\ tmFaults \in 0..TmFaults /\ tmCount \in 0..(TmMaxCount + 1)
  /\ tmCount > TmMaxCount => tmPc.watcher = "gone"

(* The flags and counts before Connect.                                    *)
LEMMA TmFlagsStart == TmInit => TmFlagsOK
<1> SUFFICES ASSUME TmInit PROVE TmFlagsOK
  OBVIOUS
<1>1. tmCount = 0 /\ tmFaults = 0 /\ tmTelemetry = "off"
  BY DEF TmInit
<1>2. {tmClosed, tmCloseCh, tmReconnecting, tmReconnectCh, tmTelemetryCh,
       tmMedia, tmEnded, tmCtx, tmMissed, tmLate} \subseteq BOOLEAN
  BY DEF TmInit
<1> QED
  BY <1>1, <1>2, TmAssumption DEF TmFlagsOK

(* WatchConnection is started once.                                        *)
LEMMA GoneStays ==
  ASSUME TmInv, TmNext, tmPc.watcher = "gone" PROVE tmPc'.watcher = "gone"
<1> USE DEF At, TmGoto
<1>0. tmPc \in [owner : OwnerPc, watcher : WatcherPc] /\ OneConnects
  BY DEF TmInv, TmTypes
<1>1. CASE \E who \in {"owner", "watcher"} : DialWebSocket(who) \/ AwaitReady(who) \/ AwaitFails(who)
  <2>1. PICK who \in {"owner", "watcher"} : DialWebSocket(who) \/ AwaitReady(who) \/ AwaitFails(who)
    BY <1>1
  <2>2. CASE who = "owner"
    BY <1>0, <2>1, <2>2 DEF DialWebSocket, AwaitReady, AwaitFails, OneConnects, ConnectError
  <2>3. CASE who = "watcher"
    BY <1>0, <2>1, <2>3 DEF DialWebSocket, AwaitReady, AwaitFails
  <2> QED
    BY <2>1, <2>2, <2>3
<1>2. CASE CloseBegins \/ LeaveAnswered \/ CloseTearsDown \/ CloseReturns
  BY <1>0, <1>2 DEF CloseBegins, LeaveAnswered, CloseTearsDown, CloseReturns
<1>3. CASE TmWatcherSteps
  BY <1>0, <1>3 DEF TmWatcherSteps, WatchEnds, ReconnectAttempt, ReconnectAgain, ReconnectTearsDown,
     ReconnectInforms, TmReconnectConnect, ReconnectDone, ConnectBegin, ConnectError
<1>4. CASE TmConnect
  BY <1>0, <1>4 DEF TmConnect, ConnectBegin
<1>5. CASE TmWorkerSteps
  BY <1>5 DEF TmWorkerSteps, WorkerTakes, WorkerSends, WorkerFails, WorkerStops
<1>6. CASE \/ PcConnected \/ DataChannelOpens \/ TelemetryEnds \/ TmSend \/ TmCancel \/ WebSocketFails
           \/ \E side \in {"pc", "dc"} : LinkFails(side)
           \/ \E s \in TmConn : \/ ReaderFails(s) \/ PingFails(s) \/ PingerStops(s)
                                \/ ServerHello(s) \/ ConferenceEnds(s)
  BY <1>6 DEF PcConnected, DataChannelOpens, TelemetryEnds, TmSend, TmCancel, WebSocketFails, LinkFails,
     ReaderFails, PingFails, PingerStops, ServerHello, ConferenceEnds
<1> QED
  BY <1>1, <1>2, <1>3, <1>4, <1>5, <1>6 DEF TmNext, TmProgress

(* Each step keeps the flags and counts; only an attempt of the watcher    *)
(* counts.                                                                 *)
LEMMA TmFlagsStep == TmInv /\ TmFlagsOK /\ [TmNext]_tmVars => TmFlagsOK'
<1> SUFFICES ASSUME TmInv, TmFlagsOK, [TmNext]_tmVars PROVE TmFlagsOK'
  OBVIOUS
<1>0. CASE UNCHANGED tmVars
  BY <1>0 DEF tmVars, tmFlags, tmTele, tmWorld, tmHistory, TmFlagsOK
<1> SUFFICES ASSUME TmNext PROVE TmFlagsOK'
  BY <1>0
<1>1. tmPc.watcher = "gone" => tmPc'.watcher = "gone"
  BY GoneStays
<1>2. UNCHANGED tmFaults \/ Fault => tmFaults' \in 0..TmFaults
  BY TmAssumption DEF TmFlagsOK, Fault
<1>3. Queued \in BOOLEAN /\ Missed \in BOOLEAN
  BY DEF Queued, Missed
<1>4. StopTelemetry => tmTelemetryCh' \in BOOLEAN
  BY DEF StopTelemetry
<1> USE <1>1 DEF TmFlagsOK, tmFlags, tmTele, tmWorld, tmHistory
<1>5. CASE TmConnect \/ TmReconnectConnect
  BY <1>5 DEF TmConnect, TmReconnectConnect, ConnectBegin
<1>6. ASSUME NEW who \in {"owner", "watcher"}, DialWebSocket(who)
      PROVE  TmFlagsOK'
  BY <1>2, <1>6 DEF DialWebSocket, ReconnectOver
<1>7. ASSUME NEW who \in {"owner", "watcher"}, AwaitReady(who) \/ AwaitFails(who)
      PROVE  TmFlagsOK'
  BY <1>2, <1>7 DEF AwaitReady, AwaitFails, ReconnectOver
<1>8. CASE PcConnected \/ DataChannelOpens \/ WebSocketFails \/ \E side \in {"pc", "dc"} : LinkFails(side)
  BY <1>2, <1>3, <1>8 DEF PcConnected, DataChannelOpens, WebSocketFails, LinkFails
<1>9. CASE \E s \in TmConn : ReaderFails(s) \/ PingFails(s) \/ PingerStops(s)
  BY <1>3, <1>9 DEF ReaderFails, PingFails, PingerStops
<1>10. CASE \E s \in TmConn : ServerHello(s) \/ ConferenceEnds(s)
  BY <1>4, <1>10 DEF ServerHello, ConferenceEnds
<1>11. CASE TelemetryEnds \/ TmSend \/ TmCancel
  BY <1>11 DEF TelemetryEnds, TmSend, TmCancel
<1>12. CASE TmWorkerSteps
  BY <1>3, <1>12 DEF TmWorkerSteps, WorkerTakes, WorkerSends, WorkerFails, WorkerStops
<1>13. CASE CloseBegins \/ LeaveAnswered \/ CloseTearsDown \/ CloseReturns
  BY <1>4, <1>13 DEF CloseBegins, LeaveAnswered, CloseTearsDown, CloseReturns
<1>14. CASE WatchEnds \/ ReconnectAgain \/ ReconnectTearsDown \/ ReconnectInforms \/ ReconnectDone
  BY <1>2, <1>4, <1>14 DEF WatchEnds, ReconnectAgain, ReconnectTearsDown, ReconnectInforms, ReconnectDone
<1>15. CASE ReconnectAttempt
  <2>1. tmPc.watcher = "watch" /\ tmCount' \in {1, tmCount + 1}
    BY <1>15 DEF ReconnectAttempt, At
  <2>2. tmCount <= TmMaxCount /\ tmCount \in Nat
    BY <2>1, TmAssumption
  <2>3. tmCount' \in 0..(TmMaxCount + 1)
    BY <2>1, <2>2, TmAssumption
  <2>4. tmCount' > TmMaxCount => tmPc'.watcher = "gone"
    BY <1>15 DEF ReconnectAttempt, TmGoto, TmInv, TmTypes
  <2>5. /\ UNCHANGED <<tmCloseCh, tmTelemetry, tmMedia, tmCtx, tmFaults, tmMissed, tmLate>>
        /\ {tmClosed, tmReconnecting, tmReconnectCh, tmEnded, tmTelemetryCh}' \subseteq BOOLEAN
    BY <1>4, <1>15 DEF ReconnectAttempt
  <2> QED
    BY <2>3, <2>4, <2>5
<1> QED
  BY <1>5, <1>6, <1>7, <1>8, <1>9, <1>10, <1>11, <1>12, <1>13, <1>14, <1>15
     DEF TmNext, TmProgress, TmWatcherSteps

TmAllInv == TmInv /\ LostInv /\ TmFlagsOK

(* All three invariants together, from which the types of the module       *)
(* follow.                                                                 *)
LEMMA TmAllStarts == TmInit => TmAllInv
BY TmStarts, LostStarts, TmFlagsStart DEF TmAllInv

(* Each step keeps the three of them.                                      *)
LEMMA TmAllSteps == TmAllInv /\ [TmNext]_tmVars => TmAllInv'
BY TmSteps, LostSteps, TmFlagsStep DEF TmAllInv

(* They contain the type invariant of TelemostPeer.                        *)
LEMMA TmAllTyped == TmAllInv => TmTypeOK
<1> SUFFICES ASSUME TmAllInv PROVE TmTypeOK
  OBVIOUS
<1>1. tmNow \in 0..(TmFaults + 1)
  BY TmAssumption DEF TmAllInv, TmInv, TmTypes, OneConnects, TmConn
<1>2. \A f \in {tmClosed, tmCloseCh, tmReconnecting, tmReconnectCh, tmTelemetryCh} : f \in BOOLEAN
  BY DEF TmAllInv, TmFlagsOK
<1>3. \A f \in {tmMedia, tmEnded, tmCtx, tmMissed, tmLate} : f \in BOOLEAN
  BY DEF TmAllInv, TmFlagsOK
<1> QED
  BY <1>1, <1>2, <1>3 DEF TmTypeOK, TmAllInv, TmInv, TmTypes, LostInv, TmFlagsOK

(* Whichever provider the program uses, its state is of the types the      *)
(* modules declare: the connection in use is one that was numbered, the    *)
(* reconnections stay within their bound plus the one that gives up, the   *)
(* queue of WB Stream within its capacity.                                 *)
THEOREM ProvidersAreTyped == Spec => []ProvidersTypeOK
<1> DEFINE Inv == TmAllInv /\ JzInv /\ WbInv
<1>1. Init => Inv
  BY TmAllStarts, JzStarting, WbStarts DEF Init
<1>2. Inv /\ [Next]_providerVars => Inv'
  <2> SUFFICES ASSUME Inv, [Next]_providerVars PROVE Inv'
    OBVIOUS
  <2>1. [TmNext]_tmVars /\ [JzNext]_jzVars /\ [WbNext]_wbVars
    BY DEF Next, providerVars
  <2> QED
    BY <2>1, TmAllSteps, JzSteps, WbSteps
<1>3. Inv => ProvidersTypeOK
  BY TmAllTyped DEF JzInv, WbInv, ProvidersTypeOK
<1> QED
  BY <1>1, <1>2, <1>3, PTL DEF Spec

=============================================================================
