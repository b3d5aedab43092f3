------------------------------ MODULE JazzPeer ------------------------------
(***************************************************************************)
(* The Jazz provider (provider/jazz/peer.go).  It has the parts of the     *)
(* Telemost peer, but one worker for its send queue, and a WatchConnection *)
(* that takes the requests to reconnect and does nothing about them: there *)
(* is one connection in the life of a peer.  Its owner closes it when the  *)
(* context has ended.                                                      *)
(***************************************************************************)
EXTENDS Naturals, Sequences

CONSTANTS
  JzWorkers,    \* workers there could be; the code starts one of them
  JzOversized,  \* messages longer than maxDataChannelMessageSize
  JzMessages    \* bound: number of messages that are sent

ASSUME JzAssumption == JzMessages \in Nat

JzMessage == 1..JzMessages

VARIABLES
  jzMedia,          \* onData is nil: video tracks, no data channel
  jzOwner,          \* where Connect and Close of the owner are
  jzWatcher,        \* WatchConnection
  jzDc, jzWs, jzSub, jzPub,   \* the objects of the connection
  jzReader,         \* handleSignaling
  jzWorker, jzHolds,          \* processSendQueue and the message taken, 0 for none
  jzQueue, jzAccepted, jzSent,
  jzClosed, jzCloseCh, jzReconnectCh,   \* fields of these names
  jzCtx             \* the context has ended

jzLink == <<jzDc, jzWs, jzSub, jzPub>>
jzData == <<jzQueue, jzAccepted, jzSent>>
jzSend == <<jzWorker, jzHolds, jzData>>
jzFlags == <<jzClosed, jzCloseCh, jzReconnectCh>>
jzVars == <<jzMedia, jzOwner, jzWatcher, jzLink, jzReader, jzSend, jzFlags, jzCtx>>

JzObject == {"none", "new", "offered", "answered", "up", "down"}

JzTypeOK ==
  /\ {jzMedia, jzClosed, jzCloseCh, jzReconnectCh, jzCtx} \subseteq BOOLEAN
  /\ jzOwner \in {"new", "dial", "join", "await", "up", "failed", "waiting", "closing", "closed"}
  /\ {jzDc, jzWs, jzSub, jzPub} \subseteq JzObject
  /\ {jzWatcher, jzReader} \subseteq {"off", "run", "done"}
  /\ jzWorker \in [JzWorkers -> {"off", "run", "done"}]
  /\ jzHolds \in [JzWorkers -> {0} \cup JzMessage]
  /\ jzQueue \in Seq(JzMessage) /\ jzAccepted \in 0..JzMessages /\ jzSent \in Seq(JzMessage)

JzInit ==
  /\ jzMedia = FALSE /\ jzOwner = "new" /\ jzWatcher = "off" /\ jzReader = "off"
  /\ jzDc = "none" /\ jzWs = "none" /\ jzSub = "none" /\ jzPub = "none"
  /\ jzWorker = [w \in JzWorkers |-> "off"] /\ jzHolds = [w \in JzWorkers |-> 0]
  /\ jzQueue = <<>> /\ jzAccepted = 0 /\ jzSent = <<>>
  /\ jzClosed = FALSE /\ jzCloseCh = FALSE /\ jzReconnectCh = FALSE /\ jzCtx = FALSE

-----------------------------------------------------------------------------
(* Connect.                                                                *)

JzConnect ==
  /\ jzOwner = "new" /\ jzOwner' = "dial"
  /\ jzMedia' \in BOOLEAN
  /\ jzClosed' = FALSE
  /\ jzSub' = "new" /\ jzPub' = "new" /\ jzDc' = IF jzMedia' THEN "none" ELSE "new"
  /\ UNCHANGED <<jzWatcher, jzWs, jzReader, jzSend, jzCloseCh, jzReconnectCh, jzCtx>>

JzDialWebSocket ==
  /\ jzOwner = "dial"
  /\ \/ jzOwner' = "join" /\ jzWs' = "up"
     \/ jzOwner' = "failed" /\ UNCHANGED jzWs
  /\ UNCHANGED <<jzMedia, jzWatcher, jzDc, jzSub, jzPub, jzReader, jzSend, jzFlags, jzCtx>>

JzSendJoin ==
  /\ jzOwner = "join"
  /\ \/ jzWs = "up" /\ jzOwner' = "await" /\ jzReader' = "run"
     \/ jzWs = "down" /\ jzOwner' = "failed" /\ UNCHANGED jzReader
  /\ UNCHANGED <<jzMedia, jzWatcher, jzLink, jzSend, jzFlags, jzCtx>>

(* The select of waitForReady.  The owner starts WatchConnection.          *)
JzWaitForReady ==
  /\ jzOwner = "await"
  /\ \/ /\ IF jzMedia THEN jzSub = "up" ELSE jzDc = "up"
        /\ jzOwner' = "up" /\ jzWatcher' = "run"
     \/ jzOwner' = "failed" /\ UNCHANGED jzWatcher
  /\ UNCHANGED <<jzMedia, jzLink, jzReader, jzSend, jzFlags, jzCtx>>

-----------------------------------------------------------------------------
(* The network, handleSignaling and the callbacks of the WebRTC objects.   *)

JzQueued == jzReconnectCh \/ ~jzClosed
JzReads == jzReader = "run" /\ jzWs = "up"

JzSignal(sub, pub) ==
  /\ JzReads /\ jzSub' = sub /\ jzPub' = pub
  /\ UNCHANGED <<jzMedia, jzOwner, jzWatcher, jzDc, jzWs, jzReader, jzSend, jzFlags, jzCtx>>

(* rtc:offer is answered, and followed by the offer of the publisher.      *)
JzSubscriberOffer == jzSub = "new" /\ JzSignal("answered", IF jzPub = "new" THEN "offered" ELSE jzPub)
JzPublisherAnswer == jzPub = "offered" /\ JzSignal(jzSub, "answered")

JzSubscriberUp ==
  /\ jzSub = "answered" /\ jzSub' = "up"
  /\ UNCHANGED <<jzMedia, jzOwner, jzWatcher, jzDc, jzWs, jzPub, jzReader, jzSend, jzFlags, jzCtx>>

JzPublisherUp ==
  /\ jzPub = "answered" /\ jzPub' = "up"
  /\ UNCHANGED <<jzMedia, jzOwner, jzWatcher, jzDc, jzWs, jzSub, jzReader, jzSend, jzFlags, jzCtx>>

(* OnOpen starts one worker.                                               *)
(* Mutation: as many as Telemost's data channel starts.                    *)
JzStartsAll == JzWorkers
JzStarts == {CHOOSE w \in JzWorkers : TRUE}

JzDataChannelOpens ==
  /\ jzDc = "new" /\ jzPub = "up" /\ jzDc' = "up"
  /\ jzWorker' = [w \in JzWorkers |-> IF w \in JzStarts THEN "run" ELSE "off"]
  /\ UNCHANGED <<jzMedia, jzOwner, jzWatcher, jzWs, jzSub, jzPub, jzReader, jzHolds, jzData,
                 jzFlags, jzCtx>>

JzSubscriberFails ==
  /\ jzSub = "up" /\ jzSub' = "down" /\ jzReconnectCh' = JzQueued
  /\ UNCHANGED <<jzMedia, jzOwner, jzWatcher, jzDc, jzWs, jzPub, jzReader, jzSend, jzClosed,
                 jzCloseCh, jzCtx>>

(* With the publisher goes its data channel, whose OnClose queues as well. *)
JzPublisherFails ==
  /\ jzPub = "up" /\ jzPub' = "down" /\ jzReconnectCh' = JzQueued
  /\ jzDc' = IF jzDc = "none" THEN "none" ELSE "down"
  /\ UNCHANGED <<jzMedia, jzOwner, jzWatcher, jzWs, jzSub, jzReader, jzSend, jzClosed,
                 jzCloseCh, jzCtx>>

JzWebSocketFails ==
  /\ jzWs = "up" /\ jzWs' = "down"
  /\ UNCHANGED <<jzMedia, jzOwner, jzWatcher, jzDc, jzSub, jzPub, jzReader, jzSend, jzFlags, jzCtx>>

JzReaderFails ==
  /\ jzReader = "run" /\ jzWs = "down" /\ jzReader' = "done" /\ jzReconnectCh' = JzQueued
  /\ UNCHANGED <<jzMedia, jzOwner, jzWatcher, jzLink, jzSend, jzClosed, jzCloseCh, jzCtx>>

-----------------------------------------------------------------------------
(* The send queue.                                                         *)

JzSend ==
  /\ jzDc = "up" /\ jzOwner \notin {"waiting", "closing", "closed"} /\ jzAccepted < JzMessages
  /\ jzAccepted' = jzAccepted + 1 /\ jzQueue' = Append(jzQueue, jzAccepted')
  /\ UNCHANGED <<jzMedia, jzOwner, jzWatcher, jzLink, jzReader, jzWorker, jzHolds, jzSent,
                 jzFlags, jzCtx>>

JzTakes(w) ==
  /\ jzWorker[w] = "run" /\ jzHolds[w] = 0 /\ jzQueue # <<>>
  /\ jzQueue' = Tail(jzQueue)
  /\ jzHolds' = [jzHolds EXCEPT ![w] = IF Head(jzQueue) \in JzOversized THEN 0 ELSE Head(jzQueue)]
  /\ UNCHANGED <<jzMedia, jzOwner, jzWatcher, jzLink, jzReader, jzWorker, jzAccepted, jzSent,
                 jzFlags, jzCtx>>

JzSends(w) ==
  /\ jzHolds[w] # 0 /\ jzDc = "up"
  /\ jzSent' = Append(jzSent, jzHolds[w]) /\ jzHolds' = [jzHolds EXCEPT ![w] = 0]
  /\ UNCHANGED <<jzMedia, jzOwner, jzWatcher, jzLink, jzReader, jzWorker, jzQueue, jzAccepted,
                 jzFlags, jzCtx>>

JzSendFails(w) ==
  /\ jzHolds[w] # 0 /\ jzDc = "down"
  /\ jzHolds' = [jzHolds EXCEPT ![w] = 0] /\ jzWorker' = [jzWorker EXCEPT ![w] = "done"]
  /\ jzReconnectCh' = JzQueued
  /\ UNCHANGED <<jzMedia, jzOwner, jzWatcher, jzLink, jzReader, jzData, jzClosed, jzCloseCh, jzCtx>>

JzWorkerStops(w) ==
  /\ jzWorker[w] = "run" /\ jzHolds[w] = 0 /\ jzCloseCh
  /\ jzWorker' = [jzWorker EXCEPT ![w] = "done"]
  /\ UNCHANGED <<jzMedia, jzOwner, jzWatcher, jzLink, jzReader, jzHolds, jzData, jzFlags, jzCtx>>

-----------------------------------------------------------------------------
(* WatchConnection and Close.                                              *)

JzWatchTakes ==
  /\ jzWatcher = "run" /\ jzReconnectCh /\ jzReconnectCh' = FALSE
  /\ UNCHANGED <<jzMedia, jzOwner, jzWatcher, jzLink, jzReader, jzSend, jzClosed, jzCloseCh, jzCtx>>

JzWatchEnds ==
  /\ jzWatcher = "run" /\ (jzCtx \/ jzCloseCh) /\ jzWatcher' = "done"
  /\ UNCHANGED <<jzMedia, jzOwner, jzLink, jzReader, jzSend, jzFlags, jzCtx>>

JzCancel ==
  /\ jzOwner # "new" /\ ~jzCtx /\ jzCtx' = TRUE
  /\ UNCHANGED <<jzMedia, jzOwner, jzWatcher, jzLink, jzReader, jzSend, jzFlags>>

JzCloseBegins ==
  /\ jzOwner = "up" /\ jzCtx
  /\ jzClosed' = TRUE /\ jzCloseCh' = TRUE /\ jzOwner' = "waiting"
  /\ UNCHANGED <<jzMedia, jzWatcher, jzLink, jzReader, jzSend, jzReconnectCh, jzCtx>>

(* wg.Wait, which the reader holds up as long as the websocket is open; so *)
(* it is mostly the 2 s that end this wait.                                *)
JzCloseWaits ==
  /\ jzOwner = "waiting" /\ jzOwner' = "closing"
  /\ UNCHANGED <<jzMedia, jzWatcher, jzLink, jzReader, jzSend, jzFlags, jzCtx>>

JzShut(object) == IF object = "none" THEN "none" ELSE "down"

(* Mutation: the websocket stays open, as if nobody had to unblock it.     *)
JzWsKept == jzWs
JzWsClosed == JzShut(jzWs)

JzCloseTearsDown ==
  /\ jzOwner = "closing" /\ jzOwner' = "closed"
  /\ jzDc' = JzShut(jzDc) /\ jzPub' = JzShut(jzPub) /\ jzSub' = JzShut(jzSub) /\ jzWs' = JzWsClosed
  /\ UNCHANGED <<jzMedia, jzWatcher, jzReader, jzSend, jzFlags, jzCtx>>

-----------------------------------------------------------------------------
JzProgress ==
  \/ JzDialWebSocket \/ JzSendJoin \/ JzWaitForReady \/ JzReaderFails
  \/ \E w \in JzWorkers : JzTakes(w) \/ JzSends(w) \/ JzSendFails(w) \/ JzWorkerStops(w)
  \/ JzWatchTakes \/ JzWatchEnds \/ JzCloseBegins \/ JzCloseWaits \/ JzCloseTearsDown

JzNext ==
  \/ JzProgress \/ JzConnect \/ JzSend \/ JzCancel
  \/ JzSubscriberOffer \/ JzPublisherAnswer \/ JzSubscriberUp \/ JzPublisherUp \/ JzDataChannelOpens
  \/ JzSubscriberFails \/ JzPublisherFails \/ JzWebSocketFails

JzSpec == JzInit /\ [][JzNext]_jzVars /\ WF_jzVars(JzProgress)

-----------------------------------------------------------------------------
(* Properties.                                                             *)

(* The data channel, created as ordered, gets the messages in the order in *)
(* which Send accepted them, and none before it is skipped or repeated     *)
(* except for the oversized ones.                                          *)
JzInOrder ==
  LET sent == {jzSent[i] : i \in 1..Len(jzSent)} IN
    /\ \A i, j \in 1..Len(jzSent) : i < j => jzSent[i] < jzSent[j]
    /\ \A m \in sent, n \in JzMessage : n < m => n \in sent \cup JzOversized

(* After Close every goroutine ends, signalling included, although Close   *)
(* waits for it before it closes the websocket that blocks it.             *)
JzCloseEnds ==
  (jzOwner = "closed")
    ~> (jzReader # "run" /\ jzWatcher = "done" /\ \A w \in JzWorkers : jzWorker[w] # "run")

=============================================================================
