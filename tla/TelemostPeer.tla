---------------------------- MODULE TelemostPeer ----------------------------
(***************************************************************************)
(* The Telemost provider (provider/telemost/peer.go): a Peer that its      *)
(* owner connects and closes, the goroutine of WatchConnection that        *)
(* reconnects it, and for every connection a signalling goroutine, a       *)
(* keep-alive goroutine and the workers of the send queue.                 *)
(*                                                                         *)
(* Connect is called once by the owner and then by reconnect.  Its calls   *)
(* are numbered: tmNow is the connection whose objects are in p.dc, p.ws,  *)
(* p.pcSub and p.pcPub.  Two abstractions rest on times of the code: the   *)
(* 3.5 s that reconnect sleeps are longer than the goroutines of the       *)
(* closed connection take to end (300 ms, 12 ms), and closing an object    *)
(* runs its callbacks at once.  The owner closes the peer when its context *)
(* has ended, as client.go and server.go do.                               *)
(***************************************************************************)
EXTENDS Naturals, Sequences, FiniteSets

CONSTANTS
  TmWorkers,     \* workers of the send queue (numWorkers in the code)
  TmOversized,   \* messages longer than MaxMessageSize
  TmMessages,    \* bound: number of messages that are sent
  TmMaxCount,    \* maxReconnects
  TmFaults       \* bound: number of faults of the network

ASSUME TmAssumption ==
  /\ TmMessages \in Nat /\ TmMaxCount \in Nat /\ TmFaults \in Nat
  /\ IsFiniteSet(TmWorkers)

TmMessage == 1..TmMessages
TmConn == 1..(TmFaults + 1)   \* every further connection answers a fault

VARIABLES
  tmMedia,         \* onData is nil: the peer carries video tracks, no data channel
  tmPc,            \* where the owner and the watcher are
  tmNow,           \* number of the current connection, 0 before the first
  tmConn,          \* its objects and goroutines, for every connection
  tmClosed, tmCloseCh, tmReconnecting, tmReconnectCh,   \* fields of these names
  tmCount,         \* reconnectCount
  tmTelemetry, tmTelemetryCh,   \* the telemetry goroutine and its channel
  tmQueue, tmAccepted, tmSent,  \* sendQueue; messages accepted and sent, in order
  tmEnded,         \* onEnded was called
  tmCtx,           \* the context has ended
  tmFaults,        \* faults so far
  tmMissed,        \* history: the new connection was lost while reconnecting was set
  tmLate           \* history: reconnect opened something while Close ran or after it

tmFlags == <<tmClosed, tmCloseCh, tmReconnecting, tmReconnectCh, tmCount>>
tmTele == <<tmTelemetry, tmTelemetryCh>>
tmData == <<tmQueue, tmAccepted, tmSent>>
tmWorld == <<tmMedia, tmEnded, tmCtx, tmFaults>>
tmHistory == <<tmMissed, tmLate>>
tmVars == <<tmPc, tmNow, tmConn, tmFlags, tmTele, tmData, tmWorld, tmHistory>>

OwnerPc == {"new", "dial", "await", "up", "failed", "leaving", "closing", "waiting", "closed"}
WatcherPc == {"off", "watch", "leave", "down", "informed", "dial", "await", "restored",
              "backoff", "gone"}
Closing == {"leaving", "closing", "waiting", "closed"}
Link == {"none", "new", "up", "down"}
Routine == {"off", "run", "done"}
Conn == [stopped : BOOLEAN, dc : Link, ws : Link, pc : Link,   \* pc: pcSub and pcPub
         reader : Routine, pinger : Routine,
         worker : [TmWorkers -> Routine],
         holds : [TmWorkers -> {0} \cup TmMessage]]   \* the message a worker has taken, or 0

TmTypeOK ==
  /\ tmPc \in [owner : OwnerPc, watcher : WatcherPc]
  /\ tmNow \in 0..(TmFaults + 1) /\ tmConn \in [TmConn -> Conn]
  /\ \A f \in {tmClosed, tmCloseCh, tmReconnecting, tmReconnectCh, tmTelemetryCh} : f \in BOOLEAN
  /\ tmCount \in 0..(TmMaxCount + 1) /\ tmTelemetry \in {"off", "on"}
  /\ tmQueue \in Seq(TmMessage) /\ tmAccepted \in 0..TmMessages /\ tmSent \in Seq(TmMessage)
  /\ \A f \in {tmMedia, tmEnded, tmCtx, tmMissed, tmLate} : f \in BOOLEAN
  /\ tmFaults \in 0..TmFaults

NoConn == [stopped |-> FALSE, dc |-> "none", ws |-> "none", pc |-> "none",
           reader |-> "off", pinger |-> "off", worker |-> [w \in TmWorkers |-> "off"],
           holds |-> [w \in TmWorkers |-> 0]]

TmInit ==
  /\ tmMedia = FALSE
  /\ tmPc = [owner |-> "new", watcher |-> "off"]
  /\ tmNow = 0 /\ tmConn = [s \in TmConn |-> NoConn]
  /\ tmClosed = FALSE /\ tmCloseCh = FALSE /\ tmReconnecting = FALSE /\ tmReconnectCh = FALSE
  /\ tmCount = 0 /\ tmTelemetry = "off" /\ tmTelemetryCh = FALSE
  /\ tmQueue = <<>> /\ tmAccepted = 0 /\ tmSent = <<>>
  /\ tmEnded = FALSE /\ tmCtx = FALSE /\ tmFaults = 0
  /\ tmMissed = FALSE /\ tmLate = FALSE

-----------------------------------------------------------------------------
(* Helpers.                                                                *)

Cur == IF tmNow = 0 THEN NoConn ELSE tmConn[tmNow]
TmGoto(who, where) == tmPc' = [tmPc EXCEPT ![who] = where]
At(who, where) == tmPc[who] = where
Fault == tmFaults < TmFaults /\ tmFaults' = tmFaults + 1

(* The value of reconnectCh after queueReconnect.                          *)
Queued == tmReconnectCh \/ (~tmClosed /\ ~tmReconnecting)

(* A loss of the new connection that queueReconnect does not take.         *)
Missed == tmMissed \/ (tmReconnecting /\ tmPc.watcher \in {"dial", "await", "restored"})

Ended(routine) == IF routine = "run" THEN "done" ELSE routine
Shut(link) == IF link = "none" THEN "none" ELSE "down"

(* stopSession, dc.Close, pcPub.Close, pcSub.Close and ws.Close.           *)
(* Mutation: the websocket stays open.                                     *)
TornDownButWs(c) == [c EXCEPT !.stopped = TRUE, !.dc = Shut(@), !.pc = Shut(@)]
TornDown(c) == [c EXCEPT !.stopped = TRUE, !.dc = Shut(@), !.pc = Shut(@), !.ws = Shut(@)]

StopTelemetry == tmTelemetryCh' = (tmTelemetryCh \/ tmTelemetry # "off")

WorkersOver(c) == \A w \in TmWorkers : c.worker[w] \in {"off", "done"}
Over(c) == WorkersOver(c) /\ c.reader # "run" /\ c.pinger # "run"

(* dcReady is closed, or subscriberConn is.                                *)
LinkReady(c) == IF tmMedia THEN c.pc = "up" ELSE c.dc = "up"
LinkLost(c) == "down" \in {c.dc, c.ws, c.pc}

-----------------------------------------------------------------------------
(* Connect, by the owner or by reconnect.                                  *)

(* The peer connections, the session channels and the data channel.        *)
ConnectBegin(who, from) ==
  /\ At(who, from) /\ tmNow + 1 \in TmConn
  /\ tmNow' = tmNow + 1
  /\ tmClosed' = FALSE
  /\ tmConn' = [tmConn EXCEPT ![tmNow'].dc = IF tmMedia' THEN "none" ELSE "new",
                              ![tmNow'].pc = "new"]
  /\ TmGoto(who, "dial")
  /\ tmLate' = (tmLate \/ tmPc.owner \in Closing)
  /\ UNCHANGED <<tmCloseCh, tmReconnecting, tmReconnectCh, tmCount, tmTele, tmData,
                 tmEnded, tmCtx, tmFaults, tmMissed>>

TmConnect == (\E media \in BOOLEAN : tmMedia' = media) /\ ConnectBegin("owner", "new")
TmReconnectConnect == UNCHANGED tmMedia /\ ConnectBegin("watcher", "informed")

(* Mutation: retryReconnect gives up after one attempt.                    *)
ConnectErrorOnce(who) == TmGoto(who, IF who = "owner" THEN "failed" ELSE "watch")
ConnectError(who) == TmGoto(who, IF who = "owner" THEN "failed" ELSE "backoff")
ReconnectOver(who) == tmReconnecting' = IF who = "watcher" THEN FALSE ELSE tmReconnecting

(* dialWebSocket, the ICE handlers, the goroutines and sendHello.          *)
DialWebSocket(who) ==
  /\ At(who, "dial")
  /\ \/ /\ tmConn' = [tmConn EXCEPT ![tmNow].ws = "up", ![tmNow].reader = "run", ![tmNow].pinger = "run"]
        /\ TmGoto(who, "await")
        /\ tmLate' = (tmLate \/ tmPc.owner \in {"waiting", "closed"})
        /\ UNCHANGED <<tmReconnecting, tmFaults>>
     \/ /\ Fault /\ ConnectError(who) /\ ReconnectOver(who)
        /\ UNCHANGED <<tmConn, tmLate>>
  /\ UNCHANGED <<tmNow, tmClosed, tmCloseCh, tmReconnectCh, tmCount, tmTele, tmData,
                 tmMedia, tmEnded, tmCtx, tmMissed>>

(* The select that ends Connect and, for the owner, go WatchConnection.    *)
AwaitReady(who) ==
  /\ At(who, "await") /\ LinkReady(Cur)
  /\ tmPc' = IF who = "owner" THEN [owner |-> "up", watcher |-> "watch"]
                              ELSE [tmPc EXCEPT !.watcher = "restored"]
  /\ UNCHANGED <<tmNow, tmConn, tmFlags, tmTele, tmData, tmWorld, tmHistory>>

AwaitFails(who) ==
  /\ At(who, "await")
  /\ \/ (tmCtx \/ LinkLost(Cur)) /\ UNCHANGED tmFaults
     \/ ~LinkReady(Cur) /\ Fault
  /\ ConnectError(who) /\ ReconnectOver(who)
  /\ UNCHANGED <<tmNow, tmConn, tmClosed, tmCloseCh, tmReconnectCh, tmCount, tmTele, tmData,
                 tmMedia, tmEnded, tmCtx, tmHistory>>

-----------------------------------------------------------------------------
(* The network and the callbacks of the WebRTC objects.                    *)

(* The offer and the answers have passed: the peer connections are up.     *)
PcConnected ==
  /\ tmNow > 0 /\ Cur.pc = "new" /\ Cur.reader # "off"
  /\ tmConn' = [tmConn EXCEPT ![tmNow].pc = "up"]
  /\ UNCHANGED <<tmPc, tmNow, tmFlags, tmTele, tmData, tmWorld, tmHistory>>

(* OnOpen starts the workers.                                              *)
DataChannelOpens ==
  /\ tmNow > 0 /\ Cur.dc = "new" /\ Cur.pc = "up"
  /\ tmConn' = [tmConn EXCEPT ![tmNow].dc = "up", ![tmNow].worker = [w \in TmWorkers |-> "run"]]
  /\ UNCHANGED <<tmPc, tmNow, tmFlags, tmTele, tmData, tmWorld, tmHistory>>

(* The state Failed of a peer connection, or the end of the data channel.  *)
LinkFails(side) ==
  /\ tmNow > 0 /\ Cur[side] = "up" /\ Fault
  /\ tmConn' = [tmConn EXCEPT ![tmNow][side] = "down"]
  /\ tmReconnectCh' = Queued /\ tmMissed' = Missed
  /\ UNCHANGED <<tmPc, tmNow, tmClosed, tmCloseCh, tmReconnecting, tmCount, tmTele, tmData,
                 tmMedia, tmEnded, tmCtx, tmLate>>

WebSocketFails ==
  /\ tmNow > 0 /\ Cur.ws = "up" /\ Fault
  /\ tmConn' = [tmConn EXCEPT ![tmNow].ws = "down"]
  /\ UNCHANGED <<tmPc, tmNow, tmFlags, tmTele, tmData, tmMedia, tmEnded, tmCtx, tmHistory>>

-----------------------------------------------------------------------------
(* handleSignaling of connection s.                                        *)

ReaderFails(s) ==
  /\ tmConn[s].reader = "run" /\ tmConn[s].ws = "down"
  /\ tmConn' = [tmConn EXCEPT ![s].reader = "done"]
  /\ tmReconnectCh' = Queued /\ tmMissed' = Missed
  /\ UNCHANGED <<tmPc, tmNow, tmClosed, tmCloseCh, tmReconnecting, tmCount, tmTele, tmData,
                 tmWorld, tmLate>>

(* serverHello starts telemetry, unless a goroutine of it is still there.  *)
ServerHello(s) ==
  /\ tmConn[s].reader = "run" /\ tmConn[s].ws = "up"
  /\ tmTelemetry = "off" /\ tmTelemetry' = "on"
  /\ UNCHANGED <<tmPc, tmNow, tmConn, tmFlags, tmTelemetryCh, tmData, tmWorld, tmHistory>>

ConferenceEnds(s) ==
  /\ tmConn[s].reader = "run" /\ tmConn[s].ws = "up"
  /\ tmConn' = [tmConn EXCEPT ![s].reader = "done"]
  /\ tmClosed' = TRUE /\ tmEnded' = TRUE
  /\ StopTelemetry
  /\ UNCHANGED <<tmPc, tmNow, tmCloseCh, tmReconnecting, tmReconnectCh, tmCount, tmTelemetry,
                 tmData, tmMedia, tmCtx, tmFaults, tmHistory>>

(* keepAlive of connection s: a ping on p.ws fails, or the goroutine is    *)
(* told to stop.                                                           *)
PingFails(s) ==
  /\ tmConn[s].pinger = "run" /\ Cur.ws = "down"
  /\ tmConn' = [tmConn EXCEPT ![s].pinger = "done"]
  /\ tmReconnectCh' = Queued
  /\ UNCHANGED <<tmPc, tmNow, tmClosed, tmCloseCh, tmReconnecting, tmCount, tmTele, tmData,
                 tmWorld, tmHistory>>

PingerStops(s) ==
  /\ tmConn[s].pinger = "run" /\ (tmConn[s].stopped \/ tmCloseCh)
  /\ tmConn' = [tmConn EXCEPT ![s].pinger = "done"]
  /\ UNCHANGED <<tmPc, tmNow, tmFlags, tmTele, tmData, tmWorld, tmHistory>>

TelemetryEnds ==
  /\ tmTelemetry = "on" /\ (tmTelemetryCh \/ tmCloseCh)
  /\ tmTelemetry' = "off"
  /\ \/ tmTelemetryCh /\ tmTelemetryCh' = FALSE
     \/ tmCloseCh /\ UNCHANGED tmTelemetryCh
  /\ UNCHANGED <<tmPc, tmNow, tmConn, tmFlags, tmData, tmWorld, tmHistory>>

-----------------------------------------------------------------------------
(* The send queue and its workers.                                         *)

TmSend ==
  /\ tmNow > 0 /\ Cur.dc = "up" /\ tmPc.owner \notin Closing /\ tmAccepted < TmMessages
  /\ tmAccepted' = tmAccepted + 1 /\ tmQueue' = Append(tmQueue, tmAccepted')
  /\ UNCHANGED <<tmPc, tmNow, tmConn, tmFlags, tmTele, tmSent, tmWorld, tmHistory>>

WorkerTakes(s, w) ==
  /\ tmConn[s].worker[w] = "run" /\ tmConn[s].holds[w] = 0 /\ tmQueue # <<>>
  /\ tmQueue' = Tail(tmQueue)
  /\ IF Head(tmQueue) \in TmOversized THEN UNCHANGED tmConn
     ELSE tmConn' = [tmConn EXCEPT ![s].holds[w] = Head(tmQueue)]
  /\ UNCHANGED <<tmPc, tmNow, tmFlags, tmTele, tmAccepted, tmSent, tmWorld, tmHistory>>

WorkerSends(s, w) ==
  /\ tmConn[s].holds[w] # 0 /\ Cur.dc = "up"
  /\ tmSent' = Append(tmSent, tmConn[s].holds[w])
  /\ tmConn' = [tmConn EXCEPT ![s].holds[w] = 0]
  /\ UNCHANGED <<tmPc, tmNow, tmFlags, tmTele, tmQueue, tmAccepted, tmWorld, tmHistory>>

(* The worker of a data channel that fails to send ends with its message.  *)
(* Mutation: it goes on with the next one.                                 *)
AfterErrorGoesOn == "run"
AfterError == "done"

WorkerFails(s, w) ==
  /\ tmConn[s].holds[w] # 0 /\ Cur.dc # "up"
  /\ tmConn' = [tmConn EXCEPT ![s].holds[w] = 0, ![s].worker[w] = AfterError]
  /\ tmReconnectCh' = Queued
  /\ UNCHANGED <<tmPc, tmNow, tmClosed, tmCloseCh, tmReconnecting, tmCount, tmTele, tmData,
                 tmWorld, tmHistory>>

(* In its select, or while it waits for the buffer of the data channel.    *)
WorkerStops(s, w) ==
  /\ tmConn[s].worker[w] = "run" /\ (tmConn[s].stopped \/ tmCloseCh)
  /\ tmConn' = [tmConn EXCEPT ![s].worker[w] = "done", ![s].holds[w] = 0]
  /\ UNCHANGED <<tmPc, tmNow, tmFlags, tmTele, tmData, tmWorld, tmHistory>>

-----------------------------------------------------------------------------
(* Close, by the owner whose context has ended.                            *)

TmCancel ==
  /\ tmNow > 0 /\ ~tmCtx /\ tmCtx' = TRUE
  /\ UNCHANGED <<tmPc, tmNow, tmConn, tmFlags, tmTele, tmData, tmMedia, tmEnded, tmFaults, tmHistory>>

(* closed.Swap, sendQueueClosed and the leave message.                     *)
CloseBegins ==
  /\ At("owner", "up") /\ tmCtx
  /\ tmClosed' = TRUE
  /\ TmGoto("owner", IF ~tmClosed /\ Cur.ws = "up" THEN "leaving" ELSE "closing")
  /\ UNCHANGED <<tmNow, tmConn, tmCloseCh, tmReconnecting, tmReconnectCh, tmCount, tmTele, tmData,
                 tmWorld, tmHistory>>

(* Its ack has come, or 1.5 s have passed.                                 *)
LeaveAnswered ==
  /\ At("owner", "leaving") /\ TmGoto("owner", "closing")
  /\ UNCHANGED <<tmNow, tmConn, tmFlags, tmTele, tmData, tmWorld, tmHistory>>

CloseTearsDown ==
  /\ At("owner", "closing") /\ TmGoto("owner", "waiting")
  /\ tmCloseCh' = TRUE /\ StopTelemetry
  /\ tmConn' = [tmConn EXCEPT ![tmNow] = TornDown(@)]
  /\ UNCHANGED <<tmNow, tmClosed, tmReconnecting, tmReconnectCh, tmCount, tmTelemetry, tmData,
                 tmWorld, tmHistory>>

(* wg.Wait has returned, or 2 s have passed.                               *)
CloseReturns ==
  /\ At("owner", "waiting") /\ TmGoto("owner", "closed")
  /\ UNCHANGED <<tmNow, tmConn, tmFlags, tmTele, tmData, tmWorld, tmHistory>>

-----------------------------------------------------------------------------
(* WatchConnection.                                                        *)

WatchEnds ==
  /\ tmPc.watcher \in {"watch", "backoff"} /\ (tmCtx \/ tmCloseCh)
  /\ TmGoto("watcher", "gone")
  /\ UNCHANGED <<tmNow, tmConn, tmFlags, tmTele, tmData, tmWorld, tmHistory>>

(* handleReconnectAttempt.  The count starts again after five minutes.     *)
ReconnectAttempt ==
  /\ At("watcher", "watch") /\ tmReconnectCh
  /\ tmReconnectCh' = FALSE
  /\ tmCount' \in {1, tmCount + 1}
  /\ IF tmCount' > TmMaxCount
     THEN /\ TmGoto("watcher", "gone")
          /\ tmClosed' = TRUE /\ tmEnded' = TRUE /\ StopTelemetry
          /\ UNCHANGED tmReconnecting
     ELSE /\ TmGoto("watcher", "leave")
          /\ tmReconnecting' = TRUE
          /\ UNCHANGED <<tmClosed, tmEnded, tmTelemetryCh>>
  /\ UNCHANGED <<tmNow, tmConn, tmCloseCh, tmTelemetry, tmData, tmMedia, tmCtx, tmFaults, tmHistory>>

(* retryReconnect calls reconnect again after the backoff.                 *)
ReconnectAgain ==
  /\ At("watcher", "backoff") /\ ~tmCtx /\ ~tmCloseCh
  /\ TmGoto("watcher", "leave") /\ tmReconnecting' = TRUE
  /\ UNCHANGED <<tmNow, tmConn, tmClosed, tmCloseCh, tmReconnectCh, tmCount, tmTele, tmData,
                 tmWorld, tmHistory>>

(* sendLeave, 500 ms, the teardown of the current connection.              *)
ReconnectTearsDown ==
  /\ At("watcher", "leave") /\ TmGoto("watcher", "down")
  /\ StopTelemetry
  /\ tmConn' = [tmConn EXCEPT ![tmNow] = TornDown(@)]
  /\ UNCHANGED <<tmNow, tmFlags, tmTelemetry, tmData, tmWorld, tmHistory>>

(* 3 s, in which the old goroutines end, and GetConnectionInfo.            *)
ReconnectInforms ==
  /\ At("watcher", "down") /\ Over(Cur)
  /\ \/ ~tmCtx /\ TmGoto("watcher", "informed") /\ UNCHANGED <<tmReconnecting, tmFaults>>
     \/ /\ (tmCtx /\ UNCHANGED tmFaults) \/ Fault
        /\ ConnectError("watcher") /\ tmReconnecting' = FALSE
  /\ UNCHANGED <<tmNow, tmConn, tmClosed, tmCloseCh, tmReconnectCh, tmCount, tmTele, tmData,
                 tmMedia, tmEnded, tmCtx, tmHistory>>

(* onReconnect(dc), drainReconnectQueue, and reconnecting is reset.        *)
ReconnectDone ==
  /\ At("watcher", "restored") /\ TmGoto("watcher", "watch")
  /\ tmReconnecting' = FALSE /\ tmReconnectCh' = FALSE
  /\ UNCHANGED <<tmNow, tmConn, tmClosed, tmCloseCh, tmCount, tmTele, tmData, tmWorld, tmHistory>>

-----------------------------------------------------------------------------
TmWorkerSteps == \E s \in TmConn, w \in TmWorkers :
  WorkerTakes(s, w) \/ WorkerSends(s, w) \/ WorkerFails(s, w) \/ WorkerStops(s, w)

TmWatcherSteps ==
  \/ WatchEnds \/ ReconnectAttempt \/ ReconnectAgain \/ ReconnectTearsDown \/ ReconnectInforms
  \/ TmReconnectConnect \/ ReconnectDone

(* What the program and an undisturbed network do without being asked.     *)
TmProgress ==
  \/ TmWatcherSteps \/ TmWorkerSteps
  \/ \E who \in {"owner", "watcher"} : DialWebSocket(who) \/ AwaitReady(who) \/ AwaitFails(who)
  \/ CloseBegins \/ LeaveAnswered \/ CloseTearsDown \/ CloseReturns
  \/ PcConnected \/ DataChannelOpens
  \/ \E s \in TmConn : ReaderFails(s) \/ PingFails(s) \/ PingerStops(s)
  \/ TelemetryEnds

TmNext ==
  \/ TmProgress
  \/ TmConnect \/ TmSend \/ TmCancel \/ WebSocketFails
  \/ \E side \in {"pc", "dc"} : LinkFails(side)
  \/ \E s \in TmConn : ServerHello(s) \/ ConferenceEnds(s)

TmSpec == TmInit /\ [][TmNext]_tmVars /\ WF_tmVars(TmProgress)

-----------------------------------------------------------------------------
(* Properties.                                                             *)

Closed(c) == {c.dc, c.ws, c.pc} \subseteq {"none", "down"}

(* Reconnecting never leaves a connection behind: every connection but the *)
(* current one is closed, with its goroutines.                             *)
TmOneLive == \A s \in 1..(tmNow - 1) : Closed(tmConn[s]) /\ Over(tmConn[s])

(* Once Close has torn down, no connection is open, unless a reconnection  *)
(* opened something while Close was running or after it.                   *)
TmCloseReleases ==
  tmPc.owner \in {"waiting", "closed"} /\ ~tmLate => \A s \in TmConn : Closed(tmConn[s])

(* The end of a connection costs at most the message each worker holds.    *)
(* All other messages are waiting, held, sent, or dropped as oversized.    *)
TmKept ==
  {tmQueue[i] : i \in 1..Len(tmQueue)} \cup {tmSent[i] : i \in 1..Len(tmSent)}
  \cup {m \in TmMessage : \E s \in TmConn, w \in TmWorkers : tmConn[s].holds[w] = m}
TmConserved ==
  /\ Cardinality((1..tmAccepted) \ (TmKept \cup TmOversized))
       <= Cardinality({p \in TmConn \X TmWorkers : tmConn[p[1]].worker[p[2]] = "done"})
  /\ Len(tmQueue) + Len(tmSent) <= tmAccepted

(* A lost connection is replaced by one that works, unless the conference  *)
(* or the program ends, or the loss came while reconnecting was still set. *)
TmLossRepaired ==
  (At("owner", "up") /\ LinkLost(Cur))
    ~> (~LinkLost(Cur) /\ LinkReady(Cur)) \/ tmEnded \/ tmCtx \/ tmMissed

(* After Close every goroutine ends: the watcher, the workers, signalling, *)
(* keep-alive and telemetry; with the same exception.                      *)
TmCloseEnds ==
  At("owner", "closed")
    ~> tmLate \/ (At("watcher", "gone") /\ tmTelemetry = "off" /\ \A s \in TmConn : Over(tmConn[s]))

=============================================================================
