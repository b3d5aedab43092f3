---------------------------- MODULE WbStreamPeer ----------------------------
(***************************************************************************)
(* The WB Stream provider (provider/wbstream/peer.go and api.go): four     *)
(* requests that end in a token, a LiveKit room, one worker for the send   *)
(* queue, and a Close that may run while a Send, the Connect or the        *)
(* callback of the room is under way.                                      *)
(***************************************************************************)
EXTENDS Naturals, Sequences

CONSTANTS
  WbCapacity,   \* room in sendQueue
  WbMessages    \* bound: number of calls of Send

ASSUME WbAssumption == WbCapacity \in Nat \ {0} /\ WbMessages \in Nat

VARIABLES
  wbAny,        \* the room URL is empty or "any": Connect creates a room
  wbConnect,    \* where Connect is
  wbRoom,       \* the LiveKit room
  wbEnding,     \* OnDisconnected: "off", "run" past its test of closed, "done"
  wbEnded,      \* onEnded was called
  wbClose,      \* where Close is
  wbClosed,     \* p.closed
  wbSender,     \* a Send: "idle", "put" past its test of closed, "panic"
  wbCalls, wbQueue, wbSent,   \* calls of Send, sendQueue, messages published
  wbWorker,     \* processSendQueue
  wbLate        \* history: Connect got its room when Close had already looked for it

wbVars == <<wbAny, wbConnect, wbRoom, wbEnding, wbEnded, wbClose, wbClosed, wbSender, wbCalls,
            wbQueue, wbSent, wbWorker, wbLate>>
wbRoomSide == <<wbAny, wbConnect, wbRoom, wbLate>>
wbEnd == <<wbEnding, wbEnded>>
wbSending == <<wbSender, wbCalls, wbQueue, wbSent, wbWorker>>

WbTypeOK ==
  /\ {wbAny, wbEnded, wbClosed, wbLate} \subseteq BOOLEAN
  /\ wbConnect \in {"new", "guest", "create", "join", "token", "room", "done", "failed"}
  /\ wbRoom \in {"none", "up", "lost", "left"}
  /\ wbEnding \in {"off", "run", "done"}
  /\ wbClose \in {"no", "told", "left", "wait", "closed"}
  /\ wbSender \in {"idle", "put", "panic"} /\ wbWorker \in {"off", "run", "done"}
  /\ wbCalls \in 0..WbMessages /\ wbSent \in Seq(1..WbMessages)
  /\ wbQueue \in Seq(1..WbMessages) /\ Len(wbQueue) <= WbCapacity

WbInit ==
  /\ wbAny = FALSE /\ wbConnect = "new" /\ wbRoom = "none" /\ wbLate = FALSE
  /\ wbEnding = "off" /\ wbEnded = FALSE
  /\ wbClose = "no" /\ wbClosed = FALSE
  /\ wbSender = "idle" /\ wbCalls = 0 /\ wbQueue = <<>> /\ wbSent = <<>> /\ wbWorker = "off"

-----------------------------------------------------------------------------
(* Connect.                                                                *)

WbConnect ==
  /\ wbConnect = "new" /\ wbConnect' = "guest" /\ wbAny' \in BOOLEAN
  /\ UNCHANGED <<wbRoom, wbLate, wbEnd, wbClose, wbClosed, wbSending>>

(* One request of getRoomToken: it fails, or the next one follows.         *)
WbRequest(from, to) ==
  /\ wbConnect = from /\ wbConnect' \in {to, "failed"}
  /\ UNCHANGED <<wbAny, wbRoom, wbLate, wbEnd, wbClose, wbClosed, wbSending>>

WbRegisterGuest == WbRequest("guest", IF wbAny THEN "create" ELSE "join")
WbCreateRoom == WbRequest("create", "join")
WbJoinRoom == WbRequest("join", "token")
WbGetToken == WbRequest("token", "room")

(* The room, its pending tracks and the worker.                            *)
WbEnterRoom ==
  /\ wbConnect = "room"
  /\ \/ wbConnect' = "failed" /\ UNCHANGED <<wbRoom, wbWorker, wbLate>>
     \/ /\ wbRoom' = "up" /\ wbLate' = (wbClose \in {"left", "wait", "closed"})
        /\ \/ wbConnect' = "done" /\ wbWorker' = "run"
           \/ wbConnect' = "failed" /\ UNCHANGED wbWorker
  /\ UNCHANGED <<wbAny, wbEnd, wbClose, wbClosed, wbSender, wbCalls, wbQueue, wbSent>>

-----------------------------------------------------------------------------
(* OnDisconnected, of a lost room and of one that Close leaves.            *)

WbRoomLost ==
  /\ wbRoom = "up" /\ wbRoom' = "lost"
  /\ wbEnding' = IF wbClosed THEN "done" ELSE "run"
  /\ UNCHANGED <<wbAny, wbConnect, wbLate, wbEnded, wbClose, wbClosed, wbSending>>

WbCallsEnded ==
  /\ wbEnding = "run" /\ wbEnding' = "done" /\ wbEnded' = TRUE
  /\ UNCHANGED <<wbRoomSide, wbClose, wbClosed, wbSending>>

-----------------------------------------------------------------------------
(* Send and its worker.                                                    *)

WbSendTests ==
  /\ wbSender = "idle" /\ ~wbClosed /\ wbCalls < WbMessages
  /\ wbSender' = "put" /\ wbCalls' = wbCalls + 1
  /\ UNCHANGED <<wbRoomSide, wbEnd, wbClose, wbClosed, wbQueue, wbSent, wbWorker>>

(* ErrSendQueueFull if there is no room.                                   *)
(* Mutation: the message is put all the same.                              *)
WbWithAlways(message) == Append(wbQueue, message)
WbWith(message) == IF Len(wbQueue) = WbCapacity THEN wbQueue ELSE Append(wbQueue, message)

(* A panic if Close has closed the channel since the test.                 *)
WbSendPuts ==
  /\ wbSender = "put"
  /\ wbSender' = IF wbClose \in {"wait", "closed"} THEN "panic" ELSE "idle"
  /\ wbQueue' = IF wbSender' = "panic" THEN wbQueue ELSE WbWith(wbCalls)
  /\ UNCHANGED <<wbRoomSide, wbEnd, wbClose, wbClosed, wbCalls, wbSent, wbWorker>>

(* An error of PublishDataPacket is logged and the message is gone.        *)
WbWorkerPublishes ==
  /\ wbWorker = "run" /\ wbQueue # <<>>
  /\ wbQueue' = Tail(wbQueue)
  /\ wbSent' = IF wbRoom = "up" THEN Append(wbSent, Head(wbQueue)) ELSE wbSent
  /\ UNCHANGED <<wbRoomSide, wbEnd, wbClose, wbClosed, wbSender, wbCalls, wbWorker>>

WbWorkerStops ==
  /\ wbWorker = "run" /\ wbClose # "no" /\ wbWorker' = "done"
  /\ UNCHANGED <<wbRoomSide, wbEnd, wbClose, wbClosed, wbSender, wbCalls, wbQueue, wbSent>>

-----------------------------------------------------------------------------
(* Close.                                                                  *)

(* The compare-and-swap of closed, cancel and close(done).                 *)
(* Mutation: closed is set when the room has been left.                    *)
WbClosedByNowLate(stage) == stage \in {"wait", "closed"}
WbClosedByNow(stage) == stage # "no"

WbCloseGoes(from, to) ==
  /\ wbClose = from /\ wbClose' = to /\ wbClosed' = WbClosedByNow(to)

WbCloseBegins ==
  /\ wbConnect # "new" /\ WbCloseGoes("no", "told")
  /\ UNCHANGED <<wbRoomSide, wbEnd, wbSending>>

(* Disconnect of the room, which calls OnDisconnected.                     *)
WbCloseLeaves ==
  /\ WbCloseGoes("told", "left")
  /\ IF wbRoom = "up"
     THEN wbRoom' = "left" /\ wbEnding' = IF wbClosed THEN "done" ELSE "run"
     ELSE UNCHANGED <<wbRoom, wbEnding>>
  /\ UNCHANGED <<wbAny, wbConnect, wbLate, wbEnded, wbSending>>

WbCloseShutsQueue == WbCloseGoes("left", "wait") /\ UNCHANGED <<wbRoomSide, wbEnd, wbSending>>

WbCloseReturns ==
  /\ wbWorker # "run" /\ WbCloseGoes("wait", "closed")
  /\ UNCHANGED <<wbRoomSide, wbEnd, wbSending>>

-----------------------------------------------------------------------------
WbNext ==
  \/ WbConnect \/ WbRegisterGuest \/ WbCreateRoom \/ WbJoinRoom \/ WbGetToken \/ WbEnterRoom
  \/ WbRoomLost \/ WbCallsEnded
  \/ WbSendTests \/ WbSendPuts \/ WbWorkerPublishes \/ WbWorkerStops
  \/ WbCloseBegins \/ WbCloseLeaves \/ WbCloseShutsQueue \/ WbCloseReturns

WbSpec == WbInit /\ [][WbNext]_wbVars

-----------------------------------------------------------------------------
(* Properties.                                                             *)

(* The owner hears of an end only if the room was lost, never because it   *)
(* closed the peer itself; and Close leaves no room behind, unless Connect *)
(* entered it when Close had passed by.                                    *)
WbEndIsNews ==
  /\ wbEnded => wbRoom = "lost"
  /\ wbClose \in {"left", "wait", "closed"} /\ ~wbLate => wbRoom # "up"

=============================================================================
