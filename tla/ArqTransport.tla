---------------------------- MODULE ArqTransport ----------------------------
(***************************************************************************)
(* The stop-and-wait protocol of the two video transports of olcRTC        *)
(* (internal/transport/seichannel; videochannel has the same protocol with *)
(* another picture codec and maxSendAttempts = 20).  Send cuts a message   *)
(* into fragments, queues them for the writer goroutine and waits for the  *)
(* acknowledgement of the peer; every remote video track has a goroutine   *)
(* that reads frames, reassembles messages, hands them to the upper layer  *)
(* (onData) and queues acknowledgements for the same writer.               *)
(*                                                                         *)
(* Abstractions.  A message stands for its bytes, its length and its       *)
(* crc32: two messages are never equal, because muxconn seals each with a  *)
(* random nonce (collisions of crc32 are left out).  seq is a natural      *)
(* number; the code's uint32 would wrap after 2^32 acknowledged messages.  *)
(* The video path is FIFO on one track, and may lose or damage any frame.  *)
(***************************************************************************)
EXTENDS Naturals, Sequences, FiniteSets

CONSTANTS
  Peer,             \* the two ends of the call
  Other,            \* Other[p]: the end p talks to
  Message,          \* the messages the upper layers will send
  NoMsg,            \* "no message": an empty waiter channel
  Origin,           \* Origin[m]: the peer whose upper layer sends m
  Frags,            \* Frags[m]: number of fragments m is cut into
  Track,            \* remote video tracks of a peer, one goroutine each
  MaxSendAttempts,  \* maxSendAttempts
  OutboundCap,      \* capacity of the channel outbound (256)
  AckCap,           \* capacity of the channel outboundAck (64)
  DeliveredCap,     \* the delivered table is reset above this size (256)
  AirCap,           \* bound: frames in flight on one track
  MaxRestarts       \* bound: no process restarts once one did so that often

ASSUME PeerAssumption ==
  /\ Other \in [Peer -> Peer]
  /\ \A p \in Peer : Other[p] # p /\ Other[Other[p]] = p
ASSUME MessageAssumption ==
  /\ NoMsg \notin Message
  /\ Origin \in [Message -> Peer]
  /\ Frags \in [Message -> Nat \ {0}]
ASSUME BoundAssumption ==
  /\ MaxSendAttempts \in Nat \ {0}
  /\ OutboundCap \in Nat \ {0} /\ AckCap \in Nat \ {0}
  /\ DeliveredCap \in Nat /\ AirCap \in Nat \ {0} /\ MaxRestarts \in Nat

VARIABLES
  status,       \* what became of Send(m), see Status
  ticket,       \* history: rank of m among the Sends that got sendMu, 0 before
  issued,       \* history: number of tickets p gave out
  nextSeq,      \* streamTransport.nextSeq
  tx,           \* the Send of p that holds sendMu
  outbound,     \* channel of data frames
  outboundAck,  \* channel of acknowledgement frames
  writer,       \* writer goroutine: "down", "up" (writerUp) or "done" (writerDone)
  life,         \* "open", "closing" (closed is set, closeCh closed) or "closed"
  air,          \* air[p][t]: frames on their way to track t of p
  inbound,      \* partial messages, the map inbound
  delivered,    \* the map delivered, as pairs <<seq, message>>
  reader,       \* goroutine of each track
  handed,       \* history: what onData got, in order, in this life of p
  accepted,     \* history: messages a peer ever marked as delivered
  restarts      \* number of restarts of p so far

sendVars == <<status, ticket, issued, nextSeq, tx>>
recvVars == <<inbound, delivered, reader, handed, accepted>>
vars == <<sendVars, outbound, outboundAck, writer, life, air, recvVars, restarts>>

Status == {"new", "blocked", "sending", "ok", "timeout", "closed", "lost"}

Frame == [typ : {"data", "ack"}, seq : Nat, msg : Message, idx : Nat, intact : BOOLEAN]

DataFrame(s, m, i) == [typ |-> "data", seq |-> s, msg |-> m, idx |-> i, intact |-> TRUE]
AckFrame(s, m)     == [typ |-> "ack",  seq |-> s, msg |-> m, idx |-> 0, intact |-> TRUE]

IdleTx == [phase |-> "idle", msg |-> NoMsg, seq |-> 0, attempt |-> 0, frag |-> 0, waiter |-> NoMsg]
BusyTx == [phase : {"enqueue", "await"}, msg : Message, seq : Nat,
           attempt : 1..MaxSendAttempts, frag : Nat, waiter : Message \cup {NoMsg}]

IdleReader == [pc |-> "read", seq |-> 0, msg |-> NoMsg, intact |-> TRUE]
BusyReader == [pc : {"hand", "ack"}, seq : Nat, msg : Message, intact : BOOLEAN]

(* Mutation of Closed: closeCh is closed only after the writer was waited  *)
(* for.                                                                    *)
ClosedTooLate(p) == life[p] = "closed"

(* What closed and closeCh say: set at the start of Close.                 *)
Closed(p) == life[p] # "open"

TypeOK ==
  /\ status \in [Message -> Status]
  /\ ticket \in [Message -> Nat]
  /\ issued \in [Peer -> Nat]
  /\ nextSeq \in [Peer -> Nat]
  /\ tx \in [Peer -> {IdleTx} \cup BusyTx]
  /\ outbound \in [Peer -> Seq(Frame)]
  /\ outboundAck \in [Peer -> Seq(Frame)]
  /\ writer \in [Peer -> {"down", "up", "done"}]
  /\ life \in [Peer -> {"open", "closing", "closed"}]
  /\ air \in [Peer -> [Track -> Seq(Frame)]]
  /\ inbound \in [Peer -> SUBSET [seq : Nat, msg : Message, have : SUBSET Nat, intact : BOOLEAN]]
  /\ delivered \in [Peer -> SUBSET (Nat \X Message)]
  /\ reader \in [Peer -> [Track -> {IdleReader} \cup BusyReader]]
  /\ handed \in [Peer -> Seq([msg : Message, intact : BOOLEAN])]
  /\ accepted \subseteq Message
  /\ restarts \in [Peer -> 0..MaxRestarts]

Init ==
  /\ status = [m \in Message |-> "new"]
  /\ ticket = [m \in Message |-> 0]
  /\ issued = [p \in Peer |-> 0]
  /\ nextSeq = [p \in Peer |-> 0]
  /\ tx = [p \in Peer |-> IdleTx]
  /\ outbound = [p \in Peer |-> <<>>]
  /\ outboundAck = [p \in Peer |-> <<>>]
  /\ writer = [p \in Peer |-> "down"]
  /\ life = [p \in Peer |-> "open"]
  /\ air = [p \in Peer |-> [t \in Track |-> <<>>]]
  /\ inbound = [p \in Peer |-> {}]
  /\ delivered = [p \in Peer |-> {}]
  /\ reader = [p \in Peer |-> [t \in Track |-> IdleReader]]
  /\ handed = [p \in Peer |-> <<>>]
  /\ accepted = {}
  /\ restarts = [p \in Peer |-> 0]

-----------------------------------------------------------------------------
(* Send.  Any number of goroutines may call it; sendMu lets one through.   *)

CallSend(m) ==
  /\ status[m] = "new"
  /\ status' = [status EXCEPT ![m] = IF Closed(Origin[m]) THEN "closed" ELSE "blocked"]
  /\ UNCHANGED <<ticket, issued, nextSeq, tx, outbound, outboundAck, writer, life, air, recvVars, restarts>>

StartSend(m) ==
  LET p == Origin[m] IN
  /\ status[m] = "blocked" /\ tx[p].phase = "idle"
  /\ status' = [status EXCEPT ![m] = "sending"]
  /\ nextSeq' = [nextSeq EXCEPT ![p] = @ + 1]
  /\ issued' = [issued EXCEPT ![p] = @ + 1]
  /\ ticket' = [ticket EXCEPT ![m] = issued[p] + 1]
  /\ tx' = [tx EXCEPT ![p] = [phase |-> "enqueue", msg |-> m, seq |-> nextSeq[p] + 1,
                              attempt |-> 1, frag |-> 1, waiter |-> NoMsg]]
  /\ UNCHANGED <<outbound, outboundAck, writer, life, air, recvVars, restarts>>

(* Send returns: the deferred calls drop the waiter and release sendMu.    *)
ReturnSend(p, result) ==
  /\ status' = [status EXCEPT ![tx[p].msg] = result]
  /\ tx' = [tx EXCEPT ![p] = IdleTx]

NextFragment(p) ==
  IF tx[p].frag < Frags[tx[p].msg] THEN [tx[p] EXCEPT !.frag = @ + 1]
                                   ELSE [tx[p] EXCEPT !.phase = "await"]

EnqueueFragment(p) ==
  /\ tx[p].phase = "enqueue" /\ ~Closed(p)
  /\ Len(outbound[p]) < OutboundCap
  /\ outbound' = [outbound EXCEPT ![p] = Append(@, DataFrame(tx[p].seq, tx[p].msg, tx[p].frag))]
  /\ tx' = [tx EXCEPT ![p] = NextFragment(p)]
  /\ UNCHANGED <<status, ticket, issued, nextSeq, outboundAck, writer, life, air, recvVars, restarts>>

EnqueueClosed(p) ==
  /\ tx[p].phase = "enqueue" /\ Closed(p)
  /\ ReturnSend(p, "closed")
  /\ UNCHANGED <<ticket, issued, nextSeq, outbound, outboundAck, writer, life, air, recvVars, restarts>>

(* Mutation of AttemptsLeft: one attempt too many.                         *)
OneMoreAttempt(p) == tx[p].attempt <= MaxSendAttempts

AttemptsLeft(p) == tx[p].attempt < MaxSendAttempts

(* Mutation of NextAttempt: the loop has no last attempt.                  *)
RetryForever(p, left) ==
  /\ tx' = [tx EXCEPT ![p].phase = "enqueue", ![p].frag = 1, ![p].waiter = left]
  /\ UNCHANGED status

Retry(p, left) == [tx[p] EXCEPT !.phase = "enqueue", !.attempt = @ + 1, !.frag = 1, !.waiter = left]

(* The next iteration of the attempt loop, or its end; left is what stays  *)
(* in the waiter channel.                                                  *)
NextAttempt(p, left) ==
  \/ /\ AttemptsLeft(p)
     /\ tx' = [tx EXCEPT ![p] = Retry(p, left)]
     /\ UNCHANGED status
  \/ /\ ~AttemptsLeft(p)
     /\ ReturnSend(p, "timeout")

(* Mutation of AckMatches: the crc of the acknowledgement is not compared. *)
AnyAckMatches(p) == tx[p].waiter # NoMsg

AckMatches(p) == tx[p].waiter = tx[p].msg

AwaitAck(p) ==
  /\ tx[p].phase = "await" /\ tx[p].waiter # NoMsg
  /\ IF AckMatches(p) THEN ReturnSend(p, "ok") ELSE NextAttempt(p, NoMsg)
  /\ UNCHANGED <<ticket, issued, nextSeq, outbound, outboundAck, writer, life, air, recvVars, restarts>>

AwaitTimeout(p) ==
  /\ tx[p].phase = "await"
  /\ NextAttempt(p, tx[p].waiter)
  /\ UNCHANGED <<ticket, issued, nextSeq, outbound, outboundAck, writer, life, air, recvVars, restarts>>

AwaitClosed(p) ==
  /\ tx[p].phase = "await" /\ Closed(p)
  /\ ReturnSend(p, "closed")
  /\ UNCHANGED <<ticket, issued, nextSeq, outbound, outboundAck, writer, life, air, recvVars, restarts>>

-----------------------------------------------------------------------------
(* The writer goroutine, Connect and Close.                                *)

Connect(p) ==
  /\ writer[p] = "down"
  /\ writer' = [writer EXCEPT ![p] = "up"]
  /\ UNCHANGED <<sendVars, outbound, outboundAck, life, air, recvVars, restarts>>

(* What the video path makes of a frame on the way to track t of q: it may *)
(* lose it or damage the payload of a data frame; a full path, or one      *)
(* whose sender's stream is closed, loses it.                              *)
Damaged(f) ==
  IF f.typ = "data"
  THEN {[typ |-> "data", seq |-> f.seq, msg |-> f.msg, idx |-> f.idx, intact |-> FALSE]}
  ELSE {}

Arrival(p, q, t, f) ==
  {air[q][t]} \cup
    IF Len(air[q][t]) < AirCap /\ life[p] # "closed"
    THEN {Append(air[q][t], g) : g \in {f} \cup Damaged(f)}
    ELSE {}

Transmit(p, f) ==
  \E heard \in [Track -> UNION {Arrival(p, Other[p], t, f) : t \in Track}] :
    /\ \A t \in Track : heard[t] \in Arrival(p, Other[p], t, f)
    /\ air' = [air EXCEPT ![Other[p]] = heard]

(* nextOutboundFrame: acknowledgements first.                              *)
WriteAck(p) ==
  /\ writer[p] = "up" /\ outboundAck[p] # <<>>
  /\ Transmit(p, Head(outboundAck[p]))
  /\ outboundAck' = [outboundAck EXCEPT ![p] = Tail(@)]
  /\ UNCHANGED <<sendVars, outbound, writer, life, recvVars, restarts>>

WriteData(p) ==
  /\ writer[p] = "up" /\ outboundAck[p] = <<>> /\ outbound[p] # <<>>
  /\ Transmit(p, Head(outbound[p]))
  /\ outbound' = [outbound EXCEPT ![p] = Tail(@)]
  /\ UNCHANGED <<sendVars, outboundAck, writer, life, recvVars, restarts>>

WriterExit(p) ==
  /\ writer[p] = "up" /\ Closed(p)
  /\ writer' = [writer EXCEPT ![p] = "done"]
  /\ UNCHANGED <<sendVars, outbound, outboundAck, life, air, recvVars, restarts>>

(* Close waits for a writer that is up, then closes the stream.            *)
CloseBegin(p) ==
  /\ life[p] = "open"
  /\ life' = [life EXCEPT ![p] = IF writer[p] = "up" THEN "closing" ELSE "closed"]
  /\ UNCHANGED <<sendVars, outbound, outboundAck, writer, air, recvVars, restarts>>

CloseFinish(p) ==
  /\ life[p] = "closing" /\ writer[p] = "done"
  /\ life' = [life EXCEPT ![p] = "closed"]
  /\ UNCHANGED <<sendVars, outbound, outboundAck, writer, air, recvVars, restarts>>

-----------------------------------------------------------------------------
(* The goroutine of a track reads the next frame while the stream lives.   *)

Read(p, t) ==
  /\ life[p] # "closed"
  /\ reader[p][t].pc = "read" /\ air[p][t] # <<>>
  /\ air' = [air EXCEPT ![p][t] = Tail(@)]

(* resolveAck: a put that never blocks into a channel of capacity one.     *)
WaiterTakes(p, f) == tx[p].phase # "idle" /\ tx[p].seq = f.seq /\ tx[p].waiter = NoMsg

ReceiveAck(p, t) ==
  LET f == Head(air[p][t]) IN
  /\ Read(p, t) /\ f.typ = "ack"
  /\ tx' = IF WaiterTakes(p, f) THEN [tx EXCEPT ![p].waiter = f.msg] ELSE tx
  /\ UNCHANGED <<status, ticket, issued, nextSeq, outbound, outboundAck, writer, life, recvVars, restarts>>

(* Mutation of IsDelivered: only the sequence number is looked up.         *)
SeqIsDelivered(p, f) == \E d \in delivered[p] : d[1] = f.seq

IsDelivered(p, f) == <<f.seq, f.msg>> \in delivered[p]

(* upsertInbound: the entry kept for f, with f's fragment filled in if it  *)
(* was missing; an entry of another message is replaced.                   *)
Upsert(p, f) ==
  LET kept == {e \in inbound[p] : e.seq = f.seq /\ e.msg = f.msg}
      old  == IF kept = {} THEN [seq |-> f.seq, msg |-> f.msg, have |-> {}, intact |-> TRUE]
                           ELSE CHOOSE e \in kept : TRUE
  IN  IF f.idx \in old.have THEN old
      ELSE [seq |-> f.seq, msg |-> f.msg, have |-> old.have \cup {f.idx},
            intact |-> old.intact /\ f.intact]

Complete(e) == e.have = 1..Frags[e.msg]

OthersInbound(p, f) == {e \in inbound[p] : e.seq # f.seq}

ToAck(p, t, f) ==
  reader' = [reader EXCEPT ![p][t] = [pc |-> "ack", seq |-> f.seq, msg |-> f.msg, intact |-> TRUE]]

ReceiveDuplicate(p, t) ==
  LET f == Head(air[p][t]) IN
  /\ Read(p, t) /\ f.typ = "data"
  /\ IsDelivered(p, f)
  /\ ToAck(p, t, f)
  /\ UNCHANGED <<sendVars, outbound, outboundAck, writer, life, inbound, delivered, handed, accepted, restarts>>

(* Mutation of ReceiveFragment: every fragment is acknowledged.            *)
AckFragment(p, t) ==
  LET f == Head(air[p][t]) IN
  /\ Read(p, t) /\ f.typ = "data"
  /\ ~IsDelivered(p, f) /\ ~Complete(Upsert(p, f))
  /\ inbound' = [inbound EXCEPT ![p] = OthersInbound(p, f) \cup {Upsert(p, f)}]
  /\ ToAck(p, t, f)
  /\ UNCHANGED <<sendVars, outbound, outboundAck, writer, life, delivered, handed, accepted, restarts>>

ReceiveFragment(p, t) ==
  LET f == Head(air[p][t]) IN
  /\ Read(p, t) /\ f.typ = "data"
  /\ ~IsDelivered(p, f) /\ ~Complete(Upsert(p, f))
  /\ inbound' = [inbound EXCEPT ![p] = OthersInbound(p, f) \cup {Upsert(p, f)}]
  /\ UNCHANGED <<sendVars, outbound, outboundAck, writer, life, delivered, reader, handed, accepted, restarts>>

(* Mutation of CrcHolds: the assembled message is not checked.             *)
NoCrcCheck(e) == TRUE

CrcHolds(e) == e.intact

(* The assembled bytes fail the crc: dropped without an acknowledgement.   *)
ReceiveDamaged(p, t) ==
  LET f == Head(air[p][t]) IN
  /\ Read(p, t) /\ f.typ = "data"
  /\ ~IsDelivered(p, f) /\ Complete(Upsert(p, f)) /\ ~CrcHolds(Upsert(p, f))
  /\ inbound' = [inbound EXCEPT ![p] = OthersInbound(p, f)]
  /\ UNCHANGED <<sendVars, outbound, outboundAck, writer, life, delivered, reader, handed, accepted, restarts>>

(* Mutation of Remember: the table is never reset.                         *)
RememberAll(p, f) == {d \in delivered[p] : d[1] # f.seq} \cup {<<f.seq, f.msg>>}

(* Mutation of Remember: the reset comes after the entry was put.          *)
RememberThenReset(p, f) ==
  LET table == RememberAll(p, f)
  IN  IF Cardinality(table) > DeliveredCap THEN {} ELSE table

(* The table that a reset leaves, and the entry of f put into it.          *)
Remember(p, f) ==
  LET table == IF Cardinality(delivered[p]) > DeliveredCap THEN {} ELSE delivered[p]
  IN  {d \in table : d[1] # f.seq} \cup {<<f.seq, f.msg>>}

ReceiveMessage(p, t) ==
  LET f == Head(air[p][t]) IN
  /\ Read(p, t) /\ f.typ = "data"
  /\ ~IsDelivered(p, f) /\ Complete(Upsert(p, f)) /\ CrcHolds(Upsert(p, f))
  /\ inbound' = [inbound EXCEPT ![p] = OthersInbound(p, f)]
  /\ delivered' = [delivered EXCEPT ![p] = Remember(p, f)]
  /\ accepted' = accepted \cup {f.msg}
  /\ reader' = [reader EXCEPT ![p][t] = [pc |-> "hand", seq |-> f.seq, msg |-> f.msg,
                                          intact |-> Upsert(p, f).intact]]
  /\ UNCHANGED <<sendVars, outbound, outboundAck, writer, life, handed, restarts>>

(* onData, after recvMu was released.                                      *)
HandToUpper(p, t) ==
  LET r == reader[p][t] IN
  /\ r.pc = "hand"
  /\ handed' = [handed EXCEPT ![p] = Append(@, [msg |-> r.msg, intact |-> r.intact])]
  /\ ToAck(p, t, r)
  /\ UNCHANGED <<sendVars, outbound, outboundAck, writer, life, air, inbound, delivered, accepted, restarts>>

(* sendAck blocks while outboundAck is full and gives up once closed.      *)
SendAck(p, t) ==
  LET r == reader[p][t] IN
  /\ r.pc = "ack"
  /\ \/ /\ ~Closed(p) /\ Len(outboundAck[p]) < AckCap
        /\ outboundAck' = [outboundAck EXCEPT ![p] = Append(@, AckFrame(r.seq, r.msg))]
     \/ /\ Closed(p)
        /\ UNCHANGED outboundAck
  /\ reader' = [reader EXCEPT ![p][t] = IdleReader]
  /\ UNCHANGED <<sendVars, outbound, writer, life, air, inbound, delivered, handed, accepted, restarts>>

-----------------------------------------------------------------------------
(* The process of p dies and a new one joins the call: everything p kept   *)
(* is gone, nextSeq starts again, frames still on their way to the old     *)
(* process reach nobody; the other peer keeps its state.                   *)
Restart(p) ==
  /\ \A q \in Peer : restarts[q] < MaxRestarts
  /\ restarts' = [restarts EXCEPT ![p] = @ + 1]
  /\ status' = [m \in Message |->
                  IF Origin[m] = p /\ status[m] \in {"blocked", "sending"} THEN "lost" ELSE status[m]]
  /\ nextSeq' = [nextSeq EXCEPT ![p] = 0]
  /\ tx' = [tx EXCEPT ![p] = IdleTx]
  /\ outbound' = [outbound EXCEPT ![p] = <<>>]
  /\ outboundAck' = [outboundAck EXCEPT ![p] = <<>>]
  /\ writer' = [writer EXCEPT ![p] = "down"]
  /\ life' = [life EXCEPT ![p] = "open"]
  /\ air' = [air EXCEPT ![p] = [t \in Track |-> <<>>]]
  /\ inbound' = [inbound EXCEPT ![p] = {}]
  /\ delivered' = [delivered EXCEPT ![p] = {}]
  /\ reader' = [reader EXCEPT ![p] = [t \in Track |-> IdleReader]]
  /\ handed' = [handed EXCEPT ![p] = <<>>]
  /\ UNCHANGED <<ticket, issued, accepted>>

-----------------------------------------------------------------------------
SendStep(p) ==
  EnqueueFragment(p) \/ EnqueueClosed(p) \/ AwaitAck(p) \/ AwaitTimeout(p) \/ AwaitClosed(p)

WriterStep(p) == WriteAck(p) \/ WriteData(p) \/ WriterExit(p)

ReaderStep(p, t) ==
  \/ ReceiveAck(p, t) \/ ReceiveDuplicate(p, t) \/ ReceiveFragment(p, t)
  \/ ReceiveDamaged(p, t) \/ ReceiveMessage(p, t)
  \/ HandToUpper(p, t) \/ SendAck(p, t)

Next ==
  \/ \E m \in Message : CallSend(m) \/ StartSend(m)
  \/ \E p \in Peer : \/ SendStep(p) \/ Connect(p) \/ WriterStep(p)
                     \/ CloseBegin(p) \/ CloseFinish(p) \/ Restart(p)
                     \/ \E t \in Track : ReaderStep(p, t)

Spec == Init /\ [][Next]_vars

(* Every goroutine that can take a step takes one in the end; a sendMu     *)
(* that is free goes to one of those that wait for it; timers fire.  The   *)
(* caller need not connect, close or restart anything.                     *)
Fairness ==
  \A p \in Peer :
    /\ WF_vars(SendStep(p))
    /\ WF_vars(\E m \in {x \in Message : Origin[x] = p} : StartSend(m))
    /\ WF_vars(WriterStep(p))
    /\ WF_vars(CloseFinish(p))
    /\ \A t \in Track : WF_vars(ReaderStep(p, t))

FairSpec == Spec /\ Fairness

-----------------------------------------------------------------------------
(* Properties.                                                             *)

(* A Send that returned nil was for a message the peer reassembled and     *)
(* marked as delivered: no acknowledgement of another message, of an       *)
(* earlier process or of a partial message is taken for it.                *)
AckedIsAccepted == \A m \in Message : status[m] = "ok" => m \in accepted

(* Why: every step on the way of an acknowledgement holds a message its    *)
(* receiver accepted; the queue of data frames never holds one.            *)
WaiterTrail == \A p \in Peer : tx[p].waiter # NoMsg => tx[p].waiter \in accepted
QueueTrail ==
  \A p \in Peer :
    /\ \A i \in 1..Len(outbound[p]) : outbound[p][i].typ = "data"
    /\ \A i \in 1..Len(outboundAck[p]) : outboundAck[p][i].msg \in accepted
AirTrail ==
  \A p \in Peer, t \in Track : \A i \in 1..Len(air[p][t]) :
    air[p][t][i].typ = "ack" => air[p][t][i].msg \in accepted
TableTrail ==
  /\ \A p \in Peer : \A d \in delivered[p] : d[2] \in accepted
  /\ \A p \in Peer, t \in Track : reader[p][t].pc # "read" => reader[p][t].msg \in accepted
AckedInv == TypeOK /\ AckedIsAccepted /\ WaiterTrail /\ QueueTrail /\ AirTrail /\ TableTrail

(* The message of a Send that returned nil has been given to onData of the *)
(* peer, or a goroutine that marked it is about to (recvMu is released     *)
(* before onData runs), unless the peer's process died meanwhile.          *)
InHand(q, m) == \E t \in Track : reader[q][t].pc = "hand" /\ reader[q][t].msg = m
WasHanded(q, m) == \E i \in 1..Len(handed[q]) : handed[q][i].msg = m
AckedIsHanded ==
  \A m \in Message :
    LET q == Other[Origin[m]] IN
    status[m] = "ok" /\ restarts[q] = 0 => WasHanded(q, m) \/ InHand(q, m)

(* Reliable and Ordered of Features: the upper layer of a peer gets the    *)
(* messages in the order in which the other side's Sends got sendMu, and   *)
(* none of them twice, whatever the path loses, however often fragments    *)
(* are sent again and whenever the delivered table is reset.               *)
HandedInOrder ==
  \A p \in Peer : \A i, j \in 1..Len(handed[p]) :
    i < j => ticket[handed[p][i].msg] < ticket[handed[p][j].msg]

(* No message with a damaged fragment reaches the upper layer, although    *)
(* fragments of several attempts are combined.                             *)
HandedIntact == \A p \in Peer : \A i \in 1..Len(handed[p]) : handed[p][i].intact

(* The delivered table never holds more than one entry above the size at   *)
(* which it is reset, and one entry per sequence number.                   *)
DeliveredBounded ==
  \A p \in Peer :
    /\ Cardinality(delivered[p]) <= DeliveredCap + 1
    /\ \A d, e \in delivered[p] : d[1] = e[1] => d = e

(* A Send returns once the writer has been started: neither a full queue,  *)
(* nor a lost acknowledgement, nor a Close keeps its caller for ever.      *)
SendReturns ==
  \A m \in Message :
    status[m] \in {"blocked", "sending"} /\ writer[Origin[m]] # "down"
      ~> status[m] \notin {"blocked", "sending"} \/ writer[Origin[m]] = "down"

(* Close returns: the writer notices the closed channel.                   *)
CloseReturns == \A p \in Peer : life[p] = "closing" ~> life[p] # "closing"
=============================================================================
