---------------------------- MODULE ArqLinkProofs ----------------------------
(***************************************************************************)
(* What the receiving side of ArqTransport promises, and that on one track *)
(* the protocol is the reliable ordered link of MessageLink: for every set *)
(* of messages, any number of fragments, attempts, restarts and faults.    *)
(*                                                                         *)
(* The argument: every data frame that is queued, on the air or held by a  *)
(* Send belongs to one message of its sender, under one sequence number    *)
(* (FlightInv).  A Send holds sendMu, so that the tickets of what is in    *)
(* flight never fall from the air to the queue to the Send, and the first  *)
(* fragment of a message comes after everything the peer has accepted      *)
(* (OrderInv).  With two tracks a frame may overtake another and           *)
(* HandedInOrder fails, which is why those theorems ask for one.           *)
(***************************************************************************)
EXTENDS ArqProofs, ArqImplementsLink, FiniteSetTheorems

-----------------------------------------------------------------------------
(* The frames in flight.                                                   *)

(* The data frames of a queue, and those on their way from p: on the air,  *)
(* queued, or of the Send that holds sendMu.                               *)
DataOf(s) == {<<s[i].seq, s[i].msg>> : i \in {j \in 1..Len(s) : s[j].typ = "data"}}
OnAir(p) == UNION {DataOf(air[Other[p]][t]) : t \in Track}
Sending(p) == IF tx[p].phase = "idle" THEN {} ELSE {<<tx[p].seq, tx[p].msg>>}
InFlight(p) == OnAir(p) \cup DataOf(outbound[p]) \cup Sending(p)

AcksQueued == \A p \in Peer : \A i \in 1..Len(outboundAck[p]) : outboundAck[p][i].typ = "ack"

(* A ticket is given once: the Send that holds it is over or holds sendMu. *)
TicketsUnique ==
  /\ \A m \in Message : ticket[m] <= issued[Origin[m]]
  /\ \A m \in Message : status[m] \in {"new", "blocked"} => ticket[m] = 0
  /\ \A m, n \in Message : Origin[m] = Origin[n] /\ ticket[m] = ticket[n] /\ ticket[m] > 0 => m = n

(* What is in flight from p was sent by p, under one sequence number.      *)
FlightOwned ==
  \A p \in Peer :
    /\ \A d \in InFlight(p) : d[2] \in Message /\ Origin[d[2]] = p /\ ticket[d[2]] > 0
    /\ \A d, e \in InFlight(p) : d[2] = e[2] => d = e

SenderSends == \A p \in Peer : tx[p].phase # "idle" => status[tx[p].msg] = "sending"

FlightInv == TypeOK /\ AcksQueued /\ TicketsUnique /\ FlightOwned /\ SenderSends

(* The data frames left when the head of a queue is taken.                 *)
LEMMA DataOfTail ==
  ASSUME NEW s \in Seq(Frame), s # <<>>
  PROVE  /\ DataOf(Tail(s)) \subseteq DataOf(s)
         /\ Head(s).typ = "data" => <<Head(s).seq, Head(s).msg>> \in DataOf(s)
<1>1. /\ Len(Tail(s)) = Len(s) - 1
      /\ Head(s) = s[1] /\ 1 \in 1..Len(s)
      /\ \A i \in 1..Len(Tail(s)) : i + 1 \in 1..Len(s) /\ Tail(s)[i] = s[i + 1]
  BY TailOf
<1>2. ASSUME NEW d \in DataOf(Tail(s)) PROVE d \in DataOf(s)
  <2>1. PICK i \in 1..Len(Tail(s)) : Tail(s)[i].typ = "data" /\ d = <<Tail(s)[i].seq, Tail(s)[i].msg>>
    BY <1>2 DEF DataOf
  <2>2. i + 1 \in 1..Len(s) /\ s[i + 1].typ = "data" /\ d = <<s[i + 1].seq, s[i + 1].msg>>
    BY <1>1, <2>1
  <2> QED
    BY <2>2 DEF DataOf
<1>3. Head(s).typ = "data" => <<Head(s).seq, Head(s).msg>> \in DataOf(s)
  BY <1>1 DEF DataOf
<1> QED
  BY <1>2, <1>3

(* The data frames of a queue to which a frame is appended.                *)
LEMMA DataOfAppend ==
  ASSUME NEW s \in Seq(Frame), NEW f \in Frame
  PROVE  DataOf(Append(s, f)) \subseteq DataOf(s) \cup IF f.typ = "data" THEN {<<f.seq, f.msg>>} ELSE {}
<1>1. ASSUME NEW d \in DataOf(Append(s, f))
      PROVE  d \in DataOf(s) \/ (f.typ = "data" /\ d = <<f.seq, f.msg>>)
  <2>1. PICK i \in 1..Len(Append(s, f)) :
           Append(s, f)[i].typ = "data" /\ d = <<Append(s, f)[i].seq, Append(s, f)[i].msg>>
    BY <1>1 DEF DataOf
  <2>2. (i \in 1..Len(s) /\ Append(s, f)[i] = s[i]) \/ Append(s, f)[i] = f
    BY AppendOf
  <2> QED
    BY <2>1, <2>2 DEF DataOf
<1> QED
  BY <1>1

(* What a transmission puts on each track of the other end, if anything:   *)
(* the frame, damaged or not.                                              *)
LEMMA TransmitAir ==
  ASSUME TypeOK, NEW p \in Peer, NEW f \in Frame, Transmit(p, f)
  PROVE  /\ \A q \in Peer : q # Other[p] => air'[q] = air[q]
         /\ \A t \in Track :
              \/ air'[Other[p]][t] = air[Other[p]][t]
              \/ \E g \in Frame : /\ g.typ = f.typ /\ g.seq = f.seq /\ g.msg = f.msg
                                  /\ air'[Other[p]][t] = Append(air[Other[p]][t], g)
<1> DEFINE q == Other[p]
<1>0. q \in Peer
  BY PeerAssumption
<1>1. PICK heard \in [Track -> UNION {Arrival(p, q, t, f) : t \in Track}] :
         /\ \A t \in Track : heard[t] \in Arrival(p, q, t, f)
         /\ air' = [air EXCEPT ![q] = heard]
  BY DEF Transmit
<1>2. air'[q] = heard /\ \A r \in Peer : r # q => air'[r] = air[r]
  BY <1>0, <1>1 DEF TypeOK
<1>3. ASSUME NEW g \in {f} \cup Damaged(f)
      PROVE  g \in Frame /\ g.typ = f.typ /\ g.seq = f.seq /\ g.msg = f.msg
  <2>1. CASE g = f
    BY <2>1
  <2>2. CASE g \in Damaged(f)
    <3>1. /\ f.typ = "data" /\ f.seq \in Nat /\ f.msg \in Message /\ f.idx \in Nat
          /\ g = [typ |-> "data", seq |-> f.seq, msg |-> f.msg, idx |-> f.idx, intact |-> FALSE]
      BY <2>2 DEF Damaged, Frame
    <3> QED
      BY <3>1 DEF Frame
  <2> QED
    BY <1>3, <2>1, <2>2
<1>4. ASSUME NEW t \in Track
      PROVE  \/ heard[t] = air[q][t]
             \/ \E g \in Frame : /\ g.typ = f.typ /\ g.seq = f.seq /\ g.msg = f.msg
                                 /\ heard[t] = Append(air[q][t], g)
  BY <1>1, <1>3 DEF Arrival
<1> QED
  BY <1>2, <1>4

(* A goroutine that reads a data frame reads one that was in flight from   *)
(* the other end.                                                          *)
LEMMA ReadFlight ==
  ASSUME TypeOK, NEW p \in Peer, NEW t \in Track, Read(p, t), Head(air[p][t]).typ = "data"
  PROVE  <<Head(air[p][t]).seq, Head(air[p][t]).msg>> \in OnAir(Other[p])
<1>1. air[p][t] \in Seq(Frame) /\ air[p][t] # <<>>
  BY DEF TypeOK, Read
<1>2. Other[Other[p]] = p
  BY PeerAssumption
<1> QED
  BY <1>1, <1>2, DataOfTail DEF OnAir

(* What a step can do to the data on its way from q: queues lose their     *)
(* head or everything, the Send of q queues a fragment, the writer of q    *)
(* transmits a frame, or another Send gets sendMu.                         *)
Drained(old, new) == new = old \/ new = <<>> \/ (old # <<>> /\ new = Tail(old))

Drains(q) ==
  /\ \A t \in Track : Drained(air[Other[q]][t], air'[Other[q]][t])
  /\ outbound'[q] = outbound[q] \/ outbound'[q] = <<>>
  /\ Sending(q)' \subseteq Sending(q)

Enqueues(q) ==
  /\ UNCHANGED air
  /\ \E x \in Frame : /\ x.typ = "data" /\ Sending(q) = {<<x.seq, x.msg>>}
                      /\ outbound'[q] = Append(outbound[q], x)
  /\ Sending(q)' \subseteq Sending(q)

Transmits(q) ==
  /\ \E f \in Frame :
       /\ \/ f.typ = "ack" /\ outbound'[q] = outbound[q]
          \/ outbound[q] # <<>> /\ f = Head(outbound[q]) /\ outbound'[q] = Tail(outbound[q])
       /\ \A t \in Track :
            \/ air'[Other[q]][t] = air[Other[q]][t]
            \/ \E g \in Frame : /\ g.typ = f.typ /\ g.seq = f.seq /\ g.msg = f.msg
                                /\ air'[Other[q]][t] = Append(air[Other[q]][t], g)
  /\ Sending(q)' \subseteq Sending(q)

Starts(q) ==
  /\ UNCHANGED <<air, outbound>>
  /\ \E m \in Message : /\ StartSend(m) /\ Origin[m] = q
                        /\ Sending(q)' = {<<nextSeq[q] + 1, m>>}

(* There is no other step.                                                 *)
LEMMA FlightCases ==
  ASSUME TypeOK, AcksQueued, Next, NEW q \in Peer
  PROVE  Drains(q) \/ Enqueues(q) \/ Transmits(q) \/ Starts(q)
<1> USE DEF sendVars, recvVars
<1>0. /\ tx \in [Peer -> TxType] /\ outbound \in [Peer -> Seq(Frame)] /\ IdleTx.phase = "idle"
      /\ Other[q] \in Peer /\ \A p \in Peer : Other[p] \in Peer /\ (p # q => Other[p] # Other[q])
  BY PeerAssumption DEF TypeOK, TxType, IdleTx
<1>1. ASSUME UNCHANGED <<air, outbound>>, Sending(q)' \subseteq Sending(q)
      PROVE  Drains(q)
  BY <1>1 DEF Drains, Drained
<1>2. ASSUME NEW p \in Peer, NEW r, ReturnSend(p, r)
      PROVE  Sending(q)' \subseteq Sending(q)
  BY <1>0, <1>2 DEF ReturnSend, Sending
<1>3. ASSUME NEW p \in Peer, NEW w, tx[p] \in BusyTx, NextAttempt(p, w)
      PROVE  Sending(q)' \subseteq Sending(q)
  <2>1. CASE tx' = [tx EXCEPT ![p] = Retry(p, w)]
    <3>1. Retry(p, w).seq = tx[p].seq /\ Retry(p, w).msg = tx[p].msg /\ tx[p].phase # "idle"
      BY <1>3 DEF Retry, BusyTx
    <3> QED
      BY <1>0, <2>1, <3>1 DEF Sending
  <2> QED
    BY <1>2, <1>3, <2>1 DEF NextAttempt
<1>4. ASSUME NEW m \in Message, CallSend(m) PROVE Drains(q)
  BY <1>1, <1>4 DEF CallSend, Sending
<1>5. ASSUME NEW m \in Message, StartSend(m) PROVE Starts(q) \/ Drains(q)
  <2>1. Origin[m] \in Peer /\ UNCHANGED <<air, outbound>>
    BY <1>5, MessageAssumption DEF StartSend
  <2>2. CASE Origin[m] = q
    <3>1. Sending(q)' = {<<nextSeq[q] + 1, m>>}
      BY <1>0, <1>5, <2>2 DEF StartSend, Sending
    <3> QED
      BY <1>5, <2>1, <2>2, <3>1 DEF Starts
  <2>3. CASE Origin[m] # q
    BY <1>0, <1>1, <1>5, <2>1, <2>3 DEF StartSend, Sending
  <2> QED
    BY <2>2, <2>3
<1>6. ASSUME NEW p \in Peer, EnqueueFragment(p) PROVE Enqueues(q) \/ Drains(q)
  <2> DEFINE x == DataFrame(tx[p].seq, tx[p].msg, tx[p].frag)
  <2>1. tx[p] \in BusyTx
    BY <1>6, BusySender DEF EnqueueFragment
  <2>2. x \in Frame /\ x.typ = "data" /\ x.seq = tx[p].seq /\ x.msg = tx[p].msg
    BY <2>1 DEF BusyTx, DataFrame, Frame
  <2>3. /\ NextFragment(p).seq = tx[p].seq /\ NextFragment(p).msg = tx[p].msg
        /\ tx[p].phase # "idle"
    BY <2>1 DEF NextFragment, BusyTx
  <2>4. Sending(q)' \subseteq Sending(q) /\ (q = p => Sending(q) = {<<tx[p].seq, tx[p].msg>>})
    BY <1>0, <1>6, <2>3 DEF EnqueueFragment, Sending
  <2>5. outbound' = [outbound EXCEPT ![p] = Append(outbound[p], x)] /\ air' = air
    BY <1>6 DEF EnqueueFragment
  <2> HIDE DEF x
  <2>6. CASE q = p
    <3>1. outbound'[q] = Append(outbound[q], x)
      BY <1>0, <2>5, <2>6
    <3> QED
      BY <2>2, <2>4, <2>5, <2>6, <3>1 DEF Enqueues
  <2>7. CASE q # p
    BY <1>0, <2>4, <2>5, <2>7 DEF Drains, Drained
  <2> QED
    BY <2>6, <2>7
<1>7. ASSUME NEW p \in Peer, EnqueueClosed(p) \/ AwaitClosed(p) PROVE Drains(q)
  BY <1>1, <1>2, <1>7 DEF EnqueueClosed, AwaitClosed
<1>8. ASSUME NEW p \in Peer, AwaitAck(p) \/ AwaitTimeout(p) PROVE Drains(q)
  <2>1. tx[p] \in BusyTx
    BY <1>8, BusySender DEF AwaitAck, AwaitTimeout
  <2> QED
    BY <1>1, <1>2, <1>3, <1>8, <2>1 DEF AwaitAck, AwaitTimeout
<1>9. ASSUME NEW p \in Peer, WriteAck(p) PROVE Transmits(q) \/ Drains(q)
  <2>1. outboundAck[p] \in Seq(Frame) /\ outboundAck[p] # <<>>
    BY <1>9 DEF WriteAck, TypeOK
  <2>2. Head(outboundAck[p]) \in Frame /\ Head(outboundAck[p]).typ = "ack"
    BY <2>1, TailOf DEF AcksQueued
  <2>3. Transmit(p, Head(outboundAck[p])) /\ outbound' = outbound /\ Sending(q)' = Sending(q)
    BY <1>9 DEF WriteAck, Sending
  <2>4. CASE q = p
    BY <2>2, <2>3, <2>4, TransmitAir DEF Transmits
  <2>5. CASE q # p
    <3>1. air'[Other[q]] = air[Other[q]]
      BY <1>0, <2>2, <2>3, <2>5, TransmitAir
    <3> QED
      BY <2>3, <3>1 DEF Drains, Drained
  <2> QED
    BY <2>4, <2>5
<1>10. ASSUME NEW p \in Peer, WriteData(p) PROVE Transmits(q) \/ Drains(q)
  <2>1. outbound[p] \in Seq(Frame) /\ outbound[p] # <<>> /\ Head(outbound[p]) \in Frame
    BY <1>10 DEF WriteData, TypeOK
  <2>2. /\ Transmit(p, Head(outbound[p])) /\ Sending(q)' = Sending(q)
        /\ outbound'[q] = IF q = p THEN Tail(outbound[q]) ELSE outbound[q]
    BY <1>0, <1>10 DEF WriteData, Sending
  <2>3. CASE q = p
    BY <2>1, <2>2, <2>3, TransmitAir DEF Transmits
  <2>4. CASE q # p
    <3>1. air'[Other[q]] = air[Other[q]]
      BY <1>0, <2>1, <2>2, <2>4, TransmitAir
    <3> QED
      BY <2>2, <2>4, <3>1 DEF Drains, Drained
  <2> QED
    BY <2>3, <2>4
<1>11. ASSUME NEW p \in Peer, Connect(p) \/ WriterExit(p) \/ CloseBegin(p) \/ CloseFinish(p)
       PROVE  Drains(q)
  BY <1>1, <1>11 DEF Connect, WriterExit, CloseBegin, CloseFinish, Sending
<1>12. ASSUME NEW p \in Peer, Restart(p) PROVE Drains(q)
  <2>1. Sending(q)' \subseteq Sending(q) /\ (outbound'[q] = outbound[q] \/ outbound'[q] = <<>>)
    BY <1>0, <1>12 DEF Restart, Sending
  <2>2. \A t \in Track : air'[Other[q]][t] = air[Other[q]][t] \/ air'[Other[q]][t] = <<>>
    BY <1>0, <1>12 DEF Restart, TypeOK
  <2> QED
    BY <2>1, <2>2 DEF Drains, Drained
<1>13. ASSUME NEW p \in Peer, NEW t \in Track, Read(p, t), outbound' = outbound,
              Sending(q)' \subseteq Sending(q)
       PROVE  Drains(q)
  <2>1. \A u \in Track :
          air'[Other[q]][u] = IF Other[q] = p /\ u = t THEN Tail(air[p][t]) ELSE air[Other[q]][u]
    BY <1>0, <1>13 DEF Read, TypeOK
  <2>2. air[p][t] # <<>>
    BY <1>13 DEF Read
  <2> QED
    BY <1>13, <2>1, <2>2 DEF Drains, Drained
<1>14. ASSUME NEW p \in Peer, NEW t \in Track, ReceiveAck(p, t) PROVE Drains(q)
  <2> DEFINE f == Head(air[p][t])
  <2>1. Read(p, t) /\ outbound' = outbound
    BY <1>14 DEF ReceiveAck
  <2>2. CASE WaiterTakes(p, f)
    <3>1. tx[p] \in BusyTx
      BY <2>2, BusySender DEF WaiterTakes
    <3>2. /\ [tx[p] EXCEPT !.waiter = f.msg].seq = tx[p].seq
          /\ [tx[p] EXCEPT !.waiter = f.msg].msg = tx[p].msg
          /\ tx[p].phase # "idle"
      BY <3>1 DEF BusyTx
    <3>3. tx' = [tx EXCEPT ![p] = [tx[p] EXCEPT !.waiter = f.msg]]
      BY <1>14, <2>2 DEF ReceiveAck
    <3> HIDE DEF f
    <3>4. Sending(q)' \subseteq Sending(q)
      BY <1>0, <3>2, <3>3 DEF Sending
    <3> QED
      BY <1>13, <2>1, <3>4
  <2>3. CASE ~WaiterTakes(p, f)
    <3>1. Sending(q)' = Sending(q)
      BY <1>14, <2>3 DEF ReceiveAck, Sending
    <3> QED
      BY <1>13, <2>1, <3>1
  <2> QED
    BY <2>2, <2>3
<1>15. ASSUME NEW p \in Peer, NEW t \in Track,
              \/ ReceiveDuplicate(p, t) \/ ReceiveFragment(p, t)
              \/ ReceiveDamaged(p, t) \/ ReceiveMessage(p, t)
       PROVE  Drains(q)
  <2>1. Read(p, t) /\ outbound' = outbound /\ tx' = tx
    BY <1>15 DEF ReceiveDuplicate, ReceiveFragment, ReceiveDamaged, ReceiveMessage
  <2>2. Sending(q)' = Sending(q)
    BY <2>1 DEF Sending
  <2> QED
    BY <1>13, <2>1, <2>2
<1>16. ASSUME NEW p \in Peer, NEW t \in Track, HandToUpper(p, t) \/ SendAck(p, t)
       PROVE  Drains(q)
  BY <1>1, <1>16 DEF HandToUpper, SendAck, Sending
<1> QED
  BY <1>4, <1>5, <1>6, <1>7, <1>8, <1>9, <1>10, <1>11, <1>12, <1>14, <1>15, <1>16, NextCases

(* So only a Send that gets sendMu brings a message in flight; every other *)
(* step moves, repeats or loses what is there.                             *)
LEMMA FlightStep ==
  ASSUME TypeOK, AcksQueued, Next, NEW q \in Peer
  PROVE  \/ InFlight(q)' \subseteq InFlight(q)
         \/ \E m \in Message :
              /\ StartSend(m) /\ Origin[m] = q
              /\ InFlight(q)' \subseteq InFlight(q) \cup {<<nextSeq[q] + 1, m>>}
<1>0. outbound[q] \in Seq(Frame) /\ \A t \in Track : air[Other[q]][t] \in Seq(Frame)
  BY PeerAssumption DEF TypeOK
<1>1. DataOf(<<>>) = {}
  BY DEF DataOf
<1>2. CASE Drains(q)
  <2>1. ASSUME NEW s \in Seq(Frame), NEW r, Drained(s, r) PROVE DataOf(r) \subseteq DataOf(s)
    BY <1>1, <2>1, DataOfTail DEF Drained
  <2>2. OnAir(q)' \subseteq OnAir(q)
    BY <1>0, <1>2, <2>1 DEF Drains, OnAir
  <2>3. DataOf(outbound'[q]) \subseteq DataOf(outbound[q])
    BY <1>0, <1>1, <1>2 DEF Drains
  <2> QED
    BY <1>2, <2>2, <2>3 DEF Drains, InFlight
<1>3. CASE Enqueues(q)
  <2>1. DataOf(outbound'[q]) \subseteq DataOf(outbound[q]) \cup Sending(q)
    BY <1>0, <1>3, DataOfAppend DEF Enqueues
  <2> QED
    BY <1>3, <2>1 DEF Enqueues, InFlight, OnAir
<1>4. CASE Transmits(q)
  <2>1. PICK f \in Frame :
          /\ \/ f.typ = "ack" /\ outbound'[q] = outbound[q]
             \/ outbound[q] # <<>> /\ f = Head(outbound[q]) /\ outbound'[q] = Tail(outbound[q])
          /\ \A t \in Track :
               \/ air'[Other[q]][t] = air[Other[q]][t]
               \/ \E g \in Frame : /\ g.typ = f.typ /\ g.seq = f.seq /\ g.msg = f.msg
                                   /\ air'[Other[q]][t] = Append(air[Other[q]][t], g)
    BY <1>4 DEF Transmits
  <2>2. /\ DataOf(outbound'[q]) \subseteq DataOf(outbound[q])
        /\ f.typ = "data" => <<f.seq, f.msg>> \in DataOf(outbound[q])
    BY <1>0, <2>1, DataOfTail
  <2>3. ASSUME NEW t \in Track
        PROVE  DataOf(air'[Other[q]][t]) \subseteq DataOf(air[Other[q]][t]) \cup DataOf(outbound[q])
    <3>1. CASE air'[Other[q]][t] = air[Other[q]][t]
      BY <3>1
    <3>2. ASSUME NEW g \in Frame, g.typ = f.typ, g.seq = f.seq, g.msg = f.msg,
                 air'[Other[q]][t] = Append(air[Other[q]][t], g)
          PROVE  DataOf(air'[Other[q]][t]) \subseteq DataOf(air[Other[q]][t]) \cup DataOf(outbound[q])
      BY <1>0, <2>2, <3>2, DataOfAppend
    <3> QED
      BY <2>1, <3>1, <3>2
  <2> QED
    BY <1>4, <2>2, <2>3 DEF Transmits, InFlight, OnAir
<1>5. CASE Starts(q)
  BY <1>5 DEF Starts, InFlight, OnAir
<1> QED
  BY <1>2, <1>3, <1>4, <1>5, FlightCases

(* The queue of acknowledgements holds acknowledgements.                   *)
LEMMA AcksStep == ASSUME TypeOK, AcksQueued, Next PROVE AcksQueued'
<1> USE DEF sendVars, recvVars
<1>0. outboundAck \in [Peer -> Seq(Frame)]
  BY DEF TypeOK
<1>1. ASSUME NEW p \in Peer, WriteAck(p) PROVE AcksQueued'
  <2>1. outboundAck[p] \in Seq(Frame) /\ outboundAck[p] # <<>>
    BY <1>0, <1>1 DEF WriteAck
  <2>2. ASSUME NEW q \in Peer, NEW i \in 1..Len(outboundAck'[q]) PROVE outboundAck'[q][i].typ = "ack"
    <3>1. CASE q = p
      <4>1. outboundAck'[q] = Tail(outboundAck[p])
        BY <1>0, <1>1, <3>1 DEF WriteAck
      <4>2. i + 1 \in 1..Len(outboundAck[p]) /\ outboundAck'[q][i] = outboundAck[p][i + 1]
        BY <2>1, <2>2, <4>1, TailOf
      <4> QED
        BY <4>2 DEF AcksQueued
    <3>2. CASE q # p
      BY <1>0, <1>1, <2>2, <3>2 DEF WriteAck, AcksQueued
    <3> QED
      BY <3>1, <3>2
  <2> QED
    BY <2>2 DEF AcksQueued
<1>2. ASSUME NEW p \in Peer, NEW t \in Track, SendAck(p, t) PROVE AcksQueued'
  <2> DEFINE x == AckFrame(reader[p][t].seq, reader[p][t].msg)
  <2>1. reader[p][t] \in BusyReader
    BY <1>2, BusyGoroutine DEF SendAck
  <2>2. x \in Frame /\ x.typ = "ack"
    BY <2>1 DEF BusyReader, AckFrame, Frame
  <2>3. outboundAck' = [outboundAck EXCEPT ![p] = Append(outboundAck[p], x)] \/ UNCHANGED outboundAck
    BY <1>2 DEF SendAck
  <2> HIDE DEF x
  <2>4. ASSUME NEW q \in Peer, NEW i \in 1..Len(outboundAck'[q]) PROVE outboundAck'[q][i].typ = "ack"
    <3>1. CASE outboundAck'[q] = outboundAck[q]
      BY <2>4, <3>1 DEF AcksQueued
    <3>2. CASE q = p /\ outboundAck'[q] = Append(outboundAck[p], x)
      <4>1. (i \in 1..Len(outboundAck[p]) /\ outboundAck'[q][i] = outboundAck[p][i])
            \/ outboundAck'[q][i] = x
        BY <1>0, <2>2, <2>4, <3>2, AppendOf
      <4> QED
        BY <2>2, <4>1 DEF AcksQueued
    <3> QED
      BY <1>0, <2>3, <3>1, <3>2
  <2> QED
    BY <2>4 DEF AcksQueued
<1>3. ASSUME NEW p \in Peer, Restart(p) PROVE AcksQueued'
  BY <1>0, <1>3 DEF Restart, AcksQueued
<1>4. ASSUME UNCHANGED outboundAck PROVE AcksQueued'
  BY <1>4 DEF AcksQueued
<1>5. \/ \E p \in Peer : WriteAck(p) \/ Restart(p) \/ \E t \in Track : SendAck(p, t)
      \/ UNCHANGED outboundAck
  <2>1. ASSUME NEW m \in Message, CallSend(m) \/ StartSend(m) PROVE UNCHANGED outboundAck
    BY <2>1 DEF CallSend, StartSend
  <2>2. ASSUME NEW p \in Peer,
               \/ EnqueueFragment(p) \/ EnqueueClosed(p) \/ AwaitAck(p) \/ AwaitTimeout(p) \/ AwaitClosed(p)
               \/ Connect(p) \/ WriteData(p) \/ WriterExit(p) \/ CloseBegin(p) \/ CloseFinish(p)
        PROVE  UNCHANGED outboundAck
    BY <2>2 DEF EnqueueFragment, EnqueueClosed, AwaitAck, AwaitTimeout, AwaitClosed,
                Connect, WriteData, WriterExit, CloseBegin, CloseFinish
  <2>3. ASSUME NEW p \in Peer, NEW t \in Track,
               \/ ReceiveAck(p, t) \/ ReceiveDuplicate(p, t) \/ ReceiveFragment(p, t)
               \/ ReceiveDamaged(p, t) \/ ReceiveMessage(p, t) \/ HandToUpper(p, t)
        PROVE  UNCHANGED outboundAck
    BY <2>3 DEF ReceiveAck, ReceiveDuplicate, ReceiveFragment, ReceiveDamaged, ReceiveMessage, HandToUpper
  <2> QED
    BY <2>1, <2>2, <2>3, NextCases
<1> QED
  BY <1>1, <1>2, <1>3, <1>4, <1>5

(* The Send of p that is in flight, and the one that returns.              *)
LEMMA SenderInFlight ==
  ASSUME FlightInv, NEW p \in Peer, tx[p].phase # "idle"
  PROVE  tx[p].msg \in Message /\ Origin[tx[p].msg] = p /\ ticket[tx[p].msg] > 0
<1>1. <<tx[p].seq, tx[p].msg>> \in InFlight(p)
  BY DEF InFlight, Sending
<1> QED
  BY <1>1 DEF FlightInv, FlightOwned

(* What a step does to the Sends: one gets sendMu and a ticket, or no      *)
(* ticket is given and no Send goes back to waiting for sendMu.            *)
LEMMA SenderStep ==
  ASSUME FlightInv, Next
  PROVE  /\ SenderSends'
         /\ \/ \E m \in Message : StartSend(m)
            \/ /\ ticket' = ticket /\ issued' = issued
               /\ \A m \in Message : status'[m] \in {"new", "blocked"} => status[m] \in {"new", "blocked"}
<1> USE DEF sendVars, recvVars
<1> DEFINE Quiet == /\ ticket' = ticket /\ issued' = issued
                    /\ \A m \in Message : status'[m] \in {"new", "blocked"} => status[m] \in {"new", "blocked"}
<1>0. /\ tx \in [Peer -> TxType] /\ status \in [Message -> Status] /\ IdleTx.phase = "idle"
      /\ \A p \in Peer : tx[p].phase # "idle" => tx[p].msg \in Message /\ Origin[tx[p].msg] = p
      /\ SenderSends
  BY SenderInFlight DEF FlightInv, TypeOK, TxType, IdleTx
<1>1. ASSUME UNCHANGED <<status, tx>> PROVE SenderSends'
  BY <1>0, <1>1 DEF SenderSends
<1>2. ASSUME NEW p \in Peer, tx[p].phase # "idle", NEW r \in {"ok", "timeout", "closed"}, ReturnSend(p, r)
      PROVE  /\ SenderSends'
             /\ \A m \in Message : status'[m] \in {"new", "blocked"} => status[m] \in {"new", "blocked"}
  BY <1>0, <1>2 DEF ReturnSend, SenderSends
<1>3. ASSUME NEW p \in Peer, NEW x, x.msg = tx[p].msg, tx[p].phase # "idle",
             tx' = [tx EXCEPT ![p] = x], UNCHANGED status
      PROVE  SenderSends'
  BY <1>0, <1>3 DEF SenderSends
<1>4. ASSUME NEW p \in Peer, NEW w, tx[p] \in BusyTx, NextAttempt(p, w)
      PROVE  /\ SenderSends'
             /\ \A m \in Message : status'[m] \in {"new", "blocked"} => status[m] \in {"new", "blocked"}
  <2>1. Retry(p, w).msg = tx[p].msg /\ tx[p].phase # "idle"
    BY <1>4 DEF Retry, BusyTx
  <2> QED
    BY <1>2, <1>3, <1>4, <2>1 DEF NextAttempt
<1>5. ASSUME NEW m \in Message, CallSend(m) PROVE SenderSends' /\ Quiet
  BY <1>0, <1>5 DEF CallSend, SenderSends
<1>6. ASSUME NEW m \in Message, StartSend(m) PROVE SenderSends'
  BY <1>0, <1>6 DEF StartSend, SenderSends
<1>7. ASSUME NEW p \in Peer, EnqueueFragment(p) PROVE SenderSends' /\ Quiet
  <2>1. tx[p] \in BusyTx
    BY <1>7, BusySender DEF EnqueueFragment, FlightInv
  <2>2. NextFragment(p).msg = tx[p].msg /\ tx[p].phase # "idle"
    BY <2>1 DEF NextFragment, BusyTx
  <2>3. SenderSends'
    BY <1>3, <1>7, <2>2 DEF EnqueueFragment
  <2> QED
    BY <1>7, <2>3 DEF EnqueueFragment
<1>8. ASSUME NEW p \in Peer, EnqueueClosed(p) \/ AwaitClosed(p) PROVE SenderSends' /\ Quiet
  BY <1>2, <1>8 DEF EnqueueClosed, AwaitClosed
<1>9. ASSUME NEW p \in Peer, AwaitAck(p) \/ AwaitTimeout(p) PROVE SenderSends' /\ Quiet
  <2>1. tx[p] \in BusyTx /\ tx[p].phase # "idle"
    BY <1>9, BusySender DEF AwaitAck, AwaitTimeout, FlightInv
  <2> QED
    BY <1>2, <1>4, <1>9, <2>1 DEF AwaitAck, AwaitTimeout
<1>10. ASSUME NEW p \in Peer, Restart(p) PROVE SenderSends' /\ Quiet
  BY <1>0, <1>10 DEF Restart, SenderSends
<1>11. ASSUME NEW p \in Peer, NEW t \in Track, ReceiveAck(p, t) PROVE SenderSends' /\ Quiet
  <2> DEFINE f == Head(air[p][t])
  <2>1. SenderSends'
    <3>1. CASE WaiterTakes(p, f)
      <4>1. tx[p] \in BusyTx /\ tx[p].phase # "idle"
        BY <3>1, BusySender DEF WaiterTakes, FlightInv
      <4>2. [tx[p] EXCEPT !.waiter = f.msg].msg = tx[p].msg
        BY <4>1 DEF BusyTx
      <4>3. tx' = [tx EXCEPT ![p] = [tx[p] EXCEPT !.waiter = f.msg]] /\ UNCHANGED status
        BY <1>11, <3>1 DEF ReceiveAck
      <4> HIDE DEF f
      <4> QED
        BY <1>3, <4>1, <4>2, <4>3
    <3>2. CASE ~WaiterTakes(p, f)
      BY <1>1, <1>11, <3>2 DEF ReceiveAck
    <3> QED
      BY <3>1, <3>2
  <2> QED
    BY <1>11, <2>1 DEF ReceiveAck
<1>12. ASSUME UNCHANGED sendVars PROVE SenderSends' /\ Quiet
  BY <1>1, <1>12
<1>13. \/ \E m \in Message : CallSend(m) \/ StartSend(m)
       \/ \E p \in Peer : EnqueueFragment(p) \/ EnqueueClosed(p) \/ AwaitAck(p)
                          \/ AwaitTimeout(p) \/ AwaitClosed(p) \/ Restart(p)
                          \/ \E t \in Track : ReceiveAck(p, t)
       \/ UNCHANGED sendVars
  <2>1. ASSUME NEW p \in Peer,
               \/ Connect(p) \/ WriteAck(p) \/ WriteData(p) \/ WriterExit(p)
               \/ CloseBegin(p) \/ CloseFinish(p)
        PROVE  UNCHANGED sendVars
    BY <2>1 DEF Connect, WriteAck, WriteData, WriterExit, CloseBegin, CloseFinish
  <2>2. ASSUME NEW p \in Peer, NEW t \in Track,
               \/ ReceiveDuplicate(p, t) \/ ReceiveFragment(p, t) \/ ReceiveDamaged(p, t)
               \/ ReceiveMessage(p, t) \/ HandToUpper(p, t) \/ SendAck(p, t)
        PROVE  UNCHANGED sendVars
    BY <2>2 DEF ReceiveDuplicate, ReceiveFragment, ReceiveDamaged, ReceiveMessage, HandToUpper, SendAck
  <2> HIDE DEF sendVars
  <2> QED
    BY <2>1, <2>2, NextCases
<1> HIDE DEF Quiet
<1>14. SenderSends' /\ (Quiet \/ \E m \in Message : StartSend(m))
  BY <1>5, <1>6, <1>7, <1>8, <1>9, <1>10, <1>11, <1>12, <1>13
<1> QED
  BY <1>14 DEF Quiet

(* Tickets stay unique and what is in flight stays its sender's.           *)
LEMMA FlightInvStep == FlightInv /\ [Next]_vars => FlightInv'
<1> SUFFICES ASSUME FlightInv, [Next]_vars PROVE FlightInv'
  OBVIOUS
<1>1. TypeOK'
  BY StepType DEF FlightInv
<1>2. CASE UNCHANGED vars
  BY <1>1, <1>2 DEF vars, sendVars, recvVars, FlightInv, AcksQueued, TicketsUnique, FlightOwned,
                    SenderSends, InFlight, OnAir, Sending
<1>3. CASE Next
  <2>0. /\ ticket \in [Message -> Nat] /\ issued \in [Peer -> Nat]
        /\ \A m \in Message : Origin[m] \in Peer
    BY MessageAssumption DEF FlightInv, TypeOK
  <2>1. AcksQueued' /\ SenderSends'
    BY <1>3, AcksStep, SenderStep DEF FlightInv
  <2>2. ASSUME NEW m \in Message, StartSend(m)
        PROVE  /\ ticket[m] = 0 /\ ticket'[m] = issued[Origin[m]] + 1
               /\ issued' = [issued EXCEPT ![Origin[m]] = issued[Origin[m]] + 1]
               /\ \A n \in Message : n # m => ticket'[n] = ticket[n]
               /\ \A n \in Message : n # m => status'[n] = status[n]
               /\ status'[m] = "sending"
    BY <2>0, <2>2 DEF StartSend, FlightInv, TicketsUnique, TypeOK
  <2>3. TicketsUnique'
    <3>1. ASSUME NEW m \in Message, StartSend(m) PROVE TicketsUnique'
      BY <2>0, <2>2, <3>1 DEF FlightInv, TicketsUnique
    <3>2. CASE /\ ticket' = ticket /\ issued' = issued
               /\ \A m \in Message : status'[m] \in {"new", "blocked"} => status[m] \in {"new", "blocked"}
      BY <3>2 DEF FlightInv, TicketsUnique
    <3> QED
      BY <1>3, <3>1, <3>2, SenderStep
  <2>4. ASSUME NEW q \in Peer
        PROVE  /\ \A d \in InFlight(q)' : d[2] \in Message /\ Origin[d[2]] = q /\ ticket'[d[2]] > 0
               /\ \A d, e \in InFlight(q)' : d[2] = e[2] => d = e
    <3>1. \A m \in Message : ticket[m] > 0 => ticket'[m] > 0
      <4>1. ASSUME NEW n \in Message, StartSend(n) PROVE \A m \in Message : ticket[m] > 0 => ticket'[m] > 0
        BY <2>0, <2>2, <4>1
      <4> QED
        BY <1>3, <4>1, SenderStep
    <3>2. CASE InFlight(q)' \subseteq InFlight(q)
      BY <3>1, <3>2 DEF FlightInv, FlightOwned
    <3>3. ASSUME NEW m \in Message, StartSend(m), Origin[m] = q,
                 InFlight(q)' \subseteq InFlight(q) \cup {<<nextSeq[q] + 1, m>>}
          PROVE  /\ \A d \in InFlight(q)' : d[2] \in Message /\ Origin[d[2]] = q /\ ticket'[d[2]] > 0
                 /\ \A d, e \in InFlight(q)' : d[2] = e[2] => d = e
      <4>1. ticket[m] = 0 /\ ticket'[m] > 0
        BY <2>0, <2>2, <3>3
      <4>2. \A d \in InFlight(q) : d[2] \in Message /\ d[2] # m /\ Origin[d[2]] = q /\ ticket[d[2]] > 0
        BY <4>1 DEF FlightInv, FlightOwned
      <4>3. <<nextSeq[q] + 1, m>>[2] = m
        OBVIOUS
      <4> QED
        BY <3>1, <3>3, <4>1, <4>2, <4>3 DEF FlightInv, FlightOwned
    <3>4. TypeOK /\ AcksQueued
      BY DEF FlightInv
    <3> QED
      BY <1>3, <3>2, <3>3, <3>4, FlightStep
  <2>5. FlightOwned'
    BY <2>4 DEF FlightOwned
  <2> QED
    BY <1>1, <2>1, <2>3, <2>5 DEF FlightInv
<1> QED
  BY <1>2, <1>3

(* Nothing is in flight at first.                                          *)
LEMMA FlightInvInit == Init => FlightInv
<1> SUFFICES ASSUME Init PROVE FlightInv
  OBVIOUS
<1>1. DataOf(<<>>) = {}
  BY DEF DataOf
<1>2. \A p \in Peer : InFlight(p) = {}
  BY <1>1, PeerAssumption DEF Init, InFlight, OnAir, Sending, IdleTx
<1>3. TypeOK
  BY InitType
<1> QED
  BY <1>2, <1>3, MessageAssumption
     DEF Init, FlightInv, AcksQueued, TicketsUnique, FlightOwned, SenderSends, IdleTx

-----------------------------------------------------------------------------
(* What reaches the upper layer.                                           *)

(* The steps that touch the table, the goroutines or what was handed up.   *)
LEMMA ReceiverCases ==
  ASSUME Next
  PROVE  \/ \E p \in Peer : Restart(p)
         \/ \E p \in Peer, t \in Track :
              ReceiveDuplicate(p, t) \/ ReceiveMessage(p, t) \/ HandToUpper(p, t) \/ SendAck(p, t)
         \/ UNCHANGED <<delivered, reader, handed, accepted, restarts>>
<1> USE DEF recvVars
<1>1. ASSUME NEW m \in Message, CallSend(m) \/ StartSend(m)
      PROVE  UNCHANGED <<delivered, reader, handed, accepted, restarts>>
  BY <1>1 DEF CallSend, StartSend
<1>2. ASSUME NEW p \in Peer,
             \/ EnqueueFragment(p) \/ EnqueueClosed(p) \/ AwaitAck(p) \/ AwaitTimeout(p) \/ AwaitClosed(p)
             \/ Connect(p) \/ WriteAck(p) \/ WriteData(p) \/ WriterExit(p) \/ CloseBegin(p) \/ CloseFinish(p)
      PROVE  UNCHANGED <<delivered, reader, handed, accepted, restarts>>
  BY <1>2 DEF EnqueueFragment, EnqueueClosed, AwaitAck, AwaitTimeout, AwaitClosed,
              Connect, WriteAck, WriteData, WriterExit, CloseBegin, CloseFinish
<1>3. ASSUME NEW p \in Peer, NEW t \in Track,
             ReceiveAck(p, t) \/ ReceiveFragment(p, t) \/ ReceiveDamaged(p, t)
      PROVE  UNCHANGED <<delivered, reader, handed, accepted, restarts>>
  BY <1>3 DEF ReceiveAck, ReceiveFragment, ReceiveDamaged
<1> QED
  BY <1>1, <1>2, <1>3, NextCases

(* HandedIntact is inductive together with what a goroutine holds for      *)
(* onData.                                                                 *)
HoldsIntact == \A p \in Peer, t \in Track : reader[p][t].pc = "hand" => reader[p][t].intact
IntactInv == TypeOK /\ HandedIntact /\ HoldsIntact

(* Only an assembly that passed the crc check is given to a goroutine for  *)
(* onData.                                                                 *)
LEMMA IntactStep ==
  ASSUME IntactInv, Next
  PROVE  HandedIntact' /\ HoldsIntact'
<1>0. /\ reader \in [Peer -> [Track -> {IdleReader} \cup BusyReader]] /\ IdleReader.pc = "read"
      /\ \A p \in Peer : handed[p] \in Seq([msg : Message, intact : BOOLEAN])
      /\ DOMAIN handed = Peer
  BY DEF IntactInv, TypeOK, IdleReader
<1>1. ASSUME NEW p \in Peer, NEW t \in Track, NEW g, ToAck(p, t, g) PROVE HoldsIntact'
  BY <1>0, <1>1 DEF ToAck, IntactInv, HoldsIntact
<1>2. ASSUME NEW p \in Peer, Restart(p) PROVE HandedIntact' /\ HoldsIntact'
  BY <1>0, <1>2 DEF Restart, IntactInv, HandedIntact, HoldsIntact
<1>3. ASSUME NEW p \in Peer, NEW t \in Track, ReceiveDuplicate(p, t) PROVE HandedIntact' /\ HoldsIntact'
  <2>1. HoldsIntact'
    BY <1>1, <1>3 DEF ReceiveDuplicate
  <2> QED
    BY <1>3, <2>1 DEF ReceiveDuplicate, IntactInv, HandedIntact
<1>4. ASSUME NEW p \in Peer, NEW t \in Track, ReceiveMessage(p, t) PROVE HandedIntact' /\ HoldsIntact'
  <2> DEFINE f == Head(air[p][t])
  <2>1. /\ Upsert(p, f).intact /\ handed' = handed
        /\ reader' = [reader EXCEPT ![p][t] = [pc |-> "hand", seq |-> f.seq, msg |-> f.msg,
                                               intact |-> Upsert(p, f).intact]]
    BY <1>4 DEF ReceiveMessage, CrcHolds
  <2> HIDE DEF f
  <2> QED
    BY <1>0, <2>1 DEF IntactInv, HandedIntact, HoldsIntact
<1>5. ASSUME NEW p \in Peer, NEW t \in Track, HandToUpper(p, t) PROVE HandedIntact' /\ HoldsIntact'
  <2> DEFINE x == [msg |-> reader[p][t].msg, intact |-> reader[p][t].intact]
             Item == [msg : Message, intact : BOOLEAN]
  <2>1. HoldsIntact'
    BY <1>1, <1>5 DEF HandToUpper
  <2>2. reader[p][t] \in BusyReader
    BY <1>5, BusyGoroutine DEF HandToUpper, IntactInv
  <2>3. x \in Item /\ x.intact
    BY <1>5, <2>2 DEF HandToUpper, IntactInv, HoldsIntact, BusyReader
  <2>4. handed' = [handed EXCEPT ![p] = Append(handed[p], x)]
    BY <1>5 DEF HandToUpper
  <2>5. handed[p] \in Seq(Item)
    BY <1>0
  <2> HIDE DEF x, Item
  <2>6. ASSUME NEW q \in Peer, NEW i \in 1..Len(handed'[q]) PROVE handed'[q][i].intact
    <3>1. CASE q = p
      <4>1. handed'[q] = Append(handed[p], x)
        BY <1>0, <2>4, <3>1
      <4>2. (i \in 1..Len(handed[p]) /\ handed'[q][i] = handed[p][i]) \/ handed'[q][i] = x
        BY <2>3, <2>5, <2>6, <4>1, AppendOf
      <4> QED
        BY <2>3, <4>2 DEF IntactInv, HandedIntact
    <3>2. CASE q # p
      BY <1>0, <2>4, <2>6, <3>2 DEF IntactInv, HandedIntact
    <3> QED
      BY <3>1, <3>2
  <2> QED
    BY <2>1, <2>6 DEF HandedIntact
<1>6. ASSUME NEW p \in Peer, NEW t \in Track, SendAck(p, t) PROVE HandedIntact' /\ HoldsIntact'
  BY <1>0, <1>6 DEF SendAck, IntactInv, HandedIntact, HoldsIntact
<1>7. CASE UNCHANGED <<delivered, reader, handed, accepted, restarts>>
  BY <1>7 DEF IntactInv, HandedIntact, HoldsIntact
<1> QED
  BY <1>2, <1>3, <1>4, <1>5, <1>6, <1>7, ReceiverCases

(* No message with a damaged fragment reaches the upper layer, whatever    *)
(* the fragments of several attempts are combined to.                      *)
THEOREM HandedStayIntact == Spec => []HandedIntact
<1>1. Init => IntactInv
  BY InitType DEF Init, IntactInv, HandedIntact, HoldsIntact, IdleReader
<1>2. IntactInv /\ [Next]_vars => IntactInv'
  <2> SUFFICES ASSUME IntactInv, [Next]_vars PROVE IntactInv'
    OBVIOUS
  <2>1. TypeOK'
    BY StepType DEF IntactInv
  <2>2. CASE Next
    BY <2>1, <2>2, IntactStep DEF IntactInv
  <2>3. CASE UNCHANGED vars
    BY <2>1, <2>3 DEF vars, recvVars, IntactInv, HandedIntact, HoldsIntact
  <2> QED
    BY <2>2, <2>3
<1>3. IntactInv => HandedIntact
  BY DEF IntactInv
<1> QED
  BY <1>1, <1>2, <1>3, PTL DEF Spec

(* Putting one entry into the table: it stays finite, above its cap by at  *)
(* most one, with one entry per sequence number.                           *)
LEMMA RememberBounded ==
  ASSUME NEW p \in Peer, NEW f, IsFiniteSet(delivered[p]),
         \A d, e \in delivered[p] : d[1] = e[1] => d = e
  PROVE  /\ IsFiniteSet(Remember(p, f))
         /\ Cardinality(Remember(p, f)) <= DeliveredCap + 1
         /\ \A d, e \in Remember(p, f) : d[1] = e[1] => d = e
<1> DEFINE table == IF Cardinality(delivered[p]) > DeliveredCap THEN {} ELSE delivered[p]
           others == {d \in table : d[1] # f.seq}
           entry == <<f.seq, f.msg>>
<1>1. Remember(p, f) = others \cup {entry}
  BY DEF Remember
<1>2. IsFiniteSet(table) /\ Cardinality(table) <= DeliveredCap
  <2>1. CASE Cardinality(delivered[p]) > DeliveredCap
    BY <2>1, FS_EmptySet, BoundAssumption
  <2>2. CASE ~(Cardinality(delivered[p]) > DeliveredCap)
    BY <2>2, FS_CardinalityType, BoundAssumption
  <2> QED
    BY <2>1, <2>2
<1>3. \A d, e \in table : d[1] = e[1] => d = e
  OBVIOUS
<1> HIDE DEF table
<1>4. IsFiniteSet(others) /\ Cardinality(others) <= Cardinality(table)
  <2>1. others \subseteq table
    OBVIOUS
  <2> QED
    BY <1>2, <2>1, FS_Subset
<1>5. \A d \in others : d[1] # f.seq
  OBVIOUS
<1>6. \A d, e \in others : d[1] = e[1] => d = e
  BY <1>3
<1>7. Cardinality(others) \in Nat /\ Cardinality(table) \in Nat /\ DeliveredCap \in Nat
  BY <1>2, <1>4, FS_CardinalityType, BoundAssumption
<1>8. entry[1] = f.seq
  OBVIOUS
<1> HIDE DEF others, entry
<1>9. IsFiniteSet(others \cup {entry}) /\ Cardinality(others \cup {entry}) <= Cardinality(others) + 1
  <2>1. /\ IsFiniteSet(others \cup {entry})
        /\ Cardinality(others \cup {entry}) =
             IF entry \in others THEN Cardinality(others) ELSE Cardinality(others) + 1
    BY <1>4, FS_AddElement
  <2> QED
    BY <1>7, <2>1
<1>10. Cardinality(others \cup {entry}) \in Nat
  BY <1>9, FS_CardinalityType
<1>11. Cardinality(others \cup {entry}) <= DeliveredCap + 1
  BY <1>2, <1>4, <1>7, <1>9, <1>10
<1> QED
  BY <1>1, <1>5, <1>6, <1>8, <1>9, <1>11

(* The delivered table is bounded whatever arrives and in whatever order.  *)
THEOREM DeliveredStaysBounded == Spec => []DeliveredBounded
<1> DEFINE Finite == \A p \in Peer : IsFiniteSet(delivered[p])
           Inv == TypeOK /\ DeliveredBounded /\ Finite
<1>1. Init => Inv
  <2> SUFFICES ASSUME Init PROVE Inv
    OBVIOUS
  <2>1. IsFiniteSet({}) /\ Cardinality({}) = 0
    BY FS_EmptySet
  <2> QED
    BY <2>1, InitType, BoundAssumption DEF Init, DeliveredBounded
<1>2. Inv /\ [Next]_vars => Inv'
  <2> SUFFICES ASSUME Inv, [Next]_vars PROVE Inv'
    OBVIOUS
  <2>0. TypeOK' /\ delivered \in [Peer -> SUBSET (Nat \X Message)]
    BY StepType DEF TypeOK
  <2>1. CASE delivered' = delivered
    BY <2>0, <2>1 DEF DeliveredBounded
  <2>2. ASSUME NEW p \in Peer, NEW f, delivered' = [delivered EXCEPT ![p] = Remember(p, f)] PROVE Inv'
    <3>1. /\ IsFiniteSet(Remember(p, f)) /\ Cardinality(Remember(p, f)) <= DeliveredCap + 1
          /\ \A d, e \in Remember(p, f) : d[1] = e[1] => d = e
      BY RememberBounded DEF DeliveredBounded
    <3>2. \A q \in Peer : delivered'[q] = IF q = p THEN Remember(p, f) ELSE delivered[q]
      BY <2>0, <2>2
    <3> QED
      BY <2>0, <3>1, <3>2 DEF DeliveredBounded
  <2>3. ASSUME NEW p \in Peer, delivered' = [delivered EXCEPT ![p] = {}] PROVE Inv'
    <3>1. IsFiniteSet({}) /\ Cardinality({}) = 0
      BY FS_EmptySet
    <3>2. \A q \in Peer : delivered'[q] = IF q = p THEN {} ELSE delivered[q]
      BY <2>0, <2>3
    <3> QED
      BY <2>0, <3>1, <3>2, BoundAssumption DEF DeliveredBounded
  <2>4. CASE Next
    <3>1. \/ delivered' = delivered
          \/ \E p \in Peer : Restart(p)
          \/ \E p \in Peer, t \in Track : ReceiveMessage(p, t)
      BY <2>4, ReceiverCases DEF ReceiveDuplicate, HandToUpper, SendAck
    <3> QED
      BY <2>1, <2>2, <2>3, <3>1 DEF Restart, ReceiveMessage
  <2>5. CASE UNCHANGED vars
    BY <2>1, <2>5 DEF vars, recvVars
  <2> QED
    BY <2>4, <2>5
<1>3. Inv => DeliveredBounded
  OBVIOUS
<1> HIDE DEF Inv
<1> QED
  BY <1>1, <1>2, <1>3, PTL DEF Spec

(* AckedIsHanded follows from what was accepted: a peer that never         *)
(* restarted handed every message it accepted to its upper layer, or one   *)
(* of its goroutines is about to.                                          *)
AcceptedIsHanded ==
  \A m \in accepted :
    LET q == Other[Origin[m]] IN restarts[q] = 0 => WasHanded(q, m) \/ InHand(q, m)

(* Handing a message to the upper layer adds it and takes none away.       *)
LEMMA HandingKeeps ==
  ASSUME TypeOK, NEW p \in Peer, NEW t \in Track, HandToUpper(p, t)
  PROVE  \A q \in Peer, m \in Message :
           WasHanded(q, m)' <=> WasHanded(q, m) \/ (q = p /\ m = reader[p][t].msg)
<1> DEFINE Item == [msg : Message, intact : BOOLEAN]
           x == [msg |-> reader[p][t].msg, intact |-> reader[p][t].intact]
<1>1. reader[p][t] \in BusyReader
  BY BusyGoroutine DEF HandToUpper
<1>2. x \in Item /\ x.msg = reader[p][t].msg
  BY <1>1 DEF BusyReader
<1>3. handed \in [Peer -> Seq(Item)] /\ handed' = [handed EXCEPT ![p] = Append(handed[p], x)]
  BY DEF TypeOK, HandToUpper
<1> HIDE DEF Item, x
<1>4. /\ Len(handed'[p]) = Len(handed[p]) + 1 /\ Len(handed[p]) \in Nat
      /\ handed'[p][Len(handed[p]) + 1] = x
      /\ \A i \in 1..Len(handed[p]) : handed'[p][i] = handed[p][i]
  BY <1>2, <1>3
<1>5. \E i \in 1..Len(handed'[p]) : handed'[p][i].msg = reader[p][t].msg
  <2>1. Len(handed[p]) + 1 \in 1..Len(handed'[p])
    BY <1>4
  <2> QED
    BY <1>2, <1>4, <2>1
<1>6. ASSUME NEW q \in Peer, NEW m \in Message, WasHanded(q, m)
      PROVE  \E i \in 1..Len(handed'[q]) : handed'[q][i].msg = m
  <2>1. PICK i \in 1..Len(handed[q]) : handed[q][i].msg = m
    BY <1>6 DEF WasHanded
  <2>2. i \in 1..Len(handed'[q]) /\ handed'[q][i] = handed[q][i]
    <3>1. CASE q = p
      BY <1>4, <2>1, <3>1
    <3>2. CASE q # p
      BY <1>3, <2>1, <3>2
    <3> QED
      BY <3>1, <3>2
  <2> QED
    BY <2>1, <2>2
<1>7. ASSUME NEW q \in Peer, NEW m \in Message, WasHanded(q, m)'
      PROVE  WasHanded(q, m) \/ (q = p /\ m = reader[p][t].msg)
  <2>1. PICK i \in 1..Len(handed'[q]) : handed'[q][i].msg = m
    BY <1>7 DEF WasHanded
  <2>2. CASE q = p
    <3>1. i \in 1..Len(handed[p]) \/ i = Len(handed[p]) + 1
      BY <1>4, <2>1, <2>2
    <3> QED
      BY <1>2, <1>4, <2>1, <2>2, <3>1 DEF WasHanded
  <2>3. CASE q # p
    BY <1>3, <2>1, <2>3 DEF WasHanded
  <2> QED
    BY <2>2, <2>3
<1> QED
  BY <1>5, <1>6, <1>7 DEF WasHanded

(* Every step keeps it: a message is accepted by the peer it was sent to,  *)
(* and only the goroutine that accepted it forgets it, when it handed it.  *)
LEMMA AcceptedStep ==
  ASSUME FlightInv, AcceptedIsHanded, Next
  PROVE  AcceptedIsHanded'
<1>0. /\ TypeOK /\ accepted \subseteq Message /\ restarts \in [Peer -> 0..MaxRestarts]
      /\ reader \in [Peer -> [Track -> {IdleReader} \cup BusyReader]] /\ IdleReader.pc = "read"
      /\ \A m \in Message : Other[Origin[m]] \in Peer
  BY PeerAssumption, MessageAssumption DEF FlightInv, TypeOK, IdleReader
<1>1. ASSUME NEW p \in Peer, Restart(p) PROVE AcceptedIsHanded'
  <2>1. accepted' = accepted /\ restarts'[p] # 0
    BY <1>0, <1>1, BoundAssumption DEF Restart
  <2>2. \A q \in Peer : q # p => /\ restarts'[q] = restarts[q] /\ handed'[q] = handed[q]
                               /\ reader'[q] = reader[q]
    BY <1>0, <1>1 DEF Restart, TypeOK
  <2> QED
    BY <1>0, <2>1, <2>2 DEF AcceptedIsHanded, WasHanded, InHand
<1>2. ASSUME NEW p \in Peer, NEW t \in Track, ReceiveDuplicate(p, t) \/ SendAck(p, t)
      PROVE  AcceptedIsHanded'
  <2>1. /\ reader[p][t].pc \in {"read", "ack"}
        /\ UNCHANGED <<handed, accepted, restarts>>
        /\ \E x : reader' = [reader EXCEPT ![p][t] = x]
    BY <1>2 DEF ReceiveDuplicate, SendAck, ToAck, Read
  <2>2. \A q \in Peer, u \in Track : reader[q][u].pc = "hand" => reader'[q][u] = reader[q][u]
    BY <1>0, <2>1
  <2>3. \A q \in Peer, m \in Message : InHand(q, m) => InHand(q, m)'
    BY <2>2 DEF InHand
  <2>4. \A q \in Peer, m \in Message : WasHanded(q, m) => WasHanded(q, m)'
    BY <2>1 DEF WasHanded
  <2> QED
    BY <1>0, <2>1, <2>3, <2>4 DEF AcceptedIsHanded
<1>3. ASSUME NEW p \in Peer, NEW t \in Track, ReceiveMessage(p, t)
      PROVE  AcceptedIsHanded'
  <2> DEFINE f == Head(air[p][t])
             x == [pc |-> "hand", seq |-> f.seq, msg |-> f.msg, intact |-> Upsert(p, f).intact]
  <2>1. /\ Read(p, t) /\ f.typ = "data" /\ accepted' = accepted \cup {f.msg}
        /\ reader' = [reader EXCEPT ![p][t] = x] /\ UNCHANGED <<handed, restarts>>
    BY <1>3 DEF ReceiveMessage
  <2>2. f.msg \in Message /\ Other[Origin[f.msg]] = p
    <3>1. <<f.seq, f.msg>> \in InFlight(Other[p]) /\ Other[p] \in Peer /\ Other[Other[p]] = p
      BY <1>0, <2>1, ReadFlight, PeerAssumption DEF InFlight
    <3> QED
      BY <3>1 DEF FlightInv, FlightOwned
  <2>3. x.pc = "hand" /\ x.msg = f.msg
    OBVIOUS
  <2> HIDE DEF f, x
  <2>4. /\ reader'[p][t].pc = "hand" /\ reader'[p][t].msg = f.msg
        /\ \A q \in Peer, u \in Track : reader[q][u].pc = "hand" => reader'[q][u] = reader[q][u]
    BY <1>0, <2>1, <2>3 DEF Read
  <2> QED
    BY <1>0, <2>1, <2>2, <2>4 DEF AcceptedIsHanded, WasHanded, InHand
<1>4. ASSUME NEW p \in Peer, NEW t \in Track, HandToUpper(p, t)
      PROVE  AcceptedIsHanded'
  <2>1. \A q \in Peer, m \in Message :
           WasHanded(q, m) \/ (q = p /\ m = reader[p][t].msg) => WasHanded(q, m)'
    BY <1>0, <1>4, HandingKeeps
  <2>2. /\ UNCHANGED <<accepted, restarts>>
        /\ \E x : reader' = [reader EXCEPT ![p][t] = x]
    BY <1>4 DEF HandToUpper, ToAck
  <2>3. \A q \in Peer, u \in Track : ~(q = p /\ u = t) => reader'[q][u] = reader[q][u]
    BY <1>0, <2>2
  <2>4. \A q \in Peer, m \in Message : InHand(q, m) => (InHand(q, m))' \/ (q = p /\ m = reader[p][t].msg)
    BY <2>3 DEF InHand
  <2> QED
    BY <1>0, <2>1, <2>2, <2>4 DEF AcceptedIsHanded
<1>5. CASE UNCHANGED <<delivered, reader, handed, accepted, restarts>>
  BY <1>5 DEF AcceptedIsHanded, WasHanded, InHand
<1> QED
  BY <1>1, <1>2, <1>3, <1>4, <1>5, ReceiverCases

(* The message of a Send that returned nil was handed to the upper layer   *)
(* of a peer whose process lived on, or a goroutine is about to hand it    *)
(* up, on any number of tracks.                                            *)
THEOREM AckedMeansHanded == Spec => []AckedIsHanded
<1> DEFINE Inv == AckedInv /\ FlightInv /\ AcceptedIsHanded
<1>1. Init => Inv
  BY AckedInit, FlightInvInit DEF Init, AcceptedIsHanded
<1>2. Inv /\ [Next]_vars => Inv'
  <2> SUFFICES ASSUME Inv, [Next]_vars PROVE Inv'
    OBVIOUS
  <2>1. AckedInv' /\ FlightInv'
    BY AckedStep, FlightInvStep
  <2>2. CASE Next
    BY <2>1, <2>2, AcceptedStep
  <2>3. CASE UNCHANGED vars
    BY <2>1, <2>3 DEF vars, recvVars, AcceptedIsHanded, WasHanded, InHand
  <2> QED
    BY <2>2, <2>3
<1>3. Inv => AckedIsHanded
  BY DEF AckedInv, AckedIsAccepted, AcceptedIsHanded, AckedIsHanded
<1> HIDE DEF Inv
<1> QED
  BY <1>1, <1>2, <1>3, PTL DEF Spec

-----------------------------------------------------------------------------
(* The order on one track.  Tickets never fall along the way of a message: *)
(* from what the upper layer has, over the air and the queue, to the Send  *)
(* that holds sendMu.                                                      *)

InOrder(s, rank) ==
  \A i, j \in 1..Len(s) :
    i < j /\ s[i].typ = "data" /\ s[j].typ = "data" => rank[s[i].msg] <= rank[s[j].msg]
NotAfter(A, B, rank) == \A d \in A, e \in B : rank[d[2]] <= rank[e[2]]

(* A queue in order stays so without its head, which comes first.          *)
LEMMA OrderOfTail ==
  ASSUME NEW s \in Seq(Frame), s # <<>>, NEW rank, InOrder(s, rank)
  PROVE  /\ InOrder(Tail(s), rank)
         /\ Head(s).typ = "data" => NotAfter({<<Head(s).seq, Head(s).msg>>}, DataOf(Tail(s)), rank)
<1>1. /\ Len(Tail(s)) = Len(s) - 1 /\ Len(s) \in Nat
      /\ Head(s) = s[1] /\ 1 \in 1..Len(s)
      /\ \A i \in 1..Len(Tail(s)) : i + 1 \in 1..Len(s) /\ Tail(s)[i] = s[i + 1]
  BY TailOf
<1>2. InOrder(Tail(s), rank)
  <2> SUFFICES ASSUME NEW i \in 1..Len(Tail(s)), NEW j \in 1..Len(Tail(s)), i < j,
                      Tail(s)[i].typ = "data", Tail(s)[j].typ = "data"
               PROVE  rank[Tail(s)[i].msg] <= rank[Tail(s)[j].msg]
    BY DEF InOrder
  <2>1. i + 1 < j + 1 /\ i + 1 \in 1..Len(s) /\ j + 1 \in 1..Len(s)
    BY <1>1
  <2> QED
    BY <1>1, <2>1 DEF InOrder
<1>3. ASSUME Head(s).typ = "data", NEW d \in DataOf(Tail(s)) PROVE rank[Head(s).msg] <= rank[d[2]]
  <2>1. PICK i \in 1..Len(Tail(s)) : Tail(s)[i].typ = "data" /\ d = <<Tail(s)[i].seq, Tail(s)[i].msg>>
    BY <1>3 DEF DataOf
  <2>2. i + 1 \in 1..Len(s) /\ s[i + 1].typ = "data" /\ d[2] = s[i + 1].msg /\ 1 < i + 1
    BY <1>1, <2>1
  <2> QED
    BY <1>1, <1>3, <2>2 DEF InOrder
<1> QED
  BY <1>2, <1>3 DEF NotAfter

(* So does one to which a frame is appended that is not before the others. *)
LEMMA OrderOfAppend ==
  ASSUME NEW s \in Seq(Frame), NEW f \in Frame, NEW rank, InOrder(s, rank),
         f.typ = "data" => NotAfter(DataOf(s), {<<f.seq, f.msg>>}, rank)
  PROVE  InOrder(Append(s, f), rank)
<1> SUFFICES ASSUME NEW i \in 1..Len(Append(s, f)), NEW j \in 1..Len(Append(s, f)), i < j,
                    Append(s, f)[i].typ = "data", Append(s, f)[j].typ = "data"
             PROVE  rank[Append(s, f)[i].msg] <= rank[Append(s, f)[j].msg]
  BY DEF InOrder
<1>1. /\ Len(Append(s, f)) = Len(s) + 1 /\ Len(s) \in Nat
      /\ Append(s, f)[Len(s) + 1] = f
      /\ \A k \in 1..Len(s) : Append(s, f)[k] = s[k]
  OBVIOUS
<1>2. i \in 1..Len(s) /\ Append(s, f)[i] = s[i]
  BY <1>1
<1>3. CASE j \in 1..Len(s)
  <2>1. Append(s, f)[j] = s[j]
    BY <1>1, <1>3
  <2> QED
    BY <1>2, <1>3, <2>1 DEF InOrder
<1>4. CASE j = Len(s) + 1
  <2>1. Append(s, f)[j] = f
    BY <1>1, <1>4
  <2>2. <<s[i].seq, s[i].msg>> \in DataOf(s)
    BY <1>2 DEF DataOf
  <2>3. <<s[i].seq, s[i].msg>>[2] = s[i].msg /\ <<f.seq, f.msg>>[2] = f.msg
    OBVIOUS
  <2> QED
    BY <1>2, <2>1, <2>2, <2>3 DEF NotAfter
<1> QED
  BY <1>1, <1>3, <1>4

(* Tickets of the frames in a queue are all that its order depends on.     *)
LEMMA OrderOfRank ==
  ASSUME NEW s \in Seq(Frame), NEW rank, NEW new, InOrder(s, rank),
         \A d \in DataOf(s) : new[d[2]] = rank[d[2]]
  PROVE  InOrder(s, new)
<1> SUFFICES ASSUME NEW i \in 1..Len(s), NEW j \in 1..Len(s), i < j,
                    s[i].typ = "data", s[j].typ = "data"
             PROVE  new[s[i].msg] <= new[s[j].msg]
  BY DEF InOrder
<1>1. <<s[i].seq, s[i].msg>> \in DataOf(s) /\ <<s[j].seq, s[j].msg>> \in DataOf(s)
  BY DEF DataOf
<1>2. new[s[i].msg] = rank[s[i].msg] /\ new[s[j].msg] = rank[s[j].msg]
  <2>1. <<s[i].seq, s[i].msg>>[2] = s[i].msg /\ <<s[j].seq, s[j].msg>>[2] = s[j].msg
    OBVIOUS
  <2> QED
    BY <1>1, <2>1
<1> QED
  BY <1>2 DEF InOrder

FlightInOrder ==
  \A p \in Peer :
    LET flying == air[Other[p]][TheTrack] IN
    /\ InOrder(flying, ticket) /\ InOrder(outbound[p], ticket)
    /\ NotAfter(DataOf(flying), DataOf(outbound[p]), ticket)
    /\ NotAfter(DataOf(flying), Sending(p), ticket)
    /\ NotAfter(DataOf(outbound[p]), Sending(p), ticket)

(* The tickets of what is in flight do not change; a new one is later.     *)
LEMMA TicketsStay ==
  ASSUME FlightInv, Next
  PROVE  /\ \A m \in Message : ticket[m] > 0 => ticket'[m] = ticket[m]
         /\ \A m \in Message : StartSend(m) =>
              \A n \in Message : Origin[n] = Origin[m] /\ n # m => ticket[n] < ticket'[m]
<1>0. /\ ticket \in [Message -> Nat] /\ issued \in [Peer -> Nat]
      /\ \A m \in Message : Origin[m] \in Peer
  BY MessageAssumption DEF FlightInv, TypeOK
<1>1. ASSUME NEW m \in Message, StartSend(m)
      PROVE  /\ ticket[m] = 0 /\ ticket'[m] = issued[Origin[m]] + 1
             /\ \A n \in Message : n # m => ticket'[n] = ticket[n]
  BY <1>0, <1>1 DEF StartSend, FlightInv, TicketsUnique
<1>2. \A n \in Message : ticket[n] <= issued[Origin[n]]
  BY DEF FlightInv, TicketsUnique
<1>3. ASSUME NEW m \in Message, ticket[m] > 0 PROVE ticket'[m] = ticket[m]
  <2>1. CASE ticket' = ticket
    BY <2>1
  <2>2. ASSUME NEW n \in Message, StartSend(n) PROVE ticket'[m] = ticket[m]
    <3>1. m # n
      BY <1>0, <1>1, <1>3, <2>2
    <3> QED
      BY <1>1, <2>2, <3>1
  <2> QED
    BY <2>1, <2>2, SenderStep
<1>4. ASSUME NEW m \in Message, StartSend(m), NEW n \in Message, Origin[n] = Origin[m]
      PROVE  ticket[n] < ticket'[m]
  BY <1>0, <1>1, <1>2, <1>4
<1> QED
  BY <1>3, <1>4

(* Every step keeps the order on a single track.                           *)
LEMMA OrderStep ==
  ASSUME Track = {TheTrack}, FlightInv, FlightInOrder, Next
  PROVE  FlightInOrder'
<1> SUFFICES ASSUME NEW q \in Peer
             PROVE  /\ InOrder(air'[Other[q]][TheTrack], ticket') /\ InOrder(outbound'[q], ticket')
                    /\ NotAfter(DataOf(air'[Other[q]][TheTrack]), DataOf(outbound'[q]), ticket')
                    /\ NotAfter(DataOf(air'[Other[q]][TheTrack]), Sending(q)', ticket')
                    /\ NotAfter(DataOf(outbound'[q]), Sending(q)', ticket')
  BY DEF FlightInOrder
<1> DEFINE s == air[Other[q]][TheTrack]
           r == air'[Other[q]][TheTrack]
           w == outbound[q]
           v == outbound'[q]
<1>0. /\ TypeOK /\ AcksQueued /\ TheTrack \in Track
      /\ s \in Seq(Frame) /\ w \in Seq(Frame)
  <2>1. TypeOK /\ AcksQueued /\ TheTrack \in Track /\ Other[q] \in Peer
    BY PeerAssumption DEF FlightInv
  <2> QED
    BY <2>1 DEF TypeOK
<1>1. TypeOK' /\ r \in Seq(Frame) /\ v \in Seq(Frame)
  <2>1. TypeOK'
    BY <1>0, StepType
  <2>2. TheTrack \in Track /\ Other[q] \in Peer
    BY <1>0, PeerAssumption
  <2> QED
    BY <2>1, <2>2 DEF TypeOK
<1>2. /\ InOrder(s, ticket) /\ InOrder(w, ticket)
      /\ NotAfter(DataOf(s), DataOf(w), ticket)
      /\ NotAfter(DataOf(s), Sending(q), ticket)
      /\ NotAfter(DataOf(w), Sending(q), ticket)
  BY DEF FlightInOrder
<1>3. /\ DataOf(s) \subseteq InFlight(q) /\ DataOf(w) \subseteq InFlight(q)
      /\ Sending(q) \subseteq InFlight(q)
  BY <1>0 DEF InFlight, OnAir
<1>4. \A d \in InFlight(q) : d[2] \in Message /\ Origin[d[2]] = q /\ ticket'[d[2]] = ticket[d[2]]
  BY TicketsStay DEF FlightInv, FlightOwned
<1>5. DataOf(<<>>) = {} /\ InOrder(<<>>, ticket)
  BY DEF DataOf, InOrder
<1>6. ASSUME InOrder(r, ticket), InOrder(v, ticket),
             NotAfter(DataOf(r), DataOf(v), ticket),
             NotAfter(DataOf(r), Sending(q)', ticket), NotAfter(DataOf(v), Sending(q)', ticket),
             DataOf(r) \cup DataOf(v) \cup Sending(q)' \subseteq InFlight(q)
      PROVE  /\ InOrder(r, ticket') /\ InOrder(v, ticket')
             /\ NotAfter(DataOf(r), DataOf(v), ticket')
             /\ NotAfter(DataOf(r), Sending(q)', ticket')
             /\ NotAfter(DataOf(v), Sending(q)', ticket')
  <2>1. InOrder(r, ticket') /\ InOrder(v, ticket')
    BY <1>1, <1>4, <1>6, OrderOfRank
  <2> QED
    BY <1>4, <1>6, <2>1 DEF NotAfter
<1>7. CASE Drains(q)
  <2>1. Drained(s, r) /\ (v = w \/ v = <<>>) /\ Sending(q)' \subseteq Sending(q)
    BY <1>0, <1>7 DEF Drains
  <2> HIDE DEF s, r, w, v
  <2>2. InOrder(r, ticket) /\ DataOf(r) \subseteq DataOf(s)
    BY <1>0, <1>2, <1>5, <2>1, OrderOfTail, DataOfTail DEF Drained
  <2>3. InOrder(v, ticket) /\ DataOf(v) \subseteq DataOf(w)
    BY <1>2, <1>5, <2>1
  <2>4. /\ NotAfter(DataOf(r), DataOf(v), ticket)
        /\ NotAfter(DataOf(r), Sending(q)', ticket) /\ NotAfter(DataOf(v), Sending(q)', ticket)
    BY <1>2, <2>1, <2>2, <2>3 DEF NotAfter
  <2>5. DataOf(r) \cup DataOf(v) \cup Sending(q)' \subseteq InFlight(q)
    BY <1>3, <2>1, <2>2, <2>3
  <2> QED
    BY <1>6, <2>2, <2>3, <2>4, <2>5 DEF s, r, w, v
<1>8. CASE Enqueues(q)
  <2>1. PICK x \in Frame : /\ x.typ = "data" /\ Sending(q) = {<<x.seq, x.msg>>}
                           /\ v = Append(w, x)
    BY <1>8 DEF Enqueues
  <2>2. r = s /\ Sending(q)' \subseteq Sending(q)
    BY <1>8 DEF Enqueues
  <2> HIDE DEF s, r, w, v
  <2>3. DataOf(v) \subseteq DataOf(w) \cup Sending(q)
    BY <1>0, <2>1, DataOfAppend
  <2>4. InOrder(v, ticket)
    BY <1>0, <1>2, <2>1, OrderOfAppend
  <2>5. NotAfter(Sending(q), Sending(q), ticket)
    <3>1. \A d \in InFlight(q) : ticket[d[2]] \in Nat
      BY <1>0, <1>4 DEF TypeOK
    <3> QED
      BY <1>3, <2>1, <3>1 DEF NotAfter
  <2>6. /\ NotAfter(DataOf(r), DataOf(v), ticket)
        /\ NotAfter(DataOf(r), Sending(q)', ticket) /\ NotAfter(DataOf(v), Sending(q)', ticket)
    BY <1>2, <2>2, <2>3, <2>5 DEF NotAfter
  <2>7. DataOf(r) \cup DataOf(v) \cup Sending(q)' \subseteq InFlight(q) /\ InOrder(r, ticket)
    BY <1>2, <1>3, <2>2, <2>3
  <2> QED
    BY <1>6, <2>4, <2>6, <2>7 DEF s, r, w, v
<1>9. CASE Transmits(q)
  <2>1. PICK f \in Frame :
          /\ \/ f.typ = "ack" /\ v = w
             \/ w # <<>> /\ f = Head(w) /\ v = Tail(w)
          /\ \A t \in Track :
               \/ air'[Other[q]][t] = air[Other[q]][t]
               \/ \E g \in Frame : /\ g.typ = f.typ /\ g.seq = f.seq /\ g.msg = f.msg
                                   /\ air'[Other[q]][t] = Append(air[Other[q]][t], g)
    BY <1>9 DEF Transmits
  <2>2. \/ r = s
        \/ \E g \in Frame : /\ g.typ = f.typ /\ g.seq = f.seq /\ g.msg = f.msg
                            /\ r = Append(s, g)
    BY <1>0, <2>1
  <2>3. Sending(q)' \subseteq Sending(q)
    BY <1>9 DEF Transmits
  <2> HIDE DEF s, r, w, v
  <2>4. /\ InOrder(v, ticket) /\ DataOf(v) \subseteq DataOf(w)
        /\ f.typ = "data" => /\ <<f.seq, f.msg>> \in DataOf(w)
                             /\ NotAfter({<<f.seq, f.msg>>}, DataOf(v), ticket)
    BY <1>0, <1>2, <2>1, OrderOfTail, DataOfTail
  <2>5. DataOf(r) \subseteq DataOf(s) \cup IF f.typ = "data" THEN {<<f.seq, f.msg>>} ELSE {}
    BY <1>0, <2>2, DataOfAppend
  <2>6. InOrder(r, ticket)
    <3>1. f.typ = "data" => NotAfter(DataOf(s), {<<f.seq, f.msg>>}, ticket)
      BY <1>2, <2>4 DEF NotAfter
    <3>2. ASSUME NEW g \in Frame, g.typ = f.typ, g.seq = f.seq, g.msg = f.msg, r = Append(s, g)
          PROVE  InOrder(r, ticket)
      BY <1>0, <1>2, <3>1, <3>2, OrderOfAppend
    <3> QED
      BY <1>2, <2>2, <3>2
  <2>7. /\ NotAfter(DataOf(r), DataOf(v), ticket)
        /\ NotAfter(DataOf(r), Sending(q)', ticket) /\ NotAfter(DataOf(v), Sending(q)', ticket)
    BY <1>2, <2>3, <2>4, <2>5 DEF NotAfter
  <2>8. DataOf(r) \cup DataOf(v) \cup Sending(q)' \subseteq InFlight(q)
    BY <1>3, <2>3, <2>4, <2>5
  <2> QED
    BY <1>6, <2>4, <2>6, <2>7, <2>8 DEF s, r, w, v
<1>10. CASE Starts(q)
  <2>1. PICK m \in Message : /\ StartSend(m) /\ Origin[m] = q
                             /\ Sending(q)' = {<<nextSeq[q] + 1, m>>}
    BY <1>10 DEF Starts
  <2>2. r = s /\ v = w
    BY <1>10 DEF Starts
  <2>3. \A d \in InFlight(q) : ticket'[d[2]] <= ticket'[m]
    <3>1. ticket[m] = 0
      BY <2>1 DEF StartSend, FlightInv, TicketsUnique
    <3>2. ASSUME NEW d \in InFlight(q) PROVE ticket'[d[2]] <= ticket'[m]
      <4>1. d[2] \in Message /\ Origin[d[2]] = q /\ ticket[d[2]] > 0 /\ ticket'[d[2]] = ticket[d[2]]
        BY <1>4 DEF FlightInv, FlightOwned
      <4>2. ticket[d[2]] < ticket'[m]
        BY <2>1, <3>1, <4>1, TicketsStay
      <4>3. ticket[d[2]] \in Nat /\ ticket'[m] \in Nat
        BY <1>0, <1>1, <4>1 DEF TypeOK
      <4> QED
        BY <4>1, <4>2, <4>3
    <3> QED
      BY <3>2
  <2>4. <<nextSeq[q] + 1, m>>[2] = m
    OBVIOUS
  <2> HIDE DEF s, r, w, v
  <2>5. InOrder(s, ticket') /\ InOrder(w, ticket')
    BY <1>0, <1>2, <1>3, <1>4, OrderOfRank
  <2>6. NotAfter(DataOf(s), DataOf(w), ticket')
    BY <1>2, <1>3, <1>4 DEF NotAfter
  <2>7. NotAfter(DataOf(s), Sending(q)', ticket') /\ NotAfter(DataOf(w), Sending(q)', ticket')
    BY <1>3, <2>1, <2>3, <2>4 DEF NotAfter
  <2> QED
    BY <2>2, <2>5, <2>6, <2>7 DEF s, r, w, v
<1> QED
  BY <1>0, <1>7, <1>8, <1>9, <1>10, FlightCases


(* What a peer's upper layer has, or is about to get.                      *)
Has(q, m) == WasHanded(q, m) \/ InHand(q, m)

(* It comes before everything in flight, but for the frames of the message *)
(* accepted last, whose entry is in the table: it is put there after a     *)
(* reset, and nothing else is accepted while such frames are on their way. *)
UpperFirst ==
  \A p \in Peer, m \in Message :
    Has(Other[p], m) =>
      /\ Origin[m] = p /\ ticket[m] > 0
      /\ \A d \in InFlight(p) :
           ticket[m] < ticket[d[2]] \/ (m = d[2] /\ d \in delivered[Other[p]])
HandNext ==
  \A q \in Peer, t \in Track : reader[q][t].pc = "hand" =>
    \A i \in 1..Len(handed[q]) : ticket[handed[q][i].msg] < ticket[reader[q][t].msg]
OrderInv == FlightInv /\ FlightInOrder /\ UpperFirst /\ HandNext /\ HandedInOrder

(* Only a restart takes from what a peer has, only an accepted message     *)
(* adds to it, and only the two change its table.                          *)
LEMMA HasCases ==
  ASSUME TypeOK, Next, NEW q \in Peer
  PROVE  \/ delivered'[q] = {} /\ \A m \in Message : ~Has(q, m)'
         \/ \E t \in Track : /\ ReceiveMessage(q, t)
                             /\ \A m \in Message : Has(q, m)' => Has(q, m) \/ m = Head(air[q][t]).msg
         \/ delivered'[q] = delivered[q] /\ \A m \in Message : Has(q, m)' => Has(q, m)
<1>0. /\ reader \in [Peer -> [Track -> {IdleReader} \cup BusyReader]] /\ IdleReader.pc = "read"
      /\ DOMAIN handed = Peer /\ delivered \in [Peer -> SUBSET (Nat \X Message)]
  BY DEF TypeOK, IdleReader
<1>1. ASSUME NEW p \in Peer, Restart(p)
      PROVE  \/ delivered'[q] = {} /\ \A m \in Message : ~Has(q, m)'
             \/ delivered'[q] = delivered[q] /\ \A m \in Message : Has(q, m)' => Has(q, m)
  <2>1. CASE q = p
    <3>1. handed'[q] = <<>> /\ delivered'[q] = {} /\ \A t \in Track : reader'[q][t].pc = "read"
      BY <1>0, <1>1, <2>1 DEF Restart
    <3> QED
      BY <3>1 DEF Has, WasHanded, InHand
  <2>2. CASE q # p
    <3>1. handed'[q] = handed[q] /\ delivered'[q] = delivered[q] /\ reader'[q] = reader[q]
      BY <1>0, <1>1, <2>2 DEF Restart
    <3> QED
      BY <3>1 DEF Has, WasHanded, InHand
  <2> QED
    BY <2>1, <2>2
<1>2. ASSUME NEW p \in Peer, NEW t \in Track, ReceiveMessage(p, t)
      PROVE  \/ p = q /\ \A m \in Message : Has(q, m)' => Has(q, m) \/ m = Head(air[q][t]).msg
             \/ delivered'[q] = delivered[q] /\ \A m \in Message : Has(q, m)' => Has(q, m)
  <2>1. /\ handed' = handed
        /\ delivered' = [delivered EXCEPT ![p] = Remember(p, Head(air[p][t]))]
        /\ \E x : /\ x.msg = Head(air[p][t]).msg
                  /\ reader' = [reader EXCEPT ![p][t] = x]
    BY <1>2 DEF ReceiveMessage
  <2>2. CASE q = p
    BY <1>0, <2>1, <2>2 DEF Has, WasHanded, InHand
  <2>3. CASE q # p
    BY <1>0, <2>1, <2>3 DEF Has, WasHanded, InHand
  <2> QED
    BY <2>2, <2>3
<1>3. ASSUME NEW p \in Peer, NEW t \in Track, ReceiveDuplicate(p, t) \/ SendAck(p, t)
      PROVE  delivered'[q] = delivered[q] /\ \A m \in Message : Has(q, m)' => Has(q, m)
  <2>1. /\ UNCHANGED <<handed, delivered>>
        /\ \E x : x.pc # "hand" /\ reader' = [reader EXCEPT ![p][t] = x]
    BY <1>0, <1>3 DEF ReceiveDuplicate, SendAck, ToAck
  <2> QED
    BY <1>0, <2>1 DEF Has, WasHanded, InHand
<1>4. ASSUME NEW p \in Peer, NEW t \in Track, HandToUpper(p, t)
      PROVE  delivered'[q] = delivered[q] /\ \A m \in Message : Has(q, m)' => Has(q, m)
  <2>1. /\ delivered' = delivered /\ reader[p][t].pc = "hand"
        /\ \E x : x.pc # "hand" /\ reader' = [reader EXCEPT ![p][t] = x]
    BY <1>4 DEF HandToUpper, ToAck
  <2>2. \A m \in Message : InHand(q, m)' => InHand(q, m)
    BY <1>0, <2>1 DEF InHand
  <2>3. \A m \in Message : WasHanded(q, m)' => WasHanded(q, m) \/ (q = p /\ m = reader[p][t].msg)
    BY <1>4, HandingKeeps
  <2> QED
    BY <2>1, <2>2, <2>3 DEF Has, InHand
<1>5. CASE UNCHANGED <<delivered, reader, handed, accepted, restarts>>
  BY <1>5 DEF Has, WasHanded, InHand
<1> QED
  BY <1>1, <1>2, <1>3, <1>4, <1>5, ReceiverCases

(* An accepted message is later than all its receiver has, and not later   *)
(* than anything still in flight to it.                                    *)
LEMMA AcceptInOrder ==
  ASSUME Track = {TheTrack}, OrderInv, Next, NEW q \in Peer, NEW t \in Track, ReceiveMessage(q, t)
  PROVE  LET f == Head(air[q][t]) IN
         /\ f.msg \in Message /\ Origin[f.msg] = Other[q] /\ ticket[f.msg] > 0
         /\ \A m \in Message : Has(q, m) => ticket[m] < ticket[f.msg]
         /\ \A d \in InFlight(Other[q])' :
              ticket[f.msg] < ticket[d[2]] \/ (f.msg = d[2] /\ d \in delivered'[q])
<1> DEFINE f == Head(air[q][t])
           d0 == <<f.seq, f.msg>>
           p == Other[q]
<1> USE DEF sendVars
<1>0. /\ TypeOK /\ t = TheTrack /\ p \in Peer /\ Other[p] = q
      /\ air[q][t] \in Seq(Frame) /\ air[q][t] # <<>>
  BY PeerAssumption DEF OrderInv, FlightInv, TypeOK, ReceiveMessage, Read
<1>1. /\ Read(q, t) /\ f.typ = "data" /\ d0 \notin delivered[q] /\ d0[2] = f.msg
      /\ delivered' = [delivered EXCEPT ![q] = Remember(q, f)]
      /\ outbound' = outbound /\ tx' = tx
  BY DEF ReceiveMessage, IsDelivered
<1>2. d0 \in InFlight(p)
  BY <1>0, <1>1, ReadFlight DEF InFlight
<1>3. f.msg \in Message /\ Origin[f.msg] = p /\ ticket[f.msg] > 0
  BY <1>0, <1>1, <1>2 DEF OrderInv, FlightInv, FlightOwned
<1>4. ASSUME NEW m \in Message, Has(q, m) PROVE ticket[m] < ticket[f.msg]
  BY <1>0, <1>1, <1>2, <1>4 DEF OrderInv, UpperFirst
<1>5. d0 \in delivered'[q]
  BY <1>0, <1>1 DEF Remember, TypeOK
<1>6. /\ OnAir(p)' = DataOf(Tail(air[q][t]))
      /\ DataOf(Tail(air[q][t])) \cup DataOf(outbound[p]) \cup Sending(p) \subseteq InFlight(p)
      /\ InFlight(p)' = DataOf(Tail(air[q][t])) \cup DataOf(outbound[p]) \cup Sending(p)
  <2>1. air'[q][t] = Tail(air[q][t])
    BY <1>0, <1>1 DEF Read, TypeOK
  <2>2. OnAir(p)' = DataOf(Tail(air[q][t]))
    BY <1>0, <2>1 DEF OnAir
  <2>3. DataOf(Tail(air[q][t])) \subseteq OnAir(p)
    <3>1. DataOf(Tail(air[q][t])) \subseteq DataOf(air[q][t])
      BY <1>0, DataOfTail
    <3>2. OnAir(p) = UNION {DataOf(air[q][u]) : u \in Track}
      BY <1>0 DEF OnAir
    <3> QED
      BY <3>1, <3>2
  <2> QED
    BY <1>1, <2>2, <2>3 DEF InFlight, Sending
<1>7. /\ NotAfter({d0}, DataOf(Tail(air[q][t])), ticket)
      /\ NotAfter({d0}, DataOf(outbound[p]), ticket)
      /\ NotAfter({d0}, Sending(p), ticket)
  <2>1. /\ InOrder(air[q][t], ticket)
        /\ NotAfter(DataOf(air[q][t]), DataOf(outbound[p]), ticket)
        /\ NotAfter(DataOf(air[q][t]), Sending(p), ticket)
    BY <1>0 DEF OrderInv, FlightInOrder
  <2>2. d0 \in DataOf(air[q][t])
    BY <1>0, <1>1, DataOfTail
  <2>3. NotAfter({d0}, DataOf(Tail(air[q][t])), ticket)
    BY <1>0, <1>1, <2>1, OrderOfTail
  <2> QED
    BY <2>1, <2>2, <2>3 DEF NotAfter
<1> HIDE DEF d0
<1>8. ASSUME NEW d \in InFlight(p)'
      PROVE  ticket[f.msg] < ticket[d[2]] \/ (f.msg = d[2] /\ d \in delivered'[q])
  <2>1. d \in InFlight(p) /\ ticket[f.msg] <= ticket[d[2]]
    BY <1>1, <1>6, <1>7, <1>8 DEF NotAfter
  <2>2. d[2] \in Message /\ Origin[d[2]] = p /\ ticket[d[2]] > 0
    BY <1>0, <2>1 DEF OrderInv, FlightInv, FlightOwned
  <2>3. ticket[d[2]] \in Nat /\ ticket[f.msg] \in Nat
    BY <1>0, <1>3, <2>2 DEF TypeOK
  <2>4. CASE ticket[f.msg] = ticket[d[2]]
    <3>1. f.msg = d[2]
      BY <1>3, <2>2, <2>4 DEF OrderInv, FlightInv, TicketsUnique
    <3>2. d = d0
      BY <1>0, <1>1, <1>2, <2>1, <3>1 DEF OrderInv, FlightInv, FlightOwned
    <3> QED
      BY <1>5, <3>1, <3>2
  <2> QED
    BY <2>1, <2>3, <2>4
<1> QED
  BY <1>3, <1>4, <1>8

(* Every step keeps what the upper layer has before what is in flight.     *)
LEMMA UpperFirstStep ==
  ASSUME Track = {TheTrack}, OrderInv, Next
  PROVE  UpperFirst'
<1> SUFFICES ASSUME NEW p \in Peer, NEW m \in Message, Has(Other[p], m)'
             PROVE  /\ Origin[m] = p /\ ticket'[m] > 0
                    /\ \A d \in InFlight(p)' :
                         ticket'[m] < ticket'[d[2]] \/ (m = d[2] /\ d \in delivered'[Other[p]])
  BY DEF UpperFirst
<1> DEFINE q == Other[p]
<1>0. TypeOK /\ AcksQueued /\ q \in Peer /\ Other[q] = p /\ FlightInv
  BY PeerAssumption DEF OrderInv, FlightInv
<1>1. \A n \in Message : ticket[n] > 0 => ticket'[n] = ticket[n]
  BY <1>0, TicketsStay
<1>2. \A d \in InFlight(p) : d[2] \in Message /\ ticket'[d[2]] = ticket[d[2]]
  BY <1>0, <1>1 DEF FlightInv, FlightOwned
<1>3. CASE delivered'[q] = delivered[q] /\ Has(q, m)
  <2>1. Origin[m] = p /\ ticket[m] > 0 /\ ticket'[m] = ticket[m]
    BY <1>1, <1>3 DEF OrderInv, UpperFirst
  <2>2. ASSUME NEW d \in InFlight(p)
        PROVE  ticket'[m] < ticket'[d[2]] \/ (m = d[2] /\ d \in delivered'[q])
    BY <1>2, <1>3, <2>1, <2>2 DEF OrderInv, UpperFirst
  <2>3. ASSUME NEW n \in Message, StartSend(n), Origin[n] = p,
               InFlight(p)' \subseteq InFlight(p) \cup {<<nextSeq[p] + 1, n>>}
        PROVE  \A d \in InFlight(p)' : ticket'[m] < ticket'[d[2]] \/ (m = d[2] /\ d \in delivered'[q])
    <3>1. ticket[n] = 0
      BY <1>0, <2>3 DEF StartSend, FlightInv, TicketsUnique
    <3>2. ticket[m] < ticket'[n]
      BY <1>0, <2>1, <2>3, <3>1, TicketsStay
    <3>3. <<nextSeq[p] + 1, n>>[2] = n
      OBVIOUS
    <3> QED
      BY <2>1, <2>2, <2>3, <3>2, <3>3
  <2> QED
    BY <1>0, <2>1, <2>2, <2>3, FlightStep
<1>4. ASSUME NEW t \in Track, ReceiveMessage(q, t), Has(q, m) \/ m = Head(air[q][t]).msg
      PROVE  /\ Origin[m] = p /\ ticket'[m] > 0
             /\ \A d \in InFlight(p)' :
                  ticket'[m] < ticket'[d[2]] \/ (m = d[2] /\ d \in delivered'[q])
  <2> DEFINE n == Head(air[q][t]).msg
  <2>1. /\ n \in Message /\ Origin[n] = p /\ ticket[n] > 0
        /\ Has(q, m) => ticket[m] < ticket[n]
        /\ \A d \in InFlight(p)' : ticket[n] < ticket[d[2]] \/ (n = d[2] /\ d \in delivered'[q])
    BY <1>0, <1>4, AcceptInOrder
  <2>2. ticket' = ticket /\ ticket \in [Message -> Nat]
    BY <1>0, <1>4 DEF ReceiveMessage, sendVars, TypeOK
  <2>3. InFlight(p)' \subseteq InFlight(p)
    <3>1. ~\E k \in Message : StartSend(k)
      <4>1. status' = status
        BY <1>4 DEF ReceiveMessage, sendVars
      <4> QED
        BY <1>0, <4>1 DEF StartSend, TypeOK
    <3> QED
      BY <1>0, <3>1, FlightStep
  <2>4. \A d \in InFlight(p)' : d[2] \in Message
    BY <1>2, <2>3
  <2> HIDE DEF n
  <2>5. CASE m = n
    BY <2>1, <2>2, <2>5
  <2>6. CASE Has(q, m)
    <3>1. Origin[m] = p /\ ticket[m] > 0
      BY <2>6 DEF OrderInv, UpperFirst
    <3>2. ASSUME NEW d \in InFlight(p)' PROVE ticket[m] < ticket[d[2]]
      <4>1. ticket[m] \in Nat /\ ticket[n] \in Nat /\ ticket[d[2]] \in Nat
        BY <2>1, <2>2, <2>4
      <4> QED
        BY <2>1, <2>6, <4>1
    <3> QED
      BY <2>2, <3>1, <3>2
  <2> QED
    BY <1>4, <2>5, <2>6 DEF n
<1> QED
  BY <1>0, <1>3, <1>4, HasCases

(* Every step keeps what was handed up, and what is about to be, in order. *)
LEMMA HandedStep ==
  ASSUME Track = {TheTrack}, OrderInv, Next
  PROVE  HandNext' /\ HandedInOrder'
<1> DEFINE Item == [msg : Message, intact : BOOLEAN]
<1> USE DEF sendVars
<1>0. /\ TypeOK /\ FlightInv /\ HandNext /\ HandedInOrder /\ handed \in [Peer -> Seq(Item)]
      /\ reader \in [Peer -> [Track -> {IdleReader} \cup BusyReader]] /\ IdleReader.pc = "read"
  BY DEF OrderInv, FlightInv, TypeOK, IdleReader
<1>1. \A n \in Message : ticket[n] > 0 => ticket'[n] = ticket[n]
  BY <1>0, TicketsStay
<1>2. ASSUME NEW q \in Peer, NEW i \in 1..Len(handed[q])
      PROVE  handed[q][i].msg \in Message /\ Has(q, handed[q][i].msg)
  <2>1. handed[q][i] \in Item
    <3>1. handed[q] \in Seq(Item)
      BY <1>0
    <3> HIDE DEF Item
    <3> QED
      BY <3>1
  <2> QED
    BY <2>1 DEF Has, WasHanded
<1>3. ASSUME NEW q \in Peer, NEW m \in Message, Has(q, m) PROVE ticket[m] > 0 /\ ticket'[m] = ticket[m]
  <2>1. Other[q] \in Peer /\ Other[Other[q]] = q
    BY PeerAssumption
  <2> QED
    BY <1>1, <1>3, <2>1 DEF OrderInv, UpperFirst
<1>4. ASSUME NEW q \in Peer, NEW i \in 1..Len(handed[q])
      PROVE  ticket'[handed[q][i].msg] = ticket[handed[q][i].msg]
  BY <1>2, <1>3
<1>5. ASSUME NEW q \in Peer, NEW t \in Track, reader[q][t].pc = "hand"
      PROVE  reader[q][t].msg \in Message /\ ticket'[reader[q][t].msg] = ticket[reader[q][t].msg]
  <2>1. reader[q][t] \in BusyReader
    BY <1>0, <1>5, BusyGoroutine
  <2>2. reader[q][t].msg \in Message /\ Has(q, reader[q][t].msg)
    BY <1>5, <2>1 DEF BusyReader, Has, InHand
  <2> QED
    BY <1>3, <2>2
<1> DEFINE Kept(q) == /\ \A i, j \in 1..Len(handed'[q]) :
                           i < j => ticket'[handed'[q][i].msg] < ticket'[handed'[q][j].msg]
                      /\ \A t \in Track : reader'[q][t].pc = "hand" =>
                           \A i \in 1..Len(handed'[q]) :
                             ticket'[handed'[q][i].msg] < ticket'[reader'[q][t].msg]
<1>6. SUFFICES ASSUME NEW q \in Peer PROVE Kept(q)
  BY DEF HandNext, HandedInOrder
<1>7. ASSUME handed'[q] = handed[q],
             \A t \in Track : reader'[q][t].pc = "hand" => reader'[q][t] = reader[q][t]
      PROVE  Kept(q)
  BY <1>0, <1>4, <1>5, <1>7 DEF HandNext, HandedInOrder
<1>8. ASSUME NEW p \in Peer, Restart(p) PROVE Kept(q)
  <2>1. CASE q = p
    <3>1. handed'[q] = <<>> /\ \A t \in Track : reader'[q][t].pc = "read"
      BY <1>0, <1>8, <2>1 DEF Restart
    <3> QED
      BY <3>1
  <2>2. CASE q # p
    <3>1. handed'[q] = handed[q] /\ reader'[q] = reader[q]
      BY <1>0, <1>8, <2>2 DEF Restart
    <3> QED
      BY <1>7, <3>1
  <2> QED
    BY <2>1, <2>2
<1>9. ASSUME NEW p \in Peer, NEW t \in Track, ReceiveDuplicate(p, t) \/ SendAck(p, t) PROVE Kept(q)
  <2>1. /\ handed' = handed
        /\ \E x : x.pc # "hand" /\ reader' = [reader EXCEPT ![p][t] = x]
    BY <1>0, <1>9 DEF ReceiveDuplicate, SendAck, ToAck
  <2>2. \A u \in Track : reader'[q][u].pc = "hand" => reader'[q][u] = reader[q][u]
    BY <1>0, <2>1
  <2> QED
    BY <1>7, <2>1, <2>2
<1>10. ASSUME NEW p \in Peer, NEW t \in Track, ReceiveMessage(p, t) PROVE Kept(q)
  <2> DEFINE f == Head(air[p][t])
             x == [pc |-> "hand", seq |-> f.seq, msg |-> f.msg, intact |-> Upsert(p, f).intact]
  <2>1. handed' = handed /\ ticket' = ticket /\ reader' = [reader EXCEPT ![p][t] = x] /\ x.msg = f.msg
    BY <1>10 DEF ReceiveMessage
  <2>2. \A m \in Message : Has(p, m) => ticket[m] < ticket[f.msg]
    BY <1>10, AcceptInOrder
  <2>3. \A i \in 1..Len(handed[p]) : ticket[handed[p][i].msg] < ticket[f.msg]
    BY <1>2, <2>2
  <2> HIDE DEF f, x
  <2>4. CASE q = p
    <3>1. \A u \in Track : reader'[q][u] = IF u = t THEN x ELSE reader[q][u]
      BY <1>0, <2>1, <2>4
    <3> QED
      BY <1>0, <2>1, <2>3, <2>4, <3>1 DEF HandNext, HandedInOrder
  <2>5. CASE q # p
    <3>1. reader'[q] = reader[q]
      BY <1>0, <2>1, <2>5
    <3> QED
      BY <1>7, <2>1, <3>1
  <2> QED
    BY <2>4, <2>5
<1>11. ASSUME NEW p \in Peer, NEW t \in Track, HandToUpper(p, t) PROVE Kept(q)
  <2> DEFINE x == [msg |-> reader[p][t].msg, intact |-> reader[p][t].intact]
  <2>1. /\ reader[p][t].pc = "hand" /\ ticket' = ticket
        /\ handed' = [handed EXCEPT ![p] = Append(handed[p], x)]
        /\ \E y : y.pc # "hand" /\ reader' = [reader EXCEPT ![p][t] = y]
    BY <1>11 DEF HandToUpper, ToAck
  <2>2. x \in Item /\ x.msg = reader[p][t].msg
    <3>1. reader[p][t] \in BusyReader
      BY <1>0, <2>1, BusyGoroutine
    <3> QED
      BY <3>1 DEF BusyReader
  <2>3. \A i \in 1..Len(handed[p]) : ticket[handed[p][i].msg] < ticket[x.msg]
    BY <1>0, <2>1, <2>2 DEF HandNext
  <2> HIDE DEF x, Item
  <2>4. CASE q = p
    <3>1. \A u \in Track : reader'[q][u].pc # "hand"
      <4>1. \A u \in Track : u = t
        OBVIOUS
      <4> QED
        BY <1>0, <2>1, <2>4, <4>1
    <3>2. /\ Len(handed'[p]) = Len(handed[p]) + 1 /\ Len(handed[p]) \in Nat
          /\ handed'[p][Len(handed[p]) + 1] = x
          /\ \A i \in 1..Len(handed[p]) : handed'[p][i] = handed[p][i]
      BY <1>0, <2>1, <2>2
    <3>3. ASSUME NEW i \in 1..Len(handed'[p]), NEW j \in 1..Len(handed'[p]), i < j
          PROVE  ticket[handed'[p][i].msg] < ticket[handed'[p][j].msg]
      <4>1. i \in 1..Len(handed[p]) /\ handed'[p][i] = handed[p][i]
        BY <3>2, <3>3
      <4>2. CASE j \in 1..Len(handed[p])
        <5>1. handed'[p][j] = handed[p][j]
          BY <3>2, <4>2
        <5> QED
          BY <1>0, <3>3, <4>1, <4>2, <5>1 DEF HandedInOrder
      <4>3. CASE j = Len(handed[p]) + 1
        <5>1. handed'[p][j] = x
          BY <3>2, <4>3
        <5> QED
          BY <2>3, <4>1, <5>1
      <4> QED
        BY <3>2, <4>2, <4>3
    <3> QED
      BY <2>1, <2>4, <3>1, <3>3
  <2>5. CASE q # p
    <3>1. handed'[q] = handed[q] /\ reader'[q] = reader[q]
      BY <1>0, <2>1, <2>5
    <3> QED
      BY <1>7, <3>1
  <2> QED
    BY <2>4, <2>5
<1>12. CASE UNCHANGED <<delivered, reader, handed, accepted, restarts>>
  BY <1>7, <1>12
<1> HIDE DEF Kept
<1> QED
  BY <1>8, <1>9, <1>10, <1>11, <1>12, ReceiverCases

(* The order is there at first and every step keeps it.                    *)
LEMMA OrderInvInit == ASSUME Track = {TheTrack}, Init PROVE OrderInv
<1>1. DataOf(<<>>) = {} /\ InOrder(<<>>, ticket)
  BY DEF DataOf, InOrder
<1>2. \A p \in Peer : Other[p] \in Peer
  BY PeerAssumption
<1>3. FlightInOrder
  <2>1. \A p \in Peer : air[Other[p]][TheTrack] = <<>> /\ outbound[p] = <<>>
    BY <1>2 DEF Init
  <2> QED
    BY <1>1, <2>1 DEF Init, FlightInOrder, NotAfter
<1>4. FlightInv
  BY FlightInvInit
<1>5. \A q \in Peer : \A m \in Message : ~Has(q, m)
  BY DEF Init, Has, WasHanded, InHand, IdleReader
<1> QED
  BY <1>2, <1>3, <1>4, <1>5
        DEF Init, OrderInv, UpperFirst, HandNext, HandedInOrder, IdleReader

(* So is it for a stuttering step.                                         *)
LEMMA OrderInvStep ==
  ASSUME Track = {TheTrack}, OrderInv, [Next]_vars
  PROVE  OrderInv'
<1>1. FlightInv'
  BY FlightInvStep DEF OrderInv
<1>2. CASE Next
  <2>1. FlightInOrder'
    BY <1>2, OrderStep DEF OrderInv
  <2> QED
    BY <1>1, <1>2, <2>1, UpperFirstStep, HandedStep DEF OrderInv
<1>3. CASE UNCHANGED vars
  <2>1. UNCHANGED <<ticket, tx, outbound, air, delivered, reader, handed>>
    BY <1>3 DEF vars, sendVars, recvVars
  <2>2. FlightInOrder'
    BY <2>1 DEF OrderInv, FlightInOrder, Sending
  <2>3. UpperFirst'
    BY <2>1 DEF OrderInv, UpperFirst, Has, WasHanded, InHand, InFlight, OnAir, Sending
  <2>4. HandNext' /\ HandedInOrder'
    BY <2>1 DEF OrderInv, HandNext, HandedInOrder
  <2> QED
    BY <1>1, <2>2, <2>3, <2>4 DEF OrderInv
<1> QED
  BY <1>2, <1>3

(* On one track the upper layer gets the messages of the other end in the  *)
(* order in which its Sends got sendMu, and none twice, for any number of  *)
(* messages, fragments, attempts, restarts and any size of the table.      *)
THEOREM OneTrackKeepsOrder == Track = {TheTrack} => (Spec => []HandedInOrder)
<1> SUFFICES ASSUME Track = {TheTrack} PROVE Spec => []HandedInOrder
  OBVIOUS
<1>1. Init => OrderInv
  BY OrderInvInit
<1>2. OrderInv /\ [Next]_vars => OrderInv'
  BY OrderInvStep
<1>3. OrderInv => HandedInOrder
  BY DEF OrderInv
<1> QED
  BY <1>1, <1>2, <1>3, PTL DEF Spec

-----------------------------------------------------------------------------
(* The protocol implements the link.  The messages of what was handed up,  *)
(* and sequences that the link appends to.                                 *)

Item == [msg : Message, intact : BOOLEAN]
Msgs(h) == [i \in 1..Len(h) |-> h[i].msg]

(* Sequences that agree everywhere are equal.                              *)
LEMMA SeqEqual ==
  ASSUME NEW S, NEW s \in Seq(S), NEW r \in Seq(S), Len(s) = Len(r), \A i \in 1..Len(s) : s[i] = r[i]
  PROVE  s = r
OBVIOUS

(* The messages of a sequence of items are a sequence of messages.         *)
LEMMA MsgsType ==
  ASSUME NEW h \in Seq(Item)
  PROVE  /\ Msgs(h) \in Seq(Message) /\ Len(Msgs(h)) = Len(h)
         /\ Msgs(h) \o <<>> = Msgs(h)
         /\ \A m \in Message : Msgs(h) \o <<m>> = Append(Msgs(h), m)
<1>1. Len(h) \in Nat /\ \A i \in 1..Len(h) : h[i].msg \in Message
  <2>1. Len(h) \in Nat /\ \A i \in 1..Len(h) : h[i] \in Item
    OBVIOUS
  <2> QED
    BY <2>1 DEF Item
<1>2. Msgs(h) \in Seq(Message) /\ Len(Msgs(h)) = Len(h)
  BY <1>1 DEF Msgs
<1> HIDE DEF Msgs
<1>3. Msgs(h) \o <<>> = Msgs(h)
  BY <1>2
<1>4. ASSUME NEW m \in Message PROVE Msgs(h) \o <<m>> = Append(Msgs(h), m)
  BY <1>2
<1> QED
  BY <1>2, <1>3, <1>4

(* Appending an item appends its message.                                  *)
LEMMA MsgsAppend ==
  ASSUME NEW h \in Seq(Item), NEW x \in Item
  PROVE  Msgs(Append(h, x)) = Append(Msgs(h), x.msg)
<1>1. x.msg \in Message
  BY DEF Item
<1>2. /\ Append(h, x) \in Seq(Item) /\ Len(Append(h, x)) = Len(h) + 1 /\ Len(h) \in Nat
      /\ Append(h, x)[Len(h) + 1] = x
      /\ \A i \in 1..Len(h) : Append(h, x)[i] = h[i]
  OBVIOUS
<1>3. /\ Msgs(h) \in Seq(Message) /\ Len(Msgs(h)) = Len(h)
      /\ Msgs(Append(h, x)) \in Seq(Message) /\ Len(Msgs(Append(h, x))) = Len(h) + 1
  BY <1>2, MsgsType
<1>4. /\ \A i \in 1..Len(h) : Msgs(h)[i] = h[i].msg
      /\ \A i \in 1..Len(h) + 1 : Msgs(Append(h, x))[i] = Append(h, x)[i].msg
  BY <1>2 DEF Msgs
<1>5. /\ Append(Msgs(h), x.msg) \in Seq(Message) /\ Len(Append(Msgs(h), x.msg)) = Len(h) + 1
      /\ Append(Msgs(h), x.msg)[Len(h) + 1] = x.msg
      /\ \A i \in 1..Len(h) : Append(Msgs(h), x.msg)[i] = Msgs(h)[i]
  BY <1>1, <1>2, <1>3
<1>6. ASSUME NEW i \in 1..Len(h) + 1 PROVE Msgs(Append(h, x))[i] = Append(Msgs(h), x.msg)[i]
  <2>1. CASE i \in 1..Len(h)
    BY <1>2, <1>4, <1>5, <2>1
  <2>2. CASE i = Len(h) + 1
    BY <1>2, <1>4, <1>5, <2>2
  <2>3. i \in 1..Len(h) \/ i = Len(h) + 1
    <3>1. ASSUME NEW n \in Nat, NEW j \in 1..n + 1 PROVE j \in 1..n \/ j = n + 1
      OBVIOUS
    <3> QED
      BY <1>2, <3>1
  <2> QED
    BY <2>1, <2>2, <2>3
<1> QED
  BY <1>3, <1>5, <1>6, SeqEqual

(* Before anything is handed up, nothing is got.                           *)
LEMMA MsgsEmpty == Msgs(<<>>) \o <<>> = <<>>
<1>1. Len(<<>>) = 0
  OBVIOUS
<1>2. Msgs(<<>>) = [i \in 1..0 |-> <<>>[i].msg]
  BY <1>1 DEF Msgs
<1>3. \A i : i \notin 1..0
  OBVIOUS
<1>4. Msgs(<<>>) = <<>>
  <2>1. <<>> \in Seq(Item)
    OBVIOUS
  <2>2. Msgs(<<>>) \in Seq(Message) /\ Len(Msgs(<<>>)) = 0
    BY <1>1, <2>1, MsgsType
  <2> HIDE DEF Msgs
  <2> QED
    BY <2>2
<1> QED
  BY <1>4

(* What the upper layer has got, before and after a step.                  *)
LEMMA GotOf ==
  ASSUME NEW q \in Peer
  PROVE  /\ Got(q) = Msgs(handed[q]) \o
                     (IF reader[q][TheTrack].pc = "hand" THEN <<reader[q][TheTrack].msg>> ELSE <<>>)
         /\ Got(q)' = Msgs(handed'[q]) \o
                      (IF reader'[q][TheTrack].pc = "hand" THEN <<reader'[q][TheTrack].msg>> ELSE <<>>)
BY DEF Got, Msgs

(* A message that is accepted is appended to it.                           *)
LEMMA GotAccepted ==
  ASSUME TypeOK, TypeOK', Track = {TheTrack}, NEW q \in Peer, NEW t \in Track, ReceiveMessage(q, t)
  PROVE  /\ Got(q)' = Append(Got(q), Head(air[q][t]).msg) /\ Got(q) \in Seq(Message)
         /\ \A r \in Peer : r # q => Got(r)' = Got(r)
<1> DEFINE m == Head(air[q][t]).msg
<1>1. /\ reader[q][t].pc = "read" /\ handed' = handed
      /\ \E y : y.pc = "hand" /\ y.msg = m /\ reader' = [reader EXCEPT ![q][t] = y]
      /\ reader \in [Peer -> [Track -> {IdleReader} \cup BusyReader]] /\ t = TheTrack
  BY DEF ReceiveMessage, Read, TypeOK
<1>2. m \in Message
  <2>1. Head(air[q][t]) \in Frame
    BY ReadFrame DEF ReceiveMessage
  <2> QED
    BY <2>1 DEF Frame
<1>3. handed[q] \in Seq(Item)
  BY DEF TypeOK, Item
<1> HIDE DEF m
<1>4. reader'[q][t].pc = "hand" /\ reader'[q][t].msg = m
  BY <1>1
<1>5. Got(q) = Msgs(handed[q]) /\ Got(q) \in Seq(Message)
  BY <1>1, <1>3, GotOf, MsgsType
<1>6. Got(q)' = Append(Msgs(handed[q]), m)
  BY <1>1, <1>2, <1>3, <1>4, GotOf, MsgsType
<1>7. ASSUME NEW r \in Peer, r # q PROVE Got(r)' = Got(r)
  <2>1. reader'[r] = reader[r]
    BY <1>1, <1>7
  <2> QED
    BY <1>1, <2>1, GotOf
<1> QED
  BY <1>5, <1>6, <1>7 DEF m

(* Handing it up moves it from the hand to what was handed: no change.     *)
LEMMA GotHanded ==
  ASSUME TypeOK, Track = {TheTrack}, NEW p \in Peer, NEW t \in Track, HandToUpper(p, t), NEW q \in Peer
  PROVE  Got(q)' = Got(q)
<1> DEFINE x == [msg |-> reader[p][t].msg, intact |-> reader[p][t].intact]
<1>1. /\ t = TheTrack /\ reader[p][t].pc = "hand"
      /\ handed' = [handed EXCEPT ![p] = Append(handed[p], x)]
      /\ \E y : y.pc = "ack" /\ reader' = [reader EXCEPT ![p][t] = y]
      /\ reader \in [Peer -> [Track -> {IdleReader} \cup BusyReader]]
  BY DEF TypeOK, HandToUpper, ToAck
<1>2. x \in Item /\ x.msg = reader[p][t].msg /\ reader[p][t].msg \in Message
  <2>1. reader[p][t] \in BusyReader
    BY <1>1, BusyGoroutine
  <2> QED
    BY <2>1 DEF BusyReader, Item
<1>3. handed \in [Peer -> Seq(Item)] /\ handed[p] \in Seq(Item)
  BY DEF TypeOK, Item
<1> HIDE DEF x
<1>4. CASE q = p
  <2>1. handed'[p] = Append(handed[p], x) /\ reader'[p][t].pc = "ack"
    BY <1>1, <1>3
  <2>2. Append(handed[p], x) \in Seq(Item)
    BY <1>2, <1>3
  <2>3. Got(p)' = Msgs(Append(handed[p], x))
    BY <1>1, <2>1, <2>2, GotOf, MsgsType
  <2>4. Got(p) = Append(Msgs(handed[p]), x.msg)
    BY <1>1, <1>2, <1>3, GotOf, MsgsType
  <2> QED
    BY <1>2, <1>3, <1>4, <2>3, <2>4, MsgsAppend
<1>5. CASE q # p
  <2>1. handed'[q] = handed[q] /\ reader'[q] = reader[q]
    BY <1>1, <1>3, <1>5
  <2> QED
    BY <2>1, GotOf
<1> QED
  BY <1>4, <1>5

(* The other steps of the goroutines change nothing either.                *)
LEMMA GotAcked ==
  ASSUME TypeOK, NEW p \in Peer, NEW t \in Track, ReceiveDuplicate(p, t) \/ SendAck(p, t), NEW q \in Peer,
         TheTrack \in Track
  PROVE  Got(q)' = Got(q)
<1>1. /\ handed' = handed /\ reader[p][t].pc # "hand"
      /\ \E y : y.pc # "hand" /\ reader' = [reader EXCEPT ![p][t] = y]
      /\ reader \in [Peer -> [Track -> {IdleReader} \cup BusyReader]]
  BY DEF TypeOK, ReceiveDuplicate, SendAck, ToAck, Read, IdleReader
<1>2. \/ reader'[q][TheTrack] = reader[q][TheTrack]
      \/ reader'[q][TheTrack].pc # "hand" /\ reader[q][TheTrack].pc # "hand"
  BY <1>1
<1> QED
  BY <1>1, <1>2, GotOf


(* What a Send's end is to the link.                                       *)
LEMMA OutcomeIs ==
  /\ OutcomeOf("new") = "none" /\ OutcomeOf("blocked") = "none"
  /\ OutcomeOf("sending") = "accepted" /\ OutcomeOf("ok") = "ok"
  /\ OutcomeOf("timeout") = "failed" /\ OutcomeOf("closed") = "failed" /\ OutcomeOf("lost") = "failed"
BY DEF OutcomeOf

(* The state of the link maps to that of the link at first.                *)
LEMMA LinkInit == ASSUME Init, Track = {TheTrack} PROVE Link!Init
<1>1. [m \in Message |-> OutcomeOf(status[m])] = [m \in Message |-> "none"]
  BY OutcomeIs DEF Init
<1>2. [p \in Peer |-> Got(p)] = [p \in Peer |-> <<>>]
  <2>1. ASSUME NEW p \in Peer PROVE Got(p) = <<>>
    <3>1. handed[p] = <<>> /\ reader[p][TheTrack].pc # "hand"
      BY DEF Init, IdleReader
    <3> QED
      BY <3>1, GotOf, MsgsEmpty
  <2> QED
    BY <2>1
<1> QED
  BY <1>1, <1>2 DEF Init, Link!Init

(* A Send that returns concludes its message: with success for one that    *)
(* the peer accepted, else with failure.                                   *)
LEMMA LinkReturns ==
  ASSUME AckedInv, FlightInv, NEW p \in Peer, tx[p].phase # "idle",
         NEW r \in {"ok", "timeout", "closed"}, r = "ok" => tx[p].msg \in accepted,
         ReturnSend(p, r), UNCHANGED <<ticket, issued, handed, reader, accepted>>
  PROVE  Link!Next
<1> DEFINE m == tx[p].msg
           outcome == [n \in Message |-> OutcomeOf(status[n])]
           outcomeAfter == [n \in Message |-> OutcomeOf(status'[n])]
<1>1. m \in Message /\ status[m] = "sending"
  BY SenderInFlight DEF FlightInv, SenderSends
<1>2. status' = [status EXCEPT ![m] = r] /\ status \in [Message -> Status]
  BY DEF ReturnSend, FlightInv, TypeOK
<1> HIDE DEF m
<1>3. outcomeAfter = [outcome EXCEPT ![m] = OutcomeOf(r)]
  BY <1>1, <1>2
<1>4. outcome[m] = "accepted"
  BY <1>1, OutcomeIs
<1>5. [q \in Peer |-> Got(q)]' = [q \in Peer |-> Got(q)]
  BY DEF Got
<1>6. CASE r = "ok"
  <2>1. Link!Succeed(m)
    BY <1>3, <1>4, <1>5, <1>6, OutcomeIs DEF Link!Succeed, m
  <2> QED
    BY <1>1, <2>1 DEF Link!Next
<1>7. CASE r # "ok"
  <2>1. Link!Fail(m)
    BY <1>3, <1>4, <1>5, <1>7, OutcomeIs DEF Link!Fail
  <2> QED
    BY <1>1, <2>1 DEF Link!Next
<1> QED
  BY <1>6, <1>7

(* The application's steps: a Send that gets sendMu is accepted, one that  *)
(* finds the transport closed fails.                                       *)
LEMMA LinkCalls ==
  ASSUME FlightInv, NEW m \in Message, CallSend(m) \/ StartSend(m)
  PROVE  [Link!Next]_(Link!vars)
<1> USE DEF recvVars
<1> DEFINE outcome == [n \in Message |-> OutcomeOf(status[n])]
           outcomeAfter == [n \in Message |-> OutcomeOf(status'[n])]
<1>1. status \in [Message -> Status]
  BY DEF FlightInv, TypeOK
<1>2. [q \in Peer |-> Got(q)]' = [q \in Peer |-> Got(q)] /\ accepted' = accepted
  BY DEF CallSend, StartSend, Got
<1>3. CASE CallSend(m)
  <2>1. status[m] = "new" /\ UNCHANGED <<ticket, issued>>
    BY <1>3 DEF CallSend
  <2>2. CASE status' = [status EXCEPT ![m] = "closed"]
    <3>1. outcomeAfter = [outcome EXCEPT ![m] = "failed"] /\ outcome[m] = "none"
      BY <1>1, <2>1, <2>2, OutcomeIs
    <3>2. Link!Fail(m)
      BY <1>2, <2>1, <3>1 DEF Link!Fail
    <3> QED
      BY <3>2 DEF Link!Next
  <2>3. CASE status' = [status EXCEPT ![m] = "blocked"]
    <3>1. \A n \in Message : OutcomeOf(status'[n]) = OutcomeOf(status[n])
      BY <1>1, <2>1, <2>3, OutcomeIs
    <3>2. outcomeAfter = outcome
      BY <3>1
    <3> QED
      BY <1>2, <2>1, <3>2 DEF Link!vars
  <2> QED
    BY <1>3, <2>2, <2>3 DEF CallSend
<1>4. CASE StartSend(m)
  <2>1. /\ status[m] = "blocked" /\ status' = [status EXCEPT ![m] = "sending"]
        /\ issued' = [issued EXCEPT ![Origin[m]] = @ + 1]
        /\ ticket' = [ticket EXCEPT ![m] = issued[Origin[m]] + 1]
    BY <1>4 DEF StartSend
  <2>2. outcomeAfter = [outcome EXCEPT ![m] = "accepted"] /\ outcome[m] = "none"
    BY <1>1, <2>1, OutcomeIs
  <2>3. Link!Accept(m)
    BY <1>2, <2>1, <2>2 DEF Link!Accept
  <2> QED
    BY <2>3 DEF Link!Next
<1> QED
  BY <1>3, <1>4

(* An accepted message is delivered by the link, after all those before.   *)
LEMMA LinkAccepts ==
  ASSUME Track = {TheTrack}, OrderInv, Next, TypeOK', NEW q \in Peer, NEW t \in Track, ReceiveMessage(q, t)
  PROVE  Link!Next
<1> DEFINE m == Head(air[q][t]).msg
           got == [p \in Peer |-> Got(p)]
           gotAfter == [p \in Peer |-> Got(p)']
<1>1. /\ m \in Message /\ Origin[m] = Other[q] /\ ticket[m] > 0
      /\ \A n \in Message : Has(q, n) => ticket[n] < ticket[m]
  BY AcceptInOrder
<1>2. TypeOK /\ Other[Origin[m]] = q
  BY <1>1, PeerAssumption DEF OrderInv, FlightInv
<1>3. /\ Got(q)' = Append(Got(q), m) /\ Got(q) \in Seq(Message)
      /\ \A r \in Peer : r # q => Got(r)' = Got(r)
  BY <1>2, GotAccepted
<1>4. UNCHANGED <<status, ticket, issued>> /\ accepted' = accepted \cup {m}
  BY DEF ReceiveMessage, sendVars
<1>5. \A i \in 1..Len(Got(q)) : Has(q, Got(q)[i])
  <2>1. reader[q][TheTrack].pc = "read" /\ handed[q] \in Seq(Item)
    <3>1. reader[q][t].pc = "read" /\ t = TheTrack
      BY DEF ReceiveMessage, Read
    <3> QED
      BY <1>2, <3>1 DEF TypeOK, Item
  <2>2. Got(q) = Msgs(handed[q])
    BY <2>1, GotOf, MsgsType
  <2>3. Len(Got(q)) = Len(handed[q])
    BY <2>1, <2>2, MsgsType
  <2>4. \A i \in 1..Len(handed[q]) : Got(q)[i] = handed[q][i].msg
    BY <2>2 DEF Msgs
  <2> QED
    BY <2>3, <2>4 DEF Has, WasHanded
<1>6. \A i \in 1..Len(Got(q)) : Got(q)[i] \in Message
  BY <1>3
<1> HIDE DEF m
<1>7. \A i \in 1..Len(Got(q)) : ticket[Got(q)[i]] < ticket[m]
  BY <1>1, <1>5, <1>6
<1>8. gotAfter = [got EXCEPT ![q] = Append(got[q], m)]
  BY <1>3
<1>9. Link!Deliver(m)
  BY <1>1, <1>2, <1>4, <1>7, <1>8 DEF Link!Deliver
<1> QED
  BY <1>1, <1>9 DEF Link!Next

(* A restarted process replaces the old one: its Sends fail, its upper     *)
(* layer has nothing.                                                      *)
LEMMA LinkReplaces ==
  ASSUME TypeOK, Track = {TheTrack}, NEW p \in Peer, Restart(p)
  PROVE  Link!Next
<1> DEFINE outcome == [n \in Message |-> OutcomeOf(status[n])]
           outcomeAfter == [n \in Message |-> OutcomeOf(status'[n])]
           gone == {n \in Message : Origin[n] = p /\ status[n] = "blocked"}
           got == [q \in Peer |-> Got(q)]
           gotAfter == [q \in Peer |-> Got(q)']
<1>1. /\ status \in [Message -> Status]
      /\ \A n \in Message :
           status'[n] = IF Origin[n] = p /\ status[n] \in {"blocked", "sending"} THEN "lost" ELSE status[n]
  BY DEF TypeOK, Restart
<1>2. \A n \in Message : outcome[n] = "accepted" <=> status[n] = "sending"
  BY <1>1, OutcomeIs DEF Status
<1>3. gone \in SUBSET {n \in Message : Origin[n] = p /\ outcome[n] = "none"}
  BY OutcomeIs
<1>4. \A n \in Message :
        OutcomeOf(status'[n]) = IF n \in gone \/ (Origin[n] = p /\ outcome[n] = "accepted")
                                THEN "failed" ELSE outcome[n]
  BY <1>1, <1>2, OutcomeIs
<1>5. outcomeAfter = [n \in Message |->
                        IF n \in gone \/ (Origin[n] = p /\ outcome[n] = "accepted")
                        THEN "failed" ELSE outcome[n]]
  BY <1>4
<1>6. gotAfter = [got EXCEPT ![p] = <<>>]
  <2>1. Got(p)' = <<>>
    <3>1. handed'[p] = <<>> /\ reader'[p][TheTrack].pc = "read"
      BY DEF Restart, TypeOK, IdleReader
    <3> QED
      BY <3>1, GotOf, MsgsEmpty
  <2>2. ASSUME NEW q \in Peer, q # p PROVE Got(q)' = Got(q)
    <3>1. handed'[q] = handed[q] /\ reader'[q] = reader[q]
      BY <2>2 DEF Restart, TypeOK
    <3> QED
      BY <3>1, GotOf
  <2> QED
    BY <2>1, <2>2
<1>7. UNCHANGED <<ticket, issued, accepted>>
  BY DEF Restart
<1>8. Link!Replace(p)
  BY <1>3, <1>5, <1>6, <1>7 DEF Link!Replace
<1> QED
  BY <1>8 DEF Link!Next

(* Every other step is one the link does not see.                          *)
LEMMA LinkStutters ==
  ASSUME UNCHANGED <<status, ticket, issued, accepted>>, \A q \in Peer : Got(q)' = Got(q)
  PROVE  UNCHANGED Link!vars
BY DEF Link!vars

(* Every step of the protocol is a step of the link or none.               *)
LEMMA LinkStep ==
  ASSUME Track = {TheTrack}, AckedInv, OrderInv, [Next]_vars
  PROVE  [Link!Next]_(Link!vars)
<1> USE DEF sendVars, recvVars
<1>0. TypeOK /\ TypeOK' /\ FlightInv /\ TheTrack \in Track
  BY StepType DEF AckedInv, OrderInv
<1>1. ASSUME UNCHANGED <<status, ticket, issued, accepted, handed, reader>>
      PROVE  UNCHANGED Link!vars
  BY <1>1, GotOf, LinkStutters
<1>2. CASE UNCHANGED vars
  BY <1>1, <1>2 DEF vars
<1>3. ASSUME NEW m \in Message, CallSend(m) \/ StartSend(m) PROVE [Link!Next]_(Link!vars)
  BY <1>0, <1>3, LinkCalls
<1>4. ASSUME NEW p \in Peer, NEW w, NextAttempt(p, w), tx[p].phase # "idle",
             UNCHANGED <<ticket, issued, handed, reader, accepted>>
      PROVE  [Link!Next]_(Link!vars)
  <2>1. CASE ReturnSend(p, "timeout")
    BY <1>0, <1>4, <2>1, LinkReturns
  <2>2. CASE UNCHANGED status
    BY <1>1, <1>4, <2>2
  <2> QED
    BY <1>4, <2>1, <2>2 DEF NextAttempt
<1>5. ASSUME NEW p \in Peer, EnqueueClosed(p) \/ AwaitClosed(p) PROVE [Link!Next]_(Link!vars)
  BY <1>0, <1>5, LinkReturns DEF EnqueueClosed, AwaitClosed
<1>6. ASSUME NEW p \in Peer, AwaitTimeout(p) PROVE [Link!Next]_(Link!vars)
  BY <1>4, <1>6 DEF AwaitTimeout
<1>7. ASSUME NEW p \in Peer, AwaitAck(p) PROVE [Link!Next]_(Link!vars)
  <2>1. tx[p].phase # "idle" /\ UNCHANGED <<ticket, issued, handed, reader, accepted>>
    BY <1>7 DEF AwaitAck
  <2>2. CASE AckMatches(p) /\ ReturnSend(p, "ok")
    <3>1. tx[p].msg \in accepted
      BY <1>7, <2>2 DEF AwaitAck, AckMatches, AckedInv, WaiterTrail
    <3> QED
      BY <1>0, <2>1, <2>2, <3>1, LinkReturns
  <2>3. CASE NextAttempt(p, NoMsg)
    BY <1>4, <2>1, <2>3
  <2> QED
    BY <1>7, <2>2, <2>3 DEF AwaitAck
<1>8. ASSUME NEW p \in Peer,
             \/ EnqueueFragment(p) \/ Connect(p) \/ WriteAck(p) \/ WriteData(p) \/ WriterExit(p)
             \/ CloseBegin(p) \/ CloseFinish(p)
      PROVE  UNCHANGED Link!vars
  BY <1>1, <1>8 DEF EnqueueFragment, Connect, WriteAck, WriteData, WriterExit, CloseBegin, CloseFinish
<1>9. ASSUME NEW p \in Peer, Restart(p) PROVE [Link!Next]_(Link!vars)
  BY <1>0, <1>9, LinkReplaces
<1>10. ASSUME NEW p \in Peer, NEW t \in Track,
              ReceiveAck(p, t) \/ ReceiveFragment(p, t) \/ ReceiveDamaged(p, t)
       PROVE  UNCHANGED Link!vars
  BY <1>1, <1>10 DEF ReceiveAck, ReceiveFragment, ReceiveDamaged
<1>11. ASSUME NEW p \in Peer, NEW t \in Track, ReceiveDuplicate(p, t) \/ SendAck(p, t)
       PROVE  UNCHANGED Link!vars
  <2>1. UNCHANGED <<status, ticket, issued, accepted>>
    BY <1>11 DEF ReceiveDuplicate, SendAck
  <2>2. \A q \in Peer : Got(q)' = Got(q)
    BY <1>0, <1>11, GotAcked
  <2> QED
    BY <2>1, <2>2, LinkStutters
<1>12. ASSUME NEW p \in Peer, NEW t \in Track, HandToUpper(p, t) PROVE UNCHANGED Link!vars
  <2>1. UNCHANGED <<status, ticket, issued, accepted>>
    BY <1>12 DEF HandToUpper
  <2>2. \A q \in Peer : Got(q)' = Got(q)
    BY <1>0, <1>12, GotHanded
  <2> QED
    BY <2>1, <2>2, LinkStutters
<1>13. ASSUME Next, NEW p \in Peer, NEW t \in Track, ReceiveMessage(p, t) PROVE [Link!Next]_(Link!vars)
  BY <1>0, <1>13, LinkAccepts
<1> QED
  BY <1>2, <1>3, <1>5, <1>6, <1>7, <1>8, <1>9, <1>10, <1>11, <1>12, <1>13, NextCases

(* On one track every behaviour of the protocol is one of the reliable     *)
(* ordered link of MessageLink.                                            *)
THEOREM OneTrackImplementsLink == Track = {TheTrack} => (Spec => ImplementsLink)
<1> SUFFICES ASSUME Track = {TheTrack} PROVE Spec => ImplementsLink
  OBVIOUS
<1>1. Init => AckedInv /\ OrderInv /\ Link!Init
  BY AckedInit, OrderInvInit, LinkInit
<1>2. AckedInv /\ OrderInv /\ [Next]_vars => (AckedInv /\ OrderInv)'
  BY AckedStep, OrderInvStep
<1>3. AckedInv /\ OrderInv /\ [Next]_vars => [Link!Next]_(Link!vars)
  BY LinkStep
<1> QED
  BY <1>1, <1>2, <1>3, PTL DEF Spec, ImplementsLink, Link!Spec

=============================================================================
