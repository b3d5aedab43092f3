------------------------------ MODULE ArqProofs ------------------------------
(***************************************************************************)
(* Type correctness of ArqTransport and its main safety property: a Send   *)
(* that returned nil was for a message its peer accepted.  Both hold for   *)
(* every set of peers, messages and tracks and every capacity.             *)
(***************************************************************************)
EXTENDS ArqTransport, TLAPS

TxType == {IdleTx} \cup BusyTx
EntryType == [seq : Nat, msg : Message, have : SUBSET Nat, intact : BOOLEAN]

(* The frame a goroutine reads is a frame, and the rest is a queue.        *)
LEMMA ReadFrame ==
  ASSUME TypeOK, NEW p \in Peer, NEW t \in Track, Read(p, t)
  PROVE  /\ Head(air[p][t]) \in Frame
         /\ Tail(air[p][t]) \in Seq(Frame)
         /\ air' \in [Peer -> [Track -> Seq(Frame)]]
<1>1. air[p][t] \in Seq(Frame) /\ air[p][t] # <<>>
  BY DEF TypeOK, Read
<1>2. Head(air[p][t]) \in Frame /\ Tail(air[p][t]) \in Seq(Frame)
  BY <1>1
<1>3. air' \in [Peer -> [Track -> Seq(Frame)]]
  BY <1>2 DEF TypeOK, Read
<1> QED
  BY <1>2, <1>3

(* What upsertInbound returns is an entry for the frame's message.         *)
LEMMA UpsertType ==
  ASSUME TypeOK, NEW p \in Peer, NEW f \in Frame
  PROVE  Upsert(p, f) \in EntryType
<1> DEFINE kept == {e \in inbound[p] : e.seq = f.seq /\ e.msg = f.msg}
           old  == IF kept = {} THEN [seq |-> f.seq, msg |-> f.msg, have |-> {}, intact |-> TRUE]
                                ELSE CHOOSE e \in kept : TRUE
<1>1. f.seq \in Nat /\ f.msg \in Message /\ f.idx \in Nat /\ f.intact \in BOOLEAN
  BY DEF Frame
<1>2. kept \subseteq EntryType
  BY DEF TypeOK, EntryType
<1>3. old \in EntryType
  <2>1. CASE kept = {}
    BY <2>1, <1>1 DEF EntryType
  <2>2. CASE kept # {}
    BY <2>2, <1>2
  <2> QED
    BY <2>1, <2>2
<1>4. Upsert(p, f) = IF f.idx \in old.have THEN old
                     ELSE [seq |-> f.seq, msg |-> f.msg, have |-> old.have \cup {f.idx},
                           intact |-> old.intact /\ f.intact]
  BY DEF Upsert
<1> HIDE DEF old
<1>5. CASE f.idx \in old.have
  BY <1>3, <1>4, <1>5
<1>6. CASE f.idx \notin old.have
  <2>1. old.have \cup {f.idx} \in SUBSET Nat /\ (old.intact /\ f.intact) \in BOOLEAN
    BY <1>1, <1>3 DEF EntryType
  <2> QED
    BY <1>1, <1>3, <1>4, <1>6, <2>1 DEF EntryType
<1> QED
  BY <1>5, <1>6

(* A transmission leaves queues of frames in the air.                      *)
LEMMA TransmitType ==
  ASSUME TypeOK, NEW p \in Peer, NEW f \in Frame, Transmit(p, f)
  PROVE  air' \in [Peer -> [Track -> Seq(Frame)]]
<1>1. Other[p] \in Peer
  BY PeerAssumption
<1>2. ASSUME NEW t \in Track, NEW s \in Arrival(p, Other[p], t, f)
      PROVE  s \in Seq(Frame)
  <2>1. air[Other[p]][t] \in Seq(Frame)
    BY <1>1 DEF TypeOK
  <2>2. {f} \cup Damaged(f) \subseteq Frame
    <3>1. f.seq \in Nat /\ f.msg \in Message /\ f.idx \in Nat
      BY DEF Frame
    <3>2. [typ |-> "data", seq |-> f.seq, msg |-> f.msg, idx |-> f.idx, intact |-> FALSE] \in Frame
      BY <3>1 DEF Frame
    <3>3. Damaged(f) \subseteq Frame
      BY <3>2 DEF Damaged
    <3> QED
      BY <3>3
  <2>3. ASSUME NEW g \in Frame PROVE Append(air[Other[p]][t], g) \in Seq(Frame)
    BY <2>1
  <2> QED
    BY <1>2, <2>1, <2>2, <2>3 DEF Arrival
<1>3. PICK heard \in [Track -> UNION {Arrival(p, Other[p], t, f) : t \in Track}] :
         /\ \A t \in Track : heard[t] \in Arrival(p, Other[p], t, f)
         /\ air' = [air EXCEPT ![Other[p]] = heard]
  BY DEF Transmit
<1>4. heard \in [Track -> Seq(Frame)]
  BY <1>2, <1>3
<1> QED
  BY <1>1, <1>3, <1>4 DEF TypeOK

(* Next, one disjunct per action.                                          *)
LEMMA NextCases ==
  ASSUME Next
  PROVE  \/ \E m \in Message : CallSend(m) \/ StartSend(m)
         \/ \E p \in Peer : EnqueueFragment(p) \/ EnqueueClosed(p) \/ AwaitAck(p)
                            \/ AwaitTimeout(p) \/ AwaitClosed(p)
         \/ \E p \in Peer : Connect(p) \/ WriteAck(p) \/ WriteData(p) \/ WriterExit(p)
                            \/ CloseBegin(p) \/ CloseFinish(p) \/ Restart(p)
         \/ \E p \in Peer, t \in Track :
                \/ ReceiveAck(p, t) \/ ReceiveDuplicate(p, t) \/ ReceiveFragment(p, t)
                \/ ReceiveDamaged(p, t) \/ ReceiveMessage(p, t)
                \/ HandToUpper(p, t) \/ SendAck(p, t)
BY DEF Next, SendStep, WriterStep, ReaderStep

(* A Send that returns leaves a well-typed sender.                         *)
LEMMA ReturnType ==
  ASSUME TypeOK, NEW p \in Peer, NEW r \in Status, ReturnSend(p, r)
  PROVE  status' \in [Message -> Status] /\ tx' \in [Peer -> TxType]
BY DEF TypeOK, TxType, ReturnSend

(* So does the attempt loop.                                               *)
LEMMA NextAttemptType ==
  ASSUME TypeOK, NEW p \in Peer, NEW w \in Message \cup {NoMsg}, tx[p] \in BusyTx, NextAttempt(p, w)
  PROVE  status' \in [Message -> Status] /\ tx' \in [Peer -> TxType]
<1>1. tx \in [Peer -> TxType] /\ status \in [Message -> Status]
  BY DEF TypeOK, TxType
<1>2. CASE ReturnSend(p, "timeout")
  BY <1>2, ReturnType DEF Status
<1>3. CASE AttemptsLeft(p) /\ tx' = [tx EXCEPT ![p] = Retry(p, w)] /\ UNCHANGED status
  <2>1. tx[p].attempt + 1 \in 1..MaxSendAttempts
    BY <1>3, BoundAssumption DEF AttemptsLeft, BusyTx
  <2>2. Retry(p, w) \in TxType
    BY <2>1 DEF Retry, BusyTx, TxType
  <2> QED
    BY <1>1, <1>3, <2>2
<1> QED
  BY <1>2, <1>3 DEF NextAttempt

(* A Send that is not idle has a message.                                  *)
LEMMA BusySender ==
  ASSUME TypeOK, NEW p \in Peer, tx[p].phase # "idle"
  PROVE  tx[p] \in BusyTx
BY DEF TypeOK, IdleTx

(* So has a goroutine that is not reading.                                 *)
LEMMA BusyGoroutine ==
  ASSUME TypeOK, NEW p \in Peer, NEW t \in Track, reader[p][t].pc # "read"
  PROVE  reader[p][t] \in BusyReader
BY DEF TypeOK, IdleReader

(* A step of the application or of Send preserves the types.               *)
LEMMA SendTypes ==
  ASSUME TypeOK,
         \/ \E m \in Message : CallSend(m) \/ StartSend(m)
         \/ \E p \in Peer : EnqueueFragment(p) \/ EnqueueClosed(p) \/ AwaitAck(p)
                            \/ AwaitTimeout(p) \/ AwaitClosed(p)
  PROVE  TypeOK'
<1> USE DEF recvVars
<1>0. tx \in [Peer -> TxType] /\ status \in [Message -> Status]
  BY DEF TypeOK, TxType
<1>1. ASSUME NEW m \in Message, CallSend(m) PROVE TypeOK'
  BY <1>1 DEF TypeOK, CallSend, Status
<1>2. ASSUME NEW m \in Message, StartSend(m) PROVE TypeOK'
  <2> DEFINE p == Origin[m]
  <2>1. p \in Peer
    BY MessageAssumption
  <2>2. [phase |-> "enqueue", msg |-> m, seq |-> nextSeq[p] + 1,
         attempt |-> 1, frag |-> 1, waiter |-> NoMsg] \in BusyTx
    <3>1. nextSeq[p] + 1 \in Nat
      BY <2>1 DEF TypeOK
    <3>2. 1 \in 1..MaxSendAttempts
      BY BoundAssumption
    <3> QED
      BY <3>1, <3>2 DEF BusyTx
  <2>3. tx' \in [Peer -> TxType]
    BY <1>0, <1>2, <2>1, <2>2 DEF StartSend, TxType
  <2>4. /\ status' \in [Message -> Status] /\ nextSeq' \in [Peer -> Nat]
        /\ issued' \in [Peer -> Nat] /\ ticket' \in [Message -> Nat]
    <3>1. issued[p] + 1 \in Nat /\ nextSeq[p] + 1 \in Nat
      BY <2>1 DEF TypeOK
    <3>2. status' \in [Message -> Status]
      BY <1>0, <1>2 DEF StartSend, Status
    <3>3. nextSeq' \in [Peer -> Nat] /\ issued' \in [Peer -> Nat]
      BY <1>2, <3>1 DEF StartSend, TypeOK
    <3>4. ticket' \in [Message -> Nat]
      BY <1>2, <3>1 DEF StartSend, TypeOK
    <3> QED
      BY <3>2, <3>3, <3>4
  <2> QED
    BY <1>2, <2>3, <2>4 DEF TypeOK, TxType, StartSend
<1>3. ASSUME NEW p \in Peer, EnqueueFragment(p) PROVE TypeOK'
  <2>1. tx[p] \in BusyTx
    BY <1>3, BusySender DEF EnqueueFragment
  <2>2. DataFrame(tx[p].seq, tx[p].msg, tx[p].frag) \in Frame
    BY <2>1 DEF BusyTx, DataFrame, Frame
  <2>3. outbound' \in [Peer -> Seq(Frame)]
    BY <1>3, <2>2 DEF EnqueueFragment, TypeOK
  <2>4. NextFragment(p) \in BusyTx
    BY <2>1 DEF NextFragment, BusyTx
  <2>5. tx' \in [Peer -> TxType]
    BY <1>0, <1>3, <2>4 DEF EnqueueFragment, TxType
  <2> QED
    BY <1>3, <2>3, <2>5 DEF EnqueueFragment, TypeOK, TxType
<1>4. ASSUME NEW p \in Peer, EnqueueClosed(p) PROVE TypeOK'
  <2>1. status' \in [Message -> Status] /\ tx' \in [Peer -> TxType]
    BY <1>4, ReturnType DEF EnqueueClosed, Status
  <2> QED
    BY <1>4, <2>1 DEF EnqueueClosed, TypeOK, TxType
<1>5. ASSUME NEW p \in Peer, AwaitAck(p) PROVE TypeOK'
  <2>1. tx[p] \in BusyTx
    BY <1>5, BusySender DEF AwaitAck
  <2>2. status' \in [Message -> Status] /\ tx' \in [Peer -> TxType]
    BY <1>5, <2>1, ReturnType, NextAttemptType DEF AwaitAck, Status
  <2> QED
    BY <1>5, <2>2 DEF AwaitAck, TypeOK, TxType
<1>6. ASSUME NEW p \in Peer, AwaitTimeout(p) PROVE TypeOK'
  <2>1. tx[p] \in BusyTx
    BY <1>6, BusySender DEF AwaitTimeout
  <2>2. tx[p].waiter \in Message \cup {NoMsg}
    BY <2>1 DEF BusyTx
  <2>3. status' \in [Message -> Status] /\ tx' \in [Peer -> TxType]
    BY <1>6, <2>1, <2>2, NextAttemptType DEF AwaitTimeout
  <2> QED
    BY <1>6, <2>3 DEF AwaitTimeout, TypeOK, TxType
<1>7. ASSUME NEW p \in Peer, AwaitClosed(p) PROVE TypeOK'
  <2>1. status' \in [Message -> Status] /\ tx' \in [Peer -> TxType]
    BY <1>7, ReturnType DEF AwaitClosed, Status
  <2> QED
    BY <1>7, <2>1 DEF AwaitClosed, TypeOK, TxType
<1> QED
  BY <1>1, <1>2, <1>3, <1>4, <1>5, <1>6, <1>7

(* So does a step of the writer, of Connect, Close or Restart.             *)
LEMMA PeerTypes ==
  ASSUME TypeOK, NEW p \in Peer,
         \/ Connect(p) \/ WriteAck(p) \/ WriteData(p) \/ WriterExit(p)
         \/ CloseBegin(p) \/ CloseFinish(p) \/ Restart(p)
  PROVE  TypeOK'
<1> USE DEF sendVars, recvVars
<1>1. CASE Connect(p)
  BY <1>1 DEF TypeOK, Connect
<1>2. CASE WriteAck(p)
  <2>1. Head(outboundAck[p]) \in Frame /\ Tail(outboundAck[p]) \in Seq(Frame)
    BY <1>2 DEF WriteAck, TypeOK
  <2>2. air' \in [Peer -> [Track -> Seq(Frame)]]
    BY <1>2, <2>1, TransmitType DEF WriteAck
  <2>3. outboundAck' \in [Peer -> Seq(Frame)]
    BY <1>2, <2>1 DEF WriteAck, TypeOK
  <2> QED
    BY <1>2, <2>2, <2>3 DEF WriteAck, TypeOK
<1>3. CASE WriteData(p)
  <2>1. Head(outbound[p]) \in Frame /\ Tail(outbound[p]) \in Seq(Frame)
    BY <1>3 DEF WriteData, TypeOK
  <2>2. air' \in [Peer -> [Track -> Seq(Frame)]]
    BY <1>3, <2>1, TransmitType DEF WriteData
  <2>3. outbound' \in [Peer -> Seq(Frame)]
    BY <1>3, <2>1 DEF WriteData, TypeOK
  <2> QED
    BY <1>3, <2>2, <2>3 DEF WriteData, TypeOK
<1>4. CASE WriterExit(p)
  BY <1>4 DEF TypeOK, WriterExit
<1>5. CASE CloseBegin(p)
  BY <1>5 DEF TypeOK, CloseBegin
<1>6. CASE CloseFinish(p)
  BY <1>6 DEF TypeOK, CloseFinish
<1>7. CASE Restart(p)
  <2>1. restarts[p] \in 0..MaxRestarts /\ restarts[p] + 1 \in 0..MaxRestarts
    BY <1>7, BoundAssumption DEF Restart, TypeOK
  <2>2. /\ status' \in [Message -> Status]
        /\ nextSeq' \in [Peer -> Nat]
        /\ tx' \in [Peer -> {IdleTx} \cup BusyTx]
        /\ restarts' \in [Peer -> 0..MaxRestarts]
    BY <1>7, <2>1 DEF Restart, TypeOK, Status
  <2>3. /\ outbound' \in [Peer -> Seq(Frame)] /\ outboundAck' \in [Peer -> Seq(Frame)]
        /\ air' \in [Peer -> [Track -> Seq(Frame)]]
        /\ handed' \in [Peer -> Seq([msg : Message, intact : BOOLEAN])]
    <3>1. [t \in Track |-> <<>>] \in [Track -> Seq(Frame)]
      OBVIOUS
    <3>2. /\ outbound' \in [Peer -> Seq(Frame)] /\ outboundAck' \in [Peer -> Seq(Frame)]
          /\ air' \in [Peer -> [Track -> Seq(Frame)]]
      BY <1>7, <3>1 DEF Restart, TypeOK
    <3>3. handed' \in [Peer -> Seq([msg : Message, intact : BOOLEAN])]
      <4> DEFINE Item == [msg : Message, intact : BOOLEAN]
      <4>1. handed \in [Peer -> Seq(Item)]
        BY DEF TypeOK
      <4>2. handed' = [handed EXCEPT ![p] = <<>>]
        BY <1>7 DEF Restart
      <4> HIDE DEF Item
      <4>3. handed' \in [Peer -> Seq(Item)]
        BY <4>1, <4>2
      <4> QED
        BY <4>3 DEF Item
    <3> QED
      BY <3>2, <3>3
  <2>4. /\ writer' \in [Peer -> {"down", "up", "done"}]
        /\ life' \in [Peer -> {"open", "closing", "closed"}]
        /\ inbound' \in [Peer -> SUBSET EntryType]
        /\ delivered' \in [Peer -> SUBSET (Nat \X Message)]
        /\ reader' \in [Peer -> [Track -> {IdleReader} \cup BusyReader]]
    BY <1>7 DEF Restart, TypeOK, EntryType
  <2> QED
    BY <1>7, <2>2, <2>3, <2>4 DEF Restart, TypeOK, EntryType
<1> QED
  BY <1>1, <1>2, <1>3, <1>4, <1>5, <1>6, <1>7

(* So does a step of the goroutine of a track.                             *)
LEMMA ReaderTypes ==
  ASSUME TypeOK, NEW p \in Peer, NEW t \in Track,
         \/ ReceiveAck(p, t) \/ ReceiveDuplicate(p, t) \/ ReceiveFragment(p, t)
         \/ ReceiveDamaged(p, t) \/ ReceiveMessage(p, t)
         \/ HandToUpper(p, t) \/ SendAck(p, t)
  PROVE  TypeOK'
<1> USE DEF sendVars
<1> DEFINE f == Head(air[p][t])
<1>0. ASSUME Read(p, t)
      PROVE  /\ f.seq \in Nat /\ f.msg \in Message
             /\ air' \in [Peer -> [Track -> Seq(Frame)]]
             /\ Upsert(p, f) \in EntryType
             /\ OthersInbound(p, f) \subseteq EntryType
  <2>1. f \in Frame
    BY <1>0, ReadFrame
  <2>2. OthersInbound(p, f) \subseteq EntryType
    BY DEF OthersInbound, TypeOK, EntryType
  <2>3. f.seq \in Nat /\ f.msg \in Message
    BY <2>1 DEF Frame
  <2> QED
    BY <1>0, <2>1, <2>2, <2>3, ReadFrame, UpsertType
<1>1. CASE ReceiveAck(p, t)
  <2>1. f.msg \in Message /\ air' \in [Peer -> [Track -> Seq(Frame)]]
    BY <1>0, <1>1 DEF ReceiveAck
  <2>2. tx' \in [Peer -> TxType]
    <3>1. CASE WaiterTakes(p, f)
      <4>1. tx[p] \in BusyTx
        BY <3>1, BusySender DEF WaiterTakes
      <4>2. [tx[p] EXCEPT !.waiter = f.msg] \in TxType
        BY <2>1, <4>1 DEF BusyTx, TxType
      <4>3. tx' = [tx EXCEPT ![p] = [tx[p] EXCEPT !.waiter = f.msg]]
        BY <1>1, <3>1 DEF ReceiveAck
      <4> HIDE DEF f
      <4> QED
        BY <4>2, <4>3 DEF TypeOK, TxType
    <3>2. CASE ~WaiterTakes(p, f)
      BY <1>1, <3>2 DEF ReceiveAck, TypeOK, TxType
    <3> QED
      BY <3>1, <3>2
  <2> QED
    BY <1>1, <2>1, <2>2 DEF ReceiveAck, TypeOK, TxType, recvVars
<1>2. ASSUME NEW g, g.seq \in Nat, g.msg \in Message, ToAck(p, t, g)
      PROVE  reader' \in [Peer -> [Track -> {IdleReader} \cup BusyReader]]
  <2>1. [pc |-> "ack", seq |-> g.seq, msg |-> g.msg, intact |-> TRUE] \in BusyReader
    BY <1>2 DEF BusyReader
  <2> QED
    BY <1>2, <2>1 DEF ToAck, TypeOK
<1>3. CASE ReceiveDuplicate(p, t)
  <2>1. reader' \in [Peer -> [Track -> {IdleReader} \cup BusyReader]]
    BY <1>0, <1>2, <1>3 DEF ReceiveDuplicate
  <2>2. air' \in [Peer -> [Track -> Seq(Frame)]]
    BY <1>0, <1>3 DEF ReceiveDuplicate
  <2> QED
    BY <1>3, <2>1, <2>2 DEF ReceiveDuplicate, TypeOK
<1>4. CASE ReceiveFragment(p, t)
  <2>1. inbound' \in [Peer -> SUBSET EntryType] /\ air' \in [Peer -> [Track -> Seq(Frame)]]
    BY <1>0, <1>4 DEF ReceiveFragment, TypeOK, EntryType
  <2> QED
    BY <1>4, <2>1 DEF ReceiveFragment, TypeOK, EntryType
<1>5. CASE ReceiveDamaged(p, t)
  <2>1. inbound' \in [Peer -> SUBSET EntryType] /\ air' \in [Peer -> [Track -> Seq(Frame)]]
    BY <1>0, <1>5 DEF ReceiveDamaged, TypeOK, EntryType
  <2> QED
    BY <1>5, <2>1 DEF ReceiveDamaged, TypeOK, EntryType
<1>6. CASE ReceiveMessage(p, t)
  <2>1. inbound' \in [Peer -> SUBSET EntryType] /\ air' \in [Peer -> [Track -> Seq(Frame)]]
    BY <1>0, <1>6 DEF ReceiveMessage, TypeOK, EntryType
  <2>2. f.seq \in Nat /\ f.msg \in Message /\ Upsert(p, f).intact \in BOOLEAN
    BY <1>0, <1>6 DEF ReceiveMessage, EntryType
  <2>3. Remember(p, f) \subseteq Nat \X Message
    BY <2>2 DEF Remember, TypeOK
  <2>4. delivered' \in [Peer -> SUBSET (Nat \X Message)] /\ accepted' \subseteq Message
    BY <1>6, <2>2, <2>3 DEF ReceiveMessage, TypeOK
  <2>5. [pc |-> "hand", seq |-> f.seq, msg |-> f.msg, intact |-> Upsert(p, f).intact] \in BusyReader
    BY <2>2 DEF BusyReader
  <2>6. reader' \in [Peer -> [Track -> {IdleReader} \cup BusyReader]]
    BY <1>6, <2>5 DEF ReceiveMessage, TypeOK
  <2> QED
    BY <1>6, <2>1, <2>4, <2>6 DEF ReceiveMessage, TypeOK, EntryType
<1>7. CASE HandToUpper(p, t)
  <2>1. reader[p][t] \in BusyReader
    BY <1>7, BusyGoroutine DEF HandToUpper
  <2>2. reader' \in [Peer -> [Track -> {IdleReader} \cup BusyReader]]
    BY <1>2, <1>7, <2>1 DEF HandToUpper, BusyReader
  <2>3. [msg |-> reader[p][t].msg, intact |-> reader[p][t].intact] \in [msg : Message, intact : BOOLEAN]
    BY <2>1 DEF BusyReader
  <2>4. handed' \in [Peer -> Seq([msg : Message, intact : BOOLEAN])]
    <3> DEFINE Item == [msg : Message, intact : BOOLEAN]
               x == [msg |-> reader[p][t].msg, intact |-> reader[p][t].intact]
    <3>1. handed \in [Peer -> Seq(Item)] /\ handed[p] \in Seq(Item)
      BY DEF TypeOK
    <3>2. x \in Item
      BY <2>3
    <3>3. handed' = [handed EXCEPT ![p] = Append(handed[p], x)]
      BY <1>7 DEF HandToUpper
    <3> HIDE DEF Item, x
    <3>4. Append(handed[p], x) \in Seq(Item)
      BY <3>1, <3>2
    <3>5. handed' \in [Peer -> Seq(Item)]
      BY <3>1, <3>3, <3>4
    <3> QED
      BY <3>5 DEF Item
  <2> QED
    BY <1>7, <2>2, <2>4 DEF HandToUpper, TypeOK
<1>8. CASE SendAck(p, t)
  <2>1. reader[p][t] \in BusyReader
    BY <1>8, BusyGoroutine DEF SendAck
  <2>2. AckFrame(reader[p][t].seq, reader[p][t].msg) \in Frame
    BY <2>1 DEF BusyReader, AckFrame, Frame
  <2>3. outboundAck' \in [Peer -> Seq(Frame)]
    <3>1. outboundAck \in [Peer -> Seq(Frame)] /\ outboundAck[p] \in Seq(Frame)
      BY DEF TypeOK
    <3>2. Append(outboundAck[p], AckFrame(reader[p][t].seq, reader[p][t].msg)) \in Seq(Frame)
      BY <2>2, <3>1
    <3> QED
      BY <1>8, <3>1, <3>2 DEF SendAck
  <2>4. reader' \in [Peer -> [Track -> {IdleReader} \cup BusyReader]]
    BY <1>8 DEF SendAck, TypeOK
  <2> QED
    BY <1>8, <2>3, <2>4 DEF SendAck, TypeOK
<1> QED
  BY <1>1, <1>3, <1>4, <1>5, <1>6, <1>7, <1>8

(* The initial state has the types.                                        *)
LEMMA InitType == Init => TypeOK
<1> SUFFICES ASSUME Init PROVE TypeOK
  OBVIOUS
<1>1. [p \in Peer |-> [t \in Track |-> <<>>]] \in [Peer -> [Track -> Seq(Frame)]]
  OBVIOUS
<1>2. handed \in [Peer -> Seq([msg : Message, intact : BOOLEAN])]
  BY DEF Init
<1>3. restarts \in [Peer -> 0..MaxRestarts]
  BY BoundAssumption DEF Init
<1> QED
  BY <1>1, <1>2, <1>3 DEF Init, TypeOK, Status

(* Every step, a stuttering one too, preserves them.                       *)
LEMMA StepType == TypeOK /\ [Next]_vars => TypeOK'
<1> SUFFICES ASSUME TypeOK, [Next]_vars PROVE TypeOK'
  OBVIOUS
<1>1. CASE Next
  BY <1>1, NextCases, SendTypes, PeerTypes, ReaderTypes
<1>2. CASE UNCHANGED vars
  BY <1>2 DEF vars, sendVars, recvVars, TypeOK
<1> QED
  BY <1>1, <1>2

(* Every state of every behaviour has the types TypeOK names.              *)
THEOREM TypeCorrect == Spec => []TypeOK
BY InitType, StepType, PTL DEF Spec

-----------------------------------------------------------------------------
(* AckedIsAccepted is not inductive: AckTrail follows an acknowledgement   *)
(* back from the waiter over the air and the queue to the table entry that *)
(* caused it.  The two lemmas are about the queues of the trail.           *)

(* The frames a queue keeps when its head is taken.                        *)
LEMMA TailOf ==
  ASSUME NEW S, NEW s \in Seq(S), s # <<>>
  PROVE  /\ Len(Tail(s)) = Len(s) - 1
         /\ Head(s) = s[1] /\ 1 \in 1..Len(s)
         /\ \A i \in 1..Len(Tail(s)) : i + 1 \in 1..Len(s) /\ Tail(s)[i] = s[i + 1]
OBVIOUS

(* The frames of a queue to which one is appended.                         *)
LEMMA AppendOf ==
  ASSUME NEW S, NEW s \in Seq(S), NEW x \in S, NEW i \in 1..Len(Append(s, x))
  PROVE  (i \in 1..Len(s) /\ Append(s, x)[i] = s[i]) \/ Append(s, x)[i] = x
OBVIOUS

(* A transmission keeps the trail: only an acknowledgement that has one is *)
(* put on the air as one, and damage never makes one.                      *)
LEMMA TransmitTrail ==
  ASSUME TypeOK, AirTrail, NEW p \in Peer, NEW f \in Frame, Transmit(p, f),
         f.typ = "ack" => f.msg \in accepted, accepted' = accepted
  PROVE  AirTrail'
<1> DEFINE q == Other[p]
<1>0. q \in Peer
  BY PeerAssumption
<1>1. PICK heard \in [Track -> UNION {Arrival(p, q, t, f) : t \in Track}] :
         /\ \A t \in Track : heard[t] \in Arrival(p, q, t, f)
         /\ air' = [air EXCEPT ![q] = heard]
  BY DEF Transmit
<1>2. ASSUME NEW t \in Track, NEW i \in 1..Len(heard[t]), heard[t][i].typ = "ack"
      PROVE  heard[t][i].msg \in accepted
  <2>1. air[q][t] \in Seq(Frame)
    BY <1>0 DEF TypeOK
  <2>2. heard[t] = air[q][t] \/ \E g \in {f} \cup Damaged(f) : heard[t] = Append(air[q][t], g)
    BY <1>1 DEF Arrival
  <2>3. CASE heard[t] = air[q][t]
    BY <1>0, <1>2, <2>3 DEF AirTrail
  <2>4. ASSUME NEW g \in {f} \cup Damaged(f), heard[t] = Append(air[q][t], g)
        PROVE  heard[t][i].msg \in accepted
    <3>1. g = f \/ g.typ = "data"
      BY DEF Damaged
    <3>2. (i \in 1..Len(air[q][t]) /\ heard[t][i] = air[q][t][i]) \/ heard[t][i] = g
      BY <2>1, <2>4, <1>2
    <3> QED
      BY <1>0, <1>2, <3>1, <3>2 DEF AirTrail
  <2> QED
    BY <2>2, <2>3, <2>4
<1>3. SUFFICES ASSUME NEW r \in Peer, NEW t \in Track,
                      NEW i \in 1..Len(air'[r][t]), air'[r][t][i].typ = "ack"
               PROVE  air'[r][t][i].msg \in accepted
  BY DEF AirTrail
<1>4. CASE r = q
  <2>1. air'[r] = heard
    BY <1>0, <1>1, <1>4 DEF TypeOK
  <2> QED
    BY <1>2, <1>3, <2>1
<1>5. CASE r # q
  <2>1. air'[r] = air[r]
    BY <1>1, <1>5 DEF TypeOK
  <2> QED
    BY <1>3, <2>1 DEF AirTrail
<1> QED
  BY <1>4, <1>5

(* A read keeps the trail of the frames that stay on the air.              *)
LEMMA ReadTrail ==
  ASSUME TypeOK, AirTrail, NEW p \in Peer, NEW t \in Track, Read(p, t), accepted \subseteq accepted'
  PROVE  /\ AirTrail'
         /\ Head(air[p][t]).typ = "ack" => Head(air[p][t]).msg \in accepted
<1>1. air[p][t] \in Seq(Frame) /\ air[p][t] # <<>>
  BY DEF TypeOK, Read
<1>2. Head(air[p][t]).typ = "ack" => Head(air[p][t]).msg \in accepted
  BY <1>1, TailOf DEF AirTrail
<1>3. ASSUME NEW r \in Peer, NEW u \in Track,
             NEW i \in 1..Len(air'[r][u]), air'[r][u][i].typ = "ack"
      PROVE  air'[r][u][i].msg \in accepted
  <2>1. CASE r = p /\ u = t
    <3>1. air'[r][u] = Tail(air[p][t])
      BY <2>1 DEF Read, TypeOK
    <3>2. i + 1 \in 1..Len(air[p][t]) /\ air'[r][u][i] = air[p][t][i + 1]
      BY <1>1, <1>3, <3>1, TailOf
    <3> QED
      BY <1>3, <3>2 DEF AirTrail
  <2>2. CASE ~(r = p /\ u = t)
    <3>1. air'[r][u] = air[r][u]
      BY <2>2 DEF Read, TypeOK
    <3> QED
      BY <1>3, <3>1 DEF AirTrail
  <2> QED
    BY <2>1, <2>2
<1> QED
  BY <1>2, <1>3 DEF AirTrail

(* The application's and Send's steps: AwaitAck returns nil only for an    *)
(* acknowledgement of its own message, which has a trail.                  *)
LEMMA SendTrail ==
  ASSUME AckedInv,
         \/ \E m \in Message : CallSend(m) \/ StartSend(m)
         \/ \E p \in Peer : EnqueueFragment(p) \/ EnqueueClosed(p) \/ AwaitAck(p)
                            \/ AwaitTimeout(p) \/ AwaitClosed(p)
  PROVE  (AckedIsAccepted /\ WaiterTrail /\ QueueTrail /\ AirTrail /\ TableTrail)'
<1> USE DEF AckedInv, recvVars
<1>0. tx \in [Peer -> TxType] /\ status \in [Message -> Status]
  BY DEF TypeOK, TxType
<1>1. ASSUME accepted' = accepted, UNCHANGED <<outbound, outboundAck, air, delivered, reader>>
      PROVE  (QueueTrail /\ AirTrail /\ TableTrail)'
  BY <1>1 DEF QueueTrail, AirTrail, TableTrail
<1>2. ASSUME NEW p \in Peer, NEW r \in Status, r # "ok", ReturnSend(p, r), accepted' = accepted
      PROVE  (AckedIsAccepted /\ WaiterTrail)'
  BY <1>0, <1>2 DEF ReturnSend, AckedIsAccepted, WaiterTrail, IdleTx
<1>3. ASSUME NEW p \in Peer, NEW w \in Message \cup {NoMsg}, w # NoMsg => w \in accepted,
             tx[p] \in BusyTx, NextAttempt(p, w), accepted' = accepted
      PROVE  (AckedIsAccepted /\ WaiterTrail)'
  <2>1. CASE ReturnSend(p, "timeout")
    BY <1>2, <1>3, <2>1 DEF Status
  <2>2. CASE tx' = [tx EXCEPT ![p] = Retry(p, w)] /\ UNCHANGED status
    <3>1. Retry(p, w).waiter = w
      BY <1>3 DEF Retry, BusyTx
    <3> QED
      BY <1>0, <1>3, <2>2, <3>1 DEF AckedIsAccepted, WaiterTrail
  <2> QED
    BY <1>3, <2>1, <2>2 DEF NextAttempt
<1>4. ASSUME NEW m \in Message, CallSend(m) \/ StartSend(m)
      PROVE  (AckedIsAccepted /\ WaiterTrail /\ QueueTrail /\ AirTrail /\ TableTrail)'
  <2>1. CASE CallSend(m)
    BY <1>0, <1>1, <2>1 DEF CallSend, AckedIsAccepted, WaiterTrail
  <2>2. CASE StartSend(m)
    <3>1. AckedIsAccepted' /\ WaiterTrail'
      BY <1>0, <2>2 DEF StartSend, AckedIsAccepted, WaiterTrail
    <3> QED
      BY <1>1, <2>2, <3>1 DEF StartSend
  <2> QED
    BY <1>4, <2>1, <2>2
<1>5. ASSUME NEW p \in Peer, EnqueueFragment(p)
      PROVE  (AckedIsAccepted /\ WaiterTrail /\ QueueTrail /\ AirTrail /\ TableTrail)'
  <2> DEFINE x == DataFrame(tx[p].seq, tx[p].msg, tx[p].frag)
  <2>1. tx[p] \in BusyTx
    BY <1>5, BusySender DEF EnqueueFragment
  <2>2. NextFragment(p).waiter = tx[p].waiter
    BY <2>1 DEF NextFragment, BusyTx
  <2>3. AckedIsAccepted' /\ WaiterTrail'
    BY <1>0, <1>5, <2>2 DEF EnqueueFragment, AckedIsAccepted, WaiterTrail
  <2>4. x \in Frame /\ x.typ = "data"
    BY <2>1 DEF BusyTx, DataFrame, Frame
  <2>5. QueueTrail'
    <3>1. outbound \in [Peer -> Seq(Frame)] /\ outbound' = [outbound EXCEPT ![p] = Append(outbound[p], x)]
      BY <1>5 DEF EnqueueFragment, TypeOK
    <3> HIDE DEF x
    <3>2. ASSUME NEW q \in Peer, NEW i \in 1..Len(outbound'[q]) PROVE outbound'[q][i].typ = "data"
      <4>1. CASE q = p
        <5>1. outbound[p] \in Seq(Frame) /\ outbound'[q] = Append(outbound[p], x)
          BY <3>1, <4>1
        <5>2. (i \in 1..Len(outbound[p]) /\ outbound'[q][i] = outbound[p][i]) \/ outbound'[q][i] = x
          BY <2>4, <3>2, <5>1, AppendOf
        <5> QED
          BY <2>4, <5>2 DEF QueueTrail
      <4>2. CASE q # p
        BY <3>1, <3>2, <4>2 DEF QueueTrail
      <4> QED
        BY <4>1, <4>2
    <3> QED
      BY <1>5, <3>2 DEF EnqueueFragment, QueueTrail
  <2>6. (AirTrail /\ TableTrail)'
    BY <1>5 DEF EnqueueFragment, AirTrail, TableTrail
  <2> QED
    BY <2>3, <2>5, <2>6
<1>6. ASSUME NEW p \in Peer, EnqueueClosed(p) \/ AwaitClosed(p)
      PROVE  (AckedIsAccepted /\ WaiterTrail /\ QueueTrail /\ AirTrail /\ TableTrail)'
  BY <1>1, <1>2, <1>6 DEF EnqueueClosed, AwaitClosed, Status
<1>7. ASSUME NEW p \in Peer, AwaitTimeout(p)
      PROVE  (AckedIsAccepted /\ WaiterTrail /\ QueueTrail /\ AirTrail /\ TableTrail)'
  <2>1. tx[p] \in BusyTx
    BY <1>7, BusySender DEF AwaitTimeout
  <2>2. tx[p].waiter \in Message \cup {NoMsg} /\ (tx[p].waiter # NoMsg => tx[p].waiter \in accepted)
    BY <2>1 DEF BusyTx, WaiterTrail
  <2> QED
    BY <1>1, <1>3, <1>7, <2>1, <2>2 DEF AwaitTimeout
<1>8. ASSUME NEW p \in Peer, AwaitAck(p)
      PROVE  (AckedIsAccepted /\ WaiterTrail /\ QueueTrail /\ AirTrail /\ TableTrail)'
  <2>1. tx[p] \in BusyTx
    BY <1>8, BusySender DEF AwaitAck
  <2>2. CASE AckMatches(p)
    <3>1. tx[p].msg \in accepted
      BY <1>8, <2>2 DEF AwaitAck, AckMatches, WaiterTrail
    <3>2. AckedIsAccepted' /\ WaiterTrail'
      BY <1>0, <1>8, <2>2, <3>1 DEF AwaitAck, ReturnSend, AckedIsAccepted, WaiterTrail, IdleTx
    <3> QED
      BY <1>1, <1>8, <3>2 DEF AwaitAck
  <2>3. CASE ~AckMatches(p)
    BY <1>1, <1>3, <1>8, <2>1, <2>3 DEF AwaitAck
  <2> QED
    BY <2>2, <2>3
<1> QED
  BY <1>4, <1>5, <1>6, <1>7, <1>8

(* The writer, Connect, Close and Restart.                                 *)
LEMMA PeerTrail ==
  ASSUME AckedInv, NEW p \in Peer,
         \/ Connect(p) \/ WriteAck(p) \/ WriteData(p) \/ WriterExit(p)
         \/ CloseBegin(p) \/ CloseFinish(p) \/ Restart(p)
  PROVE  (AckedIsAccepted /\ WaiterTrail /\ QueueTrail /\ AirTrail /\ TableTrail)'
<1> USE DEF AckedInv, recvVars, sendVars
<1>1. CASE Connect(p) \/ WriterExit(p) \/ CloseBegin(p) \/ CloseFinish(p)
  BY <1>1 DEF Connect, WriterExit, CloseBegin, CloseFinish,
              AckedIsAccepted, WaiterTrail, QueueTrail, AirTrail, TableTrail
<1>2. CASE WriteAck(p)
  <2>1. outboundAck[p] \in Seq(Frame) /\ outboundAck[p] # <<>>
    BY <1>2 DEF WriteAck, TypeOK
  <2>2. Head(outboundAck[p]) \in Frame /\ Head(outboundAck[p]).msg \in accepted
    BY <2>1, TailOf DEF QueueTrail
  <2>3. AirTrail'
    BY <1>2, <2>2, TransmitTrail DEF WriteAck
  <2>4. ASSUME NEW q \in Peer, NEW i \in 1..Len(outboundAck'[q])
        PROVE  outboundAck'[q][i].msg \in accepted
    <3>1. CASE q = p
      <4>1. outboundAck'[q] = Tail(outboundAck[p])
        BY <1>2, <3>1 DEF WriteAck, TypeOK
      <4>2. i + 1 \in 1..Len(outboundAck[p]) /\ outboundAck'[q][i] = outboundAck[p][i + 1]
        BY <2>1, <2>4, <4>1, TailOf
      <4> QED
        BY <4>2 DEF QueueTrail
    <3>2. CASE q # p
      BY <1>2, <2>4, <3>2 DEF WriteAck, TypeOK, QueueTrail
    <3> QED
      BY <3>1, <3>2
  <2> QED
    BY <1>2, <2>3, <2>4 DEF WriteAck, AckedIsAccepted, WaiterTrail, QueueTrail, TableTrail
<1>3. CASE WriteData(p)
  <2>1. outbound[p] \in Seq(Frame) /\ outbound[p] # <<>>
    BY <1>3 DEF WriteData, TypeOK
  <2>2. Head(outbound[p]) \in Frame /\ Head(outbound[p]).typ = "data"
    BY <2>1, TailOf DEF QueueTrail
  <2>3. AirTrail'
    BY <1>3, <2>2, TransmitTrail DEF WriteData
  <2>4. ASSUME NEW q \in Peer, NEW i \in 1..Len(outbound'[q])
        PROVE  outbound'[q][i].typ = "data"
    <3>1. CASE q = p
      <4>1. outbound'[q] = Tail(outbound[p])
        BY <1>3, <3>1 DEF WriteData, TypeOK
      <4>2. i + 1 \in 1..Len(outbound[p]) /\ outbound'[q][i] = outbound[p][i + 1]
        BY <2>1, <2>4, <4>1, TailOf
      <4> QED
        BY <4>2 DEF QueueTrail
    <3>2. CASE q # p
      BY <1>3, <2>4, <3>2 DEF WriteData, TypeOK, QueueTrail
    <3> QED
      BY <3>1, <3>2
  <2> QED
    BY <1>3, <2>3, <2>4 DEF WriteData, AckedIsAccepted, WaiterTrail, QueueTrail, TableTrail
<1>4. CASE Restart(p)
  <2>1. AckedIsAccepted'
    BY <1>4 DEF Restart, AckedIsAccepted
  <2>2. WaiterTrail'
    BY <1>4 DEF Restart, WaiterTrail, TypeOK, IdleTx
  <2>3. QueueTrail'
    BY <1>4 DEF Restart, QueueTrail, TypeOK
  <2>4. AirTrail'
    BY <1>4 DEF Restart, AirTrail, TypeOK
  <2>5. TableTrail'
    BY <1>4 DEF Restart, TableTrail, TypeOK, IdleReader
  <2> QED
    BY <2>1, <2>2, <2>3, <2>4, <2>5
<1> QED
  BY <1>1, <1>2, <1>3, <1>4

(* The goroutines of the tracks: the table entry is the root of a trail.   *)
LEMMA ReaderTrail ==
  ASSUME AckedInv, NEW p \in Peer, NEW t \in Track,
         \/ ReceiveAck(p, t) \/ ReceiveDuplicate(p, t) \/ ReceiveFragment(p, t)
         \/ ReceiveDamaged(p, t) \/ ReceiveMessage(p, t)
         \/ HandToUpper(p, t) \/ SendAck(p, t)
  PROVE  (AckedIsAccepted /\ WaiterTrail /\ QueueTrail /\ AirTrail /\ TableTrail)'
<1> USE DEF AckedInv, sendVars
<1> DEFINE f == Head(air[p][t])
<1>0. reader \in [Peer -> [Track -> {IdleReader} \cup BusyReader]]
  BY DEF TypeOK
<1>1. ASSUME NEW g, g.msg \in accepted, ToAck(p, t, g)
      PROVE  \A q \in Peer, u \in Track : reader'[q][u].pc # "read" => reader'[q][u].msg \in accepted
  BY <1>0, <1>1 DEF ToAck, TableTrail
<1>2. CASE ReceiveAck(p, t)
  <2>1. AirTrail' /\ f.msg \in accepted
    <3>1. Read(p, t) /\ f.typ = "ack" /\ accepted' = accepted
      BY <1>2 DEF ReceiveAck, recvVars
    <3> QED
      BY <3>1, ReadTrail
  <2>2. WaiterTrail'
    <3>1. CASE WaiterTakes(p, f)
      <4>1. tx[p] \in BusyTx
        BY <3>1, BusySender DEF WaiterTakes
      <4>2. [tx[p] EXCEPT !.waiter = f.msg].waiter = f.msg
        BY <4>1 DEF BusyTx
      <4>3. tx' = [tx EXCEPT ![p] = [tx[p] EXCEPT !.waiter = f.msg]] /\ accepted' = accepted
        BY <1>2, <3>1 DEF ReceiveAck, recvVars
      <4> HIDE DEF f
      <4> QED
        BY <2>1, <4>2, <4>3 DEF WaiterTrail, TypeOK
    <3>2. CASE ~WaiterTakes(p, f)
      BY <1>2, <3>2 DEF ReceiveAck, recvVars, WaiterTrail
    <3> QED
      BY <3>1, <3>2
  <2> QED
    BY <1>2, <2>1, <2>2 DEF ReceiveAck, recvVars, AckedIsAccepted, QueueTrail, TableTrail
<1>3. CASE ReceiveDuplicate(p, t)
  <2>1. AirTrail'
    BY <1>3, ReadTrail DEF ReceiveDuplicate
  <2>2. f.msg \in accepted
    BY <1>3 DEF ReceiveDuplicate, IsDelivered, TableTrail
  <2>3. TableTrail'
    BY <1>1, <1>3, <2>2 DEF ReceiveDuplicate, TableTrail
  <2> QED
    BY <1>3, <2>1, <2>3 DEF ReceiveDuplicate, AckedIsAccepted, WaiterTrail, QueueTrail
<1>4. CASE ReceiveFragment(p, t) \/ ReceiveDamaged(p, t)
  <2>1. AirTrail'
    BY <1>4, ReadTrail DEF ReceiveFragment, ReceiveDamaged
  <2> QED
    BY <1>4, <2>1 DEF ReceiveFragment, ReceiveDamaged,
                            AckedIsAccepted, WaiterTrail, QueueTrail, TableTrail
<1>5. CASE ReceiveMessage(p, t)
  <2>1. accepted' = accepted \cup {f.msg}
    BY <1>5 DEF ReceiveMessage
  <2>2. AirTrail'
    BY <1>5, <2>1, ReadTrail DEF ReceiveMessage
  <2>3. \A q \in Peer : \A d \in delivered'[q] : d[2] \in accepted'
    <3>1. \A d \in Remember(p, f) : d[2] \in accepted'
      BY <2>1 DEF Remember, TableTrail
    <3>2. delivered' = [delivered EXCEPT ![p] = Remember(p, f)]
      BY <1>5 DEF ReceiveMessage
    <3> QED
      BY <2>1, <3>1, <3>2 DEF TableTrail, TypeOK
  <2>4. \A q \in Peer, u \in Track : reader'[q][u].pc # "read" => reader'[q][u].msg \in accepted'
    BY <1>0, <1>5, <2>1 DEF ReceiveMessage, TableTrail
  <2> QED
    BY <1>5, <2>1, <2>2, <2>3, <2>4
          DEF ReceiveMessage, AckedIsAccepted, WaiterTrail, QueueTrail, TableTrail
<1>6. CASE HandToUpper(p, t)
  <2>1. reader[p][t].msg \in accepted
    BY <1>6 DEF HandToUpper, TableTrail
  <2>2. TableTrail'
    BY <1>1, <1>6, <2>1 DEF HandToUpper, TableTrail
  <2> QED
    BY <1>6, <2>2 DEF HandToUpper, AckedIsAccepted, WaiterTrail, QueueTrail, AirTrail
<1>7. CASE SendAck(p, t)
  <2> DEFINE x == AckFrame(reader[p][t].seq, reader[p][t].msg)
  <2>1. reader[p][t] \in BusyReader /\ reader[p][t].msg \in accepted
    BY <1>7, BusyGoroutine DEF SendAck, TableTrail
  <2>2. x \in Frame /\ x.msg \in accepted
    BY <2>1 DEF BusyReader, AckFrame, Frame
  <2>3. TableTrail'
    BY <1>0, <1>7 DEF SendAck, TableTrail, IdleReader
  <2>4. QueueTrail'
    <3>1. outboundAck' = [outboundAck EXCEPT ![p] = Append(outboundAck[p], x)] \/ UNCHANGED outboundAck
      BY <1>7 DEF SendAck
    <3>2. outboundAck \in [Peer -> Seq(Frame)]
      BY DEF TypeOK
    <3> HIDE DEF x
    <3>3. ASSUME NEW q \in Peer, NEW i \in 1..Len(outboundAck'[q])
          PROVE  outboundAck'[q][i].msg \in accepted
      <4>1. CASE outboundAck'[q] = outboundAck[q]
        BY <3>3, <4>1 DEF QueueTrail
      <4>2. CASE q = p /\ outboundAck'[q] = Append(outboundAck[p], x)
        <5>1. (i \in 1..Len(outboundAck[p]) /\ outboundAck'[q][i] = outboundAck[p][i])
              \/ outboundAck'[q][i] = x
          BY <2>2, <3>2, <3>3, <4>2, AppendOf
        <5> QED
          BY <2>2, <5>1 DEF QueueTrail
      <4> QED
        BY <3>1, <3>2, <4>1, <4>2
    <3> QED
      BY <1>7, <3>3 DEF SendAck, QueueTrail
  <2> QED
    BY <1>7, <2>3, <2>4 DEF SendAck, AckedIsAccepted, WaiterTrail, AirTrail
<1> QED
  BY <1>2, <1>3, <1>4, <1>5, <1>6, <1>7

(* The trail is there at first and every step keeps it.                    *)
LEMMA AckedInit == Init => AckedInv
<1> SUFFICES ASSUME Init PROVE AckedInv
  OBVIOUS
<1>1. TypeOK
  BY InitType
<1> QED
  BY <1>1 DEF Init, AckedInv, AckedIsAccepted, WaiterTrail, QueueTrail, AirTrail, TableTrail,
                    IdleTx, IdleReader

(* So is it for a stuttering step.                                         *)
LEMMA AckedStep == AckedInv /\ [Next]_vars => AckedInv'
<1> SUFFICES ASSUME AckedInv, [Next]_vars PROVE AckedInv'
  OBVIOUS
<1>1. TypeOK'
  BY StepType DEF AckedInv
<1>2. CASE Next
  BY <1>1, <1>2, NextCases, SendTrail, PeerTrail, ReaderTrail DEF AckedInv
<1>3. CASE UNCHANGED vars
  BY <1>1, <1>3 DEF vars, sendVars, recvVars, AckedInv,
                    AckedIsAccepted, WaiterTrail, QueueTrail, AirTrail, TableTrail
<1> QED
  BY <1>2, <1>3

(* A Send that returned nil was for a message its peer reassembled,        *)
(* checked and marked as delivered, whatever was lost, damaged, repeated,  *)
(* or restarted, on any number of tracks.                                  *)
THEOREM AckedMeansAccepted == Spec => []AckedIsAccepted
<1>1. AckedInv => AckedIsAccepted
  BY DEF AckedInv
<1> QED
  BY <1>1, AckedInit, AckedStep, PTL DEF Spec
=============================================================================
