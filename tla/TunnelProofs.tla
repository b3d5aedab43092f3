---------------------------- MODULE TunnelProofs ----------------------------
(***************************************************************************)
(* TunnelStreams never mixes two connections of one client session, and    *)
(* tells a connection of the first session of success only after its own   *)
(* target was dialed, for any number of connections and of sessions.       *)
(*                                                                         *)
(* The argument: everything that is ever put together, a frame and its     *)
(* stream, a stream and its tunnel, two tunnels that met, has the number   *)
(* of a stream in common (Frames, Streams, Meetings); and two tunnels with *)
(* the same number are of different sessions (Unique).                     *)
(***************************************************************************)
EXTENDS TunnelStreams, TLAPS

(* Only the last session a side made is open, and one can still be made    *)
(* where there is none.                                                    *)
Sessions ==
  /\ clientSession \in {0, clientMade} /\ (clientSession = 0 => clientMade < MaxClientSessions)
  /\ serverSession \in {0, serverMade} /\ (serverSession = 0 => serverMade < MaxServerSessions)

(* A tunnel gets its number when it opens its stream, and the session      *)
(* counts the numbers it gave.                                             *)
Numbers ==
  \A t \in Tunnel :
    /\ tunnel[t].phase \in {"new", "picked"} => tunnel[t].sid = 0
    /\ tunnel[t].phase = "new" => tunnel[t].session = 0
    /\ tunnel[t].phase \in {"opened", "asked", "up"} => tunnel[t].sid # 0
    /\ tunnel[t].sid # 0 => tunnel[t].session # 0
    /\ tunnel[t].session <= clientMade
    /\ tunnel[t].session = clientSession => tunnel[t].sid <= lastSid

(* No number is given twice in a session.                                  *)
Unique ==
  \A t, u \in Tunnel :
    t # u /\ tunnel[t].sid # 0 /\ tunnel[t].sid = tunnel[u].sid =>
      tunnel[t].session # tunnel[u].session

(* A frame carries the number of its tunnel.                               *)
Owned(q, tun) == \A i \in 1..Len(q) : tun[q[i].tun].sid = q[i].sid
Frames == Owned(toServer, tunnel) /\ Owned(toClient, tunnel)

(* A stream of the server belongs to a tunnel of the same number.          *)
Streams ==
  \A s \in DOMAIN stream :
    /\ stream[s].phase \in {"dialing", "up"} => stream[s].tun \in Tunnel
    /\ stream[s].tun # NoTunnel => tunnel[stream[s].tun].sid = s
    /\ \A u \in stream[s].early : tunnel[u].sid = s
    /\ stream[s].phase = "up" => stream[s].tun \in dialed

(* Tunnels whose bytes met have the same number.                           *)
Meetings ==
  \A t \in Tunnel : \A u \in reached[t] \cup came[t] :
    tunnel[t].sid # 0 /\ tunnel[t].sid = tunnel[u].sid

(* The server answers only for what it dialed.                             *)
Answers == \A i \in 1..Len(toClient) : toClient[i].tun \in dialed

TunnelInv ==
  /\ TypeOK /\ Sessions /\ Numbers /\ Unique /\ Frames /\ Streams /\ Meetings /\ Answers
  /\ SuccessMeansDialed

-----------------------------------------------------------------------------
(* Queues.                                                                 *)

(* What is left of a queue has the type and the frames of the queue.       *)
LEMMA Parts ==
  ASSUME NEW q \in Seq(Frame)
  PROVE  /\ q # <<>> => /\ Head(q) \in Frame /\ Head(q) = q[1] /\ 1 \in 1..Len(q)
                        /\ Tail(q) \in Seq(Frame)
                        /\ \A i \in 1..Len(Tail(q)) : i + 1 \in 1..Len(q) /\ Tail(q)[i] = q[i + 1]
         /\ \A n \in 0..Len(q) : /\ SubSeq(q, 1, n) \in Seq(Frame)
                                 /\ \A i \in 1..Len(SubSeq(q, 1, n)) :
                                      i \in 1..Len(q) /\ SubSeq(q, 1, n)[i] = q[i]
<1>1. ASSUME q # <<>>
      PROVE  /\ Head(q) \in Frame /\ Head(q) = q[1] /\ 1 \in 1..Len(q) /\ Tail(q) \in Seq(Frame)
             /\ \A i \in 1..Len(Tail(q)) : i + 1 \in 1..Len(q) /\ Tail(q)[i] = q[i + 1]
  BY <1>1
<1>2. ASSUME NEW n \in 0..Len(q)
      PROVE  /\ SubSeq(q, 1, n) \in Seq(Frame)
             /\ \A i \in 1..Len(SubSeq(q, 1, n)) : i \in 1..Len(q) /\ SubSeq(q, 1, n)[i] = q[i]
  OBVIOUS
<1> QED
  BY <1>1, <1>2

(* A queue to which a frame is appended.                                   *)
LEMMA Longer ==
  ASSUME NEW q \in Seq(Frame), NEW f \in Frame
  PROVE  /\ Append(q, f) \in Seq(Frame)
         /\ \A i \in 1..Len(Append(q, f)) :
              (i \in 1..Len(q) /\ Append(q, f)[i] = q[i]) \/ Append(q, f)[i] = f
OBVIOUS

(* Frames stay owned when tunnels keep the numbers they have.              *)
LEMMA StaysOwned ==
  ASSUME NEW q \in Seq(Frame), NEW tun, NEW later, Owned(q, tun),
         \A t \in Tunnel : tun[t].sid # 0 => later[t].sid = tun[t].sid
  PROVE  Owned(q, later)
<1> SUFFICES ASSUME NEW i \in 1..Len(q) PROVE later[q[i].tun].sid = q[i].sid
  BY DEF Owned
<1>1. q[i] \in Frame
  OBVIOUS
<1> QED
  BY <1>1 DEF Owned, Frame, Sid

-----------------------------------------------------------------------------
(* The client.                                                             *)

(* What is left to show of a step of the client, which may append to       *)
(* toServer and gives numbers only to tunnels that have none.              *)
LEMMA ClientKeeps ==
  ASSUME TunnelInv, TypeOK', Sessions', Numbers', Unique', SuccessMeansDialed',
         \A t \in Tunnel : tunnel[t].sid # 0 => tunnel'[t].sid = tunnel[t].sid,
         Owned(toServer', tunnel'),
         UNCHANGED <<stream, toClient, dialed, reached, came>>
  PROVE  TunnelInv'
<1> USE DEF TunnelInv
<1>1. Frames'
  BY StaysOwned DEF Frames, TypeOK
<1>2. Streams'
  BY SMTT(30), TunnelAssumption DEF Streams, TypeOK, Sid
<1>3. Meetings'
  BY DEF Meetings, TypeOK
<1> QED
  BY <1>1, <1>2, <1>3 DEF Answers

(* Reading the session.                                                    *)
LEMMA PickKeeps ==
  ASSUME TunnelInv, NEW t \in Tunnel, PickSession(t)
  PROVE  TunnelInv'
<1> USE DEF TunnelInv
<1>1. UNCHANGED <<client, server, stream, toServer, toClient, dialed, reached, came>>
  BY DEF PickSession
<1>2. \A u \in Tunnel : u # t => tunnel'[u] = tunnel[u]
  BY DEF PickSession, TypeOK
<1>3. /\ tunnel'[t].phase \in {"over", "picked"} /\ tunnel'[t].session = clientSession
      /\ tunnel'[t].phase = "picked" => clientSession # 0
  BY DEF PickSession, TypeOK
<1>4. tunnel[t].sid = 0 /\ tunnel'[t].sid = 0
  BY DEF PickSession, TypeOK, Numbers
<1>5. tunnel' \in [Tunnel -> [phase : Phases, session : 0..MaxClientSessions, sid : Nat]]
  <2> DEFINE phase == IF clientSession = 0 THEN "over" ELSE "picked"
             phased == [tunnel EXCEPT ![t].phase = phase]
  <2>1. phase \in Phases
    BY DEF Phases
  <2>2. phased \in [Tunnel -> [phase : Phases, session : 0..MaxClientSessions, sid : Nat]]
    BY ZenonT(60), <2>1 DEF TypeOK
  <2>3. tunnel' = [phased EXCEPT ![t].session = clientSession]
    BY DEF PickSession, TypeOK
  <2>4. clientSession \in 0..MaxClientSessions
    BY DEF TypeOK
  <2> HIDE DEF phase, phased, TunnelInv
  <2> QED
    BY <2>2, <2>3, <2>4
<1>6. TypeOK'
  BY <1>1, <1>2, <1>3, <1>5 DEF TypeOK, client, server
<1>7. Sessions' /\ Numbers'
  <2>1. Sessions'
    BY <1>1 DEF Sessions, client, server
  <2>2. clientMade' = clientMade /\ lastSid' = lastSid /\ clientSession' = clientSession
    BY <1>1 DEF client
  <2>3. clientSession <= clientMade /\ 0 <= lastSid
    BY DEF Sessions, TypeOK
  <2> QED
    BY <1>2, <1>3, <1>4, <2>1, <2>2, <2>3 DEF Numbers
<1>8. Unique'
  BY <1>2, <1>4 DEF Unique
<1>9. SuccessMeansDialed'
  BY <1>1, <1>2, <1>3 DEF SuccessMeansDialed
<1>10. \A u \in Tunnel : tunnel[u].sid # 0 => tunnel'[u].sid = tunnel[u].sid
  BY <1>2, <1>4
<1>11. Owned(toServer', tunnel')
  BY <1>1, <1>10, StaysOwned DEF Frames, TypeOK
<1> QED
  BY <1>1, <1>6, <1>7, <1>8, <1>9, <1>10, <1>11, ClientKeeps

(* The next number is new in the session.                                  *)
LEMMA OpenKeeps ==
  ASSUME TunnelInv, NEW t \in Tunnel, OpenStream(t)
  PROVE  TunnelInv'
<1> USE DEF TunnelInv
<1> DEFINE f == [cmd |-> "syn", sid |-> NextSid, tun |-> t]
<1>1. /\ tunnel[t].phase = "picked" /\ tunnel[t].sid = 0 /\ tunnel[t].session = clientSession
      /\ tunnel[t].session # 0 /\ NextSid \in Sid /\ lastSid' = NextSid
  BY DEF OpenStream, InSession, Numbers, TypeOK, NextSid, Sid
<1>2. UNCHANGED <<clientSession, clientMade, server, stream, toClient, dialed, reached, came>>
  BY DEF OpenStream
<1>3. f \in Frame /\ toServer' = Append(toServer, f) /\ f.sid = NextSid /\ f.tun = t
  BY <1>1 DEF Frame, OpenStream, Send
<1> HIDE DEF f
<1>4. \A u \in Tunnel : u # t => tunnel'[u] = tunnel[u]
  BY DEF OpenStream, TypeOK
<1>5. tunnel'[t].phase = "opened" /\ tunnel'[t].session = clientSession /\ tunnel'[t].sid = NextSid
  BY <1>1 DEF OpenStream, TypeOK
<1>6. tunnel' \in [Tunnel -> [phase : Phases, session : 0..MaxClientSessions, sid : Nat]]
  BY <1>1 DEF OpenStream, TypeOK, Phases, Sid
<1>7. TypeOK'
  <2>1. toServer' \in Seq(Frame)
    BY <1>3, Longer DEF TypeOK
  <2> QED
    BY ZenonT(60), <1>1, <1>2, <1>4, <1>5, <1>6, <2>1 DEF TypeOK, server, Sid
<1>8. Sessions' /\ Numbers'
  <2>1. Sessions'
    BY <1>2 DEF Sessions, server
  <2>2. ASSUME NEW u \in Tunnel, u # t
        PROVE  /\ tunnel'[u].phase \in {"new", "picked"} => tunnel'[u].sid = 0
               /\ tunnel'[u].phase = "new" => tunnel'[u].session = 0
               /\ tunnel'[u].phase \in {"opened", "asked", "up"} => tunnel'[u].sid # 0
               /\ tunnel'[u].sid # 0 => tunnel'[u].session # 0
               /\ tunnel'[u].session <= clientMade'
               /\ tunnel'[u].session = clientSession' => tunnel'[u].sid <= lastSid'
    <3>1. tunnel'[u] = tunnel[u] /\ lastSid <= lastSid' /\ lastSid \in Nat /\ lastSid' \in Nat
          /\ tunnel[u].sid \in Nat
      BY <1>1, <1>4, <2>2 DEF TypeOK, NextSid
    <3> QED
      BY <1>2, <3>1 DEF Numbers
  <2>3. /\ NextSid # 0 /\ clientSession <= clientMade /\ NextSid <= lastSid'
    BY <1>1 DEF Numbers, Sid, TypeOK, NextSid
  <2> QED
    BY <1>1, <1>2, <1>5, <2>1, <2>2, <2>3 DEF Numbers
<1>9. \A u \in Tunnel : tunnel[u].session = clientSession => tunnel[u].sid # NextSid
  BY DEF Numbers, TypeOK, NextSid
<1>10. Unique'
  <2> SUFFICES ASSUME NEW u \in Tunnel, NEW v \in Tunnel, u # v, tunnel'[u].sid # 0,
                      tunnel'[u].sid = tunnel'[v].sid
               PROVE  tunnel'[u].session # tunnel'[v].session
    BY DEF Unique
  <2>1. CASE u # t /\ v # t
    BY <1>4, <2>1 DEF Unique
  <2>2. CASE u = t \/ v = t
    BY <1>4, <1>5, <1>9, <2>2
  <2> QED
    BY <2>1, <2>2
<1>11. SuccessMeansDialed'
  BY <1>2, <1>4, <1>5 DEF SuccessMeansDialed
<1>12. \A u \in Tunnel : tunnel[u].sid # 0 => tunnel'[u].sid = tunnel[u].sid
  BY <1>1, <1>4
<1>13. Owned(toServer, tunnel')
  BY <1>12, StaysOwned DEF Frames, TypeOK
<1>14. Owned(toServer', tunnel')
  BY <1>3, <1>5, <1>13, Longer DEF Owned, TypeOK
<1> QED
  BY <1>2, <1>7, <1>8, <1>10, <1>11, <1>12, <1>14, ClientKeeps

(* The steps that change no more of a tunnel than its phase, and add to    *)
(* toServer no frame but one with its number.                              *)
LEMMA PhaseKeeps ==
  ASSUME TunnelInv, NEW t \in Tunnel, SendRequest(t) \/ CopyUp(t) \/ GiveUp(t) \/ EndTunnel(t)
  PROVE  TunnelInv'
<1> USE DEF TunnelInv
<1>1. UNCHANGED <<client, server, stream, toClient, dialed, reached, came>>
  BY DEF SendRequest, CopyUp, GiveUp, EndTunnel
<1>2. \A u \in Tunnel : tunnel'[u].sid = tunnel[u].sid /\ tunnel'[u].session = tunnel[u].session
  <2>1. ASSUME NEW to, Phase(t, to)
        PROVE  \A u \in Tunnel : tunnel'[u].sid = tunnel[u].sid /\ tunnel'[u].session = tunnel[u].session
    BY <2>1 DEF Phase, TypeOK
  <2> QED
    BY <2>1 DEF SendRequest, CopyUp, GiveUp, EndTunnel
<1>3. \A u \in Tunnel : tunnel'[u].phase = tunnel[u].phase
        \/ (tunnel[u].phase # "new" /\ tunnel'[u].phase = "over")
        \/ (tunnel[u].phase = "opened" /\ tunnel'[u].phase = "asked")
  BY ZenonT(60) DEF SendRequest, CopyUp, GiveUp, EndTunnel, Phase, TypeOK
<1>4. tunnel' \in [Tunnel -> [phase : Phases, session : 0..MaxClientSessions, sid : Nat]]
  BY DEF SendRequest, CopyUp, GiveUp, EndTunnel, Phase, TypeOK, Phases
<1>5. toServer' = toServer \/ \E f \in Frame :
         toServer' = Append(toServer, f) /\ f.tun = t /\ f.sid = tunnel[t].sid
  <2>1. ASSUME NEW c \in {"request", "bytes"}, tunnel[t].phase \in {"opened", "up"},
               Send([cmd |-> c, sid |-> tunnel[t].sid, tun |-> t])
        PROVE  \E f \in Frame : toServer' = Append(toServer, f) /\ f.tun = t /\ f.sid = tunnel[t].sid
    <3>1. tunnel[t].sid \in Sid
      BY <2>1 DEF TypeOK, Numbers, Sid
    <3>2. [cmd |-> c, sid |-> tunnel[t].sid, tun |-> t] \in Frame
      BY <3>1 DEF Frame
    <3> QED
      BY <2>1, <3>2 DEF Send
  <2> QED
    BY <2>1 DEF SendRequest, CopyUp, GiveUp, EndTunnel
<1>6. toServer' \in Seq(Frame) /\ Owned(toServer', tunnel')
  <2>1. Owned(toServer, tunnel')
    BY <1>2, StaysOwned DEF Frames, TypeOK
  <2>2. ASSUME NEW f \in Frame, toServer' = Append(toServer, f), f.tun = t, f.sid = tunnel[t].sid
        PROVE  toServer' \in Seq(Frame) /\ Owned(toServer', tunnel')
    BY <1>2, <2>1, <2>2, Longer DEF Owned, TypeOK
  <2> QED
    BY <1>5, <2>1, <2>2 DEF TypeOK
<1>7. TypeOK'
  BY <1>1, <1>2, <1>3, <1>4, <1>6 DEF TypeOK, client, server
<1>8. Sessions' /\ Numbers' /\ Unique'
  <2>1. Sessions' /\ clientMade' = clientMade /\ lastSid' = lastSid /\ clientSession' = clientSession
    BY <1>1 DEF Sessions, client, server
  <2>2. Numbers'
    BY <1>2, <1>3, <2>1 DEF Numbers
  <2>3. Unique'
    BY <1>2 DEF Unique
  <2> QED
    BY <2>1, <2>2, <2>3
<1>9. SuccessMeansDialed'
  BY <1>1, <1>2, <1>3 DEF SuccessMeansDialed
<1> QED
  BY <1>1, <1>2, <1>6, <1>7, <1>8, <1>9, ClientKeeps

(* A frame for the client: it moves the tunnels that wait for an answer    *)
(* and have its number, and its bytes go to those that are up.             *)
LEMMA ReceiveKeeps ==
  ASSUME TunnelInv, ClientReceive
  PROVE  TunnelInv'
<1> USE DEF TunnelInv
<1> DEFINE f == Head(toClient)
<1>1. UNCHANGED <<client, server, stream, toServer, dialed, reached>>
  BY DEF ClientReceive
<1>2. /\ f \in Frame /\ f = toClient[1] /\ 1 \in 1..Len(toClient) /\ toClient' \in Seq(Frame)
      /\ \A i \in 1..Len(toClient') : i + 1 \in 1..Len(toClient) /\ toClient'[i] = toClient[i + 1]
  BY Parts DEF ClientReceive, TypeOK
<1>3. f.sid # 0 /\ f.tun \in Tunnel /\ tunnel[f.tun].sid = f.sid /\ f.tun \in dialed
  BY <1>2 DEF Frames, Owned, Answers, Frame, Sid
<1>4. \A t \in Tunnel :
        \/ tunnel'[t] = tunnel[t]
        \/ /\ tunnel[t].phase \in {"opened", "asked"} /\ InSession(t) /\ tunnel[t].sid = f.sid
           /\ \E phase \in {"up", "over"} : tunnel'[t] = [tunnel[t] EXCEPT !.phase = phase]
  BY DEF ClientReceive, Receiver
<1>5. \A t \in Tunnel :
        /\ came[t] \subseteq came'[t] /\ came'[t] \subseteq came[t] \cup {f.tun}
        /\ came'[t] # came[t] => tunnel[t].sid = f.sid
  BY DEF ClientReceive, Receiver, TypeOK
<1> HIDE DEF f
<1> DEFINE T == [phase : Phases, session : 0..MaxClientSessions, sid : Nat]
<1>5a. ASSUME NEW r \in T, NEW phase \in {"up", "over"}
      PROVE  /\ [r EXCEPT !.phase = phase] \in T /\ [r EXCEPT !.phase = phase].phase = phase
             /\ [r EXCEPT !.phase = phase].sid = r.sid /\ [r EXCEPT !.phase = phase].session = r.session
  BY DEF Phases
<1>5b. tunnel \in [Tunnel -> T]
  BY DEF TypeOK
<1> HIDE DEF T
<1>5c. \A t \in Tunnel : /\ tunnel'[t] \in T /\ tunnel'[t].phase \in {tunnel[t].phase, "up", "over"}
                         /\ tunnel'[t].sid = tunnel[t].sid /\ tunnel'[t].session = tunnel[t].session
  <2> TAKE t \in Tunnel
  <2>1. CASE tunnel'[t] = tunnel[t]
    BY <1>5b, <2>1
  <2>2. ASSUME NEW phase \in {"up", "over"}, tunnel'[t] = [tunnel[t] EXCEPT !.phase = phase]
        PROVE  /\ tunnel'[t] \in T /\ tunnel'[t].phase = phase
               /\ tunnel'[t].sid = tunnel[t].sid /\ tunnel'[t].session = tunnel[t].session
    <3>1. tunnel[t] \in T
      BY <1>5b
    <3>2. /\ [tunnel[t] EXCEPT !.phase = phase] \in T
          /\ [tunnel[t] EXCEPT !.phase = phase].phase = phase
          /\ [tunnel[t] EXCEPT !.phase = phase].sid = tunnel[t].sid
          /\ [tunnel[t] EXCEPT !.phase = phase].session = tunnel[t].session
      BY <1>5a, <3>1
    <3> QED
      BY <2>2, <3>2
  <2> QED
    BY <1>4, <2>1, <2>2
<1>6. \A t \in Tunnel : tunnel'[t].sid = tunnel[t].sid /\ tunnel'[t].session = tunnel[t].session
  BY <1>5c
<1>7. TypeOK'
  <2>1. \A t \in Tunnel : tunnel'[t] \in [phase : Phases, session : 0..MaxClientSessions, sid : Nat]
    BY <1>5c DEF T
  <2>2. tunnel' \in [Tunnel -> [phase : Phases, session : 0..MaxClientSessions, sid : Nat]]
    BY <2>1 DEF ClientReceive
  <2>3. \A t \in Tunnel : came'[t] \in SUBSET Tunnel
    BY <1>3, <1>5 DEF TypeOK
  <2>4. came' \in [Tunnel -> SUBSET Tunnel]
    BY <2>3 DEF ClientReceive
  <2>5. \A t \in Tunnel : tunnel'[t].phase \in {"picked", "opened", "asked", "up"} =>
                            tunnel'[t].session # 0
    BY <1>4, <1>6 DEF TypeOK
  <2> QED
    BY <1>1, <1>2, <2>2, <2>4, <2>5 DEF TypeOK, client, server
<1>8. Sessions' /\ Numbers' /\ Unique'
  <2>1. Sessions' /\ clientMade' = clientMade /\ lastSid' = lastSid /\ clientSession' = clientSession
    BY <1>1 DEF Sessions, client, server
  <2>2. \A t \in Tunnel : tunnel'[t].phase = tunnel[t].phase \/
          (tunnel[t].phase \in {"opened", "asked"} /\ tunnel'[t].phase \in {"up", "over"})
    BY <1>4 DEF TypeOK
  <2>3. Numbers'
    BY <1>6, <2>1, <2>2 DEF Numbers
  <2> QED
    BY <1>6, <2>1, <2>3 DEF Unique
<1>9. Frames'
  <2>1. Owned(toServer', tunnel') /\ Owned(toClient, tunnel')
    BY <1>1, <1>6, StaysOwned DEF Frames, TypeOK
  <2> QED
    BY <1>2, <2>1 DEF Frames, Owned
<1>10. Streams'
  BY <1>1, <1>6, TunnelAssumption DEF Streams, TypeOK
<1>11. Meetings'
  BY <1>1, <1>3, <1>5, <1>6 DEF Meetings, TypeOK
<1>12. Answers'
  BY <1>1, <1>2 DEF Answers
<1>13. SuccessMeansDialed'
  <2> SUFFICES ASSUME NEW t \in Tunnel, tunnel'[t].phase = "up", tunnel'[t].session = 1
               PROVE  t \in dialed
    BY <1>1 DEF SuccessMeansDialed
  <2>1. CASE tunnel'[t] = tunnel[t]
    BY <2>1 DEF SuccessMeansDialed
  <2>2. CASE InSession(t) /\ tunnel[t].sid = f.sid
    <3>1. clientMade = 1
      BY <1>6, <2>2 DEF InSession, Sessions
    <3>2. tunnel[f.tun].session = 1
      <4>1. tunnel[f.tun].session \in Nat
        BY <1>3 DEF TypeOK
      <4> QED
        BY <1>3, <3>1, <4>1 DEF Numbers
    <3>3. f.tun = t
      BY <1>3, <1>6, <2>2, <3>2 DEF Unique
    <3> QED
      BY <1>3, <3>3
  <2> QED
    BY <1>4, <2>1, <2>2
<1> QED
  BY <1>7, <1>8, <1>9, <1>10, <1>11, <1>12, <1>13

-----------------------------------------------------------------------------
(* The server, and the sessions of both sides.                             *)

(* What is left to show of a step that changes no tunnel.                  *)
LEMMA ServerKeeps ==
  ASSUME TunnelInv, TypeOK', Sessions', Frames', Streams', Meetings', Answers',
         dialed \subseteq dialed', UNCHANGED <<client, tunnel>>
  PROVE  TunnelInv'
<1>1. Numbers' /\ Unique'
  BY DEF TunnelInv, Numbers, Unique, client
<1>2. SuccessMeansDialed'
  BY DEF TunnelInv, SuccessMeansDialed
<1> QED
  BY <1>1, <1>2 DEF TunnelInv

StreamType == [phase : {"reading", "garbled", "dialing", "up"}, tun : Tunnel \cup {NoTunnel},
               early : SUBSET Tunnel]

(* A stream that is new, or has changed, next to the others.               *)
LEMMA Stored ==
  ASSUME TunnelInv, UNCHANGED tunnel, dialed \subseteq dialed',
         NEW s \in Sid, NEW r \in StreamType, SetStream(s, r),
         r.phase \in {"dialing", "up"} => r.tun \in Tunnel,
         r.tun # NoTunnel => tunnel[r.tun].sid = s, \A u \in r.early : tunnel[u].sid = s,
         r.phase = "up" => r.tun \in dialed'
  PROVE  /\ \A x \in DOMAIN stream' : x \in Sid /\ stream'[x] \in StreamType
         /\ Streams'
<1>1. DOMAIN stream' = DOMAIN stream \cup {s}
      /\ \A x \in DOMAIN stream' : stream'[x] = IF x = s THEN r ELSE stream[x]
  BY DEF SetStream
<1>2. \A x \in DOMAIN stream : x \in Sid /\ stream[x] \in StreamType
  BY DEF TunnelInv, TypeOK, StreamType
<1>3. \A x \in DOMAIN stream' : x \in Sid /\ stream'[x] \in StreamType
  BY <1>1, <1>2
<1>4. Streams'
  <2> SUFFICES ASSUME NEW x \in DOMAIN stream'
               PROVE  /\ stream'[x].phase \in {"dialing", "up"} => stream'[x].tun \in Tunnel
                      /\ stream'[x].tun # NoTunnel => tunnel[stream'[x].tun].sid = x
                      /\ \A u \in stream'[x].early : tunnel[u].sid = x
                      /\ stream'[x].phase = "up" => stream'[x].tun \in dialed'
    BY DEF Streams
  <2>1. CASE x = s
    BY <1>1, <2>1
  <2>2. CASE x # s
    <3>1. x \in DOMAIN stream /\ stream'[x] = stream[x]
      BY <1>1, <2>2
    <3> QED
      BY <3>1 DEF TunnelInv, Streams
  <2> QED
    BY <2>1, <2>2
<1> QED
  BY <1>3, <1>4

(* Taking the head of toServer.                                            *)
LEMMA Taken ==
  ASSUME TunnelInv, NEW cmd, Arrives(cmd)
  PROVE  /\ toServer' \in Seq(Frame) /\ Owned(toServer', tunnel)
         /\ Head(toServer) \in Frame
         /\ Head(toServer).tun \in Tunnel /\ Head(toServer).sid \in Sid
         /\ tunnel[Head(toServer).tun].sid = Head(toServer).sid
<1>1. toServer \in Seq(Frame) /\ Owned(toServer, tunnel)
  BY DEF TunnelInv, TypeOK, Frames
<1>2. /\ Head(toServer) \in Frame /\ Head(toServer) = toServer[1] /\ 1 \in 1..Len(toServer)
      /\ toServer' \in Seq(Frame)
      /\ \A i \in 1..Len(toServer') : i + 1 \in 1..Len(toServer) /\ toServer'[i] = toServer[i + 1]
  BY <1>1, Parts DEF Arrives
<1> QED
  BY <1>1, <1>2 DEF Owned, Frame

(* A SYN.                                                                  *)
LEMMA AcceptKeeps == TunnelInv /\ AcceptStream => TunnelInv'
<1> SUFFICES ASSUME TunnelInv, AcceptStream PROVE TunnelInv'
  OBVIOUS
<1> DEFINE s == Head(toServer).sid
           r == [NoStream EXCEPT !.phase = "reading"]
<1>1. UNCHANGED <<client, tunnel, server, toClient, dialed, reached, came>>
  BY DEF AcceptStream
<1>2. toServer' \in Seq(Frame) /\ Owned(toServer', tunnel) /\ s \in Sid
  BY Taken DEF AcceptStream
<1>3. r \in StreamType /\ r.phase = "reading" /\ r.tun = NoTunnel /\ r.early = {}
  BY DEF NoStream, StreamType
<1>4. (\A x \in DOMAIN stream' : x \in Sid /\ stream'[x] \in StreamType) /\ Streams'
  <2>1. CASE SetStream(s, r)
    BY <1>1, <1>2, <1>3, <2>1, Stored
  <2>2. CASE UNCHANGED stream
    BY <1>1, <2>2 DEF TunnelInv, Streams, TypeOK, StreamType
  <2> QED
    BY <2>1, <2>2 DEF AcceptStream
<1>5. TypeOK' /\ Sessions'
  BY <1>1, <1>2, <1>4 DEF TunnelInv, TypeOK, StreamType, Sessions, client, server
<1>6. Frames' /\ Meetings' /\ Answers'
  BY <1>1, <1>2 DEF TunnelInv, Frames, Meetings, Answers
<1> QED
  BY <1>1, <1>4, <1>5, <1>6, ServerKeeps

(* The request of a stream, or bytes for its target.                       *)
LEMMA ServeKeeps == TunnelInv /\ ServerReceive => TunnelInv'
<1> SUFFICES ASSUME TunnelInv, ServerReceive PROVE TunnelInv'
  OBVIOUS
<1> DEFINE f == Head(toServer)
           r == stream[f.sid]
<1>1. UNCHANGED <<client, tunnel, server, toClient, dialed, came>>
  BY DEF ServerReceive
<1>2. /\ toServer' \in Seq(Frame) /\ Owned(toServer', tunnel)
      /\ f.sid \in Sid /\ f.tun \in Tunnel /\ tunnel[f.tun].sid = f.sid
  BY Taken DEF ServerReceive
<1>3. f.sid \in DOMAIN stream => r \in StreamType
  BY DEF TunnelInv, TypeOK, StreamType
<1>4. \/ UNCHANGED <<stream, reached>>
      \/ /\ f.sid \in DOMAIN stream /\ r.phase = "reading" /\ UNCHANGED reached
         /\ SetStream(f.sid, [r EXCEPT !.phase = "dialing", !.tun = f.tun])
      \/ /\ f.sid \in DOMAIN stream /\ r.phase = "reading" /\ UNCHANGED reached
         /\ SetStream(f.sid, [r EXCEPT !.phase = "garbled"])
      \/ /\ f.sid \in DOMAIN stream /\ r.phase = "dialing" /\ UNCHANGED reached
         /\ SetStream(f.sid, [r EXCEPT !.early = @ \cup {f.tun}])
      \/ /\ f.sid \in DOMAIN stream /\ r.phase = "up" /\ UNCHANGED stream
         /\ reached' = [reached EXCEPT ![r.tun] = @ \cup {f.tun}]
  BY DEF ServerReceive, Known
<1> HIDE DEF f
<1>5. (\A x \in DOMAIN stream' : x \in Sid /\ stream'[x] \in StreamType) /\ Streams'
  <2>0. f.sid \in DOMAIN stream =>
          /\ r.tun # NoTunnel => tunnel[r.tun].sid = f.sid
          /\ \A u \in r.early : tunnel[u].sid = f.sid
          /\ r.phase = "dialing" => r.tun \in Tunnel
    BY DEF TunnelInv, Streams
  <2>1. CASE UNCHANGED stream
    BY <1>1, <2>1 DEF TunnelInv, Streams, TypeOK, StreamType
  <2> HIDE DEF r
  <2>2. CASE f.sid \in DOMAIN stream /\ SetStream(f.sid, [r EXCEPT !.phase = "dialing", !.tun = f.tun])
    <3> DEFINE x == [r EXCEPT !.phase = "dialing", !.tun = f.tun]
    <3>1. x \in StreamType /\ x.phase = "dialing" /\ x.tun = f.tun /\ x.early = r.early
      BY <1>2, <1>3, <2>2 DEF StreamType
    <3> HIDE DEF x
    <3> QED
      BY <1>1, <1>2, <2>0, <2>2, <3>1, Stored DEF x
  <2>3. CASE f.sid \in DOMAIN stream /\ SetStream(f.sid, [r EXCEPT !.phase = "garbled"])
    <3> DEFINE x == [r EXCEPT !.phase = "garbled"]
    <3>1. x \in StreamType /\ x.phase = "garbled" /\ x.tun = r.tun /\ x.early = r.early
      BY <1>3, <2>3 DEF StreamType
    <3> QED
      BY <1>1, <1>2, <2>0, <2>3, <3>1, Stored
  <2>4. CASE f.sid \in DOMAIN stream /\ r.phase = "dialing"
             /\ SetStream(f.sid, [r EXCEPT !.early = @ \cup {f.tun}])
    <3> DEFINE x == [r EXCEPT !.early = @ \cup {f.tun}]
    <3>1. x \in StreamType /\ x.phase = "dialing" /\ x.tun = r.tun /\ x.early = r.early \cup {f.tun}
      BY <1>2, <1>3, <2>4 DEF StreamType
    <3> QED
      BY <1>1, <1>2, <2>0, <2>4, <3>1, Stored
  <2> QED
    BY <1>4, <2>1, <2>2, <2>3, <2>4
<1>6. reached' \in [Tunnel -> SUBSET Tunnel] /\ Meetings'
  <2>1. CASE UNCHANGED reached
    BY <1>1, <2>1 DEF TunnelInv, Meetings, TypeOK
  <2>2. CASE f.sid \in DOMAIN stream /\ r.phase = "up"
             /\ reached' = [reached EXCEPT ![r.tun] = @ \cup {f.tun}]
    <3>1. r.tun \in Tunnel /\ tunnel[r.tun].sid = f.sid
      BY <2>2, TunnelAssumption DEF TunnelInv, Streams
    <3>2. reached' \in [Tunnel -> SUBSET Tunnel]
      BY <1>2, <2>2, <3>1 DEF TunnelInv, TypeOK
    <3>3. \A t \in Tunnel : \A u \in reached'[t] :
            u \in reached[t] \/ (u = f.tun /\ tunnel[t].sid = f.sid)
      BY <2>2, <3>1 DEF TunnelInv, TypeOK
    <3> QED
      BY <1>1, <1>2, <3>2, <3>3 DEF TunnelInv, Meetings, Sid
  <2> QED
    BY <1>4, <2>1, <2>2
<1>7. TypeOK' /\ Sessions'
  BY <1>1, <1>2, <1>5, <1>6 DEF TunnelInv, TypeOK, StreamType, Sessions, client, server
<1>8. Frames' /\ Answers'
  BY <1>1, <1>2 DEF TunnelInv, Frames, Answers
<1> QED
  BY <1>1, <1>5, <1>6, <1>7, <1>8, ServerKeeps

(* An answer of the server to a stream.                                    *)
LEMMA Replied ==
  ASSUME TunnelInv, NEW s \in DOMAIN stream, NEW c \in {"ack", "bytes"},
         stream[s].phase \in {"dialing", "up"},
         Reply([cmd |-> c, sid |-> s, tun |-> stream[s].tun]),
         stream[s].tun \in dialed', dialed \subseteq dialed'
  PROVE  toClient' \in Seq(Frame) /\ Owned(toClient', tunnel) /\ Answers'
<1> DEFINE f == [cmd |-> c, sid |-> s, tun |-> stream[s].tun]
<1>1. stream[s].tun \in Tunnel /\ tunnel[stream[s].tun].sid = s /\ s \in Sid
  BY TunnelAssumption DEF TunnelInv, Streams, TypeOK
<1>2. f \in Frame /\ f.sid = s /\ f.tun = stream[s].tun
  BY <1>1 DEF Frame
<1>3. toClient' = Append(toClient, f) /\ toClient \in Seq(Frame) /\ Owned(toClient, tunnel)
  BY DEF Reply, TunnelInv, TypeOK, Frames
<1> HIDE DEF f
<1>4. /\ toClient' \in Seq(Frame)
      /\ \A i \in 1..Len(toClient') : (i \in 1..Len(toClient) /\ toClient'[i] = toClient[i]) \/ toClient'[i] = f
  BY <1>2, <1>3, Longer
<1>5. Owned(toClient', tunnel)
  BY <1>1, <1>2, <1>3, <1>4 DEF Owned
<1>6. Answers'
  BY <1>2, <1>4 DEF TunnelInv, Answers
<1> QED
  BY <1>4, <1>5, <1>6

(* The dial that succeeds, with the bytes that came early.                 *)
LEMMA DialKeeps == ASSUME TunnelInv, NEW s \in DOMAIN stream, Dial(s) PROVE TunnelInv'
<1> DEFINE r == stream[s]
           x == [stream[s] EXCEPT !.phase = "up", !.early = {}]
<1>1. UNCHANGED <<client, tunnel, server, toServer, came>> /\ dialed' = dialed \cup {r.tun}
  BY DEF Dial
<1>2. /\ r.phase = "dialing" /\ r.tun \in Tunnel /\ tunnel[r.tun].sid = s /\ s \in Sid
      /\ \A u \in r.early : tunnel[u].sid = s
      /\ r \in StreamType
  BY TunnelAssumption DEF Dial, TunnelInv, Streams, TypeOK, StreamType
<1>3. x \in StreamType /\ x.phase = "up" /\ x.tun = r.tun /\ x.early = {}
  BY <1>2 DEF StreamType
<1>4. SetStream(s, x) /\ reached' = [reached EXCEPT ![r.tun] = @ \cup r.early]
  BY DEF Dial
<1>5. toClient' \in Seq(Frame) /\ Owned(toClient', tunnel) /\ Answers'
  BY <1>1, <1>2, Replied DEF Dial
<1> HIDE DEF r, x
<1>6. (\A y \in DOMAIN stream' : y \in Sid /\ stream'[y] \in StreamType) /\ Streams'
  BY <1>1, <1>2, <1>3, <1>4, Stored
<1>7. reached' \in [Tunnel -> SUBSET Tunnel]
  BY <1>2, <1>4 DEF TunnelInv, TypeOK, StreamType
<1>8. Meetings'
  <2>1. \A t \in Tunnel : \A u \in reached'[t] : u \in reached[t] \/ (tunnel[u].sid = s /\ tunnel[t].sid = s)
    BY <1>2, <1>4 DEF TunnelInv, TypeOK
  <2> QED
    BY <1>1, <1>2, <2>1 DEF TunnelInv, Meetings, Sid
<1>9. TypeOK' /\ Sessions'
  BY <1>1, <1>2, <1>5, <1>6, <1>7 DEF TunnelInv, TypeOK, StreamType, Sessions, client, server
<1>10. Frames'
  BY <1>1, <1>5 DEF TunnelInv, Frames
<1> QED
  BY <1>1, <1>5, <1>6, <1>8, <1>9, <1>10, ServerKeeps

(* Bytes of a target, and the end of a stream.                             *)
LEMMA StreamKeeps ==
  ASSUME TunnelInv, NEW s \in DOMAIN stream, CopyDown(s) \/ EndStream(s)
  PROVE  TunnelInv'
<1>1. UNCHANGED <<client, tunnel, server, toServer, dialed, reached, came>>
  BY DEF CopyDown, EndStream
<1>2. toClient' \in Seq(Frame) /\ Owned(toClient', tunnel) /\ Answers'
  <2>1. CASE CopyDown(s)
    BY <1>1, <2>1, Replied DEF CopyDown, TunnelInv, Streams
  <2>2. CASE EndStream(s)
    BY <1>1, <2>2 DEF EndStream, TunnelInv, TypeOK, Frames, Answers
  <2> QED
    BY <2>1, <2>2
<1>3. DOMAIN stream' \subseteq DOMAIN stream /\ \A x \in DOMAIN stream' : stream'[x] = stream[x]
  BY DEF CopyDown, EndStream
<1>4. TypeOK' /\ Sessions'
  BY <1>1, <1>2, <1>3 DEF TunnelInv, TypeOK, Sessions, client, server
<1>5. Frames' /\ Meetings'
  BY <1>1, <1>2 DEF TunnelInv, Frames, Meetings
<1>6. Streams'
  BY <1>1, <1>3 DEF TunnelInv, Streams
<1> QED
  BY <1>1, <1>2, <1>4, <1>5, <1>6, ServerKeeps

(* The link of the client or of the server reconnects.                     *)
LEMMA TearDownKeeps == TunnelInv /\ (ClientTearDown \/ ServerTearDown) => TunnelInv'
<1> SUFFICES ASSUME TunnelInv, ClientTearDown \/ ServerTearDown PROVE TunnelInv'
  OBVIOUS
<1>0. ASSUME NEW q \in Seq(Frame), Owned(q, tunnel), NEW n \in 0..Len(q)
      PROVE  /\ SubSeq(q, 1, n) \in Seq(Frame) /\ Owned(SubSeq(q, 1, n), tunnel)
             /\ (\A i \in 1..Len(q) : q[i].tun \in dialed) =>
                  \A i \in 1..Len(SubSeq(q, 1, n)) : SubSeq(q, 1, n)[i].tun \in dialed
  BY <1>0, Parts DEF Owned
<1>1. toServer \in Seq(Frame) /\ Owned(toServer, tunnel) /\ toClient \in Seq(Frame) /\ Owned(toClient, tunnel)
  BY DEF TunnelInv, TypeOK, Frames
<1>2. <<>> \in Seq(Frame) /\ Owned(<<>>, tunnel) /\ Len(<<>>) = 0
  BY DEF Owned
<1>3. CASE ClientTearDown
  <2>1. PICK n \in 0..Len(toServer) : toServer' = SubSeq(toServer, 1, n)
    BY <1>3 DEF ClientTearDown
  <2>2. toServer' \in Seq(Frame) /\ Owned(toServer', tunnel)
    BY <1>0, <1>1, <2>1
  <2>3. /\ clientSession' = 0 /\ clientMade < MaxClientSessions /\ toClient' = <<>>
        /\ UNCHANGED <<clientMade, lastSid, tunnel, server, stream, dialed, reached, came>>
    BY <1>3 DEF ClientTearDown
  <2>4. TypeOK' /\ Sessions'
    BY <1>2, <2>2, <2>3, CapAssumption DEF TunnelInv, TypeOK, Sessions, server
  <2>5. Frames' /\ Answers' /\ Streams' /\ Meetings' /\ SuccessMeansDialed'
    BY <1>2, <2>2, <2>3 DEF TunnelInv, Frames, Answers, Streams, Meetings, SuccessMeansDialed
  <2>6. Numbers' /\ Unique'
    BY <2>3 DEF TunnelInv, Numbers, Unique, TypeOK
  <2> QED
    BY <2>4, <2>5, <2>6 DEF TunnelInv
<1>4. CASE ServerTearDown
  <2>1. PICK n \in 0..Len(toClient) : toClient' = SubSeq(toClient, 1, n)
    BY <1>4 DEF ServerTearDown
  <2>2. toClient' \in Seq(Frame) /\ Owned(toClient', tunnel)
    BY <1>0, <1>1, <2>1
  <2>3. /\ serverSession' = 0 /\ serverMade < MaxServerSessions /\ toServer' = <<>> /\ stream' = <<>>
        /\ UNCHANGED <<client, tunnel, serverMade, dialed, reached, came>>
    BY <1>4 DEF ServerTearDown
  <2>4. Answers'
    BY <1>0, <1>1, <2>1, <2>3 DEF TunnelInv, Answers
  <2>5. DOMAIN stream' = {}
    BY <2>3
  <2>6. TypeOK' /\ Sessions'
    BY <1>2, <2>2, <2>3, <2>5, CapAssumption DEF TunnelInv, TypeOK, Sessions, client
  <2>7. Frames' /\ Streams' /\ Meetings'
    BY <1>2, <2>2, <2>3, <2>5 DEF TunnelInv, Frames, Streams, Meetings
  <2> QED
    BY <2>3, <2>4, <2>6, <2>7, ServerKeeps
<1> QED
  BY <1>3, <1>4

(* A new session: its client gives its numbers from the start.             *)
LEMMA InstallKeeps == TunnelInv /\ (ClientInstall \/ ServerInstall) => TunnelInv'
<1> SUFFICES ASSUME TunnelInv, ClientInstall \/ ServerInstall PROVE TunnelInv'
  OBVIOUS
<1>1. CASE ClientInstall
  <2>1. /\ clientMade' = clientMade + 1 /\ clientSession' = clientMade' /\ lastSid' = 0
        /\ clientMade' \in 1..MaxClientSessions
        /\ UNCHANGED <<tunnel, server, stream, toServer, toClient, dialed, reached, came>>
    BY <1>1, CapAssumption DEF ClientInstall, TunnelInv, Sessions, TypeOK
  <2>2. TypeOK' /\ Sessions'
    BY <2>1 DEF TunnelInv, TypeOK, Sessions, server
  <2>3. \A t \in Tunnel : tunnel[t].session <= clientMade /\ tunnel[t].session \in Nat
                          /\ tunnel[t].session # clientMade'
    BY <2>1 DEF TunnelInv, Numbers, TypeOK
  <2>4. Numbers'
    BY <2>1, <2>3 DEF TunnelInv, Numbers, TypeOK
  <2>5. Frames' /\ Answers' /\ Streams' /\ Meetings' /\ Unique' /\ SuccessMeansDialed'
    BY <2>1 DEF TunnelInv, Frames, Answers, Streams, Meetings, Unique, SuccessMeansDialed
  <2> QED
    BY <2>2, <2>4, <2>5 DEF TunnelInv
<1>2. CASE ServerInstall
  <2>1. /\ serverMade' = serverMade + 1 /\ serverSession' = serverMade'
        /\ serverMade' \in 1..MaxServerSessions
        /\ UNCHANGED <<client, tunnel, stream, toServer, toClient, dialed, reached, came>>
    BY <1>2, CapAssumption DEF ServerInstall, TunnelInv, Sessions, TypeOK
  <2>2. TypeOK' /\ Sessions'
    BY <2>1 DEF TunnelInv, TypeOK, Sessions, client
  <2>3. Frames' /\ Answers' /\ Streams' /\ Meetings'
    BY <2>1 DEF TunnelInv, Frames, Answers, Streams, Meetings
  <2> QED
    BY <2>1, <2>2, <2>3, ServerKeeps
<1> QED
  BY <1>1, <1>2

-----------------------------------------------------------------------------
(* The theorems.                                                           *)

(* Both sides start with one session and no tunnel.                        *)
LEMMA TunnelInit == Init => TunnelInv
<1> SUFFICES ASSUME Init PROVE TunnelInv
  OBVIOUS
<1> USE DEF Init, NewTunnel
<1>1. <<>> \in Seq(Frame) /\ Len(<<>>) = 0 /\ DOMAIN stream = {}
  OBVIOUS
<1>2. TypeOK
  BY <1>1, CapAssumption DEF TypeOK, Phases
<1>3. Sessions /\ Numbers /\ Unique
  BY CapAssumption DEF Sessions, Numbers, Unique
<1>4. Frames /\ Streams /\ Meetings /\ Answers /\ SuccessMeansDialed
  BY <1>1 DEF Frames, Owned, Streams, Meetings, Answers, SuccessMeansDialed
<1> QED
  BY <1>2, <1>3, <1>4 DEF TunnelInv

(* Every step keeps the invariant.                                         *)
LEMMA TunnelNext == TunnelInv /\ [Next]_vars => TunnelInv'
<1> SUFFICES ASSUME TunnelInv, [Next]_vars PROVE TunnelInv'
  OBVIOUS
<1>1. ASSUME NEW t \in Tunnel, ClientStep(t) PROVE TunnelInv'
  BY <1>1, PickKeeps, OpenKeeps, PhaseKeeps DEF ClientStep
<1>2. ASSUME NEW s \in DOMAIN stream, Dial(s) \/ CopyDown(s) \/ EndStream(s) PROVE TunnelInv'
  BY <1>2, DialKeeps, StreamKeeps
<1>3. CASE UNCHANGED vars
  BY <1>3 DEF vars, client, server, TunnelInv, TypeOK, Sessions, Numbers, Unique, Frames, Streams,
              Meetings, Answers, SuccessMeansDialed
<1> QED
  BY <1>1, <1>2, <1>3, ReceiveKeeps, AcceptKeeps, ServeKeeps, TearDownKeeps, InstallKeeps DEF Next

(* The invariant holds in every state.                                     *)
LEMMA TunnelAlways == Spec => []TunnelInv
BY TunnelInit, TunnelNext, PTL DEF Spec

(* Every state of every behaviour has the types TypeOK names.              *)
THEOREM TunnelTypes == Spec => []TypeOK
BY TunnelAlways, PTL DEF TunnelInv

(* Two connections of one session of the client never exchange a byte,     *)
(* whatever the two sides and the link do to the sessions.                 *)
THEOREM SessionsStayApart == Spec => []SessionsApart
<1>1. TunnelInv => SessionsApart
  BY DEF TunnelInv, Unique, Meetings, SessionsApart
<1> QED
  BY <1>1, TunnelAlways, PTL

(* No connection of the first session is told of a success that the server *)
(* did not have.                                                           *)
THEOREM SuccessIsDialed == Spec => []SuccessMeansDialed
BY TunnelAlways, PTL DEF TunnelInv

=============================================================================
