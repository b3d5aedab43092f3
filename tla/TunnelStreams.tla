---------------------------- MODULE TunnelStreams ----------------------------
(***************************************************************************)
(* SOCKS connections as streams of the two smux sessions that olcRTC lays  *)
(* over the link (internal/client/client.go, internal/server/server.go,    *)
(* internal/muxconn): the client opens a stream per connection, writes the *)
(* connect request into it and waits for a zero byte; the server accepts   *)
(* the stream, reads the request, dials the target and copies.             *)
(*                                                                         *)
(* Each side replaces its own session when its own link reconnects, and    *)
(* tells the other side nothing: a frame carries the number of its stream  *)
(* and no session.  A stream is numbered by its session, from the start    *)
(* for every session.                                                      *)
(*                                                                         *)
(* Abstractions.  A tunnel stands for its connect request, its target and  *)
(* the bytes of either.  Window updates of smux are left out, and so is    *)
(* FIN: it makes the other side close the stream, which that side may do   *)
(* in any case.  The link keeps order and loses frames only when it        *)
(* reconnects; a full link makes muxconn.Write wait.                       *)
(***************************************************************************)
EXTENDS Naturals, Sequences

CONSTANTS
  Tunnel,             \* SOCKS connections to the client, each to its own target
  NoTunnel,
  MaxClientSessions,  \* bound: sessions the client ever makes
  MaxServerSessions,  \* bound: sessions the server ever makes
  LinkCap             \* frames on their way in one direction before CanSend says no

ASSUME TunnelAssumption == NoTunnel \notin Tunnel
ASSUME CapAssumption ==
  MaxClientSessions \in Nat \ {0} /\ MaxServerSessions \in Nat \ {0} /\ LinkCap \in Nat \ {0}

VARIABLES
  clientSession,  \* c.session of the client, 0 while there is none
  clientMade,     \* sessions the client made so far
  lastSid,        \* streams opened in the session of the client
  tunnel,         \* handleSocks5 of every connection
  serverSession,  \* s.session of the server, 0 while there is none
  serverMade,
  stream,         \* streams of the server's session
  toServer, toClient,  \* frames on the link
  dialed,         \* history: tunnels whose target the server dialed
  reached,        \* history: reached[t], whose bytes the target of t was sent
  came            \* history: came[t], whose target's bytes connection t was sent

client == <<clientSession, clientMade, lastSid>>
server == <<serverSession, serverMade>>
vars == <<client, tunnel, server, stream, toServer, toClient, dialed, reached, came>>

Sid == Nat \ {0}
NewTunnel == [phase |-> "new", session |-> 0, sid |-> 0]
NoStream == [phase |-> "none", tun |-> NoTunnel, early |-> {}]
Frame == [cmd : {"syn", "request", "bytes", "ack"}, sid : Sid, tun : Tunnel]
Phases == {"new", "picked", "opened", "asked", "up", "over"}

TypeOK ==
  /\ clientSession \in 0..MaxClientSessions /\ clientMade \in 0..MaxClientSessions
  /\ lastSid \in Nat
  /\ tunnel \in [Tunnel -> [phase : Phases, session : 0..MaxClientSessions, sid : Nat]]
  /\ serverSession \in 0..MaxServerSessions /\ serverMade \in 0..MaxServerSessions
  /\ \A s \in DOMAIN stream :
       s \in Sid /\ stream[s] \in [phase : {"reading", "garbled", "dialing", "up"},
                                   tun : Tunnel \cup {NoTunnel}, early : SUBSET Tunnel]
  /\ toServer \in Seq(Frame) /\ toClient \in Seq(Frame)
  /\ \A t \in Tunnel : tunnel[t].phase \in {"picked", "opened", "asked", "up"} => tunnel[t].session # 0
  /\ dialed \subseteq Tunnel
  /\ reached \in [Tunnel -> SUBSET Tunnel] /\ came \in [Tunnel -> SUBSET Tunnel]

Init ==
  /\ clientSession = 1 /\ clientMade = 1 /\ lastSid = 0
  /\ tunnel = [t \in Tunnel |-> NewTunnel]
  /\ serverSession = 1 /\ serverMade = 1
  /\ stream = <<>>
  /\ toServer = <<>> /\ toClient = <<>>
  /\ dialed = {}
  /\ reached = [t \in Tunnel |-> {}] /\ came = [t \in Tunnel |-> {}]

-----------------------------------------------------------------------------
(* The client: handleSocks5, tunnel and sendConnectRequest.                *)

(* A stream lives as long as the session it was opened in.                 *)
InSession(t) == tunnel[t].session = clientSession

Phase(t, to) == tunnel' = [tunnel EXCEPT ![t].phase = to]

Send(frame) == Len(toServer) < LinkCap /\ toServer' = Append(toServer, frame)

(* Mutation of PickSession: no check for a session that is not there.      *)
PickAny(t) ==
  /\ tunnel[t].phase = "new"
  /\ tunnel' = [tunnel EXCEPT ![t].phase = "picked", ![t].session = clientSession]
  /\ UNCHANGED <<client, server, stream, toServer, toClient, dialed, reached, came>>

(* The session is read under sessMu; without one the request is refused.   *)
PickSession(t) ==
  /\ tunnel[t].phase = "new"
  /\ tunnel' = [tunnel EXCEPT ![t].phase = IF clientSession = 0 THEN "over" ELSE "picked",
                              ![t].session = clientSession]
  /\ UNCHANGED <<client, server, stream, toServer, toClient, dialed, reached, came>>

(* Mutation of NextSid: numbers are not counted up.                        *)
SameSid == 1

NextSid == lastSid + 1

OpenStream(t) ==
  /\ tunnel[t].phase = "picked" /\ InSession(t)
  /\ Send([cmd |-> "syn", sid |-> NextSid, tun |-> t])
  /\ lastSid' = NextSid
  /\ tunnel' = [tunnel EXCEPT ![t].phase = "opened", ![t].sid = NextSid]
  /\ UNCHANGED <<clientSession, clientMade, server, stream, toClient, dialed, reached, came>>

(* Mutation of SendRequest: nobody waits for the zero byte.                *)
SendAndGo(t) ==
  /\ tunnel[t].phase = "opened" /\ InSession(t)
  /\ Send([cmd |-> "request", sid |-> tunnel[t].sid, tun |-> t])
  /\ Phase(t, "up")
  /\ UNCHANGED <<client, server, stream, toClient, dialed, reached, came>>

SendRequest(t) ==
  /\ tunnel[t].phase = "opened" /\ InSession(t)
  /\ Send([cmd |-> "request", sid |-> tunnel[t].sid, tun |-> t])
  /\ Phase(t, "asked")
  /\ UNCHANGED <<client, server, stream, toClient, dialed, reached, came>>

CopyUp(t) ==
  /\ tunnel[t].phase = "up" /\ InSession(t)
  /\ Send([cmd |-> "bytes", sid |-> tunnel[t].sid, tun |-> t])
  /\ UNCHANGED <<client, tunnel, server, stream, toClient, dialed, reached, came>>

(* Mutation of GiveUp: no read deadline while the answer is awaited.       *)
GiveUpNever(t) ==
  /\ \/ tunnel[t].phase \in {"picked", "opened", "asked"} /\ ~InSession(t)
     \/ tunnel[t].phase = "opened"
  /\ Phase(t, "over")
  /\ UNCHANGED <<client, server, stream, toServer, toClient, dialed, reached, came>>

(* The session is gone, or the deadlines of sendConnectRequest passed.     *)
GiveUp(t) ==
  /\ \/ tunnel[t].phase = "picked" /\ ~InSession(t)
     \/ tunnel[t].phase \in {"opened", "asked"}
  /\ Phase(t, "over")
  /\ UNCHANGED <<client, server, stream, toServer, toClient, dialed, reached, came>>

(* The application, or the stream, ends an established connection.         *)
EndTunnel(t) ==
  /\ tunnel[t].phase = "up"
  /\ Phase(t, "over")
  /\ UNCHANGED <<client, server, stream, toServer, toClient, dialed, reached, came>>

Receiver(f) == {t \in Tunnel : /\ tunnel[t].phase \in {"opened", "asked", "up"}
                               /\ InSession(t) /\ tunnel[t].sid = f.sid}

(* onData of the client: nothing takes a frame of an unknown stream, or    *)
(* any while there is no session.  Before the connection is up, the first  *)
(* byte must be the zero byte.                                             *)
ClientReceive ==
  /\ toClient # <<>>
  /\ toClient' = Tail(toClient)
  /\ LET f == Head(toClient)
         waits == {t \in Receiver(f) : tunnel[t].phase # "up"}
         ups == Receiver(f) \ waits
     IN  /\ tunnel' = [t \in Tunnel |->
                         IF t \in waits
                         THEN [tunnel[t] EXCEPT !.phase = IF f.cmd = "ack" THEN "up" ELSE "over"]
                         ELSE tunnel[t]]
         /\ came' = [t \in Tunnel |-> IF t \in ups THEN came[t] \cup {f.tun} ELSE came[t]]
  /\ UNCHANGED <<client, server, stream, toServer, dialed, reached>>

(* handleReconnect: the link took with it what was on its way to the       *)
(* client and a part of what the client had sent.                          *)
ClientTearDown ==
  /\ clientSession # 0 /\ clientMade < MaxClientSessions
  /\ clientSession' = 0
  /\ toClient' = <<>>
  /\ \E n \in 0..Len(toServer) : toServer' = SubSeq(toServer, 1, n)
  /\ UNCHANGED <<clientMade, lastSid, tunnel, server, stream, dialed, reached, came>>

ClientInstall ==
  /\ clientSession = 0
  /\ clientMade' = clientMade + 1 /\ clientSession' = clientMade'
  /\ lastSid' = 0
  /\ UNCHANGED <<tunnel, server, stream, toServer, toClient, dialed, reached, came>>

-----------------------------------------------------------------------------
(* The server: smux, handleStream and dispatch.                            *)

SetStream(s, r) == stream' = [x \in DOMAIN stream \cup {s} |-> IF x = s THEN r ELSE stream[x]]

Arrives(cmd) ==
  /\ toServer # <<>> /\ Head(toServer).cmd = cmd
  /\ toServer' = Tail(toServer)

Known(s) == serverSession # 0 /\ s \in DOMAIN stream

(* A new number is a new stream; a SYN of a known one changes nothing.     *)
AcceptStream ==
  LET s == Head(toServer).sid IN
  /\ Arrives("syn")
  /\ IF serverSession # 0 /\ ~Known(s)
     THEN SetStream(s, [NoStream EXCEPT !.phase = "reading"])
     ELSE UNCHANGED stream
  /\ UNCHANGED <<client, tunnel, server, toClient, dialed, reached, came>>

(* handleStream: the request parses if nothing came before it.  Later, all *)
(* bytes of the stream belong to the target.                               *)
ServerReceive ==
  LET f == Head(toServer)
      r == stream[f.sid]
  IN
  /\ Arrives("request") \/ Arrives("bytes")
  /\ IF ~Known(f.sid) THEN UNCHANGED <<stream, reached>>
     ELSE CASE r.phase = "reading" ->
                 /\ SetStream(f.sid, IF f.cmd = "request"
                                     THEN [r EXCEPT !.phase = "dialing", !.tun = f.tun]
                                     ELSE [r EXCEPT !.phase = "garbled"])
                 /\ UNCHANGED reached
            [] r.phase = "dialing" ->
                 /\ SetStream(f.sid, [r EXCEPT !.early = @ \cup {f.tun}])
                 /\ UNCHANGED reached
            [] r.phase = "up" ->
                 /\ reached' = [reached EXCEPT ![r.tun] = @ \cup {f.tun}]
                 /\ UNCHANGED stream
            [] OTHER -> UNCHANGED <<stream, reached>>
  /\ UNCHANGED <<client, tunnel, server, toClient, dialed, came>>

Reply(f) == Len(toClient) < LinkCap /\ toClient' = Append(toClient, f)

Dial(s) ==
  /\ Known(s) /\ stream[s].phase = "dialing"
  /\ Reply([cmd |-> "ack", sid |-> s, tun |-> stream[s].tun])
  /\ SetStream(s, [stream[s] EXCEPT !.phase = "up", !.early = {}])
  /\ dialed' = dialed \cup {stream[s].tun}
  /\ reached' = [reached EXCEPT ![stream[s].tun] = @ \cup stream[s].early]
  /\ UNCHANGED <<client, tunnel, server, toServer, came>>

CopyDown(s) ==
  /\ Known(s) /\ stream[s].phase = "up"
  /\ Reply([cmd |-> "bytes", sid |-> s, tun |-> stream[s].tun])
  /\ UNCHANGED <<client, tunnel, server, stream, toServer, dialed, reached, came>>

(* The handler returns and closes its stream: a deadline, a dial that      *)
(* failed, the end of the target or of the client.                         *)
EndStream(s) ==
  /\ Known(s)
  /\ stream' = [x \in DOMAIN stream \ {s} |-> stream[x]]
  /\ UNCHANGED <<client, tunnel, server, toServer, toClient, dialed, reached, came>>

ServerTearDown ==
  /\ serverSession # 0 /\ serverMade < MaxServerSessions
  /\ serverSession' = 0 /\ stream' = <<>>
  /\ toServer' = <<>>
  /\ \E n \in 0..Len(toClient) : toClient' = SubSeq(toClient, 1, n)
  /\ UNCHANGED <<client, tunnel, serverMade, dialed, reached, came>>

ServerInstall ==
  /\ serverSession = 0
  /\ serverMade' = serverMade + 1 /\ serverSession' = serverMade'
  /\ UNCHANGED <<client, tunnel, stream, toServer, toClient, dialed, reached, came>>

-----------------------------------------------------------------------------
ClientStep(t) ==
  PickSession(t) \/ OpenStream(t) \/ SendRequest(t) \/ CopyUp(t) \/ GiveUp(t) \/ EndTunnel(t)

Next ==
  \/ \E t \in Tunnel : ClientStep(t)
  \/ ClientReceive \/ ClientTearDown \/ ClientInstall
  \/ AcceptStream \/ ServerReceive \/ ServerTearDown \/ ServerInstall
  \/ \E s \in DOMAIN stream : Dial(s) \/ CopyDown(s) \/ EndStream(s)

Spec == Init /\ [][Next]_vars

(* A connection is served, its deadlines pass, and frames are taken from   *)
(* the link; the server need not answer.                                   *)
Fairness ==
  /\ \A t \in Tunnel : WF_vars(OpenStream(t)) /\ WF_vars(SendRequest(t)) /\ WF_vars(GiveUp(t))
  /\ WF_vars(AcceptStream) /\ WF_vars(ServerReceive) /\ WF_vars(ServerInstall)

FairSpec == Spec /\ Fairness

-----------------------------------------------------------------------------
(* Properties.                                                             *)

(* Bytes of a connection go to the target it asked for and come back from  *)
(* that one: the server "for every incoming smux stream reads the request  *)
(* with the target address, connects and carries the bytes to and fro"     *)
(* (docs/about.md:216), and so "copes with reconnects".                    *)
OwnTarget == \A t \in Tunnel : reached[t] \subseteq {t} /\ came[t] \subseteq {t}

(* Two connections of one session of the client are never mixed up,        *)
(* whatever either side does to its session and whatever is still on the   *)
(* link; before the client's first reconnect that is OwnTarget.            *)
SessionsApart ==
  \A t, u \in Tunnel :
    t # u /\ u \in reached[t] \cup came[t] => tunnel[t].session # tunnel[u].session

(* A connection of the client's first session is told of success only      *)
(* after the server dialed the target of its own request: no answer to     *)
(* another stream is taken for it.                                         *)
SuccessMeansDialed ==
  \A t \in Tunnel : tunnel[t].phase = "up" /\ tunnel[t].session = 1 => t \in dialed

(* A connect request that was sent is answered or given up, although the   *)
(* server may have dropped it together with its session.                   *)
RequestEnds == \A t \in Tunnel : tunnel[t].phase = "asked" ~> tunnel[t].phase \in {"up", "over"}
=============================================================================
