------------------------------ MODULE ClientRun ------------------------------
(***************************************************************************)
(* The life of the client (internal/client/client.go): RunWithReady brings *)
(* the link up, listens, accepts SOCKS connections and shuts down, while   *)
(* reconnect callbacks, from the watcher of the provider or from a track   *)
(* of vp8channel, replace the connection and the smux session.             *)
(*                                                                         *)
(* bringUpLink and handleReconnect make a pair in the same way, c.conn     *)
(* assigned and read again outside sessMu and only c.session under it; so  *)
(* each of these is a step, of whichever of the makers.  Connections and   *)
(* sessions are numbered in the order they are made.  What travels through *)
(* a tunnel is TunnelStreams.                                              *)
(***************************************************************************)
EXTENDS Naturals, FiniteSets

CONSTANTS
  CnCallbacks,     \* bound: calls of the reconnect callback, each on a goroutine
  CnApps,          \* bound: connections of applications to the SOCKS port
  CnCredentials    \* user and password are configured

ASSUME CnAssumption == IsFiniteSet(CnCallbacks) /\ CnCredentials \in BOOLEAN /\ "run" \notin CnCallbacks

VARIABLES
  cnRun,        \* where RunWithReady is
  cnOver,       \* the context of the run is cancelled
  cnLink,       \* the link: "none", "open", "closed"
  cnConn, cnSession,    \* c.conn and c.session, 0 for nil
  cnMade,       \* connections and sessions made so far
  cnOpen,       \* those that are not closed
  cnMaker,      \* [Maker -> where it is with its pair, and the session it made]
  cnListens,    \* the SOCKS port is open
  cnApp,        \* [App -> where handleSocks5 is and its session]
  cnCrossings   \* history: the callbacks that began beside a maker or outside of the service,
                \* and a shutdown beside a maker

cnVars == <<cnRun, cnOver, cnLink, cnConn, cnSession, cnMade, cnOpen, cnMaker, cnListens, cnApp, cnCrossings>>
cnPair == <<cnConn, cnSession, cnMade, cnOpen, cnMaker>>
cnSocks == <<cnListens, cnApp>>

Makers == CnCallbacks \cup {"run"}
Ids == 0..(2 * Cardinality(Makers))

CnTypeOK ==
  /\ cnRun \in {"new", "link", "pair", "serve", "shut", "close", "returned", "failed", "panic"}
  /\ {cnOver, cnListens} \subseteq BOOLEAN /\ cnCrossings \in Nat /\ cnLink \in {"none", "open", "closed"}
  /\ {cnConn, cnSession, cnMade} \subseteq Ids /\ cnOpen \subseteq 1..cnMade
  /\ cnMaker \in [Makers -> [at : {"idle", "begun", "conn", "session", "done"}, made : Ids]]
  /\ cnApp \in [CnApps -> [at : {"out", "greets", "asks", "tunnel", "over"}, session : Ids]]

CnInit ==
  /\ cnRun = "new" /\ cnOver = FALSE /\ cnLink = "none"
  /\ cnConn = 0 /\ cnSession = 0 /\ cnMade = 0 /\ cnOpen = {}
  /\ cnMaker = [p \in Makers |-> [at |-> "idle", made |-> 0]]
  /\ cnListens = FALSE /\ cnApp = [a \in CnApps |-> [at |-> "out", session |-> 0]]
  /\ cnCrossings = 0

Alive == cnRun # "panic"
Midway == \E p \in Makers : cnMaker[p].at \in {"begun", "conn", "session"}

Counts(it) == IF it THEN 1 ELSE 0

CnRunGoes(from, to) == cnRun = from /\ cnRun' = to

-----------------------------------------------------------------------------
(* A pair is made.                                                         *)

CnMakerGoes(p, from, to) == Alive /\ cnMaker[p].at = from /\ cnMaker' = [cnMaker EXCEPT ![p].at = to]

CnMakesConn(p) ==
  /\ CnMakerGoes(p, "begun", "conn")
  /\ cnMade' = cnMade + 1 /\ cnConn' = cnMade' /\ cnOpen' = cnOpen \cup {cnMade'}
  /\ UNCHANGED <<cnRun, cnOver, cnLink, cnSession, cnSocks, cnCrossings>>

(* smux.Client reads c.conn again; if another callback has just taken it   *)
(* away, the reader of the session follows a nil pointer.                  *)
CnMakesSession(p) ==
  /\ Alive /\ cnMaker[p].at = "conn"
  /\ IF cnConn = 0 THEN cnRun' = "panic" /\ UNCHANGED <<cnMade, cnOpen, cnMaker>>
     ELSE /\ cnMade' = cnMade + 1 /\ cnOpen' = cnOpen \cup {cnMade'}
          /\ cnMaker' = [cnMaker EXCEPT ![p] = [at |-> "session", made |-> cnMade']]
          /\ UNCHANGED cnRun
  /\ UNCHANGED <<cnOver, cnLink, cnConn, cnSession, cnSocks, cnCrossings>>

CnInstalls(p) ==
  /\ CnMakerGoes(p, "session", "done") /\ cnSession' = cnMaker[p].made
  /\ UNCHANGED <<cnRun, cnOver, cnLink, cnConn, cnMade, cnOpen, cnSocks, cnCrossings>>

(* What stays open when the pair is closed under sessMu.                   *)
(* Mutation: the session is forgotten.                                     *)
KeptButConn(open, conn, session) == open \ {conn}
Kept(open, conn, session) == open \ {conn, session}

(* handleReconnect up to its first unlock.                                 *)
CnReconnects(p) ==
  /\ p # "run" /\ cnLink # "none" /\ CnMakerGoes(p, "idle", "begun")
  /\ cnOpen' = Kept(cnOpen, cnConn, cnSession) /\ cnConn' = 0 /\ cnSession' = 0
  /\ cnCrossings' = cnCrossings + Counts(Midway \/ cnRun \in {"link", "close", "returned", "failed"})
  /\ UNCHANGED <<cnRun, cnOver, cnLink, cnMade, cnSocks>>

-----------------------------------------------------------------------------
(* RunWithReady and bringUpLink.                                           *)

(* A bad key, or a link that cannot be made; else its callbacks are set.   *)
CnMakesLink ==
  /\ \/ CnRunGoes("new", "failed") /\ UNCHANGED cnLink
     \/ CnRunGoes("new", "link") /\ cnLink' = "open"
  /\ UNCHANGED <<cnOver, cnPair, cnSocks, cnCrossings>>

(* A Connect that fails leaves the link as it is.                          *)
CnConnects ==
  /\ \/ CnRunGoes("link", "failed") /\ cnOver' = TRUE /\ UNCHANGED cnMaker
     \/ /\ CnRunGoes("link", "pair") /\ UNCHANGED cnOver
        /\ cnMaker' = [cnMaker EXCEPT !["run"].at = "begun"]
  /\ UNCHANGED <<cnLink, cnConn, cnSession, cnMade, cnOpen, cnSocks, cnCrossings>>

(* A port that cannot be opened ends the run.                              *)
CnListen ==
  /\ cnMaker["run"].at = "done"
  /\ \/ CnRunGoes("pair", "shut") /\ UNCHANGED cnListens
     \/ CnRunGoes("pair", "serve") /\ ~cnOver /\ cnListens' = TRUE
  /\ UNCHANGED <<cnOver, cnLink, cnPair, cnApp, cnCrossings>>

(* The caller cancels, or the carrier ends the conference.                 *)
CnCancel ==
  /\ Alive /\ cnLink # "none" /\ ~cnOver /\ cnOver' = TRUE
  /\ UNCHANGED <<cnRun, cnLink, cnPair, cnSocks, cnCrossings>>

CnStopsListening ==
  /\ CnRunGoes("serve", "shut") /\ cnOver /\ cnListens' = FALSE
  /\ UNCHANGED <<cnOver, cnLink, cnPair, cnApp, cnCrossings>>

(* shutdown, under sessMu and after it; the fields are kept.               *)
CnShutsDown ==
  /\ CnRunGoes("shut", "close") /\ cnOpen' = Kept(cnOpen, cnConn, cnSession)
  /\ cnCrossings' = cnCrossings + Counts(Midway)
  /\ UNCHANGED <<cnOver, cnLink, cnConn, cnSession, cnMade, cnMaker, cnSocks>>

CnReturns ==
  /\ CnRunGoes("close", "returned") /\ cnLink' = "closed" /\ cnOver' = TRUE
  /\ UNCHANGED <<cnPair, cnSocks, cnCrossings>>

-----------------------------------------------------------------------------
(* acceptLoop and handleSocks5.                                            *)

CnAppGoes(a, from, to) == Alive /\ cnApp[a].at = from /\ cnApp' = [cnApp EXCEPT ![a].at = to]
cnRest == <<cnRun, cnOver, cnLink, cnPair, cnListens, cnCrossings>>

CnAccepts(a) == cnListens /\ CnAppGoes(a, "out", "greets") /\ UNCHANGED cnRest

(* No authentication is preferred, also when credentials are configured.   *)
Greeted(offers, right) == "none" \in offers \/ (CnCredentials /\ "password" \in offers /\ right)

CnHandshake(a) ==
  /\ \E offers \in SUBSET {"none", "password"}, right \in BOOLEAN :
       CnAppGoes(a, "greets", IF Greeted(offers, right) THEN "asks" ELSE "over")
  /\ UNCHANGED cnRest

(* A request that cannot be read, or of another kind than CONNECT.         *)
CnBadRequest(a) == CnAppGoes(a, "asks", "over") /\ UNCHANGED cnRest

(* The session is read under sessMu and tested for being closed.           *)
CnRequest(a) ==
  /\ Alive /\ cnApp[a].at = "asks"
  /\ cnApp' = [cnApp EXCEPT ![a] =
       [at |-> IF cnSession \in cnOpen THEN "tunnel" ELSE "over", session |-> cnSession]]
  /\ UNCHANGED cnRest

CnTunnelEnds(a) == CnAppGoes(a, "tunnel", "over") /\ UNCHANGED cnRest

-----------------------------------------------------------------------------
CnNext ==
  \/ CnMakesLink \/ CnConnects \/ CnListen \/ CnCancel \/ CnStopsListening \/ CnShutsDown \/ CnReturns
  \/ \E p \in Makers : CnMakesConn(p) \/ CnMakesSession(p) \/ CnInstalls(p) \/ CnReconnects(p)
  \/ \E a \in CnApps : CnAccepts(a) \/ CnHandshake(a) \/ CnBadRequest(a) \/ CnRequest(a) \/ CnTunnelEnds(a)

CnSpec == CnInit /\ [][CnNext]_cnVars

-----------------------------------------------------------------------------
(* Properties.                                                             *)

(* Each reconnect callback, and the run itself, leaves one connection and  *)
(* one session open at a time, those the client knows of, and closes them  *)
(* before it makes others.  Callbacks that run beside another maker, or    *)
(* before or after the service, and a shutdown beside a maker, each leave  *)
(* one pair open at most, for which nobody has a name any more; without    *)
(* them nothing is left when the run is over, and the program does not     *)
(* follow a nil connection.  A run that has returned has closed the link;  *)
(* one that failed has not (client.go:229): nothing is said of its link.   *)
CnNothingLeft ==
  /\ ~Midway => Cardinality(cnOpen \ {cnConn, cnSession}) <= 2 * cnCrossings
  /\ cnRun \in {"returned", "failed"} => Cardinality(cnOpen) <= 2 * cnCrossings /\ ~cnListens
  /\ cnRun = "returned" => cnLink = "closed"
  /\ cnRun = "panic" => cnCrossings > 0

=============================================================================
