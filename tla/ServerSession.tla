---------------------------- MODULE ServerSession ----------------------------
(***************************************************************************)
(* The smux session of the server (internal/server/server.go) over its     *)
(* life: Run installs a first one and accepts streams on whatever session  *)
(* is installed; when the session dies Run replaces it, and so does every  *)
(* reconnect callback of the link, at the same time if it likes; at the    *)
(* end of the context a goroutine of its own closes it.                    *)
(*                                                                         *)
(* A session has a number, with the muxconn it runs over: the code sets,   *)
(* closes and forgets both together under sessMu.  smux is modelled by     *)
(* what server.go relies on: AcceptStream and the streams of a session     *)
(* return with an error once it is closed or its reader failed.            *)
(***************************************************************************)
EXTENDS Naturals, FiniteSets

CONSTANTS
  WatchCallback,  \* callbacks made by WatchConnection, which Run waits for
  TrackCallback,  \* callbacks made by the goroutine of a video track (vp8channel)
  MaxSessions     \* bound: sessions that are ever created

ASSUME SessionsAssumption == MaxSessions \in Nat \ {0}
ASSUME CallbackAssumption ==
  /\ WatchCallback \cap TrackCallback = {}
  /\ {"run", "free"} \cap (WatchCallback \cup TrackCallback) = {}

Callback == WatchCallback \cup TrackCallback
Thread == {"run"} \cup Callback
Session == 1..MaxSessions
Nil == 0
Free == "free"

VARIABLES
  ctx,          \* runCtx: "live" or "done"
  session,      \* s.session and s.conn, Nil for none
  created,      \* sessions made so far
  open,         \* sessions that were made and not closed
  broken,       \* sessions whose reader has failed
  reinstallMu,  \* the thread that holds it
  pc,           \* pc[t]: where Run and the callbacks are
  seen,         \* seen[t]: the session a thread read under sessMu, then the one it made
  closer,       \* the goroutine that waits for the context: "off", "waiting" or "done"
  watcher,      \* WatchConnection: "off", "up" or "done"
  handlers,     \* sessions with a handleStream that has not returned
  early         \* history: a callback replaced a session before Run had published its first

vars == <<ctx, session, created, open, broken, reinstallMu, pc, seen, closer, watcher, handlers, early>>

RunPc == {"connect", "publish0", "top", "read", "poll", "accept", "shutdown", "wait", "returned"}
CallbackPc == {"idle", "over"}
ReinstallPc == {"lock", "install", "publish"}

TypeOK ==
  /\ ctx \in {"live", "done"}
  /\ session \in Session \cup {Nil} /\ created \in 0..MaxSessions
  /\ open \subseteq Session /\ broken \subseteq Session /\ handlers \subseteq Session
  /\ reinstallMu \in Thread \cup {Free}
  /\ pc \in [Thread -> RunPc \cup CallbackPc \cup ReinstallPc]
  /\ pc["run"] \notin CallbackPc /\ \A c \in Callback : pc[c] \notin RunPc
  /\ seen \in [Thread -> Session \cup {Nil}]
  /\ closer \in {"off", "waiting", "done"} /\ watcher \in {"off", "up", "done"} /\ early \in BOOLEAN
  /\ pc["run"] = "accept" => seen["run"] # Nil

Init ==
  /\ ctx = "live" /\ session = Nil /\ created = 0
  /\ open = {} /\ broken = {} /\ handlers = {}
  /\ reinstallMu = Free
  /\ pc = [t \in Thread |-> IF t = "run" THEN "connect" ELSE "idle"]
  /\ seen = [t \in Thread |-> Nil]
  /\ closer = "off" /\ watcher = "off" /\ early = FALSE

Goto(t, where) == pc' = [pc EXCEPT ![t] = where]
Back(t) == IF t = "run" THEN "top" ELSE "over"

(* bringUpLink has set the callback and is in Connect or in its own         *)
(* installSession, which does not take reinstallMu.                        *)
BringingUp == pc["run"] \in {"connect", "publish0"}

(* A session whose streams and whose AcceptStream wait.                    *)
Serving(s) == s \in open \ broken

(* installSession: the new session, then its publication under sessMu.     *)
Make(t, where) ==
  /\ created < MaxSessions
  /\ created' = created + 1
  /\ open' = open \cup {created'}
  /\ seen' = [seen EXCEPT ![t] = created']
  /\ Goto(t, where)

-----------------------------------------------------------------------------
(* Run: bringUpLink, serve, shutdown.                                      *)

FirstInstall ==
  /\ pc["run"] = "connect"
  /\ Make("run", "publish0")
  /\ UNCHANGED <<ctx, session, broken, reinstallMu, closer, watcher, handlers, early>>

(* Connect fails: Run returns at once.                                     *)
ConnectFails ==
  /\ pc["run"] = "connect"
  /\ Goto("run", "returned")
  /\ ctx' = "done"
  /\ UNCHANGED <<session, created, open, broken, reinstallMu, seen, closer, watcher, handlers, early>>

FirstPublish ==
  /\ pc["run"] = "publish0"
  /\ session' = seen["run"]
  /\ closer' = "waiting" /\ watcher' = "up"
  /\ Goto("run", "top")
  /\ UNCHANGED <<ctx, created, open, broken, reinstallMu, seen, handlers, early>>

ServeTop ==
  /\ pc["run"] = "top"
  /\ Goto("run", IF ctx = "done" THEN "shutdown" ELSE "read")
  /\ UNCHANGED <<ctx, session, created, open, broken, reinstallMu, seen, closer, watcher, handlers, early>>

(* Mutation of ServeRead: no check for a session that is not there.        *)
ServeReadAny ==
  /\ pc["run"] = "read"
  /\ seen' = [seen EXCEPT !["run"] = session]
  /\ Goto("run", "accept")
  /\ UNCHANGED <<ctx, session, created, open, broken, reinstallMu, closer, watcher, handlers, early>>

ServeRead ==
  /\ pc["run"] = "read"
  /\ seen' = [seen EXCEPT !["run"] = session]
  /\ Goto("run", IF session = Nil THEN "poll" ELSE "accept")
  /\ UNCHANGED <<ctx, session, created, open, broken, reinstallMu, closer, watcher, handlers, early>>

(* 50 ms without a session, or the end of the context.                     *)
ServePoll ==
  /\ pc["run"] = "poll"
  /\ \/ Goto("run", "top")
     \/ ctx = "done" /\ Goto("run", "shutdown")
  /\ UNCHANGED <<ctx, session, created, open, broken, reinstallMu, seen, closer, watcher, handlers, early>>

AcceptStream ==
  /\ pc["run"] = "accept" /\ Serving(seen["run"])
  /\ handlers' = handlers \cup {seen["run"]}
  /\ Goto("run", "top")
  /\ UNCHANGED <<ctx, session, created, open, broken, reinstallMu, seen, closer, watcher, early>>

AcceptFails ==
  /\ pc["run"] = "accept" /\ ~Serving(seen["run"])
  /\ Goto("run", IF ctx = "done" THEN "shutdown" ELSE "lock")
  /\ UNCHANGED <<ctx, session, created, open, broken, reinstallMu, seen, closer, watcher, handlers, early>>

CloseSession == session' = Nil /\ open' = open \ {session}

Shutdown ==
  /\ pc["run"] = "shutdown"
  /\ CloseSession
  /\ Goto("run", "wait")
  /\ UNCHANGED <<ctx, created, broken, reinstallMu, seen, closer, watcher, handlers, early>>

RunReturn ==
  /\ pc["run"] = "wait" /\ handlers = {} /\ watcher = "done"
  /\ Goto("run", "returned")
  /\ UNCHANGED <<ctx, session, created, open, broken, reinstallMu, seen, closer, watcher, handlers, early>>

-----------------------------------------------------------------------------
(* handleReconnect and reinstallSession.                                   *)

(* handleReconnect reads the current session.  WatchConnection makes one   *)
(* callback at a time; it may still do so after the end of the context.    *)
(* The goroutine of a track may make one while Run is in Connect, and when *)
(* Run has returned because Connect failed.                                *)
HandleReconnect(c) ==
  /\ pc[c] = "idle"
  /\ c \in WatchCallback =>
       watcher = "up" /\ \A d \in WatchCallback : pc[d] \in CallbackPc
  /\ seen' = [seen EXCEPT ![c] = session]
  /\ Goto(c, "lock")
  /\ UNCHANGED <<ctx, session, created, open, broken, reinstallMu, closer, watcher, handlers, early>>

(* Mutation of IsDead: whatever session is installed is replaced.          *)
AnyIsDead(t) == TRUE

IsDead(t) == session = seen[t]

(* Mutation of Unlocked: reinstallMu is not taken.                         *)
NeverLocked == TRUE

Unlocked == reinstallMu = Free

(* Mutation of KeepSession: the early return does not unlock.              *)
KeepLocked(t) ==
  /\ pc[t] = "lock" /\ Unlocked /\ ~IsDead(t)
  /\ reinstallMu' = t
  /\ Goto(t, Back(t))
  /\ UNCHANGED <<ctx, session, created, open, broken, seen, closer, watcher, handlers, early>>

KeepSession(t) ==
  /\ pc[t] = "lock" /\ Unlocked /\ ~IsDead(t)
  /\ Goto(t, Back(t))
  /\ UNCHANGED <<ctx, session, created, open, broken, reinstallMu, seen, closer, watcher, handlers, early>>

TearDown(t) ==
  /\ pc[t] = "lock" /\ Unlocked /\ IsDead(t)
  /\ reinstallMu' = t
  /\ CloseSession
  /\ Goto(t, "install")
  /\ early' = (early \/ BringingUp)
  /\ UNCHANGED <<ctx, created, broken, seen, closer, watcher, handlers>>

Install(t) ==
  /\ pc[t] = "install"
  /\ Make(t, "publish")
  /\ UNCHANGED <<ctx, session, broken, reinstallMu, closer, watcher, handlers, early>>

Publish(t) ==
  /\ pc[t] = "publish"
  /\ session' = seen[t]
  /\ reinstallMu' = Free
  /\ Goto(t, Back(t))
  /\ UNCHANGED <<ctx, created, open, broken, seen, closer, watcher, handlers, early>>

-----------------------------------------------------------------------------
(* The context, the other goroutines, and smux.                            *)

Cancel ==
  /\ ctx = "live"
  /\ ctx' = "done"
  /\ UNCHANGED <<session, created, open, broken, reinstallMu, pc, seen, closer, watcher, handlers, early>>

CloseAtEnd ==
  /\ closer = "waiting" /\ ctx = "done"
  /\ CloseSession
  /\ closer' = "done"
  /\ UNCHANGED <<ctx, created, broken, reinstallMu, pc, seen, watcher, handlers, early>>

WatchEnds ==
  /\ watcher = "up" /\ ctx = "done"
  /\ \A c \in WatchCallback : pc[c] \in CallbackPc
  /\ watcher' = "done"
  /\ UNCHANGED <<ctx, session, created, open, broken, reinstallMu, pc, seen, closer, handlers, early>>

(* The reader of a session fails (a frame it cannot parse); one more       *)
(* session can still be made.                                              *)
Break(s) ==
  /\ Serving(s) /\ created < MaxSessions - Cardinality(Callback)
  /\ broken' = broken \cup {s}
  /\ UNCHANGED <<ctx, session, created, open, reinstallMu, pc, seen, closer, watcher, handlers, early>>

(* A stream of a dead session ends; the peer may end any.                  *)
StreamEnds(s) ==
  /\ s \in handlers
  /\ handlers' = handlers \ {s}
  /\ UNCHANGED <<ctx, session, created, open, broken, reinstallMu, pc, seen, closer, watcher, early>>

-----------------------------------------------------------------------------
ReinstallStep(t) == KeepSession(t) \/ TearDown(t) \/ Install(t) \/ Publish(t)

RunStep ==
  \/ FirstInstall \/ ConnectFails \/ FirstPublish \/ ServeTop \/ ServeRead \/ ServePoll
  \/ AcceptStream \/ AcceptFails \/ Shutdown \/ RunReturn

Next ==
  \/ RunStep \/ Cancel \/ CloseAtEnd \/ WatchEnds
  \/ \E c \in Callback : HandleReconnect(c)
  \/ \E t \in Thread : ReinstallStep(t)
  \/ \E s \in Session : Break(s) \/ StreamEnds(s)

Spec == Init /\ [][Next]_vars

(* Goroutines go on; nobody need open or end a stream of a session that    *)
(* lives, cancel the context or reconnect.                                 *)
Fairness ==
  /\ WF_vars(RunStep /\ ~AcceptStream)
  /\ WF_vars(CloseAtEnd) /\ WF_vars(WatchEnds)
  /\ \A t \in Thread : WF_vars(ReinstallStep(t))
  /\ \A s \in Session : WF_vars(~Serving(s) /\ StreamEnds(s))

FairSpec == Spec /\ Fairness

-----------------------------------------------------------------------------
(* Properties.                                                             *)

(* Every session that is open is the installed one or in the hands of the  *)
(* one thread that is about to install it: Run and any number of reconnect *)
(* callbacks replace sessions without leaking one, unless a callback       *)
(* replaced one before Run published its first, without reinstallMu.  Then *)
(* a session is overwritten and stays open, but never more than one,       *)
(* however many callbacks there were.                                      *)
BeingInstalled == {seen[t] : t \in {u \in Thread : pc[u] \in {"publish", "publish0"}}}
AtMostOne(S) == \A s, u \in S : s = u
OneSession ==
  /\ ~early => open \subseteq {session} \cup BeingInstalled /\ AtMostOne(open)
  /\ \A s \in open : AtMostOne(open \ {s})

(* Why: the holder of reinstallMu is the one that installs; nothing is     *)
(* open while it does, and only its own session until it published, if     *)
(* nothing was installed before Run published.                             *)
Holder == \A t \in Thread : pc[t] \in {"install", "publish"} <=> reinstallMu = t
BeforeServing == BringingUp /\ ~early => reinstallMu = Free
Empty == \A t \in Thread : pc[t] \in {"connect", "install"} => open = {} /\ session = Nil
Fresh == \A t \in Thread : pc[t] \in {"publish", "publish0"} => open = {seen[t]} /\ session = Nil
Settled == (\A t \in Thread : pc[t] \notin {"publish", "publish0"}) => open \subseteq {session}

(* In any case the callbacks have one session among them until Run         *)
(* publishes its own, and later there is one beside the installed one.     *)
Others == open \ (IF pc["run"] = "publish0" THEN {seen["run"]} ELSE {})
OneOther ==
  BringingUp =>
    /\ reinstallMu = Free => Others \subseteq {session}
    /\ \A t \in Thread : /\ pc[t] = "install" => Others = {}
                         /\ pc[t] = "publish" => Others \subseteq {seen[t]}
OneLost ==
  ~BringingUp =>
    /\ reinstallMu = Free => AtMostOne(open \ {session})
    /\ \A t \in Thread : /\ pc[t] = "install" => AtMostOne(open)
                         /\ pc[t] = "publish" => AtMostOne(open \ {seen[t]})
SessionInv ==
  /\ TypeOK /\ Holder /\ BeforeServing /\ OneOther /\ OneLost
  /\ ~early => Empty /\ Fresh /\ Settled

(* Run's own reinstall closes only a session that is dead: when a callback *)
(* was faster, the session it installed is spared.                         *)
RunSparesSession ==
  [][pc["run"] = "lock" /\ pc'["run"] = "install" => ~Serving(session)]_vars

(* After a session died, or while there is none, one that serves is       *)
(* installed unless the context ends, or Run waits for streams of a        *)
(* session that was overwritten (early).                                   *)
Up == pc["run"] \in {"top", "read", "poll", "accept"} \cup ReinstallPc
Stranded == pc["run"] = "accept" /\ Serving(seen["run"]) /\ seen["run"] # session /\ early
SessionReturns == Up /\ ~Serving(session) ~> Serving(session) \/ ctx = "done" \/ Stranded

(* serve "tolerates session bounces (reconnects) by waiting until a fresh  *)
(* session is installed" (server.go:306): it does not stay with a session  *)
(* that has been replaced.                                                 *)
ServeFollows ==
  pc["run"] = "accept" /\ seen["run"] # session ~> pc["run"] # "accept" \/ seen["run"] = session

(* The end of the context ends Run (TestEndedCallbackStopsClientAndServer  *)
(* in internal/e2e/tunnel_test.go waits for it).                           *)
RunReturns == ctx = "done" ~> pc["run"] = "returned"
=============================================================================
