---------------------------- MODULE ServerProofs ----------------------------
(***************************************************************************)
(* The server never has two sessions open, however many reconnect          *)
(* callbacks run beside Run and however often sessions die, unless one of  *)
(* them came before the first session; then it never has three.  And Run's *)
(* own reinstall closes none that serves.                                  *)
(***************************************************************************)
EXTENDS ServerSession, TLAPS

USE SessionsAssumption, CallbackAssumption DEF Thread, Callback, Session, Nil, Free

(* What the sessions of SessionInv have to do with one another, apart from *)
(* types.                                                                  *)
Sessions == Holder /\ BeforeServing /\ OneOther /\ OneLost /\ (~early => Empty /\ Fresh /\ Settled)

(* Before anything happens the invariant holds.                            *)
LEMMA SessionInit == Init => SessionInv
<1> SUFFICES ASSUME Init PROVE SessionInv
  OBVIOUS
<1>1. TypeOK
  <2>1. pc \in [Thread -> {"connect", "idle"}] /\ pc["run"] = "connect"
    BY DEF Init
  <2>2. \A c \in Callback : c # "run" /\ pc[c] = "idle"
    BY DEF Init
  <2>3. seen \in [Thread -> {Nil}] /\ early \in BOOLEAN
    BY DEF Init
  <2> QED
    BY <2>1, <2>2, <2>3 DEF Init, TypeOK, RunPc, CallbackPc, ReinstallPc
<1>2. /\ \A t \in Thread : pc[t] \in {"connect", "idle"} /\ t # Free
      /\ pc["run"] = "connect" /\ open = {} /\ session = Nil /\ reinstallMu = Free
  BY DEF Init
<1>3. Holder /\ BeforeServing /\ OneOther /\ OneLost
  BY <1>2 DEF Holder, BeforeServing, OneOther, OneLost, BringingUp, Others
<1>4. Empty /\ Fresh /\ Settled
  BY <1>2 DEF Empty, Fresh, Settled
<1> QED
  BY <1>1, <1>3, <1>4 DEF SessionInv

(* Where neither reinstallMu is held nor a session made.                   *)
Elsewhere == {"top", "read", "poll", "accept", "shutdown", "wait", "returned", "idle", "over", "lock"}

(* A step that opens no session, leaves reinstallMu alone and moves one    *)
(* thread between such places; Run may also give up Connect.               *)
LEMMA Moves ==
  ASSUME SessionInv, NEW t \in Thread, NEW where \in Elsewhere,
         pc[t] \in Elsewhere \/ (t = "run" /\ pc[t] = "connect"), Goto(t, where),
         UNCHANGED <<session, open, reinstallMu, early>>,
         \A u \in Thread : u # t => seen'[u] = seen[u]
  PROVE  Sessions'
<1>1. /\ \A u \in Thread : pc'[u] = IF u = t THEN where ELSE pc[u]
      /\ "run" \in Thread
  BY DEF Goto, SessionInv, TypeOK
<1>2. Holder'
  BY <1>1 DEF SessionInv, Holder, Elsewhere
<1>3. BringingUp' => BringingUp /\ t # "run"
  BY <1>1 DEF Elsewhere, BringingUp
<1>4. BeforeServing'
  BY <1>3 DEF SessionInv, BeforeServing
<1>5. Others' = Others
  BY <1>1 DEF Others, Elsewhere
<1>6. \A u \in Thread : pc'[u] \in {"install", "publish"} => pc[u] = pc'[u] /\ seen'[u] = seen[u]
  BY <1>1 DEF Elsewhere
<1>7. OneOther'
  BY <1>3, <1>5, <1>6 DEF SessionInv, OneOther
<1>8. OneLost'
  <2>1. CASE ~BringingUp
    BY <1>6, <2>1 DEF SessionInv, OneLost
  <2>2. CASE BringingUp /\ ~BringingUp'
    <3>1. t = "run" /\ pc["run"] = "connect"
      BY <1>1, <2>2 DEF BringingUp, Elsewhere
    <3>2. Others = open
      BY <3>1 DEF Others
    <3> QED
      BY <1>6, <2>2, <3>2 DEF SessionInv, OneOther, OneLost, AtMostOne
  <2> QED
    BY <2>1, <2>2 DEF OneLost
<1>9. ~early' => Empty' /\ Fresh' /\ Settled'
  <2>1. pc[t] = "connect" /\ ~early => open = {}
    BY DEF SessionInv, Empty
  <2> QED
    BY <1>1, <2>1 DEF SessionInv, Empty, Fresh, Settled, Elsewhere
<1> QED
  BY <1>2, <1>4, <1>7, <1>8, <1>9 DEF Sessions

(* closeSession by Run or by the goroutine that waits for the context.     *)
LEMMA Closes ==
  ASSUME SessionInv, CloseSession, UNCHANGED <<seen, reinstallMu, early>>,
         \/ Goto("run", "wait") /\ pc["run"] = "shutdown"
         \/ UNCHANGED pc
  PROVE  Sessions'
<1>1. \A u \in Thread : pc'[u] = pc[u] \/ (pc[u] = "shutdown" /\ pc'[u] = "wait")
  BY DEF Goto, SessionInv, TypeOK
<1>2. "run" \in Thread /\ BringingUp' = BringingUp /\ Others' \subseteq Others \ {session}
  BY <1>1 DEF BringingUp, Others, CloseSession
<1>3. (Holder /\ BeforeServing)'
  BY <1>1, <1>2 DEF SessionInv, Holder, BeforeServing
<1>4. (OneOther /\ OneLost)'
  BY <1>1, <1>2 DEF SessionInv, OneOther, OneLost, AtMostOne, CloseSession
<1>5. ~early' => Empty' /\ Fresh' /\ Settled'
  BY <1>1 DEF SessionInv, Empty, Fresh, Settled, CloseSession, TypeOK
<1> QED
  BY <1>3, <1>4, <1>5 DEF Sessions

(* The first session, made without reinstallMu.                            *)
LEMMA FirstKeeps == SessionInv /\ (FirstInstall \/ FirstPublish) => SessionInv'
<1> SUFFICES ASSUME SessionInv, FirstInstall \/ FirstPublish PROVE SessionInv'
  OBVIOUS
<1> USE DEF SessionInv
<1>0. "run" \in Thread
  OBVIOUS
<1>1. CASE FirstInstall
  <2>1. /\ created' = created + 1 /\ created' \in Session /\ open' = open \cup {created'}
        /\ pc' = [pc EXCEPT !["run"] = "publish0"] /\ seen' = [seen EXCEPT !["run"] = created']
        /\ pc["run"] = "connect" /\ UNCHANGED <<session, reinstallMu, early>>
    BY <1>1 DEF FirstInstall, Make, Goto, TypeOK
  <2>2. TypeOK'
    BY <1>1, <2>1 DEF FirstInstall, TypeOK, RunPc, CallbackPc, ReinstallPc
  <2>3. (Holder /\ BeforeServing)'
    BY <1>1, <2>1 DEF TypeOK, Holder, BeforeServing, BringingUp
  <2>4. Others' \subseteq Others /\ BringingUp /\ BringingUp'
    BY <1>0, <2>1 DEF Others, BringingUp, TypeOK
  <2>5. \A u \in Thread : pc'[u] \in {"install", "publish"} => pc[u] = pc'[u] /\ seen'[u] = seen[u]
    BY <2>1 DEF TypeOK
  <2>6. OneOther' /\ OneLost'
    BY <2>1, <2>4, <2>5 DEF OneOther, OneLost
  <2>7. ~early' => Empty' /\ Fresh' /\ Settled'
    <3> SUFFICES ASSUME ~early PROVE Empty' /\ Fresh' /\ Settled'
      BY <2>1
    <3>1. open = {} /\ session = Nil /\ \A u \in Thread : u # Free
      BY <1>0, <2>1 DEF Empty
    <3>2. \A u \in Thread : pc[u] \notin {"install", "publish"}
      BY <2>1, <3>1 DEF BeforeServing, BringingUp, Holder
    <3>3. \A u \in Thread : IF u = "run" THEN pc'[u] = "publish0" /\ seen'[u] = created' ELSE pc'[u] = pc[u]
      BY <1>0, <2>1 DEF TypeOK
    <3>4. \A u \in Thread : u # "run" => pc[u] \notin {"connect", "publish0"}
      BY DEF TypeOK, RunPc
    <3> QED
      BY <1>0, <2>1, <3>1, <3>2, <3>3, <3>4 DEF Empty, Fresh, Settled
  <2> QED
    BY <2>2, <2>3, <2>6, <2>7
<1>2. CASE FirstPublish
  <2>1. /\ pc' = [pc EXCEPT !["run"] = "top"] /\ session' = seen["run"] /\ pc["run"] = "publish0"
        /\ UNCHANGED <<open, seen, reinstallMu, early>>
    BY <1>2 DEF FirstPublish, Goto
  <2>2. TypeOK'
    BY <1>2, <2>1 DEF FirstPublish, TypeOK, RunPc, CallbackPc, ReinstallPc
  <2>3. (Holder /\ BeforeServing)'
    BY <1>2, <2>1 DEF TypeOK, Holder, BeforeServing, BringingUp
  <2>4. Others = open \ {session'} /\ BringingUp /\ ~BringingUp'
    BY <1>0, <2>1 DEF Others, BringingUp, TypeOK
  <2>5. \A u \in Thread : pc'[u] \in {"install", "publish"} => pc[u] = pc'[u]
    BY <2>1 DEF TypeOK
  <2>6. OneOther' /\ OneLost'
    BY <2>1, <2>4, <2>5 DEF OneOther, OneLost, AtMostOne
  <2>7. ~early' => Empty' /\ Fresh' /\ Settled'
    <3> SUFFICES ASSUME ~early PROVE Empty' /\ Fresh' /\ Settled'
      BY <2>1
    <3>1. open = {seen["run"]} /\ reinstallMu = Free /\ reinstallMu \notin Thread
      BY <1>0, <2>1 DEF Fresh, BeforeServing, BringingUp
    <3>2. \A u \in Thread : pc'[u] \notin {"connect", "install", "publish", "publish0"}
      BY <1>0, <2>1, <3>1 DEF Holder, TypeOK, RunPc, CallbackPc, ReinstallPc
    <3> QED
      BY <2>1, <3>1, <3>2 DEF Empty, Fresh, Settled
  <2> QED
    BY <2>2, <2>3, <2>6, <2>7
<1> QED
  BY <1>1, <1>2

(* reinstallSession.                                                       *)
LEMMA ReinstallKeeps ==
  ASSUME SessionInv, NEW t \in Thread, TearDown(t) \/ Install(t) \/ Publish(t)
  PROVE  SessionInv'
<1> USE DEF SessionInv
<1>1. /\ pc[t] \in ReinstallPc /\ "run" \in Thread /\ "run" # "free"
      /\ \A u \in Thread : u # "run" => pc[u] \notin {"connect", "publish0"}
  BY DEF TearDown, Install, Publish, ReinstallPc, TypeOK, RunPc
<1>2. BringingUp => t # "run"
  BY <1>1 DEF BringingUp, ReinstallPc
<1>3. CASE TearDown(t)
  <2>1. /\ pc' = [pc EXCEPT ![t] = "install"] /\ reinstallMu = Free /\ reinstallMu' = t
        /\ session' = Nil /\ open' = open \ {session} /\ seen' = seen /\ pc[t] = "lock"
        /\ early' = (early \/ BringingUp)
    BY <1>3 DEF TearDown, Goto, Unlocked, CloseSession
  <2>2. \A u \in Thread : pc[u] \notin {"install", "publish"}
    BY <2>1 DEF Holder
  <2>3. TypeOK'
    BY <1>1, <1>3, <2>1 DEF TearDown, TypeOK, RunPc, CallbackPc, ReinstallPc, BringingUp
  <2>4. Holder'
    BY <2>1, <2>2 DEF Holder, TypeOK
  <2>5. /\ \A u \in Thread : pc'[u] = (IF u = t THEN "install" ELSE pc[u])
        /\ BringingUp' = BringingUp /\ Others' = Others \ {session}
    BY <1>1, <2>1 DEF TypeOK, BringingUp, Others
  <2>6. BeforeServing'
    BY <2>1, <2>5 DEF BeforeServing
  <2>7. (OneOther /\ OneLost)'
    BY <1>1, <2>1, <2>2, <2>5 DEF OneOther, OneLost, AtMostOne
  <2>8. ~early' => Empty' /\ Fresh' /\ Settled'
    <3> SUFFICES ASSUME ~early' PROVE Empty' /\ Fresh' /\ Settled'
      OBVIOUS
    <3>1. ~early /\ pc["run"] \notin {"connect", "publish0"}
      BY <2>1 DEF BringingUp
    <3>2. \A u \in Thread : pc[u] \notin {"connect", "publish0"}
      BY <1>1, <3>1
    <3>3. open' = {}
      BY <2>1, <2>2, <3>1, <3>2 DEF Settled
    <3> QED
      BY <2>1, <2>2, <2>5, <3>2, <3>3 DEF Empty, Fresh, Settled
  <2> QED
    BY <2>3, <2>4, <2>6, <2>7, <2>8
<1>4. CASE Install(t)
  <2>1. /\ created' = created + 1 /\ created < MaxSessions /\ open' = open \cup {created'}
        /\ pc' = [pc EXCEPT ![t] = "publish"] /\ seen' = [seen EXCEPT ![t] = created']
        /\ pc[t] = "install" /\ UNCHANGED <<session, reinstallMu, early>>
    BY <1>4 DEF Install, Make, Goto
  <2>2. created \in 0..MaxSessions
    BY DEF TypeOK
  <2>3. created' \in Session
    BY <2>1, <2>2
  <2>4. reinstallMu' = t /\ \A u \in Thread : u # t => pc[u] \notin {"install", "publish"}
    BY <2>1 DEF Holder
  <2>5. TypeOK'
    BY <1>1, <1>4, <2>1, <2>3 DEF Install, TypeOK, RunPc, CallbackPc, ReinstallPc
  <2>6. Holder'
    BY <2>1, <2>4 DEF Holder, TypeOK
  <2>7. /\ \A u \in Thread : pc'[u] = (IF u = t THEN "publish" ELSE pc[u])
        /\ \A u \in Thread : seen'[u] = (IF u = t THEN created' ELSE seen[u])
        /\ BringingUp' = BringingUp
    BY <1>1, <2>1 DEF TypeOK, BringingUp
  <2>8. Others' \subseteq Others \cup {created'}
    BY <1>1, <2>1, <2>7 DEF Others
  <2>9. BeforeServing'
    BY <2>1, <2>7 DEF BeforeServing
  <2>10. OneOther'
    <3>1. BringingUp => Others = {}
      BY <2>1 DEF OneOther
    <3>3. seen'[t] = created'
      BY <2>7
    <3>2. reinstallMu' # Free /\ \A u \in Thread : pc'[u] # "install" /\ (pc'[u] = "publish" => u = t)
      BY <2>4, <2>7
    <3> QED
      BY <2>7, <2>8, <3>1, <3>2, <3>3 DEF OneOther
  <2>11. OneLost'
    <3>1. ~BringingUp => AtMostOne(open)
      BY <2>1 DEF OneLost
    <3>4. seen'[t] = created'
      BY <2>7
    <3>2. reinstallMu' # Free /\ \A u \in Thread : pc'[u] # "install" /\ (pc'[u] = "publish" => u = t)
      BY <2>4, <2>7
    <3>3. ~BringingUp => AtMostOne(open' \ {seen'[t]})
      BY <2>1, <3>1, <3>4 DEF AtMostOne
    <3> QED
      BY <2>7, <3>2, <3>3 DEF OneLost
  <2>12. ~early' => Empty' /\ Fresh' /\ Settled'
    BY <1>1, <2>1, <2>4, <2>7 DEF BringingUp, BeforeServing, Empty, Fresh, Settled
  <2> QED
    BY <2>5, <2>6, <2>9, <2>10, <2>11, <2>12
<1>5. CASE Publish(t)
  <2>1. /\ pc' = [pc EXCEPT ![t] = Back(t)] /\ Back(t) \in {"top", "over"}
        /\ reinstallMu' = Free /\ session' = seen[t] /\ pc[t] = "publish"
        /\ UNCHANGED <<open, seen, early>>
    BY <1>5 DEF Publish, Goto, Back
  <2>2. \A u \in Thread : u # t => pc[u] \notin {"install", "publish"}
    BY <1>5 DEF Publish, Holder
  <2>3. TypeOK'
    BY <1>1, <1>5, <2>1 DEF Publish, Back, TypeOK, RunPc, CallbackPc, ReinstallPc
  <2>4. Holder'
    BY <2>1, <2>2 DEF Holder, TypeOK
  <2>5. /\ \A u \in Thread : pc'[u] = (IF u = t THEN Back(t) ELSE pc[u])
        /\ BringingUp' = BringingUp /\ Others' = Others
    BY <1>1, <2>1 DEF TypeOK, BringingUp, Others
  <2>6. BeforeServing'
    BY <2>1, <2>5 DEF BeforeServing
  <2>7. (OneOther /\ OneLost)'
    BY <1>1, <2>1, <2>2, <2>5 DEF OneOther, OneLost, AtMostOne
  <2>8. ~early' => Empty' /\ Fresh' /\ Settled'
    <3> SUFFICES ASSUME ~early PROVE Empty' /\ Fresh' /\ Settled'
      BY <2>1
    <3>1. open = {seen[t]} /\ \A u \in Thread : pc[u] \notin {"connect", "publish0"}
      BY <1>1, <2>1 DEF Fresh, BeforeServing, BringingUp, Holder
    <3> QED
      BY <2>1, <2>2, <2>5, <3>1 DEF Empty, Fresh, Settled
  <2> QED
    BY <2>3, <2>4, <2>6, <2>7, <2>8
<1> QED
  BY <1>3, <1>4, <1>5

(* Every step keeps the invariant.                                         *)
LEMMA NextKeeps == SessionInv /\ [Next]_vars => SessionInv'
<1> SUFFICES ASSUME SessionInv, [Next]_vars PROVE SessionInv'
  OBVIOUS
<1> USE DEF RunPc, CallbackPc, ReinstallPc
<1>0. TypeOK /\ "run" \in Thread /\ \A c \in Callback : c \in Thread /\ c # "run"
  BY DEF SessionInv
<1>1. CASE UNCHANGED vars
  BY <1>1 DEF vars, SessionInv, TypeOK, Holder, BeforeServing, OneOther, OneLost, BringingUp, Others,
     AtMostOne, Empty, Fresh, Settled
<1>2. CASE ConnectFails
  <2>1. TypeOK'
    BY <1>0, <1>2 DEF ConnectFails, Goto, TypeOK
  <2> QED
    BY <1>0, <1>2, <2>1, Moves DEF ConnectFails, Elsewhere, Sessions, SessionInv
<1>3. CASE ServeTop \/ ServeRead \/ ServePoll \/ AcceptStream \/ AcceptFails \/ RunReturn
  <2>1. TypeOK'
    <3>1. CASE ServeTop \/ ServePoll \/ RunReturn
      BY <1>0, <3>1 DEF ServeTop, ServePoll, RunReturn, Goto, TypeOK
    <3>2. CASE ServeRead
      BY <1>0, <3>2 DEF ServeRead, Goto, TypeOK
    <3>3. CASE AcceptStream
      BY <1>0, <3>3 DEF AcceptStream, Goto, Serving, TypeOK
    <3>4. CASE AcceptFails
      BY <1>0, <3>4 DEF AcceptFails, Goto, TypeOK
    <3> QED
      BY <1>3, <3>1, <3>2, <3>3, <3>4
  <2>2. PICK where \in Elsewhere : Goto("run", where)
    BY <1>3 DEF ServeTop, ServeRead, ServePoll, AcceptStream, AcceptFails, RunReturn, Elsewhere
  <2>3. pc["run"] \in Elsewhere
    BY <1>3 DEF ServeTop, ServeRead, ServePoll, AcceptStream, AcceptFails, RunReturn, Elsewhere
  <2>4. UNCHANGED <<session, open, reinstallMu, early>> /\ \A u \in Thread : u # "run" => seen'[u] = seen[u]
    BY <1>0, <1>3 DEF ServeTop, ServeRead, ServePoll, AcceptStream, AcceptFails, RunReturn, TypeOK
  <2> QED
    BY <1>0, <2>1, <2>2, <2>3, <2>4, Moves DEF Sessions, SessionInv
<1>4. CASE FirstInstall \/ FirstPublish
  BY <1>4, FirstKeeps
<1>5. CASE Shutdown \/ CloseAtEnd
  <2>1. TypeOK'
    BY <1>0, <1>5 DEF Shutdown, CloseAtEnd, CloseSession, Goto, TypeOK
  <2> QED
    BY <1>5, <2>1, Closes DEF Shutdown, CloseAtEnd, Sessions, SessionInv
<1>6. ASSUME NEW c \in Callback, HandleReconnect(c) PROVE SessionInv'
  <2>1. TypeOK'
    BY <1>0, <1>6 DEF HandleReconnect, Goto, TypeOK
  <2>2. \A u \in Thread : u # c => seen'[u] = seen[u]
    BY <1>0, <1>6 DEF HandleReconnect, TypeOK
  <2> QED
    BY <1>0, <1>6, <2>1, <2>2, Moves DEF HandleReconnect, Elsewhere, Sessions, SessionInv
<1>7. ASSUME NEW t \in Thread, ReinstallStep(t) PROVE SessionInv'
  <2>1. CASE KeepSession(t)
    <3>1. TypeOK'
      BY <1>0, <2>1 DEF KeepSession, Goto, Back, TypeOK
    <3> QED
      BY <2>1, <3>1, Moves DEF KeepSession, Back, Elsewhere, Sessions, SessionInv
  <2> QED
    BY <1>7, <2>1, ReinstallKeeps DEF ReinstallStep
<1>8. CASE Cancel \/ WatchEnds \/ \E s \in Session : Break(s) \/ StreamEnds(s)
  <2>1. UNCHANGED <<session, created, open, reinstallMu, pc, seen, early>>
    BY <1>8 DEF Cancel, WatchEnds, Break, StreamEnds
  <2>2. TypeOK'
    BY <1>0, <1>8 DEF Cancel, WatchEnds, Break, StreamEnds, TypeOK
  <2> QED
    BY <2>1, <2>2 DEF SessionInv, Holder, BeforeServing, OneOther, OneLost, BringingUp, Others,
       AtMostOne, Empty, Fresh, Settled
<1> QED
  BY <1>1, <1>2, <1>3, <1>4, <1>5, <1>6, <1>7, <1>8 DEF Next, RunStep

(* At most one session of the server is open, the installed one or the one *)
(* that is about to be installed: a reconnect never leaves an old session  *)
(* or its muxconn behind, whichever goroutines replace it at once, unless  *)
(* a callback replaced one before Run had published its first.  Then two   *)
(* may be open, and never three, for any number of callbacks.              *)
THEOREM AlwaysOneSession == Spec => []OneSession
<1>1. SessionInv => OneSession
  <2> SUFFICES ASSUME SessionInv PROVE OneSession
    OBVIOUS
  <2>1. ~early => open \subseteq {session} \cup BeingInstalled /\ AtMostOne(open)
    <3> SUFFICES ASSUME ~early PROVE open \subseteq {session} \cup BeingInstalled /\ AtMostOne(open)
      OBVIOUS
    <3>1. CASE \E t \in Thread : pc[t] \in {"publish", "publish0"}
      BY <3>1 DEF SessionInv, Fresh, BeingInstalled, AtMostOne
    <3>2. CASE \A t \in Thread : pc[t] \notin {"publish", "publish0"}
      BY <3>2 DEF SessionInv, Settled, AtMostOne
    <3> QED
      BY <3>1, <3>2
  <2>2. reinstallMu = Free \/ \E t \in Thread : pc[t] \in {"install", "publish"}
    BY DEF SessionInv, Holder, TypeOK
  <2>3. CASE BringingUp
    <3>1. (\A s : AtMostOne({s})) /\ \A S, T : S \subseteq T /\ AtMostOne(T) => AtMostOne(S)
      BY DEF AtMostOne
    <3>2. CASE reinstallMu = Free
      <4>1. Others \subseteq {session}
        BY <2>3, <3>2 DEF SessionInv, OneOther
      <4> QED
        BY <2>1, <3>1, <4>1 DEF Others, AtMostOne, OneSession
    <3>3. CASE \E t \in Thread : pc[t] \in {"install", "publish"}
      <4>1. PICK t \in Thread : pc[t] \in {"install", "publish"}
        BY <3>3
      <4>2. Others \subseteq {seen[t]}
        <5>1. pc[t] = "install" => Others = {}
          BY <2>3, <4>1 DEF SessionInv, OneOther
        <5>2. pc[t] = "publish" => Others \subseteq {seen[t]}
          BY <2>3, <4>1 DEF SessionInv, OneOther
        <5> QED
          BY <4>1, <5>1, <5>2
      <4> QED
        BY <2>1, <3>1, <4>2 DEF Others, AtMostOne, OneSession
    <3> QED
      BY <2>2, <3>2, <3>3
  <2>4. CASE ~BringingUp
    <3>1. CASE reinstallMu = Free
      <4>1. AtMostOne(open \ {session})
        BY <2>4, <3>1 DEF SessionInv, OneLost
      <4> QED
        BY <2>1, <4>1 DEF AtMostOne, OneSession
    <3>2. CASE \E t \in Thread : pc[t] \in {"install", "publish"}
      <4>1. PICK t \in Thread : pc[t] \in {"install", "publish"}
        BY <3>2
      <4>2. AtMostOne(open \ {seen[t]})
        <5>1. pc[t] = "install" => AtMostOne(open)
          BY <2>4, <4>1 DEF SessionInv, OneLost
        <5>2. pc[t] = "publish" => AtMostOne(open \ {seen[t]})
          BY <2>4 DEF SessionInv, OneLost
        <5> QED
          BY <4>1, <5>1, <5>2 DEF AtMostOne
      <4> QED
        BY <2>1, <4>2 DEF AtMostOne, OneSession
    <3> QED
      BY <2>2, <3>1, <3>2
  <2> QED
    BY <2>3, <2>4
<1> QED
  BY SessionInit, NextKeeps, <1>1, PTL DEF Spec

(* Every state of every behaviour has the types TypeOK names.              *)
THEOREM SessionTypes == Spec => []TypeOK
<1>1. SessionInv => TypeOK
  BY DEF SessionInv
<1> QED
  BY SessionInit, NextKeeps, <1>1, PTL DEF Spec
-----------------------------------------------------------------------------
(* What Run may close.  Sessions are numbered as they are made, and one    *)
(* that is dead stays so: a session that Run found dead is dead when it    *)
(* holds reinstallMu, whatever was installed meanwhile.                    *)

Known(s) == s \in 0..created
MadeInv ==
  /\ SessionInv
  /\ Known(session) /\ (\A s \in open : Known(s)) /\ (\A t \in Thread : Known(seen[t]))
  /\ pc["run"] = "lock" => ~Serving(seen["run"])

(* Before its first session Run has seen none.                             *)
LEMMA MadeInit == Init => MadeInv
  BY SessionInit DEF Init, MadeInv, Known

(* No step makes a session that was made before, or brings one to life.    *)
LEMMA MadeStep == MadeInv /\ [Next]_vars => MadeInv'
<1> SUFFICES ASSUME MadeInv, [Next]_vars PROVE MadeInv'
  OBVIOUS
<1>0. SessionInv' /\ SessionInv /\ TypeOK /\ TypeOK'
  BY NextKeeps DEF MadeInv, SessionInv
<1>1. /\ created \in Nat /\ created' \in Nat /\ "run" \in Thread
      /\ seen \in [Thread -> Nat] /\ pc \in [Thread -> RunPc \cup CallbackPc \cup ReinstallPc]
      /\ \A c \in Callback : c # "run"
  BY <1>0 DEF TypeOK
<1>2. ASSUME NEW t \in Thread, NEW where \in {"publish", "publish0"}, Make(t, where),
             session' = session, broken' = broken
      PROVE  MadeInv'
  <2>1. /\ created' = created + 1 /\ open' = open \cup {created + 1}
        /\ seen' = [seen EXCEPT ![t] = created + 1] /\ pc' = [pc EXCEPT ![t] = where]
    BY <1>2 DEF Make, Goto
  <2>2. Known(session)' /\ (\A s \in open' : Known(s)') /\ (\A u \in Thread : Known(seen[u])')
    BY <1>1, <1>2, <2>1 DEF MadeInv, Known
  <2>3. ASSUME pc'["run"] = "lock" PROVE ~Serving(seen["run"])'
    <3>1. pc["run"] = "lock" /\ seen'["run"] = seen["run"] /\ seen["run"] # created + 1
      BY <1>1, <2>1, <2>3 DEF MadeInv, Known
    <3> QED
      BY <1>2, <2>1, <3>1 DEF MadeInv, Serving
  <2> QED
    BY <1>0, <2>2, <2>3 DEF MadeInv
<1>3. ASSUME created' = created, open' \subseteq open, broken \subseteq broken',
             session' \in {session, Nil} \cup {seen[t] : t \in Thread},
             \A t \in Thread : seen'[t] \in {seen[t], session},
             pc'["run"] = "lock" => seen'["run"] = seen["run"] /\ ~Serving(seen["run"])
      PROVE  MadeInv'
  <2>1. Known(session)' /\ (\A s \in open' : Known(s)') /\ (\A u \in Thread : Known(seen[u])')
    BY <1>1, <1>3 DEF MadeInv, Known
  <2> QED
    BY <1>0, <1>3, <2>1 DEF MadeInv, Serving
<1>4. CASE FirstInstall
  BY <1>1, <1>2, <1>4 DEF FirstInstall
<1>5. ASSUME NEW t \in Thread, Install(t) PROVE MadeInv'
  BY <1>2, <1>5 DEF Install
<1>6. ASSUME UNCHANGED <<created, open, seen, session, broken>>,
             pc'["run"] = "lock" => pc["run"] = "lock" \/ ~Serving(seen["run"])
      PROVE  MadeInv'
  BY <1>3, <1>6 DEF MadeInv
<1>7. CASE ConnectFails \/ ServeTop \/ ServePoll \/ AcceptStream \/ AcceptFails \/ RunReturn
  BY <1>1, <1>6, <1>7 DEF ConnectFails, ServeTop, ServePoll, AcceptStream, AcceptFails, RunReturn, Goto
<1>8. CASE FirstPublish \/ ServeRead \/ Shutdown
  <2>1. pc'["run"] # "lock"
    BY <1>1, <1>8 DEF FirstPublish, ServeRead, Shutdown, Goto
  <2> QED
    BY <1>1, <1>3, <1>8, <2>1 DEF FirstPublish, ServeRead, Shutdown, CloseSession
<1>9. ASSUME NEW t \in Thread, KeepSession(t) \/ TearDown(t) \/ Publish(t) PROVE MadeInv'
  <2>1. pc'["run"] = "lock" => pc["run"] = "lock"
    BY <1>1, <1>9 DEF KeepSession, TearDown, Publish, Goto, Back
  <2> QED
    BY <1>3, <1>9, <2>1 DEF KeepSession, TearDown, Publish, CloseSession, MadeInv
<1>10. ASSUME NEW c \in Callback, HandleReconnect(c) PROVE MadeInv'
  <2>1. pc'["run"] = pc["run"] /\ seen'["run"] = seen["run"] /\ \A t \in Thread : seen'[t] \in {seen[t], session}
    BY <1>1, <1>10 DEF HandleReconnect, Goto
  <2> QED
    BY <1>3, <1>10, <2>1 DEF HandleReconnect, MadeInv
<1>11. ASSUME UNCHANGED <<created, seen, pc>>, open' \subseteq open, broken \subseteq broken',
              session' \in {session, Nil}
       PROVE  MadeInv'
  BY <1>3, <1>11 DEF MadeInv
<1>12. CASE Cancel \/ CloseAtEnd \/ WatchEnds \/ \E s \in Session : Break(s) \/ StreamEnds(s)
  BY <1>11, <1>12 DEF Cancel, CloseAtEnd, WatchEnds, Break, StreamEnds, CloseSession
<1>13. CASE UNCHANGED vars
  BY <1>11, <1>13 DEF vars
<1> QED
  BY <1>4, <1>5, <1>7, <1>8, <1>9, <1>10, <1>12, <1>13 DEF Next, RunStep, ReinstallStep

(* Run's own reinstall closes only a session that is dead: however many    *)
(* callbacks were faster, what they installed is spared.                   *)
THEOREM RunSparesWhatServes == Spec => RunSparesSession
<1>1. MadeInv /\ [Next]_vars => [pc["run"] = "lock" /\ pc'["run"] = "install" => ~Serving(session)]_vars
  <2> SUFFICES ASSUME MadeInv, Next, pc["run"] = "lock", pc'["run"] = "install" PROVE ~Serving(session)
    OBVIOUS
  <2>0. /\ pc \in [Thread -> RunPc \cup CallbackPc \cup ReinstallPc] /\ "run" \in Thread
        /\ \A c \in Callback : c # "run"
    BY DEF MadeInv, SessionInv, TypeOK
  <2>1. TearDown("run")
    <3>1. ~RunStep /\ pc' # pc
      BY <2>0 DEF RunStep, FirstInstall, ConnectFails, FirstPublish, ServeTop, ServeRead, ServePoll,
                  AcceptStream, AcceptFails, Shutdown, RunReturn
    <3>2. \E t \in Thread : ReinstallStep(t)
      BY <2>0, <3>1 DEF Next, Cancel, CloseAtEnd, WatchEnds, Break, StreamEnds, HandleReconnect, Goto
    <3>3. PICK t \in Thread : ReinstallStep(t)
      BY <3>2
    <3>4. \/ Goto(t, Back(t)) \/ Goto(t, "install") \/ Goto(t, "publish")
      BY <3>3 DEF ReinstallStep, KeepSession, TearDown, Install, Publish, Make
    <3>5. t = "run"
      BY <2>0, <3>4 DEF Goto
    <3>6. ~KeepSession("run")
      BY <2>0 DEF KeepSession, Goto, Back
    <3> QED
      BY <3>3, <3>5, <3>6 DEF ReinstallStep, Install, Publish
  <2>2. session = seen["run"]
    BY <2>1 DEF TearDown, IsDead
  <2> QED
    BY <2>2 DEF MadeInv
<1> QED
  BY <1>1, MadeInit, MadeStep, PTL DEF Spec, RunSparesSession
=============================================================================
