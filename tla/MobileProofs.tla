---------------------------- MODULE MobileProofs ----------------------------
(***************************************************************************)
(* MobileRuntime keeps at most one client and knows it, and WaitReady is   *)
(* never answered by an older run, for any number of threads and of runs.  *)
(***************************************************************************)
EXTENDS MobileRuntime, TLAPS

USE DEF Run

(* Before the first Start the invariant holds.                             *)
LEMMA MobileInit == Init => MobileInv
<1> SUFFICES ASSUME Init PROVE MobileInv
  OBVIOUS
<1>1. NoCall("none") \in CallType
  BY StartsAssumption DEF NoCall, Call, CallType, Result
<1>2. TypeOK
  BY <1>1, StartsAssumption DEF Init, TypeOK
<1> QED
  BY <1>2 DEF Init, MobileInv, RunningIsKnown, Alive, LastStarted, ReadyChannels, HeldTogether,
                    ReadyIsTrue, NoCall, Call

(* Start, refused or not.                                                  *)
LEMMA StartKeeps ==
  ASSUME MobileInv, NEW c \in Caller, Start(c) \/ StartRefused(c)
  PROVE  MobileInv'
<1> USE DEF MobileInv, globals, channels
<1>0. \A x \in Result : NoCall(x) \in CallType
  BY StartsAssumption DEF NoCall, Call, CallType
<1>1. CASE StartRefused(c)
  <2>1. call' = [call EXCEPT ![c] = NoCall("running")] /\ NoCall("running") \in CallType
    BY <1>0, <1>1 DEF StartRefused, Return, Result
  <2>2. TypeOK'
    BY <1>1, <2>1 DEF StartRefused, TypeOK
  <2>3. (HeldTogether /\ ReadyIsTrue)'
    BY <1>1, <2>1 DEF StartRefused, TypeOK, NoCall, Call, HeldTogether, ReadyIsTrue
  <2> QED
    BY <1>1, <2>2, <2>3 DEF StartRefused, RunningIsKnown, Alive, LastStarted, ReadyChannels
<1>2. CASE Start(c)
  <2>1. call' = [call EXCEPT ![c] = NoCall("started")] /\ NoCall("started") \in CallType
    BY <1>0, <1>2 DEF Start, Return, Result
  <2>2. starts' = starts + 1 /\ starts' \in Run
    BY <1>2, StartsAssumption DEF Start, TypeOK
  <2>3. TypeOK'
    BY <1>2, <2>1, <2>2 DEF Start, TypeOK
  <2>4. (HeldTogether /\ ReadyIsTrue)'
    BY <1>2, <2>1 DEF Start, TypeOK, NoCall, Call, HeldTogether, ReadyIsTrue
  <2>5. \A r \in Run : ~Alive(r)
    BY <1>2 DEF Start, RunningIsKnown
  <2>6. RunningIsKnown'
    BY <1>2, <2>2, <2>5 DEF Start, TypeOK, RunningIsKnown, Alive
  <2>7. LastStarted'
    BY <1>2, <2>2 DEF Start, TypeOK, LastStarted
  <2> QED
    BY <1>2, <2>3, <2>4, <2>6, <2>7 DEF Start, ReadyChannels
<1> QED
  BY <1>1, <1>2

(* The goroutine of a run.                                                 *)
LEMMA GoroutineKeeps ==
  ASSUME MobileInv, NEW r \in Run, GoroutineStep(r)
  PROVE  MobileInv'
<1> USE DEF MobileInv, globals, channels
<1>1. CASE ClientReady(r)
  <2>1. TypeOK'
    BY <1>1 DEF ClientReady, TypeOK
  <2>2. (RunningIsKnown /\ LastStarted /\ HeldTogether)'
    BY <1>1 DEF ClientReady, RunningIsKnown, Alive, LastStarted, HeldTogether
  <2>3. (ReadyChannels /\ ReadyIsTrue)'
    BY <1>1 DEF ClientReady, ReadyChannels, ReadyIsTrue
  <2> QED
    BY <2>1, <2>2, <2>3
<1>2. CASE ClientReturns(r)
  <2>1. PICK e \in {"nil", "err"} : runErr' = [runErr EXCEPT ![r] = e]
    BY <1>2 DEF ClientReturns
  <2>2. TypeOK'
    BY <1>2, <2>1 DEF ClientReturns, TypeOK
  <2>3. (RunningIsKnown /\ LastStarted)'
    BY <1>2 DEF ClientReturns, TypeOK, RunningIsKnown, Alive, LastStarted
  <2> QED
    BY <1>2, <2>2, <2>3 DEF ClientReturns, ReadyChannels, HeldTogether, ReadyIsTrue
<1>3. CASE Publish(r)
  <2>1. TypeOK'
    BY <1>3, StartsAssumption DEF Publish, TypeOK
  <2>2. \A q \in Run : q # r => ~Alive(q)
    BY <1>3 DEF Publish, RunningIsKnown, Alive
  <2>3. (RunningIsKnown /\ LastStarted)'
    BY <1>3, <2>2 DEF Publish, TypeOK, RunningIsKnown, Alive, LastStarted
  <2> QED
    BY <1>3, <2>1, <2>3 DEF Publish, ReadyChannels, HeldTogether, ReadyIsTrue
<1>4. CASE CloseDone(r)
  <2>1. done \in Run
    BY <1>4, StartsAssumption DEF CloseDone, LastStarted, TypeOK
  <2>2. TypeOK'
    BY <1>4, <2>1 DEF CloseDone, TypeOK
  <2>3. (RunningIsKnown /\ LastStarted)'
    BY <1>4 DEF CloseDone, TypeOK, RunningIsKnown, Alive, LastStarted
  <2> QED
    BY <1>4, <2>2, <2>3 DEF CloseDone, ReadyChannels, HeldTogether, ReadyIsTrue
<1> QED
  BY <1>1, <1>2, <1>3, <1>4 DEF GoroutineStep

(* Stop and WaitReady.                                                     *)
LEMMA CallKeeps ==
  ASSUME MobileInv, NEW c \in Caller,
         \/ StopIdle(c) \/ StopRead(c) \/ WaitReadyAtOnce(c) \/ WaitReadyBlock(c) \/ CallStep(c)
  PROVE  MobileInv'
<1> USE DEF MobileInv, globals, channels
<1>0. /\ \A x \in Result : NoCall(x) \in CallType
      /\ call[c] \in CallType
      /\ {"none", "gone", "ready", "error", "stopped", "timeout"} \subseteq Result
      /\ Stopped \in Result
  BY StartsAssumption DEF NoCall, Call, CallType, Result, TypeOK, Stopped
<1>1. ASSUME NEW x \in CallType, call' = [call EXCEPT ![c] = x],
             UNCHANGED <<globals, goroutine, runErr, readyCalled, readyClosed, doneClosed, process>>,
             cancelled' \subseteq Run,
             x.run # 0 => x.r = x.run,
             x.op # "none" => x.run # 0,
             x.result = "ready" /\ x.run # 0 => x.run \in readyCalled
      PROVE  MobileInv'
  <2>1. TypeOK'
    BY <1>1 DEF TypeOK
  <2>2. (HeldTogether /\ ReadyIsTrue)'
    BY <1>1 DEF TypeOK, HeldTogether, ReadyIsTrue
  <2> QED
    BY <1>1, <2>1, <2>2 DEF RunningIsKnown, Alive, LastStarted, ReadyChannels
<1>2. ASSUME NEW x \in Result, Return(c, x), x # "ready", UNCHANGED <<globals, goroutine, runErr, channels>>
      PROVE  MobileInv'
  <2>1. NoCall(x).op = "none" /\ NoCall(x).run = 0 /\ NoCall(x).result = x /\ NoCall(x) \in CallType
    BY <1>0 DEF NoCall, Call
  <2> QED
    BY <1>1, <1>2, <2>1 DEF Return, TypeOK
<1>3. ASSUME NEW x \in Result, ReturnWith(c, x), UNCHANGED <<globals, goroutine, runErr, channels>>,
             x = "ready" /\ call[c].run # 0 => call[c].run \in readyCalled
      PROVE  MobileInv'
  <2> DEFINE y == [call[c] EXCEPT !.op = "none", !.result = x]
  <2>1. /\ y \in CallType /\ y.run = call[c].run /\ y.r = call[c].r /\ y.result = x /\ y.op = "none"
    BY <1>0 DEF CallType
  <2>2. call' = [call EXCEPT ![c] = y]
    BY <1>3 DEF ReturnWith
  <2>3. (y.run # 0 => y.r = y.run) /\ (y.op # "none" => y.run # 0)
    BY <2>1 DEF HeldTogether
  <2> HIDE DEF y
  <2> QED
    BY <1>1, <1>3, <2>1, <2>2, <2>3 DEF TypeOK
<1>4. ASSUME NEW op \in {"stop", "ready", "none"}, NEW x \in {"none", "ready"},
             call' = [call EXCEPT ![c] = Call(op, cancel, ready, done, x)],
             UNCHANGED <<globals, goroutine, runErr, channels>>,
             x = "ready" => ready \in readyClosed,
             op # "none" => cancel # 0
      PROVE  MobileInv'
  <2> DEFINE y == Call(op, cancel, ready, done, x)
  <2>1. y \in CallType /\ y.op = op /\ y.run = cancel /\ y.r = ready /\ y.result = x
    BY <1>0 DEF Call, CallType, TypeOK
  <2>2. cancel # 0 => ready = cancel
    BY DEF LastStarted
  <2> HIDE DEF y
  <2> QED
    BY <1>1, <1>4, <2>1, <2>2 DEF TypeOK, ReadyChannels, y
<1>5. CASE StopIdle(c)
  BY <1>0, <1>2, <1>5 DEF StopIdle
<1>6. CASE StopRead(c)
  BY <1>4, <1>6 DEF StopRead
<1>7. CASE StopCancel(c)
  <2> DEFINE y == [call[c] EXCEPT !.op = "stopWait"]
  <2>1. /\ y \in CallType /\ y.run = call[c].run /\ y.r = call[c].r /\ y.result = call[c].result
    BY <1>0 DEF CallType
  <2>2. call' = [call EXCEPT ![c] = y] /\ cancelled' = cancelled \cup {call[c].run}
    BY <1>7 DEF StopCancel
  <2>3. cancelled' \subseteq Run
    BY <1>0, <1>7, <2>2, StartsAssumption DEF StopCancel, CallType, TypeOK, HeldTogether
  <2>4. (y.run # 0 => y.r = y.run) /\ y.run # 0
    BY <1>7, <2>1 DEF StopCancel, HeldTogether
  <2>5. y.result = "ready" /\ y.run # 0 => y.run \in readyCalled
    BY <2>1 DEF ReadyIsTrue
  <2> HIDE DEF y
  <2> QED
    BY <1>1, <1>7, <2>1, <2>2, <2>3, <2>4, <2>5 DEF StopCancel
<1>8. CASE StopReturn(c)
  BY <1>0, <1>3, <1>8 DEF StopReturn
<1>9. CASE WaitReadyAtOnce(c)
  BY <1>0, <1>2, <1>4, <1>9 DEF WaitReadyAtOnce, Stopped
<1>10. CASE WaitReadyBlock(c)
  BY <1>4, <1>10 DEF WaitReadyBlock
<1>11. CASE WaitReadyReturn(c)
  BY <1>0, <1>3, <1>11 DEF WaitReadyReturn, Stopped, HeldTogether, ReadyChannels
<1> QED
  BY <1>5, <1>6, <1>7, <1>8, <1>9, <1>10, <1>11 DEF CallStep

(* Every step keeps the invariant.                                         *)
LEMMA NextKeeps == MobileInv /\ [Next]_vars => MobileInv'
<1> SUFFICES ASSUME MobileInv, [Next]_vars PROVE MobileInv'
  OBVIOUS
<1>1. CASE UNCHANGED vars
  BY <1>1 DEF vars, globals, channels, MobileInv, TypeOK, RunningIsKnown, Alive, LastStarted,
              ReadyChannels, HeldTogether, ReadyIsTrue
<1>2. CASE \E c \in Caller : \/ StartRefused(c) \/ Start(c) \/ StopIdle(c) \/ StopRead(c)
                            \/ WaitReadyAtOnce(c) \/ WaitReadyBlock(c) \/ CallStep(c)
  BY <1>2, StartKeeps, CallKeeps
<1>3. CASE \E r \in Run : GoroutineStep(r)
  BY <1>3, GoroutineKeeps
<1> QED
  BY <1>1, <1>2, <1>3 DEF Next

(* No interleaving of Start, Stop and the end of a client leaves a client  *)
(* running that the package variable cancel does not belong to.            *)
THEOREM RunningAlwaysKnown == Spec => []RunningIsKnown
<1>1. MobileInv => RunningIsKnown
  BY DEF MobileInv
<1> QED
  BY MobileInit, NextKeeps, <1>1, PTL DEF Spec

(* A WaitReady that found a client running returns nil only after that     *)
(* client called onReady.                                                  *)
THEOREM ReadyAlwaysTrue == Spec => []ReadyIsTrue
<1>1. MobileInv => ReadyIsTrue
  BY DEF MobileInv
<1> QED
  BY MobileInit, NextKeeps, <1>1, PTL DEF Spec

(* Every state of every behaviour has the types TypeOK names.              *)
THEOREM MobileTypes == Spec => []TypeOK
<1>1. MobileInv => TypeOK
  BY DEF MobileInv
<1> QED
  BY MobileInit, NextKeeps, <1>1, PTL DEF Spec
=============================================================================
