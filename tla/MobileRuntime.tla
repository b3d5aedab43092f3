---------------------------- MODULE MobileRuntime ----------------------------
(***************************************************************************)
(* The singleton client of the mobile API (mobile/mobile.go): Start runs   *)
(* the client in a goroutine and publishes its cancel function and its     *)
(* channels in package variables, Stop and WaitReady read them under mu    *)
(* and then wait without it.                                               *)
(*                                                                         *)
(* A run is identified by its number; cancel, done and ready hold the      *)
(* number of the run that made the function or the channel, 0 for nil.     *)
(* Arguments that validateStartArgs refuses change nothing and are left    *)
(* out.  The goroutine reads the variable done again, without mu, when it  *)
(* closes the channel (line 612): the read returns what was written last.  *)
(***************************************************************************)
EXTENDS Naturals

CONSTANTS
  Caller,     \* threads of the application that call the API
  MaxStarts   \* bound: number of runs that are ever started

ASSUME StartsAssumption == MaxStarts \in Nat

Run == 1..MaxStarts

VARIABLES
  cancel, done, ready, errRun,   \* the package variables of these names
  starts,                        \* number of runs started so far
  goroutine,   \* goroutine[r]: "none", "client", "returned", "published" or "over"
  runErr,      \* what the client of run r returned
  cancelled,   \* runs whose context is cancelled
  readyCalled, \* history: runs whose client called onReady
  readyClosed, \* runs whose channel ready is closed
  doneClosed,  \* runs whose channel done is closed
  process,     \* close of a closed channel: the process is gone
  call         \* call[c]: the API call of c and what it read under mu, or its result

globals == <<cancel, done, ready, errRun, starts>>
channels == <<cancelled, readyCalled, readyClosed, doneClosed, process>>
vars == <<globals, goroutine, runErr, channels, call>>

(* run: the run whose cancel was read, 0 if there was none; r and d: the   *)
(* channels ready and done that were read.                                 *)
Result == {"none", "started", "running", "gone", "ready", "error", "stopped", "timeout"}
Call(op, run, r, d, result) == [op |-> op, run |-> run, r |-> r, d |-> d, result |-> result]
CallType == [op : {"none", "stop", "stopWait", "ready"}, run : 0..MaxStarts, r : 0..MaxStarts,
             d : 0..MaxStarts, result : Result]
NoCall(result) == Call("none", 0, 0, 0, result)

TypeOK ==
  /\ cancel \in 0..MaxStarts /\ done \in 0..MaxStarts /\ ready \in 0..MaxStarts
  /\ starts \in 0..MaxStarts
  /\ errRun \in {"nil", "err"}
  /\ goroutine \in [Run -> {"none", "client", "returned", "published", "over"}]
  /\ runErr \in [Run -> {"nil", "err"}]
  /\ cancelled \subseteq Run /\ readyCalled \subseteq Run
  /\ readyClosed \subseteq Run /\ doneClosed \subseteq Run
  /\ process \in {"up", "crashed"}
  /\ call \in [Caller -> CallType]

Init ==
  /\ cancel = 0 /\ done = 0 /\ ready = 0 /\ errRun = "nil" /\ starts = 0
  /\ goroutine = [r \in Run |-> "none"]
  /\ runErr = [r \in Run |-> "nil"]
  /\ cancelled = {} /\ readyCalled = {} /\ readyClosed = {} /\ doneClosed = {}
  /\ process = "up"
  /\ call = [c \in Caller |-> NoCall("none")]

Idle(c) == call[c].op = "none"
Return(c, result) == call' = [call EXCEPT ![c] = NoCall(result)]
ReturnWith(c, result) == call' = [call EXCEPT ![c].op = "none", ![c].result = result]

-----------------------------------------------------------------------------
(* startWithConfig, under mu.                                              *)

StartRefused(c) ==
  /\ Idle(c) /\ cancel # 0
  /\ Return(c, "running")
  /\ UNCHANGED <<globals, goroutine, runErr, channels>>

(* Mutation of Start: no check for a client that is still running.         *)
StartTwice(c) ==
  /\ Idle(c) /\ starts < MaxStarts
  /\ starts' = starts + 1
  /\ cancel' = starts' /\ done' = starts' /\ ready' = starts' /\ errRun' = "nil"
  /\ goroutine' = [goroutine EXCEPT ![starts'] = "client"]
  /\ Return(c, "started")
  /\ UNCHANGED <<runErr, channels>>

(* Mutation of Start: the channel ready of an earlier run is kept.         *)
StartKeepingReady(c) ==
  /\ Idle(c) /\ cancel = 0 /\ starts < MaxStarts
  /\ starts' = starts + 1
  /\ cancel' = starts' /\ done' = starts' /\ errRun' = "nil"
  /\ ready' = IF ready = 0 THEN starts' ELSE ready
  /\ goroutine' = [goroutine EXCEPT ![starts'] = "client"]
  /\ Return(c, "started")
  /\ UNCHANGED <<runErr, channels>>

Start(c) ==
  /\ Idle(c) /\ cancel = 0 /\ starts < MaxStarts
  /\ starts' = starts + 1
  /\ cancel' = starts' /\ done' = starts' /\ ready' = starts' /\ errRun' = "nil"
  /\ goroutine' = [goroutine EXCEPT ![starts'] = "client"]
  /\ Return(c, "started")
  /\ UNCHANGED <<runErr, channels>>

-----------------------------------------------------------------------------
(* The goroutine of run r.                                                 *)

(* The client calls onReady, once; it may still do so after a cancel.  The *)
(* callback closes localReady, which the goroutine captured.               *)
ClientReady(r) ==
  /\ goroutine[r] = "client" /\ r \notin readyCalled
  /\ readyCalled' = readyCalled \cup {r}
  /\ readyClosed' = readyClosed \cup {r}
  /\ UNCHANGED <<globals, goroutine, runErr, cancelled, doneClosed, process, call>>

ClientReturns(r) ==
  /\ goroutine[r] = "client"
  /\ \E e \in {"nil", "err"} : runErr' = [runErr EXCEPT ![r] = e]
  /\ goroutine' = [goroutine EXCEPT ![r] = "returned"]
  /\ UNCHANGED <<globals, channels, call>>

Publish(r) ==
  /\ goroutine[r] = "returned"
  /\ cancel' = 0 /\ errRun' = runErr[r]
  /\ goroutine' = [goroutine EXCEPT ![r] = "published"]
  /\ UNCHANGED <<done, ready, starts, runErr, channels, call>>

(* close(done) with the variable read again, then the deferred cancelFunc. *)
CloseDone(r) ==
  /\ goroutine[r] = "published"
  /\ IF done \in doneClosed
     THEN process' = "crashed" /\ UNCHANGED doneClosed
     ELSE doneClosed' = doneClosed \cup {done} /\ UNCHANGED process
  /\ goroutine' = [goroutine EXCEPT ![r] = "over"]
  /\ cancelled' = cancelled \cup {r}
  /\ UNCHANGED <<globals, runErr, readyCalled, readyClosed, call>>

-----------------------------------------------------------------------------
(* Stop: read under mu, cancel, wait for the channel.                      *)

StopIdle(c) ==
  /\ Idle(c) /\ cancel = 0
  /\ Return(c, "none")
  /\ UNCHANGED <<globals, goroutine, runErr, channels>>

(* Mutation of StopRead: no check for nil before the function is called.   *)
StopUnchecked(c) ==
  /\ Idle(c)
  /\ call' = [call EXCEPT ![c] = Call("stop", cancel, ready, done, "none")]
  /\ UNCHANGED <<globals, goroutine, runErr, channels>>

StopRead(c) ==
  /\ Idle(c) /\ cancel # 0
  /\ call' = [call EXCEPT ![c] = Call("stop", cancel, ready, done, "none")]
  /\ UNCHANGED <<globals, goroutine, runErr, channels>>

StopCancel(c) ==
  /\ call[c].op = "stop"
  /\ cancelled' = cancelled \cup {call[c].run}
  /\ call' = [call EXCEPT ![c].op = "stopWait"]
  /\ UNCHANGED <<globals, goroutine, runErr, readyCalled, readyClosed, doneClosed, process>>

StopReturn(c) ==
  /\ call[c].op = "stopWait" /\ call[c].d \in doneClosed
  /\ ReturnWith(c, "gone")
  /\ UNCHANGED <<globals, goroutine, runErr, channels>>

(* WaitReady: the answers that need no waiting ...                         *)
Stopped == IF errRun = "err" THEN "error" ELSE "stopped"

WaitReadyAtOnce(c) ==
  /\ Idle(c)
  /\ \/ /\ ready \in readyClosed
        /\ call' = [call EXCEPT ![c] = Call("none", cancel, ready, done, "ready")]
     \/ /\ ready \notin readyClosed /\ cancel = 0
        /\ Return(c, Stopped)
  /\ UNCHANGED <<globals, goroutine, runErr, channels>>

WaitReadyBlock(c) ==
  /\ Idle(c) /\ ready # 0 /\ ready \notin readyClosed /\ cancel # 0
  /\ call' = [call EXCEPT ![c] = Call("ready", cancel, ready, done, "none")]
  /\ UNCHANGED <<globals, goroutine, runErr, channels>>

(* ... and the three ends of the wait.  errRun is read again under mu.     *)
WaitReadyReturn(c) ==
  /\ call[c].op = "ready"
  /\ \/ call[c].r \in readyClosed /\ ReturnWith(c, "ready")
     \/ call[c].d \in doneClosed /\ ReturnWith(c, Stopped)
     \/ ReturnWith(c, "timeout")
  /\ UNCHANGED <<globals, goroutine, runErr, channels>>

-----------------------------------------------------------------------------
GoroutineStep(r) == ClientReady(r) \/ ClientReturns(r) \/ Publish(r) \/ CloseDone(r)
CallStep(c) == StopCancel(c) \/ StopReturn(c) \/ WaitReadyReturn(c)

Next ==
  /\ process = "up"
  /\ \/ \E c \in Caller : \/ StartRefused(c) \/ Start(c) \/ StopIdle(c) \/ StopRead(c)
                          \/ WaitReadyAtOnce(c) \/ WaitReadyBlock(c) \/ CallStep(c)
     \/ \E r \in Run : GoroutineStep(r)

Spec == Init /\ [][Next]_vars

(* A thread inside a call and a goroutine past the client go on; a client  *)
(* whose context is cancelled returns.  Nobody need call, nor a client     *)
(* return by itself.                                                       *)
Fairness ==
  /\ \A c \in Caller : WF_vars(process = "up" /\ CallStep(c))
  /\ \A r \in Run : /\ WF_vars(process = "up" /\ (Publish(r) \/ CloseDone(r)))
                    /\ WF_vars(process = "up" /\ r \in cancelled /\ ClientReturns(r))

FairSpec == Spec /\ Fairness

-----------------------------------------------------------------------------
(* Properties.                                                             *)

Alive(r) == goroutine[r] \in {"client", "returned"}

(* A client that has not been taken back is the one Stop would cancel, so  *)
(* there is at most one and IsRunning says so: no interleaving of Start,   *)
(* Stop and the end of a client leaves a client nobody can stop.           *)
RunningIsKnown == \A r \in Run : Alive(r) => cancel = r

(* When WaitReady found a client running, it returns nil only if that one  *)
(* had called onReady itself: an older run cannot make it say so.  A call  *)
(* that finds none may be answered by the channel a client left behind.    *)
ReadyIsTrue ==
  \A c \in Caller : call[c].result = "ready" /\ call[c].run # 0 => call[c].run \in readyCalled

(* Why: a client that is alive was started last, its channels are the      *)
(* package variables', and what a caller holds belongs to one run.         *)
LastStarted == /\ \A r \in Run : r > starts => goroutine[r] = "none"
               /\ cancel # 0 => ready = cancel
               /\ done = starts
ReadyChannels == readyClosed = readyCalled
HeldTogether ==
  \A c \in Caller : /\ call[c].run # 0 => call[c].r = call[c].run
                    /\ call[c].op # "none" => call[c].run # 0
MobileInv == TypeOK /\ RunningIsKnown /\ LastStarted /\ ReadyChannels /\ HeldTogether /\ ReadyIsTrue

(* "Stop gracefully stops the olcRTC client" (mobile.go:670): it returns.  *)
Stopping(c) == call[c].op \in {"stop", "stopWait"}
StopReturns == \A c \in Caller : Stopping(c) ~> ~Stopping(c) \/ process = "crashed"
=============================================================================
