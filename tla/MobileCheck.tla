----------------------------- MODULE MobileCheck -----------------------------
(***************************************************************************)
(* Check and Ping of the mobile API (mobile/mobile.go): each starts a      *)
(* client of its own, outside the runtime of Start and Stop, waits until   *)
(* it is ready, and Ping sends requests through its SOCKS port before it   *)
(* cancels the client and gives it two seconds to end.  Calls are made one *)
(* after the other with the same port, which a client holds from the time  *)
(* it is ready until it has ended.                                         *)
(***************************************************************************)
EXTENDS Integers

CONSTANTS
  MkCalls,      \* bound: number of calls
  MkSamples,    \* requests that Ping measures (httpPingSamples)
  MkSlowest     \* bound: milliseconds of a request

ASSUME MkAssumption == MkCalls \in Nat /\ MkSamples \in Nat /\ MkSlowest \in Nat

VARIABLES
  mkCall,       \* number of the call
  mkKind,       \* "check" or "ping"
  mkAt,         \* "idle", "select", "warm" and "sample" of Ping, "wait" for the client to end
  mkLeft,       \* samples still to take
  mkBest,       \* the best of them, 0 for none
  mkTaken,      \* history: the results of the samples, -1 for a request that failed
  mkAnswer,     \* what the call will return: "none", "ok", "error"
  mkClient,     \* [call -> its client]: "off", "starts", "ready", "ended"
  mkCancelled,  \* calls whose context is cancelled
  mkGaveUp      \* history: calls that did not wait for their client to the end

mkVars == <<mkCall, mkKind, mkAt, mkLeft, mkBest, mkTaken, mkAnswer, mkClient, mkCancelled, mkGaveUp>>
mkPing == <<mkLeft, mkBest, mkTaken>>
mkClients == <<mkClient, mkCancelled>>

MkTypeOK ==
  /\ mkCall \in 0..MkCalls /\ mkKind \in {"check", "ping"}
  /\ mkAt \in {"idle", "select", "warm", "sample", "wait"} /\ mkLeft \in 0..MkSamples
  /\ mkBest \in 0..MkSlowest /\ mkTaken \subseteq -1..MkSlowest /\ mkAnswer \in {"none", "ok", "error"}
  /\ mkClient \in [1..MkCalls -> {"off", "starts", "ready", "ended"}]
  /\ mkCancelled \subseteq 1..mkCall /\ mkGaveUp \subseteq 1..mkCall

MkInit ==
  /\ mkCall = 0 /\ mkKind = "check" /\ mkAt = "idle"
  /\ mkLeft = 0 /\ mkBest = 0 /\ mkTaken = {} /\ mkAnswer = "none"
  /\ mkClient = [c \in 1..MkCalls |-> "off"] /\ mkCancelled = {} /\ mkGaveUp = {}

(* Nobody else holds the port.                                             *)
PortFree == \A c \in 1..MkCalls : mkClient[c] # "ready"

-----------------------------------------------------------------------------
(* The call.                                                               *)

MkStart ==
  /\ mkAt = "idle" /\ mkCall < MkCalls
  /\ mkCall' = mkCall + 1 /\ mkKind' \in {"check", "ping"} /\ mkAt' = "select"
  /\ mkLeft' = MkSamples /\ mkBest' = 0 /\ mkTaken' = {} /\ mkAnswer' = "none"
  /\ mkClient' = [mkClient EXCEPT ![mkCall'] = "starts"]
  /\ UNCHANGED <<mkCancelled, mkGaveUp>>

(* Cancel, then waitForCheckDone.                                          *)
(* Mutation: the call returns at once.                                     *)
ThenHurry == "idle"
Then == "wait"

MkEnds(answer) ==
  /\ mkAt' = Then /\ mkAnswer' = answer /\ mkCancelled' = mkCancelled \cup {mkCall}

MkReadySeen ==
  /\ mkAt = "select" /\ mkClient[mkCall] = "ready"
  /\ IF mkKind = "check" THEN MkEnds("ok") ELSE mkAt' = "warm" /\ UNCHANGED <<mkAnswer, mkCancelled>>
  /\ UNCHANGED <<mkCall, mkKind, mkPing, mkClient, mkGaveUp>>

(* The client ended before the call looked, ready or not.                  *)
MkEndSeen ==
  /\ mkAt = "select" /\ mkClient[mkCall] = "ended"
  /\ mkAt' = "idle" /\ mkAnswer' = "error" /\ mkCancelled' = mkCancelled \cup {mkCall}
  /\ UNCHANGED <<mkCall, mkKind, mkPing, mkClient, mkGaveUp>>

MkTimeout ==
  /\ mkAt = "select" /\ MkEnds("error")
  /\ UNCHANGED <<mkCall, mkKind, mkPing, mkClient, mkGaveUp>>

MkClientSeen ==
  /\ mkAt = "wait" /\ mkClient[mkCall] = "ended" /\ mkAt' = "idle"
  /\ UNCHANGED <<mkCall, mkKind, mkPing, mkAnswer, mkClients, mkGaveUp>>

MkTwoSeconds ==
  /\ mkAt = "wait" /\ mkAt' = "idle" /\ mkGaveUp' = mkGaveUp \cup {mkCall}
  /\ UNCHANGED <<mkCall, mkKind, mkPing, mkAnswer, mkClients>>

-----------------------------------------------------------------------------
(* httpPingThroughSocks.                                                   *)

(* The request that warms up, whatever its result; or a URL that is none.  *)
MkWarm ==
  /\ mkAt = "warm"
  /\ \/ mkAt' = "sample" /\ UNCHANGED <<mkAnswer, mkCancelled>>
     \/ MkEnds("error")
  /\ UNCHANGED <<mkCall, mkKind, mkPing, mkClient, mkGaveUp>>

(* Mutation: a request that failed, or took no millisecond, counts.        *)
BestLatencyOrError(best, next) == IF best = 0 \/ next < best THEN next ELSE best
BestLatency(best, next) == IF next <= 0 THEN best ELSE IF best = 0 \/ next < best THEN next ELSE best

MkSample ==
  /\ mkAt = "sample" /\ mkLeft > 0 /\ mkLeft' = mkLeft - 1
  /\ \E ms \in IF mkClient[mkCall] = "ready" /\ mkCall \notin mkCancelled THEN -1..MkSlowest ELSE {-1} :
       mkBest' = BestLatency(mkBest, ms) /\ mkTaken' = mkTaken \cup {ms}
  /\ UNCHANGED <<mkCall, mkKind, mkAt, mkAnswer, mkClients, mkGaveUp>>

MkSampled ==
  /\ mkAt = "sample" /\ mkLeft = 0 /\ MkEnds(IF mkBest > 0 THEN "ok" ELSE "error")
  /\ UNCHANGED <<mkCall, mkKind, mkPing, mkClient, mkGaveUp>>

-----------------------------------------------------------------------------
(* The client of a call.                                                   *)

MkClientGoes(c, from, to) ==
  /\ mkClient[c] \in from /\ mkClient' = [mkClient EXCEPT ![c] = to]
  /\ UNCHANGED <<mkCall, mkKind, mkAt, mkPing, mkAnswer, mkCancelled, mkGaveUp>>

(* The port is opened, then onReady is called; it may be too late for that.*)
MkClientReady(c) == PortFree /\ MkClientGoes(c, {"starts"}, "ready")

(* Cancelled, refused by the carrier, without its port or without a link.  *)
MkClientEnds(c) == MkClientGoes(c, {"starts", "ready"}, "ended")

(* The context of Ping is cancelled when its time is over.                 *)
MkPingTime ==
  /\ mkKind = "ping" /\ mkAt \in {"select", "warm", "sample"} /\ mkCancelled' = mkCancelled \cup {mkCall}
  /\ UNCHANGED <<mkCall, mkKind, mkAt, mkPing, mkAnswer, mkClient, mkGaveUp>>

MkNext ==
  \/ MkStart \/ MkReadySeen \/ MkEndSeen \/ MkTimeout \/ MkClientSeen \/ MkTwoSeconds
  \/ MkWarm \/ MkSample \/ MkSampled \/ MkPingTime
  \/ \E c \in 1..MkCalls : MkClientReady(c) \/ MkClientEnds(c)

MkSpec == MkInit /\ [][MkNext]_mkVars

-----------------------------------------------------------------------------
(* Properties.                                                             *)

(* Between two calls no client of an earlier one holds the port, unless    *)
(* that call gave it up after two seconds; its context is cancelled then.  *)
(* And what Ping returns is the fastest request that took a millisecond.   *)
MkCallsApart ==
  /\ mkAt = "idle" => \A c \in 1..mkCall :
       /\ c \in mkCancelled
       /\ mkClient[c] # "ended" => c \in mkGaveUp
  /\ mkKind = "ping" /\ mkAnswer = "ok" =>
       mkBest \in mkTaken /\ mkBest > 0 /\ \A ms \in mkTaken : ms > 0 => mkBest <= ms

=============================================================================
