-------------------------- MODULE ArqImplementsLink --------------------------
(***************************************************************************)
(* The stop-and-wait protocol implements MessageLink when a peer's frames  *)
(* arrive on one track.  A message is delivered when handleInboundFrame    *)
(* marks it under recvMu; the onData call that follows is a stutter.       *)
(***************************************************************************)
EXTENDS ArqTransport

OutcomeOf(s) ==
  CASE s \in {"new", "blocked"} -> "none"
    [] s = "sending" -> "accepted"
    [] s = "ok" -> "ok"
    [] OTHER -> "failed"

TheTrack == CHOOSE t \in Track : TRUE

Got(p) ==
  [i \in 1..Len(handed[p]) |-> handed[p][i].msg]
    \o IF reader[p][TheTrack].pc = "hand" THEN <<reader[p][TheTrack].msg>> ELSE <<>>

Link == INSTANCE MessageLink WITH
          outcome <- [m \in Message |-> OutcomeOf(status[m])],
          rank    <- ticket,
          given   <- issued,
          got     <- [p \in Peer |-> Got(p)],
          reached <- accepted

(* Every behaviour of the protocol is one of the reliable ordered link     *)
(* that Features announces.                                                *)
ImplementsLink == Link!Spec
=============================================================================
