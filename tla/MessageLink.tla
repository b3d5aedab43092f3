----------------------------- MODULE MessageLink -----------------------------
(***************************************************************************)
(* What a transport whose Features say Reliable and Ordered promises to    *)
(* the two upper layers (internal/transport/transport.go, Features): each  *)
(* direction delivers messages in the order in which they were accepted,   *)
(* none twice, and reports success only for one that was delivered.  A     *)
(* message reported as failed may or may not have been delivered.          *)
(***************************************************************************)
EXTENDS Naturals, Sequences

CONSTANTS Peer, Other, Message, Origin

VARIABLES
  outcome,  \* outcome[m]: "none", "accepted", "ok" or "failed"
  rank,     \* rank[m]: place of m in the order of acceptance, 0 before
  given,    \* ranks each peer gave out
  got,      \* what the upper layer of a peer received, in order
  reached   \* every message that was ever delivered

vars == <<outcome, rank, given, got, reached>>

Init ==
  /\ outcome = [m \in Message |-> "none"]
  /\ rank = [m \in Message |-> 0]
  /\ given = [p \in Peer |-> 0]
  /\ got = [p \in Peer |-> <<>>]
  /\ reached = {}

Accept(m) ==
  /\ outcome[m] = "none"
  /\ outcome' = [outcome EXCEPT ![m] = "accepted"]
  /\ given' = [given EXCEPT ![Origin[m]] = @ + 1]
  /\ rank' = [rank EXCEPT ![m] = given[Origin[m]] + 1]
  /\ UNCHANGED <<got, reached>>

(* Later than everything delivered before, so never twice.                 *)
Deliver(m) ==
  LET q == Other[Origin[m]] IN
  /\ rank[m] > 0
  /\ \A i \in 1..Len(got[q]) : rank[got[q][i]] < rank[m]
  /\ got' = [got EXCEPT ![q] = Append(@, m)]
  /\ reached' = reached \cup {m}
  /\ UNCHANGED <<outcome, rank, given>>

Succeed(m) ==
  /\ outcome[m] = "accepted" /\ m \in reached
  /\ outcome' = [outcome EXCEPT ![m] = "ok"]
  /\ UNCHANGED <<rank, given, got, reached>>

Fail(m) ==
  /\ outcome[m] \in {"none", "accepted"}
  /\ outcome' = [outcome EXCEPT ![m] = "failed"]
  /\ UNCHANGED <<rank, given, got, reached>>

(* A new process takes the place of p: what it accepted and did not        *)
(* conclude is lost, and its upper layer starts with nothing.              *)
Replace(p) ==
  /\ \E gone \in SUBSET {m \in Message : Origin[m] = p /\ outcome[m] = "none"} :
       outcome' = [m \in Message |->
                     IF m \in gone \/ (Origin[m] = p /\ outcome[m] = "accepted")
                     THEN "failed" ELSE outcome[m]]
  /\ got' = [got EXCEPT ![p] = <<>>]
  /\ UNCHANGED <<rank, given, reached>>

Next ==
  \/ \E m \in Message : Accept(m) \/ Deliver(m) \/ Succeed(m) \/ Fail(m)
  \/ \E p \in Peer : Replace(p)

Spec == Init /\ [][Next]_vars
=============================================================================
