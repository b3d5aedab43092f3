---------------------------- MODULE MCProviders ----------------------------
(***************************************************************************)
(* One behaviour of one of the providers, for TLC: provider says which of  *)
(* them the program uses; the others stay in their initial states.         *)
(***************************************************************************)
EXTENDS TelemostPeer, JazzPeer, WbStreamPeer

VARIABLE provider

providerVars == <<provider, tmVars, jzVars, wbVars>>

ProvidersTypeOK == TmTypeOK /\ JzTypeOK /\ WbTypeOK

Init ==
  /\ provider \in {"telemost", "jazz", "wbstream"}
  /\ TmInit /\ JzInit /\ WbInit

Next ==
  \/ provider = "telemost" /\ TmNext /\ UNCHANGED <<provider, jzVars, wbVars>>
  \/ provider = "jazz" /\ JzNext /\ UNCHANGED <<provider, tmVars, wbVars>>
  \/ provider = "wbstream" /\ WbNext /\ UNCHANGED <<provider, tmVars, jzVars>>

(* Each provider with the fairness of its own specification: as only one   *)
(* acts, one condition speaks of both.                                     *)
liveVars == <<tmVars, jzVars>>

Progress ==
  \/ provider = "telemost" /\ TmProgress /\ UNCHANGED jzVars
  \/ provider = "jazz" /\ JzProgress /\ UNCHANGED tmVars

Spec == Init /\ [][Next]_providerVars /\ WF_liveVars(Progress)

=============================================================================
