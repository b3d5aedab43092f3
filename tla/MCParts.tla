------------------------------ MODULE MCParts ------------------------------
(***************************************************************************)
(* One behaviour of one of the other parts, for TLC: part says which of    *)
(* them acts; the others stay in their initial states.                     *)
(***************************************************************************)
EXTENDS Vp8Channel, RtpFrames, VideoPipes, ClientRun, MobileCheck, ProgramRun

CONSTANTS t1, t2

VARIABLE part

MCTracks == [a |-> {t1}, b |-> {t1, t2}]
MCRestarts == [a |-> 1, b |-> 0]
MCReconnects == [a |-> 0, b |-> 1]
MCRates == {-1, 0, 2, 5}

partVars == <<part, vpVars, rtVars, vdVars, cnVars, mkVars, pgVars>>

PartsTypeOK == VpTypeOK /\ RtTypeOK /\ VdTypeOK /\ CnTypeOK /\ MkTypeOK /\ PgTypeOK

Init ==
  /\ part \in {"vp8", "tracks", "rtp", "video", "client", "check", "program"}
  /\ VpInit /\ RtInit /\ VdInit /\ CnInit /\ MkInit /\ PgInit

(* vp8channel has two scenes: a single track, with all that can happen,    *)
(* and a second track, without reconnection of the carrier and Close.      *)
VpPart == part \in {"vp8", "tracks"}
VpScene == IF part = "vp8" THEN vpActor["b"][t2]' = vpActor["b"][t2]
                           ELSE UNCHANGED <<vpReconnects, vpClose>>

Next ==
  \/ VpPart /\ VpNext /\ VpScene /\ UNCHANGED <<part, rtVars, vdVars, cnVars, mkVars, pgVars>>
  \/ part = "rtp" /\ RtNext /\ UNCHANGED <<part, vpVars, vdVars, cnVars, mkVars, pgVars>>
  \/ part = "video" /\ VdNext /\ UNCHANGED <<part, vpVars, rtVars, cnVars, mkVars, pgVars>>
  \/ part = "client" /\ CnNext /\ UNCHANGED <<part, vpVars, rtVars, vdVars, mkVars, pgVars>>
  \/ part = "check" /\ MkNext /\ UNCHANGED <<part, vpVars, rtVars, vdVars, cnVars, pgVars>>
  \/ part = "program" /\ PgNext /\ UNCHANGED <<part, vpVars, rtVars, vdVars, cnVars, mkVars>>

(* The fairness of the two parts that have a liveness property.            *)
Spec ==
  /\ Init /\ [][Next]_partVars
  /\ WF_vdVars(part = "video" /\ VdProgress)
  /\ \A e \in VpEnd :
       /\ WF_vpVars(VpPart /\ VpWork(e))
       /\ WF_vpVars(VpPart /\ VpWrites(e))
       /\ WF_vpVars(VpPart /\ VpDelivers(e, LocalEpoch(Other(e))))

=============================================================================
