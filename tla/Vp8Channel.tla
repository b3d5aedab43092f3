----------------------------- MODULE Vp8Channel -----------------------------
(***************************************************************************)
(* The vp8channel transport (transport/vp8channel): two ends that tell a   *)
(* restarted peer by the epoch in every frame and then replace their KCP   *)
(* runtime.  An end has a goroutine for every remote track, and the        *)
(* callback of the carrier's reconnection, which all replace the runtime,  *)
(* and a Close that ends it.                                               *)
(*                                                                         *)
(* A frame is its epoch: the end and the process that sent it.  vpAir[e]   *)
(* are the frames on their way to e, in no order; the SFU may also reflect *)
(* the frames of e itself, and bring frames of another client.  What KCP   *)
(* does with the bytes is outside.                                         *)
(***************************************************************************)
EXTENDS Naturals, FiniteSets

CONSTANTS
  VpTracks,     \* the remote tracks of an end
  VpRestarts,   \* bound: restarts of the process of an end
  VpReconnects, \* bound: reconnections of the carrier of an end
  VpNoisy,      \* bound: ends to which the SFU brings frames not meant for them
  VpClosing,    \* bound: ends that are closed
  VpRuntimes    \* bound: runtimes open at once

VpEnd == {"a", "b"}

ASSUME VpAssumption ==
  /\ VpRestarts \in [VpEnd -> Nat] /\ VpReconnects \in [VpEnd -> Nat] /\ VpRuntimes \in Nat
  /\ \A e \in VpEnd : IsFiniteSet(VpTracks[e])

Other(e) == IF e = "a" THEN "b" ELSE "a"
Epoch == UNION {{e} \X (1..(VpRestarts[e] + 1)) : e \in VpEnd}
NoEpoch == <<"none", 0>>
Foreign == <<"foreign", 0>>   \* a frame that carries another binding token
Runtime == 1..VpRuntimes
VpActor(e) == VpTracks[e] \cup {"carrier"}

VARIABLES
  vpEpoch,      \* localEpoch
  vpHad, vpPeer,      \* hadPeer and peerEpoch
  vpOnce,       \* kcpOnce has run
  vpKcp, vpOpen,      \* p.kcp (0 for nil), and the runtimes that are not closed
  vpActor,      \* the goroutines: where they are, and their local variables
  vpWriter,     \* writerLoop
  vpClose,      \* where Close is
  vpAir,        \* frames on their way to an end
  vpReconnects, \* reconnections so far
  vpRaced       \* history: two goroutines replaced the runtime at once, or one did and Close,
                \* or the carrier reconnected before the first frame

vpRuntime == <<vpOnce, vpKcp, vpOpen>>
vpSeen == <<vpHad, vpPeer>>
vpLife == <<vpEpoch, vpWriter, vpClose, vpReconnects>>
vpVars == <<vpLife, vpSeen, vpRuntime, vpActor, vpAir, vpRaced>>

VpPc == {"idle", "first", "once", "swap", "reset", "make"}

VpTypeOK ==
  /\ \A e \in VpEnd : vpEpoch[e] \in 1..(VpRestarts[e] + 1)
  /\ vpHad \in [VpEnd -> BOOLEAN] /\ vpPeer \in [VpEnd -> Epoch \cup {NoEpoch, Foreign}]
  /\ vpOnce \in [VpEnd -> BOOLEAN] /\ vpKcp \in [VpEnd -> {0} \cup Runtime]
  /\ vpOpen \in [VpEnd -> SUBSET Runtime]
  /\ \A e \in VpEnd : \A g \in VpActor(e) : vpActor[e][g] \in
       [pc : VpPc, epoch : Epoch \cup {NoEpoch, Foreign}, prev : Epoch \cup {NoEpoch, Foreign},
        rt : {0} \cup Runtime]
  /\ vpWriter \in [VpEnd -> {"off", "run", "done"}]
  /\ vpClose \in [VpEnd -> {"no", "wait", "closed"}]
  /\ vpAir \in [VpEnd -> SUBSET (Epoch \cup {Foreign})]
  /\ \A e \in VpEnd : vpReconnects[e] \in 0..VpReconnects[e]
  /\ vpRaced \in [VpEnd -> BOOLEAN]

Idle == [pc |-> "idle", epoch |-> NoEpoch, prev |-> NoEpoch, rt |-> 0]

VpInit ==
  /\ vpEpoch = [e \in VpEnd |-> 1]
  /\ vpHad = [e \in VpEnd |-> FALSE] /\ vpPeer = [e \in VpEnd |-> NoEpoch]
  /\ vpOnce = [e \in VpEnd |-> FALSE] /\ vpKcp = [e \in VpEnd |-> 0]
  /\ vpOpen = [e \in VpEnd |-> {}]
  /\ vpActor = [e \in VpEnd |-> [g \in VpActor(e) |-> Idle]]
  /\ vpWriter = [e \in VpEnd |-> "off"] /\ vpClose = [e \in VpEnd |-> "no"]
  /\ vpAir = [e \in VpEnd |-> {}]
  /\ vpReconnects = [e \in VpEnd |-> 0] /\ vpRaced = [e \in VpEnd |-> FALSE]

-----------------------------------------------------------------------------
(* Helpers.                                                                *)

LocalEpoch(e) == <<e, vpEpoch[e]>>
Pc(e, g) == vpActor[e][g].pc
Becomes(e, g, record) == vpActor' = [vpActor EXCEPT ![e][g] = record]
VpGoto(e, g, where) == Becomes(e, g, [vpActor[e][g] EXCEPT !.pc = where])
Replacing(e, g) == Pc(e, g) \in {"first", "once", "reset", "make"}
RuntimeLeft(e) == vpOpen[e] # Runtime
FreshRuntime(e) == CHOOSE r \in Runtime : r \notin vpOpen[e]

(* What two goroutines of an end do at once, or one does beside Close.     *)
Raced(e, g) ==
  vpRaced' = [vpRaced EXCEPT ![e] =
                @ \/ vpClose[e] # "no" \/ \E h \in VpActor(e) \ {g} : Replacing(e, h)]

-----------------------------------------------------------------------------
(* Connect, writerLoop and the network.                                    *)

VpConnect(e) ==
  /\ vpWriter[e] = "off" /\ vpClose[e] = "no"
  /\ vpWriter' = [vpWriter EXCEPT ![e] = "run"]
  /\ UNCHANGED <<vpEpoch, vpClose, vpReconnects, vpSeen, vpRuntime, vpActor, vpAir, vpRaced>>

(* A frame of outbound or the idle keepalive, both with the local epoch.   *)
VpWrites(e) ==
  /\ vpWriter[e] = "run" /\ vpClose[e] = "no" /\ LocalEpoch(e) \notin vpAir[Other(e)]
  /\ vpAir' = [vpAir EXCEPT ![Other(e)] = @ \cup {LocalEpoch(e)}]
  /\ UNCHANGED <<vpLife, vpSeen, vpRuntime, vpActor, vpRaced>>

(* The SFU brings e its own frames and those of other clients at any time. *)
SfuNoise(e) == IF e \in VpNoisy THEN {LocalEpoch(e), Foreign} ELSE {}

VpWriterStops(e) ==
  /\ vpWriter[e] = "run" /\ vpClose[e] # "no"
  /\ vpWriter' = [vpWriter EXCEPT ![e] = "done"]
  /\ UNCHANGED <<vpEpoch, vpClose, vpReconnects, vpSeen, vpRuntime, vpActor, vpAir, vpRaced>>

(* The process of e ends and another one takes its place, which a          *)
(* reflected frame of the former may still reach.                          *)
VpRestart(e) ==
  /\ vpEpoch[e] <= VpRestarts[e]
  /\ vpEpoch' = [vpEpoch EXCEPT ![e] = @ + 1]
  /\ vpHad' = [vpHad EXCEPT ![e] = FALSE] /\ vpPeer' = [vpPeer EXCEPT ![e] = NoEpoch]
  /\ vpOnce' = [vpOnce EXCEPT ![e] = FALSE] /\ vpKcp' = [vpKcp EXCEPT ![e] = 0]
  /\ vpOpen' = [vpOpen EXCEPT ![e] = {}]
  /\ vpActor' = [vpActor EXCEPT ![e] = [g \in VpActor(e) |-> Idle]]
  /\ vpWriter' = [vpWriter EXCEPT ![e] = "off"] /\ vpClose' = [vpClose EXCEPT ![e] = "no"]
  /\ vpRaced' = [vpRaced EXCEPT ![e] = FALSE]
  /\ vpAir' = IF e \in VpNoisy THEN [vpAir EXCEPT ![e] = @ \cup {LocalEpoch(e)}] ELSE vpAir
  /\ UNCHANGED vpReconnects

-----------------------------------------------------------------------------
(* handleIncomingFrame in the goroutine of a track.                        *)

(* Mutation: frames of one's own, reflected by the SFU, are not told.      *)
OfPeerOrEcho(e, frame) == frame # Foreign
OfPeer(e, frame) == frame # Foreign /\ frame # LocalEpoch(e)

(* The tests of token and epoch, and hadPeer.Swap; else the epoch is       *)
(* loaded, and a frame of the epoch in hand goes to the runtime.           *)
FrameArrives(e, t, frame) ==
  /\ Pc(e, t) = "idle" /\ vpWriter[e] # "off" /\ vpClose[e] # "closed" /\ frame \in vpAir[e] \cup SfuNoise(e)
  /\ vpAir' = [vpAir EXCEPT ![e] = @ \ {frame}]
  /\ IF ~OfPeer(e, frame) THEN UNCHANGED <<vpHad, vpActor, vpRaced>>
     ELSE /\ vpHad' = [vpHad EXCEPT ![e] = TRUE]
          /\ IF ~vpHad[e]
             THEN Becomes(e, t, [Idle EXCEPT !.pc = "first", !.epoch = frame]) /\ Raced(e, t)
             ELSE /\ IF vpPeer[e] = frame THEN UNCHANGED vpActor
                     ELSE Becomes(e, t, [Idle EXCEPT !.pc = "swap", !.epoch = frame,
                                                     !.prev = vpPeer[e]])
                  /\ UNCHANGED vpRaced
  /\ UNCHANGED <<vpPeer, vpLife, vpRuntime>>

(* handleFirstPeer: the epoch, then kcpOnce.                               *)
FirstPeer(e, t) ==
  /\ Pc(e, t) = "first" /\ VpGoto(e, t, "once")
  /\ vpPeer' = [vpPeer EXCEPT ![e] = vpActor[e][t].epoch]
  /\ UNCHANGED <<vpHad, vpLife, vpRuntime, vpAir, vpRaced>>

StartsOnce(e, t) ==
  /\ Pc(e, t) = "once" /\ RuntimeLeft(e) /\ Becomes(e, t, Idle)
  /\ IF vpOnce[e] THEN UNCHANGED <<vpOpen, vpKcp>>
     ELSE LET fresh == FreshRuntime(e) IN
            /\ vpOpen' = [vpOpen EXCEPT ![e] = @ \cup {fresh}]
            /\ vpKcp' = [vpKcp EXCEPT ![e] = fresh]
  /\ vpOnce' = [vpOnce EXCEPT ![e] = TRUE]
  /\ vpRaced' = [vpRaced EXCEPT ![e] = @ \/ (~vpOnce[e] /\ vpKcp[e] # 0)]
  /\ UNCHANGED <<vpSeen, vpLife, vpAir>>

(* Another epoch than peerEpoch: the goroutine that swaps it resets.       *)
SwapsEpoch(e, t) ==
  /\ Pc(e, t) = "swap"
  /\ IF vpPeer[e] = vpActor[e][t].prev
     THEN /\ vpPeer' = [vpPeer EXCEPT ![e] = vpActor[e][t].epoch]
          /\ VpGoto(e, t, "reset") /\ Raced(e, t)
     ELSE Becomes(e, t, Idle) /\ UNCHANGED <<vpPeer, vpRaced>>
  /\ UNCHANGED <<vpHad, vpLife, vpRuntime, vpAir>>

-----------------------------------------------------------------------------
(* resetKCP, by the goroutine of a track or by the carrier.                *)

CarrierReconnects(e) ==
  /\ vpWriter[e] # "off" /\ Pc(e, "carrier") = "idle"
  /\ vpReconnects[e] < VpReconnects[e]
  /\ vpReconnects' = [vpReconnects EXCEPT ![e] = @ + 1]
  /\ VpGoto(e, "carrier", "reset") /\ Raced(e, "carrier")
  /\ UNCHANGED <<vpEpoch, vpWriter, vpClose, vpSeen, vpRuntime, vpAir>>

(* Mutation: a reset draws a new epoch, as the comment in resetKCP says it *)
(* must not (the numbers start again at the bound).                        *)
EpochAfterResetNew(e) == (vpEpoch[e] % (VpRestarts[e] + 1)) + 1
EpochAfterReset(e) == vpEpoch[e]

(* The runtime is taken out.                                               *)
ResetTakes(e, g) ==
  /\ Pc(e, g) = "reset"
  /\ Becomes(e, g, [vpActor[e][g] EXCEPT !.pc = "make", !.rt = vpKcp[e]])
  /\ vpKcp' = [vpKcp EXCEPT ![e] = 0]
  /\ UNCHANGED <<vpOnce, vpOpen, vpSeen, vpLife, vpAir, vpRaced>>

(* Mutation: the old runtime is not closed.                                *)
StillOpenAll(e, old) == vpOpen[e]
StillOpen(e, old) == vpOpen[e] \ {old}

(* It is closed, and a new one is started and put in its place.            *)
ResetMakes(e, g) ==
  /\ Pc(e, g) = "make" /\ RuntimeLeft(e) /\ Becomes(e, g, Idle)
  /\ LET fresh == FreshRuntime(e) IN
       /\ vpOpen' = [vpOpen EXCEPT ![e] = StillOpen(e, vpActor[e][g].rt) \cup {fresh}]
       /\ vpKcp' = [vpKcp EXCEPT ![e] = fresh]
  /\ vpEpoch' = [vpEpoch EXCEPT ![e] = EpochAfterReset(e)]
  /\ UNCHANGED <<vpOnce, vpWriter, vpClose, vpReconnects, vpSeen, vpAir, vpRaced>>

-----------------------------------------------------------------------------
(* Close.                                                                  *)

(* closed, closeCh, and the runtime that p.kcp holds is closed.            *)
VpCloseBegins(e) ==
  /\ e \in VpClosing /\ vpClose[e] = "no" /\ vpClose' = [vpClose EXCEPT ![e] = "wait"]
  /\ vpOpen' = [vpOpen EXCEPT ![e] = @ \ {vpKcp[e]}]
  /\ vpRaced' = [vpRaced EXCEPT ![e] = @ \/ \E g \in VpActor(e) : Replacing(e, g)]
  /\ UNCHANGED <<vpEpoch, vpWriter, vpReconnects, vpSeen, vpOnce, vpKcp, vpActor, vpAir>>

(* The writer has ended, if there was one, and the stream is closed.       *)
VpCloseReturns(e) ==
  /\ vpClose[e] = "wait" /\ vpWriter[e] # "run" /\ vpClose' = [vpClose EXCEPT ![e] = "closed"]
  /\ UNCHANGED <<vpEpoch, vpWriter, vpReconnects, vpSeen, vpRuntime, vpActor, vpAir, vpRaced>>

-----------------------------------------------------------------------------
VpWork(e) ==
  \/ VpConnect(e) \/ VpWriterStops(e) \/ VpCloseReturns(e)
  \/ \E t \in VpTracks[e] : FirstPeer(e, t) \/ StartsOnce(e, t) \/ SwapsEpoch(e, t)
  \/ \E g \in VpActor(e) : ResetTakes(e, g) \/ ResetMakes(e, g)

VpDelivers(e, frame) == \E t \in VpTracks[e] : FrameArrives(e, t, frame)

VpNext ==
  \E e \in VpEnd :
    \/ VpWork(e) \/ VpWrites(e)
    \/ VpRestart(e) \/ CarrierReconnects(e) \/ VpCloseBegins(e)
    \/ \E frame \in Epoch \cup {Foreign} : VpDelivers(e, frame)

VpSpec ==
  /\ VpInit /\ [][VpNext]_vpVars
  /\ \A e \in VpEnd :
       /\ WF_vpVars(VpWork(e)) /\ WF_vpVars(VpWrites(e))
       /\ WF_vpVars(VpDelivers(e, LocalEpoch(Other(e))))

-----------------------------------------------------------------------------
(* Properties.                                                             *)

(* Once an end has connected and no process restarts any more, both ends   *)
(* come to agree on their epochs for good: the resets do not chase each    *)
(* other, whatever frames of dead processes and reflected frames are still *)
(* on their way.                                                           *)
VpSettles ==
  (\E e \in VpEnd : vpWriter[e] = "run")
    ~> [](\/ \E e \in VpEnd : vpClose[e] # "no"
          \/ \A e \in VpEnd : vpPeer[e] = LocalEpoch(Other(e)))

(* peerEpoch is never the epoch of this process or of another client,      *)
(* though the SFU brings their frames.  (It may be that of a former        *)
(* process of this end, whose frames come back late.)                      *)
VpPeerIsNotSelf == \A e \in VpEnd : vpPeer[e] \notin {LocalEpoch(e), Foreign}

(* No runtime is left open that nobody can close, and none at all after    *)
(* Close, unless two goroutines replaced it at once, one did beside Close, *)
(* or the carrier's callback started one before the first frame did.       *)
VpNoStrayRuntime ==
  \A e \in VpEnd : ~vpRaced[e] =>
    vpOpen[e] \subseteq (IF vpClose[e] = "no" THEN {vpKcp[e]} ELSE {})
                          \cup {vpActor[e][g].rt : g \in VpActor(e)}

=============================================================================
