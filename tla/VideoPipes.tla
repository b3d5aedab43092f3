----------------------------- MODULE VideoPipes -----------------------------
(***************************************************************************)
(* The ffmpeg processes of the videochannel transport                      *)
(* (transport/videochannel/transport.go, ffmpeg.go): the encoder that      *)
(* Connect starts and the writer feeds, and a decoder for every remote     *)
(* track, of which only the last is kept; and the Close that may run while *)
(* Connect, a track handler or the writer is at work.                      *)
(*                                                                         *)
(* A picture is the payload it shows, 0 for the idle picture.  ffmpeg      *)
(* keeps the order of its pictures and may be slower than EncodeFrame is   *)
(* ready to wait.  The acknowledgements and fragments on top are those of  *)
(* ArqTransport.                                                           *)
(***************************************************************************)
EXTENDS Naturals, Sequences

CONSTANTS
  VdTracks,    \* bound: remote tracks that come
  VdPayloads,  \* bound: payloads that are sent
  VdTimeouts   \* bound: times ffmpeg is too slow

ASSUME VdAssumption == VdTracks \in Nat /\ VdPayloads \in Nat /\ VdTimeouts \in Nat

VdTrack == 1..VdTracks
Picture == 0..VdPayloads

VARIABLES
  vdConnect,   \* where Connect is
  vdClose,     \* where Close is; closed and closeCh are set from "told" on
  vdEncoder,   \* the encoder: "none", "held" by Connect only, "set" in p.encoder
  vdEncAlive,  \* its process runs
  vdWriter,    \* writerLoop
  vdAsked,     \* the picture the writer is encoding
  vdPipe,      \* pictures written to ffmpeg whose samples nobody has taken
  vdIdle,      \* idleFrame: <<what its sample shows>>, or <<>>
  vdWire,      \* the last sample on the track: the picture asked for, and what it shows
  vdSent,      \* payloads taken from outbound
  vdTimeouts,  \* timeouts of EncodeFrame so far
  vdHandler,   \* handleRemoteTrack of every track
  vdDecAlive,  \* the process of its decoder runs
  vdPop, vdRead,   \* popDecoderFrames and readDecoderInput
  vdDecoder    \* p.decoder: the track, or 0

vdEncode == <<vdEncoder, vdEncAlive, vdWriter, vdAsked, vdPipe, vdIdle, vdWire, vdSent, vdTimeouts>>
vdDecode == <<vdHandler, vdDecAlive, vdPop, vdRead, vdDecoder>>
vdVars == <<vdConnect, vdClose, vdEncode, vdDecode>>

VdTypeOK ==
  /\ vdConnect \in {"new", "join", "check", "writer", "done", "failed"}
  /\ vdClose \in {"no", "told", "decoder", "wait", "closed"}
  /\ vdEncoder \in {"none", "held", "set"} /\ vdEncAlive \in BOOLEAN
  /\ vdWriter \in {"off", "run", "encode", "done"}
  /\ vdAsked \in Picture /\ vdPipe \in Seq(Picture) /\ vdSent \in 0..VdPayloads
  /\ vdIdle \in {<<>>} \cup {<<p>> : p \in Picture} /\ vdWire \in Picture \X Picture
  /\ vdTimeouts \in 0..VdTimeouts
  /\ vdHandler \in [VdTrack -> {"off", "made", "done"}] /\ vdDecAlive \in [VdTrack -> BOOLEAN]
  /\ vdPop \in [VdTrack -> {"off", "run", "done"}] /\ vdRead \in [VdTrack -> {"off", "run", "done"}]
  /\ vdDecoder \in {0} \cup VdTrack

VdInit ==
  /\ vdConnect = "new" /\ vdClose = "no"
  /\ vdEncoder = "none" /\ vdEncAlive = FALSE /\ vdWriter = "off" /\ vdAsked = 0
  /\ vdPipe = <<>> /\ vdIdle = <<>> /\ vdWire = <<0, 0>> /\ vdSent = 0 /\ vdTimeouts = 0
  /\ vdHandler = [t \in VdTrack |-> "off"] /\ vdDecAlive = [t \in VdTrack |-> FALSE]
  /\ vdPop = [t \in VdTrack |-> "off"] /\ vdRead = [t \in VdTrack |-> "off"] /\ vdDecoder = 0

VdClosed == vdClose # "no"

-----------------------------------------------------------------------------
(* Connect.                                                                *)

(* newFFmpegEncoder.                                                       *)
VdMakeEncoder ==
  /\ vdConnect = "new"
  /\ \/ vdConnect' = "failed" /\ UNCHANGED <<vdEncoder, vdEncAlive>>
     \/ vdConnect' = "join" /\ vdEncoder' = "held" /\ vdEncAlive' = TRUE
  /\ UNCHANGED <<vdClose, vdWriter, vdAsked, vdPipe, vdIdle, vdWire, vdSent, vdTimeouts, vdDecode>>

VdJoinStream ==
  /\ vdConnect = "join"
  /\ \/ vdConnect' = "check" /\ UNCHANGED <<vdEncoder, vdEncAlive>>
     \/ vdConnect' = "failed" /\ vdEncoder' = "none" /\ vdEncAlive' = FALSE
  /\ UNCHANGED <<vdClose, vdWriter, vdAsked, vdPipe, vdIdle, vdWire, vdSent, vdTimeouts, vdDecode>>

(* Under encoderMu: what has been closed meanwhile gets no encoder.        *)
VdSetEncoder ==
  /\ vdConnect = "check"
  /\ IF VdClosed THEN vdConnect' = "failed" /\ vdEncoder' = "none" /\ vdEncAlive' = FALSE
     ELSE vdConnect' = "writer" /\ vdEncoder' = "set" /\ UNCHANGED vdEncAlive
  /\ UNCHANGED <<vdClose, vdWriter, vdAsked, vdPipe, vdIdle, vdWire, vdSent, vdTimeouts, vdDecode>>

VdStartWriter ==
  /\ vdConnect = "writer" /\ vdConnect' = "done" /\ vdWriter' = "run"
  /\ UNCHANGED <<vdClose, vdEncoder, vdEncAlive, vdAsked, vdPipe, vdIdle, vdWire, vdSent,
                 vdTimeouts, vdDecode>>

-----------------------------------------------------------------------------
(* writerLoop.                                                             *)

(* A tick: the next payload, or the idle picture; a failed encoder only    *)
(* writes to the log.  Once encoded, the idle picture is taken from cache. *)
VdTick(picture) ==
  /\ vdWriter = "run" /\ ~VdClosed
  /\ picture = 0 \/ (picture = vdSent + 1 /\ picture \in Picture)
  /\ vdSent' = IF picture = 0 THEN vdSent ELSE picture
  /\ IF picture = 0 /\ vdIdle # <<>>
     THEN vdWire' = <<0, vdIdle[1]>> /\ UNCHANGED <<vdWriter, vdAsked, vdPipe>>
     ELSE /\ vdEncAlive /\ vdWriter' = "encode" /\ vdAsked' = picture
          /\ vdPipe' = Append(vdPipe, picture) /\ UNCHANGED vdWire
  /\ UNCHANGED <<vdConnect, vdClose, vdEncoder, vdEncAlive, vdIdle, vdTimeouts, vdDecode>>

(* Mutation: the sample of a payload is kept as the idle frame as well.    *)
CachedAny(shown) == <<shown>>
Cached(shown) == IF vdAsked = 0 THEN <<shown>> ELSE vdIdle

(* EncodeFrame returns the next sample, whatever picture it is of.         *)
VdSample ==
  /\ vdWriter = "encode" /\ vdEncAlive /\ vdPipe # <<>>
  /\ vdWire' = <<vdAsked, Head(vdPipe)>> /\ vdPipe' = Tail(vdPipe)
  /\ vdIdle' = Cached(Head(vdPipe))
  /\ vdWriter' = "run"
  /\ UNCHANGED <<vdConnect, vdClose, vdEncoder, vdEncAlive, vdAsked, vdSent, vdTimeouts, vdDecode>>

(* ffmpegFrameTimeout: the sample comes later, and stays in the channel.   *)
VdEncodeTimeout ==
  /\ vdWriter = "encode" /\ vdEncAlive /\ vdTimeouts < VdTimeouts
  /\ vdTimeouts' = vdTimeouts + 1 /\ vdWriter' = "run"
  /\ UNCHANGED <<vdConnect, vdClose, vdEncoder, vdEncAlive, vdAsked, vdPipe, vdIdle, vdWire,
                 vdSent, vdDecode>>

VdEncoderGone ==
  /\ vdWriter = "encode" /\ ~vdEncAlive /\ vdWriter' = "run"
  /\ UNCHANGED <<vdConnect, vdClose, vdEncoder, vdEncAlive, vdAsked, vdPipe, vdIdle, vdWire,
                 vdSent, vdTimeouts, vdDecode>>

(* closeCh ends the loop, whose end closes the encoder once more.          *)
(* Mutation: closeCh is asked only by a writer that has something to send. *)
WriterToldIfBusy == VdClosed /\ vdSent < VdPayloads
WriterTold == VdClosed

VdWriterStops ==
  /\ vdWriter = "run" /\ WriterTold /\ vdWriter' = "done" /\ vdEncAlive' = FALSE
  /\ UNCHANGED <<vdConnect, vdClose, vdEncoder, vdAsked, vdPipe, vdIdle, vdWire, vdSent,
                 vdTimeouts, vdDecode>>

-----------------------------------------------------------------------------
(* Remote tracks.                                                          *)

(* handleRemoteTrack starts a decoder of its own.                          *)
VdTrackComes(t) ==
  /\ vdHandler[t] = "off" /\ vdConnect \notin {"new", "failed"} /\ vdClose # "closed"
  /\ \/ vdHandler' = [vdHandler EXCEPT ![t] = "made"] /\ vdDecAlive' = [vdDecAlive EXCEPT ![t] = TRUE]
     \/ vdHandler' = [vdHandler EXCEPT ![t] = "done"] /\ UNCHANGED vdDecAlive
  /\ UNCHANGED <<vdConnect, vdClose, vdEncode, vdPop, vdRead, vdDecoder>>

(* Mutation: closed is not asked again once the decoder is there.          *)
DecoderWelcomeAlways == TRUE
DecoderWelcome == ~VdClosed

(* Under decoderMu: it takes the place of the decoder before it.           *)
VdSetDecoder(t) ==
  /\ vdHandler[t] = "made" /\ vdHandler' = [vdHandler EXCEPT ![t] = "done"]
  /\ IF DecoderWelcome
     THEN /\ vdDecoder' = t
          /\ vdDecAlive' = [u \in VdTrack |-> vdDecAlive[u] /\ u # vdDecoder]
          /\ vdPop' = [vdPop EXCEPT ![t] = "run"] /\ vdRead' = [vdRead EXCEPT ![t] = "run"]
     ELSE /\ vdDecAlive' = [vdDecAlive EXCEPT ![t] = FALSE]
          /\ UNCHANGED <<vdDecoder, vdPop, vdRead>>
  /\ UNCHANGED <<vdConnect, vdClose, vdEncode>>

(* closeCh, the end of the decoder, or 10 s without a picture: the decoder *)
(* is closed for good.                                                     *)
VdPopEnds(t) ==
  /\ vdPop[t] = "run" /\ vdPop' = [vdPop EXCEPT ![t] = "done"]
  /\ vdDecoder' = IF vdDecoder = t THEN 0 ELSE vdDecoder
  /\ vdDecAlive' = [vdDecAlive EXCEPT ![t] = FALSE]
  /\ UNCHANGED <<vdConnect, vdClose, vdEncode, vdHandler, vdRead>>

(* closeCh, a push to a decoder that has ended, or the end of the track.   *)
VdReadEnds(t) ==
  /\ vdRead[t] = "run" /\ vdRead' = [vdRead EXCEPT ![t] = "done"]
  /\ UNCHANGED <<vdConnect, vdClose, vdEncode, vdHandler, vdPop, vdDecAlive, vdDecoder>>

-----------------------------------------------------------------------------
(* Close.                                                                  *)

VdCloseGoes(from, to) == vdClose = from /\ vdClose' = to

VdCloseBegins ==
  /\ vdConnect # "new" /\ VdCloseGoes("no", "told") /\ UNCHANGED <<vdConnect, vdEncode, vdDecode>>

VdCloseEncoder ==
  /\ VdCloseGoes("told", "decoder")
  /\ vdEncAlive' = (vdEncAlive /\ vdEncoder # "set")
  /\ UNCHANGED <<vdConnect, vdEncoder, vdWriter, vdAsked, vdPipe, vdIdle, vdWire, vdSent,
                 vdTimeouts, vdDecode>>

VdCloseDecoder ==
  /\ VdCloseGoes("decoder", "wait")
  /\ vdDecAlive' = [t \in VdTrack |-> vdDecAlive[t] /\ t # vdDecoder]
  /\ UNCHANGED <<vdConnect, vdEncode, vdHandler, vdPop, vdRead, vdDecoder>>

(* writerDone, if the writer is up, and the stream.                        *)
VdCloseReturns ==
  /\ vdWriter \in {"off", "done"} /\ VdCloseGoes("wait", "closed")
  /\ UNCHANGED <<vdConnect, vdEncode, vdDecode>>

-----------------------------------------------------------------------------
VdProgress ==
  \/ VdJoinStream \/ VdSetEncoder \/ VdStartWriter \/ VdSample \/ VdEncoderGone \/ VdWriterStops
  \/ \E t \in VdTrack : VdSetDecoder(t)
  \/ VdCloseEncoder \/ VdCloseDecoder \/ VdCloseReturns

VdNext ==
  \/ VdProgress \/ VdMakeEncoder \/ VdEncodeTimeout \/ VdCloseBegins
  \/ \E picture \in Picture : VdTick(picture)
  \/ \E t \in VdTrack : VdTrackComes(t) \/ VdPopEnds(t) \/ VdReadEnds(t)

VdSpec == VdInit /\ [][VdNext]_vdVars /\ WF_vdVars(VdProgress)

-----------------------------------------------------------------------------
(* Properties.                                                             *)

(* Every sample shows the picture it was encoded for, the cached idle      *)
(* frame included, as long as EncodeFrame never gave up on ffmpeg.         *)
VdSampleIsAsked ==
  vdTimeouts = 0 => vdWire[1] = vdWire[2] /\ vdIdle \in {<<>>, <<0>>}

(* No ffmpeg process runs that nobody will close: an encoder or decoder    *)
(* outside its field is in the hands of a Connect or a handler that has    *)
(* still to ask whether the transport is closed.                           *)
VdNoStrayProcess ==
  /\ vdEncAlive => vdConnect \in {"join", "check"} \/ vdClose \in {"no", "told"}
  /\ \A t \in VdTrack : vdDecAlive[t] =>
       vdHandler[t] = "made" \/ (vdDecoder = t /\ vdClose \in {"no", "told", "decoder"})

(* Close returns, although it waits for a writer that may be waiting for   *)
(* ffmpeg.                                                                 *)
VdCloseIsFinite == VdClosed ~> vdClose = "closed"

=============================================================================
