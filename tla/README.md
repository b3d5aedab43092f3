# olcRTC in TLA+

Models, model-checked properties and machine-checked proofs about olcRTC, the
program under `src/olcrtc` that carries SOCKS5 connections through the video
calls of public conference services, and its Apple client under `src/apple`.

Contents: 1 the system, 2 the modules, 3 the runs, 4 bounds and fairness,
5 the proofs, 6 what the checks found, 7 what is not modelled, 8 the plan.

## 1. The system

A client and a server join the same call. One stack on each side:

    SOCKS5 application                         target host
          |                                        |
    client/client.go                         server/server.go
          |  one smux stream per connection        |
    smux session  <- - - - - - - - - - - - -> smux session
    muxconn (AEAD, byte stream over messages)  muxconn
    link/direct                                link/direct
    transport: datachannel | seichannel | videochannel | vp8channel
    carrier/builtin adapter
    provider: telemost | jazz | wbstream (WebRTC peer in the call)

Calls go down (`Send`, `CanSend`, `Close`); data (`onData`), reconnects, ends of
the call and remote tracks come back as callbacks on goroutines of the layer
below. That is where most of the difficulty is: a goroutine per track, timers,
callbacks that replace the session another goroutine waits on, and a peer that
may die and be replaced by a process with fresh counters.

| Component | State | Operations | What is hard | What makes it correct |
|---|---|---|---|---|
| seichannel (`transport/seichannel`) | `nextSeq`, `ackWaiters`, `outbound`, `outboundAck`, `inbound`, `delivered`, `closed`, writer | `Send`, `Connect`, `Close`, `handleInboundFrame`, `resolveAck`, `writerLoop` | lost, damaged and repeated frames; several tracks; a restarted peer; data and acknowledgements share a writer | a `Send` that returned nil was delivered; order; no message twice; `Send` and `Close` return |
| videochannel (`transport/videochannel`) | the same, plus encoder and decoder processes | the same, `handleRemoteTrack`, `popDecoderFrames` | a second track replaces the decoder while the first is read | the same; one decoder is open |
| vp8channel (`transport/vp8channel`) | `localEpoch`, `peerEpoch`, `hadPeer`, `kcp` | `Send`, `handleIncomingFrame`, `resetKCP`, `Close` | both sides reset when the other does; frames of the old epoch; two track goroutines | resets end; one KCP runtime; no byte of an old session in a new one |
| datachannel (`transport/datachannel`) | none | delegates | – | – |
| muxconn (`internal/muxconn`) | buffer, `closed` | `Push`, `Read`, `Write`, `Close` | `Write` polls `CanSend` for ever | a byte stream per link |
| client (`internal/client`) | `session`, `conn` | `RunWithReady`, `handleSocks5`, `tunnel`, `handleReconnect`, `onData` | the session is replaced under open connections; deadlines | a connection carries its own bytes to its own target |
| server (`internal/server`) | `session`, `conn`, `reinstallMu` | `Run`, `serve`, `handleReconnect`, `reinstallSession`, `closeSession`, `handleStream`, `dispatch` | `serve` and callbacks replace the session at once; the context ends in between | one session; it comes back; `Run` ends |
| mobile (`mobile/mobile.go`) | package variables `cancel`, `done`, `ready`, `errRun` | `Start`, `Stop`, `WaitReady`, `IsRunning`, `Check`, `Ping` | calls from any thread while a run ends | one client; `Stop` stops it; `WaitReady` tells the truth |
| telemost (`provider/telemost`) | peer connections, websocket, `sendQueue`, `reconnectCh`, `ackWaiters` | `Connect`, `Send`, `reconnect`, `WatchConnection`, `Close` | four send workers; reconnect beside `Close`; signals lost or stale | order; no worker survives its session; a lost connection returns |
| jazz, wbstream (`provider/jazz`, `provider/wbstream`) | the same, smaller | the same | jazz ignores its reconnect signals; wbstream closes a queue that `Send` uses | as above |
| app/session, cmd | configuration | `Validate`, `Run`, `Gen` | exit within 5 s | sound configurations pass, others do not |
| Apple client (`src/apple`) | view model status, process engine | `start`, `stop`, relaunch after a port conflict, termination handler | tasks that resume after `stop`; a handler of the old process | the status tells whether a process runs |
| carrier, link, names, protect, logger, crypto | registries, none | – | – | – |

Every hazard of the list in `PROJECT.json` is at the line where it bites, with the
properties that cover it or the reason why none does, and with what a property excepts.

## 2. The modules

**ArqTransport** – the stop-and-wait protocol of `seichannel/transport.go`. One set of variables per peer. `tx` is the `Send` that holds `sendMu` with its place in the
loop of attempts and the content of its waiter channel; `outbound` and `outboundAck` are the channels; `writer` and `life` are `writerUp`/`writerDone` and
`closed`/`closeCh`; `reader[p][t]` is the goroutine of a track between the unlock
of `recvMu`, `onData` and `sendAck`. Actions and code:

| Actions | Code |
|---|---|
| `CallSend`, `StartSend`, `EnqueueFragment`, `EnqueueClosed`, `AwaitAck`, `AwaitTimeout`, `AwaitClosed` | `Send`, `enqueueFrame` |
| `Connect`, `WriteAck`, `WriteData`, `WriterExit` | `Connect`, `writerLoop`, `nextOutboundFrame` |
| `CloseBegin`, `CloseFinish` | `Close` |
| `ReceiveAck` | `resolveAck` |
| `ReceiveDuplicate`, `ReceiveFragment`, `ReceiveDamaged`, `ReceiveMessage`, `HandToUpper`, `SendAck` | `handleInboundFrame` and what it calls |
| `Restart` | a process dies, `New` makes another |

Abstractions. A message is a model value that stands for bytes, length and
crc32: two sealed messages are never equal. The path of a track keeps order, and
may lose a frame or damage the payload of a data frame; a damaged
acknowledgement does not parse. `Send` may be called by any number of goroutines.
A `Send` that is inside the `select` of `enqueueFrame` when `closeCh` closes takes
either branch in Go; the model gives it the second, and the frame it would have queued
is one that could have been queued just before.

**MessageLink** – the abstract specification of a transport whose `Features` say
Reliable and Ordered: messages are accepted, delivered later than everything
delivered before, reported as successful only if delivered. **ArqImplementsLink** gives
the refinement mapping: `StartSend` accepts, the mark in the delivered table under
`recvMu` delivers, the return from `Send` succeeds or fails, and a `Restart` replaces a
peer. **MCArqTransport** has the instances.

**MobileRuntime** – the four functions of `mobile.go` that share the package variables.
A run is a number; each variable holds the run whose function or channel it is.
Reads under `mu` are one action, what follows without it another, and the last two
statements of the goroutine of a run (`Publish`, `CloseDone`) are two.

**ServerSession** – the session of the server from `Run` to its return. `pc` says
where `Run` and each reconnect callback are; `Make`/`Publish` are the two halves of
`installSession`, `TearDown` the critical section of `reinstallSession`, `CloseAtEnd`
the goroutine that waits for the context. `WatchConnection` makes callbacks one after
the other and `Run` waits for it; a track goroutine of vp8channel makes them beside it, from the time
`bringUpLink` has set the callback: also while `Run` is in `Connect` or in its first `installSession`, which does not take `reinstallMu`
(`BringingUp`), and after `Run` has returned because `Connect` failed. The history variable `early` remembers that a callback replaced a session before `Run` had published its first.
smux is external: `AcceptStream` and streams end when the session is closed or broken.

**TunnelStreams** – SOCKS connections over both sessions: `PickSession`, `OpenStream`,
`SendRequest`, the answer, copying, deadlines on the client; `AcceptStream`,
`ServerReceive`, `Dial`, `CopyDown`, `EndStream` on the server; each side tears down and
installs its session on its own. A frame carries the number of a stream and no
session, as in smux. `reached` and `came` record whose bytes arrived where.

**Vp8Channel** – the two ends of a vp8channel call. A frame is its epoch, which names the
end and the process that sent it; `vpAir[e]` are the frames on their way, in no order, and
`SfuNoise` what the SFU brings besides: reflected frames and those of other clients. A goroutine per
track runs `FrameArrives`, `FirstPeer`, `StartsOnce`, `SwapsEpoch`; these and the callback of the
carrier (`CarrierReconnects`) run `ResetTakes` and `ResetMakes`, the two halves of `resetKCP` between which
another goroutine may come. `vpKcp` is `p.kcp`, `vpOpen` the runtimes nobody has closed. `VpRestart` replaces a
process. What KCP does with bytes is outside. **RtpFrames** – `vp8FrameState`: packets numbered without
end, of which the header shows the number modulo `RtWidth`.

**VideoPipes** – the ffmpeg processes of videochannel: the encoder (`VdMakeEncoder` to `VdStartWriter` are `Connect`,
`VdTick`, `VdSample`, `VdEncodeTimeout`, `VdEncoderGone` the writer and `EncodeFrame`), a decoder per remote track
(`VdTrackComes`, `VdSetDecoder`, `VdPopEnds`, `VdReadEnds`), and `Close` in four steps. A picture is the
payload it shows. Fragments and acknowledgements above are those of ArqTransport.

**TelemostPeer** – `provider/telemost/peer.go` whole: `Connect` by its owner or by `reconnect`
(`ConnectBegin`, `DialWebSocket`, `AwaitReady`, `AwaitFails`), the callbacks of the WebRTC objects, signalling, keep-alive
and telemetry goroutines of every connection, the send queue and its workers, `WatchConnection` with `handleReconnectAttempt`,
`reconnect` and `retryReconnect`, and `Close`. `tmConn[s]` has the objects and goroutines of connection `s`. Two
abstractions rest on times in the code: the 3.5 s that `reconnect` sleeps are longer than the old goroutines take to end,
and closing an object runs its callbacks at once. **JazzPeer** – the same of jazz, with publisher and subscriber negotiation, one
worker and a `WatchConnection` that only empties its channel. **WbStreamPeer** – the requests of `Connect`,
the room and its callback, `Send` in two steps beside a `Close` in four.

**ClientRun** – `RunWithReady`: link, first pair of connection and session, port, `acceptLoop`, shutdown; and
`handleReconnect` on any number of goroutines. `bringUpLink` and `handleReconnect` make a pair in the same steps
(`CnMakesConn`, `CnMakesSession`, `CnInstalls`). SOCKS handshakes are their branches. A nil connection makes the program panic (`cnRun = "panic"`).
The history variable `cnCrossings` counts the callbacks that began beside another maker or outside of the service, and a shutdown beside a maker. No guard reads it.
A run that fails in `Connect` ends in `"failed"` with its link open, as in the code.

**MobileCheck** – `Check` and `Ping`: the client of a call, the wait for readiness, the samples, the two seconds of `waitForCheckDone`.
**ProgramRun** – `main.go` and `app/session`: a configuration by the fields the code branches on, `Validate` and `ValidateGen`,
the session or `Gen` with `genRetry` on its goroutine, signal and forced exit. `Interval` computes the period of the ticker as the transports do, in
units of which `PgSecond` make a second.

**MCProviders**, **MCParts** – one behaviour of one of the modules they extend at a time, so that independent modules share a run.

**ArqProofs**, **ArqLinkProofs**, **MobileProofs**, **ServerProofs**, **TunnelProofs**, **ProviderProofs** (the three providers), **ProgramProofs** (program,
`Check`, client), **VideoProofs** (RTP frames, vp8channel, videochannel) – the theorems, section 5.

How they compose: ArqTransport implements MessageLink, the link over which TunnelStreams
sends, except that a reconnect loses what is on its way; ServerSession is the detail
of `ServerTearDown` and `ServerInstall` of TunnelStreams, ClientRun that of `ClientTearDown` and `ClientInstall`. The callback that
`CarrierReconnects` of Vp8Channel stands for comes from `ReconnectDone` of TelemostPeer, and so do the callbacks of ServerSession and ClientRun on the other
transports. MobileRuntime, MobileCheck and ProgramRun start and end runs of the client or the server.

## 3. The runs

Runs that pass:

| Run | Properties | What it shows |
|---|---|---|
| `ArqLink` | `TypeOK`, `AckedIsAccepted`, `AckedIsHanded`, `HandedIntact`, `DeliveredBounded`, `ImplementsLink` | On one track the protocol is the reliable ordered link through loss, damage, retries, `Close`, resets of the delivered table and one restart of a process. |
| `ArqTwoWay` | `SendReturns`, `CloseReturns` | Both peers send over queues of one place: nobody waits for ever. |
| `MobileRestarts` | `TypeOK`, `RunningIsKnown`, `ReadyIsTrue` | Two threads and three runs: a running client is always the one `Stop` would cancel; `WaitReady` is never answered by another run's channel. |
| `ServerBounces` | `TypeOK`, `OneSession`, `RunSparesSession`, `SessionReturns` | `Run` and two callbacks replace sessions at once: never two open unless a callback came before the first session, and then never three; `Run` does not tear down the fresh one; and a serving one returns, unless `Run` waits on a session that an early callback had replaced. |
| `TunnelReconnects` | `TypeOK`, `SessionsApart`, `SuccessMeansDialed`, `RequestEnds` | Connections of one client session are never mixed up whatever either side does; success means that the target was dialed; requests end. |
| `Providers` | `ProvidersTypeOK`, `TmOneLive`, `TmCloseReleases`, `TmConserved`, `TmLossRepaired`, `TmCloseEnds`, `JzInOrder`, `JzCloseEnds`, `WbEndIsNews` | Telemost: reconnecting leaves no connection behind, a lost connection is repaired, messages are lost only with a worker, `Close` ends every goroutine. Jazz: order, and a `Close` that ends everything. wbstream: an end reported is not one's own `Close`. |
| `Parts` | `PartsTypeOK`, `VpSettles`, `VpPeerIsNotSelf`, `VpNoStrayRuntime`, `RtFrameWhole`, `VdSampleIsAsked`, `VdNoStrayProcess`, `VdCloseIsFinite`, `CnNothingLeft`, `MkCallsApart`, `PgRateIsSafe`, `PgGenComplete` | vp8channel resets come to an end and the runtimes are closed; RTP frames are whole; samples show the picture they were encoded for, ffmpeg processes are closed, `Close` returns; a client run leaves nothing open but a pair for each callback that overlapped another or came outside the service; calls of `Check` do not meet; validated rates do not stop a ticker; a generation reports what it made. |

Runs that end in a counterexample (section 6): `ArqTwoTracksOrder`, `MobileStopHangs`,
`ServerRunHangs`, `ServerEarlyCallback`, `TunnelClientReconnects`.

Each property of a passing run has a mutant in `PROJECT.json`, a plausible mistake in
the code it is about (an acknowledgement accepted without its crc, a lock
forgotten on an early return, a session replaced without the comparison), and the same
run finds the property violated under it. The mutated operators stand beside
the originals, marked "Mutation of".

## 4. Bounds and fairness

*ArqLink*: two messages from one peer, the first in two fragments; two attempts, one
frame in the air, `outbound` of two, `outboundAck` of one, `DeliveredCap` 0 so that the
table is reset at every second message (256 in the code), one restart in all. Retries,
duplicates, a reset between a message and its retransmission, a peer whose numbers start
again, and a full queue all occur. A third message or a second frame in the air adds states and no
new kind of step. *ArqTwoWay*: one message each way, all queues of one place, the size at
which both directions can wait for one another. *MobileRestarts*: two threads is what the
races need, three runs lets a thread hold a run twice replaced. *ServerBounces*: one
callback of each kind and five sessions; `Break` leaves room for one more session for each
callback and for `Run`, so the bound never keeps a session from coming back. One callback of a track is enough
for *ServerEarlyCallback*. *TunnelReconnects*:
two connections, one reconnect per side, two frames per direction.

*Providers*: Telemost with one worker, two messages of which the second is oversized, two faults (a loss, and a failure of the
first retry or a loss of the second connection), and a limit of one reconnection, after which the end is signalled. One worker is enough for what the
run states, since no property speaks of order and a second worker only repeats what the first does; with four the order is not kept (section 6).
Jazz with two workers there could be, of which one is started, three messages, any object failing at any time. wbstream with a queue of one place and two calls of `Send`.

*Parts*: vp8channel in two scenes: one track per end with a restart of one end, reflected and foreign frames to it, a reconnection of the carrier and a `Close` of
the other; and two tracks at the end that stays, so that two goroutines race for a new epoch while frames of the dead process are still on their way. `VpRuntimes` numbers for the runtimes open at one end, five here, are the one bound in a guard (`RuntimeLeft`); the run never meets it: its states are the same with six.
Twelve RTP packets, six frames of one to three packets, sequence numbers modulo 4, any loss, repetition and
reordering shorter than a turn of the numbers. Two decoders, two payloads, one timeout of ffmpeg. Two callbacks of the client and one application, with
credentials. Two calls of `Check` or `Ping`, the second while the client of the first may still be there, three samples. Rates below zero, zero, usable and finer than the clock (4 units to the second),
batches with and without, two rooms, one field missing.

A run with `CHECK_DEADLOCK FALSE` stops for a reason of its own: every `Send` has
returned, the runs or the sessions are used up, every connection is over, the program has exited.

Fairness is weak and per goroutine. A goroutine that can take a step takes one, and timers fire, because the
Go scheduler runs every ready goroutine. `sendMu` is fair to the set of waiters
(some waiter gets it; with a finite number of calls each does). Nothing obliges the
application to call, the peer to answer, a session to break or a link to reconnect.
In MobileRuntime a client whose context is cancelled returns; in ServerSession `Run` may
wait in `AcceptStream` as long as the session lives, and a stream of a dead session
ends. `SendReturns` holds without any assumption that the path delivers: the number
of attempts is what ends a `Send`. It does assume that the writer was started.

In TelemostPeer `TmProgress` is what the program and an undisturbed network do: goroutines go on, a dialled connection opens,
timers fire. Faults, the end of the conference and the end of the context are free and the faults bounded by `TmFaults`: `TmLossRepaired` means that
repair needs a time without faults, as in the code, where the retries have no limit. A single weak fairness over all of it asks less than one per
goroutine, and the properties hold under it. JazzPeer and VideoPipes are alike; the owner of a provider closes it when its context has ended, as `client.go` and `server.go` do.
In Vp8Channel each end has weak fairness for its goroutines, for the writer, which sends the epoch even when idle, and for the arrival of frames of the process that
lives: a call that never brings a frame again is not a call. Nothing obliges frames of dead processes or reflected ones to arrive or to stop.

## 5. The proofs

The constants are unbounded in the theorems: any number of peers, messages,
tracks, threads, runs, callbacks and sessions, any capacities. The only assumptions are the named ones
in the modules (two peers point at one another, counts are naturals, `run` and
`free` are not names of callbacks).

* `ArqProofs!TypeCorrect`, `AckedMeansAccepted`. `AckedIsAccepted` (a `Send` that
  returned nil was for a message the peer marked) is not inductive. `AckedInv` follows the
  acknowledgement back: the content of the waiter (`WaiterTrail`), acknowledgements in the air
  (`AirTrail`), in the queue (`QueueTrail`), a goroutine about to acknowledge and the entry of the table
  (`TableTrail`) all name a message that was accepted. `accepted` only grows, so neither a reset of the table nor a restart hurts. One lemma per
  group of actions, types and trail apart.
* `ArqLinkProofs`, what the receiver promises. `HandedStayIntact`: the goroutine that hands a message up checked its crc (`HoldsIntact`). `AckedMeansHanded`: what was accepted was handed or is in
  hand, as long as the process lives (`AcceptedIsHanded`), and by `AckedInv` what was acknowledged was accepted. `DeliveredStaysBounded` counts the entries, which are keyed by number.
* `ArqLinkProofs!OneTrackKeepsOrder`, `OneTrackImplementsLink`, for a set of tracks with one element, as the run `ArqTwoTracksOrder` shows that with two they are false. `FlightInv`: a data frame on the air, in the queue or of the Send that holds `sendMu`
  belongs to one message of its sender under one number (`FlightOwned`), and tickets of `sendMu` are given once (`TicketsUnique`). `OrderInv`: along air, queue and Send the tickets never fall
  (`FlightInOrder`); everything the upper layer has is before all that is in flight, but for frames of the message accepted last, whose entry is still in the table (`UpperFirst`): that is why clearing the
  whole table is harmless on one track, and there only. The refinement maps what is handed or in hand to what MessageLink delivered: the steps that mark a message are the link's, all others stutter.
* `MobileProofs!RunningAlwaysKnown`, `ReadyAlwaysTrue`. The strengthening says that the
  client that lives is the run started last (`LastStarted`), that a channel is closed exactly if its run
  called `onReady` (`ReadyChannels`), and that what a caller holds belongs to one run (`HeldTogether`).
* `ServerProofs!AlwaysOneSession`. `SessionInv`: the thread at `install` or `publish`
  is the holder of `reinstallMu` (`Holder`). Unless a callback came early, nobody holds it before the first session (`BeforeServing`), before the holder publishes only its own session is open
  (`Empty`, `Fresh`), and else only the installed one (`Settled`). In any case the callbacks have one session among them until `Run` publishes its own, which is what `reinstallMu` does for them (`OneOther`);
  from then on one session may be lost, and every later reinstall closes the installed one before it opens another, so it stays one (`OneLost`): hence never three. The proof treats any step that moves one thread elsewhere as one case (`Moves`).
  `RunSparesWhatServes`, an action property: what `Run` saw was dead when it went for the lock and sessions that died stay dead (`MadeInv`), so what it closes cannot serve.
* `MobileProofs!MobileTypes`, `ServerProofs!SessionTypes`, `TunnelProofs!TunnelTypes`: type correctness, the base of the others.
* `TunnelProofs!SessionsStayApart`, `SuccessIsDialed`. Frames on their way and streams of the server carry the number of their tunnel (`Frames`, `Streams`),
  tunnels whose bytes met have the same number (`Meetings`), and no number is given twice in a session (`Numbers`, `Unique`): they are of different
  sessions. The server answers only for what it dialed (`Answers`).
* `ProviderProofs!OneConnectionLives`, `CloseReleasesAll`. `TmInv`: at most one of owner and watcher is in `Connect` (`OneConnects`), all
  connections but the current one are closed with their goroutines (`OthersDead`), the current one too where `Close` or `reconnect` has torn it down (`Released`).
  `WorkersLoseOneEach`: a worker loses what it holds when it ends, nothing holds before it runs (`HoldsWhileRunning`), so the messages that are lost are at most the workers that ended; queue, sent and held together are
  never more than what `Send` accepted (`LostInv`). `ProvidersAreTyped` needs that watchers which ended stay so: the count of attempts passes the limit by one at most.
  `SentInOrder`: the messages sent, held and queued are one increasing sequence (`SentBefore`, `QueueFollows`, `Increasing`) without a gap (`NoGap`, `Complete`), as at most one worker runs (`OneWorker`). `EndIsNews` from the order of the steps of `Close`.
* `ProgramProofs!NothingIsLeft`. The weight of a state (`CnWeight`) is what is open and what the makers that are midway will still make. Making moves weight and adds none; a callback adds a pair and takes away the pair of the fields,
  unless it counts as a crossing. `CnInv`: during the service the weight is at most one pair and one for each crossing, else one for each crossing (`CnBounded`); until the shutdown the fields and the hands of makers hold different things, all open (`CnHeld`);
  a field is empty only where a maker has emptied it and has still to fill it (`CnFilled`), so a callback that crosses nothing does take a pair away, and a maker that meets a nil connection has another beside it, which weighs more than one run without crossings can.
  `PartsAreTyped`: a callback makes at most one connection and one session, and so does the run (`Counted`), which is what the numbers in `Ids` are for.
* `ProgramProofs!RateIsSafe` rests on lemmas about division that truncates towards zero: the period is positive when rate times batch is not greater than the second. `GenerationIsComplete` counts
  rooms made and printed. `CallsStayApart` follows the client of each call.
* `VideoProofs!FramesAreWhole`: the buffer is always a stretch of consecutive packets from a start to `rtLast` with no start or marker inside (`Stretch`); two numbers that are equal modulo the width are the same packet because the network does
  not reorder by a whole turn (`SameNumber`).
* `VideoProofs!PeerIsNeverSelf`, `NoRuntimeStrays`. What a goroutine is about to take for the peer is not the epoch of its own process either (`NotOneself`). Without a race one goroutine at a time replaces the runtime,
  none once `Close` has begun, and `p.kcp` is nil from taking to making (`OneReplaces`): what is open is then in the field or in its hands (`NoStray`).
* `VideoProofs!SamplesAreAsked`, `NoProcessIsLeft`. Until a timeout the pipe of ffmpeg holds the picture the writer waits for and nothing else (`Encoding`), and outside `Connect` the encoder is in its field (`Encoder`).

Every invariant, action property and refinement that a passing run checks is stated by a theorem. Only model-checked are the liveness properties (`SendReturns`, `CloseReturns`,
`SessionReturns`, `RequestEnds`, `TmLossRepaired`, `TmCloseEnds`, `JzCloseEnds`, `VpSettles`, `VdCloseIsFinite`), which rest on fairness and are out of the prover's reach. What a recursive definition computes
for every input is out of reach as well; no module here has one.

## 6. What the checks found

1. `ArqTwoTracksOrder` – `Features` of seichannel announces `Ordered`, but `onData` runs after
   `recvMu` was released. With two remote tracks, a retransmission on the second is acknowledged as a duplicate
   before the first goroutine has handed the message over; the next message overtakes it.
2. `MobileStopHangs` – a run gives `cancel` back under `mu` and then closes the package
   variable `done`. A `Start` in between replaces it: the next run's channel is closed, and a `Stop` that
   waits for the first never returns (or the process panics on a second close).
3. `ServerRunHangs` – a reconnect callback after the end of the context installs a session after the closer has
   run; a `serve` that had passed its check waits on it for ever.
4. `ServerEarlyCallback` – `bringUpLink` of the server sets the reconnect callback before `Connect` and installs the first session without `reinstallMu` (server.go:223-231). The callback of a
   vp8channel track that found no session yet makes its own, and publishes it over that of `Run`: two are open, and `Run`, which had begun to accept on the first, stays with it. That session gets no more data, has no keepalive and
   is closed by nobody, so the server accepts no stream and does not even end with its context. `OneSession` and `SessionReturns` except this case by `early`, and the first says what still holds in it.
5. `TunnelClientReconnects` – when only the client's link reconnects, stream numbers start again while the
   server's session goes on, and bytes of a new connection reach the target of an old one. With frames of
   both sessions on the link the answer to another stream can also be taken for success; that is why
   `SuccessMeansDialed` speaks of the first session only.

Some properties of `MobileRestarts`, `ServerBounces`, `Providers` and `Parts` hold only outside of a case in which the code does go wrong. Each such case is a
history variable or a disjunct of the property, and is met in the model. Others are no concern of a property, but the models have them:

* `tmMissed` – a loss of the new connection while `reconnecting` is still set is dropped by `queueReconnect` (peer.go:171-182) or by `drainReconnectQueue`
  (234-242): nobody repairs it. `tmLate` – `Close` looks at the fields while `reconnect` is in its sleep or in `Connect`, which sets `closed` to false
  again (246): the connection made after that stays open.
* Four workers of Telemost share a queue and one ordered data channel and overtake one another (1414-1446), while datachannel announces `Ordered` (transport/datachannel/transport.go:97).
* Jazz takes reconnect requests and does nothing (peer.go:735-745), although docs/about.md:275 names an automatic reconnection; its `Close` waits 2 s for a reader that only the later
  closing of the websocket unblocks.
* wbstream: a `Send` that passed its check of `closed` before `Close` closes the queue panics (peer.go:182-203; `wbSender = "panic"`).
* `vpRaced` – two resets at once, a reset beside or after `Close`, or a callback of the carrier before the first frame leave a KCP runtime open; `kcpOnce` overwrites in the last case.
  `VpPeerIsNotSelf` does not deny that a reflected frame of an *earlier* process of the same end is taken for the peer until the peer's next frame. The comment at transport.go:100-102 says that the epoch changes on every restart of smux,
  the one at 372-376 that it does not; the code is the latter.
* `vdTimeouts` – after `EncodeFrame` gave up, the late sample is taken for the next picture, and for ever if that was the cached idle one.
* `cnCrossings` – two callbacks of the client at once, one beside `bringUpLink`, or one after `shutdown` leak a connection and a session each, or follow a nil `c.conn`; `CnNothingLeft` says that they leak no more.
* A link whose `Connect` failed is never closed. The client returns from `RunWithReady` before `defer c.shutdown()` (client.go:229-231 and 155; `cnRun = "failed"` with `cnLink = "open"`), and the server returns from `Run` likewise
  (server.go:226-228 and 107-115; `ConnectFails`), where a later callback of a track even installs a session that nobody will close. `CnNothingLeft` speaks of the link of a run that returned, and of the port, connections and sessions of both.
* `WaitReady` looks at the channel `ready` before it looks for a client (mobile.go:636), and the channel of a client that has ended stays closed: the call returns nil, although "WaitReady blocks until the selected transport is connected" (mobile.go:618).
  `ReadyIsTrue` is about calls that found a client.
* `PgRateIsSafe` excepts negative rates: `Validate` only compares with zero, and `time.NewTicker` panics. `PgForced` – after five seconds `waitForShutdown` returns nil, exit status 0, while the session runs.

## 7. Not modelled

HTTP requests beyond success and failure, the content of signalling and WebRTC negotiation, image processing, Reed-Solomon
arithmetic, NAL escaping, the bytes of SOCKS addresses and of jazz data packets, logging, word lists, socket options, user interface: I/O or pure computation that a small
model would not reach. smux, KCP, pion and the LiveKit SDK are libraries, taken by what the code relies on.
Window updates and FIN of smux are left out of TunnelStreams (a FIN makes the other side close the stream, which it may
always do); crc32 collisions and the wrap of the 32-bit `seq` are left out of ArqTransport. The datachannel transport, links and carriers delegate. The Apple client is
Swift around the mobile API or the command and has no model yet. `PROJECT.json` gives each component's state.

## 8. Plan

What is left, the most useful first:

1. **AppleClient** – tasks of the view model and the process engine: `stop` beside a suspended start, the termination handler of a process that was replaced.
2. Proofs: for liveness, the safety half of the arguments (who holds `sendMu` can take a step, a callback that waits for `reinstallMu` has a holder that releases it);
   order with several tracks under the hypothesis that a retransmission never overtakes.
3. Abstract specifications: a session per side that is there or not (implemented by ServerSession and ClientRun), and a
   tunnel that carries its own bytes (implemented by TunnelStreams until the client reconnects), each with the proof of its refinement.
4. Half-closed connections in TunnelStreams: which bytes must still arrive when one direction ends.
