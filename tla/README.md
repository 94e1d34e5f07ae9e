# A verification project for wfb-go

wfb-go sends packet streams (video, telemetry, a tunnel) over wifi cards in
monitor mode, one way or both ways, with forward error correction (FEC) instead
of acknowledgements.  This directory holds TLA+ modules that model its core,
configurations that check them with TLC, and proofs checked with TLAPS.
Paths below are relative to the repository.

## The system

| Component | State | Operations | Interacts with |
|---|---|---|---|
| **Transmitter** `pkg/tx/transmitter.go` | session key, k, n, block number, fragment number, the open block | SendPacket, SendFECOnly, SetFEC, SendSessionKey, the FEC timeout goroutine, key rotation at MaxBlockIdx | called by stream services; calls an Injector; everything under `t.mu` |
| **Injector** `pkg/tx/rawsocket.go`, `udp.go` | selected interface (or all: mirror mode), sockets, counters | Inject, SelectInterface | called by Transmitter under `t.mu`, SelectInterface by keepalive and antenna callbacks |
| **Aggregator** `pkg/rx/aggregator.go` | session, epoch, ring, output channel, statistics | ProcessPacket (session and data packets), runOutputProcessor, Flush, Close | called by one goroutine per wlan; calls outputFn from a goroutine of its own |
| **Ring** `pkg/rx/ring.go` | 40 slots of blocks with their fragments, front, alloc, lastKnown | GetBlockRingIdx, SetFragmentSize, Recover, Advance, Reset ... | private to Aggregator, under `a.mu` |
| **FEC codec** `pkg/fec` | matrices | EncodeInPlace, Reconstruct | Transmitter and Ring |
| **Capture** `pkg/rx/capture*.go`, `receiver.go`, `afpacket.go` | shared captures, consumers with bounded queues | Run, AddConsumer, Start, Close | one goroutine per capture and per receiver |
| **Stream services** `pkg/server/service*.go`, `util/aggregator.go` | peer sockets, keepalive counters, packet buffer with timer | input loop, session announcer, keepalives, SetAntenna, Stop | Transmitter, Forwarder, PacketAggregator |
| **TX antenna selector** `pkg/server/antenna.go` | selected wlan | Update, callbacks | statistics loop, stream services |
| **Server** `pkg/server/server.go`, `stats.go`, `api.go` | services, configuration, statistics | Start, Stop, ApplyConfig, API | all of the above |
| **Adaptive link** `pkg/adaptive` | drone: profile, fallback timers, keyframe codes, FEC and bitrate in force; ground station: scores, noise estimate, keyframe request | processPacket, checkFallback, checkTxDropped; the monitor's update loop | tunnel stream, encoder commands, Server |
| **Drone configuration** `pkg/server/web/drone_ssh.go` | none of its own: the drone's files and programs | GetConfig, SetConfig | a drone with the original wfb-ng, over SSH through the tunnel |
| **Pit mode** `pkg/server/web/pitmode.go` | whether it is enabled, the powers before | Enable, Disable | `pkg/wifi/adapter`, the drone over SSH |
| crypto, protocol, wifi, config, the rest of web, cmd | | byte formats, computation, external commands, HTTP | |

What is hard in it:

* *Ordering and duplication.* Several wlans hear the same frame; their goroutines
  reach `ProcessPacket` in any order. The receiver sends the fragments of its
  oldest block as they arrive, but flushes blocks early when a newer one
  completes, and decodes others: three ways out that must not cross.
* *Session changes.* The key changes at rotation and in `SetFEC`; the receiver
  learns of it from a packet that may be late, repeated or lost.
* *Partial failure.* An injection may fail anywhere in a block; in mirror mode it
  may fail and have transmitted.
* *Timeouts.* A goroutine closes an open block with padding while packets arrive.
* *Bounds.* The ring, the output queue, the consumer queues, the block numbers.
* *Locks.* Goroutines waited for while holding a lock they need (server), a
  channel closed while another goroutine sends (capture).
* *Read, act, write.* The keepalive loop reads counters and the selected
  interface, sends, and writes back what it read, while packets and antenna
  switches change them.
* *Control loops.* Timers, smoothing, hysteresis, fallback and limits on requests
  act on each other, over reports that get lost.
* *Two machines.* A configuration, or pit mode, is set on the drone by commands
  that restart the radio they are sent over.

`PROJECT.json` lists each of these under `hazards`, at its line, with the
properties that cover it.

What makes each component correct:

* Transmitter: nonces are unique per key; every finished block is one whole code
  word; accepted packets are sent once, in order; open blocks get closed.
* Aggregator and ring: output in stream order and without repetition; whatever
  can be decoded is output at once and in full; no loop hangs; the ring is
  consecutive; sessions do not leak into each other; losses are counted right.
* Link: the output is a subsequence of the input (per session taken up).
* Injector and keepalives: the selected interface is the one last selected.
* Capture: no send on a closed queue; every consumer is served, in order, and reads
  the frame that was captured; Close ends Run.
* Antenna selector: the selection is a best eligible antenna within hysteresis,
  and every stream ends up on the selected one.
* Streams: what is accepted is sent; a tunnel is never silent, broadcasts when it
  is deaf and only then; no client and no goroutine is left behind by Stop.
* Adaptive link: bitrate and FEC in force fit each other; a silent ground station
  leads to the safest profile, a steady signal to its own, a loss to a keyframe.
* Drone configuration: the camera and the radio's channel, modulation and code are
  those of the files, and the adaptive link runs if it was asked for; every request
  is answered; pit mode ends with the power from before.
* Server: Stop returns; what runs has the settings in force; a failed configuration
  change leaves a known state.

## Modules

| Module | Models | Lines it stands for |
|---|---|---|
| `WfbFragments` | fragment contents, the encoder and decoder by their effect | `zfex.go`, `packets.go` |
| `WfbRing` | the ring's methods as operators from rings to rings | `ring.go` |
| `WfbAggregator` | ProcessPacket and runOutputProcessor as actions, the properties of the receiver | `aggregator.go` |
| `WfbReceiver` | an aggregator given arbitrary packets; its inductive invariant `RxInv` | `ProcessPacket` |
| `WfbReceiverProofs` | theorems about `WfbReceiver`, and about `MCReceiver`'s honest transmitter | |
| `WfbTransmitter` | the transmitter's handlers as actions | `transmitter.go`, outcomes of `rawsocket.go` |
| `WfbTransmitterProofs` | theorems about `WfbTransmitter` | |
| `OrderedDelivery` | abstract specification: what a stream promises | |
| `WfbLink` | transmitter and receiver joined by an unreliable air; refines `OrderedDelivery` | `receiver.go` |
| `PacketAggregator` | a tunnel or mavlink stream from peer to peer: buffer, timer, unpacking; refines `OrderedDelivery` | `util/aggregator.go`, `service_stream_tx.go`, `service_stream_rx.go` |
| `PacketAggregatorProofs` | theorems about `PacketAggregator` | |
| `WfbStream` | a stream service around `PacketAggregator`: input loop, keepalives, injector, antenna, TCP clients, Stop | `service_stream*.go`, `rawsocket.go` |
| `WfbStreamProofs` | theorems about `WfbStream` | |
| `WfbCapture` | the shared capture, its consumers and the receivers, over the life of the server | `capture.go`, `receiver.go`, `afpacket.go` |
| `WfbCaptureProofs` | theorems about `WfbCapture` | |
| `WfbServer` | the server's goroutines and locks: statistics, antenna callback, adaptive receiver, API requests, Stop | `server.go`, `stats.go`, `antenna.go` |
| `WfbServerProofs` | theorems about `WfbServer` | |
| `WfbLinkReceiver` | the drone's LinkReceiver: selection, fallback, keyframes, dynamic FEC, reduced bitrate | `adaptive/receiver.go` |
| `WfbLinkMonitor` | the ground station's LinkMonitor: scores, noise, FEC and keyframe requests | `adaptive/link.go`, `server.go` |
| `WfbAdaptive` | both, joined by a radio that loses and delays reports | |
| `WfbAdaptiveProofs` | theorems about `WfbAdaptive` | |
| `WfbDroneConfig` | requests of the web page, the command lines, the shells and programs of the drone | `web/drone_ssh.go`, `web/server.go` |
| `WfbPitMode` | pit mode on top of it | `web/pitmode.go`, `wifi/adapter/manager.go`, `server.go` (saves of the ground station's power) |
| `WfbPitModeProofs` | theorems about `WfbPitMode`, and so about `WfbDroneConfig` | |
| `MCReceiver`, `MCTransmitter`, `MCLink`, `MCAggregation`, `MCCapture`, `MCServer`, `MCAdaptive`, `MCDrone` | the finite instances | |

`WfbFragments` <- `WfbRing` <- `WfbAggregator` <- `WfbReceiver`;
`WfbFragments` <- `WfbTransmitter`; `WfbLink` extends `WfbAggregator` and
`WfbTransmitter`.  `PacketAggregator` <- `WfbStream` takes of the link only what
`WfbLink` shows (frames keep their order and may be lost), and `WfbCapture` is what
brings frames to the aggregator; `WfbServer` starts and stops all of it.
`WfbAdaptive` (`WfbLinkReceiver`, `WfbLinkMonitor`) and `WfbPitMode`
(`WfbDroneConfig`) are the two control loops that run over the link, one by UDP
and one by SSH; they take of it that messages get lost, or that it is down.

Next to some definitions there is a second one that describes a slip: the same
operation as somebody might have got it wrong (`NextBlockForgotten` beside `NextBlock`,
`WasSentNever` beside `WasSent`).  Nothing uses them; substituting one for its
neighbour must make a property fail, and `PROJECT.json` says which (`mutants`).

### Fragments

A data shard is a payload, an empty packet (keepalive) or FEC_ONLY padding.  A
parity shard is represented by the word of k data shards it was computed from.
`Reconstruct` picks shards as the code does: the data shards in their places, and
for each gap the next parity shard; parity beyond the number of gaps is not looked
at.  If the shards used belong to one code word the gaps get that word's shards,
otherwise the result is `Garbage`.  That a Reed-Solomon code with the matrices of
`zfex.go` is invertible on any k shards is assumed.  A short data fragment decodes
with the zero padding the sender computed parity over (`GetFragmentBuffer` zeroes
the buffer), so sizes are not modelled.

### Receiver

`ring` is a record of the fields of `Ring`; FecK and FecN are its `k` and `n`.
Slots, front and modulo arithmetic are kept.  `pc` is the place in
`processDataPacket` of the goroutine that holds `a.mu`:

| `pc` | actions | code |
|---|---|---|
| idle | ProcessSession, RefuseSession, StartData, RefuseData | 391-563 |
| evict | FlushEvicted, StoreFragment | 566-588 |
| contiguous | SendContiguous, EndContiguous | 588-597, 645-669 |
| flush | FlushOlder, CompleteBlock | 600-611, 626-641, 692-745 |
| send | SendAll | 613-620, 672-688 |

One packet is several steps because `outputFragment` does not block: it drops the
packet when the channel is full, and the output goroutine, which takes no lock,
may or may not have made room between two sends. Each loop iteration that may
send is one step; what lies between two sends touches only state under `a.mu`.
The aggregator's `queued` holds everything ever sent to `outputChan` and `taken`
how much of it was received: the channel is the part in between.  `stored`,
`offered` and `incarnation` are history variables.

`ProcessSession` does not wait for the old ring to be flushed, and does not reset
what the output goroutine remembers, as in the code.  Packets are what a key
holder can send: `WfbReceiver` allows any fragment of any session at any time,
`WfbLink` those a transmitter sent.  Packets that fail to parse or decrypt change
counters only and are covered by `RefuseData`.

### Transmitter

All handlers run under `t.mu` from start to end and only add to `air` and
`announced`, which nobody removes from; the receiver sees a fragment whenever it
pleases.  A handler that injects several fragments is therefore one step: any
interleaving of a receiver with the middle of a handler is also one in which the
receiver acts after it.  `Write(body, upto)` is one call of
`sendPacketWithFlagsLocked`, or the loop that closes a block: it puts `body` in the
slots from `txFrag` to `upto` and, when slot k-1 is filled, encodes and sends the
parity and moves to the next block, with the key rotation.  `WriteFails` is the
same with an error from the injection of one slot: the handler returns with
`fragmentIdx` at that slot.  When that slot is a parity slot the next body is
written there, as in the code.

The injector's outcome is nondeterministic.  A fault is *silent* (nothing was
transmitted) or *leaky* (mirror mode: some interface has transmitted, the error of
another is reported); `Faults` says which occur and `MaxFaults` how many.

The real time of the FEC timeout is dropped: `CheckFECTimeout` may happen whenever
a block is open.

### Link

`air` and `announced` persist, so every loss, duplication and reordering is a
behaviour: a frame is handed over never, once or many times.  What the 802.11 and
radiotap headers, the BPF filter and FCS checks discard is a loss.

`OrderedDelivery` is the promise: the log of delivered packets only grows, each
entry is a packet that was offered, and within one era entries ascend; an era ends
when the receiver takes up another key.  `WfbLink` implements it with `offered <-
packets`, `restarts <- incarnation` and the received part of `queued` as the log,
each with the era in which it was queued.  Eras are necessary: going back to an
old session (see `OldSessionsRejected` below) outputs its packets again.

### Packet aggregator

`agg` has the fields of `PacketAggregator`. A timer is `nil`, `running` or
`expired`: when it expires, the runtime starts the callback in a goroutine, and
`callbacks` counts those that still have to take `a.mu`; `time.Timer.Stop` does
not stop them, so a callback may flush a buffer that another timer belongs to, or
come after `Stop`.  `AddPacket` is `Add` with the flush it may do; `sendPacket`
calls `SendDirect` after `Add` has refused and released the lock, and the timer
may flush in between.  The frames in `sent` are unpacked in order, any of them, or
the rest of one, may be lost (`LeaveFrame`).  Sizes are kept, contents are not.

### Stream service

`WfbStream` adds the goroutines of a service to `PacketAggregator`.

| Code | Actions |
|---|---|
| `inputLoop`, `sendPacket` | InputLoop, ReaderEnds, Aggregates |
| `keepaliveLoop`, `sendToAllTX` | the `keepalive` steps: wait, load, send or broadcast, restore, decrement |
| `outputFn`, unpacking | Hear, Unpacks |
| `SetAntenna`, `SelectInterface`, `Inject` | SwitchAntenna, `Selected`, `Reached` |
| `tcpAcceptLoop`, `tcpClientLoop` | the clients' steps in `tcp` and `listed` |
| `Stop` | flush, hang up, close the injector, wait |

`sem` holds the two activity counters; `keepalive` the local copies the loop made
of them and of the interface: it loads, sends, and decrements what was positive
when loaded, and a broadcast selects all interfaces, sends and restores what it had read.
An antenna set in between is undone when the old one is restored
(`service_stream_tx.go:210` says otherwise); `AntennaRestored` excuses exactly that
(`crossed`) and says that nothing worse happens.  Keepalives do not count as
received (`aggregator.go:767`), so that an idle tunnel broadcasts every interval;
`BroadcastWhenDeaf` is about that too.  `age` and `onAir` are history.

### Capture

One handle on one wlan: handles of different wlans share only `started`, which is
set for all.  `capture` is the goroutine of `SharedCapture.Run`, with the consumers
it has looked up but not sent to; `receiver[ch]` that of `Receiver.Run`, with
`cancelled` for its context and `source` for whether `r.source` is nil. A receiver
that is waiting for a frame waits for its channel or the *capture's* context.

What goes through the queues is not frames but slices of `packetBuf`, the one buffer
of the AF_PACKET source. `buffer` is that buffer, an array of cells that hold the number
of the frame whose bytes are there, and `air` has every frame captured with its channel
and its slice. `CaptureBlock` is `ReadPacket` with an empty cache: it starts at the first
cell again and writes the frames of the new block one after the other over what was
there; `ReadCached` is `ReadPacket` while frames of that block are left. `last` is the frame it
returned last. `ReceiverTake` receives a slice from the queue (`taken`), `ReceiverProcess` is
`processPacket` up to where it has read it (`seen`): the frame if its cells still hold
it, otherwise the frame that took exactly its place, or pieces (`Found`; it may be pieces
also when another frame is there, since nothing orders the reading with the writing).

A stream that is started again gets the consumer its channel already has, since
`sharedConsumer.Close` leaves it in the map.  `Server.Stop` stops the services one
by one and closes the manager when none is left, so the code that ends a receiver
because the capture was cancelled never runs; that the server does it in this order
is part of `CaptureTypeOK`. A panic in any goroutine ends the process (`Up`).

Left out: the modes in which each receiver has a handle of its own, handles opened
at different times, errors of the socket other than that it was closed.

### Server

Three locks: `Server.mu`, `StatsAggregator.mu` and the mutex of each
`LinkReceiver`. A goroutine that holds one across a step is named in `serverLock`
or `statsLock`; for a link receiver it is the goroutine at `callback`. A critical
section that waits for nothing is one step. `WaitsFor` says of each goroutine whom
it cannot go on without: the holder of a lock it is about to take, or a goroutine
whose end it waits for. A deadlock is a set of goroutines each of which waits for
another of the set.

| Code | Actions |
|---|---|
| `collectStats`, `pushWebStats` | CollectTick ... CollectRunning |
| `aggregateLoop`, `aggregate`, `Update` | AggregateTick, AggregateUpdate, AggregateCallback |
| the `LinkReceiver`'s goroutines, `applyTXProfile` | ReceiverProfile, ReceiverCallback, ReceiverExit |
| `startStreamByName`, `stopStreamByName` | HandleStart, HandleStop |
| `applyConfig`, `applyAdaptiveChanges` | SetConfig, StopAffected, RestartAffected, StartAdded, AdaptiveChange, StopLink, LinkStopped |
| `Stop` | StopCollecting ... StopServices |

`services[n]` has the settings a stream runs with, the interface it transmits on,
and, as history, whether it has ever been told one (`routed`). Settings have two parts:
`compared`, those `streamsEqual` looks at, and `others`, what else `NewServiceConfig`
reads: a tunnel's default route, MAVLink's arm commands, log, TCP port and OSD, the
frame type, and the common and hardware sections. A change of the second part alone
restarts nothing, so that a stream keeps the old value until something else restarts it
(`EverySettingApplied`, below).  Which interface
`Update` finds best is left open.  Adaptive configuration is on or off, in drone
mode (the one whose goroutines take the server's lock); the ground station's link
monitor, which takes no lock of the server's, and the JSON API are not modelled.
`NewLinkReceiver` and `Start` are taken together. A panic in a request ends only
that request, since `net/http` recovers it; in any other goroutine it ends the
process.  Services are not in mirror mode, where `SetAntenna` does nothing.

### Adaptive link

`WfbLinkReceiver` has the sections of `LinkReceiver` under `r.mu` as actions, and
keeps the lock over a step (`lock`) where callbacks and commands run in the
section; `processPacket` takes it several times for one report, and `handling` says
how far it has come. Times are ages in ticks, cut off where the code
no longer tells them apart (`AgeCap`); reported scores, percentages and rates are
integers of a coarser scale.

The receiver's own scores are floats in the code. `score` counts in units of
1/`Precision`, so that a score is an integer or lies between two. A smoothed score
approaches a steady one and may stop one float short of it, above or below
(`Left`), and `Truncated` is the `int(effectiveScore)` that profiles are matched with
(`receiver.go:839`, `855`): a steady score that is the least of its profile's range may
leave the drone on the profile below.

`FECAndBitrate` chooses the order of the two commands of a change as the code does;
`RunCommand` runs one, which may fail (`failures`, a bound) and is then only logged, or be
refused for a code with k = 0 (1 divided) or n = 0, so that the old one stays. The server uses `SetTXParams` of its
streams for the FEC of a profile, which `ApplyProfile` does at once, and leaves the
encoder to a goroutine (`encoderJobs`: how many for each profile), which nothing orders
with other changes. `upset` is a history: a command of the last change failed, or the
change began while an older encoder command was running, or the profile has no code. `onFECChange`
is not used by the server. Goroutines for keyframe commands are `keyframeJobs`.

`WfbLinkMonitor` has one action for an update: the score of the best RSSI and the
best SNR, less the noise (a Kalman estimate, which lies anywhere between the old
one and the measurement), the level of dynamic FEC, and the keyframe request that
is repeated `IDRMax` times under one code.  `WfbAdaptive` joins them: reports are
lost, or late by a tick; the ground station stops and comes back; another program
pauses the adaptation or asks for a keyframe.

One assumption is more than the code guarantees: `PromptAssumption`, that a report is
handled before fallback may be left again (`MaxSlow <= FallbackTimeout + FallbackHold`).
The bound is exact for the profiles of the run: with one tick more, TLC finds a report,
read before the silence, that raises the profile of a drone in fallback mode, where
nothing lowers it again (`FallbackIsSafest`). It takes a report whose smoothed score is
above the first profile's range, as that of a narrow range may be: the built-in profiles
(1000 to 1200 first) with the default smoothing of 0.1 (`receiver.go:256`) come to
999 + 0.1 * 1001 at most, and keep the first.

The adaptation's `SetProfiles` and `SetPaused` are called by nobody.

### Drone configuration and pit mode

Each request is a handler; nothing orders two of them, and neither does the code.
`Commands` is the list of command lines `SetConfig` makes of the changes, with what
a shell does with them: `&&` stops at a refusal, a line that ends in `&` is a job in
the background as a whole, and a here-document that is not ended swallows the rest.
`jobs` runs one shell command at a time.  `radio`, `camera` and `alink` are what the
drone's programs run with, `file` what its files say; the drone is reachable while
wfb-ng is up on the ground station's channel.  A line whose connection breaks may
or may not have been run, and the requests after it fail (`BreakOff`).

The radio starts with the power of its file (`TXPower`, `wireless.txpower`, which a save
changes like the other settings), and alink_drone sets that of each profile it selects.
`radio.own` is a history: the power that one of the two set last, which is what
transmits when there is no pit mode.

`WfbPitMode` has `Enable` and `Disable` in the steps between which a connection may
break, and `SaveGround`, a save of the ground station's own configuration, which sets its
power if that differs from the configured one (`server.go:794`); the configuration and
the power it sets are taken as one step. `ground` has the power of the wlans and that of the
configuration, which is the manager's own object until the first save, and so changes with
pit mode. `strayed` remembers of each side that its own power changed while pit mode was on,
or that setting it failed, until it is set again.

What the drone's programs do is taken from how `SetConfig` uses them.

## Runs

| Run | Instance | Checks | Result |
|---|---|---|---|
| RxPackets | a ring of 2, a queue of 1; blocks 0, 1 and 3 of a 2/4 code; a 2/3 and a 1/2 session, 3 key changes, epochs | RxTypeOK, NoDecodableBlockWaits, CompletedBlocksOffered, RxInv, InOrder, LastKnownIsOfThisSession, OutputIsSent, HandlerReturns | hold |
| TxBlocks | 1/2 and 2/3 codes, 2 blocks per key, 4 packets, SetFEC twice, 2 silent faults | TxInv, NonceUnique, ClosedBlocksDecodable, OpenBlockIsClosed | hold |
| LinkDelivery | 2/3 code, 3 packets, 3 key changes at the receiver, queue of 1 | ImplementsOrderedDelivery | hold |
| LinkInjectFault | 1 silent fault | OutputWasSent | **violated** |
| CaptureStreams | 2 streams, queues of 1, a buffer of 2 cells, 2 frames, 3 starts | CaptureInv, PanicsOnlyInStop, QueuedIsHandled, CaptureEnds | hold |
| CaptureFrames | the same, 1 start | OwnBytesSeen | **violated** |
| TunnelStream | five scenarios: 4 packets of 3 sizes; keepalives with 2 antenna switches, with data both ways, in mirror mode; 2 TCP clients | AggTypeOK, FlushedInOrder, TimerCovers, ImplementsOrderedDelivery, BufferedIsSent, AcceptedAreInjected, NeverSilent, BroadcastWhenDeaf, AntennaRestored, StreamInv, StopEnds | hold |
| ServerRequests | 2 wlans, 2 streams and the adaptive link in 3 configurations, one of which differs in settings `streamsEqual` passes over, 2 handlers, 2 requests | ServerInv, NoDeadlockWhileRunning, RoutedToSelected | hold |
| ServerStop | the same without requests | StopReturns | **violated** |
| AdaptiveLink | 3 profiles, ten scenarios: silence and a pause; lost reports; slow commands; noise; with dynamic FEC; with a wlan that drops; a command that fails; encoder commands that go on; keyframe requests, with and without another program's | AdaptiveInv, FallbackIsSafest, SilenceFallsBack, SteadyScoreReached, LossIsRepaired | hold |
| DroneControl | four scenarios: two overlapping saves; a save with reboot, failure and change of channel; pit mode twice with a save; pit mode twice with two saves of the ground station and a change of channel | DroneInv, SwitchFollowed, PowerRestored, RequestsAnswered | hold |
| DroneProfiles | a save on a drone with profiles | SwitchFollowed | **violated** |

A name in `-Inv` other than `RxInv` is the module's type invariant together with one
safety property: `TxInv` (each accepted packet in a data slot of its own, in order),
`CaptureInv` (a stream takes slices of its own frames in order, and none is written over
before it is sent), `StreamInv` (no TCP client survives Stop), `ServerInv` (no stream runs
with settings that `streamsEqual` tells from those in force), `AdaptiveInv` (when the
commands of a change have run, and none failed or came late, bitrate and FEC in force
fit each other) and `DroneInv` (camera, channel, modulation and code are those of the files).

The violated runs are disagreements between the code and its own comments or
documents:

* **DroneProfiles.** `SetConfig` joins the commands for the adaptive link with `&&`
  (`drone_ssh.go:800`), so the line `EOF` that should end the here-document of the
  profiles reads `EOF && ...`: what follows, the command that starts or stops
  alink_drone, becomes text in the profile file and is never run.
* **LinkInjectFault.** After an error while sending parity the transmitter is left
  inside the parity slots.  The timeout ignores that state (`transmitter.go:504`;
  `OpenBlockIsClosed` excludes it) and the next packet goes out as a parity
  fragment (`transmitter.go:276`), which a receiver that needs parity decodes into
  bytes nobody sent.
* **CaptureFrames.** A block that is processed is written from the start of `packetBuf`
  (`afpacket.go:292`). "Safe because cache is always empty", says line 291, but the
  slices returned before are in the consumers' queues, without a copy
  (`capture.go:271`), or in a receiver's hands: a frame that waits for its stream is
  overwritten by a part of another, or by a whole one, of whichever stream.
* **ServerStop.** `Stop` holds `s.mu` while it waits for goroutines that may need
  it (`server.go:377`): the collector, the antenna callback, which `aggregate`
  calls with its own lock held (`stats.go:250`), and the adaptive receiver.

Seven more definitions state what the code, or a comment in it, claims and TLC
refutes, with the constants of the run named; they stay in the modules, without a
run of their own:

* **EvictedFragmentsOffered** (`WfbAggregator`, RxPackets). `GetBlockRingIdx` clears the slots it takes from evicted blocks
  before the caller flushes them (`ring.go:157` against the comment at
  `ring.go:118` and `aggregator.go:707`), so received fragments of an evicted
  block are never output.  The flush that exists finds only empty slots: the
  invariant `EvictedReset`, part of the proved `RxInv`, says exactly that.
* **OldSessionsRejected** (`WfbLink`, LinkDelivery). The epoch never changes within
  a transmitter's life, so it does not tell a late announcement from a new one
  (`aggregator.go:440`).
* **RunReturnsAfterClose** (`WfbCapture`, CaptureStreams). A receiver whose channel
  is silent does not notice that it was closed (`capture.go:339`), so stopping its
  stream waits for ever.
* **EverySettingApplied** (`WfbServer`, ServerRequests). A change that `streamsEqual`
  passes over (`server.go:872`) is saved and not applied, against "Restarts services
  that need restart" (`server.go:786`).
* **ChangesInOrder** (`WfbAdaptive`, AdaptiveLink). The commands run "in the correct
  order" (`receiver.go:763`) only as compared with the profile's bitrate (`:766`), which no
  change exceeds: when wlan drops or a falling level of dynamic FEC raise the
  bitrate that goes with a divided code, the bitrate grows before the code does.
* **ConfiguredPowerRestored** (`WfbPitMode`, DroneControl). "This will restore normal TX
  power", says the page (`app.js:140`). A save of another `txpower` in pit mode is applied,
  and `Disable` then puts the older power back (`pitmode.go:151`), though nothing fails.
* **LowInPitMode** (`WfbPitMode`, DroneControl). A restart of wfb-ng, or the next profile of
  alink_drone, ends the low power (`app.js:139`) while pit mode stays enabled.

The passing runs say what holds in spite of these, and where a defect ends:

* A transmitter whose injections fail keeps nonces unique and payloads in order;
  only what a failed block decodes to is not guaranteed.
* A stream takes slices of its own frames in order, each once, whatever else is started
  and stopped, and a frame is whole until it is sent to the queues; what its receiver
  finds there later is the frame, a later one, or pieces that do not decrypt.
  The capture loop can panic (it sends to a consumer it looked up before the
  channel was closed, `capture.go:271`) and a receiver can (it reads `r.source`
  without the lock, `receiver.go:93`), but only while the capture, or that stream,
  is being stopped (`PanicsOnlyInStop`).
* The goroutines do not deadlock before `Stop` is called, although two of them
  wait for the server's lock holding another.
* Interleaved requests leave no stream running with settings that are not in
  force, as far as `streamsEqual` compares them, because each step looks at the
  configuration again under the lock.
* Although nothing orders the encoder's goroutines, bitrate and FEC fit when a change is
  over, unless a command failed or an older one was still running; what comes out of order
  does so only in between.
* The keepalive loop's races cost an antenna switch or a keepalive more, but no
  tunnel falls silent and no service stays in mirror mode.
* Two saves that overlap leave the drone with settings of one or the other, file
  by file, and camera, channel, modulation and code as the files say; a break-off is what
  can separate them. The settings alink_drone runs with, and the power, may be others.
* After pit mode each side transmits with the power it was last given, but for one that
  was given during pit mode, a drone that could not be asked (20 dBm are assumed), and a failure.

Some steps the models contain are questionable, and no property is about them:
a handle that is opened after `CaptureManager.Start` is never read
(`capture.go:117`); the consumer of a stopped stream, with what is in its queue,
goes to the next stream on the channel (`capture.go:222`); packets the aggregator
refuses are sent without the header a framed stream has
(`service_stream_tx.go:152`); a save of the drone's configuration returns success
when its commands failed (`drone_ssh.go:826`, `865`); new settings are not picked up
by an alink_drone that runs, when the switch is sent along; a partial change of the
adaptive link's settings starts it although it is switched off; a change of channel
cuts the tunnel before the camera is told to reload; when the answer of `Enable` is lost the drone stays at 1 dBm and
the next `Enable` takes that for the power to restore (`pitmode.go:104`, `149`); a service started after an antenna was selected
transmits on interface 0 (`service_stream_tx.go:45`); two requests that switch the
adaptive link may apply their changes in either order (`server.go:946`); a request
that waited for the lock starts its stream after `Stop` (`server.go:1044`);
`getStreamsRunningLocked` is called without the lock (`server.go:758`); padding is
counted as lost (`aggregator.go:761`, `243`).

### Bounds, and why they are enough

* *Ring of 2.* Two slots have every case of the ring: the front block, another
  one, wrap-around, a jump by less than, exactly and more than the ring's size,
  and eviction of one or both. Of the blocks 0, 1 and 3 the next one may be 1, 2
  or 3 ahead.
* *2/3, 1/2 and 2/4 codes.* 2/3 is the smallest code with a data fragment before
  and after another and a parity fragment; 2/4 the smallest with two gaps and with
  parity left unused; 1/2 has a block that is complete with its first fragment.
* *Queue of 1* lets a block overflow it.
* *Two blocks per key (TxMaxBlockIdx = 1)* reaches the rotation from a closed and
  from a padded block; `MaxSessions` bounds SetFEC.
* *Aggregator.* With frames of 8 and headers of 2, the sizes have two packets that
  fill a frame exactly, one that overflows it, and one that never fits. Four
  packets allow a frame, a late callback, and another frame after it.
* *Capture.* Two streams tell a frame's own queue from another's; a queue of one
  overflows with two frames. In a buffer of two cells a block has one frame or two, and
  a frame overwrites all of another or half of it; three starts restart one of two streams.
* *Stream.* Three intervals let both counters run out and be set again; two
  switches, one switches back. Five scenarios, all with Stop anywhere: data alone;
  keepalives with antenna switches; keepalives with data both ways; keepalives with data
  in mirror mode; TCP clients alone, which share only the context and Stop with the
  rest. Antenna switches are not combined with data, which does not look at the interface
  before it is in the injector. Two TCP clients: one that is accepted
  while the other is hung up.
* *Adaptive link.* Three profiles have one below and one above another, one of them
  with a k that dynamic FEC cannot divide; the signals score in the first profile, at the
  least score of the third, which is reached through the second, and at the most. What the scenarios
  combine is what shares state: silence with a pause, losses, slow handling, failures
  or lingering commands; noise with dynamic FEC; both with a wlan that drops, in one
  profile. One command fails, one wlan drops, and one encoder command of a profile
  may run when a tick passes (`MaxJobs`). The
  hold times differ from each other, and `IDRMax` is larger than the interval
  between two keyframes, so that repetitions are both refused and taken. Six codes
  are more than can be around at a time. `MaxSlow` is the exact bound above.
* *Drone.* Two settings, with two powers, and two channels tell old from new; two handlers
  overlap; alink_drone has a third power. The ground station saves a power that is
  pit mode's, as a page does that was opened then, and one that is not.
  The page changes one field and saves all; the other client changes one section.
* *Server.* Two requests at a time are what the races need. Two wlans are the
  smallest number with a selector; of two streams, one changes where `streamsEqual` looks and
  where it does not; two link receivers allow one to be replaced.
  `MaxReceivers` also stops a request that would create a third.
* *MaxPackets* bounds SendPacket; *MaxIncarnations* the key changes the receiver
  makes; *MaxFaults* the faults. *SeqMod = 64* stands for 2^32 and is not reached.
* The instances of the transmitter, the link and the packet aggregator stop when
  the packets are used up, those of the capture and the server when the server has
  stopped, so they do not check deadlock; `NoDeadlockWhileRunning` does for the
  server, and finds cycles that do not stop everything. Requests to the drone are as many as
  the scenario has. The receiver never stops,
  and its runs check deadlock.

### Fairness

`HandlerReturns` assumes weak fairness of `HandlerStep` only: the goroutine in
`ProcessPacket` keeps running; nothing is assumed of the output goroutine, since
`outputFragment` never waits for it.  `OpenBlockIsClosed` assumes weak fairness of
`CheckFECTimeout`: the ticker of `fecTimeoutLoop` keeps firing.  Strictly the
timeout is measured since the last packet and packets might keep coming, but
each of them also advances the block.

`PacketAggregator` assumes that timers fire and that their callbacks get the lock;
`WfbStream` that its goroutines go on, the keepalive ticker included, that `Stop`
does, and that a connection that was closed ends its loop.  Nothing is assumed of
peers, clients, the radio or the antenna selector.
`WfbAdaptive` assumes that time passes, that updates, what has arrived, handlers and
commands go on (one weak fairness for all: each of them happens a bounded number of
times per tick), and strong fairness of `checkFallback`, which needs the mutex.
`SteadyScoreReached` is about a steady signal and a receiver that keeps up: one that
is slow for ever falls back again and again.  `WfbPitMode` assumes that shells run on
and that a command is answered or its connection breaks (`runCommand` has no timeout of
its own; TCP's keepalive, which Go's dialer sets, ends it); nothing of the page, of alink_drone or of reboots.
`WfbCapture` assumes weak fairness of each goroutine and nothing of the radio or
of requests. `WfbServer` assumes strong fairness of each goroutine's steps: a step
that needs a mutex is enabled only while the mutex is free, and Go's `sync.Mutex`
hands itself over to a goroutine that has waited for a millisecond. A goroutine
whose `select` has both a tick and a closed channel picks the exit in the end.

## Proofs

### Receiver

`WfbReceiverProofs` proves, for every ring size, block bound, queue length, set of
announcements and set of data packets,

* `TypeCorrect`: `RxSpec => []RxTypeOK`
* `FrontierHolds`: `RxSpec => []RxInv`, and from it `RingStaysConsecutive` and
  `OutputInOrder`: `RxSpec => []RingConsecutive` and `RxSpec => []InOrder`
* `DecodableBlocksLeave`: `RxSpec => []NoDecodableBlockWaits`
* `CompletedBlocksAreOffered`: `RxSpec => []CompletedBlocksOffered`
* `LastKnownOfSession`: `FragmentsFit => (RxSpec => []LastKnownIsOfThisSession)`
* `OutputIsWhatWasSent`: `HonestTransmitter => (RxSpec => []OutputIsSent)`

`InOrder` is about the past output alone and not inductive. `RxInv` adds what
makes it so: there is a frontier in the front block (its `FragmentToSend`, or the
flush loop's index if that is further), everything queued in this incarnation lies
behind it (`QueueBehindRing`), and everything that can still be sent lies at or
after it, because blocks other than the front are untouched (`OnlyFrontSent`),
the ring is consecutive (`RingConsecutive`), the block being handled is in it
(`TargetInRing`), and evicted slots are empty (`EvictedReset`): were they
flushed after all, their fragments would still have to come before the frontier,
so a repair of the eviction (`EvictedFragmentsOffered`) has to revisit that conjunct. The proof has a lemma
for the arithmetic of slots (`Turns`, `SlotValue`, `SlotInjective`, `SlotShift`,
`OffsetOfSlot`), one for each ring operation, and one for each action.

`DecodableBlocksLeave` and `CompletedBlocksAreOffered` rest on `BlockInv`, on top
of `RxInv`: what was stored of a block in the ring is in its slot and counted by its
`has`, which is below k unless the block is the one in the goroutine's hands, and
what comes before its next fragment was offered (`BlocksInRing`); a block the ring
has left behind had less than k fragments, or was offered in full (`BlocksGone`).
That `has` counts exactly is what the next theorem needs too.

`OutputIsWhatWasSent` says that a payload is put out in the position where its
transmitter put it, over losses, duplicates, reordering, sessions and recovery.
`SentInv` says it of every place a body can be: the ring
(`RingSent`: the fragments of a slot are those of the code word its block has in
the receiver's session), the fragment in hand (`HandledSent`) and the output, what
is queued included. Its core is the lemma
`ReconstructSent`: a block is decoded as soon as it has k fragments, so there are
exactly as many parity fragments as gaps, all of them are used, and they were
computed from one word. With more than k fragments it would not hold as simply,
which is why `has` has to count exactly. The theorem's hypothesis is that the packets
come from a transmitter that keeps to what it announces (`HonestTransmitter`: the
data packets are among `MCDataPackets`, the announcements give the sessions' k and
n), of any number of sessions; the decoder promises nothing without it.
`FragmentsFit` is the part of it that `LastKnownOfSession` needs: fragment numbers are
below the n announced. A transmitter that disagrees with itself makes the receiver
advance the ring before it refuses the fragment, and then the newest block is one of
which nothing was stored.

Assumptions: `BodiesAssumption`, `RingSizeAssumption`, `AggregatorAssumption` and
`PacketsAssumption`, which only give the constants their types; `Bodies` contains
`Garbage`, `Pad`, `Empty`, and whatever parity words are made of. But for the two
theorems above no assumption is made on the packets: they need not come from one
transmitter.

### Transmitter

`WfbTransmitterProofs` proves, for all codes, block bounds and callers,

* `NoncesUnique`: without leaky faults, `TxSpec => []NonceUnique`
* `PacketsInOrder`: without leaky faults, `TxSpec => []TxInv`
* `ClosedBlocksAreWhole`: `TxSpec => []ClosedBlocksDecodable`

`NonceInv` says that everything in the air comes before the current position
(session, block, fragment); what is sent next is at that position, once. With a
leaky fault it is false: the slot whose injection "failed" is sent again with
another packet, and the order of the packets in the air goes with it.
`StreamInv` adds that the numbers in the air are those already given to
`SendPacket`, in the order of their positions, so that the next one is the last
(`OrderInv`). `UnfailedInv` speaks of runs in which no injection has failed
(`failed = 0`): every accepted packet is in the air, the fragments of the open block
in the air are its slots, and those of every earlier block one whole code word
(`BlocksInv`). It is inductive although failures may come, because none of the
conjuncts says anything after the first. Hypothesis: `BodiesCover`, that `Bodies`
has what data slots may carry and the parities of words of it.

### Packet aggregator and streams

`PacketAggregatorProofs` proves, for all sizes, limits and header sizes, framed or
not, and any number of packets,

* `BufferFits`: `Spec => []AggTypeOK` (the buffer is never larger than a frame)
* `NothingLostOrOvertaken`: `Spec => []FlushedInOrder`
* `WaitingHasTimer`: `Spec => []TimerCovers`
* `ImplementsStream`: `NothingOvertakes => (Spec => ImplementsOrderedDelivery)`

The invariant `AggInv` adds that the packets, the size and the timer are cleared
together (`Cleared`), that an expired timer's callback is still to come, and that a
stopped aggregator is empty. Without the first, `flushLocked`, which returns early
on `size = 0`, might leave packets behind; without the second and third, an
expired timer or a stopped aggregator might cover nothing. The only assumption is
`AggregatorConfig`: packets have at least one byte, and the limits are numbers.

The refinement needs that the packets a peer can be written are in the frames in the
order they were read, those in the buffer or about to be sent after all of them, and that what was
delivered came from before the reader's place in the frames (`DeliveryInv`): unpacking a
packet then is an abstract delivery of a later one, reading one from the other peer an
abstract send, and every other step a stutter.
`NothingOvertakes` is that the stream is framed or that no packet is larger than a
frame. It is needed: an unframed mavlink stream sends a packet that does not fit
past the aggregator, without flushing it first, and the peer, which passes on
whatever it gets, is given that packet before those in the buffer. A framed peer
does not understand such a packet and drops it.

`WfbStreamProofs` proves, for any number of wlans and clients, any traffic and any
scenario, that `StreamSpec` implies

* `TunnelNeverSilent`: `[]NeverSilent`, and `DeafTunnelBroadcasts`: `[]BroadcastWhenDeaf`
* `AntennaIsRestored`: `[]AntennaRestored`
* `StreamStaysSound`: `[]StreamInv`
* `StopInjectsAll`: `[]AcceptedAreInjected`
* `ServiceUsesAggregator`: `SafeSpec`, the safety part of the aggregator's `Spec`; so the
  theorems about it hold in the service (`ServiceAggregates`), and the service
  implements `OrderedDelivery` too (`ServiceImplementsStream`).

Four invariants carry them. `LoopInv` relates the counters, what the keepalive loop
loaded of them, and the history of packets: packets only raise a counter, so what was
loaded can still be subtracted (`Decrementable`); a counter above what the loop is
about to subtract was raised in this interval (`SentLately`, `HeardLately`), which is
why storing the loaded value less one would be wrong. `AntennaInv` says that what the
loop will restore is as good as what is selected (`Acceptable`), with `crossed` the
only excuse. `ClientsInv` says that only the client the accept loop holds is connected
and not yet listed or served; because `Stop` waits for that loop and for those that
serve clients, nobody is left. `InjectedInv` says that what was flushed is in a frame,
that the injector has had every frame while it was open, and that it closes after
the aggregator was stopped, whose buffer then is empty. Assumption: `StreamAssumption` (wlans are numbers from
0, a client is none of the accept loop's other states).

### Capture and server

`WfbCaptureProofs` proves `StreamsTakeTheirFrames`: `Spec => []CaptureInv`, and
`PanicsAreConfined`: `Spec => []PanicsOnlyInStop`, for any number of channels, any
queue and buffer size and number of frames, and streams that stop and start again. The
inductive invariant says that queue and history of a channel hold slices of frames of that
channel in the order they came, the history before the queue and both before the frame the
capture loop holds (`FramesOK`, `InHand`), also when the loop took its consumer from the map
before the stream was stopped and another took its place; that the frames of a block
lie side by side in the buffer and are there until the last one is returned (`BufferOK`,
`CachedIntact`), which is what the comment at `afpacket.go:291` rightly claims; that what a
receiver finds in a slice it took is never an earlier frame (`SeenOK`); and that the states of
streams, receivers and server go together (`LifeCycle`), so that only `Stop` closes
queues and only a stream that is being stopped has no source.  That it finds the
frame itself is false (`CaptureFrames`).

`WfbServerProofs` proves, for any number of streams, configurations, wlans, requests
handled at a time and link receivers,

* `RunningStreamsAreCurrent`: `Spec => []ServerInv`
* `ServicesFollowSelection`: `Spec => []RoutedToSelected`
* `LocksDoNotDeadlock`: `Spec => []NoDeadlockWhileRunning`

A stream whose settings `streamsEqual` tells from the configured ones is known to a handler that
has yet to stop it (`StaleIsKnown`); the goroutine in the antenna callback holds the
interface that was selected last (`CallbackIsNewest`), because both goroutines that
select do so under the lock they keep for the callback; and following who waits for
whom ends at a goroutine that runs (`NobodyDeadlocked`), by the places where each
goroutine can hold a lock (`StatesOK`, `LocksOK`).

### Control loops

`WfbAdaptiveProofs` proves `FallbackHolds`: `Spec => []FallbackIsSafest`, for any
number of profiles, scores, signals and times. `FallbackInv` adds that a report that
is being handled in fallback mode arrived before it (`HandledAcross`: a later one is
ignored or ends fallback mode), so the receiver has been at it for the timeout and the
time since fallback set in. `PromptAssumption` says that it is not at one report
longer than the timeout and the hold time of the safest profile together, so when the
handler comes to select the report's profile that hold time still forbids it. The other
assumptions (`ReceiverAssumption`, `MonitorAssumption`, `ScenarioAssumption`) give the
constants their types. The theorem is as
strong as `PromptAssumption`, which the code does not enforce: with commands slower by
one tick TLC finds the violation (see the model of the adaptive link).

The second theorem is

* `RangesAndLoad`: `Spec /\ []CodesLeft => []AdaptiveInv`

`TypesInv` follows a number from the ground station's antennas to what the drone
applies: `Normalize`, the noise's deduction and `RawScore` stay in the range of scores
(`RawScoreRange`, `FinalScoreRange`), a report on the way or in hand is one that a
monitor sends (`OnTheWay`, `InHand`), smoothing lies between the old and the new score
whatever the factor and the fraction that stays (`LeftRange`, `SmoothedRange`), and a
report is late by at most what the receiver has been busy.

`LoadInv` is the inductive form of `LoadFits`. Unless the change is `upset`, one of
three things holds: no command is to come, and the code and the bitrate in force are the
selected profile's own, or both divided by dynamic FEC, the bitrate by at least the level of
the code (`Done`, `Fits`); or just the encoder command of the selected profile is, whose
code is in force (`EncoderToCome`); or one or both commands of a change are, in whichever
order, which together bring a code and a bitrate that fit (`CommandsToCome`, `Brings`). The
step that needs arithmetic is dynamic FEC whose divided k is 0, so that the code stays as it
was: then k is 1 (`DivisibleCode`), and the code in force is the profile's own (`DoneCode`),
which every divided bitrate fits.

`upset` is what `LoadFits` excepts, and the exception is needed: a command that fails is only
logged (`receiver.go:794`), a profile with k = 0 or n = 0 leaves the code of the one before in
force (`service_stream.go:310`) while the encoder gets the new bitrate, and an encoder
command that lingers may set an older profile's bitrate after that of a newer one. Until
the next change succeeds on its own, nothing mends it.
`CodesLeft`, the one hypothesis, says that of the model's `Codes` some are not around,
without which `generateKeyframeCode` cannot be modelled by a fresh one; the code draws from
26^4, and in the run it holds in every reachable state.

`WfbPitModeProofs` proves, for any requests, settings, powers, channels, faults and reboots,

* `PowerComesBack`: `Spec => []PowerRestored`
* `RunsAsConfigured`: `Spec => []DroneInv`
* `SwitchIsFollowed`: `~HasProfiles => (Spec => []SwitchFollowed)`

`PitInv` adds what each step of the request that has the lock relies on
(`EnablingOrDisabling`): what was recorded is each side's own power, which it has before it is
lowered and after it is raised, unless it strayed (`GroundKept`, `DroneKept`); and the
server's configuration says what the manager's does, or what was saved last, so that a
save notices when it has to set the power. Nothing that happens on the drone gives it
another power than its own (`DronePower`). Without `strayed` the statement is false
(`ConfiguredPowerRestored`).

`ConfigInv` carries the other two. A program that does not run what its file says
has a restart or a reload coming: in a shell that is running, in a command line of a
request that has not sent it yet, or never, if the connection broke (`FilesFollowed`); the
command lines of a request keep the order that makes the files be written before the
restarts (`OrderInv`), and a rest of a line has the form the whole one had (`LineOK`).
`SwitchAsked` and `SwitchComing` say the same of the switch of the adaptive link.
The proof found an error in the model: a later save of one section was taken to mend
what a broken save had left of another one, while the code rewrites only the sections
that changed. `broken` is now mended by a save of the whole page while no other request
is under way, or by a reboot. `SwitchIsFollowed` excludes drones with profiles because
there it is false: the here-document that writes the profiles swallows the command
that follows it (the run `DroneProfiles`).

### Only model-checked

The liveness properties (`HandlerReturns`,
`OpenBlockIsClosed`, `BufferedIsSent`, `StopEnds`, `QueuedIsHandled`, `CaptureEnds`,
`SilenceFallsBack`, `SteadyScoreReached`, `LossIsRepaired`, `RequestsAnswered`), which
rest on fairness and so are out of the prover's reach, and, for now, that `WfbLink`
refines `OrderedDelivery`.

## Not modelled

* The aggregator's explicit `Flush`, `Close`, per-antenna statistics, and forwarding mode.
* `maxPktSize`, truncation of long packets, all statistics but `packetsLost`.
* GF(256) arithmetic, ciphers, packet layouts, radiotap and 802.11 headers,
  configuration parsing, command line programs, the web user interface: pure
  computation or input/output.
* Of the streams: opening and parsing peers, a `Start` that fails after its sending
  goroutines have begun (`service_stream.go:161` closes the sockets and leaves the
  goroutines, whose next read may be of somebody else's descriptor), mavlink's own TCP
  port and its arm callbacks, RSSI injection.
* Of the server: `Start`, rates, and the API for statistics (`api.go`). Two things in
  it deserve a model: a client that does not read blocks the aggregation, with the
  statistics lock held, and so the antenna selection and `Stop` (`api.go:116`); a
  session that is accepted while `Stop` closes the others is closed by nobody
  (`api.go:149`).
* Of the adaptive link: parsing reports and profile files, the legacy formats.
* Of pit mode: `SetTXPower` that fails on a later wlan returns without turning the
  first one up again (`pitmode.go:95`); a save of the ground station that leaves its power
  unset.
* Of the web server: event streams, video forwarding, the scanner, static pages.

## Plan

Done: the path of a packet from SendPacket to outputFn, the packet aggregator of
the streams around it with keepalives and clients, the shared capture below it, the
server's goroutines above it, the adaptive link, the configuration of a drone, and
the safety theorems listed.  Next, most important first:

1. `WfbApi`: the API's sessions, with one writer of two goroutines per connection,
   clients that do not read, and the end of `Stop`; see "Not modelled".
2. `WfbLoss`: what `packetsLost` means: double counting at the full queue, the
   processor's own `lastSeq` across sessions, wrap-around; against an abstract count
   of missing packets.
3. `AntennaSelector`: `Update` as a function of the statistics, with the
   eligibility threshold and the hysteresis, in place of the open choice in
   `WfbServer`.
4. Failure of `startStreamByName` half way, and the statistics rates, in `WfbServer`.

Theorem worth proving next: that a step of `WfbLink` is a step or a stutter of
`OrderedDelivery`, from `OutputInOrder`, `OutputIsWhatWasSent` and `PacketsInOrder`,
which now say of the receiver and the transmitter what it needs.
