----------------------------- MODULE WfbCapture -----------------------------
(***************************************************************************)
(* Shared capture (src/pkg/rx/capture.go) with the receivers it feeds      *)
(* (src/pkg/rx/receiver.go), as the server uses them: one AF_PACKET handle *)
(* on a wlan, a goroutine that hands each frame to the queue of its        *)
(* channel, one receiver goroutine per running stream, streams that are    *)
(* stopped and started while the server is up, and the server's Stop.      *)
(* The handles of different wlans share nothing, so there is one.          *)
(*                                                                         *)
(* A frame that is read, queued and taken is a slice of the one buffer of  *)
(* the AF_PACKET source (src/pkg/rx/afpacket.go), which the next block of  *)
(* the kernel's ring overwrites from its start.  Frames are numbered; the  *)
(* buffer is an array of cells that hold the number of the frame whose     *)
(* bytes are there.                                                        *)
(***************************************************************************)
EXTENDS Naturals, Sequences, FiniteSets

CONSTANTS
  Channels,        \* channel IDs, each that of one stream with an RX side
  InitialStreams,  \* the streams the server starts with
  QueueSize,       \* capacity of sharedConsumer.packets (256 in the code)
  BufferSize,      \* cells of packetBuf; a frame takes one or more
  MaxPackets,      \* bound: frames captured
  MaxStarts        \* bound: streams started

ASSUME CaptureAssumption ==
  /\ InitialStreams \subseteq Channels
  /\ QueueSize \in Nat \ {0}
  /\ BufferSize \in Nat
  /\ MaxPackets \in Nat
  /\ MaxStarts \in Nat

VARIABLES
  server,     \* "starting", "up", "stopping", "cancelled", "closed"
  started,    \* CaptureManager.started
  handle,     \* the SharedCapture: "none", "open", or its source "closed"
  cancelled,  \* SharedCapture.ctx
  consumers,  \* SharedCapture.consumers
  closed,     \* consumers whose channel is closed
  queue,      \* the channels: [Channels -> Seq(frame whose slice is queued)]
  buffer,     \* AFPacketSource.packetBuf: which frame's bytes a cell holds
  last,       \* the frame ReadPacket returned last; those after it are cached
  capture,    \* the goroutine of SharedCapture.Run: where it is, what it holds
  receiver,   \* [Channels -> the goroutine of Receiver.Run and its fields]
  stream,     \* [Channels -> "off", "on", "waiting" (in Stop, for its goroutines)]
  starts,     \* bound counter: streams started
  air,        \* every frame captured: its channel, and its slice of the buffer
  taken,      \* history: [Channels -> frames whose slices were taken, in order]
  seen        \* history: [Channels -> what the receiver found in those slices]

vars == <<server, started, handle, cancelled, consumers, closed, queue, buffer,
          last, capture, receiver, stream, starts, air, taken, seen>>

NoReceiver == [pc |-> "none", cancelled |-> FALSE, source |-> FALSE]

Init ==
  /\ server = "starting" /\ started = FALSE
  /\ handle = "none" /\ cancelled = FALSE /\ consumers = {} /\ closed = {}
  /\ queue = [ch \in Channels |-> <<>>]
  /\ buffer = [cell \in 1 .. BufferSize |-> 0] /\ last = 0
  /\ capture = [pc |-> "none", to |-> {}]
  /\ receiver = [ch \in Channels |-> NoReceiver]
  /\ stream = [ch \in Channels |-> "off"]
  /\ starts = 0 /\ air = <<>>
  /\ taken = [ch \in Channels |-> <<>>] /\ seen = [ch \in Channels |-> <<>>]

(* The server's lock is held while a stream starts and until a stopped     *)
(* stream's goroutines have ended.                                         *)
ServerUnlocked == \A ch \in Channels : stream[ch] # "waiting"

(* The process is up: a panic in any goroutine ends it.                    *)
Up == capture.pc # "panic" /\ \A ch \in Channels : receiver[ch].pc # "panic"

-----------------------------------------------------------------------------
(***************************************************************************)
(* Starting and stopping streams.                                          *)
(***************************************************************************)
(* StreamService.Start: GetSource opens the handle if there is none and    *)
(* adds a consumer, or returns the one the channel already has.            *)
StartStream(ch) ==
  /\ Up
  /\ \/ server = "starting" /\ ch \in InitialStreams
     \/ server = "up"
  /\ ServerUnlocked /\ stream[ch] = "off" /\ starts < MaxStarts
  /\ starts' = starts + 1
  /\ handle' = IF handle = "none" THEN "open" ELSE handle
  /\ consumers' = consumers \union {ch}
  /\ receiver' = [receiver EXCEPT ![ch] =
                    [pc |-> "start", cancelled |-> FALSE, source |-> TRUE]]
  /\ stream' = [stream EXCEPT ![ch] = "on"]
  /\ UNCHANGED <<server, started, cancelled, closed, queue, buffer, last,
                 capture, air, taken, seen>>

(* CaptureManager.Start: once only, for the handles there are.             *)
StartManager ==
  /\ started' = TRUE
  /\ capture' = IF ~started /\ handle = "open"
                THEN [capture EXCEPT !.pc = "check"] ELSE capture

(* The end of Server.Start, when all services were started.                *)
ServerStarted ==
  /\ Up /\ server = "starting" /\ \A ch \in InitialStreams : stream[ch] = "on"
  /\ server' = "up"
  /\ StartManager
  /\ UNCHANGED <<handle, cancelled, consumers, closed, queue, buffer, last,
                 receiver, stream, starts, air, taken, seen>>

(* Forwarder.Run starts the manager, then the receivers.                   *)
ForwarderRun(ch) ==
  /\ Up /\ receiver[ch].pc = "start"
  /\ receiver' = [receiver EXCEPT ![ch].pc = "check"]
  /\ StartManager
  /\ UNCHANGED <<server, handle, cancelled, consumers, closed, queue, buffer,
                 last, stream, starts, air, taken, seen>>

(* A slip: a stream that stops closes the channel of its consumer.         *)
ConsumerClosed(ch) == closed \union {ch}

(* sharedConsumer.Close sets a flag that nobody reads: the consumer stays  *)
(* in the map, and its channel open.                                       *)
ConsumerKept(ch) == closed

(* StreamService.Stop up to the wait: Receiver.Close cancels the receiver  *)
(* and drops its source.                                                   *)
StopStream(ch) ==
  /\ Up /\ server \in {"up", "stopping"} /\ ServerUnlocked /\ stream[ch] = "on"
  /\ stream' = [stream EXCEPT ![ch] = "waiting"]
  /\ receiver' = [receiver EXCEPT ![ch].cancelled = TRUE, ![ch].source = FALSE]
  /\ closed' = ConsumerKept(ch)
  /\ UNCHANGED <<server, started, handle, cancelled, consumers, queue, buffer,
                 last, capture, starts, air, taken, seen>>

(* wg.Wait returns.                                                        *)
StreamStopped(ch) ==
  /\ Up /\ stream[ch] = "waiting" /\ receiver[ch].pc = "done"
  /\ stream' = [stream EXCEPT ![ch] = "off"]
  /\ UNCHANGED <<server, started, handle, cancelled, consumers, closed, queue,
                 buffer, last, capture, receiver, starts, air, taken, seen>>

(* Server.Stop begins: the services are stopped one by one.                *)
ServerStop ==
  /\ Up /\ server = "up" /\ ServerUnlocked
  /\ server' = "stopping"
  /\ UNCHANGED <<started, handle, cancelled, consumers, closed, queue, buffer,
                 last, capture, receiver, stream, starts, air, taken, seen>>

(* CaptureManager.Close when no service is left: the context first,        *)
ManagerCancel ==
  /\ Up /\ server = "stopping" /\ \A ch \in Channels : stream[ch] = "off"
  /\ server' = "cancelled"
  /\ cancelled' = TRUE
  /\ UNCHANGED <<started, handle, consumers, closed, queue, buffer, last,
                 capture, receiver, stream, starts, air, taken, seen>>

(* A slip: the source is not closed.                                       *)
HandleLeftOpen == handle

(* What SharedCapture.Close leaves of the handle.                          *)
HandleAfterClose == IF handle = "none" THEN "none" ELSE "closed"

(* then, under the lock, every consumer's channel and the source.          *)
ManagerClose ==
  /\ Up /\ server = "cancelled"
  /\ server' = "closed"
  /\ closed' = consumers
  /\ consumers' = {}
  /\ handle' = HandleAfterClose
  /\ started' = FALSE
  /\ UNCHANGED <<cancelled, queue, buffer, last, capture, receiver, stream,
                 starts, air, taken, seen>>

-----------------------------------------------------------------------------
(***************************************************************************)
(* SharedCapture.Run.                                                      *)
(***************************************************************************)
CaptureCheck ==
  /\ Up /\ capture.pc = "check"
  /\ capture' = [capture EXCEPT !.pc = IF cancelled THEN "done" ELSE "read"]
  /\ UNCHANGED <<server, started, handle, cancelled, consumers, closed, queue,
                 buffer, last, receiver, stream, starts, air, taken, seen>>

(* The cells of a slice, and of frame n's.                                 *)
CellsOf(slice) == slice.at .. slice.at + slice.size - 1
Cells(n) == CellsOf(air[n])

(* A block of frames, of any channels, placed in the buffer from its start *)
(* one after the other.                                                    *)
Slices == [channel : Channels, at : 1 .. BufferSize, size : 1 .. BufferSize]
Placed(b) ==
  /\ b[1].at = 1
  /\ \A i \in 1 .. Len(b) : b[i].at + b[i].size <= BufferSize + 1
  /\ \A i, j \in 1 .. Len(b) : i < j =>
       /\ b[i].at + b[i].size <= b[j].at
       /\ j = i + 1 => b[i].at + b[i].size = b[j].at
Blocks == {b \in UNION {[1 .. k -> Slices] : k \in 1 .. BufferSize} : Placed(b)}

CacheEmpty == last = Len(air)

(* ReadPacket returns the next frame of the block it read last,            *)
ReadCached ==
  /\ Up /\ capture.pc = "read" /\ handle = "open" /\ ~ CacheEmpty
  /\ last' = last + 1
  /\ capture' = [capture EXCEPT !.pc = "lookup"]
  /\ UNCHANGED <<server, started, handle, cancelled, consumers, closed, queue,
                 buffer, receiver, stream, starts, air, taken, seen>>

(* or when there is none processes a new block: packetBufOff is set back,  *)
(* the block's frames are copied over what the buffer held.                *)
CaptureBlock(b) ==
  /\ Up /\ capture.pc = "read" /\ handle = "open" /\ CacheEmpty
  /\ Len(air) + Len(b) <= MaxPackets
  /\ air' = air \o b
  /\ buffer' = [cell \in 1 .. BufferSize |->
                  LET over == {i \in 1 .. Len(b) : cell \in CellsOf(b[i])}
                  IN IF over = {} THEN buffer[cell]
                     ELSE Len(air) + (CHOOSE i \in over : TRUE)]
  /\ last' = last + 1
  /\ capture' = [capture EXCEPT !.pc = "lookup"]
  /\ UNCHANGED <<server, started, handle, cancelled, consumers, closed, queue,
                 receiver, stream, starts, taken, seen>>

(* ReadPacket fails once the source is closed.                             *)
CaptureError ==
  /\ Up /\ capture.pc = "read" /\ handle = "closed"
  /\ capture' = [capture EXCEPT !.pc = IF cancelled THEN "done" ELSE "check"]
  /\ UNCHANGED <<server, started, handle, cancelled, consumers, closed, queue,
                 buffer, last, receiver, stream, starts, air, taken, seen>>

(* A slip: every consumer, whatever its channel.                           *)
MatchingAny(ch) == consumers

(* The consumers a frame of channel ch goes to.                            *)
Matching(ch) == consumers \intersect {ch}

(* extractChannelID reads the channel from the slice.  The lookup, under   *)
(* the read lock, that is released again ...                               *)
CaptureLookup ==
  /\ Up /\ capture.pc = "lookup"
  /\ LET found == air[buffer[air[last].at]].channel
         to == Matching(found)
     IN capture' = [pc |-> IF to = {} THEN "check" ELSE "send", to |-> to]
  /\ UNCHANGED <<server, started, handle, cancelled, consumers, closed, queue,
                 buffer, last, receiver, stream, starts, air, taken, seen>>

Room(ch) == Len(queue[ch]) < QueueSize

(* ... before the send of the slice, which is dropped if the queue is full. *)
CaptureSend ==
  /\ Up /\ capture.pc = "send" /\ capture.to \intersect closed = {}
  /\ queue' = [ch \in Channels |->
                 IF ch \in capture.to /\ Room(ch)
                 THEN Append(queue[ch], last) ELSE queue[ch]]
  /\ capture' = [pc |-> "check", to |-> {}]
  /\ UNCHANGED <<server, started, handle, cancelled, consumers, closed, buffer,
                 last, receiver, stream, starts, air, taken, seen>>

(* A send on a closed channel panics, also in a select with a default.     *)
CaptureSendClosed ==
  /\ Up /\ capture.pc = "send" /\ capture.to \intersect closed # {}
  /\ capture' = [capture EXCEPT !.pc = "panic"]
  /\ UNCHANGED <<server, started, handle, cancelled, consumers, closed, queue,
                 buffer, last, receiver, stream, starts, air, taken, seen>>

-----------------------------------------------------------------------------
(***************************************************************************)
(* Receiver.Run.                                                           *)
(***************************************************************************)
ReceiverStep(ch, pc) == receiver' = [receiver EXCEPT ![ch].pc = pc]

ReceiverCheck(ch) ==
  /\ Up /\ receiver[ch].pc = "check"
  /\ ReceiverStep(ch, IF receiver[ch].cancelled THEN "done" ELSE "load")
  /\ UNCHANGED <<server, started, handle, cancelled, consumers, closed, queue,
                 buffer, last, capture, stream, starts, air, taken, seen>>

(* r.source is read without r.mu; it may be nil by now.                    *)
ReceiverLoad(ch) ==
  /\ Up /\ receiver[ch].pc = "load"
  /\ ReceiverStep(ch, IF receiver[ch].source THEN "wait" ELSE "panic")
  /\ UNCHANGED <<server, started, handle, cancelled, consumers, closed, queue,
                 buffer, last, capture, stream, starts, air, taken, seen>>

(* A slip: one frame too few, the last one is left in the queue.           *)
ReadableButLast(ch) == Len(queue[ch]) > 1

Readable(ch) == queue[ch] # <<>>

(* sharedConsumer.ReadPacket waits for a frame, and takes its slice.  It   *)
(* also returns when the capture is cancelled or the channel closed, which *)
(* the server does only when no receiver is left (CaptureTypeOK).  The     *)
(* receiver's own context does not end the wait.                           *)
ReceiverTake(ch) ==
  /\ Up /\ receiver[ch].pc = "wait" /\ Readable(ch)
  /\ queue' = [queue EXCEPT ![ch] = Tail(@)]
  /\ taken' = [taken EXCEPT ![ch] = Append(@, Head(queue[ch]))]
  /\ ReceiverStep(ch, "process")
  /\ UNCHANGED <<server, started, handle, cancelled, consumers, closed, buffer,
                 last, capture, stream, starts, air, seen>>

(* What a goroutine may find in frame n's slice that reads it while others *)
(* write: the frame, if all of it is still there; if not, the frame that   *)
(* is in its place, or pieces of several.                                  *)
Torn == 0
Found(n) ==
  IF \A cell \in Cells(n) : buffer[cell] = n THEN {n}
  ELSE {Torn} \union {m \in n + 1 .. Len(air) :
                        /\ Cells(m) = Cells(n)
                        /\ \A cell \in Cells(n) : buffer[cell] = m}

(* processPacket, to where it has read the slice.  A frame that is not of  *)
(* this channel is dropped, pieces do not decrypt.                         *)
ReceiverProcess(ch) ==
  /\ Up /\ receiver[ch].pc = "process"
  /\ \E f \in Found(taken[ch][Len(taken[ch])]) :
       seen' = [seen EXCEPT ![ch] = Append(@, f)]
  /\ ReceiverStep(ch, "check")
  /\ UNCHANGED <<server, started, handle, cancelled, consumers, closed, queue,
                 buffer, last, capture, stream, starts, air, taken>>

-----------------------------------------------------------------------------
CaptureGoroutine ==
  \/ CaptureCheck \/ CaptureError \/ ReadCached \/ CaptureLookup \/ CaptureSend
  \/ CaptureSendClosed

ReceiverGoroutine(ch) ==
  ForwarderRun(ch) \/ ReceiverCheck(ch) \/ ReceiverLoad(ch)
    \/ ReceiverTake(ch) \/ ReceiverProcess(ch)

(* The steps of a Start or Stop under way.                                 *)
ServerGoroutine ==
  \/ ServerStarted \/ ManagerCancel \/ ManagerClose
  \/ \E ch \in Channels : StreamStopped(ch)
  \/ server = "starting" /\ \E ch \in Channels : StartStream(ch)
  \/ server = "stopping" /\ \E ch \in Channels : StopStream(ch)

(* Frames from the radio, and requests.                                    *)
Environment ==
  \/ \E b \in Blocks : CaptureBlock(b)
  \/ server = "up" /\ \E ch \in Channels : StartStream(ch) \/ StopStream(ch)
  \/ ServerStop

Next ==
  \/ CaptureGoroutine
  \/ \E ch \in Channels : ReceiverGoroutine(ch)
  \/ ServerGoroutine
  \/ Environment

(* Goroutines run; nothing is assumed of the radio or of requests.         *)
Spec ==
  /\ Init /\ [][Next]_vars
  /\ WF_vars(CaptureGoroutine)
  /\ WF_vars(ServerGoroutine)
  /\ \A ch \in Channels : WF_vars(ReceiverGoroutine(ch))

-----------------------------------------------------------------------------
(***************************************************************************)
(* Properties.                                                             *)
(***************************************************************************)
(* Types, the capacity of the queues, that a consumer's channel is closed  *)
(* only with its entry in the map gone, and that the capture is cancelled  *)
(* and the channels are closed only when all receivers have ended.         *)
CaptureTypeOK ==
  /\ server \in {"starting", "up", "stopping", "cancelled", "closed"}
  /\ started \in BOOLEAN /\ cancelled \in BOOLEAN
  /\ handle \in {"none", "open", "closed"}
  /\ consumers \subseteq Channels /\ closed \subseteq Channels \ consumers
  /\ queue \in [Channels -> Seq(1 .. MaxPackets)]
  /\ \A ch \in Channels : Len(queue[ch]) <= QueueSize
  /\ buffer \in [1 .. BufferSize -> 0 .. Len(air)] /\ last \in 0 .. Len(air)
  /\ capture \in [pc : {"none", "check", "read", "lookup", "send", "done", "panic"},
                  to : SUBSET Channels]
  /\ receiver \in [Channels -> [pc : {"none", "start", "check", "load", "wait",
                                      "process", "done", "panic"},
                                cancelled : BOOLEAN, source : BOOLEAN]]
  /\ stream \in [Channels -> {"off", "on", "waiting"}]
  /\ cancelled \/ closed # {} =>
       \A ch \in Channels : receiver[ch].pc \in {"none", "done"}

(* A stream's receiver takes the slices of frames of its own channel, in   *)
(* the order they were captured and each once, across restarts of the      *)
(* stream and whatever else the capture loop is doing.  What it finds in   *)
(* them is the frame, a later one or pieces, never an earlier frame.       *)
TakenInOrder ==
  \A ch \in Channels :
    /\ \A i \in 1 .. Len(taken[ch]) : air[taken[ch][i]].channel = ch
    /\ \A i, j \in 1 .. Len(taken[ch]) : i < j => taken[ch][i] < taken[ch][j]
    /\ \A i \in 1 .. Len(seen[ch]) : seen[ch][i] = Torn \/ seen[ch][i] >= taken[ch][i]

(* Nobody has written over the frames the source has cached, nor over the  *)
(* one the capture goroutine looks up and sends.                           *)
CachedIntact ==
  \A n \in last .. Len(air) : n > 0 => \A cell \in Cells(n) : buffer[cell] = n

(* What streams are handed, with bounded queues and without a goroutine    *)
(* that outlives its stream (CaptureTypeOK).                               *)
CaptureInv == CaptureTypeOK /\ TakenInOrder /\ CachedIntact

(* "Reset packet buffer offset - safe because cache is always empty when   *)
(* we process a new block" (src/pkg/rx/afpacket.go:291): what is read from *)
(* a slice is the frame it was returned for.  The slices in the consumers' *)
(* queues and in the receivers' hands are not in the cache any more.       *)
OwnBytesSeen ==
  \A ch \in Channels : \A i \in 1 .. Len(seen[ch]) : seen[ch][i] = taken[ch][i]

(* A frame whose slice got into the queue of a stream is processed unless  *)
(* the stream is stopped.                                                  *)
QueuedIsHandled ==
  \A ch \in Channels, n \in 1 .. MaxPackets :
    (stream[ch] = "on" /\ \E i \in 1 .. Len(queue[ch]) : queue[ch][i] = n)
      ~> \/ \E i \in 1 .. Len(seen[ch]) : taken[ch][i] = n
         \/ stream[ch] # "on"
         \/ ~ Up

(* CaptureManager.Close ends the capture goroutine.                        *)
CaptureEnds ==
  (server = "closed") ~> (capture.pc \in {"none", "done"} \/ ~ Up)

(* "Run starts all receivers. Blocks until Close() is called."             *)
(* (src/pkg/rx/receiver.go:338): once closed, a stream's goroutines end    *)
(* and its Stop returns.                                                   *)
RunReturnsAfterClose ==
  \A ch \in Channels : (stream[ch] = "waiting") ~> (stream[ch] = "off" \/ ~ Up)

(* The two panics of this code end the process only where it stops         *)
(* something anyway: the capture loop sends on a closed channel only after *)
(* the whole capture was closed, not when streams come and go, and a       *)
(* receiver finds no source only while its own stream is being stopped.    *)
PanicsOnlyInStop ==
  /\ capture.pc = "panic" => server = "closed"
  /\ \A ch \in Channels : receiver[ch].pc = "panic" => stream[ch] = "waiting"
=============================================================================
