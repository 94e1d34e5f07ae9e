-------------------------- MODULE WfbCaptureProofs --------------------------
(***************************************************************************)
(* Proofs about WfbCapture: for any number of channels, queues of any      *)
(* length, frames of any size and streams that stop and start any number   *)
(* of times, a stream's receiver takes the slices of the frames of its     *)
(* channel in order and finds in them the frames or later ones, and the    *)
(* goroutines panic only where something is being stopped.                 *)
(***************************************************************************)
EXTENDS WfbCapture, TLAPS

(* A sequence of frames, as a queue or as they were taken from it, is in   *)
(* order, and all of the channel ch.                                       *)
Rising(s) == \A i, j \in 1 .. Len(s) : i < j => s[i] < s[j]

OfChannel(s, A, ch) == \A i \in 1 .. Len(s) : s[i] \in 1 .. Len(A) /\ A[s[i]].channel = ch

(* Every frame in s was captured before the frame n.                       *)
Earlier(s, n) == \A i \in 1 .. Len(s) : s[i] < n

(* The inductive invariant.  What was taken was in the queue before what   *)
(* is there now, and both before the frame the capture goroutine holds.    *)
FramesOK ==
  /\ air \in Seq(Slices) /\ Len(air) <= MaxPackets
  /\ taken \in [Channels -> Seq(1 .. MaxPackets)]
  /\ \A ch \in Channels :
       /\ Rising(queue[ch]) /\ OfChannel(queue[ch], air, ch)
       /\ Rising(taken[ch]) /\ OfChannel(taken[ch], air, ch)
       /\ \A i \in 1 .. Len(queue[ch]) : Earlier(taken[ch], queue[ch][i])

InHand ==
  /\ \A ch \in Channels : Earlier(queue[ch], last + 1) /\ Earlier(taken[ch], last + 1)
  /\ capture.pc \in {"lookup", "send"} =>
       /\ last > 0
       /\ \A ch \in Channels : Earlier(queue[ch], last) /\ Earlier(taken[ch], last)
  /\ capture.pc = "send" => capture.to \subseteq {air[last].channel}

(* A cell of a frame's slice holds that frame or a later one, and only the *)
(* frame itself until ReadPacket has returned a later one.                 *)
BufferOK ==
  /\ \A n \in 1 .. Len(air) : Cells(n) \subseteq 1 .. BufferSize
  /\ \A n \in 1 .. Len(air) : \A cell \in Cells(n) : buffer[cell] >= n
  /\ CachedIntact

(* What was found in the slices taken, the one being processed excepted.   *)
SeenOK ==
  \A ch \in Channels :
    /\ seen[ch] \in Seq(Nat)
    /\ Len(taken[ch]) = Len(seen[ch]) + (IF receiver[ch].pc = "process" THEN 1 ELSE 0)
    /\ \A i \in 1 .. Len(seen[ch]) : seen[ch][i] = Torn \/ seen[ch][i] >= taken[ch][i]

(* Streams, their receivers and the server's Stop go together.             *)
LifeCycle ==
  /\ \A ch \in Channels :
       /\ stream[ch] = "off" => receiver[ch].pc \in {"none", "done"}
       /\ stream[ch] = "on" => receiver[ch].source
  /\ server \in {"cancelled", "closed"} => \A ch \in Channels : stream[ch] = "off"
  /\ cancelled => server \in {"cancelled", "closed"}
  /\ closed # {} => server = "closed"

IInv ==
  /\ CaptureTypeOK /\ FramesOK /\ InHand /\ BufferOK
  /\ seen \in [Channels -> Seq(Nat)] /\ SeenOK
  /\ LifeCycle /\ PanicsOnlyInStop

-----------------------------------------------------------------------------
(* Taking the first element of a sequence, and putting one at its end.     *)
LEMMA TailOf ==
  ASSUME NEW S, NEW s \in Seq(S), s # <<>>
  PROVE  /\ Tail(s) \in Seq(S) /\ Len(Tail(s)) = Len(s) - 1
         /\ \A i \in 1 .. Len(Tail(s)) : i + 1 \in 1 .. Len(s) /\ Tail(s)[i] = s[i + 1]
         /\ Head(s) = s[1] /\ 1 \in 1 .. Len(s) /\ Head(s) \in S
  OBVIOUS

LEMMA AppendOf ==
  ASSUME NEW S, NEW s \in Seq(S), NEW e \in S
  PROVE  /\ Append(s, e) \in Seq(S) /\ Len(Append(s, e)) = Len(s) + 1
         /\ \A i \in 1 .. Len(Append(s, e)) :
              \/ i \in 1 .. Len(s) /\ Append(s, e)[i] = s[i]
              \/ i = Len(s) + 1 /\ Append(s, e)[i] = e
  OBVIOUS

LEMMA ElementsOf ==
  ASSUME NEW S, NEW s \in Seq(S)
  PROVE  Len(s) \in Nat /\ \A i \in 1 .. Len(s) : s[i] \in S
  OBVIOUS

LEMMA SeqWidens ==
  ASSUME NEW S, NEW T, S \subseteq T, NEW s \in Seq(S)
  PROVE  s \in Seq(T)
  OBVIOUS

ReceiverPlaces == {"none", "start", "check", "load", "wait", "process", "done", "panic"}

Receivers == [pc : ReceiverPlaces, cancelled : BOOLEAN, source : BOOLEAN]

(* A receiver goroutine moves, and nothing else of the receivers changes.  *)
LEMMA ReceiverMoves ==
  ASSUME CaptureTypeOK, NEW ch \in Channels, NEW pc \in ReceiverPlaces,
         ReceiverStep(ch, pc)
  PROVE  /\ receiver' \in [Channels -> Receivers]
         /\ receiver'[ch].pc = pc
         /\ \A c \in Channels : /\ c # ch => receiver'[c] = receiver[c]
                                /\ receiver'[c].source = receiver[c].source
  <1>1. /\ receiver \in [Channels -> Receivers]
        /\ receiver' = [receiver EXCEPT ![ch].pc = pc]
    BY DEF CaptureTypeOK, Receivers, ReceiverPlaces, ReceiverStep
  <1>2. /\ receiver'[ch] = [receiver[ch] EXCEPT !.pc = pc]
        /\ \A c \in Channels : c # ch => receiver'[c] = receiver[c]
    BY <1>1
  <1>3. [receiver[ch] EXCEPT !.pc = pc] \in Receivers
    BY <1>1 DEF Receivers
  <1>4. receiver'[ch].pc = pc /\ receiver'[ch].source = receiver[ch].source
    BY <1>1, <1>2 DEF Receivers
  <1>5. receiver' \in [Channels -> Receivers]
    BY <1>1, <1>2, <1>3
  <1> QED
    BY <1>2, <1>4, <1>5

(* A channel's queue holds numbers of frames.                              *)
LEMMA QueueFacts ==
  ASSUME CaptureTypeOK, FramesOK, NEW ch \in Channels
  PROVE  /\ queue[ch] \in Seq(1 .. MaxPackets) /\ Len(queue[ch]) \in Nat
         /\ taken[ch] \in Seq(1 .. MaxPackets) /\ Len(taken[ch]) \in Nat
         /\ queue[ch] \in Seq(Nat) /\ taken[ch] \in Seq(Nat)
         /\ \A i \in 1 .. Len(queue[ch]) : queue[ch][i] \in Nat
         /\ \A i \in 1 .. Len(taken[ch]) : taken[ch][i] \in Nat
         /\ Len(air) \in Nat /\ last \in Nat /\ last <= Len(air)
  <1>1. /\ queue[ch] \in Seq(1 .. MaxPackets) /\ taken[ch] \in Seq(1 .. MaxPackets)
        /\ air \in Seq(Slices) /\ last \in 0 .. Len(air)
    BY DEF CaptureTypeOK, FramesOK
  <1>2. /\ \A i \in 1 .. Len(queue[ch]) : queue[ch][i] \in 1 .. MaxPackets
        /\ \A i \in 1 .. Len(taken[ch]) : taken[ch][i] \in 1 .. MaxPackets
    BY <1>1, ElementsOf
  <1>3. /\ Len(queue[ch]) \in Nat /\ Len(taken[ch]) \in Nat /\ Len(air) \in Nat
    BY <1>1, ElementsOf
  <1>4. \A k \in 1 .. MaxPackets : k \in Nat
    OBVIOUS
  <1>5. queue[ch] \in Seq(Nat) /\ taken[ch] \in Seq(Nat)
    <2>1. 1 .. MaxPackets \subseteq Nat
      OBVIOUS
    <2> QED
      BY <1>1, <2>1, SeqWidens
  <1> QED
    BY <1>1, <1>2, <1>3, <1>4, <1>5

-----------------------------------------------------------------------------
(* A block is put behind the frames there are, each of its frames in cells *)
(* of its own.                                                             *)
LEMMA BlockFrames ==
  ASSUME NEW b \in Blocks
  PROVE  /\ b \in Seq(Slices) /\ Len(b) \in Nat /\ Len(b) >= 1
         /\ \A i \in 1 .. Len(b) : CellsOf(b[i]) \subseteq 1 .. BufferSize
         /\ \A i, j \in 1 .. Len(b) : CellsOf(b[i]) \intersect CellsOf(b[j]) # {} => i = j
  <1>1. PICK k \in 1 .. BufferSize : b \in [1 .. k -> Slices]
    BY DEF Blocks
  <1>2. k \in Nat /\ k >= 1 /\ BufferSize \in Nat
    BY CaptureAssumption
  <1>3. b \in Seq(Slices) /\ Len(b) = k
    BY <1>1, <1>2
  <1>4. Placed(b)
    BY DEF Blocks
  <1>5. \A i \in 1 .. Len(b) : /\ b[i].at \in Nat /\ b[i].at >= 1 /\ b[i].size \in Nat
                               /\ b[i].at + b[i].size <= BufferSize + 1
    <2>1. \A i \in 1 .. Len(b) : b[i] \in Slices
      BY <1>1, <1>3
    <2>2. \A i \in 1 .. Len(b) : b[i].at \in 1 .. BufferSize /\ b[i].size \in 1 .. BufferSize
      BY <2>1 DEF Slices
    <2> QED
      BY <1>2, <1>4, <2>2 DEF Placed
  <1>6. \A i \in 1 .. Len(b) : CellsOf(b[i]) \subseteq 1 .. BufferSize
    BY <1>2, <1>5 DEF CellsOf
  <1>7. ASSUME NEW i \in 1 .. Len(b), NEW j \in 1 .. Len(b), i < j
        PROVE  CellsOf(b[i]) \intersect CellsOf(b[j]) = {}
    <2>1. b[i].at + b[i].size <= b[j].at
      BY <1>4, <1>7 DEF Placed
    <2> QED
      BY <1>5, <2>1 DEF CellsOf
  <1>8. ASSUME NEW i \in 1 .. Len(b), NEW j \in 1 .. Len(b),
               CellsOf(b[i]) \intersect CellsOf(b[j]) # {}
        PROVE  i = j
    <2>1. ~ (i < j) /\ ~ (j < i)
      BY <1>7, <1>8
    <2> QED
      BY <1>2, <1>3, <2>1
  <1> QED
    BY <1>2, <1>3, <1>6, <1>8

LEMMA BlockStep ==
  ASSUME IInv, NEW b \in Blocks, CaptureBlock(b)
  PROVE  /\ air' \in Seq(Slices) /\ Len(air') \in Nat /\ Len(air') > Len(air)
         /\ Len(air') <= MaxPackets
         /\ \A n \in 1 .. Len(air) : n \in 1 .. Len(air') /\ air'[n] = air[n]
         /\ last = Len(air) /\ last' = last + 1
         /\ buffer' \in [1 .. BufferSize -> 0 .. Len(air')]
         /\ BufferOK'
  <1> DEFINE m == Len(air)
  <1>1. /\ air \in Seq(Slices) /\ m \in Nat /\ air' = air \o b /\ m + Len(b) <= MaxPackets
        /\ last = m /\ last' = last + 1
        /\ buffer \in [1 .. BufferSize -> 0 .. m]
    BY DEF IInv, FramesOK, CaptureTypeOK, CaptureBlock, CacheEmpty
  <1>2. /\ b \in Seq(Slices) /\ Len(b) \in Nat /\ Len(b) >= 1
        /\ \A i \in 1 .. Len(b) : CellsOf(b[i]) \subseteq 1 .. BufferSize
        /\ \A i, j \in 1 .. Len(b) : CellsOf(b[i]) \intersect CellsOf(b[j]) # {} => i = j
    BY BlockFrames
  <1>3. /\ air' \in Seq(Slices) /\ Len(air') = m + Len(b)
        /\ \A n \in 1 .. m : air'[n] = air[n]
        /\ \A i \in 1 .. Len(b) : air'[m + i] = b[i]
    BY <1>1, <1>2
  <1> HIDE DEF m
  <1>4. ASSUME NEW cell \in 1 .. BufferSize
        PROVE  \/ /\ \A i \in 1 .. Len(b) : cell \notin CellsOf(b[i])
                  /\ buffer'[cell] = buffer[cell]
               \/ \E i \in 1 .. Len(b) : cell \in CellsOf(b[i]) /\ buffer'[cell] = m + i
    <2> DEFINE over == {i \in 1 .. Len(b) : cell \in CellsOf(b[i])}
    <2>1. buffer'[cell] = IF over = {} THEN buffer[cell] ELSE m + (CHOOSE i \in over : TRUE)
      BY DEF CaptureBlock, m
    <2>2. CASE over = {}
      BY <2>1, <2>2
    <2>3. CASE over # {}
      <3>1. (CHOOSE i \in over : TRUE) \in over
        BY <2>3
      <3> QED
        BY <2>1, <2>3, <3>1
    <2> QED
      BY <2>2, <2>3
  <1>5. ASSUME NEW i \in 1 .. Len(b), NEW cell \in CellsOf(b[i])
        PROVE  buffer'[cell] = m + i
    <2>1. cell \in 1 .. BufferSize
      BY <1>2
    <2>2. PICK j \in 1 .. Len(b) : cell \in CellsOf(b[j]) /\ buffer'[cell] = m + j
      BY <1>4, <2>1
    <2>3. i = j
      BY <1>2, <2>2
    <2> QED
      BY <2>2, <2>3
  <1>6. \A cell \in 1 .. BufferSize : /\ buffer'[cell] \in 0 .. m + Len(b)
                                      /\ buffer'[cell] >= buffer[cell]
    <2> SUFFICES ASSUME NEW cell \in 1 .. BufferSize
                 PROVE  buffer'[cell] \in 0 .. m + Len(b) /\ buffer'[cell] >= buffer[cell]
      OBVIOUS
    <2>1. buffer[cell] \in 0 .. m
      BY <1>1
    <2>2. CASE buffer'[cell] = buffer[cell]
      BY <1>1, <1>2, <2>1, <2>2
    <2>3. ASSUME NEW i \in 1 .. Len(b), buffer'[cell] = m + i
          PROVE  buffer'[cell] \in 0 .. m + Len(b) /\ buffer'[cell] >= buffer[cell]
      BY <1>1, <1>2, <2>1, <2>3
    <2> QED
      BY <1>4, <2>2, <2>3
  <1>7. buffer' \in [1 .. BufferSize -> 0 .. Len(air')]
    <2>1. buffer' = [cell \in 1 .. BufferSize |-> buffer'[cell]]
      BY DEF CaptureBlock
    <2> QED
      BY <1>3, <1>6, <2>1
  <1>8. ASSUME NEW n \in 1 .. Len(air')
        PROVE  \/ n \in 1 .. m /\ Cells(n)' = Cells(n)
               \/ n > m /\ n - m \in 1 .. Len(b) /\ Cells(n)' = CellsOf(b[n - m])
    <2>1. CASE n \in 1 .. m
      BY <1>3, <2>1 DEF Cells, CellsOf
    <2>2. CASE n > m
      <3>1. n - m \in 1 .. Len(b) /\ m + (n - m) = n
        BY <1>1, <1>2, <1>3, <2>2
      <3>2. air'[n] = b[n - m]
        BY <1>3, <3>1
      <3> QED
        BY <2>2, <3>1, <3>2 DEF Cells, CellsOf
    <2> QED
      BY <1>1, <1>2, <1>3, <2>1, <2>2
  <1>9. ASSUME NEW n \in 1 .. Len(air')
        PROVE  /\ Cells(n)' \subseteq 1 .. BufferSize
               /\ \A cell \in Cells(n)' : buffer'[cell] >= n
               /\ n > m => \A cell \in Cells(n)' : buffer'[cell] = n
    <2>1. CASE n \in 1 .. m /\ Cells(n)' = Cells(n)
      <3>1. /\ Cells(n) \subseteq 1 .. BufferSize
            /\ \A cell \in Cells(n) : buffer[cell] >= n
        BY <2>1 DEF IInv, BufferOK, m
      <3>2. ASSUME NEW cell \in Cells(n)
            PROVE  buffer'[cell] >= n
        <4>1. /\ buffer[cell] >= n /\ buffer'[cell] >= buffer[cell]
              /\ buffer[cell] \in 0 .. m /\ buffer'[cell] \in 0 .. m + Len(b)
          BY <1>1, <1>6, <3>1
        <4> QED
          BY <1>1, <1>2, <2>1, <4>1
      <3> QED
        BY <1>1, <2>1, <3>1, <3>2
    <2>2. CASE n > m /\ n - m \in 1 .. Len(b) /\ Cells(n)' = CellsOf(b[n - m])
      <3>1. m + (n - m) = n
        BY <1>1, <1>3
      <3>2. \A cell \in Cells(n)' : buffer'[cell] = n
        BY <1>5, <2>2, <3>1
      <3>3. n >= n
        BY <1>1, <1>2, <1>3
      <3> QED
        BY <1>2, <2>2, <3>2, <3>3
    <2> QED
      BY <1>8, <2>1, <2>2
  <1>10. CachedIntact'
    <2>1. \A n \in last' .. Len(air') : n \in 1 .. Len(air') /\ n > m
      BY <1>1, <1>2, <1>3
    <2> QED
      BY <1>9, <2>1 DEF CachedIntact
  <1>11. BufferOK'
    BY <1>9, <1>10 DEF BufferOK
  <1>12. /\ Len(air') \in Nat /\ Len(air') > m /\ Len(air') <= MaxPackets
         /\ \A n \in 1 .. m : n \in 1 .. Len(air')
    BY <1>1, <1>2, <1>3
  <1> QED
    BY <1>1, <1>3, <1>7, <1>11, <1>12 DEF m

-----------------------------------------------------------------------------
LEMMA TypesStep ==
  ASSUME IInv, Next
  PROVE  CaptureTypeOK'
  <1> USE DEF IInv
  <1>1. /\ receiver \in [Channels -> Receivers]
        /\ capture.pc \in {"none", "check", "read", "lookup", "send", "done", "panic"}
        /\ capture.to \in SUBSET Channels
        /\ capture = [pc |-> capture.pc, to |-> capture.to]
    BY DEF CaptureTypeOK, Receivers, ReceiverPlaces
  <1>2. ASSUME NEW ch \in Channels, StartStream(ch)
        PROVE  CaptureTypeOK'
    <2>1. closed = {} /\ ~ cancelled
      BY <1>2 DEF StartStream, LifeCycle
    <2>2. receiver' \in [Channels -> Receivers]
      BY <1>1, <1>2 DEF StartStream, Receivers, ReceiverPlaces
    <2>3. stream' \in [Channels -> {"off", "on", "waiting"}]
      BY <1>2 DEF StartStream, CaptureTypeOK
    <2> QED
      BY <1>2, <2>1, <2>2, <2>3
         DEF StartStream, CaptureTypeOK, Receivers, ReceiverPlaces
  <1>3. CASE ServerStarted
    <2>1. capture' \in [pc : {"none", "check", "read", "lookup", "send", "done", "panic"},
                        to : SUBSET Channels]
      BY <1>1, <1>3 DEF ServerStarted, StartManager
    <2> QED
      BY <1>3, <2>1 DEF ServerStarted, StartManager, CaptureTypeOK
  <1>4. ASSUME NEW ch \in Channels, ForwarderRun(ch)
        PROVE  CaptureTypeOK'
    <2>1. capture' \in [pc : {"none", "check", "read", "lookup", "send", "done", "panic"},
                        to : SUBSET Channels]
      BY <1>1, <1>4 DEF ForwarderRun, StartManager
    <2>2. ~ cancelled /\ closed = {}
      BY <1>4 DEF ForwarderRun, CaptureTypeOK
    <2>3. receiver' \in [Channels -> Receivers]
      BY <1>4, ReceiverMoves DEF ForwarderRun, ReceiverStep, ReceiverPlaces
    <2> QED
      BY <1>4, <2>1, <2>2, <2>3
         DEF ForwarderRun, StartManager, CaptureTypeOK, Receivers, ReceiverPlaces
  <1>5. ASSUME NEW ch \in Channels, StopStream(ch)
        PROVE  CaptureTypeOK'
    <2>1. closed = {} /\ ~ cancelled
      BY <1>5 DEF StopStream, LifeCycle
    <2>2. receiver' \in [Channels -> Receivers]
      BY <1>1, <1>5 DEF StopStream, Receivers
    <2>3. stream' \in [Channels -> {"off", "on", "waiting"}]
      BY <1>5 DEF StopStream, CaptureTypeOK
    <2> QED
      BY <1>5, <2>1, <2>2, <2>3
         DEF StopStream, ConsumerKept, CaptureTypeOK, Receivers, ReceiverPlaces
  <1>6. ASSUME NEW ch \in Channels, StreamStopped(ch)
        PROVE  CaptureTypeOK'
    BY <1>6 DEF StreamStopped, CaptureTypeOK
  <1>7. CASE ServerStop
    BY <1>7 DEF ServerStop, CaptureTypeOK
  <1>8. CASE ManagerCancel
    BY <1>8 DEF ManagerCancel, LifeCycle, CaptureTypeOK
  <1>9. CASE ManagerClose
    <2>1. \A ch \in Channels : receiver[ch].pc \in {"none", "done"}
      BY <1>9 DEF ManagerClose, LifeCycle
    <2> QED
      BY <1>9, <2>1 DEF ManagerClose, HandleAfterClose, CaptureTypeOK
  <1>10. CASE CaptureCheck \/ CaptureError \/ CaptureSendClosed
    <2>1. capture' \in [pc : {"none", "check", "read", "lookup", "send", "done", "panic"},
                        to : SUBSET Channels]
      BY <1>1, <1>10 DEF CaptureCheck, CaptureError, CaptureSendClosed
    <2> QED
      BY <1>10, <2>1 DEF CaptureCheck, CaptureError, CaptureSendClosed, CaptureTypeOK
  <1>11. ASSUME NEW b \in Blocks, CaptureBlock(b)
         PROVE  CaptureTypeOK'
    <2>1. capture' \in [pc : {"none", "check", "read", "lookup", "send", "done", "panic"},
                        to : SUBSET Channels]
      BY <1>1, <1>11 DEF CaptureBlock
    <2>2. /\ buffer' \in [1 .. BufferSize -> 0 .. Len(air')]
          /\ Len(air') > Len(air) /\ Len(air') \in Nat
          /\ last = Len(air) /\ last' = last + 1
      BY <1>11, BlockStep
    <2>3. last' \in 0 .. Len(air')
      BY <2>2 DEF CaptureTypeOK
    <2> QED
      BY <1>11, <2>1, <2>2, <2>3 DEF CaptureBlock, CaptureTypeOK
  <1>15. CASE ReadCached
    <2>1. capture' \in [pc : {"none", "check", "read", "lookup", "send", "done", "panic"},
                        to : SUBSET Channels]
      BY <1>1, <1>15 DEF ReadCached
    <2>2. last' \in 0 .. Len(air')
      <3>1. /\ last \in 0 .. Len(air) /\ last # Len(air)
            /\ last' = last + 1 /\ air' = air
        BY <1>15 DEF ReadCached, CacheEmpty, CaptureTypeOK
      <3>2. Len(air) \in Nat
        BY DEF FramesOK
      <3> QED
        BY <3>1, <3>2
    <2> QED
      BY <1>15, <2>1, <2>2 DEF ReadCached, CaptureTypeOK
  <1>12. CASE CaptureLookup
    <2>1. capture' \in [pc : {"none", "check", "read", "lookup", "send", "done", "panic"},
                        to : SUBSET Channels]
      BY <1>12 DEF CaptureLookup, Matching, CaptureTypeOK
    <2> QED
      BY <1>12, <2>1 DEF CaptureLookup, CaptureTypeOK
  <1>13. CASE CaptureSend
    <2>1. capture' \in [pc : {"none", "check", "read", "lookup", "send", "done", "panic"},
                        to : SUBSET Channels]
      BY <1>13 DEF CaptureSend
    <2>2. last \in 1 .. MaxPackets
      <3>1. /\ last > 0 /\ last \in 0 .. Len(air) /\ Len(air) <= MaxPackets
            /\ Len(air) \in Nat /\ MaxPackets \in Nat
        BY <1>13, CaptureAssumption DEF CaptureSend, InHand, FramesOK, CaptureTypeOK
      <3> QED
        BY <3>1
    <2>3. ASSUME NEW ch \in Channels
          PROVE  queue'[ch] \in Seq(1 .. MaxPackets) /\ Len(queue'[ch]) <= QueueSize
      <3>1. /\ queue[ch] \in Seq(1 .. MaxPackets) /\ Len(queue[ch]) <= QueueSize
            /\ \/ queue'[ch] = queue[ch]
               \/ queue'[ch] = Append(queue[ch], last) /\ Len(queue[ch]) < QueueSize
        BY <1>13 DEF CaptureSend, Room, CaptureTypeOK
      <3>2. QueueSize \in Nat /\ Len(queue[ch]) \in Nat
        BY <3>1, CaptureAssumption, ElementsOf
      <3>3. /\ Append(queue[ch], last) \in Seq(1 .. MaxPackets)
            /\ Len(Append(queue[ch], last)) = Len(queue[ch]) + 1
        BY <2>2, <3>1, AppendOf
      <3>4. queue'[ch] \in Seq(1 .. MaxPackets)
        BY <3>1, <3>3
      <3>5. Len(queue'[ch]) <= QueueSize
        BY <3>1, <3>2, <3>3
      <3> QED
        BY <3>4, <3>5
    <2>4. queue' \in [Channels -> Seq(1 .. MaxPackets)]
      BY <1>13, <2>3 DEF CaptureSend
    <2> QED
      BY <1>13, <2>1, <2>3, <2>4 DEF CaptureSend, CaptureTypeOK
  <1>14. ASSUME NEW ch \in Channels, ReceiverCheck(ch) \/ ReceiverLoad(ch) \/ ReceiverTake(ch)
                                        \/ ReceiverProcess(ch)
         PROVE  CaptureTypeOK'
    <2>1. ~ cancelled /\ closed = {}
      BY <1>14 DEF ReceiverCheck, ReceiverLoad, ReceiverTake, ReceiverProcess, CaptureTypeOK
    <2>2. PICK pc \in ReceiverPlaces : ReceiverStep(ch, pc)
      BY <1>14 DEF ReceiverCheck, ReceiverLoad, ReceiverTake, ReceiverProcess, ReceiverPlaces
    <2>3. receiver' \in [Channels -> Receivers]
      BY <2>2, ReceiverMoves
    <2>4. /\ queue' \in [Channels -> Seq(1 .. MaxPackets)]
          /\ \A c \in Channels : Len(queue'[c]) <= QueueSize
      <3>1. CASE queue' = queue
        BY <3>1 DEF CaptureTypeOK
      <3>2. CASE ReceiverTake(ch)
        <4>1. /\ queue[ch] \in Seq(1 .. MaxPackets) /\ queue[ch] # <<>>
              /\ queue' = [queue EXCEPT ![ch] = Tail(queue[ch])]
              /\ QueueSize \in Nat /\ Len(queue[ch]) <= QueueSize
          BY <3>2, CaptureAssumption DEF ReceiverTake, Readable, CaptureTypeOK
        <4>2. /\ Tail(queue[ch]) \in Seq(1 .. MaxPackets)
              /\ Len(Tail(queue[ch])) = Len(queue[ch]) - 1 /\ Len(queue[ch]) \in Nat
          BY <4>1, TailOf, ElementsOf
        <4>3. Len(Tail(queue[ch])) <= QueueSize
          BY <4>1, <4>2
        <4> QED
          BY <4>1, <4>2, <4>3 DEF CaptureTypeOK
      <3> QED
        BY <1>14, <3>1, <3>2 DEF ReceiverCheck, ReceiverLoad, ReceiverProcess
    <2>5. UNCHANGED <<server, started, handle, cancelled, consumers, closed, buffer, last,
                    capture, stream, air>>
      BY <1>14 DEF ReceiverCheck, ReceiverLoad, ReceiverTake, ReceiverProcess
    <2> QED
      BY <2>1, <2>3, <2>4, <2>5 DEF CaptureTypeOK, Receivers, ReceiverPlaces
  <1> QED
    BY <1>2, <1>3, <1>4, <1>5, <1>6, <1>7, <1>8, <1>9, <1>10, <1>11, <1>12, <1>13, <1>14, <1>15
       DEF Next, CaptureGoroutine, ReceiverGoroutine, ServerGoroutine, Environment

-----------------------------------------------------------------------------
(* A stream's start and end.                                               *)
LEMMA LifeStep ==
  ASSUME IInv, Next
  PROVE  LifeCycle' /\ PanicsOnlyInStop'
  <1> USE DEF IInv
  <1>1. /\ receiver \in [Channels -> Receivers]
        /\ stream \in [Channels -> {"off", "on", "waiting"}]
        /\ capture = [pc |-> capture.pc, to |-> capture.to]
    BY DEF CaptureTypeOK, Receivers, ReceiverPlaces
  <1>2. Up
    BY DEF Next, CaptureGoroutine, ReceiverGoroutine, ServerGoroutine, Environment,
           StartStream, ServerStarted, ForwarderRun, StopStream, StreamStopped, ServerStop,
           ManagerCancel, ManagerClose, CaptureCheck, CaptureError, ReadCached,
           CaptureBlock, CaptureLookup, CaptureSend, CaptureSendClosed, ReceiverCheck,
           ReceiverLoad, ReceiverTake, ReceiverProcess
  <1>3. capture.pc # "panic" /\ \A ch \in Channels : receiver[ch].pc # "panic"
    BY <1>2 DEF Up
  <1>4. ASSUME NEW ch \in Channels, StartStream(ch)
        PROVE  LifeCycle' /\ PanicsOnlyInStop'
    <2>1. /\ closed = {} /\ ~ cancelled /\ server \notin {"cancelled", "closed"}
          /\ UNCHANGED <<server, cancelled, closed, capture>>
      BY <1>4 DEF StartStream, LifeCycle
    <2>2. \A c \in Channels :
            /\ stream'[c] = "off" => receiver'[c].pc \in {"none", "done"}
            /\ stream'[c] = "on" => receiver'[c].source
            /\ receiver'[c].pc # "panic"
      BY <1>1, <1>3, <1>4 DEF StartStream, LifeCycle
    <2> QED
      BY <1>3, <2>1, <2>2 DEF LifeCycle, PanicsOnlyInStop
  <1>5. ASSUME NEW ch \in Channels, StopStream(ch)
        PROVE  LifeCycle' /\ PanicsOnlyInStop'
    <2>1. /\ closed = {} /\ ~ cancelled /\ server \notin {"cancelled", "closed"}
          /\ UNCHANGED <<server, cancelled, closed, capture>>
      BY <1>5 DEF StopStream, ConsumerKept, LifeCycle
    <2>2. \A c \in Channels :
            /\ stream'[c] = "off" => receiver'[c].pc \in {"none", "done"}
            /\ stream'[c] = "on" => receiver'[c].source
            /\ receiver'[c].pc # "panic"
      BY <1>1, <1>3, <1>5 DEF StopStream, LifeCycle, Receivers
    <2> QED
      BY <1>3, <2>1, <2>2 DEF LifeCycle, PanicsOnlyInStop
  <1>6. ASSUME NEW ch \in Channels, StreamStopped(ch)
        PROVE  LifeCycle' /\ PanicsOnlyInStop'
    <2>1. UNCHANGED <<server, cancelled, closed, capture, receiver>>
      BY <1>6 DEF StreamStopped
    <2>2. \A c \in Channels :
            /\ stream'[c] = "off" => receiver[c].pc \in {"none", "done"}
            /\ stream'[c] = "on" => receiver[c].source
            /\ stream[c] = "off" => stream'[c] = "off"
      BY <1>1, <1>6 DEF StreamStopped, LifeCycle
    <2> QED
      BY <1>3, <2>1, <2>2 DEF LifeCycle, PanicsOnlyInStop
  <1>7. CASE ServerStarted \/ ServerStop \/ ManagerCancel \/ ManagerClose
    <2>1. /\ stream' = stream /\ receiver' = receiver /\ capture'.pc # "panic"
      BY <1>1, <1>3, <1>7
         DEF ServerStarted, StartManager, ServerStop, ManagerCancel, ManagerClose
    <2>2. /\ server' \in {"cancelled", "closed"} => \A ch \in Channels : stream[ch] = "off"
          /\ cancelled' => server' \in {"cancelled", "closed"}
          /\ closed' # {} => server' = "closed"
      BY <1>7 DEF ServerStarted, ServerStop, ManagerCancel, ManagerClose, LifeCycle
    <2> QED
      BY <1>3, <2>1, <2>2 DEF LifeCycle, PanicsOnlyInStop
  <1>8. CASE CaptureCheck \/ CaptureError \/ CaptureLookup \/ CaptureSend
             \/ CaptureSendClosed \/ ReadCached \/ \E b \in Blocks : CaptureBlock(b)
    <2>1. UNCHANGED <<server, cancelled, closed, stream, receiver>>
      BY <1>8 DEF CaptureCheck, CaptureError, CaptureLookup, CaptureSend,
                  CaptureSendClosed, ReadCached, CaptureBlock
    <2>2. capture'.pc = "panic" => closed # {}
      BY <1>1, <1>8 DEF CaptureCheck, CaptureError, CaptureLookup, CaptureSend,
                        CaptureSendClosed, ReadCached, CaptureBlock
    <2> QED
      BY <1>3, <2>1, <2>2 DEF LifeCycle, PanicsOnlyInStop
  <1>9. ASSUME NEW ch \in Channels,
               \/ ForwarderRun(ch) \/ ReceiverCheck(ch) \/ ReceiverLoad(ch)
               \/ ReceiverTake(ch) \/ ReceiverProcess(ch)
        PROVE  LifeCycle' /\ PanicsOnlyInStop'
    <2>1. /\ UNCHANGED <<server, cancelled, closed, stream>>
          /\ capture'.pc # "panic"
          /\ receiver[ch].pc \notin {"none", "done"}
      BY <1>1, <1>3, <1>9
         DEF ForwarderRun, StartManager, ReceiverCheck, ReceiverLoad, ReceiverTake,
             ReceiverProcess
    <2>2. PICK pc \in ReceiverPlaces :
            ReceiverStep(ch, pc) /\ (pc = "panic" => ~ receiver[ch].source)
      BY <1>9 DEF ForwarderRun, ReceiverStep, ReceiverCheck, ReceiverLoad, ReceiverTake,
             ReceiverProcess,
                  ReceiverPlaces
    <2>3. /\ receiver'[ch].pc = pc
          /\ \A c \in Channels : /\ c # ch => receiver'[c] = receiver[c]
                                 /\ receiver'[c].source = receiver[c].source
      BY <2>2, ReceiverMoves
    <2>4. stream[ch] # "off" /\ (pc = "panic" => stream[ch] = "waiting")
      BY <1>1, <2>1, <2>2 DEF LifeCycle
    <2>5. \A c \in Channels :
            /\ stream[c] = "off" => receiver'[c].pc \in {"none", "done"}
            /\ stream[c] = "on" => receiver'[c].source
            /\ receiver'[c].pc = "panic" => stream[c] = "waiting"
      BY <1>3, <2>3, <2>4 DEF LifeCycle
    <2> QED
      BY <2>1, <2>5 DEF LifeCycle, PanicsOnlyInStop
  <1> QED
    BY <1>4, <1>5, <1>6, <1>7, <1>8, <1>9
       DEF Next, CaptureGoroutine, ReceiverGoroutine, ServerGoroutine, Environment

-----------------------------------------------------------------------------
(* A frame taken from the queue.                                           *)
LEMMA MovedInOrder ==
  ASSUME NEW q \in Seq(Nat), NEW h \in Seq(Nat), NEW A, NEW ch, q # <<>>,
         Rising(q), OfChannel(q, A, ch), Rising(h), OfChannel(h, A, ch),
         \A i \in 1 .. Len(q) : Earlier(h, q[i])
  PROVE  /\ Rising(Tail(q)) /\ OfChannel(Tail(q), A, ch)
         /\ Rising(Append(h, Head(q))) /\ OfChannel(Append(h, Head(q)), A, ch)
         /\ \A i \in 1 .. Len(Tail(q)) : Earlier(Append(h, Head(q)), Tail(q)[i])
         /\ \A n : Earlier(q, n) => Earlier(Tail(q), n)
         /\ \A n : Earlier(q, n) /\ Earlier(h, n) => Earlier(Append(h, Head(q)), n)
  <1> DEFINE t == Tail(q)
             g == Append(h, Head(q))
  <1>1. /\ t \in Seq(Nat) /\ Len(t) = Len(q) - 1 /\ Len(q) \in Nat /\ Len(t) \in Nat
        /\ \A i \in 1 .. Len(t) : i + 1 \in 1 .. Len(q) /\ t[i] = q[i + 1]
        /\ Head(q) = q[1] /\ 1 \in 1 .. Len(q) /\ Head(q) \in Nat
    BY TailOf, ElementsOf
  <1>2. /\ g \in Seq(Nat) /\ Len(g) = Len(h) + 1 /\ Len(h) \in Nat
        /\ \A i \in 1 .. Len(g) : \/ i \in 1 .. Len(h) /\ g[i] = h[i]
                                  \/ i = Len(h) + 1 /\ g[i] = q[1]
    BY <1>1, AppendOf, ElementsOf
  <1> HIDE DEF t, g
  <1>3. /\ Rising(t) /\ OfChannel(t, A, ch)
        /\ \A n : Earlier(q, n) => Earlier(t, n)
    <2>1. \A i, j \in 1 .. Len(t) : i < j => i + 1 < j + 1
      BY <1>1
    <2> QED
      BY <1>1, <2>1 DEF Rising, OfChannel, Earlier
  <1>4. OfChannel(g, A, ch)
    BY <1>1, <1>2 DEF OfChannel
  <1>5. Rising(g)
    <2> SUFFICES ASSUME NEW i \in 1 .. Len(g), NEW j \in 1 .. Len(g), i < j
                 PROVE  g[i] < g[j]
      BY DEF Rising
    <2>1. i \in 1 .. Len(h) /\ g[i] = h[i]
      BY <1>2
    <2>2. CASE j \in 1 .. Len(h) /\ g[j] = h[j]
      BY <2>1, <2>2 DEF Rising
    <2>3. CASE g[j] = q[1]
      BY <1>1, <2>1, <2>3 DEF Earlier
    <2> QED
      BY <1>2, <2>2, <2>3
  <1>6. ASSUME NEW i \in 1 .. Len(t)
        PROVE  Earlier(g, t[i])
    <2>1. i + 1 \in 1 .. Len(q) /\ t[i] = q[i + 1] /\ 1 < i + 1
      BY <1>1
    <2>2. q[1] < q[i + 1]
      BY <1>1, <2>1 DEF Rising
    <2>3. Earlier(h, q[i + 1])
      BY <2>1
    <2> QED
      BY <1>2, <2>1, <2>2, <2>3 DEF Earlier
  <1>7. \A n : Earlier(q, n) /\ Earlier(h, n) => Earlier(g, n)
    BY <1>1, <1>2 DEF Earlier
  <1> QED
    BY <1>3, <1>4, <1>5, <1>6, <1>7 DEF t, g

(* A frame put into the queue.                                             *)
LEMMA PutInOrder ==
  ASSUME NEW q \in Seq(Nat), NEW h \in Seq(Nat), NEW A, NEW ch, NEW n \in Nat,
         n \in 1 .. Len(A), A[n].channel = ch, Earlier(q, n), Earlier(h, n),
         Rising(q), OfChannel(q, A, ch),
         \A i \in 1 .. Len(q) : Earlier(h, q[i])
  PROVE  /\ Rising(Append(q, n)) /\ OfChannel(Append(q, n), A, ch)
         /\ \A i \in 1 .. Len(Append(q, n)) : Earlier(h, Append(q, n)[i])
  <1> DEFINE g == Append(q, n)
  <1>1. /\ g \in Seq(Nat) /\ Len(g) = Len(q) + 1 /\ Len(q) \in Nat
        /\ \A i \in 1 .. Len(g) : \/ i \in 1 .. Len(q) /\ g[i] = q[i]
                                  \/ i = Len(q) + 1 /\ g[i] = n
    BY AppendOf, ElementsOf
  <1> HIDE DEF g
  <1>2. OfChannel(g, A, ch) /\ \A i \in 1 .. Len(g) : Earlier(h, g[i])
    BY <1>1 DEF OfChannel
  <1>3. Rising(g)
    <2> SUFFICES ASSUME NEW i \in 1 .. Len(g), NEW j \in 1 .. Len(g), i < j
                 PROVE  g[i] < g[j]
      BY DEF Rising
    <2>1. i \in 1 .. Len(q) /\ g[i] = q[i]
      BY <1>1
    <2> QED
      BY <1>1, <2>1 DEF Rising, Earlier
  <1> QED
    BY <1>2, <1>3 DEF g

(* ReadPacket returns one more frame.                                      *)
LEMMA CapturedInOrder ==
  ASSUME IInv, ReadCached \/ \E b \in Blocks : CaptureBlock(b)
  PROVE  FramesOK' /\ InHand'
  <1> USE DEF IInv
  <1>1. /\ UNCHANGED <<queue, taken>> /\ capture'.pc = "lookup" /\ last' = last + 1
    BY DEF CaptureBlock, ReadCached, CaptureTypeOK
  <1>2. /\ air' \in Seq(Slices) /\ Len(air') <= MaxPackets
        /\ \A n \in 1 .. Len(air) : n \in 1 .. Len(air') /\ air'[n] = air[n]
    <2>1. CASE ReadCached
      BY <2>1 DEF ReadCached, FramesOK
    <2>2. CASE \E b \in Blocks : CaptureBlock(b)
      BY <2>2, BlockStep
    <2> QED
      BY <2>1, <2>2
  <1>3. ASSUME NEW c \in Channels
        PROVE  /\ OfChannel(queue[c], air', c) /\ OfChannel(taken[c], air', c)
               /\ Earlier(queue[c], last') /\ Earlier(taken[c], last')
               /\ Earlier(queue[c], last' + 1) /\ Earlier(taken[c], last' + 1)
    <2>1. /\ OfChannel(queue[c], air, c) /\ OfChannel(taken[c], air, c)
          /\ Earlier(queue[c], last + 1) /\ Earlier(taken[c], last + 1)
      BY DEF FramesOK, InHand
    <2>2. OfChannel(queue[c], air', c) /\ OfChannel(taken[c], air', c)
      BY <1>2, <2>1 DEF OfChannel
    <2>3. Earlier(queue[c], last') /\ Earlier(taken[c], last')
      BY <1>1, <2>1
    <2>4. Earlier(queue[c], last' + 1) /\ Earlier(taken[c], last' + 1)
      BY <1>1, <2>3, QueueFacts DEF Earlier
    <2> QED
      BY <2>2, <2>3, <2>4
  <1>4. FramesOK'
    BY <1>1, <1>2, <1>3 DEF FramesOK
  <1>5. last' > 0
    BY <1>1 DEF CaptureTypeOK
  <1>6. InHand'
    BY <1>1, <1>3, <1>5 DEF InHand
  <1> QED
    BY <1>4, <1>6

(* CaptureSend.                                                            *)
LEMMA SentInOrder ==
  ASSUME IInv, CaptureSend
  PROVE  FramesOK' /\ InHand'
  <1> USE DEF IInv
  <1>1. /\ UNCHANGED <<air, last, taken>> /\ capture'.pc = "check"
        /\ capture.pc = "send"
        /\ \A ch \in Channels :
             \/ queue'[ch] = queue[ch]
             \/ ch \in capture.to /\ queue'[ch] = Append(queue[ch], last)
    BY DEF CaptureSend
  <1>2. ASSUME NEW ch \in Channels
        PROVE  /\ Rising(queue'[ch]) /\ OfChannel(queue'[ch], air, ch)
               /\ \A i \in 1 .. Len(queue'[ch]) : Earlier(taken[ch], queue'[ch][i])
               /\ Earlier(queue'[ch], last + 1)
    <2>1. CASE queue'[ch] = queue[ch]
      BY <2>1 DEF FramesOK, InHand
    <2>2. CASE ch \in capture.to /\ queue'[ch] = Append(queue[ch], last)
      <3>1. /\ queue[ch] \in Seq(Nat) /\ taken[ch] \in Seq(Nat)
            /\ last \in Nat /\ last \in 1 .. Len(air) /\ air[last].channel = ch
        <4>1. last > 0 /\ capture.to \subseteq {air[last].channel}
          BY <1>1 DEF InHand
        <4>2. /\ queue[ch] \in Seq(Nat) /\ taken[ch] \in Seq(Nat)
              /\ last \in Nat /\ Len(air) \in Nat /\ last <= Len(air)
          BY QueueFacts
        <4> QED
          BY <2>2, <4>1, <4>2
      <3>2. /\ Earlier(queue[ch], last) /\ Earlier(taken[ch], last)
            /\ Rising(queue[ch]) /\ OfChannel(queue[ch], air, ch)
            /\ Earlier(queue[ch], last + 1)
            /\ \A i \in 1 .. Len(queue[ch]) : Earlier(taken[ch], queue[ch][i])
        BY <1>1 DEF InHand, FramesOK
      <3>3. /\ Rising(Append(queue[ch], last))
            /\ OfChannel(Append(queue[ch], last), air, ch)
            /\ \A i \in 1 .. Len(Append(queue[ch], last)) :
                 Earlier(taken[ch], Append(queue[ch], last)[i])
        BY <3>1, <3>2, PutInOrder
      <3>4. Earlier(Append(queue[ch], last), last + 1)
        <4>1. \A i \in 1 .. Len(Append(queue[ch], last)) :
                \/ i \in 1 .. Len(queue[ch]) /\ Append(queue[ch], last)[i] = queue[ch][i]
                \/ Append(queue[ch], last)[i] = last
          BY <3>1, AppendOf
        <4>2. last < last + 1
          BY <3>1
        <4> QED
          BY <3>2, <4>1, <4>2 DEF Earlier
      <3> QED
        BY <2>2, <3>3, <3>4
    <2> QED
      BY <1>1, <2>1, <2>2
  <1>3. FramesOK'
    BY <1>1, <1>2 DEF FramesOK
  <1>4. InHand'
    BY <1>1, <1>2 DEF InHand
  <1> QED
    BY <1>3, <1>4

(* A receiver takes a slice, whatever the capture goroutine holds.         *)
LEMMA TakenNext ==
  ASSUME IInv, NEW ch \in Channels, ReceiverTake(ch)
  PROVE  FramesOK' /\ InHand'
  <1> USE DEF IInv
  <1> DEFINE q == queue[ch]
             h == taken[ch]
  <1>1. /\ UNCHANGED <<air, last, capture>>
        /\ q \in Seq(1 .. MaxPackets) /\ h \in Seq(1 .. MaxPackets)
        /\ q \in Seq(Nat) /\ h \in Seq(Nat) /\ q # <<>>
    BY QueueFacts DEF ReceiverTake, Readable
  <1>2. /\ queue' = [queue EXCEPT ![ch] = Tail(q)]
        /\ taken' = [taken EXCEPT ![ch] = Append(h, Head(q))]
        /\ queue \in [Channels -> Seq(1 .. MaxPackets)]
        /\ taken \in [Channels -> Seq(1 .. MaxPackets)]
    BY DEF ReceiverTake, CaptureTypeOK, FramesOK
  <1>3. /\ queue'[ch] = Tail(q) /\ taken'[ch] = Append(h, Head(q))
        /\ \A c \in Channels : c # ch => queue'[c] = queue[c] /\ taken'[c] = taken[c]
    BY <1>2
  <1>4. /\ Rising(q) /\ OfChannel(q, air, ch) /\ Rising(h) /\ OfChannel(h, air, ch)
        /\ \A i \in 1 .. Len(q) : Earlier(h, q[i])
    BY DEF FramesOK
  <1>5. Append(h, Head(q)) \in Seq(1 .. MaxPackets)
    BY <1>1, TailOf, AppendOf
  <1>6. taken' \in [Channels -> Seq(1 .. MaxPackets)]
    BY <1>2, <1>5
  <1> HIDE DEF q, h
  <1>7. /\ Rising(Tail(q)) /\ OfChannel(Tail(q), air, ch)
        /\ Rising(Append(h, Head(q))) /\ OfChannel(Append(h, Head(q)), air, ch)
        /\ \A i \in 1 .. Len(Tail(q)) : Earlier(Append(h, Head(q)), Tail(q)[i])
        /\ \A n : Earlier(q, n) => Earlier(Tail(q), n)
        /\ \A n : Earlier(q, n) /\ Earlier(h, n) => Earlier(Append(h, Head(q)), n)
    BY <1>1, <1>4, MovedInOrder
  <1>8. ASSUME NEW c \in Channels
        PROVE  /\ Rising(queue'[c]) /\ OfChannel(queue'[c], air, c)
               /\ Rising(taken'[c]) /\ OfChannel(taken'[c], air, c)
               /\ \A i \in 1 .. Len(queue'[c]) : Earlier(taken'[c], queue'[c][i])
               /\ \A n : Earlier(queue[c], n) /\ Earlier(taken[c], n) =>
                           Earlier(queue'[c], n) /\ Earlier(taken'[c], n)
    <2>1. CASE c = ch
      BY <1>3, <1>7, <2>1 DEF q, h
    <2>2. CASE c # ch
      BY <1>3, <2>2 DEF FramesOK
    <2> QED
      BY <2>1, <2>2
  <1>9. FramesOK'
    BY <1>1, <1>6, <1>8 DEF FramesOK
  <1>10. InHand'
    BY <1>1, <1>8 DEF InHand
  <1> QED
    BY <1>9, <1>10

LEMMA FramesStep ==
  ASSUME IInv, Next
  PROVE  FramesOK' /\ InHand'
  <1> USE DEF IInv
  <1>1. CASE ReadCached \/ \E b \in Blocks : CaptureBlock(b)
    BY <1>1, CapturedInOrder
  <1>2. CASE CaptureSend
    BY <1>2, SentInOrder
  <1>3. ASSUME NEW ch \in Channels, ReceiverTake(ch)
        PROVE  FramesOK' /\ InHand'
    BY <1>3, TakenNext
  <1>4. CASE CaptureLookup
    <2>1. /\ UNCHANGED <<air, last, queue, taken>> /\ capture.pc = "lookup"
          /\ capture'.to \subseteq {air[buffer[air[last].at]].channel}
      BY <1>4 DEF CaptureLookup, Matching
    <2>2. buffer[air[last].at] = last
      <3>1. last > 0 /\ last \in last .. Len(air) /\ last \in 1 .. Len(air)
        BY <2>1 DEF InHand, CaptureTypeOK, FramesOK
      <3>2. air[last].at \in Cells(last)
        <4>1. air[last] \in Slices
          BY <3>1, ElementsOf DEF FramesOK
        <4>2. /\ air[last].at \in Nat /\ air[last].size \in Nat
              /\ air[last].size >= 1
          BY <4>1, CaptureAssumption DEF Slices
        <4> QED
          BY <4>2 DEF Cells, CellsOf
      <3> QED
        BY <3>1, <3>2 DEF BufferOK, CachedIntact
    <2> QED
      BY <2>1, <2>2 DEF FramesOK, InHand
  <1>5. CASE /\ UNCHANGED <<air, last, queue, taken>>
             /\ capture' = capture \/ capture'.pc \notin {"lookup", "send"}
    BY <1>5 DEF FramesOK, InHand
  <1>6. ASSUME ServerStarted \/ \E ch \in Channels : ForwarderRun(ch)
        PROVE  capture' = capture \/ capture'.pc = "check"
    BY <1>6 DEF ServerStarted, ForwarderRun, StartManager, CaptureTypeOK
  <1>7. ASSUME CaptureCheck \/ CaptureError \/ CaptureSendClosed
        PROVE  capture'.pc \notin {"lookup", "send"}
    BY <1>7 DEF CaptureCheck, CaptureError, CaptureSendClosed, CaptureTypeOK
  <1>8. CASE \/ ServerStarted \/ ServerStop \/ ManagerCancel \/ ManagerClose
             \/ CaptureCheck \/ CaptureError \/ CaptureSendClosed
             \/ \E ch \in Channels :
                  \/ StartStream(ch) \/ StopStream(ch) \/ StreamStopped(ch)
                  \/ ForwarderRun(ch) \/ ReceiverCheck(ch) \/ ReceiverLoad(ch)
                  \/ ReceiverProcess(ch)
    BY <1>5, <1>6, <1>7, <1>8
       DEF ServerStarted, ServerStop, ManagerCancel, ManagerClose, CaptureCheck,
           CaptureError, CaptureSendClosed, StartStream, StopStream, StreamStopped,
           ForwarderRun, ReceiverCheck, ReceiverLoad, ReceiverProcess
  <1> QED
    BY <1>1, <1>2, <1>3, <1>4, <1>8
       DEF Next, CaptureGoroutine, ReceiverGoroutine, ServerGoroutine, Environment

-----------------------------------------------------------------------------
(* Only a new block is written to the buffer.                              *)
LEMMA BufferStep ==
  ASSUME IInv, Next
  PROVE  BufferOK'
  <1> USE DEF IInv
  <1>1. ASSUME NEW b \in Blocks, CaptureBlock(b)
        PROVE  BufferOK'
    BY <1>1, BlockStep
  <1>2. CASE ReadCached
    <2>1. UNCHANGED <<air, buffer>> /\ last' = last + 1 /\ last \in 0 .. Len(air)
      BY <1>2 DEF ReadCached, CaptureTypeOK
    <2>2. \A n : Cells(n)' = Cells(n)
      BY <2>1 DEF Cells, CellsOf
    <2>3. \A n \in last' .. Len(air') : n \in last .. Len(air)
      BY <2>1
    <2>4. CachedIntact'
      BY <2>1, <2>2, <2>3 DEF BufferOK, CachedIntact
    <2> QED
      BY <2>1, <2>2, <2>4 DEF BufferOK
  <1>3. CASE UNCHANGED <<air, buffer, last>>
    BY <1>3 DEF BufferOK, CachedIntact, Cells, CellsOf
  <1>4. CASE \/ ServerStarted \/ ServerStop \/ ManagerCancel \/ ManagerClose
             \/ CaptureCheck \/ CaptureError \/ CaptureSendClosed
             \/ CaptureLookup \/ CaptureSend
             \/ \E ch \in Channels :
                  \/ StartStream(ch) \/ StopStream(ch) \/ StreamStopped(ch)
                  \/ ForwarderRun(ch) \/ ReceiverCheck(ch) \/ ReceiverLoad(ch)
                  \/ ReceiverTake(ch) \/ ReceiverProcess(ch)
    BY <1>3, <1>4
       DEF ServerStarted, ServerStop, ManagerCancel, ManagerClose, CaptureCheck,
           CaptureError, CaptureSendClosed, CaptureLookup, CaptureSend, StartStream,
           StopStream, StreamStopped, ForwarderRun, ReceiverCheck, ReceiverLoad,
           ReceiverTake, ReceiverProcess
  <1> QED
    BY <1>1, <1>2, <1>4
       DEF Next, CaptureGoroutine, ReceiverGoroutine, ServerGoroutine, Environment

(* What a receiver finds in frame n's slice is not older than n.           *)
LEMMA FoundIsNotOlder ==
  ASSUME NEW n \in Nat, NEW f \in Found(n), Len(air) \in Nat
  PROVE  f \in Nat /\ (f = Torn \/ f >= n)
  <1>1. f = n \/ f = Torn \/ f \in n + 1 .. Len(air)
    BY DEF Found
  <1> QED
    BY <1>1 DEF Torn

LEMMA SeenStep ==
  ASSUME IInv, Next
  PROVE  seen' \in [Channels -> Seq(Nat)] /\ SeenOK'
  <1> USE DEF IInv
  <1>1. /\ receiver \in [Channels -> Receivers]
        /\ taken \in [Channels -> Seq(1 .. MaxPackets)]
        /\ seen \in [Channels -> Seq(Nat)]
    BY DEF CaptureTypeOK, FramesOK, Receivers, ReceiverPlaces
  <1>2. ASSUME UNCHANGED <<taken, seen>>,
               \A c \in Channels : (receiver'[c].pc = "process") <=> (receiver[c].pc = "process")
        PROVE  seen' \in [Channels -> Seq(Nat)] /\ SeenOK'
    BY <1>1, <1>2 DEF SeenOK
  <1>3. ASSUME NEW ch \in Channels, ReceiverTake(ch)
        PROVE  seen' \in [Channels -> Seq(Nat)] /\ SeenOK'
    <2>1. /\ seen' = seen /\ receiver[ch].pc = "wait"
          /\ taken' = [taken EXCEPT ![ch] = Append(taken[ch], Head(queue[ch]))]
          /\ ReceiverStep(ch, "process")
          /\ queue[ch] # <<>> /\ queue[ch] \in Seq(1 .. MaxPackets)
      BY <1>1, <1>3 DEF ReceiverTake, Readable, CaptureTypeOK
    <2>2. /\ receiver'[ch].pc = "process"
          /\ \A c \in Channels : c # ch => receiver'[c] = receiver[c]
      BY <2>1, ReceiverMoves DEF ReceiverPlaces
    <2>3. Head(queue[ch]) \in 1 .. MaxPackets
      BY <2>1, TailOf
    <2>4. PICK t : t = taken'[ch]
      OBVIOUS
    <2>5. /\ Len(t) = Len(taken[ch]) + 1 /\ Len(taken[ch]) \in Nat
          /\ \A i \in 1 .. Len(taken[ch]) : t[i] = taken[ch][i]
      BY <1>1, <2>1, <2>3, <2>4
    <2>6. /\ Len(taken[ch]) = Len(seen[ch])
          /\ \A i \in 1 .. Len(seen[ch]) : seen[ch][i] = Torn \/ seen[ch][i] >= taken[ch][i]
      <3>1. Len(seen[ch]) \in Nat
        BY <1>1, ElementsOf
      <3>2. /\ Len(taken[ch]) = Len(seen[ch]) + 0
            /\ \A i \in 1 .. Len(seen[ch]) : seen[ch][i] = Torn \/ seen[ch][i] >= taken[ch][i]
        BY <2>1, Zenon DEF SeenOK
      <3> QED
        BY <3>1, <3>2
    <2>7. ASSUME NEW c \in Channels
          PROVE  /\ seen[c] \in Seq(Nat)
                 /\ Len(taken'[c]) = Len(seen[c]) + (IF receiver'[c].pc = "process" THEN 1 ELSE 0)
                 /\ \A i \in 1 .. Len(seen[c]) :
                      seen[c][i] = Torn \/ seen[c][i] >= taken'[c][i]
      <3>1. CASE c = ch
        BY <1>1, <2>2, <2>4, <2>5, <2>6, <3>1
      <3>2. CASE c # ch
        BY <1>1, <2>1, <2>2, <3>2 DEF SeenOK
      <3> QED
        BY <3>1, <3>2
    <2> QED
      BY <1>1, <2>1, <2>7 DEF SeenOK
  <1>4. ASSUME NEW ch \in Channels, ReceiverProcess(ch)
        PROVE  seen' \in [Channels -> Seq(Nat)] /\ SeenOK'
    <2>1. PICK f \in Found(taken[ch][Len(taken[ch])]) :
            seen' = [seen EXCEPT ![ch] = Append(seen[ch], f)]
      BY <1>4 DEF ReceiverProcess
    <2>2. /\ receiver[ch].pc = "process" /\ ReceiverStep(ch, "check") /\ taken' = taken
      BY <1>4 DEF ReceiverProcess
    <2>3. /\ receiver'[ch].pc = "check"
          /\ \A c \in Channels : c # ch => receiver'[c] = receiver[c]
      BY <2>2, ReceiverMoves DEF ReceiverPlaces
    <2>4. /\ Len(taken[ch]) = Len(seen[ch]) + 1 /\ Len(seen[ch]) \in Nat
          /\ \A i \in 1 .. Len(seen[ch]) : seen[ch][i] = Torn \/ seen[ch][i] >= taken[ch][i]
      BY <1>1, <2>2, ElementsOf DEF SeenOK
    <2>5. PICK n : n = taken[ch][Len(taken[ch])]
      OBVIOUS
    <2>6. n \in Nat /\ n = taken[ch][Len(seen[ch]) + 1]
      <3>1. taken[ch] \in Seq(1 .. MaxPackets)
        BY <1>1
      <3>2. Len(taken[ch]) \in 1 .. Len(taken[ch])
        BY <2>4
      <3>3. n \in 1 .. MaxPackets
        BY <2>5, <3>1, <3>2, ElementsOf
      <3> QED
        BY <2>4, <2>5, <3>3
    <2>7. f \in Nat /\ (f = Torn \/ f >= n)
      <3>1. f \in Found(n) /\ Len(air) \in Nat
        BY <2>1, <2>5 DEF FramesOK
      <3> QED
        BY ONLY <2>6, <3>1, FoundIsNotOlder
    <2>8. /\ seen' \in [Channels -> Seq(Nat)]
          /\ \A c \in Channels : c # ch => seen'[c] = seen[c]
      BY <1>1, <2>1, <2>7
    <2>9. PICK t : t = seen'[ch]
      OBVIOUS
    <2>10. /\ Len(t) = Len(seen[ch]) + 1
           /\ \A i \in 1 .. Len(t) : \/ i \in 1 .. Len(seen[ch]) /\ t[i] = seen[ch][i]
                                     \/ i = Len(seen[ch]) + 1 /\ t[i] = f
      BY <1>1, <2>1, <2>7, <2>9, AppendOf
    <2>11. \A i \in 1 .. Len(t) : t[i] = Torn \/ t[i] >= taken[ch][i]
      BY <2>4, <2>6, <2>7, <2>10
    <2>12. ASSUME NEW c \in Channels
           PROVE  /\ seen'[c] \in Seq(Nat)
                  /\ Len(taken[c]) = Len(seen'[c]) + (IF receiver'[c].pc = "process" THEN 1 ELSE 0)
                  /\ \A i \in 1 .. Len(seen'[c]) :
                       seen'[c][i] = Torn \/ seen'[c][i] >= taken[c][i]
      <3>1. CASE c = ch
        BY <2>3, <2>4, <2>8, <2>9, <2>10, <2>11, <3>1
      <3>2. CASE c # ch
        BY <2>3, <2>8, <3>2 DEF SeenOK
      <3> QED
        BY <3>1, <3>2
    <2> QED
      BY <2>2, <2>8, <2>12 DEF SeenOK
  <1>5. ASSUME NEW ch \in Channels, NEW pc \in ReceiverPlaces \ {"process"},
               UNCHANGED <<taken, seen>>, receiver[ch].pc # "process",
               ReceiverStep(ch, pc)
        PROVE  seen' \in [Channels -> Seq(Nat)] /\ SeenOK'
    <2>1. receiver'[ch].pc = pc /\ \A c \in Channels : c # ch => receiver'[c] = receiver[c]
      BY <1>5, ReceiverMoves
    <2> QED
      BY <1>2, <1>5, <2>1
  <1>6. ASSUME NEW ch \in Channels, ForwarderRun(ch) \/ ReceiverCheck(ch) \/ ReceiverLoad(ch)
        PROVE  seen' \in [Channels -> Seq(Nat)] /\ SeenOK'
    <2>1. UNCHANGED <<taken, seen>> /\ receiver[ch].pc # "process"
      BY <1>6 DEF ForwarderRun, ReceiverCheck, ReceiverLoad
    <2>2. PICK pc \in ReceiverPlaces \ {"process"} : ReceiverStep(ch, pc)
      BY <1>6 DEF ForwarderRun, ReceiverCheck, ReceiverLoad, ReceiverStep, ReceiverPlaces
    <2> QED
      BY <1>5, <2>1, <2>2
  <1>7. ASSUME NEW ch \in Channels, StartStream(ch) \/ StopStream(ch)
        PROVE  seen' \in [Channels -> Seq(Nat)] /\ SeenOK'
    <2>1. /\ UNCHANGED <<taken, seen>>
          /\ StartStream(ch) => receiver[ch].pc # "process"
      BY <1>7 DEF StartStream, StopStream, LifeCycle
    <2>2. \A c \in Channels : (receiver'[c].pc = "process") <=> (receiver[c].pc = "process")
      <3>1. \A c \in Channels : c # ch => receiver'[c] = receiver[c]
        BY <1>1, <1>7 DEF StartStream, StopStream
      <3>2. StopStream(ch) => receiver'[ch].pc = receiver[ch].pc
        BY <1>1 DEF StopStream, Receivers
      <3>3. StartStream(ch) => receiver'[ch].pc = "start"
        BY <1>1 DEF StartStream
      <3> QED
        BY <1>7, <2>1, <3>1, <3>2, <3>3
    <2> QED
      BY <1>2, <2>1, <2>2
  <1>8. CASE \/ ServerStarted \/ ServerStop \/ ManagerCancel \/ ManagerClose
             \/ CaptureCheck \/ CaptureError \/ CaptureSendClosed \/ ReadCached
             \/ CaptureLookup \/ CaptureSend
             \/ \E b \in Blocks : CaptureBlock(b)
             \/ \E ch \in Channels : StreamStopped(ch)
    <2>1. UNCHANGED <<taken, seen, receiver>>
      BY <1>8
         DEF ServerStarted, ServerStop, ManagerCancel, ManagerClose, CaptureCheck,
             CaptureError, CaptureSendClosed, ReadCached, CaptureBlock, CaptureLookup,
             CaptureSend, StreamStopped
    <2> QED
      BY <1>2, <2>1
  <1> QED
    BY <1>3, <1>4, <1>6, <1>7, <1>8
       DEF Next, CaptureGoroutine, ReceiverGoroutine, ServerGoroutine, Environment

-----------------------------------------------------------------------------
LEMMA CaptureInit == Init => IInv
  <1> SUFFICES ASSUME Init PROVE IInv
    OBVIOUS
  <1>1. CaptureTypeOK
    <2>1. /\ queue \in [Channels -> Seq(1 .. MaxPackets)]
          /\ \A ch \in Channels : Len(queue[ch]) <= QueueSize
      <3>1. <<>> \in Seq(1 .. MaxPackets) /\ Len(<<>>) = 0 /\ QueueSize \in Nat
        BY CaptureAssumption
      <3> QED
        BY <3>1 DEF Init
    <2>2. /\ receiver \in [Channels -> [pc : {"none", "start", "check", "load", "wait",
                                             "process", "done", "panic"},
                                        cancelled : BOOLEAN, source : BOOLEAN]]
          /\ \A ch \in Channels : receiver[ch].pc = "none"
      BY DEF Init, NoReceiver
    <2>3. buffer \in [1 .. BufferSize -> 0 .. Len(air)] /\ last \in 0 .. Len(air)
      BY DEF Init
    <2> QED
      BY <2>1, <2>2, <2>3 DEF Init, CaptureTypeOK
  <1>2. FramesOK
    BY CaptureAssumption DEF Init, FramesOK, Rising, OfChannel, Earlier
  <1>3. InHand /\ LifeCycle /\ PanicsOnlyInStop
    BY DEF Init, InHand, LifeCycle, PanicsOnlyInStop, NoReceiver, Earlier
  <1>4. BufferOK
    BY DEF Init, BufferOK, CachedIntact
  <1>5. seen \in [Channels -> Seq(Nat)] /\ SeenOK
    BY DEF Init, SeenOK, NoReceiver
  <1> QED
    BY <1>1, <1>2, <1>3, <1>4, <1>5 DEF IInv

LEMMA CaptureStep == IInv /\ [Next]_vars => IInv'
  <1> SUFFICES ASSUME IInv, [Next]_vars PROVE IInv'
    OBVIOUS
  <1>1. CASE Next
    BY <1>1, TypesStep, FramesStep, BufferStep, SeenStep, LifeStep DEF IInv
  <1>2. CASE UNCHANGED vars
    <2>1. CaptureTypeOK' /\ FramesOK' /\ InHand' /\ LifeCycle' /\ PanicsOnlyInStop'
      BY <1>2 DEF vars, IInv, CaptureTypeOK, FramesOK, InHand, LifeCycle, PanicsOnlyInStop
    <2>2. BufferOK' /\ SeenOK' /\ seen' \in [Channels -> Seq(Nat)]
      BY <1>2 DEF vars, IInv, BufferOK, CachedIntact, Cells, CellsOf, SeenOK
    <2> QED
      BY <2>1, <2>2 DEF IInv
  <1> QED
    BY <1>1, <1>2

LEMMA CaptureInvariant == Spec => []IInv
  BY CaptureInit, CaptureStep, PTL DEF Spec

(* Every stream's receiver takes the slices of the frames of its own       *)
(* channel only, in the order they were captured and each once, and finds  *)
(* no earlier frame in them, however streams stop and start; a new block   *)
(* overwrites no frame that ReadPacket has yet to return; the queues keep  *)
(* their capacity, and no receiver goroutine outlives its stream.          *)
THEOREM StreamsTakeTheirFrames == Spec => []CaptureInv
  <1>1. IInv => CaptureInv
    BY DEF IInv, CaptureInv, TakenInOrder, FramesOK, Rising, OfChannel, BufferOK, SeenOK
  <1> QED
    BY <1>1, CaptureInvariant, PTL

(* A send on a closed channel only happens when the whole capture was      *)
(* closed, and a receiver without a source only in its own stream's Stop.  *)
THEOREM PanicsAreConfined == Spec => []PanicsOnlyInStop
  <1>1. IInv => PanicsOnlyInStop
    BY DEF IInv
  <1> QED
    BY <1>1, CaptureInvariant, PTL
=============================================================================
