---------------------------- MODULE VideoFeeder ----------------------------
(***************************************************************************)
(* The worker that feeds the browser's VideoDecoder from the websocket of  *)
(* a live stream (client/src/app/video/video-feeder.worker.ts).            *)
(*                                                                         *)
(* JavaScript runs one callback at a time, so a step is what runs from an  *)
(* event to the next suspension.  The one suspension that outlives the     *)
(* event is VideoDecoder.isConfigSupported: messages are handled while it  *)
(* is awaited, and what follows the await uses this.buffer as it is then.  *)
(*                                                                         *)
(* What is posted to the page is modelled in LiveView.                    *)
(*                                                                         *)
(* A frame comes as one message, or as a full one (of the server's buffer  *)
(* of 33000 bytes) and the rest.  Frames are numbered modulo Frames.       *)
(* VideoDecoder and WebSocket are modelled as their standards have them:   *)
(* configure() makes a key chunk required, decode() of any other chunk     *)
(* then throws, so does any call on a closed decoder; a message that comes *)
(* after close() is not delivered.                                         *)
(***************************************************************************)
EXTENDS Integers, Sequences

CONSTANTS
  Frames,      \* frames are numbered modulo this
  MaxPending,  \* bound of the model: calls that await isConfigSupported at a time
  MaxErrors    \* bound of the model: errors the decoder reports

VARIABLES
  ws,            \* the websocket: "none", "open", "closing", "closed", or "never":
                 \* the browser has no VideoDecoder
  started,       \* the message with the codec has come
  decoder,       \* [state, keyRequired]
  configSupported, \* "undefined", "yes", "no"
  firstKeyFrameReceived,
  buffer,        \* this.buffer: the newest message
  largeBuffers,
  bufferInUse,
  pending,       \* the calls that await isConfigSupported, oldest first
  noRestart,
  handed,        \* what decode() was last called with and took
  errors

vfVars == <<ws, started, decoder, configSupported,
            firstKeyFrameReceived, buffer, largeBuffers, bufferInUse, pending,
            noRestart, handed, errors>>

(***************************************************************************)
(* What isKeyFrame and the type of the chunk make of the first bytes: they *)
(* do not test the same bytes ("61 88" of H264 and type 25 of H265 are key *)
(* frames of delta chunks, "67 42" and "67 4d" key chunks that are none).  *)
(* Once a key frame has been received it is the type that counts alone.    *)
(***************************************************************************)
Kinds == {"key", "keyTakenForDelta", "keyNotTaken", "delta"}
IsKeyFrame(m) == m.part = 1 /\ m.kind \in {"key", "keyTakenForDelta"}
IsStartFrame(m) == m.part = 1
IsFull(m) == m.full
ChunkType(data) == IF Head(data).part = 1 /\ Head(data).kind \in {"key", "keyNotTaken"}
                   THEN "key" ELSE "delta"

\* spoilt is the model's: the message came while a call was pending, or was in
\* largeBuffers when the decoder reported an error, or the start of its frame was.
Messages(spoilt) ==
  [frame: 0 .. Frames - 1, part: {1}, kind: Kinds, full: BOOLEAN, spoilt: spoilt]
    \cup [frame: 0 .. Frames - 1, part: {2}, kind: {"delta"}, full: {FALSE},
          spoilt: spoilt]
Message == Messages({FALSE})
NoMessage == [frame |-> 0, part |-> 2, kind |-> "delta", full |-> FALSE,
              spoilt |-> FALSE]

\* What the server may send after m: the rest of its frame, or a start of the next.
Follows(m) ==
  IF m.part = 1 /\ m.full
  THEN {n \in Message : n.part = 2 /\ n.frame = m.frame}
  ELSE {n \in Message : n.part = 1 /\ n.frame = (m.frame + 1) % Frames}

New == [state |-> "unconfigured", keyRequired |-> TRUE]
Configured == [state |-> "configured", keyRequired |-> TRUE]
Closed(d) == [d EXCEPT !.state = "closed"]

Init ==
  /\ ws = "none"
  /\ started = FALSE
  /\ decoder = New
  /\ configSupported = "undefined"
  /\ firstKeyFrameReceived = FALSE
  /\ buffer = NoMessage
  /\ largeBuffers = << >>
  /\ bufferInUse = FALSE
  /\ pending = << >>
  /\ noRestart = FALSE
  /\ handed = << >>
  /\ errors = 0

-----------------------------------------------------------------------------
(* processMessage and its callers.  A pending call has the data it is to   *)
(* decode and, when putLargeFrames made it, the message whose processChunk *)
(* goes on after it.                                                       *)

Decodes(d, data) ==
  d.state = "configured" /\ (d.keyRequired => ChunkType(data) = "key")

AfterDecode(d, data) ==
  IF Decodes(d, data) THEN [d EXCEPT !.keyRequired = FALSE] ELSE d

\* What decode() takes: it throws otherwise, and the promise is rejected.
Taken(d, data) == IF Decodes(d, data) THEN <<data>> ELSE << >>

\* processMessage with no call to the decoder yet made: before is what has
\* been handed to the decoder in this step.
ProcessMessage(d, data, rest, before, waiting) ==
  IF d.state = "configured"
  THEN /\ decoder' = AfterDecode(d, data)
       /\ handed' = before \o Taken(d, data)
       /\ pending' = waiting
  ELSE /\ decoder' = d
       /\ handed' = before
       /\ pending' = Append(waiting, [data |-> data, rest |-> rest])

\* The end of processChunk for message m: it appends, or decodes, this.buffer.
Finish(m, newest, inUse, large, d, before, waiting) ==
  IF IsFull(m) \/ inUse
  THEN /\ bufferInUse' = TRUE
       /\ largeBuffers' = Append(large, newest)
       /\ decoder' = d /\ handed' = before /\ pending' = waiting
  ELSE /\ bufferInUse' = FALSE
       /\ largeBuffers' = large
       /\ IF IsStartFrame(m)
          THEN ProcessMessage(d, <<newest>>, << >>, before, waiting)
          ELSE decoder' = d /\ handed' = before /\ pending' = waiting

\* Mutant: largeBuffers is cleared after the await, if that returns.
PutLargeFramesKept(m) ==
  IF largeBuffers = << >>
  THEN Finish(m, m, FALSE, << >>, decoder, << >>, pending)
  ELSE IF Decodes(decoder, largeBuffers)
  THEN Finish(m, m, FALSE, << >>, AfterDecode(decoder, largeBuffers),
              <<largeBuffers>>, pending)
  ELSE /\ ProcessMessage(decoder, largeBuffers, <<m>>, << >>, pending)
       /\ UNCHANGED <<largeBuffers, bufferInUse>>

\* putLargeFrames for the start of frame m, which goes on when it is done.
PutLargeFrames(m) ==
  IF largeBuffers = << >>
  THEN Finish(m, m, FALSE, << >>, decoder, << >>, pending)
  ELSE IF Decodes(decoder, largeBuffers)
  THEN Finish(m, m, FALSE, << >>, AfterDecode(decoder, largeBuffers),
              <<largeBuffers>>, pending)
  ELSE /\ ProcessMessage(decoder, largeBuffers, <<m>>, << >>, pending)
       /\ largeBuffers' = << >>
       /\ UNCHANGED bufferInUse

ProcessChunk(m) ==
  /\ buffer' = m
  /\ firstKeyFrameReceived' = (firstKeyFrameReceived \/ IsKeyFrame(m))
  /\ IF ~firstKeyFrameReceived'
     THEN /\ handed' = << >>
          /\ UNCHANGED <<decoder, largeBuffers, bufferInUse, pending>>
     ELSE IF IsStartFrame(m) /\ bufferInUse
     THEN PutLargeFrames(m)
     ELSE Finish(m, m, bufferInUse, largeBuffers, decoder, << >>, pending)

\* The message from the page: a feeder with its websocket and its decoder.
SetUp ==
  /\ ws = "none"
  /\ ws' = "open"
  /\ handed' = << >>
  /\ UNCHANGED <<started, decoder, configSupported,
                 firstKeyFrameReceived, buffer, largeBuffers, bufferInUse,
                 pending, noRestart, errors>>

\* A browser with no VideoDecoder.
NotSupported ==
  /\ ws = "none"
  /\ ws' = "never"
  /\ UNCHANGED <<started, decoder, configSupported,
                 firstKeyFrameReceived, buffer, largeBuffers, bufferInUse,
                 pending, noRestart, handed, errors>>

\* onmessage: the codec first, then the parts of the frames.
ReceiveCodec ==
  /\ ws = "open" /\ ~started
  /\ started' = TRUE
  /\ handed' = << >>
  /\ UNCHANGED <<ws, decoder, configSupported, firstKeyFrameReceived,
                 buffer, largeBuffers, bufferInUse, pending, noRestart,
                 errors>>

Receive ==
  /\ ws = "open" /\ started
  /\ Len(pending) < MaxPending
  /\ \E m \in Follows(buffer) :
       /\ firstKeyFrameReceived => m.kind \in {"key", "delta"}
       /\ ProcessChunk([m EXCEPT !.spoilt =
            pending # << >> \/ (m.part = 2 /\ buffer.spoilt)])
  /\ UNCHANGED <<ws, started, configSupported, noRestart, errors>>

\* isConfigSupported answers the oldest call: what is after the await.
GoOn(call, d, before) ==
  IF call.rest = << >>
  THEN /\ decoder' = d /\ handed' = before /\ pending' = Tail(pending)
       /\ UNCHANGED <<largeBuffers, bufferInUse>>
  ELSE Finish(Head(call.rest), buffer, FALSE, largeBuffers, d, before,
              Tail(pending))

Rejected(d) ==
  /\ decoder' = d /\ handed' = << >> /\ pending' = Tail(pending)
  /\ UNCHANGED <<largeBuffers, bufferInUse>>

ConfigSupported ==
  /\ pending # << >> /\ configSupported # "no"
  /\ configSupported' = "yes"
  /\ LET call == Head(pending)
     IN IF decoder.state # "closed" /\ Decodes(Configured, call.data)
        THEN GoOn(call, AfterDecode(Configured, call.data), <<call.data>>)
        ELSE Rejected(IF decoder.state = "closed" THEN decoder ELSE Configured)
  /\ UNCHANGED <<ws, started, firstKeyFrameReceived, buffer,
                 noRestart, errors>>

ConfigNotSupported ==
  /\ pending # << >> /\ configSupported # "yes"
  /\ configSupported' = "no"
  /\ ws' = IF ws = "open" THEN "closing" ELSE ws
  /\ GoOn(Head(pending), decoder, << >>)
  /\ UNCHANGED <<started, firstKeyFrameReceived, buffer, noRestart,
                 errors>>

-----------------------------------------------------------------------------
(* Errors, timeouts and the end of the feed. *)

\* Mutant: the error is only logged.
DecoderErrorLogged ==
  /\ decoder.state = "configured" /\ errors < MaxErrors
  /\ errors' = errors + 1
  /\ decoder' = Closed(decoder)
  /\ handed' = << >>
  /\ UNCHANGED <<ws, started, configSupported, firstKeyFrameReceived, buffer,
                 largeBuffers, bufferInUse, pending, noRestart>>

\* The decoder closes itself and reports: a new one is set up.
DecoderError ==
  /\ decoder.state = "configured" /\ errors < MaxErrors
  /\ errors' = errors + 1
  /\ decoder' = New
  /\ firstKeyFrameReceived' = FALSE
  /\ largeBuffers' =
       [i \in DOMAIN largeBuffers |-> [largeBuffers[i] EXCEPT !.spoilt = TRUE]]
  /\ handed' = << >>
  /\ UNCHANGED <<ws, started, configSupported, buffer, bufferInUse,
                 pending, noRestart>>

\* Three seconds with no message.
TimedOut ==
  /\ ws # "none" /\ configSupported = "yes" /\ decoder.state # "closed"
  /\ ws' = IF ws = "open" THEN "closing" ELSE ws
  /\ decoder' = Closed(decoder)
  /\ handed' = << >>
  /\ UNCHANGED <<started, configSupported, firstKeyFrameReceived,
                 buffer, largeBuffers, bufferInUse, pending, noRestart,
                 errors>>

\* The page's close message.  Closing a closed decoder throws, and the
\* websocket is then left as it is.
Close ==
  /\ ws \notin {"none", "never"}
  /\ noRestart' = TRUE
  /\ ws' = IF ws = "open" /\ decoder.state # "closed" THEN "closing" ELSE ws
  /\ decoder' = Closed(decoder)
  /\ handed' = << >>
  /\ UNCHANGED <<started, configSupported, firstKeyFrameReceived,
                 buffer, largeBuffers, bufferInUse, pending, errors>>

OnError ==
  /\ ws = "open"
  /\ ws' = "closing"
  /\ handed' = << >>
  /\ UNCHANGED <<started, decoder, configSupported,
                 firstKeyFrameReceived, buffer, largeBuffers, bufferInUse,
                 pending, noRestart, errors>>

OnClose ==
  /\ ws \in {"open", "closing"}
  /\ ws' = "closed"
  /\ decoder' = IF noRestart THEN Closed(decoder) ELSE decoder
  /\ handed' = << >>
  /\ UNCHANGED <<started, configSupported, firstKeyFrameReceived,
                 buffer, largeBuffers, bufferInUse, pending, noRestart,
                 errors>>

Next ==
  \/ SetUp \/ NotSupported
  \/ ReceiveCodec \/ Receive
  \/ ConfigSupported \/ ConfigNotSupported
  \/ DecoderError \/ TimedOut
  \/ Close \/ OnError \/ OnClose

\* A promise is settled and goes on.  The server, which may fall silent, is
\* assumed in the property itself.
Fairness == WF_vfVars(ConfigSupported)

Spec == Init /\ [][Next]_vfVars /\ Fairness

-----------------------------------------------------------------------------
(* Properties *)

TypeOK ==
  /\ ws \in {"none", "never", "open", "closing", "closed"}
  /\ buffer \in Messages(BOOLEAN)
  /\ {started, firstKeyFrameReceived, bufferInUse, noRestart} \subseteq BOOLEAN
  /\ decoder \in [state : {"unconfigured", "configured", "closed"},
                  keyRequired : BOOLEAN]
  /\ configSupported \in {"undefined", "yes", "no"}
  /\ Len(pending) <= MaxPending
  /\ errors \in 0 .. MaxErrors

Unspoilt(data) == \A i \in DOMAIN data : ~data[i].spoilt

Whole(chunk) ==
  \/ Len(chunk) = 1 /\ chunk[1].part = 1 /\ ~chunk[1].full
  \/ /\ Len(chunk) = 2 /\ chunk[1].part = 1 /\ chunk[2].part = 2
     /\ chunk[1].full /\ chunk[1].frame = chunk[2].frame

(***************************************************************************)
(* Whatever is decoded is one whole frame, but for the messages that came  *)
(* while isConfigSupported was awaited and the frame that was being put    *)
(* together at an error: no part is left behind in largeBuffers, or lost   *)
(* from it, when the decoder refuses a chunk and the rest of processChunk  *)
(* is not run, nor by the frames that follow an error.                     *)
(***************************************************************************)
WholeFrames == \A i \in DOMAIN handed : Unspoilt(handed[i]) => Whole(handed[i])

(***************************************************************************)
(* The decoder comes back after each of its errors, and after each of the  *)
(* configurations that cross: if keyframes that both tests know keep       *)
(* coming, the frame before being a small one, and the feed is not closed, *)
(* frames keep being decoded.  Of a camera whose keyframes are key chunks  *)
(* that isKeyFrame does not know (the baseline and the main profile of     *)
(* H264) nothing need ever be decoded.                                     *)
(***************************************************************************)
KeyAfterSmall ==
  Receive /\ buffer'.kind = "key" /\ IsStartFrame(buffer) /\ ~IsFull(buffer)

KeepsDecoding ==
  []<><<KeyAfterSmall>>_vfVars => []<>(handed # << >>)

(***************************************************************************)
(* Why the frames are whole.  What is put together is the newest frame, as *)
(* far as it has come; or a rest whose start was dropped with a chunk that *)
(* the decoder refused, and which it will refuse then too, since it waits  *)
(* for a key.                                                              *)
(***************************************************************************)
NeedsKey == decoder.state = "configured" => decoder.keyRequired

PutTogether ==
  largeBuffers # << >> /\ Unspoilt(largeBuffers) =>
    /\ bufferInUse /\ firstKeyFrameReceived /\ pending = << >>
    /\ \/ largeBuffers = <<buffer>> /\ buffer.part = 1 /\ buffer.full
       \/ largeBuffers = <<largeBuffers[1], buffer>> /\ Whole(largeBuffers)
       \/ largeBuffers = <<buffer>> /\ buffer.part = 2 /\ NeedsKey

StartDropped ==
  /\ bufferInUse /\ firstKeyFrameReceived
  /\ pending = << >> /\ largeBuffers = << >>
  /\ buffer.part = 1 /\ buffer.full /\ ~buffer.spoilt
  => NeedsKey

\* What a call that waits has, and goes on with: the newest message, or a spoilt one.
CallIsOf(call, newest) ==
  /\ call.data # << >>
  /\ Unspoilt(call.data) => Whole(call.data) \/ call.data[1].part = 2
  /\ call.rest = << >> => newest.spoilt \/ ~newest.full
  /\ call.rest # << >> =>
       /\ Len(call.rest) = 1 /\ call.rest[1].part = 1
       /\ newest.spoilt \/ call.rest[1] = newest

\* Only the call for the newest message waits, unless that came while others did.
CallsWait ==
  /\ ~buffer.spoilt /\ pending # << >> =>
       Len(pending) = 1 /\ decoder.state # "configured" /\ firstKeyFrameReceived
  /\ \A i \in DOMAIN pending : CallIsOf(pending[i], buffer)

Data == Seq(Messages(BOOLEAN))
IInv ==
  /\ TypeOK
  /\ largeBuffers \in Data /\ pending \in Seq([data : Data, rest : Data])
  /\ PutTogether /\ StartDropped /\ CallsWait /\ WholeFrames
=============================================================================
