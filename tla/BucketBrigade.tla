--------------------------- MODULE BucketBrigade ---------------------------
(***************************************************************************)
(* The bucket brigade of the low latency media server: the ring that       *)
(* delays a camera's recording stream, so that a recording triggered now   *)
(* starts with some preamble (low-latency-media-server/bucket-brigade.go), *)
(* with the GOP cache at its output (gop-cache.go) and the feeders that    *)
(* the HTTP clients of ServeHTTPStream read (http.go).                     *)
(*                                                                         *)
(* Input, CreateFeeder and DestroyFeeder hold bb.mutex from end to end, so *)
(* each is one step; Get takes no lock and may fall between any two of     *)
(* them.  A packet is the number of the Input call that brought it.        *)
(***************************************************************************)
EXTENDS Integers, Sequences

CONSTANTS
  CacheLength,     \* slots of the ring: 2500 in NewBucketBrigade
  GopCacheLength,  \* packets the GOP cache takes: 849 in NewGopCache
  FeedCapacity,    \* capacity of a feeder's pktFeed channel: 300
  PreambleTime,    \* delayTime, the seconds of delay the stream is configured with
  Feeders,         \* identities of the feeders (one HTTP connection each)
  MaxPackets       \* bound of the model: the number of packets put in

ASSUME BucketBrigadeAssumption ==
  /\ CacheLength \in Nat \ {0, 1}
  /\ GopCacheLength \in Nat \ {0}
  /\ FeedCapacity \in Nat \ {0}
  /\ PreambleTime \in Nat
  /\ MaxPackets \in Nat

VARIABLES
  Cache,        \* the ring
  inputIndex,   \* where the next packet goes; CacheLength is out of range
  cacheInUse,   \* the delay, in packets, fixed when the ring starts
  started,      \* the delay has been reached and packets are being output
  inputs,       \* number of packets the ring has taken, hence the next one's number
  keyFrames,    \* the packets isFlvKeyFrame is true of
  gopCache,     \* Cache[:inputIndex] of the GOP cache at the output
  producer,     \* the POST handler that calls Input: an error of Input ends it
  feeders,      \* bb.feeders, in its order
  phase,        \* of each feeder's connection
  snapshot,     \* what is left in each feeder's GOP cache snapshot
  pktFeed,      \* each feeder's channel
  missed,       \* the feeders a packet found the channel of full ("Missed packet")
  delivered     \* what Get has returned to each feeder's connection

ringVars == <<Cache, inputIndex, cacheInUse, started, inputs, keyFrames>>
feederVars == <<feeders, phase, snapshot, pktFeed, missed, delivered>>
vars == <<ringVars, gopCache, producer, feederVars>>

Blank == -1     \* the zero Packet of a slot never written
Slots == 0 .. CacheLength - 1
Packets == 0 .. MaxPackets
Phases == {"none", "waiting", "writing", "gone"}

(***************************************************************************)
(* Go's % takes the sign of the dividend; mod() makes it a true modulus.   *)
(***************************************************************************)
GoRem(a, b) == IF a < 0 THEN -((-a) % b) ELSE a % b
Mod(a, b) == GoRem(GoRem(a, b) + b, b)

Attached == {feeders[i] : i \in DOMAIN feeders}

Init ==
  /\ Cache = [i \in Slots |-> Blank]
  /\ inputIndex = 0
  /\ cacheInUse = 0
  /\ started = FALSE
  /\ inputs = 0
  /\ keyFrames = {}
  /\ gopCache = << >>
  /\ producer = "feeding"
  /\ feeders = << >>
  /\ phase = [f \in Feeders |-> "none"]
  /\ snapshot = [f \in Feeders |-> << >>]
  /\ pktFeed = [f \in Feeders |-> << >>]
  /\ missed = {}
  /\ delivered = [f \in Feeders |-> << >>]

-----------------------------------------------------------------------------
(* Input: the POST handler puts one packet in. *)

Arrives(key) ==
  /\ producer = "feeding"
  /\ inputs < MaxPackets
  /\ keyFrames' = IF key THEN keyFrames \union {inputs} ELSE keyFrames

Stored == [Cache EXCEPT ![inputIndex] = inputs]

(***************************************************************************)
(* Filling the ring: it starts when the preamble time is up or when the    *)
(* ring is full.  startTime is taken at the first packet, so time can only *)
(* be up then if no delay was asked for.                                   *)
(***************************************************************************)
SetCacheSizeCountsPackets(timeUp) ==  \* mutant: the count, not the index
  LET start == inputIndex + 1 >= CacheLength \/ timeUp
  IN  /\ started' = start
      /\ cacheInUse' = IF start THEN inputIndex + 1 ELSE cacheInUse

SetCacheSizeFromDelayTime(timeUp) ==
  LET start == inputIndex + 1 >= CacheLength \/ timeUp
  IN  /\ started' = start
      /\ cacheInUse' = IF start THEN inputIndex ELSE cacheInUse

Fill(key, timeUp) ==
  /\ Arrives(key)
  /\ ~started
  /\ inputIndex \in Slots
  /\ timeUp => inputIndex > 0 \/ PreambleTime = 0
  /\ Cache' = Stored
  /\ SetCacheSizeFromDelayTime(timeUp)
  /\ inputIndex' = inputIndex + 1
  /\ inputs' = inputs + 1
  /\ UNCHANGED <<gopCache, producer, feederVars>>

OpIdxOneLate == Mod(inputIndex - cacheInUse + 1, CacheLength)  \* mutant

OpIdx == Mod(inputIndex - cacheInUse, CacheLength)

Output == Stored[OpIdx]

IsKey(p) == p \in keyFrames'

(* A keyframe restarts the GOP cache; a full GOP cache takes no packet. *)
GopBefore(p) == IF IsKey(p) THEN << >> ELSE gopCache

GopAccepts(p) == Len(GopBefore(p)) < GopCacheLength

(* Every feeder attached is sent the packet, unless its channel is full. *)
SendToFeeders(p) ==
  LET full == {f \in Attached : Len(pktFeed[f]) >= FeedCapacity}
  IN  /\ pktFeed' = [f \in Feeders |-> IF f \in Attached \ full
                                       THEN Append(pktFeed[f], p)
                                       ELSE pktFeed[f]]
      /\ missed' = missed \union full

NextIndexSkipsLastSlot ==  \* mutant: wraps one slot early
  IF inputIndex < CacheLength - 2 THEN inputIndex + 1 ELSE 0

NextIndex == IF inputIndex < CacheLength - 1 THEN inputIndex + 1 ELSE 0

RelayForgetsOldest(key) ==  \* mutant: a full GOP cache drops its oldest packet
  /\ Arrives(key)
  /\ started
  /\ inputIndex \in Slots
  /\ Cache' = Stored
  /\ gopCache' = IF GopAccepts(Output) THEN Append(GopBefore(Output), Output)
                 ELSE Append(Tail(gopCache), Output)
  /\ SendToFeeders(Output)
  /\ inputIndex' = NextIndex
  /\ inputs' = inputs + 1
  /\ UNCHANGED <<cacheInUse, started, producer, feeders, phase, snapshot, delivered>>

Relay(key) ==
  /\ Arrives(key)
  /\ started
  /\ inputIndex \in Slots
  /\ GopAccepts(Output)
  /\ Cache' = Stored
  /\ gopCache' = Append(GopBefore(Output), Output)
  /\ SendToFeeders(Output)
  /\ inputIndex' = NextIndex
  /\ inputs' = inputs + 1
  /\ UNCHANGED <<cacheInUse, started, producer, feeders, phase, snapshot, delivered>>

(***************************************************************************)
(* The GOP cache is full: Input returns its error, which put and the POST  *)
(* handler pass on by ending the stream.                                   *)
(***************************************************************************)
GopCacheFull(key) ==
  /\ Arrives(key)
  /\ started
  /\ inputIndex \in Slots
  /\ ~GopAccepts(Output)
  /\ Cache' = Stored
  /\ gopCache' = GopBefore(Output)
  /\ producer' = "failed"
  /\ UNCHANGED <<inputIndex, cacheInUse, started, inputs, feederVars>>

(* The store into bb.Cache panics; gin recovers and the handler is over. *)
IndexOutOfRange ==
  /\ producer = "feeding"
  /\ inputs < MaxPackets
  /\ inputIndex \notin Slots
  /\ producer' = "panicked"
  /\ UNCHANGED <<ringVars, gopCache, feederVars>>

(* The read of the request body fails or returns nothing. *)
ProducerCloses ==
  /\ producer = "feeding"
  /\ producer' = "closed"
  /\ UNCHANGED <<ringVars, gopCache, feederVars>>

-----------------------------------------------------------------------------
(* ServeHTTPStream: one feeder per connection. *)

CreateFeederUnprimed(f) ==  \* mutant: no GOP cache snapshot
  /\ phase[f] = "none"
  /\ started
  /\ feeders' = Append(feeders, f)
  /\ phase' = [phase EXCEPT ![f] = "waiting"]
  /\ UNCHANGED <<ringVars, gopCache, producer, snapshot, pktFeed, missed, delivered>>

CreateFeeder(f) ==
  /\ phase[f] = "none"
  /\ started
  /\ snapshot' = [snapshot EXCEPT ![f] = gopCache]
  /\ feeders' = Append(feeders, f)
  /\ phase' = [phase EXCEPT ![f] = "waiting"]
  /\ UNCHANGED <<ringVars, gopCache, producer, pktFeed, missed, delivered>>

GetLiveFirst(f) ==  \* mutant: the channel before the snapshot
  /\ phase[f] = "waiting"
  /\ \/ /\ pktFeed[f] # << >>
        /\ delivered' = [delivered EXCEPT ![f] = Append(@, Head(pktFeed[f]))]
        /\ pktFeed' = [pktFeed EXCEPT ![f] = Tail(@)]
        /\ UNCHANGED snapshot
     \/ /\ pktFeed[f] = << >>
        /\ snapshot[f] # << >>
        /\ delivered' = [delivered EXCEPT ![f] = Append(@, Head(snapshot[f]))]
        /\ snapshot' = [snapshot EXCEPT ![f] = Tail(@)]
        /\ UNCHANGED pktFeed
  /\ phase' = [phase EXCEPT ![f] = "writing"]
  /\ UNCHANGED <<ringVars, gopCache, producer, feeders, missed>>

(* Get takes what is left of the snapshot first, and blocks on the channel. *)
Get(f) ==
  /\ phase[f] = "waiting"
  /\ \/ /\ snapshot[f] # << >>
        /\ delivered' = [delivered EXCEPT ![f] = Append(@, Head(snapshot[f]))]
        /\ snapshot' = [snapshot EXCEPT ![f] = Tail(@)]
        /\ UNCHANGED pktFeed
     \/ /\ snapshot[f] = << >>
        /\ pktFeed[f] # << >>
        /\ delivered' = [delivered EXCEPT ![f] = Append(@, Head(pktFeed[f]))]
        /\ pktFeed' = [pktFeed EXCEPT ![f] = Tail(@)]
        /\ UNCHANGED snapshot
  /\ phase' = [phase EXCEPT ![f] = "writing"]
  /\ UNCHANGED <<ringVars, gopCache, producer, feeders, missed>>

WriteSucceeds(f) ==
  /\ phase[f] = "writing"
  /\ phase' = [phase EXCEPT ![f] = "waiting"]
  /\ UNCHANGED <<ringVars, gopCache, producer, feeders, snapshot, pktFeed, missed, delivered>>

DropLast(s, i) == SubSeq(s, 1, Len(s) - 1)  \* mutant: no swap before the drop

(* The last element takes the place of the i-th, which is dropped. *)
SwapOut(s, i) == SubSeq([s EXCEPT ![i] = s[Len(s)]], 1, Len(s) - 1)

(* The write fails and the handler's deferred call empties the channel. *)
DestroyFeeder(f) ==
  /\ phase[f] = "writing"
  /\ \E i \in DOMAIN feeders :
       /\ feeders[i] = f
       /\ feeders' = SwapOut(feeders, i)
  /\ pktFeed' = [pktFeed EXCEPT ![f] = << >>]
  /\ phase' = [phase EXCEPT ![f] = "gone"]
  /\ UNCHANGED <<ringVars, gopCache, producer, snapshot, missed, delivered>>

-----------------------------------------------------------------------------
Input ==
  \/ \E key, timeUp \in BOOLEAN : Fill(key, timeUp)
  \/ \E key \in BOOLEAN : Relay(key)
  \/ \E key \in BOOLEAN : GopCacheFull(key)
  \/ IndexOutOfRange

Connection(f) ==
  CreateFeeder(f) \/ Get(f) \/ WriteSucceeds(f) \/ DestroyFeeder(f)

Next ==
  \/ Input
  \/ ProducerCloses
  \/ \E f \in Feeders : Connection(f)

Spec == Init /\ [][Next]_vars
-----------------------------------------------------------------------------
(* Properties. *)

(***************************************************************************)
(* Every variable has its type, inputIndex included: one past the ring is  *)
(* a value it takes.                                                       *)
(***************************************************************************)
TypeOK ==
  /\ Cache \in [Slots -> Packets \union {Blank}]
  /\ inputIndex \in 0 .. CacheLength
  /\ cacheInUse \in Slots
  /\ started \in BOOLEAN
  /\ inputs \in Packets
  /\ keyFrames \in SUBSET Packets
  /\ gopCache \in Seq(Packets)
  /\ producer \in {"feeding", "failed", "panicked", "closed"}
  /\ feeders \in Seq(Feeders)
  /\ phase \in [Feeders -> Phases]
  /\ snapshot \in [Feeders -> Seq(Packets)]
  /\ pktFeed \in [Feeders -> Seq(Packets)]
  /\ missed \in SUBSET Feeders
  /\ delivered \in [Feeders -> Seq(Packets)]

(***************************************************************************)
(* The newest packet output.  It is cacheInUse packets older than the      *)
(* newest packet taken; the first packet taken is never output.            *)
(***************************************************************************)
Published == IF started THEN inputs - 1 - cacheInUse ELSE 0

Open(f) == phase[f] \in {"waiting", "writing"}

(* All that connection f has had and is due, in the order Get returns it. *)
Feed(f) == delivered[f] \o snapshot[f] \o pktFeed[f]

(***************************************************************************)
(* A feeder whose channel has never been full has lost nothing and been    *)
(* given nothing twice: what it has had and is due is an unbroken run of   *)
(* packets that ends with the newest one output, wherever CreateFeeder and *)
(* Get fell between the Inputs, and at the delay that was fixed at the     *)
(* start, however often the ring has wrapped.                              *)
(***************************************************************************)
FeedComplete ==
  \A f \in Feeders : Open(f) /\ f \notin missed =>
    \A i \in DOMAIN Feed(f) : Feed(f)[i] = Published - Len(Feed(f)) + i

(***************************************************************************)
(* Full channel or not, no connection is ever sent a packet twice or sent  *)
(* one that is older than one it has had.                                  *)
(***************************************************************************)
FeedOrdered ==
  \A f \in Feeders : \A i, j \in DOMAIN Feed(f) :
    i < j => Feed(f)[i] < Feed(f)[j]

(***************************************************************************)
(* A recording can be decoded from its first packet: it is a keyframe, or  *)
(* else no keyframe had been output when the feeder was created, and it is *)
(* the first packet ever output.                                           *)
(***************************************************************************)
FeedStartsWithKeyFrame ==
  \A f \in Feeders : Feed(f) # << >> => Feed(f)[1] \in keyFrames \union {1}

(***************************************************************************)
(* DestroyFeeder's swap with the last feeder detaches one connection and   *)
(* no other: bb.feeders holds each open connection's feeder exactly once.  *)
(***************************************************************************)
FeedersAttached ==
  /\ Attached = {f \in Feeders : Open(f)}
  /\ \A i, j \in DOMAIN feeders : feeders[i] = feeders[j] => i = j

(***************************************************************************)
(* While packets are put in, the ring holds the newest ones: below         *)
(* inputIndex those of this round, from it on those of the round before.   *)
(***************************************************************************)
RingHoldsNewest ==
  producer = "feeding" =>
    /\ \A k \in Slots : k < inputIndex => Cache[k] = inputs - inputIndex + k
    /\ inputs # inputIndex => \A k \in inputIndex .. CacheLength - 1 :
         Cache[k] = inputs - inputIndex + k - CacheLength

(* How far the ring has got; a ring that filled up first stands past its end. *)
RingProgress ==
  /\ ~started => inputs = inputIndex /\ cacheInUse = 0 /\ gopCache = << >>
  /\ started => /\ inputs > cacheInUse
                /\ inputs = inputIndex \/ (inputs >= CacheLength /\ inputIndex \in Slots)
                /\ inputIndex = CacheLength => cacheInUse = CacheLength - 1

(* The GOP cache is a run of packets up to the newest one output. *)
GopIsRun ==
  /\ Len(gopCache) <= Published
  /\ \A i \in DOMAIN gopCache : gopCache[i] = Published - Len(gopCache) + i
  /\ IF gopCache = << >> THEN Published = 0 ELSE gopCache[1] \in keyFrames \union {1}

(* No feed runs ahead of the output; a feed is empty before the output only. *)
FeedsFollow ==
  \A f \in Feeders :
    /\ \A i \in DOMAIN Feed(f) : Feed(f)[i] \in 1 .. Published
    /\ Open(f) => started
    /\ Open(f) /\ Feed(f) = << >> => Published = 0
    /\ phase[f] = "none" => Feed(f) = << >>

(* The inductive invariant the properties above are proved from. *)
IInv ==
  /\ TypeOK
  /\ RingHoldsNewest
  /\ RingProgress
  /\ GopIsRun
  /\ FeedsFollow
  /\ FeedComplete
  /\ FeedOrdered
  /\ FeedStartsWithKeyFrame
  /\ FeedersAttached

(***************************************************************************)
(* "Using bucket brigade cachLength as indexLimit" (bucket-brigade.go:57): *)
(* a ring filled before the preamble time is up goes on at its full        *)
(* length.                                                                 *)
(***************************************************************************)
FullRingGoesOn == producer # "panicked"

(***************************************************************************)
(* The brigade is a PreambleFeed: the packet next due to a client is the   *)
(* first of its snapshot, then of its channel.                             *)
(***************************************************************************)
Due(f) == snapshot[f] \o pktFeed[f]

Cursor(f) ==
  CASE phase[f] = "none" -> 0
    [] phase[f] = "gone" -> IF delivered[f] = << >> THEN 1
                            ELSE delivered[f][Len(delivered[f])] + 1
    [] OTHER -> IF f \in missed /\ delivered[f] # << >>
                THEN delivered[f][Len(delivered[f])] + 1
                ELSE IF Due(f) = << >> THEN Published + 1 ELSE Due(f)[1]

GopStart == IF gopCache = << >> THEN Published + 1 ELSE gopCache[1]

Preamble == INSTANCE PreambleFeed WITH
  Clients <- Feeders,
  published <- Published,
  gopStart <- GopStart,
  lagging <- missed,
  cursor <- [f \in Feeders |-> Cursor(f)]

ImplementsPreambleFeed == Preamble!Spec
=============================================================================
