------------------------ MODULE BucketBrigadeProofs ------------------------
(***************************************************************************)
(* Proofs about the bucket brigade, for every size of the ring, the GOP    *)
(* cache and the channels, and every number of feeders and packets.        *)
(***************************************************************************)
EXTENDS BucketBrigade, SequenceTheorems, TLAPS

(***************************************************************************)
(* mod() of bucket-brigade.go is the true modulus on the values Input      *)
(* gives it.                                                               *)
(***************************************************************************)
LEMMA ModInRange ==
  ASSUME NEW b \in Nat \ {0}, NEW a \in Int, -b < a, a < b
  PROVE  Mod(a, b) = IF a < 0 THEN a + b ELSE a
<1>1. ASSUME NEW c \in Int, 0 <= c, c < b PROVE c % b = c
  BY <1>1
<1>2. CASE a < 0
  <2>1. GoRem(a, b) = a
    BY <1>1, <1>2 DEF GoRem
  <2>2. GoRem(a + b, b) = a + b
    BY <1>1, <1>2 DEF GoRem
  <2>. QED  BY <1>2, <2>1, <2>2 DEF Mod
<1>3. CASE a >= 0
  <2>1. GoRem(a, b) = a
    BY <1>1, <1>3 DEF GoRem
  <2>2. (a + b) % b = a
    BY <1>3
  <2>3. GoRem(a + b, b) = a
    BY <1>3, <2>2 DEF GoRem
  <2>. QED  BY <1>3, <2>1, <2>3 DEF Mod
<1>. QED  BY <1>2, <1>3

(* Moving the head of what is due to what was delivered changes no feed. *)
LEMMA TakeFromMiddle ==
  ASSUME NEW S, NEW d \in Seq(S), NEW s \in Seq(S), NEW p \in Seq(S), s # << >>
  PROVE  Append(d, Head(s)) \o Tail(s) \o p = d \o s \o p
<1>1. Append(d, Head(s)) \o Tail(s) = d \o s
  OBVIOUS
<1>. QED  BY <1>1

(* The same when the snapshot is used up and the head is the channel's. *)
LEMMA TakeFromEnd ==
  ASSUME NEW S, NEW d \in Seq(S), NEW p \in Seq(S), p # << >>
  PROVE  Append(d, Head(p)) \o << >> \o Tail(p) = d \o << >> \o p
OBVIOUS

(* A packet sent to a channel is the last of the feed. *)
LEMMA SendIsAppend ==
  ASSUME NEW S, NEW d \in Seq(S), NEW s \in Seq(S), NEW p \in Seq(S), NEW x \in S
  PROVE  d \o s \o Append(p, x) = Append(d \o s \o p, x)
OBVIOUS

(* What Append does to a run that ends with p - 1, and to its order and bound. *)
LEMMA RunAppend ==
  ASSUME NEW S, NEW s \in Seq(S), NEW p \in S, p \in Nat,
         \A i \in DOMAIN s : s[i] = p - 1 - Len(s) + i
  PROVE  \A i \in DOMAIN Append(s, p) : Append(s, p)[i] = p - Len(Append(s, p)) + i
<1>1. /\ Len(Append(s, p)) = Len(s) + 1 /\ DOMAIN Append(s, p) = 1 .. Len(s) + 1
      /\ DOMAIN s = 1 .. Len(s) /\ Len(s) \in Nat
      /\ \A i \in 1 .. Len(s) : Append(s, p)[i] = s[i]
      /\ Append(s, p)[Len(s) + 1] = p
  BY AppendProperties
<1>. QED  BY <1>1

(* A packet newer than the last keeps a feed in order. *)
LEMMA OrderedAppend ==
  ASSUME NEW S, NEW s \in Seq(S), NEW p \in S, p \in Nat,
         \A i \in DOMAIN s : s[i] \in 1 .. p - 1,
         \A i, j \in DOMAIN s : i < j => s[i] < s[j]
  PROVE  \A i, j \in DOMAIN Append(s, p) : i < j => Append(s, p)[i] < Append(s, p)[j]
<1>1. /\ DOMAIN Append(s, p) = 1 .. Len(s) + 1
      /\ DOMAIN s = 1 .. Len(s) /\ Len(s) \in Nat
      /\ \A i \in 1 .. Len(s) : Append(s, p)[i] = s[i]
      /\ Append(s, p)[Len(s) + 1] = p
  BY AppendProperties
<1>. QED  BY <1>1

(* A packet published keeps the bound on a feed's packets. *)
LEMMA BoundedAppend ==
  ASSUME NEW S, NEW s \in Seq(S), NEW p \in S, p \in Nat, p >= 1,
         \A i \in DOMAIN s : s[i] \in 1 .. p - 1
  PROVE  \A i \in DOMAIN Append(s, p) : Append(s, p)[i] \in 1 .. p
<1>1. /\ DOMAIN Append(s, p) = 1 .. Len(s) + 1
      /\ DOMAIN s = 1 .. Len(s) /\ Len(s) \in Nat
      /\ \A i \in 1 .. Len(s) : Append(s, p)[i] = s[i]
      /\ Append(s, p)[Len(s) + 1] = p
  BY AppendProperties
<1>. QED  BY <1>1

-----------------------------------------------------------------------------
(***************************************************************************)
(* Type correctness, for every value of the constants: inputIndex never    *)
(* leaves 0 .. CacheLength, the delay always fits the ring, and every      *)
(* packet in a cache, a snapshot or a channel is one that was put in.      *)
(***************************************************************************)
LEMMA OutputIsTyped ==
  ASSUME TypeOK, inputs < MaxPackets, inputIndex \in Slots, RingProgress, started
  PROVE  OpIdx \in Slots
<1>1. /\ inputIndex \in Int
      /\ cacheInUse \in Int
      /\ inputIndex - cacheInUse \in Int
      /\ -CacheLength < inputIndex - cacheInUse
      /\ inputIndex - cacheInUse < CacheLength
      /\ CacheLength \in Nat \ {0}
  BY BucketBrigadeAssumption DEF TypeOK, Slots
<1>2. OpIdx = IF inputIndex - cacheInUse < 0
              THEN inputIndex - cacheInUse + CacheLength
              ELSE inputIndex - cacheInUse
  BY <1>1, ModInRange DEF OpIdx
<1>. QED  BY <1>1, <1>2, BucketBrigadeAssumption DEF Slots

(***************************************************************************)
(* The packet the ring outputs is the one taken cacheInUse packets ago,    *)
(* whether or not the ring has wrapped since.                              *)
(***************************************************************************)
LEMMA OutputIsDelayed ==
  ASSUME TypeOK, RingHoldsNewest, RingProgress,
         producer = "feeding", inputs < MaxPackets, started, inputIndex \in Slots
  PROVE  /\ Output = inputs - cacheInUse
         /\ Output \in Packets
         /\ Output >= 1
<1>1. /\ inputIndex \in Int
      /\ cacheInUse \in Slots
      /\ inputs \in Nat
      /\ inputs > cacheInUse
      /\ -CacheLength < inputIndex - cacheInUse
      /\ inputIndex - cacheInUse < CacheLength
      /\ CacheLength \in Nat \ {0}
  BY BucketBrigadeAssumption DEF TypeOK, Slots, Packets, RingProgress
<1>2. OpIdx = IF inputIndex - cacheInUse < 0
              THEN inputIndex - cacheInUse + CacheLength
              ELSE inputIndex - cacheInUse
  BY <1>1, ModInRange DEF OpIdx, Slots
<1>3. Output = IF OpIdx = inputIndex THEN inputs ELSE Cache[OpIdx]
  BY <1>1, <1>2, BucketBrigadeAssumption DEF Output, Stored, TypeOK, Slots
<1>4. CASE inputIndex >= cacheInUse
  BY <1>1, <1>2, <1>3, <1>4, BucketBrigadeAssumption
     DEF RingHoldsNewest, Slots, TypeOK, Packets
<1>5. CASE inputIndex < cacheInUse
  <2>1. OpIdx \in inputIndex .. CacheLength - 1 /\ OpIdx # inputIndex
    BY <1>1, <1>2, <1>5 DEF Slots
  <2>2. inputs # inputIndex
    BY <1>1, <1>5 DEF Slots
  <2>3. Cache[OpIdx] = inputs - inputIndex + OpIdx - CacheLength
    BY <2>1, <2>2 DEF RingHoldsNewest
  <2>. QED
    BY <1>1, <1>2, <1>3, <1>5, <2>1, <2>3, BucketBrigadeAssumption
       DEF Slots, TypeOK, Packets
<1>. QED  BY <1>1, <1>4, <1>5 DEF Slots

(* NewBucketBrigade establishes the invariant. *)
LEMMA InitInv == Init => IInv
<1>. SUFFICES ASSUME Init PROVE IInv
  OBVIOUS
<1>. USE BucketBrigadeAssumption DEF Init
<1>1. TypeOK
  <2>1. Cache \in [Slots -> Packets \union {Blank}]
    OBVIOUS
  <2>2. inputIndex \in 0 .. CacheLength /\ cacheInUse \in Slots /\ inputs \in Packets
    BY DEF Slots, Packets
  <2>3. gopCache \in Seq(Packets) /\ feeders \in Seq(Feeders)
    OBVIOUS
  <2>4. phase \in [Feeders -> Phases]
    BY DEF Phases
  <2>5. /\ snapshot \in [Feeders -> Seq(Packets)]
        /\ pktFeed \in [Feeders -> Seq(Packets)]
        /\ delivered \in [Feeders -> Seq(Packets)]
    OBVIOUS
  <2>6. started \in BOOLEAN /\ keyFrames \in SUBSET Packets /\ missed \in SUBSET Feeders
    OBVIOUS
  <2>. QED  BY <2>1, <2>2, <2>3, <2>4, <2>5, <2>6 DEF TypeOK
<1>2. RingHoldsNewest /\ RingProgress /\ GopIsRun
  BY DEF RingHoldsNewest, RingProgress, GopIsRun, Slots, Published
<1>3. \A f \in Feeders : Feed(f) = << >> /\ ~Open(f)
  BY DEF Feed, Open
<1>4. FeedsFollow /\ FeedComplete /\ FeedOrdered /\ FeedStartsWithKeyFrame
  BY <1>3 DEF FeedsFollow, FeedComplete, FeedOrdered, FeedStartsWithKeyFrame
<1>5. FeedersAttached
  BY <1>3 DEF FeedersAttached, Attached
<1>. QED  BY <1>1, <1>2, <1>4, <1>5 DEF IInv

-----------------------------------------------------------------------------
(* Each step preserves the invariant. *)

(* A step that changes what no feed holds and what is output disturbs no feed. *)
LEMMA SameFeeds ==
  ASSUME IInv, UNCHANGED <<feeders, missed>>, Published' = Published,
         keyFrames \subseteq keyFrames', started => started',
         \A f \in Feeders : /\ Feed(f)' = Feed(f) /\ Open(f)' = Open(f)
                            /\ phase'[f] = "none" => phase[f] = "none"
  PROVE  /\ FeedsFollow'
         /\ FeedComplete'
         /\ FeedOrdered'
         /\ FeedStartsWithKeyFrame'
         /\ FeedersAttached'
<1>1. Attached' = Attached
  BY DEF Attached
<1>2. FeedsFollow'
  BY DEF IInv, FeedsFollow
<1>3. FeedComplete' /\ FeedOrdered'
  BY DEF IInv, FeedComplete, FeedOrdered
<1>4. FeedStartsWithKeyFrame'
  BY DEF IInv, FeedStartsWithKeyFrame
<1>5. FeedersAttached'
  BY <1>1 DEF IInv, FeedersAttached
<1>. QED  BY <1>2, <1>3, <1>4, <1>5

(* What feeders are due depends on their snapshots and channels alone. *)
LEMMA FeedsUnchanged ==
  ASSUME IInv, UNCHANGED feederVars, Published' = Published,
         keyFrames \subseteq keyFrames', started => started'
  PROVE  /\ FeedsFollow'
         /\ FeedComplete'
         /\ FeedOrdered'
         /\ FeedStartsWithKeyFrame'
         /\ FeedersAttached'
<1>1. \A f \in Feeders : Feed(f)' = Feed(f) /\ Open(f)' = Open(f)
  BY DEF feederVars, Feed, Open
<1>. QED  BY <1>1, SameFeeds DEF feederVars

(* Input, while the ring is filling. *)
LEMMA FillInv ==
  ASSUME IInv, NEW key \in BOOLEAN, NEW timeUp \in BOOLEAN, Fill(key, timeUp)
  PROVE  IInv'
<1>. USE BucketBrigadeAssumption
<1>1. /\ inputs \in Nat /\ inputs < MaxPackets /\ inputs' = inputs + 1
      /\ inputIndex \in Slots /\ inputIndex' = inputIndex + 1
      /\ inputs = inputIndex /\ cacheInUse = 0 /\ gopCache = << >> /\ ~started
      /\ Cache' = [Cache EXCEPT ![inputIndex] = inputs]
      /\ producer = "feeding" /\ UNCHANGED <<gopCache, producer, feederVars>>
  BY DEF IInv, TypeOK, RingProgress, Fill, Arrives, Stored, Packets
<1>2. /\ started' \in BOOLEAN
      /\ cacheInUse' = IF started' THEN inputIndex ELSE cacheInUse
      /\ inputIndex + 1 >= CacheLength => started'
  BY DEF Fill, SetCacheSizeFromDelayTime
<1>3. keyFrames \subseteq keyFrames' /\ keyFrames' \in SUBSET Packets
  BY <1>1 DEF IInv, TypeOK, Fill, Arrives, Packets
<1>4. Published = 0 /\ Published' = 0
  BY <1>1, <1>2 DEF Published, Slots
<1>5. TypeOK'
  <2>1. Cache' \in [Slots -> Packets \union {Blank}]
    BY <1>1 DEF IInv, TypeOK, Packets
  <2>2. inputIndex' \in 0 .. CacheLength /\ inputs' \in Packets /\ cacheInUse' \in Slots
    BY <1>1, <1>2 DEF Slots, Packets
  <2>. QED  BY <1>1, <1>2, <1>3, <2>1, <2>2 DEF IInv, TypeOK, feederVars
<1>6. RingHoldsNewest'
  BY <1>1 DEF IInv, TypeOK, RingHoldsNewest, Slots
<1>7. RingProgress'
  BY <1>1, <1>2 DEF RingProgress, Slots
<1>8. GopIsRun'
  BY <1>1, <1>4 DEF GopIsRun
<1>. QED  BY <1>1, <1>3, <1>4, <1>5, <1>6, <1>7, <1>8, FeedsUnchanged DEF IInv

(* The three ways in which the POST handler comes to its end. *)
LEMMA ProducerEndsInv ==
  ASSUME IInv,
         (\E key \in BOOLEAN : GopCacheFull(key)) \/ IndexOutOfRange \/ ProducerCloses
  PROVE  IInv'
<1>. USE BucketBrigadeAssumption
<1>1. ASSUME NEW key \in BOOLEAN, GopCacheFull(key) PROVE IInv'
  <2>1. /\ producer = "feeding" /\ inputs < MaxPackets /\ started /\ inputIndex \in Slots
        /\ producer' = "failed" /\ ~GopAccepts(Output) /\ gopCache' = GopBefore(Output)
        /\ Cache' = Stored
        /\ UNCHANGED <<inputIndex, cacheInUse, started, inputs, feederVars>>
    BY <1>1 DEF GopCacheFull, Arrives
  <2>2. gopCache' = gopCache
    BY <2>1 DEF GopAccepts, GopBefore
  <2>3. keyFrames \subseteq keyFrames' /\ keyFrames' \in SUBSET Packets
    BY <1>1 DEF IInv, TypeOK, GopCacheFull, Arrives, Packets
  <2>4. Published' = Published
    BY <2>1 DEF Published
  <2>5. Cache' \in [Slots -> Packets \union {Blank}]
    BY <2>1 DEF IInv, TypeOK, Stored, Packets
  <2>6. TypeOK'
    BY <2>1, <2>2, <2>3, <2>5 DEF IInv, TypeOK, feederVars
  <2>7. RingHoldsNewest' /\ RingProgress'
    BY <2>1, <2>2 DEF IInv, RingHoldsNewest, RingProgress
  <2>8. GopIsRun'
    BY <2>2, <2>3, <2>4 DEF IInv, GopIsRun
  <2>. QED  BY <2>1, <2>3, <2>4, <2>6, <2>7, <2>8, FeedsUnchanged DEF IInv
<1>2. ASSUME IndexOutOfRange \/ ProducerCloses PROVE IInv'
  <2>1. /\ producer' \in {"panicked", "closed"}
        /\ UNCHANGED <<ringVars, gopCache, feederVars>>
    BY <1>2 DEF IndexOutOfRange, ProducerCloses
  <2>2. Published' = Published /\ keyFrames' = keyFrames /\ started' = started
    BY <2>1 DEF Published, ringVars
  <2>3. TypeOK'
    BY <2>1 DEF IInv, TypeOK, ringVars, feederVars
  <2>4. RingHoldsNewest' /\ RingProgress'
    BY <2>1 DEF IInv, RingHoldsNewest, RingProgress, ringVars
  <2>5. GopIsRun'
    BY <2>1, <2>2 DEF IInv, GopIsRun
  <2>. QED  BY <2>1, <2>2, <2>3, <2>4, <2>5, FeedsUnchanged DEF IInv
<1>. QED  BY <1>1, <1>2

(***************************************************************************)
(* Relay outputs one packet: it becomes the newest of the GOP cache and of *)
(* each feed whose channel has room.                                       *)
(***************************************************************************)
LEMMA RelayInv ==
  ASSUME IInv, NEW key \in BOOLEAN, Relay(key)
  PROVE  IInv'
<1>. USE BucketBrigadeAssumption
<1>1. /\ producer = "feeding" /\ inputs \in Nat /\ inputs < MaxPackets /\ inputs' = inputs + 1
      /\ started /\ inputIndex \in Slots /\ inputIndex' = NextIndex
      /\ Cache' = [Cache EXCEPT ![inputIndex] = inputs]
      /\ GopAccepts(Output) /\ gopCache' = Append(GopBefore(Output), Output)
      /\ SendToFeeders(Output)
      /\ UNCHANGED <<cacheInUse, started, producer, feeders, phase, snapshot, delivered>>
  BY DEF IInv, TypeOK, Relay, Arrives, Stored, Packets
<1>2. keyFrames \subseteq keyFrames' /\ keyFrames' \in SUBSET Packets
  BY <1>1 DEF IInv, TypeOK, Relay, Arrives, Packets
<1>3. /\ Output = inputs - cacheInUse /\ Output \in Packets /\ Output >= 1
      /\ Published' = Output /\ Published = Output - 1
      /\ Output \in Nat /\ Published \in Nat /\ cacheInUse \in Slots
  BY <1>1, OutputIsDelayed DEF IInv, TypeOK, Published, Slots, Packets
<1>4. /\ inputIndex' \in Slots
      /\ inputIndex' = IF inputIndex < CacheLength - 1 THEN inputIndex + 1 ELSE 0
  BY <1>1 DEF NextIndex, Slots
<1>5. Cache' \in [Slots -> Packets \union {Blank}]
  BY <1>1 DEF IInv, TypeOK, Packets
<1>6. RingHoldsNewest'
  <2>1. /\ \A k \in Slots : k < inputIndex => Cache[k] = inputs - inputIndex + k
        /\ inputs # inputIndex => \A k \in inputIndex .. CacheLength - 1 :
             Cache[k] = inputs - inputIndex + k - CacheLength
        /\ \A k \in Slots : Cache'[k] = IF k = inputIndex THEN inputs ELSE Cache[k]
    BY <1>1 DEF IInv, TypeOK, RingHoldsNewest
  <2>2. CASE inputIndex < CacheLength - 1
    BY <1>1, <1>4, <2>1, <2>2 DEF RingHoldsNewest, Slots
  <2>3. CASE inputIndex = CacheLength - 1
    <3>1. inputIndex' = 0 /\ inputs' = inputs + 1
      BY <1>1, <1>4, <2>3 DEF Slots
    <3>2. ASSUME NEW k \in 0 .. CacheLength - 1
          PROVE  Cache'[k] = inputs + 1 + k - CacheLength
      BY <1>1, <2>1, <2>3 DEF Slots
    <3>. QED  BY <3>1, <3>2, <1>1 DEF RingHoldsNewest, Slots
  <2>. QED  BY <1>1, <2>2, <2>3 DEF Slots
<1>7. RingProgress'
  BY <1>1, <1>3, <1>4 DEF IInv, RingProgress, Slots
<1>8. GopBefore(Output) \in Seq(Packets)
  BY DEF IInv, TypeOK, GopBefore
<1>9. gopCache' \in Seq(Packets)
  BY <1>1, <1>3, <1>8
<1>10. GopIsRun'
  <2>1. CASE Output \in keyFrames'
    <3>1. gopCache' = << Output >>
      BY <1>1, <2>1 DEF GopBefore, IsKey
    <3>. QED  BY <1>3, <2>1, <3>1 DEF GopIsRun
  <2>2. CASE Output \notin keyFrames'
    <3>1. gopCache' = Append(gopCache, Output) /\ gopCache \in Seq(Packets)
      BY <1>1, <2>2 DEF GopBefore, IsKey, IInv, TypeOK
    <3>2. Len(gopCache') <= Published'
      BY <1>3, <3>1 DEF IInv, GopIsRun
    <3>3. \A i \in DOMAIN gopCache' : gopCache'[i] = Published' - Len(gopCache') + i
      <4>1. \A i \in DOMAIN gopCache : gopCache[i] = Output - 1 - Len(gopCache) + i
        BY <1>3 DEF IInv, GopIsRun
      <4>. QED  BY <1>3, <3>1, <4>1, RunAppend
    <3>4. gopCache' # << >> /\ gopCache'[1] \in keyFrames' \union {1}
      BY <1>2, <1>3, <3>1 DEF IInv, GopIsRun
    <3>. QED  BY <3>2, <3>3, <3>4 DEF GopIsRun
  <2>. QED  BY <2>1, <2>2
<1>11. DEFINE full == {f \in Attached : Len(pktFeed[f]) >= FeedCapacity}
<1>12. /\ pktFeed' = [f \in Feeders |-> IF f \in Attached \ full
                                        THEN Append(pktFeed[f], Output)
                                        ELSE pktFeed[f]]
       /\ missed' = missed \union full
       /\ full \subseteq Feeders
  BY <1>1 DEF SendToFeeders, IInv, FeedersAttached
<1>13. pktFeed' \in [Feeders -> Seq(Packets)]
  BY <1>3, <1>12 DEF IInv, TypeOK
<1>14. TypeOK'
  BY <1>1, <1>2, <1>3, <1>4, <1>5, <1>9, <1>12, <1>13 DEF IInv, TypeOK, Slots, Packets
<1>15. /\ Attached' = Attached
       /\ \A f \in Feeders : Open(f)' = Open(f)
       /\ \A f \in Feeders : f \in Attached <=> Open(f)
  BY <1>1 DEF Attached, Open, IInv, FeedersAttached
<1>16. ASSUME NEW f \in Feeders
       PROVE  /\ Feed(f) \in Seq(Packets)
              /\ Feed(f)' = IF f \in Attached \ full THEN Append(Feed(f), Output) ELSE Feed(f)
              /\ Feed(f) = << >> => pktFeed[f] = << >>
  <2>1. delivered[f] \in Seq(Packets) /\ snapshot[f] \in Seq(Packets) /\ pktFeed[f] \in Seq(Packets)
    BY DEF IInv, TypeOK
  <2>2. /\ delivered'[f] = delivered[f] /\ snapshot'[f] = snapshot[f]
        /\ pktFeed'[f] = IF f \in Attached \ full THEN Append(pktFeed[f], Output) ELSE pktFeed[f]
    BY <1>1, <1>12
  <2>3. Feed(f) = delivered[f] \o snapshot[f] \o pktFeed[f]
    BY DEF Feed
  <2>4. Feed(f)' = delivered[f] \o snapshot[f] \o pktFeed'[f]
    BY <2>2 DEF Feed
  <2>5. Feed(f) \in Seq(Packets) /\ (Feed(f) = << >> => pktFeed[f] = << >>)
    BY <2>1, <2>3
  <2>6. CASE f \in Attached \ full
    <3>1. pktFeed'[f] = Append(pktFeed[f], Output)
      BY <2>2, <2>6
    <3>2. delivered[f] \o snapshot[f] \o Append(pktFeed[f], Output)
            = Append(delivered[f] \o snapshot[f] \o pktFeed[f], Output)
      <4>1. \A d, s, p \in Seq(Packets), x \in Packets :
              d \o s \o Append(p, x) = Append(d \o s \o p, x)
        BY SendIsAppend
      <4>2. Output \in Packets
        BY <1>3
      <4>. QED  BY <4>1, <4>2, <2>1
    <3>. QED  BY <2>3, <2>4, <2>5, <2>6, <3>1, <3>2
  <2>7. CASE f \notin Attached \ full
    BY <2>2, <2>3, <2>4, <2>5, <2>7
  <2>. QED  BY <2>6, <2>7
<1>17. FeedsFollow'
  <2>. SUFFICES ASSUME NEW f \in Feeders
                PROVE  /\ \A i \in DOMAIN Feed(f)' : Feed(f)'[i] \in 1 .. Published'
                       /\ Open(f)' => started'
                       /\ Open(f)' /\ Feed(f)' = << >> => Published' = 0
                       /\ phase'[f] = "none" => Feed(f)' = << >>
    BY DEF FeedsFollow
  <2>1. \A i \in DOMAIN Feed(f)' : Feed(f)'[i] \in 1 .. Published'
    <3>1. \A i \in DOMAIN Feed(f) : Feed(f)[i] \in 1 .. Output - 1
      BY <1>3 DEF IInv, FeedsFollow
    <3>2. CASE f \in Attached \ full
      BY <1>3, <1>16, <3>1, <3>2, BoundedAppend
    <3>3. CASE f \notin Attached \ full
      BY <1>3, <1>16, <3>1, <3>3
    <3>. QED  BY <3>2, <3>3
  <2>2. Open(f)' => started' /\ Feed(f)' # << >>
    BY <1>1, <1>3, <1>15, <1>16 DEF IInv, FeedsFollow
  <2>3. phase'[f] = "none" => Feed(f)' = << >>
    BY <1>1, <1>15, <1>16 DEF IInv, FeedsFollow, Open
  <2>. QED  BY <2>1, <2>2, <2>3
<1>18. FeedComplete'
  <2>. SUFFICES ASSUME NEW f \in Feeders, Open(f)', f \notin missed'
                PROVE  \A i \in DOMAIN Feed(f)' : Feed(f)'[i] = Published' - Len(Feed(f)') + i
    BY DEF FeedComplete
  <2>1. f \in Attached \ full /\ Open(f) /\ f \notin missed
    BY <1>12, <1>15
  <2>2. \A i \in DOMAIN Feed(f) : Feed(f)[i] = Published - Len(Feed(f)) + i
    BY <2>1 DEF IInv, FeedComplete
  <2>3. Feed(f) \in Seq(Packets) /\ Feed(f)' = Append(Feed(f), Output)
    BY <1>16, <2>1
  <2>. QED  BY <1>3, <2>2, <2>3
<1>19. FeedOrdered'
  <2>. SUFFICES ASSUME NEW f \in Feeders
                PROVE  \A i, j \in DOMAIN Feed(f)' : i < j => Feed(f)'[i] < Feed(f)'[j]
    BY DEF FeedOrdered
  <2>1. \A i \in DOMAIN Feed(f) : Feed(f)[i] \in 1 .. Output - 1
    BY <1>3 DEF IInv, FeedsFollow
  <2>2. \A i, j \in DOMAIN Feed(f) : i < j => Feed(f)[i] < Feed(f)[j]
    BY DEF IInv, FeedOrdered
  <2>3. CASE f \in Attached \ full
    BY <1>3, <1>16, <2>1, <2>2, <2>3, OrderedAppend
  <2>4. CASE f \notin Attached \ full
    BY <1>16, <2>2, <2>4
  <2>. QED  BY <2>3, <2>4
<1>20. FeedStartsWithKeyFrame'
  <2>. SUFFICES ASSUME NEW f \in Feeders, Feed(f)' # << >>
                PROVE  Feed(f)'[1] \in keyFrames' \union {1}
    BY DEF FeedStartsWithKeyFrame
  <2>1. CASE Feed(f) = << >>
    <3>1. f \in Attached /\ Feed(f)' = Append(Feed(f), Output)
      BY <1>16, <2>1
    <3>2. Published = 0
      BY <1>15, <2>1, <3>1 DEF IInv, FeedsFollow
    <3>. QED  BY <1>3, <2>1, <3>1, <3>2
  <2>2. CASE Feed(f) # << >>
    BY <1>2, <1>16, <2>2 DEF IInv, FeedStartsWithKeyFrame
  <2>. QED  BY <2>1, <2>2
<1>21. FeedersAttached'
  BY <1>1, <1>15 DEF IInv, FeedersAttached
<1>. QED
  BY <1>6, <1>7, <1>10, <1>14, <1>17, <1>18, <1>19, <1>20, <1>21 DEF IInv

(* What a step of a connection, which leaves the ring alone, preserves. *)
LEMMA RingUnchanged ==
  ASSUME IInv, UNCHANGED <<ringVars, gopCache, producer>>
  PROVE  /\ RingHoldsNewest' /\ RingProgress' /\ GopIsRun'
         /\ Published' = Published /\ keyFrames' = keyFrames /\ started' = started
<1>1. Published' = Published /\ keyFrames' = keyFrames /\ started' = started
  BY DEF Published, ringVars
<1>. QED  BY <1>1 DEF IInv, RingHoldsNewest, RingProgress, GopIsRun, ringVars

(* GopCacheSnapshot.Get: the snapshot first, then the channel. *)
LEMMA GetInv ==
  ASSUME IInv, NEW f \in Feeders, Get(f) \/ WriteSucceeds(f)
  PROVE  IInv'
<1>1. /\ UNCHANGED <<ringVars, gopCache, producer, feeders, missed>>
      /\ Open(f) /\ phase'[f] \in {"waiting", "writing"}
      /\ phase' = [phase EXCEPT ![f] = phase'[f]]
  BY DEF Get, WriteSucceeds, Open, IInv, TypeOK
<1>2. \A g \in Feeders : Open(g)' = Open(g) /\ (phase'[g] = "none" => phase[g] = "none")
  BY <1>1 DEF Open, IInv, TypeOK
<1>3. /\ delivered[f] \in Seq(Packets) /\ snapshot[f] \in Seq(Packets)
      /\ pktFeed[f] \in Seq(Packets)
  BY DEF IInv, TypeOK
<1>4. CASE WriteSucceeds(f)
  <2>1. UNCHANGED <<snapshot, pktFeed, delivered>>
    BY <1>4 DEF WriteSucceeds
  <2>2. \A g \in Feeders : Feed(g)' = Feed(g)
    BY <2>1 DEF Feed
  <2>3. TypeOK'
    BY <1>1, <2>1 DEF IInv, TypeOK, ringVars, Phases
  <2>. QED  BY <1>1, <1>2, <2>2, <2>3, RingUnchanged, SameFeeds DEF IInv
<1>5. ASSUME Get(f), snapshot[f] # << >> PROVE IInv'
  <2>1. /\ delivered' = [delivered EXCEPT ![f] = Append(delivered[f], Head(snapshot[f]))]
        /\ snapshot' = [snapshot EXCEPT ![f] = Tail(snapshot[f])]
        /\ pktFeed' = pktFeed
    BY <1>5 DEF Get
  <2>2. Append(delivered[f], Head(snapshot[f])) \in Seq(Packets) /\ Tail(snapshot[f]) \in Seq(Packets)
    BY <1>3, <1>5
  <2>3. TypeOK'
    BY <1>1, <2>1, <2>2 DEF IInv, TypeOK, ringVars, Phases
  <2>4. ASSUME NEW g \in Feeders PROVE Feed(g)' = Feed(g)
    <3>1. CASE g = f
      BY <1>3, <1>5, <2>1, <3>1, TakeFromMiddle DEF Feed, IInv, TypeOK
    <3>2. CASE g # f
      BY <2>1, <3>2 DEF Feed, IInv, TypeOK
    <3>. QED  BY <3>1, <3>2
  <2>. QED  BY <1>1, <1>2, <2>3, <2>4, RingUnchanged, SameFeeds DEF IInv
<1>6. ASSUME Get(f), snapshot[f] = << >> PROVE IInv'
  <2>1. /\ delivered' = [delivered EXCEPT ![f] = Append(delivered[f], Head(pktFeed[f]))]
        /\ pktFeed' = [pktFeed EXCEPT ![f] = Tail(pktFeed[f])]
        /\ snapshot' = snapshot /\ pktFeed[f] # << >>
    BY <1>6 DEF Get
  <2>2. Append(delivered[f], Head(pktFeed[f])) \in Seq(Packets) /\ Tail(pktFeed[f]) \in Seq(Packets)
    BY <1>3, <2>1
  <2>3. TypeOK'
    BY <1>1, <2>1, <2>2 DEF IInv, TypeOK, ringVars, Phases
  <2>4. ASSUME NEW g \in Feeders PROVE Feed(g)' = Feed(g)
    <3>1. CASE g = f
      BY <1>3, <1>6, <2>1, <3>1, TakeFromEnd DEF Feed, IInv, TypeOK
    <3>2. CASE g # f
      BY <2>1, <3>2 DEF Feed, IInv, TypeOK
    <3>. QED  BY <3>1, <3>2
  <2>. QED  BY <1>1, <1>2, <2>3, <2>4, RingUnchanged, SameFeeds DEF IInv
<1>. QED  BY <1>4, <1>5, <1>6

(* A feeder starts with the GOP cache, which is a run up to the newest output. *)
LEMMA CreateFeederInv ==
  ASSUME IInv, NEW f \in Feeders, CreateFeeder(f)
  PROVE  IInv'
<1>1. /\ UNCHANGED <<ringVars, gopCache, producer, pktFeed, missed, delivered>>
      /\ phase[f] = "none" /\ phase' = [phase EXCEPT ![f] = "waiting"] /\ started
      /\ snapshot' = [snapshot EXCEPT ![f] = gopCache]
      /\ feeders' = Append(feeders, f)
  BY DEF CreateFeeder
<1>2. TypeOK'
  BY <1>1 DEF IInv, TypeOK, ringVars, Phases
<1>3. /\ Feed(f) = << >>
      /\ delivered[f] \in Seq(Packets) /\ snapshot[f] \in Seq(Packets)
      /\ pktFeed[f] \in Seq(Packets) /\ gopCache \in Seq(Packets)
  BY <1>1 DEF IInv, TypeOK, FeedsFollow
<1>4. delivered[f] = << >> /\ pktFeed[f] = << >>
  BY <1>3 DEF Feed
<1>5. /\ Feed(f)' = gopCache /\ Open(f)' /\ ~Open(f) /\ phase'[f] = "waiting"
      /\ \A g \in Feeders \ {f} : /\ Feed(g)' = Feed(g) /\ Open(g)' = Open(g)
                                  /\ phase'[g] = phase[g]
  BY <1>1, <1>3, <1>4 DEF Feed, Open, IInv, TypeOK
<1>6. /\ RingHoldsNewest' /\ RingProgress' /\ GopIsRun'
      /\ Published' = Published /\ keyFrames' = keyFrames /\ started' = started
  BY <1>1, RingUnchanged
<1>7. /\ Published \in Nat /\ Len(gopCache) \in Nat /\ Len(gopCache) <= Published
      /\ DOMAIN gopCache = 1 .. Len(gopCache)
      /\ \A i \in DOMAIN gopCache : gopCache[i] = Published - Len(gopCache) + i
  BY BucketBrigadeAssumption
     DEF IInv, TypeOK, GopIsRun, RingProgress, Published, Packets, Slots
<1>8. FeedsFollow'
  BY <1>1, <1>5, <1>6, <1>7 DEF IInv, FeedsFollow, GopIsRun
<1>9. FeedComplete'
  BY <1>1, <1>5, <1>6, <1>7 DEF IInv, FeedComplete
<1>10. FeedOrdered'
  <2>1. \A i, j \in DOMAIN gopCache : i < j => gopCache[i] < gopCache[j]
    BY <1>7
  <2>. QED  BY <1>5, <2>1 DEF IInv, FeedOrdered
<1>11. FeedStartsWithKeyFrame'
  BY <1>5, <1>6 DEF IInv, FeedStartsWithKeyFrame, GopIsRun
<1>12. FeedersAttached'
  <2>1. /\ feeders \in Seq(Feeders) /\ Len(feeders) \in Nat
        /\ DOMAIN feeders = 1 .. Len(feeders) /\ DOMAIN feeders' = 1 .. Len(feeders) + 1
        /\ \A i \in 1 .. Len(feeders) : feeders'[i] = feeders[i]
        /\ feeders'[Len(feeders) + 1] = f
    BY <1>1, AppendProperties DEF IInv, TypeOK
  <2>2. Attached' = Attached \union {f}
    BY <2>1 DEF Attached
  <2>3. f \notin Attached
    BY <1>5 DEF IInv, FeedersAttached
  <2>4. \A i, j \in DOMAIN feeders' : feeders'[i] = feeders'[j] => i = j
    BY <2>1, <2>3 DEF IInv, FeedersAttached, Attached
  <2>. QED  BY <1>5, <2>2, <2>4 DEF IInv, FeedersAttached
<1>. QED
  BY <1>2, <1>6, <1>8, <1>9, <1>10, <1>11, <1>12 DEF IInv

(***************************************************************************)
(* Moving the last element over the i-th and dropping the last takes away  *)
(* the i-th element alone.                                                 *)
(***************************************************************************)
LEMMA SwapRemove ==
  ASSUME NEW S, NEW s \in Seq(S), NEW i \in DOMAIN s,
         \A j, k \in DOMAIN s : s[j] = s[k] => j = k
  PROVE  LET t == SwapOut(s, i)
         IN  /\ t \in Seq(S)
             /\ {t[j] : j \in DOMAIN t} = {s[j] : j \in DOMAIN s} \ {s[i]}
             /\ \A j, k \in DOMAIN t : t[j] = t[k] => j = k
<1>1. /\ Len(s) \in Nat \ {0} /\ DOMAIN s = 1 .. Len(s)
      /\ \A j \in 1 .. Len(s) : s[j] \in S
  OBVIOUS
<1>2. DEFINE u == [s EXCEPT ![i] = s[Len(s)]]
            t == SwapOut(s, i)
<1>3. \A j \in 1 .. Len(s) : u[j] = IF j = i THEN s[Len(s)] ELSE s[j]
  BY <1>1
<1>4. \A j \in 1 .. Len(s) - 1 : u[j] \in S
  BY <1>1, <1>3
<1>. HIDE DEF u
<1>5. /\ t \in Seq(S) /\ Len(t) = Len(s) - 1
      /\ \A j \in 1 .. Len(s) - 1 : t[j] = u[j]
  BY <1>1, <1>4, SubSeqProperties DEF SwapOut, u
<1>. HIDE DEF t
<1>6. DOMAIN t = 1 .. Len(s) - 1
  BY <1>5
<1>7. \A j \in DOMAIN t : t[j] = IF j = i THEN s[Len(s)] ELSE s[j]
  BY <1>1, <1>3, <1>5, <1>6
<1>8. \A j, k \in DOMAIN t : t[j] = t[k] => j = k
  BY <1>1, <1>6, <1>7
<1>9. \A j \in 1 .. Len(s) : j < Len(s) \/ j = Len(s)
  <2>1. Len(s) \in Nat
    BY <1>1
  <2>. QED  BY ONLY <2>1
<1>10. ASSUME NEW x \in {s[j] : j \in DOMAIN s} \ {s[i]}
      PROVE  x \in {t[j] : j \in DOMAIN t}
  <2>1. PICK j \in 1 .. Len(s) : x = s[j] /\ j # i
    BY <1>1
  <2>2. CASE j < Len(s)
    <3>1. j \in DOMAIN t /\ t[j] = x
      BY <1>1, <1>6, <1>7, <2>1, <2>2
    <3>. QED  BY <3>1
  <2>3. CASE j = Len(s)
    <3>1. i \in DOMAIN t /\ t[i] = x
      BY <1>1, <1>6, <1>7, <2>1, <2>3
    <3>. QED  BY <3>1
  <2>4. j < Len(s) \/ j = Len(s)
    BY <1>9
  <2>. QED  BY <2>2, <2>3, <2>4
<1>11. ASSUME NEW x \in {t[j] : j \in DOMAIN t}
       PROVE  x \in {s[j] : j \in DOMAIN s} \ {s[i]}
  <2>1. PICK j \in 1 .. Len(s) - 1 : x = t[j]
    BY <1>6
  <2>. QED  BY <1>1, <1>6, <1>7, <2>1
<1>12. {t[j] : j \in DOMAIN t} = {s[j] : j \in DOMAIN s} \ {s[i]}
  BY <1>10, <1>11
<1>. QED  BY <1>5, <1>8, <1>12 DEF t

(* DestroyFeeder: the others keep their channels. *)
LEMMA DestroyFeederInv ==
  ASSUME IInv, NEW f \in Feeders, DestroyFeeder(f)
  PROVE  IInv'
<1>1. /\ UNCHANGED <<ringVars, gopCache, producer, snapshot, missed, delivered>>
      /\ phase[f] = "writing" /\ phase' = [phase EXCEPT ![f] = "gone"]
      /\ pktFeed' = [pktFeed EXCEPT ![f] = << >>]
  BY DEF DestroyFeeder
<1>2. PICK i \in DOMAIN feeders :
        /\ feeders[i] = f
        /\ feeders' = SwapOut(feeders, i)
  BY DEF DestroyFeeder
<1>3. /\ feeders' \in Seq(Feeders)
      /\ Attached' = Attached \ {f}
      /\ \A j, k \in DOMAIN feeders' : feeders'[j] = feeders'[k] => j = k
  <2>1. /\ feeders \in Seq(Feeders)
        /\ \A j, k \in DOMAIN feeders : feeders[j] = feeders[k] => j = k
    BY DEF IInv, TypeOK, FeedersAttached
  <2>2. /\ feeders' \in Seq(Feeders)
        /\ {feeders'[j] : j \in DOMAIN feeders'} = {feeders[j] : j \in DOMAIN feeders} \ {feeders[i]}
        /\ \A j, k \in DOMAIN feeders' : feeders'[j] = feeders'[k] => j = k
    <3>1. \A s \in Seq(Feeders) : \A k \in DOMAIN s :
            (\A m, n \in DOMAIN s : s[m] = s[n] => m = n) =>
              /\ SwapOut(s, k) \in Seq(Feeders)
              /\ {SwapOut(s, k)[j] : j \in DOMAIN SwapOut(s, k)} = {s[j] : j \in DOMAIN s} \ {s[k]}
              /\ \A m, n \in DOMAIN SwapOut(s, k) : SwapOut(s, k)[m] = SwapOut(s, k)[n] => m = n
      BY SwapRemove
    <3>2. LET s == SwapOut(feeders, i)
          IN  /\ s \in Seq(Feeders)
              /\ {s[j] : j \in DOMAIN s} = {feeders[j] : j \in DOMAIN feeders} \ {feeders[i]}
              /\ \A j, k \in DOMAIN s : s[j] = s[k] => j = k
      BY <2>1, <3>1
    <3>. QED  BY <1>2, <3>2
  <2>. QED  BY <1>2, <2>2 DEF Attached
<1>4. TypeOK'
  BY <1>1, <1>3 DEF IInv, TypeOK, ringVars, Phases
<1>5. /\ ~Open(f)' /\ phase'[f] = "gone"
      /\ \A g \in Feeders \ {f} : /\ Feed(g)' = Feed(g) /\ Open(g)' = Open(g)
                                  /\ phase'[g] = phase[g]
  BY <1>1 DEF Feed, Open, IInv, TypeOK
<1>6. /\ RingHoldsNewest' /\ RingProgress' /\ GopIsRun'
      /\ Published' = Published /\ keyFrames' = keyFrames /\ started' = started
  BY <1>1, RingUnchanged
<1>7. /\ DOMAIN Feed(f)' \subseteq DOMAIN Feed(f)
      /\ \A j \in DOMAIN Feed(f)' : Feed(f)'[j] = Feed(f)[j]
      /\ Feed(f)' # << >> => Feed(f) # << >> /\ 1 \in DOMAIN Feed(f)'
  <2>1. /\ delivered[f] \in Seq(Packets) /\ snapshot[f] \in Seq(Packets)
        /\ pktFeed[f] \in Seq(Packets)
    BY DEF IInv, TypeOK
  <2>2. DEFINE kept == delivered[f] \o snapshot[f]
  <2>3. kept \in Seq(Packets) /\ Feed(f) = kept \o pktFeed[f] /\ Feed(f)' = kept
    BY <1>1, <2>1 DEF Feed, IInv, TypeOK
  <2>. HIDE DEF kept
  <2>. QED  BY <2>1, <2>3, ConcatProperties
<1>8. FeedsFollow'
  BY <1>5, <1>6, <1>7 DEF IInv, FeedsFollow
<1>9. FeedComplete'
  BY <1>1, <1>5, <1>6 DEF IInv, FeedComplete
<1>10. FeedOrdered'
  BY <1>5, <1>7 DEF IInv, FeedOrdered
<1>11. FeedStartsWithKeyFrame'
  BY <1>5, <1>6, <1>7 DEF IInv, FeedStartsWithKeyFrame
<1>12. FeedersAttached'
  BY <1>3, <1>5 DEF IInv, FeedersAttached
<1>. QED
  BY <1>4, <1>6, <1>8, <1>9, <1>10, <1>11, <1>12 DEF IInv

-----------------------------------------------------------------------------
(***************************************************************************)
(* IInv is an inductive invariant of the bucket brigade: the ring's        *)
(* contents, the run in the GOP cache and every connection's feed stay     *)
(* as described through every interleaving of Input, CreateFeeder, Get and *)
(* DestroyFeeder.                                                          *)
(***************************************************************************)
THEOREM Invariance == Spec => []IInv
<1>1. IInv /\ [Next]_vars => IInv'
  <2>. SUFFICES ASSUME IInv, [Next]_vars PROVE IInv'
    OBVIOUS
  <2>1. ASSUME NEW key \in BOOLEAN, NEW timeUp \in BOOLEAN, Fill(key, timeUp) PROVE IInv'
    BY <2>1, FillInv
  <2>2. ASSUME NEW key \in BOOLEAN, Relay(key) PROVE IInv'
    BY <2>2, RelayInv
  <2>3. ASSUME \/ \E key \in BOOLEAN : GopCacheFull(key)
               \/ IndexOutOfRange
               \/ ProducerCloses
        PROVE  IInv'
    BY <2>3, ProducerEndsInv
  <2>4. ASSUME NEW f \in Feeders, Connection(f) PROVE IInv'
    BY <2>4, CreateFeederInv, GetInv, DestroyFeederInv DEF Connection
  <2>5. CASE UNCHANGED vars
    <3>1. /\ UNCHANGED feederVars /\ UNCHANGED <<ringVars, gopCache, producer>>
      BY <2>5 DEF vars
    <3>2. TypeOK'
      BY <3>1 DEF IInv, TypeOK, ringVars, feederVars
    <3>. QED  BY <3>1, <3>2, RingUnchanged, FeedsUnchanged DEF IInv
  <2>. QED  BY <2>1, <2>2, <2>3, <2>4, <2>5 DEF Next, Input
<1>. QED  BY <1>1, InitInv, PTL DEF Spec

(* Every variable keeps its type, whatever the sizes are. *)
THEOREM TypeCorrect == Spec => []TypeOK
BY Invariance, PTL DEF IInv

(***************************************************************************)
(* A connection whose channel never filled has had and is due every packet *)
(* output since the start of its feed, once, in order, up to the newest.   *)
(***************************************************************************)
THEOREM CompleteFeeds == Spec => []FeedComplete
BY Invariance, PTL DEF IInv

(* No connection is sent a packet twice, or out of order. *)
THEOREM OrderedFeeds == Spec => []FeedOrdered
BY Invariance, PTL DEF IInv

(* A recording starts with a keyframe, or with the first packet of all. *)
THEOREM RecordingsStartWithKeyFrame == Spec => []FeedStartsWithKeyFrame
BY Invariance, PTL DEF IInv

(* bb.feeders holds the open connections' feeders, each once. *)
THEOREM AttachedFeeders == Spec => []FeedersAttached
BY Invariance, PTL DEF IInv

-----------------------------------------------------------------------------
(* The bucket brigade implements PreambleFeed. *)

(* A connection's feed is what it has had, then what it is due. *)
LEMMA DeliveredThenDue ==
  ASSUME TypeOK, NEW f \in Feeders
  PROVE  /\ delivered[f] \in Seq(Packets) /\ Due(f) \in Seq(Packets)
         /\ Feed(f) = delivered[f] \o Due(f)
         /\ DOMAIN Feed(f) = 1 .. Len(delivered[f]) + Len(Due(f))
         /\ \A i \in 1 .. Len(delivered[f]) : Feed(f)[i] = delivered[f][i]
         /\ \A i \in 1 .. Len(Due(f)) : Feed(f)[Len(delivered[f]) + i] = Due(f)[i]
<1>1. ASSUME NEW d \in Seq(Packets), NEW s \in Seq(Packets), NEW p \in Seq(Packets)
      PROVE  d \o s \o p = d \o (s \o p) /\ s \o p \in Seq(Packets)
  OBVIOUS
<1>2. /\ delivered[f] \in Seq(Packets) /\ Due(f) \in Seq(Packets)
      /\ Feed(f) = delivered[f] \o Due(f)
  BY <1>1 DEF TypeOK, Feed, Due
<1>. QED  BY <1>2, ConcatProperties

(* Every packet of a feed is one that has been output. *)
LEMMA FeedBounds ==
  ASSUME IInv, NEW f \in Feeders
  PROVE  /\ Published \in Nat
         /\ \A i \in 1 .. Len(delivered[f]) : delivered[f][i] \in 1 .. Published
         /\ \A i \in 1 .. Len(Due(f)) : Due(f)[i] \in 1 .. Published
<1>1. Published \in Nat
  BY BucketBrigadeAssumption DEF IInv, TypeOK, RingProgress, Published, Packets, Slots
<1>2. /\ Len(delivered[f]) \in Nat /\ Len(Due(f)) \in Nat
      /\ DOMAIN Feed(f) = 1 .. Len(delivered[f]) + Len(Due(f))
      /\ \A i \in 1 .. Len(delivered[f]) : Feed(f)[i] = delivered[f][i]
      /\ \A i \in 1 .. Len(Due(f)) : Feed(f)[Len(delivered[f]) + i] = Due(f)[i]
  BY DeliveredThenDue DEF IInv
<1>3. \A i \in DOMAIN Feed(f) : Feed(f)[i] \in 1 .. Published
  BY DEF IInv, FeedsFollow
<1>4. ASSUME NEW i \in 1 .. Len(Due(f)) PROVE Len(delivered[f]) + i \in DOMAIN Feed(f)
  BY <1>2
<1>5. ASSUME NEW i \in 1 .. Len(delivered[f]) PROVE i \in DOMAIN Feed(f)
  BY <1>2
<1>. QED  BY <1>1, <1>2, <1>3, <1>4, <1>5

(* The two parts of a run of numbers that ends with p are runs themselves. *)
LEMMA RunSplits ==
  ASSUME NEW S, NEW d \in Seq(S), NEW u \in Seq(S), NEW p \in Nat,
         \A i \in DOMAIN (d \o u) : (d \o u)[i] = p - Len(d \o u) + i
  PROVE  /\ d # << >> => d[Len(d)] = p - Len(u)
         /\ \A i \in 1 .. Len(u) : u[i] = p - Len(u) + i
<1>1. /\ Len(d) \in Nat /\ Len(u) \in Nat /\ Len(d \o u) = Len(d) + Len(u)
      /\ DOMAIN (d \o u) = 1 .. Len(d) + Len(u)
      /\ \A i \in 1 .. Len(d) : (d \o u)[i] = d[i]
      /\ \A i \in 1 .. Len(u) : (d \o u)[Len(d) + i] = u[i]
  BY ConcatProperties
<1>2. ASSUME NEW i \in 1 .. Len(u) PROVE u[i] = p - Len(u) + i
  <2>1. Len(d) + i \in DOMAIN (d \o u)
    BY <1>1
  <2>2. (d \o u)[Len(d) + i] = p - (Len(d) + Len(u)) + (Len(d) + i)
    BY <1>1, <2>1
  <2>. QED  BY <1>1, <2>2
<1>3. ASSUME d # << >> PROVE d[Len(d)] = p - Len(u)
  <2>1. Len(d) \in 1 .. Len(d)
    BY <1>3
  <2>2. Len(d) \in DOMAIN (d \o u)
    BY <1>1, <2>1
  <2>3. (d \o u)[Len(d)] = p - (Len(d) + Len(u)) + Len(d)
    BY <1>1, <2>2
  <2>. QED  BY <1>1, <2>1, <2>3
<1>. QED  BY <1>2, <1>3

LastTaken(f) == delivered[f][Len(delivered[f])]

(***************************************************************************)
(* For a connection that has lost nothing, the first packet due follows    *)
(* the last one taken, and with nothing due the last one taken is the      *)
(* newest.                                                                 *)
(***************************************************************************)
LEMMA DueFollowsTaken ==
  ASSUME IInv, NEW f \in Feeders, Open(f), f \notin missed
  PROVE  /\ delivered[f] # << >> =>
              LastTaken(f) + 1 = IF Due(f) = << >> THEN Published + 1 ELSE Due(f)[1]
         /\ \A i \in 1 .. Len(Due(f)) : Due(f)[i] = Published - Len(Due(f)) + i
<1>1. /\ Published \in Nat /\ delivered[f] \in Seq(Packets) /\ Due(f) \in Seq(Packets)
      /\ Feed(f) = delivered[f] \o Due(f)
      /\ \A i \in DOMAIN Feed(f) : Feed(f)[i] = Published - Len(Feed(f)) + i
  BY DeliveredThenDue, FeedBounds DEF IInv, FeedComplete
<1>2. /\ delivered[f] # << >> =>
           LastTaken(f) = Published - Len(Due(f))
      /\ \A i \in 1 .. Len(Due(f)) : Due(f)[i] = Published - Len(Due(f)) + i
  <2>1. \A d, u \in Seq(Packets) : \A p \in Nat :
          (\A i \in DOMAIN (d \o u) : (d \o u)[i] = p - Len(d \o u) + i) =>
             /\ d # << >> => d[Len(d)] = p - Len(u)
             /\ \A i \in 1 .. Len(u) : u[i] = p - Len(u) + i
    BY RunSplits
  <2>2. \A i \in DOMAIN (delivered[f] \o Due(f)) :
          (delivered[f] \o Due(f))[i] = Published - Len(delivered[f] \o Due(f)) + i
    BY <1>1
  <2>. QED  BY ONLY <1>1, <2>1, <2>2, Zenon DEF LastTaken
<1>3. /\ Due(f) # << >> => 1 \in 1 .. Len(Due(f)) /\ Len(Due(f)) \in Nat
      /\ Due(f) = << >> => Len(Due(f)) = 0
  BY <1>1
<1>. QED  BY <1>1, <1>2, <1>3

(* A client that has joined is due a packet that has a number. *)
LEMMA CursorIsPacket ==
  ASSUME IInv, NEW f \in Feeders
  PROVE  /\ Cursor(f) \in Nat
         /\ Cursor(f) = 0 <=> phase[f] = "none"
<1>1. /\ Published \in Nat /\ delivered[f] \in Seq(Packets) /\ Due(f) \in Seq(Packets)
      /\ phase[f] \in Phases
      /\ delivered[f] # << >> => LastTaken(f) \in 1 .. Published
      /\ Due(f) # << >> => Due(f)[1] \in 1 .. Published
  <2>1. /\ delivered[f] \in Seq(Packets) /\ Due(f) \in Seq(Packets)
        /\ delivered[f] # << >> => Len(delivered[f]) \in 1 .. Len(delivered[f])
        /\ Due(f) # << >> => 1 \in 1 .. Len(Due(f))
    BY DeliveredThenDue DEF IInv
  <2>. QED  BY <2>1, FeedBounds DEF LastTaken, IInv, TypeOK
<1>. QED  BY <1>1 DEF Cursor, Phases, LastTaken

(* A joined connection writes what it has been given: it has had a packet. *)
WritingHasTaken == \A f \in Feeders : phase[f] = "writing" => delivered[f] # << >>

LEMMA WritingInvariance == Spec => []WritingHasTaken
<1>1. Init => WritingHasTaken
  BY DEF Init, WritingHasTaken
<1>2. IInv /\ WritingHasTaken /\ [Next]_vars => WritingHasTaken'
  <2>. SUFFICES ASSUME IInv, WritingHasTaken, [Next]_vars PROVE WritingHasTaken'
    OBVIOUS
  <2>1. CASE UNCHANGED <<phase, delivered>>
    BY <2>1 DEF WritingHasTaken
  <2>2. ASSUME NEW f \in Feeders, Get(f) PROVE WritingHasTaken'
    <3>1. \A g \in Feeders \ {f} : phase'[g] = phase[g] /\ delivered'[g] = delivered[g]
      BY <2>2 DEF Get, IInv, TypeOK
    <3>2. \A s \in Seq(Packets) : s # << >> => Head(s) \in Packets
      OBVIOUS
    <3>3. \E p \in Packets : delivered' = [delivered EXCEPT ![f] = Append(delivered[f], p)]
      BY <2>2, <3>2 DEF Get, IInv, TypeOK
    <3>4. \A d \in Seq(Packets), p \in Packets : Append(d, p) # << >>
      BY AppendProperties
    <3>5. delivered'[f] # << >>
      BY <3>3, <3>4 DEF IInv, TypeOK
    <3>. QED  BY <3>1, <3>5 DEF WritingHasTaken
  <2>3. ASSUME NEW f \in Feeders, CreateFeeder(f) \/ WriteSucceeds(f) \/ DestroyFeeder(f)
        PROVE  WritingHasTaken'
    BY <2>3 DEF WritingHasTaken, CreateFeeder, WriteSucceeds, DestroyFeeder, IInv, TypeOK
  <2>4. CASE Input \/ ProducerCloses \/ UNCHANGED vars
    <3>1. UNCHANGED <<phase, delivered>>
      BY <2>4 DEF Input, Fill, Relay, GopCacheFull, IndexOutOfRange, ProducerCloses,
                  vars, feederVars
    <3>. QED  BY <2>1, <3>1
  <2>. QED  BY <2>2, <2>3, <2>4 DEF Next, Connection
<1>. QED  BY <1>1, <1>2, Invariance, PTL DEF Spec

(* A step the clients of a PreambleFeed do not see. *)
LEMMA Unseen ==
  ASSUME UNCHANGED <<missed, delivered>>, Published' = Published, GopStart' = GopStart,
         \A f \in Feeders : Cursor(f)' = Cursor(f)
  PROVE  UNCHANGED Preamble!vars
BY DEF Preamble!vars

(* While the ring fills, and when the POST handler ends, nothing is output. *)
LEMMA ProducerUnseen ==
  ASSUME IInv, \/ \E key, timeUp \in BOOLEAN : Fill(key, timeUp)
               \/ \E key \in BOOLEAN : GopCacheFull(key)
               \/ IndexOutOfRange
               \/ ProducerCloses
  PROVE  UNCHANGED Preamble!vars
<1>. USE BucketBrigadeAssumption
<1>1. UNCHANGED feederVars
  BY DEF Fill, GopCacheFull, IndexOutOfRange, ProducerCloses
<1>2. gopCache' = gopCache
  BY DEF Fill, GopCacheFull, IndexOutOfRange, ProducerCloses, GopAccepts, GopBefore
<1>3. Published' = Published
  <2>1. ASSUME NEW key \in BOOLEAN, NEW timeUp \in BOOLEAN, Fill(key, timeUp)
        PROVE  Published' = Published
    BY <2>1 DEF Fill, SetCacheSizeFromDelayTime, Published, IInv, TypeOK, RingProgress,
                Slots, Packets
  <2>. QED
    BY <2>1 DEF GopCacheFull, IndexOutOfRange, ProducerCloses, Published, ringVars
<1>4. GopStart' = GopStart
  BY <1>2, <1>3 DEF GopStart
<1>5. \A f \in Feeders : Cursor(f)' = Cursor(f)
  BY <1>1, <1>3 DEF feederVars, Cursor, Due
<1>. QED  BY <1>1, <1>3, <1>4, <1>5, Unseen DEF feederVars

(* A packet output is published; a feeder whose channel is full lags. *)
LEMMA RelayPublishes ==
  ASSUME IInv, NEW key \in BOOLEAN, Relay(key)
  PROVE  Preamble!Publish
<1>. USE BucketBrigadeAssumption
<1>1. /\ producer = "feeding" /\ inputs < MaxPackets /\ started /\ inputIndex \in Slots
      /\ inputs' = inputs + 1 /\ gopCache' = Append(GopBefore(Output), Output)
      /\ SendToFeeders(Output)
      /\ UNCHANGED <<started, cacheInUse, phase, snapshot, delivered>>
  BY DEF Relay, Arrives
<1>2. /\ Output = Published + 1 /\ Output \in Packets /\ Published \in Nat
      /\ Published' = Published + 1
  BY <1>1, OutputIsDelayed DEF IInv, TypeOK, Published, Packets, Slots, RingProgress
<1>3. GopStart' \in {GopStart, Published + 1}
  <2>1. gopCache \in Seq(Packets) /\ GopBefore(Output) \in {<< >>, gopCache}
    BY DEF GopBefore, IInv, TypeOK
  <2>2. CASE GopBefore(Output) = << >>
    BY <1>1, <1>2, <2>2 DEF GopStart
  <2>3. CASE gopCache # << >> /\ GopBefore(Output) = gopCache
    BY <1>1, <1>2, <2>1, <2>3 DEF GopStart
  <2>. QED  BY <2>1, <2>2, <2>3
<1>. DEFINE full == {f \in Attached : Len(pktFeed[f]) >= FeedCapacity}
<1>4. /\ missed' = missed \union full
      /\ pktFeed' = [f \in Feeders |-> IF f \in Attached \ full
                                       THEN Append(pktFeed[f], Output)
                                       ELSE pktFeed[f]]
  BY <1>1 DEF SendToFeeders
<1>5. full \subseteq {f \in Feeders : [g \in Feeders |-> Cursor(g)][f] # 0}
  BY CursorIsPacket DEF IInv, FeedersAttached, Open
<1>6. ASSUME NEW f \in Feeders PROVE Cursor(f)' = Cursor(f)
  <2>1. CASE ~Open(f)
    BY <1>1, <2>1 DEF Cursor, Open, IInv, TypeOK, Phases
  <2>2. ASSUME Open(f) PROVE Cursor(f)' = Cursor(f)
    <3>1. /\ f \in Attached /\ Due(f) \in Seq(Packets)
          /\ snapshot[f] \in Seq(Packets) /\ pktFeed[f] \in Seq(Packets)
      BY <2>2, DeliveredThenDue DEF IInv, FeedersAttached, TypeOK
    <3>2. CASE f \in full
      <4>1. Due(f)' = Due(f) /\ f \in missed'
        BY <1>1, <1>4, <3>2 DEF Due
      <4>2. Due(f) # << >>
        <5>1. Len(pktFeed[f]) >= 1
          BY <3>1, <3>2
        <5>. QED  BY <3>1, <5>1, ConcatProperties DEF Due
      <4>3. CASE f \in missed
        BY <1>1, <4>1, <4>2, <4>3 DEF Cursor
      <4>4. CASE f \notin missed
        BY <1>1, <2>2, <4>1, <4>2, <4>4, DueFollowsTaken DEF Cursor, LastTaken, Open
      <4>. QED  BY <4>3, <4>4
    <3>3. CASE f \notin full
      <4>1. /\ Due(f)' = Append(Due(f), Output)
            /\ f \in missed' <=> f \in missed
        <5>1. \A s, p \in Seq(Packets) : \A x \in Packets :
                s \o Append(p, x) = Append(s \o p, x)
          OBVIOUS
        <5>2. pktFeed'[f] = Append(pktFeed[f], Output) /\ snapshot'[f] = snapshot[f]
          BY <1>1, <1>4, <3>1, <3>3
        <5>3. f \in missed' <=> f \in missed
          BY <1>4, <3>3
        <5>4. snapshot[f] \o Append(pktFeed[f], Output) = Append(snapshot[f] \o pktFeed[f], Output)
          BY <1>2, <3>1, <5>1
        <5>5. Due(f)' = Append(Due(f), Output)
          BY ONLY <5>2, <5>4 DEF Due
        <5>. QED  BY <5>3, <5>5
      <4>2. Due(f)' # << >> /\ Due(f)'[1] = IF Due(f) = << >> THEN Published + 1 ELSE Due(f)[1]
        <5>1. ASSUME NEW s \in Seq(Packets), NEW p \in Packets
              PROVE  Append(s, p) # << >> /\ Append(s, p)[1] = IF s = << >> THEN p ELSE s[1]
          <6>1. /\ Append(s, p) # << >> /\ Len(s) \in Nat /\ DOMAIN s = 1 .. Len(s)
                /\ Append(s, p)[Len(s) + 1] = p
                /\ \A i \in 1 .. Len(s) : Append(s, p)[i] = s[i]
                /\ Len(s) = 0 <=> s = << >>
            BY AppendProperties, EmptySeq
          <6>. QED  BY <6>1
        <5>2. /\ Append(Due(f), Output) # << >>
              /\ Append(Due(f), Output)[1] =
                   IF Due(f) = << >> THEN Published + 1 ELSE Due(f)[1]
          BY <1>2, <3>1, <5>1
        <5>. QED  BY ONLY <4>1, <5>2
      <4>. QED  BY <1>1, <4>1, <4>2 DEF Cursor
    <3>. QED  BY <3>2, <3>3
  <2>. QED  BY <2>1, <2>2
<1>7. [f \in Feeders |-> Cursor(f)]' = [f \in Feeders |-> Cursor(f)]
  BY <1>6
<1>. QED
  BY <1>1, <1>2, <1>3, <1>4, <1>5, <1>7 DEF Preamble!Publish, Preamble!NotJoined

(* A feeder starts where the GOP cache does. *)
LEMMA CreateFeederJoins ==
  ASSUME IInv, NEW f \in Feeders, CreateFeeder(f)
  PROVE  Preamble!Join(f)
<1>1. /\ UNCHANGED <<ringVars, gopCache, pktFeed, missed, delivered>>
      /\ phase[f] = "none" /\ phase' = [phase EXCEPT ![f] = "waiting"]
      /\ snapshot' = [snapshot EXCEPT ![f] = gopCache]
  BY DEF CreateFeeder
<1>2. Published' = Published
  BY <1>1 DEF Published, ringVars
<1>3. GopStart' = GopStart
  BY <1>1, <1>2 DEF GopStart
<1>4. Cursor(f) = 0
  BY <1>1 DEF Cursor
<1>5. Cursor(f)' = GopStart
  <2>1. /\ gopCache \in Seq(Packets) /\ delivered[f] \in Seq(Packets)
        /\ pktFeed[f] \in Seq(Packets) /\ snapshot[f] \in Seq(Packets)
        /\ delivered[f] \o snapshot[f] \o pktFeed[f] = << >>
    BY <1>1 DEF IInv, TypeOK, FeedsFollow, Feed
  <2>2. delivered[f] = << >> /\ pktFeed[f] = << >>
    BY <2>1
  <2>3. snapshot'[f] = gopCache /\ pktFeed'[f] = << >> /\ delivered'[f] = << >>
    BY <1>1, <2>2 DEF IInv, TypeOK
  <2>4. Due(f)' = gopCache
    BY <2>1, <2>3 DEF Due
  <2>5. phase'[f] = "waiting"
    BY <1>1 DEF IInv, TypeOK
  <2>. QED  BY <1>2, <2>3, <2>4, <2>5 DEF Cursor, GopStart
<1>6. \A g \in Feeders \ {f} : Cursor(g)' = Cursor(g)
  BY <1>1, <1>2 DEF Cursor, Due, IInv, TypeOK
<1>7. [g \in Feeders |-> Cursor(g)]' = [[g \in Feeders |-> Cursor(g)] EXCEPT ![f] = GopStart]
  BY <1>5, <1>6
<1>. QED
  BY <1>1, <1>2, <1>3, <1>4, <1>7 DEF Preamble!Join, Preamble!NotJoined

(***************************************************************************)
(* Get returns the packet due; a connection that has lost packets may skip *)
(* to a later one.                                                         *)
(***************************************************************************)
LEMMA GetTakes ==
  ASSUME IInv, WritingHasTaken, NEW f \in Feeders, Get(f)
  PROVE  Preamble!Take(f)
<1>1. /\ UNCHANGED <<ringVars, gopCache, missed>>
      /\ phase[f] = "waiting" /\ phase' = [phase EXCEPT ![f] = "writing"]
  BY DEF Get
<1>2. /\ delivered[f] \in Seq(Packets) /\ Due(f) \in Seq(Packets)
      /\ snapshot[f] \in Seq(Packets) /\ pktFeed[f] \in Seq(Packets)
  BY DeliveredThenDue DEF IInv, TypeOK
<1>3. Published' = Published
  BY <1>1 DEF Published, ringVars
<1>4. GopStart' = GopStart
  BY <1>1, <1>3 DEF GopStart
<1>5. /\ Due(f) # << >> /\ Due(f)' = Tail(Due(f))
      /\ delivered' = [delivered EXCEPT ![f] = Append(delivered[f], Due(f)[1])]
      /\ \A g \in Feeders \ {f} : Due(g)' = Due(g)
  <2>1. CASE snapshot[f] # << >>
    <3>1. \A s, p \in Seq(Packets) : s # << >> =>
            /\ s \o p # << >> /\ Tail(s \o p) = Tail(s) \o p /\ Head(s) = (s \o p)[1]
      OBVIOUS
    <3>2. /\ snapshot' = [snapshot EXCEPT ![f] = Tail(snapshot[f])] /\ pktFeed' = pktFeed
          /\ delivered' = [delivered EXCEPT ![f] = Append(delivered[f], Head(snapshot[f]))]
      BY <2>1 DEF Get
    <3>3. snapshot'[f] = Tail(snapshot[f]) /\ \A g \in Feeders \ {f} : snapshot'[g] = snapshot[g]
      BY <3>2 DEF IInv, TypeOK
    <3>4. /\ snapshot[f] \o pktFeed[f] # << >>
          /\ Tail(snapshot[f] \o pktFeed[f]) = Tail(snapshot[f]) \o pktFeed[f]
          /\ Head(snapshot[f]) = (snapshot[f] \o pktFeed[f])[1]
      BY <1>2, <2>1, <3>1
    <3>. QED  BY ONLY <3>2, <3>3, <3>4 DEF Due
  <2>2. CASE snapshot[f] = << >>
    <3>1. \A p \in Seq(Packets) : p # << >> => << >> \o p = p /\ Head(p) = p[1] /\ << >> \o Tail(p) = Tail(p)
      OBVIOUS
    <3>2. /\ pktFeed' = [pktFeed EXCEPT ![f] = Tail(pktFeed[f])] /\ snapshot' = snapshot
          /\ delivered' = [delivered EXCEPT ![f] = Append(delivered[f], Head(pktFeed[f]))]
          /\ pktFeed[f] # << >>
      BY <2>2 DEF Get
    <3>3. pktFeed'[f] = Tail(pktFeed[f]) /\ \A g \in Feeders \ {f} : pktFeed'[g] = pktFeed[g]
      BY <3>2 DEF IInv, TypeOK
    <3>4. /\ << >> \o pktFeed[f] = pktFeed[f] /\ Head(pktFeed[f]) = pktFeed[f][1]
          /\ << >> \o Tail(pktFeed[f]) = Tail(pktFeed[f])
      BY <1>2, <3>1, <3>2
    <3>. QED  BY ONLY <2>2, <3>2, <3>3, <3>4 DEF Due
  <2>. QED  BY <2>1, <2>2
<1>6. /\ Due(f)[1] \in Packets /\ Due(f)[1] \in 1 .. Published /\ Published \in Nat
      /\ Len(Due(f)) >= 1 /\ Len(Due(f)) \in Nat
  <2>1. 1 \in 1 .. Len(Due(f)) /\ Len(Due(f)) \in Nat
    BY <1>2, <1>5
  <2>. QED  BY <1>2, <2>1, FeedBounds
<1>7. delivered'[f] # << >> /\ LastTaken(f)' = Due(f)[1]
  <2>1. \A d \in Seq(Packets), p \in Packets :
          Append(d, p) # << >> /\ Append(d, p)[Len(Append(d, p))] = p
    BY AppendProperties
  <2>2. delivered'[f] = Append(delivered[f], Due(f)[1])
    BY <1>5 DEF IInv, TypeOK
  <2>. QED  BY <1>2, <1>6, <2>1, <2>2 DEF LastTaken
<1>8. Open(f) /\ Open(f)'
  BY <1>1 DEF Open, IInv, TypeOK
<1>9. Cursor(f)' = Due(f)[1] + 1
  <2>1. CASE f \in missed
    BY <1>1, <1>7, <2>1 DEF Cursor, LastTaken, IInv, TypeOK
  <2>2. CASE f \notin missed
    <3>1. IF Due(f)' = << >> THEN Published' + 1 = Due(f)[1] + 1 ELSE Due(f)'[1] = Due(f)[1] + 1
      <4>1. \A i \in 1 .. Len(Due(f)) : Due(f)[i] = Published - Len(Due(f)) + i
        BY <1>8, <2>2, DueFollowsTaken
      <4>2. CASE Len(Due(f)) = 1
        <5>1. Due(f)' = << >> /\ Due(f)[1] = Published
          BY <1>2, <1>5, <1>6, <4>1, <4>2
        <5>. QED  BY <1>3, <5>1
      <4>3. CASE Len(Due(f)) > 1
        <5>1. Due(f)' # << >> /\ Due(f)'[1] = Due(f)[2]
          <6>1. ASSUME NEW s \in Seq(Packets), Len(s) > 1
                PROVE  Tail(s) # << >> /\ Tail(s)[1] = s[2]
            <7>1. Len(s) \in Nat /\ 1 \in 1 .. Len(s) - 1 /\ s # << >>
              BY <6>1
            <7>2. /\ Len(Tail(s)) = Len(s) - 1
                  /\ \A i \in 1 .. Len(Tail(s)) : Tail(s)[i] = s[i + 1]
              BY <7>1, HeadTailProperties
            <7>3. 1 \in 1 .. Len(Tail(s)) /\ 1 + 1 = 2 /\ Len(Tail(s)) # 0
              BY <7>1, <7>2
            <7>. QED  BY <7>2, <7>3
          <6>. QED  BY <1>2, <1>5, <4>3, <6>1
        <5>2. Due(f)[2] = Due(f)[1] + 1
          BY <1>6, <4>1, <4>3
        <5>. QED  BY <5>1, <5>2
      <4>4. Len(Due(f)) = 1 \/ Len(Due(f)) > 1
        <5>1. \A n \in Nat : n >= 1 => n = 1 \/ n > 1
          OBVIOUS
        <5>. QED  BY <1>6, <5>1
      <4>. QED  BY ONLY <4>2, <4>3, <4>4, Zenon
    <3>2. phase'[f] = "writing" /\ f \notin missed'
      BY <1>1, <2>2 DEF IInv, TypeOK
    <3>. QED  BY <3>1, <3>2 DEF Cursor
  <2>. QED  BY <2>1, <2>2
<1>10. /\ Due(f)[1] \in Cursor(f) .. Published /\ Cursor(f) # 0
       /\ f \notin missed => Due(f)[1] = Cursor(f)
  <2>1. Cursor(f) \in Nat /\ Cursor(f) # 0
    BY <1>1, CursorIsPacket
  <2>2. CASE ~ (f \in missed /\ delivered[f] # << >>)
    <3>1. Cursor(f) = Due(f)[1]
      BY <1>1, <1>5, <2>2 DEF Cursor
    <3>. QED  BY <1>6, <2>1, <3>1
  <2>3. CASE f \in missed /\ delivered[f] # << >>
    <3>1. Cursor(f) = LastTaken(f) + 1
      BY <1>1, <2>3 DEF Cursor, LastTaken
    <3>2. LastTaken(f) \in Nat /\ LastTaken(f) < Due(f)[1]
      <4>1. /\ DOMAIN Feed(f) = 1 .. Len(delivered[f]) + Len(Due(f))
            /\ \A i \in 1 .. Len(delivered[f]) : Feed(f)[i] = delivered[f][i]
            /\ \A i \in 1 .. Len(Due(f)) : Feed(f)[Len(delivered[f]) + i] = Due(f)[i]
        BY DeliveredThenDue DEF IInv
      <4>2. Len(delivered[f]) \in 1 .. Len(delivered[f])
        BY <1>2, <2>3
      <4>3. LastTaken(f) \in Nat
        BY <4>2, FeedBounds DEF LastTaken
      <4>4. Feed(f)[Len(delivered[f])] < Feed(f)[Len(delivered[f]) + 1]
        <5>1. /\ Len(delivered[f]) \in DOMAIN Feed(f) /\ Len(delivered[f]) + 1 \in DOMAIN Feed(f)
              /\ Len(delivered[f]) < Len(delivered[f]) + 1
          BY <1>2, <1>6, <4>1, <4>2
        <5>. QED  BY <5>1 DEF IInv, FeedOrdered
      <4>. QED  BY <1>6, <4>1, <4>2, <4>3, <4>4 DEF LastTaken
    <3>. QED  BY <1>6, <2>1, <2>3, <3>1, <3>2
  <2>. QED  BY <2>2, <2>3
<1>11. \A g \in Feeders \ {f} : Cursor(g)' = Cursor(g)
  BY <1>1, <1>3, <1>5 DEF Cursor, IInv, TypeOK
<1>12. [g \in Feeders |-> Cursor(g)]'
         = [[g \in Feeders |-> Cursor(g)] EXCEPT ![f] = Due(f)[1] + 1]
  BY <1>9, <1>11
<1>. QED
  BY <1>1, <1>3, <1>4, <1>5, <1>10, <1>12 DEF Preamble!Take, Preamble!NotJoined

(* The client of a connection that ends is due what it was due before. *)
LEMMA ConnectionUnseen ==
  ASSUME IInv, WritingHasTaken, NEW f \in Feeders, WriteSucceeds(f) \/ DestroyFeeder(f)
  PROVE  UNCHANGED Preamble!vars
<1>1. /\ UNCHANGED <<ringVars, gopCache, snapshot, missed, delivered>>
      /\ phase[f] = "writing" /\ phase'[f] \in {"waiting", "gone"}
      /\ \A g \in Feeders \ {f} : phase'[g] = phase[g] /\ pktFeed'[g] = pktFeed[g]
      /\ phase'[f] = "waiting" => pktFeed' = pktFeed
  BY DEF WriteSucceeds, DestroyFeeder, IInv, TypeOK
<1>2. Published' = Published
  BY <1>1 DEF Published, ringVars
<1>3. GopStart' = GopStart
  BY <1>1, <1>2 DEF GopStart
<1>4. \A g \in Feeders \ {f} : Cursor(g)' = Cursor(g)
  BY <1>1, <1>2 DEF Cursor, Due
<1>5. Cursor(f)' = Cursor(f)
  <2>1. CASE phase'[f] = "waiting"
    BY <1>1, <1>2, <2>1 DEF Cursor, Due
  <2>2. CASE phase'[f] = "gone"
    <3>1. delivered[f] # << >>
      BY <1>1 DEF WritingHasTaken
    <3>2. Cursor(f)' = LastTaken(f) + 1
      BY <1>1, <2>2, <3>1 DEF Cursor, LastTaken
    <3>3. CASE f \in missed
      BY <1>1, <3>1, <3>2, <3>3 DEF Cursor, LastTaken
    <3>4. CASE f \notin missed
      BY <1>1, <3>1, <3>2, <3>4, DueFollowsTaken DEF Cursor, Open
    <3>. QED  BY <3>3, <3>4
  <2>. QED  BY <1>1, <2>1, <2>2
<1>. QED  BY <1>1, <1>2, <1>3, <1>4, <1>5, Unseen

(***************************************************************************)
(* The ring, the GOP cache, the snapshots and the channels are together a  *)
(* PreambleFeed: every packet output is published once, a recording joins  *)
(* at the start of the current group of pictures, and takes the packets in *)
(* order from there; only one that was too slow ever skips any.            *)
(***************************************************************************)
THEOREM Refinement == Spec => ImplementsPreambleFeed
<1>1. Init => Preamble!Init
  <2>. SUFFICES ASSUME Init PROVE Preamble!Init
    OBVIOUS
  <2>1. Published = 0 /\ GopStart = 1
    BY DEF Init, Published, GopStart
  <2>2. \A f \in Feeders : Cursor(f) = 0
    BY DEF Init, Cursor
  <2>. QED  BY <2>1, <2>2 DEF Init, Preamble!Init, Preamble!NotJoined
<1>2. IInv /\ WritingHasTaken /\ [Next]_vars => [Preamble!Next]_(Preamble!vars)
  <2>. SUFFICES ASSUME IInv, WritingHasTaken, [Next]_vars
                PROVE  Preamble!Next \/ UNCHANGED Preamble!vars
    OBVIOUS
  <2>1. ASSUME NEW key \in BOOLEAN, Relay(key) PROVE Preamble!Next
    BY <2>1, RelayPublishes DEF Preamble!Next
  <2>2. ASSUME \/ \E key, timeUp \in BOOLEAN : Fill(key, timeUp)
               \/ \E key \in BOOLEAN : GopCacheFull(key)
               \/ IndexOutOfRange
               \/ ProducerCloses
        PROVE  UNCHANGED Preamble!vars
    BY <2>2, ProducerUnseen
  <2>3. ASSUME NEW f \in Feeders, CreateFeeder(f) PROVE Preamble!Next
    BY <2>3, CreateFeederJoins DEF Preamble!Next
  <2>4. ASSUME NEW f \in Feeders, Get(f) PROVE Preamble!Next
    BY <2>4, GetTakes DEF Preamble!Next
  <2>5. ASSUME NEW f \in Feeders, WriteSucceeds(f) \/ DestroyFeeder(f)
        PROVE  UNCHANGED Preamble!vars
    BY <2>5, ConnectionUnseen
  <2>6. CASE UNCHANGED vars
    <3>1. UNCHANGED <<missed, delivered>> /\ Published' = Published /\ GopStart' = GopStart
      BY <2>6 DEF vars, ringVars, feederVars, Published, GopStart
    <3>2. \A f \in Feeders : Cursor(f)' = Cursor(f)
      BY <2>6, <3>1 DEF vars, feederVars, Cursor, Due
    <3>. QED  BY <3>1, <3>2, Unseen
  <2>. QED  BY <2>1, <2>2, <2>3, <2>4, <2>5, <2>6 DEF Next, Input, Connection
<1>. QED
  BY <1>1, <1>2, Invariance, WritingInvariance, PTL
     DEF Spec, ImplementsPreambleFeed, Preamble!Spec
=============================================================================
