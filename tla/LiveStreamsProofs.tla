------------------------- MODULE LiveStreamsProofs -------------------------
(***************************************************************************)
(* Proofs about live streaming, for every number of handlers, clients,     *)
(* streams and packets, every setting and every capacity.                  *)
(***************************************************************************)
EXTENDS LiveStreams, SequenceTheorems, TLAPS

(* s is the run of stream j's packets that ends with the m-th. *)
RunTo(s, j, m) == \A i \in DOMAIN s : s[i] = <<j, m - Len(s) + i>>

(* From its packets on, s has all of stream j's packets up to the m-th. *)
Covers(s, j, m) ==
  \A i \in DOMAIN s : \A n \in s[i][2] .. m : <<j, n>> \in PacketsOf(s)

Ordered(s) == \A i, k \in DOMAIN s : i < k => s[i][2] < s[k][2]

-----------------------------------------------------------------------------
(* Lemmas about sequences of packets. *)

LEMMA PacketFacts ==
  \A p \in PacketType : p[1] \in Nat /\ p[2] \in Nat /\ p = <<p[1], p[2]>>
BY LiveStreamsAssumption DEF PacketType, Streams, Numbers

(* The feed is a sequence of packets. *)
LEMMA FeedType ==
  ASSUME TypeOK, NEW c \in Clients
  PROVE  Feed(c) \in Seq(PacketType)
BY ConcatProperties DEF TypeOK, Feed

(* What Append does, at every index. *)
LEMMA AppendAt ==
  ASSUME NEW S, NEW s \in Seq(S), NEW p \in S
  PROVE  /\ Append(s, p) \in Seq(S)
         /\ Len(s) \in Nat
         /\ Len(Append(s, p)) = Len(s) + 1
         /\ DOMAIN s = 1 .. Len(s)
         /\ DOMAIN Append(s, p) = 1 .. Len(s) + 1
         /\ \A i \in 1 .. Len(s) : Append(s, p)[i] = s[i]
         /\ Append(s, p)[Len(s) + 1] = p
BY AppendProperties

(* What Tail does, at every index. *)
LEMMA TailAt ==
  ASSUME NEW S, NEW s \in Seq(S), s # << >>
  PROVE  /\ Tail(s) \in Seq(S)
         /\ Head(s) = s[1]
         /\ Len(s) \in Nat \ {0}
         /\ DOMAIN s = 1 .. Len(s)
         /\ Len(Tail(s)) = Len(s) - 1
         /\ DOMAIN Tail(s) = 1 .. Len(s) - 1
         /\ \A i \in 1 .. Len(s) - 1 : Tail(s)[i] = s[i + 1]
BY HeadTailProperties, EmptySeq

(* An element of a concatenation is one of the first or of the second. *)
LEMMA ConcatAt ==
  ASSUME NEW s \in Seq(PacketType), NEW t \in Seq(PacketType),
         NEW f, f = s \o t, NEW i \in DOMAIN f
  PROVE  \/ i \in DOMAIN s /\ f[i] = s[i]
         \/ i - Len(s) \in DOMAIN t /\ f[i] = t[i - Len(s)]
<1>1. /\ Len(s) \in Nat /\ Len(t) \in Nat
      /\ DOMAIN s = 1 .. Len(s) /\ DOMAIN t = 1 .. Len(t)
      /\ DOMAIN f = 1 .. Len(s) + Len(t)
      /\ \A k \in 1 .. Len(s) : f[k] = s[k]
      /\ \A k \in Len(s) + 1 .. Len(s) + Len(t) : f[k] = t[k - Len(s)]
  BY ConcatProperties
<1>2. CASE i \in 1 .. Len(s)
  BY <1>1, <1>2
<1>3. CASE i \in Len(s) + 1 .. Len(s) + Len(t)
  <2>1. i - Len(s) \in 1 .. Len(t)
    BY <1>1, <1>3
  <2>. QED  BY <1>1, <1>3, <2>1
<1>4. i \in 1 .. Len(s) + Len(t)
  BY <1>1
<1>5. \A a, b \in Nat : \A k \in 1 .. a + b : k \in 1 .. a \/ k \in a + 1 .. a + b
  OBVIOUS
<1>. QED  BY <1>1, <1>2, <1>3, <1>4, <1>5

LEMMA RunAppend ==
  ASSUME NEW s \in Seq(PacketType), NEW j, NEW m \in Nat,
         <<j, m + 1>> \in PacketType, RunTo(s, j, m)
  PROVE  RunTo(Append(s, <<j, m + 1>>), j, m + 1)
<1>. DEFINE p == <<j, m + 1>>
<1>1. p = <<j, m + 1>> /\ p \in PacketType
  OBVIOUS
<1>. HIDE DEF p
<1>2. /\ Len(s) \in Nat
      /\ Len(Append(s, p)) = Len(s) + 1
      /\ DOMAIN s = 1 .. Len(s)
      /\ DOMAIN Append(s, p) = 1 .. Len(s) + 1
      /\ \A i \in 1 .. Len(s) : Append(s, p)[i] = s[i]
      /\ Append(s, p)[Len(s) + 1] = p
  BY <1>1, AppendAt
<1>3. \A i \in DOMAIN Append(s, p) :
        Append(s, p)[i] = <<j, (m + 1) - Len(Append(s, p)) + i>>
  <2>. TAKE i \in DOMAIN Append(s, p)
  <2>1. CASE i = Len(s) + 1
    BY <1>1, <1>2, <2>1
  <2>2. CASE i \in 1 .. Len(s)
    BY <1>2, <2>2 DEF RunTo
  <2>. QED  BY <1>2, <2>1, <2>2
<1>. QED  BY <1>1, <1>3 DEF RunTo

LEMMA RunTail ==
  ASSUME NEW s \in Seq(PacketType), NEW j, NEW m \in Nat, s # << >>, RunTo(s, j, m)
  PROVE  RunTo(Tail(s), j, m)
<1>1. /\ Len(s) \in Nat \ {0}
      /\ DOMAIN s = 1 .. Len(s)
      /\ Len(Tail(s)) = Len(s) - 1
      /\ DOMAIN Tail(s) = 1 .. Len(s) - 1
      /\ \A i \in 1 .. Len(s) - 1 : Tail(s)[i] = s[i + 1]
  BY TailAt
<1>. QED  BY <1>1 DEF RunTo

(* A run that ends with the newest packet has all from its first on. *)
LEMMA RunCovers ==
  ASSUME NEW s \in Seq(PacketType), NEW j, NEW m \in Nat, RunTo(s, j, m)
  PROVE  Covers(s, j, m)
<1>1. Len(s) \in Nat /\ DOMAIN s = 1 .. Len(s)
  OBVIOUS
<1>2. ASSUME NEW i \in DOMAIN s, NEW n \in s[i][2] .. m
      PROVE  <<j, n>> \in PacketsOf(s)
  <2>1. i \in 1 .. Len(s) /\ s[i][2] = m - Len(s) + i
    BY <1>1 DEF RunTo
  <2>2. n \in Int /\ m - Len(s) + i <= n /\ n <= m
    BY <1>1, <2>1
  <2>3. n - m + Len(s) \in 1 .. Len(s)
    BY <1>1, <2>1, <2>2
  <2>4. s[n - m + Len(s)] = <<j, m - Len(s) + (n - m + Len(s))>>
    BY <1>1, <2>3 DEF RunTo
  <2>5. m - Len(s) + (n - m + Len(s)) = n
    BY <1>1, <2>2
  <2>. QED  BY <1>1, <2>3, <2>4, <2>5 DEF PacketsOf
<1>. QED  BY <1>2 DEF Covers

(* Where two sequences each cover, so does the one followed by the other. *)
LEMMA CoversConcat ==
  ASSUME NEW s \in Seq(PacketType), NEW t \in Seq(PacketType), NEW j, NEW m \in Nat,
         Covers(s, j, m), Covers(t, j, m)
  PROVE  Covers(s \o t, j, m)
<1>1. /\ Len(s) \in Nat /\ Len(t) \in Nat
      /\ DOMAIN s = 1 .. Len(s) /\ DOMAIN t = 1 .. Len(t)
      /\ DOMAIN (s \o t) = 1 .. Len(s) + Len(t)
      /\ \A i \in 1 .. Len(s) : (s \o t)[i] = s[i]
      /\ \A i \in Len(s) + 1 .. Len(s) + Len(t) : (s \o t)[i] = t[i - Len(s)]
  BY ConcatProperties
<1>2. PacketsOf(s) \subseteq PacketsOf(s \o t)
  BY <1>1 DEF PacketsOf
<1>3. PacketsOf(t) \subseteq PacketsOf(s \o t)
  <2>1. ASSUME NEW i \in DOMAIN t PROVE t[i] \in PacketsOf(s \o t)
    <3>1. /\ i + Len(s) \in DOMAIN (s \o t)
          /\ (s \o t)[i + Len(s)] = t[(i + Len(s)) - Len(s)]
          /\ (i + Len(s)) - Len(s) = i
      BY <1>1
    <3>. QED  BY <3>1 DEF PacketsOf
  <2>. QED  BY <2>1 DEF PacketsOf
<1>4. ASSUME NEW i \in DOMAIN (s \o t), NEW n \in (s \o t)[i][2] .. m
      PROVE  <<j, n>> \in PacketsOf(s \o t)
  <2>1. CASE i \in 1 .. Len(s)
    BY <1>1, <1>2, <2>1 DEF Covers
  <2>2. CASE i \in Len(s) + 1 .. Len(s) + Len(t)
    <3>1. i - Len(s) \in DOMAIN t
      BY <1>1, <2>2
    <3>. QED  BY <1>1, <1>3, <2>2, <3>1 DEF Covers
  <2>. QED  BY <1>1, <2>1, <2>2
<1>. QED  BY <1>4 DEF Covers

(* The packet put leaves no gap in a feed it is appended to. *)
LEMMA CoversAppend ==
  ASSUME NEW s \in Seq(PacketType), NEW j, NEW m \in Nat,
         <<j, m + 1>> \in PacketType, Covers(s, j, m)
  PROVE  Covers(Append(s, <<j, m + 1>>), j, m + 1)
<1>. DEFINE p == <<j, m + 1>>
<1>1. p = <<j, m + 1>> /\ p \in PacketType /\ p[2] = m + 1
  OBVIOUS
<1>. HIDE DEF p
<1>2. /\ Len(s) \in Nat
      /\ DOMAIN s = 1 .. Len(s)
      /\ DOMAIN Append(s, p) = 1 .. Len(s) + 1
      /\ \A i \in 1 .. Len(s) : Append(s, p)[i] = s[i]
      /\ Append(s, p)[Len(s) + 1] = p
  BY <1>1, AppendAt
<1>3. PacketsOf(s) \subseteq PacketsOf(Append(s, p)) /\ p \in PacketsOf(Append(s, p))
  BY <1>2 DEF PacketsOf
<1>4. ASSUME NEW i \in DOMAIN Append(s, p), NEW n \in Append(s, p)[i][2] .. m + 1
      PROVE  <<j, n>> \in PacketsOf(Append(s, p))
  <2>1. CASE n = m + 1
    BY <1>1, <1>3, <2>1
  <2>2. CASE n # m + 1
    <3>1. i # Len(s) + 1
      BY <1>1, <1>2, <2>2
    <3>2. i \in DOMAIN s /\ Append(s, p)[i] = s[i] /\ s[i] \in PacketType
      BY <1>2, <3>1
    <3>3. n \in s[i][2] .. m
      BY <2>2, <3>2, PacketFacts
    <3>. QED  BY <1>3, <3>2, <3>3 DEF Covers
  <2>. QED  BY <2>1, <2>2
<1>. QED  BY <1>1, <1>4 DEF Covers

(* A packet newer than all before it keeps a feed in order. *)
LEMMA OrderedAppend ==
  ASSUME NEW s \in Seq(PacketType), NEW p \in PacketType, Ordered(s),
         \A i \in DOMAIN s : s[i][2] < p[2]
  PROVE  Ordered(Append(s, p))
<1>1. /\ Len(s) \in Nat
      /\ DOMAIN s = 1 .. Len(s)
      /\ DOMAIN Append(s, p) = 1 .. Len(s) + 1
      /\ \A i \in 1 .. Len(s) : Append(s, p)[i] = s[i]
      /\ Append(s, p)[Len(s) + 1] = p
  BY AppendAt
<1>. QED  BY <1>1 DEF Ordered

(* So does leaving out the first. *)
LEMMA OrderedTail ==
  ASSUME NEW s \in Seq(PacketType), s # << >>, Ordered(s)
  PROVE  Ordered(Tail(s))
<1>1. /\ Len(s) \in Nat \ {0}
      /\ DOMAIN s = 1 .. Len(s)
      /\ DOMAIN Tail(s) = 1 .. Len(s) - 1
      /\ \A i \in 1 .. Len(s) - 1 : Tail(s)[i] = s[i + 1]
  BY TailAt
<1>. QED  BY <1>1 DEF Ordered

(* Taking the head of what is due to what was sent changes no feed. *)
LEMMA TakeFromSnapshot ==
  ASSUME NEW S, NEW g \in Seq(S), NEW s \in Seq(S), NEW ch \in Seq(S), s # << >>
  PROVE  Append(g, Head(s)) \o Tail(s) \o ch = g \o s \o ch
<1>1. Append(g, Head(s)) \o Tail(s) = g \o s
  OBVIOUS
<1>. QED  BY <1>1

LEMMA TakeFromChannel ==
  ASSUME NEW S, NEW g \in Seq(S), NEW ch \in Seq(S), ch # << >>
  PROVE  Append(g, Head(ch)) \o << >> \o Tail(ch) = g \o << >> \o ch
OBVIOUS

LEMMA SendIsAppend ==
  ASSUME NEW S, NEW g \in Seq(S), NEW s \in Seq(S), NEW ch \in Seq(S), NEW p \in S
  PROVE  g \o s \o Append(ch, p) = Append(g \o s \o ch, p)
OBVIOUS

(* A feed of which nothing is sent and nothing is in the snapshot. *)
LEMMA EmptyConcat ==
  ASSUME NEW S, NEW s \in Seq(S)
  PROVE  << >> \o s = s /\ << >> \o << >> \o s = s
BY ConcatEmptySeq

-----------------------------------------------------------------------------
(* The steps. *)

HandlerStates == {"posted", "admitted", "reading", "leaving", "done", "absent"}

ClientStates == {"new", "joined", "counted", "primed", "found",
                 "waiting", "sending", "closing", "done", "absent"}

(* The states of a client that has not taken its snapshot yet. *)
Before == {"new", "absent", "joined", "counted", "primed", "found"}

LEMMA InitInv == Init => IInv
<1>. SUFFICES ASSUME Init PROVE IInv
  OBVIOUS
<1>. USE LiveStreamsAssumption
<1>1. Len(<< >>) = 0 /\ DOMAIN << >> = {} /\ << >> \in Seq(PacketType)
  OBVIOUS
<1>2. TypeOK
  BY <1>1 DEF Init, TypeOK, Streams
<1>3. StreamsMade /\ MembersJoined
  BY DEF Init, StreamsMade, MembersJoined, Connected, Streams
<1>4. GopIsRun /\ ChannelFollows
  BY <1>1 DEF Init, GopIsRun, ChannelFollows, Streams
<1>5. FeedBegins /\ FirstIsDecodable /\ StartsDecodable
  BY <1>1 DEF Init, FeedBegins, FirstIsDecodable, StartsDecodable, Playing
<1>6. NoGap /\ NoDepartedClient
  BY DEF Init, NoGap, NoDepartedClient, Playing
<1>7. LiveInOrder
  <2>1. ASSUME NEW c \in Clients PROVE Feed(c) = << >>
    BY <1>1, EmptyConcat DEF Init, Feed
  <2>. QED  BY <1>1, <2>1 DEF LiveInOrder
<1>. QED  BY <1>2, <1>3, <1>4, <1>5, <1>6, <1>7 DEF IInv

(* Which ffmpeg runs, and where its handler is, the rest does not see. *)
LEMMA HandlersUnseen ==
  ASSUME IInv, UNCHANGED <<streamVars, members, clientVars>>,
         feed' \in Handlers \union {NoHandler}, handler' \in [Handlers -> HandlerStates]
  PROVE  IInv'
<1>. USE DEF IInv, streamVars, clientVars
<1>1. TypeOK'
  BY DEF TypeOK, HandlerStates
<1>2. StreamsMade' /\ MembersJoined' /\ NoDepartedClient'
  BY DEF StreamsMade, MembersJoined, Connected, NoDepartedClient
<1>3. GopIsRun' /\ ChannelFollows'
  BY DEF GopIsRun, ChannelFollows, Connected
<1>4. FeedBegins' /\ FirstIsDecodable' /\ StartsDecodable'
  BY DEF FeedBegins, FirstIsDecodable, StartsDecodable, Playing
<1>5. NoGap' /\ LiveInOrder'
  BY DEF NoGap, LiveInOrder, Playing, Feed
<1>. QED  BY <1>1, <1>2, <1>3, <1>4, <1>5

LEMMA AddStreamKeeps ==
  ASSUME IInv, NEW h \in Handlers, AddStream(h)
  PROVE  IInv'
<1>. USE LiveStreamsAssumption DEF IInv, AddStream, clientVars
<1>1. TypeOK'
  BY DEF TypeOK
<1>2. StreamsMade' /\ NoDepartedClient'
  BY DEF TypeOK, StreamsMade, NoDepartedClient, Streams
<1>3. MembersJoined' /\ GopIsRun' /\ ChannelFollows'
  BY DEF MembersJoined, GopIsRun, ChannelFollows, Connected
<1>4. FeedBegins' /\ FirstIsDecodable' /\ StartsDecodable'
  BY DEF FeedBegins, FirstIsDecodable, StartsDecodable, Playing
<1>5. NoGap' /\ LiveInOrder'
  BY DEF NoGap, LiveInOrder, Playing, Feed
<1>. QED  BY <1>1, <1>2, <1>3, <1>4, <1>5

LEMMA RemoveStreamKeeps ==
  ASSUME IInv, NEW h \in Handlers, RemoveStream(h)
  PROVE  IInv'
<1>. USE LiveStreamsAssumption DEF IInv, RemoveStream, clientVars
<1>1. TypeOK'
  BY DEF TypeOK
<1>2. StreamsMade' /\ NoDepartedClient'
  BY DEF StreamsMade, NoDepartedClient
<1>3. MembersJoined' /\ GopIsRun' /\ ChannelFollows'
  BY DEF MembersJoined, GopIsRun, ChannelFollows, Connected
<1>4. FeedBegins' /\ FirstIsDecodable' /\ StartsDecodable'
  BY DEF FeedBegins, FirstIsDecodable, StartsDecodable, Playing
<1>5. NoGap' /\ LiveInOrder'
  BY DEF NoGap, LiveInOrder, Playing, Feed
<1>. QED  BY <1>1, <1>2, <1>3, <1>4, <1>5

(***************************************************************************)
(* A connected client goes on, its feed unchanged: it may not go back to   *)
(* before its snapshot, nor play without one, and before it plays it may   *)
(* look up the Stream anew.                                                *)
(***************************************************************************)
LEMMA GoesOn ==
  ASSUME IInv, NEW c \in Clients, NEW to \in ClientStates \ {"new", "done", "absent"},
         Connected(c), Goes(c, to),
         UNCHANGED <<feed, handler, streamVars, members, joined, snapshot, channel,
                     overflowed, got>>,
         to \in Before => client[c] \in Before,
         to \in {"waiting", "sending"} => Playing(c) /\ source' = source,
         to = "found" => source'[c] # 0,
         \/ source' = source
         \/ client[c] \in Before
            /\ \E s \in 0 .. streams : source' = [source EXCEPT ![c] = s]
  PROVE  IInv'
<1>. USE DEF IInv, streamVars
<1>1. /\ client \in [Clients -> ClientStates]
      /\ client' = [client EXCEPT ![c] = to]
      /\ source \in [Clients -> 0 .. streams]
  BY DEF TypeOK, Goes, ClientStates
<1>2. TypeOK'
  BY <1>1 DEF TypeOK, ClientStates
<1>3. StreamsMade' /\ MembersJoined' /\ NoDepartedClient'
  BY <1>1 DEF StreamsMade, MembersJoined, Connected, NoDepartedClient
<1>4. GopIsRun' /\ ChannelFollows'
  BY <1>1 DEF GopIsRun, ChannelFollows, Connected
<1>5. FeedBegins'
  BY <1>1 DEF FeedBegins, Playing, Before
<1>6. \A d \in Clients : Playing(d)' => Playing(d) /\ source'[d] = source[d]
  BY <1>1 DEF Playing, Before
<1>7. StartsDecodable'
  BY <1>1 DEF FeedBegins, StartsDecodable, Before
<1>8. FirstIsDecodable'
  BY <1>6 DEF FirstIsDecodable
<1>9. \A d \in Clients : Feed(d)' = Feed(d)
  BY DEF Feed
<1>10. NoGap'
  BY <1>6, <1>9 DEF NoGap
<1>11. LiveInOrder'
  BY <1>9 DEF LiveInOrder
<1>. QED  BY <1>2, <1>3, <1>4, <1>5, <1>7, <1>8, <1>10, <1>11

LEMMA AddClientKeeps ==
  ASSUME IInv, NEW c \in Clients, AddClient(c)
  PROVE  IInv'
<1>. USE DEF IInv, streamVars, AddClient, Goes
<1>1. /\ client \in [Clients -> ClientStates]
      /\ client' = [client EXCEPT ![c] = IF streamMap = 0 THEN "done" ELSE "joined"]
      /\ joined \in [Clients -> 0 .. streams]
      /\ streamMap \in 0 .. streams /\ 0 .. streams \subseteq Streams \union {0}
      /\ members \in [Streams -> SUBSET Clients]
  BY LiveStreamsAssumption DEF TypeOK, ClientStates, Streams
<1>2. joined[c] = 0 /\ got[c] = << >> /\ snapshot[c] = << >>
  BY DEF MembersJoined, FeedBegins
<1>3. channel[c] = << >>
  BY <1>2, EmptySeq DEF ChannelFollows, TypeOK
<1>4. \A d \in Clients : d # c => joined'[d] = joined[d] /\ client'[d] = client[d]
  BY <1>1
<1>5. ~Playing(c)'
  BY <1>1 DEF Playing
<1>6. /\ members' \in [Streams -> SUBSET Clients]
      /\ joined' \in [Clients -> 0 .. streams]
      /\ streamMap # 0 => joined'[c] = streamMap
      /\ \A s \in Streams : \A d \in members'[s] :
           d \in members[s] \/ (d = c /\ s = streamMap)
  <2>1. CASE streamMap = 0
    BY <1>1, <2>1
  <2>2. CASE streamMap # 0
    BY <1>1, <2>2
  <2>. QED  BY <2>1, <2>2
<1>7. StreamsMade' /\ GopIsRun' /\ TypeOK'
  <2>1. client' \in [Clients -> ClientStates]
    BY <1>1 DEF ClientStates
  <2>2. TypeOK'
    BY <1>6, <2>1 DEF TypeOK, ClientStates
  <2>. QED  BY <1>1, <2>2 DEF StreamsMade, GopIsRun
<1>8. MembersJoined'
  <2>1. ASSUME NEW s \in Streams, NEW d \in members'[s] PROVE joined'[d] = s
    <3>1. d \in Clients
      BY <1>6
    <3>2. CASE d \in members[s]
      BY <1>2, <1>4, <3>1, <3>2 DEF MembersJoined, Streams
    <3>3. CASE d = c /\ s = streamMap
      BY <1>6, <3>3 DEF Streams
    <3>. QED  BY <1>6, <3>2, <3>3
  <2>2. ASSUME NEW d \in Clients
        PROVE  /\ Connected(d)' => joined'[d] # 0 /\ d \in members'[joined'[d]]
               /\ client'[d] \in {"new", "absent"} => joined'[d] = 0
    BY <1>1, <2>2 DEF MembersJoined, Connected
  <2>. QED  BY <2>1, <2>2 DEF MembersJoined
<1>9. NoDepartedClient'
  BY <1>1 DEF NoDepartedClient
<1>10. ChannelFollows'
  BY <1>1, <1>3, <1>4 DEF ChannelFollows, Connected
<1>11. FeedBegins' /\ StartsDecodable'
  BY <1>1, <1>2, <1>4 DEF FeedBegins, StartsDecodable, Playing
<1>12. FirstIsDecodable'
  BY <1>4, <1>5 DEF FirstIsDecodable, Playing
<1>13. NoGap' /\ LiveInOrder'
  BY <1>4, <1>5 DEF NoGap, LiveInOrder, Feed, Playing
<1>. QED  BY <1>7, <1>8, <1>9, <1>10, <1>11, <1>12, <1>13

LEMMA DeleteClientKeeps ==
  ASSUME IInv, NEW c \in Clients, DeleteClient(c)
  PROVE  IInv'
<1>. USE DEF IInv, streamVars, DeleteClient, Goes
<1>1. /\ client \in [Clients -> ClientStates]
      /\ client' = [client EXCEPT ![c] = "done"]
      /\ streamMap \in 0 .. streams /\ 0 .. streams \subseteq Streams \union {0}
      /\ members \in [Streams -> SUBSET Clients]
  BY LiveStreamsAssumption DEF TypeOK, ClientStates, Streams
<1>2. /\ members' \in [Streams -> SUBSET Clients]
      /\ \A s \in Streams : members'[s] \subseteq members[s] /\ members[s] \ {c} \subseteq members'[s]
      /\ streamMap # 0 => c \notin members'[streamMap]
  BY <1>1
<1>3. \A d \in Clients : d # c => client'[d] = client[d]
  BY <1>1
<1>4. TypeOK'
  BY <1>1, <1>2 DEF TypeOK, ClientStates
<1>5. StreamsMade' /\ GopIsRun'
  BY <1>2 DEF StreamsMade, GopIsRun
<1>6. MembersJoined'
  <2>1. joined \in [Clients -> 0 .. streams]
    BY DEF TypeOK
  <2>2. ASSUME NEW d \in Clients
        PROVE  /\ Connected(d)' => joined'[d] # 0 /\ d \in members'[joined'[d]]
               /\ client'[d] \in {"new", "absent"} => joined'[d] = 0
    BY <1>1, <1>2, <2>1, <2>2 DEF MembersJoined, Connected
  <2>3. ASSUME NEW s \in Streams, NEW d \in members'[s] PROVE joined'[d] = s
    BY <1>2, <2>3 DEF MembersJoined
  <2>. QED  BY <2>2, <2>3 DEF MembersJoined
<1>7. NoDepartedClient'
  BY <1>1, <1>2, <1>3 DEF NoDepartedClient
<1>8. ChannelFollows'
  BY <1>1, <1>3 DEF ChannelFollows, Connected
<1>9. FeedBegins' /\ StartsDecodable'
  BY <1>1, <1>3 DEF FeedBegins, StartsDecodable, Playing
<1>10. \A d \in Clients : Playing(d)' => Playing(d)
  BY <1>1 DEF Playing
<1>11. FirstIsDecodable'
  BY <1>10 DEF FirstIsDecodable
<1>12. NoGap' /\ LiveInOrder'
  BY <1>10 DEF NoGap, LiveInOrder, Feed
<1>. QED  BY <1>4, <1>5, <1>6, <1>7, <1>8, <1>9, <1>11, <1>12

-----------------------------------------------------------------------------
(* The steps that change a feed. *)

(* A channel that never filled has all from its first packet to the newest. *)
LEMMA ChannelRuns ==
  ASSUME IInv, NEW c \in Clients, Connected(c), c \notin overflowed
  PROVE  /\ joined[c] \in Streams
         /\ puts[joined[c]] \in Nat
         /\ RunTo(channel[c], joined[c], puts[joined[c]])
<1>1. joined[c] \in Streams
  BY LiveStreamsAssumption DEF IInv, TypeOK, MembersJoined, Streams
<1>2. puts[joined[c]] \in Nat
  BY <1>1, LiveStreamsAssumption DEF IInv, TypeOK
<1>. QED  BY <1>1, <1>2 DEF IInv, ChannelFollows, RunTo

(***************************************************************************)
(* The snapshot and the channel both end with the newest packet, so that   *)
(* there is no gap between them.                                           *)
(***************************************************************************)
LEMMA GetSnapshotKeeps ==
  ASSUME IInv, NEW c \in Clients, GetSnapshot(c)
  PROVE  IInv'
<1>. USE DEF IInv, streamVars, GetSnapshot, Goes
<1>1. /\ client \in [Clients -> ClientStates]
      /\ client' = [client EXCEPT ![c] = "waiting"]
      /\ client[c] = "found" /\ Connected(c)
      /\ snapshot \in [Clients -> Seq(PacketType)]
      /\ snapshot' = [snapshot EXCEPT ![c] = gopCache[source[c]]]
  BY DEF TypeOK, ClientStates, Connected
<1>2. source[c] \in Streams /\ source[c] # 0
  BY <1>1, LiveStreamsAssumption DEF TypeOK, FeedBegins, Streams
<1>3. /\ gopCache[source[c]] \in Seq(PacketType)
      /\ puts[source[c]] \in Nat
  BY <1>2, LiveStreamsAssumption DEF TypeOK
<1>4. snapshot'[c] = gopCache[source[c]] /\ client'[c] = "waiting"
  BY <1>1
<1>5. \A d \in Clients : d # c => snapshot'[d] = snapshot[d] /\ client'[d] = client[d]
  BY <1>1
<1>6. TypeOK'
  BY <1>1, <1>3 DEF TypeOK, ClientStates
<1>7. StreamsMade' /\ NoDepartedClient' /\ GopIsRun'
  BY <1>1 DEF StreamsMade, NoDepartedClient, GopIsRun
<1>8. MembersJoined' /\ ChannelFollows'
  BY <1>1, <1>4, <1>5 DEF MembersJoined, ChannelFollows, Connected
<1>9. got[c] = << >> /\ snapshot[c] = << >>
  BY <1>1 DEF FeedBegins
<1>10. FeedBegins'
  <2>1. ~config.gopCache => snapshot'[c] = << >>
    BY <1>2, <1>4 DEF GopIsRun
  <2>. QED  BY <1>2, <1>4, <1>5, <2>1 DEF FeedBegins, Playing
<1>11. StartsDecodable'
  BY DEF StartsDecodable
<1>12. FirstIsDecodable'
  <2>1. ASSUME config.gopCache, source[c] = joined[c]
        PROVE  IF snapshot'[c] # << >>
               THEN snapshot'[c][1] \in keyFrames \/ snapshot'[c][1][2] = 1
               ELSE IF channel[c] # << >> THEN channel[c][1][2] = 1
               ELSE puts[joined[c]] = 0
    <3>1. CASE snapshot'[c] # << >>
      BY <1>2, <1>4, <3>1 DEF GopIsRun
    <3>2. CASE snapshot'[c] = << >>
      <4>1. puts[joined[c]] = 0
        BY <1>2, <1>4, <2>1, <3>2 DEF GopIsRun
      <4>2. channel[c] = << >>
        <5>1. channel[c] \in Seq(PacketType)
          BY DEF TypeOK
        <5>2. \A i \in DOMAIN channel[c] : channel[c][i][2] \in 1 .. 0
          BY <4>1 DEF ChannelFollows
        <5>3. channel[c] # << >> => 1 \in DOMAIN channel[c]
          BY <5>1
        <5>. QED  BY <5>2, <5>3
      <4>. QED  BY <3>2, <4>1, <4>2
    <3>. QED  BY <3>1, <3>2
  <2>. QED  BY <1>5, <2>1 DEF FirstIsDecodable, Playing
<1>13. \A d \in Clients : d # c => Feed(d)' = Feed(d)
  BY <1>5 DEF Feed
<1>14. Feed(c)' = gopCache[source[c]] \o channel[c]
  <2>1. << >> \o gopCache[source[c]] = gopCache[source[c]]
    BY <1>3
  <2>. QED  BY <1>4, <1>9, <2>1 DEF Feed
<1>15. NoGap'
  <2>1. ASSUME source[c] = joined[c], c \notin overflowed
        PROVE  Covers(gopCache[source[c]] \o channel[c], joined[c], puts[joined[c]])
    <3>1. channel[c] \in Seq(PacketType)
      BY DEF TypeOK
    <3>2. Covers(channel[c], joined[c], puts[joined[c]])
      BY <1>1, <2>1, <3>1, ChannelRuns, RunCovers
    <3>3. RunTo(gopCache[source[c]], joined[c], puts[joined[c]])
      BY <1>2, <2>1 DEF GopIsRun, RunTo
    <3>4. Covers(gopCache[source[c]], joined[c], puts[joined[c]])
      BY <1>3, <2>1, <3>3, RunCovers
    <3>. QED  BY <1>3, <2>1, <3>1, <3>2, <3>4, CoversConcat
  <2>2. ASSUME NEW d \in Clients, Playing(d)', source[d] = joined[d], d \notin overflowed
        PROVE  \A i \in DOMAIN Feed(d)' : \A n \in Feed(d)'[i][2] .. puts[joined[d]] :
                 <<joined[d], n>> \in PacketsOf(Feed(d)')
    <3>1. CASE d = c
      BY <1>14, <2>1, <2>2, <3>1 DEF Covers
    <3>2. CASE d # c
      <4>1. Playing(d)
        BY <1>5, <2>2, <3>2 DEF Playing
      <4>. QED  BY <1>13, <2>2, <3>2, <4>1 DEF NoGap
    <3>. QED  BY <3>1, <3>2
  <2>. QED  BY <2>2 DEF NoGap
<1>16. LiveInOrder'
  <2>1. ~config.gopCache => Feed(c)' = Feed(c)
    BY <1>2, <1>4, <1>9 DEF GopIsRun, Feed
  <2>. QED  BY <1>13, <2>1 DEF LiveInOrder
<1>. QED  BY <1>6, <1>7, <1>8, <1>10, <1>11, <1>12, <1>15, <1>16

(* Get returns the head of the snapshot. *)
LEMMA GetFromSnapshot ==
  ASSUME IInv, NEW c \in Clients, client[c] = "waiting", snapshot[c] # << >>,
         got' = [got EXCEPT ![c] = Append(@, Head(snapshot[c]))],
         snapshot' = [snapshot EXCEPT ![c] = Tail(@)],
         Goes(c, "sending"),
         UNCHANGED <<feed, handler, streamVars, members, joined, source, channel,
                     overflowed>>
  PROVE  IInv'
<1>. USE DEF IInv, streamVars, Goes
<1>1. /\ client \in [Clients -> ClientStates]
      /\ client' = [client EXCEPT ![c] = "sending"]
      /\ snapshot \in [Clients -> Seq(PacketType)]
      /\ got \in [Clients -> Seq(PacketType)]
      /\ channel \in [Clients -> Seq(PacketType)]
      /\ snapshot[c] \in Seq(PacketType) /\ got[c] \in Seq(PacketType)
      /\ channel[c] \in Seq(PacketType)
  BY DEF TypeOK, ClientStates
<1>2. /\ Head(snapshot[c]) \in PacketType /\ Head(snapshot[c]) = snapshot[c][1]
      /\ Tail(snapshot[c]) \in Seq(PacketType)
  BY <1>1, TailAt
<1>3. /\ Append(got[c], Head(snapshot[c])) \in Seq(PacketType)
      /\ Append(got[c], Head(snapshot[c])) # << >>
      /\ got[c] # << >> => Append(got[c], Head(snapshot[c]))[1] = got[c][1]
      /\ got[c] = << >> => Append(got[c], Head(snapshot[c]))[1] = snapshot[c][1]
  BY <1>1, <1>2
<1>4. /\ got'[c] = Append(got[c], Head(snapshot[c]))
      /\ snapshot'[c] = Tail(snapshot[c]) /\ client'[c] = "sending"
  BY <1>1
<1>5. \A d \in Clients : d # c => /\ snapshot'[d] = snapshot[d] /\ got'[d] = got[d]
                                  /\ client'[d] = client[d]
  BY <1>1
<1>6. TypeOK'
  <2>1. snapshot' \in [Clients -> Seq(PacketType)] /\ got' \in [Clients -> Seq(PacketType)]
    BY <1>1, <1>2, <1>3
  <2>. QED  BY <1>1, <2>1 DEF TypeOK, ClientStates
<1>7. StreamsMade' /\ NoDepartedClient' /\ GopIsRun'
  BY <1>1 DEF StreamsMade, NoDepartedClient, GopIsRun
<1>8. MembersJoined' /\ ChannelFollows'
  <2>1. \A d \in Clients : /\ Connected(d)' = Connected(d)
                           /\ client'[d] \in {"new", "absent"} => client[d] \in {"new", "absent"}
    BY <1>4, <1>5 DEF Connected
  <2>2. MembersJoined'
    BY <2>1 DEF MembersJoined
  <2>3. ChannelFollows'
    BY <2>1 DEF ChannelFollows
  <2>. QED  BY <2>2, <2>3
<1>9. config.gopCache
  BY DEF FeedBegins, TypeOK
<1>10. FeedBegins'
  BY <1>4, <1>5, <1>9 DEF FeedBegins, Playing
<1>11. StartsDecodable'
  <2>1. ASSUME source[c] = joined[c], got[c] = << >>
        PROVE  snapshot[c][1] \in keyFrames \/ snapshot[c][1][2] = 1
    BY <1>9, <2>1 DEF FirstIsDecodable, Playing
  <2>2. ASSUME source[c] = joined[c]
        PROVE  got'[c][1] \in keyFrames \/ got'[c][1][2] = 1
    <3>1. CASE got[c] = << >>
      BY <1>3, <1>4, <2>1, <2>2, <3>1
    <3>2. CASE got[c] # << >>
      BY <1>3, <1>4, <2>2, <3>2 DEF StartsDecodable
    <3>. QED  BY <3>1, <3>2
  <2>. QED  BY <1>5, <1>9, <2>2 DEF StartsDecodable
<1>12. FirstIsDecodable'
  BY <1>3, <1>4, <1>5 DEF FirstIsDecodable, Playing
<1>13. \A d \in Clients : Feed(d)' = Feed(d)
  <2>1. Append(got[c], Head(snapshot[c])) \o Tail(snapshot[c]) \o channel[c]
          = got[c] \o snapshot[c] \o channel[c]
    BY <1>1, TakeFromSnapshot
  <2>. QED  BY <1>4, <1>5, <2>1 DEF Feed
<1>14. NoGap' /\ LiveInOrder'
  <2>1. \A d \in Clients : Playing(d)' => Playing(d)
    BY <1>4, <1>5 DEF Playing
  <2>2. NoGap'
    BY <1>13, <2>1 DEF NoGap
  <2>3. LiveInOrder'
    BY <1>13 DEF LiveInOrder
  <2>. QED  BY <2>2, <2>3
<1>. QED  BY <1>6, <1>7, <1>8, <1>10, <1>11, <1>12, <1>14

(* Get takes the head of the channel and returns it. *)
LEMMA GetFromChannel ==
  ASSUME IInv, NEW c \in Clients, client[c] = "waiting", snapshot[c] = << >>,
         channel[c] # << >>,
         config.gopCache \/ got[c] # << >> \/ IsKeyFrame(Head(channel[c])),
         got' = [got EXCEPT ![c] = Append(@, Head(channel[c]))],
         channel' = [channel EXCEPT ![c] = Tail(@)],
         Goes(c, "sending"),
         UNCHANGED <<feed, handler, streamVars, members, joined, source, snapshot,
                     overflowed>>
  PROVE  IInv'
<1>. USE DEF IInv, streamVars, Goes
<1>1. /\ client \in [Clients -> ClientStates]
      /\ client' = [client EXCEPT ![c] = "sending"]
      /\ got \in [Clients -> Seq(PacketType)]
      /\ channel \in [Clients -> Seq(PacketType)]
      /\ got[c] \in Seq(PacketType) /\ channel[c] \in Seq(PacketType)
  BY DEF TypeOK, ClientStates
<1>2. /\ Head(channel[c]) \in PacketType /\ Head(channel[c]) = channel[c][1]
      /\ Len(channel[c]) \in Nat \ {0} /\ 1 \in DOMAIN channel[c]
      /\ Tail(channel[c]) \in Seq(PacketType)
      /\ Len(Tail(channel[c])) = Len(channel[c]) - 1
      /\ DOMAIN Tail(channel[c]) = 1 .. Len(channel[c]) - 1
      /\ DOMAIN channel[c] = 1 .. Len(channel[c])
      /\ \A i \in 1 .. Len(channel[c]) - 1 : Tail(channel[c])[i] = channel[c][i + 1]
  BY <1>1, TailAt
<1>3. /\ Append(got[c], Head(channel[c])) \in Seq(PacketType)
      /\ Append(got[c], Head(channel[c])) # << >>
      /\ got[c] # << >> => Append(got[c], Head(channel[c]))[1] = got[c][1]
      /\ got[c] = << >> => Append(got[c], Head(channel[c]))[1] = channel[c][1]
      /\ \A i \in DOMAIN Append(got[c], Head(channel[c])) :
           \/ i \in DOMAIN got[c] /\ Append(got[c], Head(channel[c]))[i] = got[c][i]
           \/ Append(got[c], Head(channel[c]))[i] = channel[c][1]
  BY <1>1, <1>2
<1>4. /\ got'[c] = Append(got[c], Head(channel[c]))
      /\ channel'[c] = Tail(channel[c]) /\ client'[c] = "sending"
  BY <1>1
<1>5. \A d \in Clients : d # c => /\ channel'[d] = channel[d] /\ got'[d] = got[d]
                                  /\ client'[d] = client[d]
  BY <1>1
<1>6. \A d \in Clients : /\ Connected(d)' = Connected(d) /\ Playing(d)' = Playing(d)
                         /\ client'[d] \in Before => client[d] \in Before /\ d # c
                         /\ client'[d] \in {"new", "absent"} => client[d] \in {"new", "absent"}
  BY <1>4, <1>5 DEF Connected, Playing, Before
<1>7. TypeOK'
  <2>1. channel' \in [Clients -> Seq(PacketType)] /\ got' \in [Clients -> Seq(PacketType)]
    BY <1>1, <1>2, <1>3
  <2>2. \A d \in Clients : Len(channel'[d]) <= ClientCapacity
    BY <1>2, <1>4, <1>5, LiveStreamsAssumption DEF TypeOK
  <2>3. client' \in [Clients -> ClientStates]
    BY <1>1 DEF ClientStates
  <2>. QED  BY <2>1, <2>2, <2>3 DEF TypeOK, ClientStates
<1>8. StreamsMade' /\ GopIsRun'
  BY DEF StreamsMade, GopIsRun
<1>9. NoDepartedClient' /\ MembersJoined'
  BY <1>4, <1>5, <1>6 DEF NoDepartedClient, MembersJoined
<1>10. ChannelFollows'
  <2>1. \A i \in DOMAIN channel'[c] :
          joined[c] # 0 /\ channel'[c][i] \in {joined[c]} \X (1 .. puts[joined[c]])
    BY <1>2, <1>4 DEF ChannelFollows
  <2>2. ASSUME c \notin overflowed, NEW i \in DOMAIN channel'[c]
        PROVE  channel'[c][i] = <<joined[c], puts[joined[c]] - Len(channel'[c]) + i>>
    <3>1. Connected(c)
      BY DEF Connected
    <3>2. RunTo(Tail(channel[c]), joined[c], puts[joined[c]])
      BY <1>1, <2>2, <3>1, ChannelRuns, RunTail
    <3>. QED  BY <1>4, <2>2, <3>2 DEF RunTo
  <2>. QED  BY <1>5, <1>6, <2>1, <2>2 DEF ChannelFollows
<1>11. joined[c] # 0 /\ channel[c][1][2] <= puts[joined[c]]
  <2>1. joined[c] # 0 /\ channel[c][1] \in {joined[c]} \X (1 .. puts[joined[c]])
    BY <1>2 DEF ChannelFollows
  <2>. QED  BY <2>1
<1>12. FeedBegins'
  <2>1. ~config.gopCache => \A i \in DOMAIN got'[c] : got'[c][i][2] <= puts[joined[c]]
    BY <1>3, <1>4, <1>11 DEF FeedBegins
  <2>. QED  BY <1>5, <1>6, <1>11, <2>1 DEF FeedBegins, Before
<1>13. StartsDecodable'
  <2>1. ASSUME source[c] = joined[c]
        PROVE  got'[c][1] \in keyFrames \/ (config.gopCache /\ got'[c][1][2] = 1)
    <3>1. CASE got[c] # << >>
      BY <1>3, <1>4, <2>1, <3>1 DEF StartsDecodable
    <3>2. CASE got[c] = << >> /\ config.gopCache
      BY <1>3, <1>4, <2>1, <3>2 DEF FirstIsDecodable, Playing
    <3>3. CASE got[c] = << >> /\ IsKeyFrame(Head(channel[c]))
      BY <1>2, <1>3, <1>4, <3>3 DEF IsKeyFrame
    <3>. QED  BY <3>1, <3>2, <3>3
  <2>. QED  BY <1>5, <2>1 DEF StartsDecodable
<1>14. FirstIsDecodable'
  BY <1>3, <1>4, <1>5, <1>6 DEF FirstIsDecodable
<1>15. \A d \in Clients : Feed(d)' = Feed(d)
  <2>1. Append(got[c], Head(channel[c])) \o << >> \o Tail(channel[c])
          = got[c] \o << >> \o channel[c]
    BY <1>1, TakeFromChannel
  <2>. QED  BY <1>4, <1>5, <2>1 DEF Feed
<1>16. NoGap'
  BY <1>6, <1>15 DEF NoGap
<1>17. LiveInOrder'
  BY <1>15 DEF LiveInOrder
<1>. QED  BY <1>7, <1>8, <1>9, <1>10, <1>12, <1>13, <1>14, <1>16, <1>17

(* Without the GOP cache, Get passes over a packet before the first keyframe. *)
LEMMA GetPassesOver ==
  ASSUME IInv, NEW c \in Clients, client[c] = "waiting", snapshot[c] = << >>,
         channel[c] # << >>, ~config.gopCache, got[c] = << >>,
         channel' = [channel EXCEPT ![c] = Tail(@)],
         UNCHANGED <<feed, handler, streamVars, members, client, joined, source, snapshot,
                     overflowed, got>>
  PROVE  IInv'
<1>. USE DEF IInv, streamVars
<1>1. /\ channel \in [Clients -> Seq(PacketType)]
      /\ channel[c] \in Seq(PacketType)
  BY DEF TypeOK
<1>2. /\ Len(channel[c]) \in Nat \ {0}
      /\ Tail(channel[c]) \in Seq(PacketType)
      /\ Len(Tail(channel[c])) = Len(channel[c]) - 1
      /\ DOMAIN Tail(channel[c]) = 1 .. Len(channel[c]) - 1
      /\ DOMAIN channel[c] = 1 .. Len(channel[c])
      /\ \A i \in 1 .. Len(channel[c]) - 1 : Tail(channel[c])[i] = channel[c][i + 1]
  BY <1>1, TailAt
<1>3. /\ channel'[c] = Tail(channel[c])
      /\ \A d \in Clients : d # c => channel'[d] = channel[d]
  BY <1>1
<1>4. TypeOK'
  <2>1. channel' \in [Clients -> Seq(PacketType)]
    BY <1>1, <1>2
  <2>2. \A d \in Clients : Len(channel'[d]) <= ClientCapacity
    BY <1>2, <1>3, LiveStreamsAssumption DEF TypeOK
  <2>. QED  BY <2>1, <2>2 DEF TypeOK
<1>5. StreamsMade' /\ GopIsRun' /\ NoDepartedClient' /\ MembersJoined'
  BY DEF StreamsMade, GopIsRun, NoDepartedClient, MembersJoined, Connected
<1>6. FeedBegins' /\ StartsDecodable' /\ FirstIsDecodable'
  BY DEF FeedBegins, StartsDecodable, FirstIsDecodable, Playing
<1>7. ASSUME c \notin overflowed
      PROVE  /\ RunTo(Tail(channel[c]), joined[c], puts[joined[c]])
             /\ Covers(Tail(channel[c]), joined[c], puts[joined[c]])
  <2>1. Connected(c)
    BY DEF Connected
  <2>2. RunTo(Tail(channel[c]), joined[c], puts[joined[c]])
    BY <1>1, <1>7, <2>1, ChannelRuns, RunTail
  <2>. QED  BY <1>2, <1>7, <2>1, <2>2, ChannelRuns, RunCovers
<1>8. ChannelFollows'
  <2>1. \A i \in DOMAIN channel'[c] :
          joined[c] # 0 /\ channel'[c][i] \in {joined[c]} \X (1 .. puts[joined[c]])
    BY <1>2, <1>3 DEF ChannelFollows
  <2>2. c \notin overflowed => \A i \in DOMAIN channel'[c] :
          channel'[c][i] = <<joined[c], puts[joined[c]] - Len(channel'[c]) + i>>
    BY <1>3, <1>7 DEF RunTo
  <2>. QED  BY <1>3, <2>1, <2>2 DEF ChannelFollows, Connected
<1>9. /\ Feed(c) = channel[c] /\ Feed(c)' = Tail(channel[c])
      /\ \A d \in Clients : d # c => Feed(d)' = Feed(d)
  <2>1. /\ << >> \o << >> \o channel[c] = channel[c]
        /\ << >> \o << >> \o Tail(channel[c]) = Tail(channel[c])
    BY <1>1, <1>2, EmptyConcat
  <2>. QED  BY <1>3, <2>1 DEF Feed
<1>10. NoGap'
  <2>1. ASSUME NEW d \in Clients, Playing(d), source[d] = joined[d], d \notin overflowed
        PROVE  \A i \in DOMAIN Feed(d)' : \A n \in Feed(d)'[i][2] .. puts[joined[d]] :
                 <<joined[d], n>> \in PacketsOf(Feed(d)')
    <3>1. CASE d = c
      BY <1>7, <1>9, <2>1, <3>1 DEF Covers
    <3>2. CASE d # c
      BY <1>9, <2>1, <3>2 DEF NoGap
    <3>. QED  BY <3>1, <3>2
  <2>. QED  BY <2>1 DEF NoGap, Playing
<1>11. LiveInOrder'
  <2>1. Ordered(Tail(channel[c]))
    <3>1. Ordered(channel[c])
      BY <1>9 DEF LiveInOrder, Ordered
    <3>. QED  BY <1>1, <3>1, OrderedTail
  <2>. QED  BY <1>9, <2>1 DEF LiveInOrder, Ordered
<1>. QED  BY <1>4, <1>5, <1>6, <1>8, <1>10, <1>11

LEMMA GetKeeps ==
  ASSUME IInv, NEW c \in Clients, Get(c)
  PROVE  IInv'
<1>1. CASE snapshot[c] # << >>
  BY <1>1, GetFromSnapshot DEF Get
<1>2. CASE snapshot[c] = << >> /\
           (config.gopCache \/ got[c] # << >> \/ IsKeyFrame(Head(channel[c])))
  BY <1>2, GetFromChannel DEF Get
<1>3. CASE snapshot[c] = << >> /\
           ~(config.gopCache \/ got[c] # << >> \/ IsKeyFrame(Head(channel[c])))
  BY <1>3, GetPassesOver DEF Get
<1>. QED  BY <1>1, <1>2, <1>3

-----------------------------------------------------------------------------
(* put: the packet goes to the GOP cache and to every client with room. *)

(* What put has in hand. *)
LEMMA PutFacts ==
  ASSUME IInv, NEW h \in Handlers, NEW key \in BOOLEAN, Put(h, key)
  PROVE  /\ streamMap \in Streams
         /\ puts[streamMap] \in Nat /\ puts \in [Streams -> Nat]
         /\ <<streamMap, puts[streamMap] + 1>> \in PacketType
         /\ puts' = [puts EXCEPT ![streamMap] = puts[streamMap] + 1]
         /\ puts' \in [Streams -> 0 .. MaxPuts]
         /\ puts'[streamMap] = puts[streamMap] + 1
         /\ \A s \in Streams : s # streamMap => puts'[s] = puts[s]
         /\ keyFrames \subseteq keyFrames'
         /\ key => <<streamMap, puts[streamMap] + 1>> \in keyFrames'
         /\ keyFrames' \subseteq PacketType
<1>. USE LiveStreamsAssumption DEF IInv, TypeOK, Put
<1>1. streamMap \in Streams
  BY DEF Streams
<1>2. /\ puts \in [Streams -> Nat] /\ puts[streamMap] \in Nat
      /\ puts[streamMap] + 1 \in 1 .. MaxPuts
  BY <1>1
<1>3. <<streamMap, puts[streamMap] + 1>> \in PacketType
  BY <1>1, <1>2 DEF PacketType, Numbers
<1>4. puts' = [puts EXCEPT ![streamMap] = puts[streamMap] + 1]
  OBVIOUS
<1>5. /\ puts' \in [Streams -> 0 .. MaxPuts]
      /\ puts'[streamMap] = puts[streamMap] + 1
      /\ \A s \in Streams : s # streamMap => puts'[s] = puts[s]
  BY ONLY <1>1, <1>2, <1>4, puts \in [Streams -> 0 .. MaxPuts], LiveStreamsAssumption
<1>6. /\ keyFrames \subseteq keyFrames' /\ keyFrames' \subseteq PacketType
      /\ key => <<streamMap, puts[streamMap] + 1>> \in keyFrames'
  BY <1>3
<1>. QED  BY <1>1, <1>2, <1>3, <1>4, <1>5, <1>6

(* What it does to the GOP cache of its Stream. *)
LEMMA PutGop ==
  ASSUME IInv, NEW h \in Handlers, NEW key \in BOOLEAN, Put(h, key)
  PROVE  /\ GopIsRun'
         /\ gopCache' \in [Streams -> Seq(PacketType)]
         /\ \A s \in Streams : Len(gopCache'[s]) <= GopCacheLength
<1>. DEFINE s == streamMap
            p == <<s, puts[s] + 1>>
            g == GopBefore(s, key)
<1>1. /\ s \in Streams /\ puts[s] \in Nat /\ p \in PacketType /\ p = <<s, puts[s] + 1>>
      /\ puts'[s] = puts[s] + 1 /\ p[2] = puts[s] + 1
      /\ \A r \in Streams : r # s => puts'[r] = puts[r]
      /\ keyFrames \subseteq keyFrames'
      /\ key => p \in keyFrames'
  BY PutFacts
<1>2. /\ gopCache \in [Streams -> Seq(PacketType)] /\ config \in SettingType
      /\ \A r \in Streams : Len(gopCache[r]) <= GopCacheLength
      /\ GopCacheLength \in Nat \ {0}
  BY LiveStreamsAssumption DEF IInv, TypeOK
<1>3. gopCache[s] \in Seq(PacketType) /\ << >> \in Seq(PacketType)
  BY <1>1, <1>2
<1>4. g = IF key THEN << >> ELSE gopCache[s]
  BY DEF GopBefore
<1>5. /\ g \in Seq(PacketType) /\ Len(g) \in Nat /\ Len(g) <= puts[s]
      /\ \A i \in DOMAIN g : g[i] = <<s, puts[s] - Len(g) + i>>
      /\ g # << >> => g[1] \in keyFrames \/ g[1][2] = 1
      /\ config.gopCache /\ g = << >> => key \/ puts[s] = 0
  <2>1. CASE key
    BY <1>1, <1>3, <1>4, <2>1
  <2>2. CASE ~key
    BY <1>1, <1>3, <1>4, <2>2 DEF IInv, GopIsRun
  <2>. QED  BY <2>1, <2>2
<1>. HIDE DEF g, p
<1>6. CASE ~config.gopCache
  <2>1. gopCache' = gopCache
    BY <1>6 DEF Put
  <2>2. \A r \in Streams : gopCache[r] = << >>
    BY <1>6 DEF IInv, GopIsRun
  <2>3. config' = config /\ \A r \in Streams : puts'[r] \in Nat /\ 0 <= puts'[r]
    BY PutFacts, LiveStreamsAssumption DEF Put
  <2>4. GopIsRun'
    BY <1>6, <2>1, <2>2, <2>3 DEF GopIsRun
  <2>. QED  BY <1>2, <2>1, <2>4
<1>7. CASE config.gopCache
  <2>1. gopCache' = [gopCache EXCEPT ![s] = Append(g, p)] /\ config' = config
    BY <1>7 DEF Put, g, p
  <2>2. Len(g) < GopCacheLength
    BY <1>7 DEF Put, GopAccepts, g
  <2>3. /\ Append(g, p) \in Seq(PacketType)
        /\ Len(Append(g, p)) = Len(g) + 1
        /\ DOMAIN Append(g, p) = 1 .. Len(g) + 1
        /\ DOMAIN g = 1 .. Len(g)
        /\ \A i \in 1 .. Len(g) : Append(g, p)[i] = g[i]
        /\ Append(g, p)[Len(g) + 1] = p
    BY <1>1, <1>5, AppendAt
  <2>4. /\ gopCache'[s] = Append(g, p)
        /\ \A r \in Streams : r # s => gopCache'[r] = gopCache[r]
        /\ gopCache' \in [Streams -> Seq(PacketType)]
    BY <1>1, <1>2, <2>1, <2>3
  <2>5. \A r \in Streams : Len(gopCache'[r]) <= GopCacheLength
    BY <1>2, <1>5, <2>2, <2>3, <2>4
  <2>6. \A i \in DOMAIN Append(g, p) :
          Append(g, p)[i] = <<s, (puts[s] + 1) - Len(Append(g, p)) + i>>
    <3>1. RunTo(g, s, puts[s])
      BY <1>5 DEF RunTo
    <3>. QED  BY <1>1, <1>5, <3>1, RunAppend DEF RunTo
  <2>7. Append(g, p)[1] \in keyFrames' \/ Append(g, p)[1][2] = 1
    <3>1. CASE g = << >>
      BY <1>1, <1>5, <1>7, <2>3, <3>1
    <3>2. CASE g # << >>
      <4>1. 1 \in 1 .. Len(g)
        BY <1>5, <3>2
      <4>. QED  BY <1>1, <1>5, <2>3, <3>2, <4>1
    <3>. QED  BY <3>1, <3>2
  <2>8. Append(g, p) # << >>
    BY <2>3
  <2>9. GopIsRun'
    <3>. SUFFICES ASSUME NEW r \in Streams
                  PROVE  /\ Len(gopCache'[r]) <= puts'[r]
                         /\ \A i \in DOMAIN gopCache'[r] :
                              gopCache'[r][i] = <<r, puts'[r] - Len(gopCache'[r]) + i>>
                         /\ gopCache'[r] # << >> => \/ gopCache'[r][1] \in keyFrames'
                                                   \/ gopCache'[r][1][2] = 1
                         /\ gopCache'[r] = << >> => puts'[r] = 0
      BY <1>7, <2>1 DEF GopIsRun
    <3>1. CASE r = s
      <4>1. Len(gopCache'[r]) <= puts'[r]
        BY <1>1, <1>5, <2>3, <2>4, <3>1
      <4>. QED  BY <1>1, <2>4, <2>6, <2>7, <2>8, <3>1, <4>1
    <3>2. CASE r # s
      BY <1>1, <1>7, <2>4, <3>2 DEF IInv, GopIsRun
    <3>. QED  BY <3>1, <3>2
  <2>. QED  BY <2>4, <2>5, <2>9
<1>. QED  BY <1>6, <1>7

(* What it does to the channels. *)
LEMMA PutChannels ==
  ASSUME IInv, NEW h \in Handlers, NEW key \in BOOLEAN, Put(h, key)
  PROVE  /\ channel \in [Clients -> Seq(PacketType)]
         /\ channel' \in [Clients -> Seq(PacketType)]
         /\ overflowed \subseteq overflowed' /\ overflowed' \subseteq Clients
         /\ \A c \in Clients :
              \/ /\ c \in members[streamMap] /\ joined[c] = streamMap
                 /\ Len(channel[c]) < ClientCapacity
                 /\ channel'[c] = Append(channel[c], <<streamMap, puts[streamMap] + 1>>)
              \/ /\ channel'[c] = channel[c]
                 /\ c \in members[streamMap] => /\ c \in overflowed'
                                               /\ Len(channel[c]) >= ClientCapacity
<1>. DEFINE p == <<streamMap, puts[streamMap] + 1>>
            full == {c \in members[streamMap] : Len(channel[c]) >= ClientCapacity}
<1>1. streamMap \in Streams /\ p \in PacketType
  BY PutFacts
<1>. HIDE DEF p
<1>2. channel \in [Clients -> Seq(PacketType)] /\ members[streamMap] \subseteq Clients
  BY <1>1 DEF IInv, TypeOK
<1>3. /\ channel' = [c \in Clients |-> IF c \in members[streamMap] \ full
                                      THEN Append(channel[c], p) ELSE channel[c]]
      /\ overflowed' = overflowed \union full
  BY DEF Put, SendToClients, p
<1>4. \A c \in Clients : channel[c] \in Seq(PacketType) /\ Append(channel[c], p) \in Seq(PacketType)
  BY <1>1, <1>2
<1>5. channel' \in [Clients -> Seq(PacketType)]
  BY <1>3, <1>4
<1>6. \A c \in Clients : Len(channel[c]) \in Nat /\ ClientCapacity \in Nat
  BY <1>4, LiveStreamsAssumption
<1>7. \A c \in members[streamMap] : joined[c] = streamMap
  BY <1>1 DEF IInv, MembersJoined
<1>8. ASSUME NEW c \in Clients
      PROVE  \/ /\ c \in members[streamMap] /\ joined[c] = streamMap
                /\ Len(channel[c]) < ClientCapacity
                /\ channel'[c] = Append(channel[c], p)
             \/ /\ channel'[c] = channel[c]
                /\ c \in members[streamMap] => /\ c \in overflowed'
                                              /\ Len(channel[c]) >= ClientCapacity
  <2>1. CASE c \in members[streamMap] \ full
    BY <1>3, <1>6, <1>7, <2>1
  <2>2. CASE c \notin members[streamMap] \ full
    BY <1>3, <2>2
  <2>. QED  BY <2>1, <2>2
<1>9. overflowed \subseteq Clients
  BY DEF IInv, TypeOK
<1>. QED  BY <1>2, <1>3, <1>5, <1>8, <1>9 DEF p

(* What it does to the feeds: a client with room has the packet last. *)
LEMMA PutFeeds ==
  ASSUME IInv, NEW h \in Handlers, NEW key \in BOOLEAN, Put(h, key),
         NEW c \in Clients
  PROVE  \/ /\ joined[c] = streamMap
            /\ Feed(c)' = Append(Feed(c), <<streamMap, puts[streamMap] + 1>>)
         \/ /\ Feed(c)' = Feed(c)
            /\ c \in members[streamMap] => c \in overflowed'
<1>. DEFINE p == <<streamMap, puts[streamMap] + 1>>
<1>1. p \in PacketType
  BY PutFacts
<1>. HIDE DEF p
<1>2. /\ got[c] \in Seq(PacketType) /\ snapshot[c] \in Seq(PacketType)
      /\ channel[c] \in Seq(PacketType) /\ got' = got /\ snapshot' = snapshot
  BY DEF IInv, TypeOK, Put
<1>3. \/ joined[c] = streamMap /\ channel'[c] = Append(channel[c], p)
      \/ channel'[c] = channel[c] /\ (c \in members[streamMap] => c \in overflowed')
  BY PutChannels DEF p
<1>4. got[c] \o snapshot[c] \o Append(channel[c], p)
        = Append(got[c] \o snapshot[c] \o channel[c], p)
  <2>1. ASSUME NEW g \in Seq(PacketType), NEW s \in Seq(PacketType),
               NEW ch \in Seq(PacketType), NEW q \in PacketType
        PROVE  g \o s \o Append(ch, q) = Append(g \o s \o ch, q)
    BY ONLY SendIsAppend, <2>1
  <2>. QED  BY ONLY <1>1, <1>2, <2>1
<1>. QED  BY <1>2, <1>3, <1>4 DEF Feed, p

LEMMA PutKeepsType ==
  ASSUME IInv, NEW h \in Handlers, NEW key \in BOOLEAN, Put(h, key)
  PROVE  TypeOK'
<1>1. /\ channel \in [Clients -> Seq(PacketType)] /\ channel' \in [Clients -> Seq(PacketType)]
      /\ overflowed' \subseteq Clients
  BY PutChannels
<1>2. \A c \in Clients : Len(channel'[c]) <= ClientCapacity
  <2>. TAKE c \in Clients
  <2>1. Len(channel[c]) \in Nat /\ Len(channel[c]) <= ClientCapacity /\ ClientCapacity \in Nat
    BY <1>1, LiveStreamsAssumption DEF IInv, TypeOK
  <2>2. \/ channel'[c] = channel[c]
        \/ /\ Len(channel[c]) < ClientCapacity
           /\ Len(channel'[c]) = Len(channel[c]) + 1
    <3>1. \/ channel'[c] = channel[c]
          \/ /\ Len(channel[c]) < ClientCapacity
             /\ channel'[c] = Append(channel[c], <<streamMap, puts[streamMap] + 1>>)
      BY PutChannels
    <3>2. Len(Append(channel[c], <<streamMap, puts[streamMap] + 1>>)) = Len(channel[c]) + 1
      BY <1>1, PutFacts, AppendAt
    <3>. QED  BY <3>1, <3>2
  <2>. QED  BY <2>1, <2>2
<1>3. puts' \in [Streams -> 0 .. MaxPuts] /\ keyFrames' \subseteq PacketType
  BY PutFacts
<1>4. gopCache' \in [Streams -> Seq(PacketType)] /\ \A s \in Streams : Len(gopCache'[s]) <= GopCacheLength
  BY PutGop
<1>5. handler' \in [Handlers -> HandlerStates]
  BY DEF IInv, TypeOK, Put, HandlerStates
<1>. QED  BY <1>1, <1>2, <1>3, <1>4, <1>5 DEF IInv, TypeOK, Put, HandlerStates

LEMMA PutKeepsChannels ==
  ASSUME IInv, NEW h \in Handlers, NEW key \in BOOLEAN, Put(h, key)
  PROVE  ChannelFollows'
<1>. DEFINE p == <<streamMap, puts[streamMap] + 1>>
<1>1. /\ streamMap \in Streams /\ p \in PacketType /\ puts[streamMap] \in Nat
      /\ puts'[streamMap] = puts[streamMap] + 1
      /\ \A s \in Streams : s # streamMap => puts'[s] = puts[s]
      /\ puts \in [Streams -> Nat] /\ streamMap # 0
  BY PutFacts DEF Put
<1>2. UNCHANGED <<joined, members, client>> /\ overflowed \subseteq overflowed'
  BY PutChannels DEF Put
<1>. SUFFICES ASSUME NEW c \in Clients
     PROVE  /\ \A i \in DOMAIN channel'[c] :
                 joined[c] # 0 /\ channel'[c][i] \in {joined[c]} \X (1 .. puts'[joined[c]])
            /\ Connected(c) /\ c \notin overflowed' => RunTo(channel'[c], joined[c], puts'[joined[c]])
  BY <1>2 DEF ChannelFollows, Connected, RunTo
<1>3. /\ \A i \in DOMAIN channel[c] :
           joined[c] # 0 /\ channel[c][i] \in {joined[c]} \X (1 .. puts[joined[c]])
      /\ Connected(c) /\ c \notin overflowed' => RunTo(channel[c], joined[c], puts[joined[c]])
  BY <1>2 DEF IInv, ChannelFollows, RunTo
<1>4. channel[c] \in Seq(PacketType) /\ joined[c] \in Streams \union {0}
  BY LiveStreamsAssumption DEF IInv, TypeOK, Streams
<1>5. joined[c] # 0 =>
        /\ puts[joined[c]] \in Nat /\ puts'[joined[c]] \in Nat
        /\ puts[joined[c]] <= puts'[joined[c]]
  BY <1>1, <1>4
<1>6. CASE /\ joined[c] = streamMap
           /\ channel'[c] = Append(channel[c], p)
  <2>1. /\ DOMAIN channel'[c] = 1 .. Len(channel[c]) + 1
        /\ DOMAIN channel[c] = 1 .. Len(channel[c]) /\ Len(channel[c]) \in Nat
        /\ \A i \in 1 .. Len(channel[c]) : channel'[c][i] = channel[c][i]
        /\ channel'[c][Len(channel[c]) + 1] = p
    BY <1>1, <1>4, <1>6, AppendAt
  <2>2. p \in {joined[c]} \X (1 .. puts'[joined[c]])
    BY <1>1, <1>6
  <2>3. \A i \in DOMAIN channel[c] : channel[c][i] \in {joined[c]} \X (1 .. puts'[joined[c]])
    <3>. TAKE i \in DOMAIN channel[c]
    <3>1. channel[c][i] \in {joined[c]} \X (1 .. puts[joined[c]])
      BY <1>3
    <3>2. 1 .. puts[joined[c]] \subseteq 1 .. puts'[joined[c]]
      BY <1>3, <1>5
    <3>. QED  BY <3>1, <3>2
  <2>4. \A i \in DOMAIN channel'[c] :
          joined[c] # 0 /\ channel'[c][i] \in {joined[c]} \X (1 .. puts'[joined[c]])
    BY <1>1, <1>6, <2>1, <2>2, <2>3
  <2>5. Connected(c) /\ c \notin overflowed' => RunTo(channel'[c], joined[c], puts'[joined[c]])
    BY <1>1, <1>3, <1>4, <1>6, RunAppend
  <2>. QED  BY <2>4, <2>5
<1>7. CASE /\ channel'[c] = channel[c]
           /\ c \in members[streamMap] => c \in overflowed'
  <2>1. \A i \in DOMAIN channel[c] :
          joined[c] # 0 /\ channel[c][i] \in {joined[c]} \X (1 .. puts'[joined[c]])
    <3>. TAKE i \in DOMAIN channel[c]
    <3>1. joined[c] # 0 /\ channel[c][i] \in {joined[c]} \X (1 .. puts[joined[c]])
      BY <1>3
    <3>2. 1 .. puts[joined[c]] \subseteq 1 .. puts'[joined[c]]
      BY <1>3, <1>5
    <3>. QED  BY <3>1, <3>2
  <2>2. Connected(c) /\ c \notin overflowed' => puts'[joined[c]] = puts[joined[c]]
    BY <1>1, <1>4, <1>7 DEF IInv, MembersJoined
  <2>. QED  BY <1>3, <1>7, <2>1, <2>2
<1>. QED  BY <1>6, <1>7, PutChannels

LEMMA PutKeepsFirst ==
  ASSUME IInv, NEW h \in Handlers, NEW key \in BOOLEAN, Put(h, key)
  PROVE  FirstIsDecodable'
<1>. DEFINE p == <<streamMap, puts[streamMap] + 1>>
<1>1. /\ streamMap \in Streams /\ p \in PacketType /\ puts[streamMap] \in Nat
      /\ \A s \in Streams : s # streamMap => puts'[s] = puts[s]
      /\ keyFrames \subseteq keyFrames' /\ p[2] = puts[streamMap] + 1
  BY PutFacts
<1>2. UNCHANGED <<config, client, joined, source, snapshot, got>>
  BY DEF Put
<1>. SUFFICES ASSUME NEW c \in Clients, config.gopCache, Playing(c), source[c] = joined[c],
                     got[c] = << >>
     PROVE  IF snapshot[c] # << >>
            THEN snapshot[c][1] \in keyFrames' \/ snapshot[c][1][2] = 1
            ELSE IF channel'[c] # << >> THEN channel'[c][1][2] = 1
            ELSE puts'[joined[c]] = 0
  BY <1>2 DEF FirstIsDecodable, Playing
<1>3. IF snapshot[c] # << >>
      THEN snapshot[c][1] \in keyFrames \/ snapshot[c][1][2] = 1
      ELSE IF channel[c] # << >> THEN channel[c][1][2] = 1
      ELSE puts[joined[c]] = 0
  BY DEF IInv, FirstIsDecodable
<1>4. /\ Connected(c) /\ joined[c] \in Streams /\ c \in members[joined[c]]
      /\ channel[c] \in Seq(PacketType) /\ Len(channel[c]) \in Nat /\ ClientCapacity > 0
  BY LiveStreamsAssumption DEF IInv, TypeOK, MembersJoined, Connected, Playing, Streams
<1>5. CASE snapshot[c] # << >>
  BY <1>1, <1>3, <1>5
<1>6. CASE snapshot[c] = << >> /\ channel[c] # << >>
  <2>1. channel'[c] # << >> /\ channel'[c][1] = channel[c][1]
    <3>1. Append(channel[c], p) # << >> /\ Append(channel[c], p)[1] = channel[c][1]
      BY <1>1, <1>4, <1>6
    <3>. QED  BY <1>6, <3>1, PutChannels
  <2>. QED  BY <1>3, <1>6, <2>1
<1>7. CASE snapshot[c] = << >> /\ channel[c] = << >>
  <2>1. puts[joined[c]] = 0
    BY <1>3, <1>7
  <2>2. CASE joined[c] = streamMap
    <3>1. Len(channel[c]) = 0
      BY <1>7
    <3>2. channel'[c] = Append(channel[c], p)
      BY <1>4, <2>2, <3>1, PutChannels, LiveStreamsAssumption
    <3>3. Append(channel[c], p) # << >> /\ Append(channel[c], p)[1] = p
      BY <1>1, <1>4, <1>7
    <3>. QED  BY <1>1, <1>7, <2>1, <2>2, <3>2, <3>3
  <2>3. CASE joined[c] # streamMap
    <3>1. channel'[c] = channel[c]
      BY <2>3, PutChannels
    <3>. QED  BY <1>1, <1>4, <1>7, <2>1, <2>3, <3>1
  <2>. QED  BY <2>2, <2>3
<1>. QED  BY <1>5, <1>6, <1>7

LEMMA PutKeepsNoGap ==
  ASSUME IInv, NEW h \in Handlers, NEW key \in BOOLEAN, Put(h, key)
  PROVE  NoGap'
<1>. DEFINE p == <<streamMap, puts[streamMap] + 1>>
<1>1. /\ streamMap \in Streams /\ p \in PacketType /\ puts[streamMap] \in Nat
      /\ puts'[streamMap] = puts[streamMap] + 1
      /\ \A s \in Streams : s # streamMap => puts'[s] = puts[s]
  BY PutFacts
<1>2. UNCHANGED <<client, joined, source, members>> /\ overflowed \subseteq overflowed'
  BY PutChannels DEF Put
<1>3. ASSUME NEW c \in Clients, Playing(c), source[c] = joined[c], c \notin overflowed'
      PROVE  Covers(Feed(c)', joined[c], puts'[joined[c]])
  <2>1. Covers(Feed(c), joined[c], puts[joined[c]])
    BY <1>2, <1>3 DEF IInv, NoGap, Covers
  <2>. Feed(c) \in Seq(PacketType)
    BY FeedType DEF IInv
  <2>2. joined[c] \in Streams /\ c \in members[joined[c]]
    <3>1. Connected(c)
      BY <1>3 DEF Connected, Playing
    <3>. QED  BY <3>1, LiveStreamsAssumption DEF IInv, TypeOK, MembersJoined, Streams
  <2>3. CASE joined[c] = streamMap /\ Feed(c)' = Append(Feed(c), p)
    <3>1. Covers(Append(Feed(c), p), streamMap, puts[streamMap] + 1)
      BY <1>1, <2>1, <2>2, <2>3, CoversAppend
    <3>. QED  BY <1>1, <2>3, <3>1
  <2>4. CASE Feed(c)' = Feed(c) /\ c \notin members[streamMap]
    <3>1. puts'[joined[c]] = puts[joined[c]]
      BY <1>1, <2>2, <2>4
    <3>. QED  BY <2>1, <2>4, <3>1
  <2>. QED  BY <1>3, <2>3, <2>4, PutFeeds
<1>. QED  BY <1>2, <1>3 DEF NoGap, Playing, Covers

LEMMA PutKeepsOrder ==
  ASSUME IInv, NEW h \in Handlers, NEW key \in BOOLEAN, Put(h, key)
  PROVE  LiveInOrder'
<1>. DEFINE p == <<streamMap, puts[streamMap] + 1>>
<1>1. /\ streamMap \in Streams /\ p \in PacketType /\ puts[streamMap] \in Nat
      /\ p[2] = puts[streamMap] + 1
  BY PutFacts
<1>. HIDE DEF p
<1>2. config' = config
  BY DEF Put
<1>3. ASSUME ~config.gopCache, NEW c \in Clients
      PROVE  Ordered(Feed(c)')
  <2>. Feed(c) \in Seq(PacketType)
    BY FeedType DEF IInv
  <2>1. Ordered(Feed(c))
    BY <1>3 DEF IInv, LiveInOrder, Ordered
  <2>2. CASE joined[c] = streamMap /\ Feed(c)' = Append(Feed(c), p)
    <3>1. /\ got[c] \in Seq(PacketType) /\ channel[c] \in Seq(PacketType)
          /\ snapshot[c] = << >>
      BY <1>3 DEF IInv, TypeOK, FeedBegins
    <3>2. \A i \in DOMAIN got[c] : got[c][i][2] <= puts[streamMap]
      BY <1>3, <2>2 DEF IInv, FeedBegins
    <3>3. \A i \in DOMAIN channel[c] : channel[c][i][2] <= puts[streamMap]
      BY <1>1, <2>2 DEF IInv, ChannelFollows
    <3>4. Feed(c) = got[c] \o channel[c]
      <4>1. got[c] \o << >> = got[c]
        BY <3>1
      <4>. QED  BY <3>1, <4>1 DEF Feed
    <3>5. \A i \in DOMAIN Feed(c) :
            \/ i \in DOMAIN got[c] /\ Feed(c)[i] = got[c][i]
            \/ i - Len(got[c]) \in DOMAIN channel[c] /\ Feed(c)[i] = channel[c][i - Len(got[c])]
      <4>. TAKE i \in DOMAIN Feed(c)
      <4>. DEFINE f == Feed(c)  s == got[c]  t == channel[c]
      <4>1. s \in Seq(PacketType) /\ t \in Seq(PacketType) /\ f = s \o t /\ i \in DOMAIN f
        BY <3>1, <3>4
      <4>. HIDE DEF f, s, t
      <4>2. \/ i \in DOMAIN s /\ f[i] = s[i]
            \/ i - Len(s) \in DOMAIN t /\ f[i] = t[i - Len(s)]
        BY ONLY <4>1, ConcatAt
      <4>. QED  BY ONLY <4>2 DEF f, s, t
    <3>6. \A i \in DOMAIN Feed(c) : Feed(c)[i][2] < p[2]
      <4>. TAKE i \in DOMAIN Feed(c)
      <4>1. Feed(c)[i][2] <= puts[streamMap] /\ Feed(c)[i][2] \in Nat
        BY <2>1, <3>2, <3>3, <3>5, PacketFacts
      <4>. QED  BY <1>1, <4>1
    <3>7. Ordered(Append(Feed(c), p))
      BY <1>1, <2>1, <3>6, OrderedAppend
    <3>. QED  BY <2>2, <3>7
  <2>3. CASE Feed(c)' = Feed(c)
    BY <2>1, <2>3
  <2>. QED  BY <2>2, <2>3, PutFeeds DEF p
<1>. QED  BY <1>2, <1>3 DEF LiveInOrder, Ordered

LEMMA PutKeeps ==
  ASSUME IInv, NEW h \in Handlers, NEW key \in BOOLEAN, Put(h, key)
  PROVE  IInv'
<1>1. /\ streamMap \in Streams
      /\ \A s \in Streams : s # streamMap => puts'[s] = puts[s]
      /\ puts \in [Streams -> Nat] /\ puts'[streamMap] = puts[streamMap] + 1
      /\ keyFrames \subseteq keyFrames'
  BY PutFacts
<1>2. /\ UNCHANGED <<config, feed, streamMap, streams, members, client, joined, source,
                     snapshot, got>>
      /\ streamMap # 0
  BY DEF Put
<1>3. StreamsMade' /\ MembersJoined' /\ NoDepartedClient'
  <2>1. \A s \in Streams : s > streams => s # streamMap
    BY <1>1, LiveStreamsAssumption DEF IInv, TypeOK, Streams
  <2>2. StreamsMade'
    BY <1>1, <1>2, <2>1 DEF IInv, StreamsMade
  <2>. QED  BY <1>2, <2>2 DEF IInv, MembersJoined, NoDepartedClient, Connected
<1>4. FeedBegins'
  <2>1. \A c \in Clients : joined[c] # 0 => /\ puts[joined[c]] \in Nat
                                           /\ puts'[joined[c]] >= puts[joined[c]]
    BY <1>1, LiveStreamsAssumption DEF IInv, TypeOK, Streams
  <2>2. ASSUME ~config.gopCache, NEW c \in Clients, NEW i \in DOMAIN got[c]
        PROVE  joined[c] # 0 /\ got[c][i][2] <= puts'[joined[c]]
    <3>1. /\ got[c][i] \in PacketType /\ joined[c] # 0
          /\ got[c][i][2] <= puts[joined[c]]
      BY <2>2 DEF IInv, TypeOK, FeedBegins
    <3>2. puts'[joined[c]] \in Nat
      BY <1>1, <3>1, LiveStreamsAssumption DEF IInv, TypeOK, Streams
    <3>. QED  BY <2>1, <3>1, <3>2, PacketFacts
  <2>. QED  BY <1>2, <2>2 DEF IInv, FeedBegins, Playing
<1>5. StartsDecodable'
  BY <1>1, <1>2 DEF IInv, StartsDecodable
<1>. QED  BY <1>3, <1>4, <1>5, PutKeepsType, PutGop, PutKeepsChannels, PutKeepsFirst,
             PutKeepsNoGap, PutKeepsOrder DEF IInv

-----------------------------------------------------------------------------
(* The theorems. *)

LEMMA StepInv == IInv /\ [Next]_vars => IInv'
<1>. SUFFICES ASSUME IInv, [Next]_vars PROVE IInv'
  OBVIOUS
<1>1. ASSUME NEW h \in Handlers, StartFfmpeg(h) \/ HasEntry(h) \/ PutFails(h) \/ ReadFails(h)
      PROVE  IInv'
  <2>1. UNCHANGED <<streamVars, members, clientVars>>
    BY <1>1 DEF StartFfmpeg, HasEntry, PutFails, ReadFails
  <2>2. feed' \in Handlers \union {NoHandler} /\ handler' \in [Handlers -> HandlerStates]
    BY <1>1 DEF IInv, TypeOK, StartFfmpeg, HasEntry, PutFails, ReadFails, HandlerStates
  <2>. QED  BY <2>1, <2>2, HandlersUnseen
<1>2. CASE FfmpegAborts \/ FfmpegDies
  <2>1. UNCHANGED <<streamVars, members, clientVars>>
    BY <1>2 DEF FfmpegAborts, FfmpegDies
  <2>2. feed' \in Handlers \union {NoHandler} /\ handler' \in [Handlers -> HandlerStates]
    BY <1>2 DEF IInv, TypeOK, FfmpegAborts, FfmpegDies, HandlerStates
  <2>. QED  BY <2>1, <2>2, HandlersUnseen
<1>3. ASSUME NEW c \in Clients, CountClients(c) PROVE IInv'
  BY <1>3, GoesOn DEF CountClients, Connected, ClientStates, Before
<1>4. ASSUME NEW c \in Clients, SendCodec(c) PROVE IInv'
  BY <1>4, GoesOn DEF SendCodec, Connected, ClientStates, Before
<1>5. ASSUME NEW c \in Clients, GetStream(c) PROVE IInv'
  <2>. DEFINE to == IF streamMap = 0 THEN "closing" ELSE "found"
  <2>1. /\ Connected(c) /\ Goes(c, to) /\ client[c] \in Before
        /\ to \in {"closing", "found"} /\ (to = "found" => streamMap # 0)
        /\ UNCHANGED <<feed, handler, streamVars, members, joined, snapshot, channel,
                       overflowed, got>>
        /\ source' = [source EXCEPT ![c] = streamMap]
    BY <1>5 DEF GetStream, Connected, Before
  <2>2. streamMap \in 0 .. streams /\ source'[c] = streamMap
    BY <2>1 DEF IInv, TypeOK
  <2>3. to \in ClientStates \ {"new", "done", "absent"} /\ to \notin {"waiting", "sending"}
    BY <2>1 DEF ClientStates
  <2>. HIDE DEF to
  <2>. QED  BY <2>1, <2>2, <2>3, GoesOn
<1>6. ASSUME NEW c \in Clients, Send(c) PROVE IInv'
  BY <1>6, GoesOn DEF Send, Connected, ClientStates, Before, Playing
<1>7. CASE UNCHANGED vars
  BY <1>7, HandlersUnseen DEF vars, IInv, TypeOK, HandlerStates
<1>8. CASE Next
  BY <1>1, <1>2, <1>3, <1>4, <1>5, <1>6, <1>8, AddStreamKeeps, RemoveStreamKeeps, PutKeeps,
     AddClientKeeps, GetSnapshotKeeps, GetKeeps, DeleteClientKeeps DEF Next, Post, Ws
<1>. QED  BY <1>7, <1>8

(* In every state the invariant of LiveStreams holds. *)
THEOREM Invariance == Spec => []IInv
BY InitInv, StepInv, PTL DEF Spec

(* Every variable has its type. *)
THEOREM TypeCorrect == Spec => []TypeOK
<1>1. IInv => TypeOK
  BY DEF IInv
<1>. QED  BY <1>1, Invariance, PTL

(***************************************************************************)
(* A client misses nothing between its GOP cache snapshot and its channel, *)
(* however the puts fall between addClient and GetSnapshot.                *)
(***************************************************************************)
THEOREM NothingMissed == Spec => []NoGap
<1>1. IInv => NoGap
  BY DEF IInv
<1>. QED  BY <1>1, Invariance, PTL

(* The first packet ws sends a browser is one it can decode from. *)
THEOREM Decodable == Spec => []StartsDecodable
<1>1. IInv => StartsDecodable
  BY DEF IInv
<1>. QED  BY <1>1, Invariance, PTL

(* With no GOP cache ws sends no packet twice and none out of order. *)
THEOREM InOrder == Spec => []LiveInOrder
<1>1. IInv => LiveInOrder
  BY DEF IInv
<1>. QED  BY <1>1, Invariance, PTL

(* deleteClient finds the client that goes: put sends it no more packets. *)
THEOREM DepartedAreGone == Spec => []NoDepartedClient
<1>1. IInv => NoDepartedClient
  BY DEF IInv
<1>. QED  BY <1>1, Invariance, PTL
=============================================================================
