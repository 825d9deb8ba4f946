---------------------------- MODULE LiveStreams ----------------------------
(***************************************************************************)
(* Live streaming through the low latency media server, for one stream id  *)
(* (suuid): the loop that keeps an ffmpeg running (ffmpeg-feed.go), the    *)
(* POST /live handlers that ffmpeg feeds and the websocket clients         *)
(* (http.go), and the map of streams they meet in (streams.go).            *)
(*                                                                         *)
(* Each method of Streams holds s.mutex, so it is one step; a handler may  *)
(* be overtaken between any two of them.  A Stream object is the number of *)
(* the addStream call that made it; a packet is <<stream, n>>, the n-th    *)
(* that put gave to that object.                                           *)
(***************************************************************************)
EXTENDS Integers, Sequences

CONSTANTS
  Handlers,        \* POST /live handlers; one may serve again when it is done
  Clients,         \* websocket connections
  NoHandler,       \* no ffmpeg is running
  Settings,        \* the settings to begin with: see SettingType
  GopCacheLength,  \* packets the GOP cache takes: 849
  ClientCapacity,  \* capacity of a client's channel: 300
  MaxStreams,      \* bound of the model: calls of addStream
  MaxPuts          \* bound of the model: packets put into one stream

(***************************************************************************)
(* gopCache is config.GopCache; hevc, that the video is H265 with four     *)
(* byte start codes.  The handlers and clients are those that take part.   *)
(***************************************************************************)
SettingType == [gopCache : BOOLEAN, hevc : BOOLEAN,
                handlers : SUBSET Handlers, clients : SUBSET Clients]

ASSUME LiveStreamsAssumption ==
  /\ NoHandler \notin Handlers
  /\ Settings \subseteq SettingType
  /\ {GopCacheLength, ClientCapacity, MaxStreams, MaxPuts} \subseteq Nat \ {0}

VARIABLES
  config,     \* the setting chosen
  feed,       \* the handler the running ffmpeg posts to
  handler,    \* where each POST handler is
  streamMap,  \* the Stream the map has for the id, 0 if none
  streams,    \* number of Stream objects made
  puts,       \* of each Stream: packets put
  keyFrames,  \* the packets with a keyframe of the stream's own codec
  gopCache,   \* of each Stream: Cache[:inputIndex] of its GOP cache
  members,    \* of each Stream: the clients in its PcktStreams
  client,     \* where each websocket handler is
  joined,     \* the Stream each client was registered with
  source,     \* the Stream each client took its GOP cache snapshot from
  snapshot,   \* what is left of each client's snapshot
  channel,    \* each client's channel
  overflowed, \* clients that were full when a packet was put
  got         \* the packets sent to each client, in order

streamVars == <<config, streamMap, streams, puts, keyFrames, gopCache>>
clientVars == <<client, joined, source, snapshot, channel, overflowed, got>>
vars == <<feed, handler, streamVars, members, clientVars>>

Streams == 1 .. MaxStreams

PacketsOf(s) == {s[i] : i \in DOMAIN s}

Init ==
  /\ config \in Settings
  /\ feed = NoHandler
  /\ handler = [h \in Handlers |-> IF h \in config.handlers THEN "done" ELSE "absent"]
  /\ streamMap = 0
  /\ streams = 0
  /\ puts = [s \in Streams |-> 0]
  /\ keyFrames = {}
  /\ gopCache = [s \in Streams |-> << >>]
  /\ members = [s \in Streams |-> {}]
  /\ client = [c \in Clients |-> IF c \in config.clients THEN "new" ELSE "absent"]
  /\ joined = [c \in Clients |-> 0]
  /\ source = [c \in Clients |-> 0]
  /\ snapshot = [c \in Clients |-> << >>]
  /\ channel = [c \in Clients |-> << >>]
  /\ overflowed = {}
  /\ got = [c \in Clients |-> << >>]

-----------------------------------------------------------------------------
(* ffmpegFeed: probe, run ffmpeg until it exits, wait, start over. *)

StartFfmpeg(h) ==
  /\ feed = NoHandler
  /\ handler[h] = "done"
  /\ feed' = h
  /\ handler' = [handler EXCEPT ![h] = "posted"]
  /\ UNCHANGED <<streamVars, members, clientVars>>

(* onfail=abort: ffmpeg exits when the server has ended its POST. *)
FfmpegAborts ==
  /\ feed # NoHandler
  /\ handler[feed] = "done"
  /\ feed' = NoHandler
  /\ UNCHANGED <<handler, streamVars, members, clientVars>>

(* It may also exit of itself, with its POST handler none the wiser yet. *)
FfmpegDies ==
  /\ feed # NoHandler
  /\ handler[feed] # "done"
  /\ feed' = NoHandler
  /\ UNCHANGED <<handler, streamVars, members, clientVars>>

-----------------------------------------------------------------------------
(* POST /live/:suuid *)

HasEntry(h) ==
  /\ handler[h] = "posted"
  /\ handler' = [handler EXCEPT ![h] = IF streamMap # 0 THEN "done" ELSE "admitted"]
  /\ UNCHANGED <<feed, streamVars, members, clientVars>>

AddStream(h) ==
  /\ handler[h] = "admitted"
  /\ streams < MaxStreams
  /\ streams' = streams + 1
  /\ streamMap' = streams + 1
  /\ handler' = [handler EXCEPT ![h] = "reading"]
  /\ UNCHANGED <<config, feed, puts, keyFrames, gopCache, members, clientVars>>

(* A keyframe restarts the GOP cache; a full one takes no packet. *)
GopBefore(s, key) == IF key THEN << >> ELSE gopCache[s]

GopAccepts(s, key) == ~config.gopCache \/ Len(GopBefore(s, key)) < GopCacheLength

SendOneTooMany(s, p) ==  \* mutant: a channel of one packet more
  LET full == {c \in members[s] : Len(channel[c]) > ClientCapacity}
  IN  /\ channel' = [c \in Clients |-> IF c \in members[s] \ full
                                       THEN Append(channel[c], p) ELSE channel[c]]
      /\ overflowed' = overflowed \union full

SendUntilFull(s, p) ==  \* mutant: return at the first full channel
  LET full == {c \in members[s] : Len(channel[c]) >= ClientCapacity}
  IN  /\ channel' = [c \in Clients |-> IF c \in members[s] /\ full = {}
                                       THEN Append(channel[c], p) ELSE channel[c]]
      /\ overflowed' = overflowed \union full

(* All the clients with room are sent the packet, even if one has none. *)
SendToClients(s, p) ==
  LET full == {c \in members[s] : Len(channel[c]) >= ClientCapacity}
  IN  /\ channel' = [c \in Clients |-> IF c \in members[s] \ full
                                       THEN Append(channel[c], p) ELSE channel[c]]
      /\ overflowed' = overflowed \union full

PutRetries(h, key) ==  \* mutant: an error of put is answered by a retry
  LET s == streamMap
      p == <<s, puts[s] + 1>>
      full == \E c \in members[s] : Len(channel[c]) >= ClientCapacity
  IN  /\ handler[h] = "reading"
      /\ s # 0
      /\ puts[s] < MaxPuts
      /\ GopAccepts(s, key)
      /\ puts' = IF full THEN puts ELSE [puts EXCEPT ![s] = @ + 1]
      /\ keyFrames' = IF key THEN keyFrames \union {p} ELSE keyFrames
      /\ SendToClients(s, p)
      /\ UNCHANGED <<config, feed, handler, streamMap, streams, gopCache, members, client,
                     joined, source, snapshot, got>>

(* The handler gives up on any error of put. *)
Put(h, key) ==
  LET s == streamMap
      p == <<s, puts[s] + 1>>
  IN  /\ handler[h] = "reading"
      /\ s # 0
      /\ puts[s] < MaxPuts
      /\ GopAccepts(s, key)
      /\ puts' = [puts EXCEPT ![s] = @ + 1]
      /\ keyFrames' = IF key THEN keyFrames \union {p} ELSE keyFrames
      /\ gopCache' = IF config.gopCache
                     THEN [gopCache EXCEPT ![s] = Append(GopBefore(s, key), p)]
                     ELSE gopCache
      /\ SendToClients(s, p)
      /\ handler' = IF \E c \in members[s] : Len(channel[c]) >= ClientCapacity
                    THEN [handler EXCEPT ![h] = "leaving"] ELSE handler
      /\ UNCHANGED <<config, feed, streamMap, streams, members, client, joined, source,
                     snapshot, got>>

PutFails(h) ==
  /\ handler[h] = "reading"
  /\ streamMap # 0 => ~GopAccepts(streamMap, FALSE)
  /\ handler' = [handler EXCEPT ![h] = "leaving"]
  /\ UNCHANGED <<feed, streamVars, members, clientVars>>

(* The body of a dead ffmpeg's POST comes to its end. *)
ReadFails(h) ==
  /\ handler[h] = "reading"
  /\ feed # h
  /\ handler' = [handler EXCEPT ![h] = "leaving"]
  /\ UNCHANGED <<feed, streamVars, members, clientVars>>

RemoveStreamKeepsEntry(h) ==  \* mutant: no delete from the map
  /\ handler[h] = "leaving"
  /\ handler' = [handler EXCEPT ![h] = "done"]
  /\ UNCHANGED <<feed, streamVars, members, clientVars>>

(* removeStream takes whatever Stream the id has by now. *)
RemoveStream(h) ==
  /\ handler[h] = "leaving"
  /\ streamMap' = 0
  /\ handler' = [handler EXCEPT ![h] = "done"]
  /\ UNCHANGED <<config, feed, streams, puts, keyFrames, gopCache, members, clientVars>>

-----------------------------------------------------------------------------
(* ws: one websocket client. *)

Goes(c, to) == client' = [client EXCEPT ![c] = to]

AddClient(c) ==
  /\ client[c] = "new"
  /\ IF streamMap = 0
     THEN /\ Goes(c, "done")
          /\ UNCHANGED <<members, joined>>
     ELSE /\ Goes(c, "joined")
          /\ members' = [members EXCEPT ![streamMap] = @ \union {c}]
          /\ joined' = [joined EXCEPT ![c] = streamMap]
  /\ UNCHANGED <<feed, handler, streamVars, source, snapshot, channel, overflowed, got>>

(***************************************************************************)
(* Logging the number of clients looks the id up again, without the lock:  *)
(* if the stream has gone, the nil pointer ends the handler.               *)
(***************************************************************************)
CountClients(c) ==
  /\ client[c] = "joined"
  /\ Goes(c, IF streamMap = 0 THEN "closing" ELSE "counted")
  /\ UNCHANGED <<feed, handler, streamVars, members, joined, source, snapshot,
                 channel, overflowed, got>>

(* The codec goes first; the client may have gone already. *)
SendCodec(c) ==
  /\ client[c] = "counted"
  /\ \E to \in {"primed", "closing"} : Goes(c, to)
  /\ UNCHANGED <<feed, handler, streamVars, members, joined, source, snapshot,
                 channel, overflowed, got>>

GetStream(c) ==
  /\ client[c] = "primed"
  /\ Goes(c, IF streamMap = 0 THEN "closing" ELSE "found")
  /\ source' = [source EXCEPT ![c] = streamMap]
  /\ UNCHANGED <<feed, handler, streamVars, members, joined, snapshot, channel,
                 overflowed, got>>

GetSnapshot(c) ==
  /\ client[c] = "found"
  /\ snapshot' = [snapshot EXCEPT ![c] = gopCache[source[c]]]
  /\ Goes(c, "waiting")
  /\ UNCHANGED <<feed, handler, streamVars, members, joined, source, channel,
                 overflowed, got>>

(***************************************************************************)
(* ws compares CodecType, which is "video", and not CodecName with "hevc": *)
(* it looks for an H264 keyframe in any stream.                            *)
(***************************************************************************)
IsKeyFrame(p) == ~config.hevc /\ p \in keyFrames

GetLiveFirst(c) ==  \* mutant: the channel before the snapshot
  /\ client[c] = "waiting"
  /\ \/ /\ channel[c] # << >>
        /\ got' = [got EXCEPT ![c] = Append(@, Head(channel[c]))]
        /\ channel' = [channel EXCEPT ![c] = Tail(@)]
        /\ UNCHANGED snapshot
     \/ /\ channel[c] = << >>
        /\ snapshot[c] # << >>
        /\ got' = [got EXCEPT ![c] = Append(@, Head(snapshot[c]))]
        /\ snapshot' = [snapshot EXCEPT ![c] = Tail(@)]
        /\ UNCHANGED channel
  /\ Goes(c, "sending")
  /\ UNCHANGED <<feed, handler, streamVars, members, joined, source, overflowed>>

(***************************************************************************)
(* The snapshot first, then the channel, where the handler blocks.  With   *)
(* no GOP cache, packets before the first keyframe are passed over.        *)
(***************************************************************************)
Get(c) ==
  /\ client[c] = "waiting"
  /\ \/ /\ snapshot[c] # << >>
        /\ got' = [got EXCEPT ![c] = Append(@, Head(snapshot[c]))]
        /\ snapshot' = [snapshot EXCEPT ![c] = Tail(@)]
        /\ Goes(c, "sending")
        /\ UNCHANGED channel
     \/ /\ snapshot[c] = << >>
        /\ channel[c] # << >>
        /\ channel' = [channel EXCEPT ![c] = Tail(@)]
        /\ IF config.gopCache \/ got[c] # << >> \/ IsKeyFrame(Head(channel[c]))
           THEN /\ got' = [got EXCEPT ![c] = Append(@, Head(channel[c]))]
                /\ Goes(c, "sending")
           ELSE UNCHANGED <<got, client>>
        /\ UNCHANGED snapshot
  /\ UNCHANGED <<feed, handler, streamVars, members, joined, source, overflowed>>

(* The send succeeds, or fails or passes its deadline of ten seconds. *)
Send(c) ==
  /\ client[c] = "sending"
  /\ \E to \in {"waiting", "closing"} : Goes(c, to)
  /\ UNCHANGED <<feed, handler, streamVars, members, joined, source, snapshot,
                 channel, overflowed, got>>

DeleteClientNever(c) ==  \* mutant: the deferred call is forgotten
  /\ client[c] = "closing"
  /\ Goes(c, "done")
  /\ UNCHANGED <<feed, handler, streamVars, members, joined, source, snapshot,
                 channel, overflowed, got>>

(* deleteClient looks for the client in the Stream the id has by now. *)
DeleteClient(c) ==
  /\ client[c] = "closing"
  /\ members' = IF streamMap = 0 THEN members
                ELSE [members EXCEPT ![streamMap] = @ \ {c}]
  /\ Goes(c, "done")
  /\ UNCHANGED <<feed, handler, streamVars, joined, source, snapshot, channel,
                 overflowed, got>>

-----------------------------------------------------------------------------
Post(h) ==
  \/ HasEntry(h)
  \/ AddStream(h)
  \/ \E key \in BOOLEAN : Put(h, key)
  \/ PutFails(h)
  \/ ReadFails(h)
  \/ RemoveStream(h)

Ws(c) ==
  \/ AddClient(c)
  \/ CountClients(c)
  \/ SendCodec(c)
  \/ GetStream(c)
  \/ GetSnapshot(c)
  \/ Get(c)
  \/ Send(c)
  \/ DeleteClient(c)

Next ==
  \/ \E h \in Handlers : StartFfmpeg(h) \/ Post(h)
  \/ FfmpegAborts
  \/ FfmpegDies
  \/ \E c \in Clients : Ws(c)

Spec == Init /\ [][Next]_vars

(***************************************************************************)
(* The feed's loop starts over, what is in a handler's hands goes on, and  *)
(* a handler whose stream is gone learns of it: by the next packet, or by  *)
(* ffmpeg's timeout of three seconds if the camera is silent.  No camera   *)
(* has to send anything, and no ffmpeg has to die.                         *)
(***************************************************************************)
Orphaned(h) ==
  /\ handler[h] = "reading"
  /\ streamMap = 0
  /\ PutFails(h) \/ (feed = h /\ FfmpegDies)

Fairness ==
  /\ WF_vars(\E h \in Handlers : StartFfmpeg(h))
  /\ WF_vars(FfmpegAborts)
  /\ \A h \in Handlers : /\ WF_vars(HasEntry(h))
                         /\ WF_vars(AddStream(h))
                         /\ WF_vars(Orphaned(h))
                         /\ WF_vars(ReadFails(h))
                         /\ WF_vars(RemoveStream(h))

FairSpec == Spec /\ Fairness
-----------------------------------------------------------------------------
(* Properties. *)

Numbers == 1 .. MaxPuts
PacketType == Streams \X Numbers

(* Every variable has its type. *)
TypeOK ==
  /\ config \in Settings
  /\ feed \in Handlers \union {NoHandler}
  /\ handler \in [Handlers -> {"posted", "admitted", "reading", "leaving", "done", "absent"}]
  /\ streams \in 0 .. MaxStreams
  /\ streamMap \in 0 .. streams
  /\ puts \in [Streams -> 0 .. MaxPuts]
  /\ keyFrames \subseteq PacketType
  /\ gopCache \in [Streams -> Seq(PacketType)]
  /\ \A s \in Streams : Len(gopCache[s]) <= GopCacheLength
  /\ members \in [Streams -> SUBSET Clients]
  /\ client \in [Clients -> {"new", "joined", "counted", "primed", "found",
                             "waiting", "sending", "closing", "done", "absent"}]
  /\ joined \in [Clients -> 0 .. streams]
  /\ source \in [Clients -> 0 .. streams]
  /\ snapshot \in [Clients -> Seq(PacketType)]
  /\ channel \in [Clients -> Seq(PacketType)]
  /\ \A c \in Clients : Len(channel[c]) <= ClientCapacity
  /\ overflowed \subseteq Clients
  /\ got \in [Clients -> Seq(PacketType)]

Playing(c) == client[c] \in {"waiting", "sending"}

(* All that client c has had and is due, in the order Get returns it. *)
Feed(c) == got[c] \o snapshot[c] \o channel[c]

(***************************************************************************)
(* A client misses nothing.  Between its first packet and the newest one   *)
(* put there is none it has not had and is not due, wherever the puts fell *)
(* between addClient and GetSnapshot; the GOP cache's snapshot may overlap *)
(* the channel, but there is no gap between them.  (The client's channel   *)
(* has never been full, and the id's stream was not replaced while it was  *)
(* being set up.)                                                          *)
(***************************************************************************)
NoGap ==
  \A c \in Clients : Playing(c) /\ source[c] = joined[c] /\ c \notin overflowed =>
    \A i \in DOMAIN Feed(c) : \A n \in Feed(c)[i][2] .. puts[joined[c]] :
      <<joined[c], n>> \in PacketsOf(Feed(c))

(***************************************************************************)
(* A browser can decode from the first packet it is sent: it is a keyframe *)
(* or, with the GOP cache, the stream's very first packet.                 *)
(***************************************************************************)
StartsDecodable ==
  \A c \in Clients : got[c] # << >> /\ source[c] = joined[c] =>
    \/ got[c][1] \in keyFrames
    \/ config.gopCache /\ got[c][1][2] = 1

(* With no GOP cache a client is sent no packet twice and none out of order. *)
LiveInOrder ==
  ~config.gopCache => \A c \in Clients : \A i, j \in DOMAIN Feed(c) :
    i < j => Feed(c)[i][2] < Feed(c)[j][2]

(***************************************************************************)
(* A client that has gone is no longer sent packets: its channel would     *)
(* fill, and a full channel ends the stream for all.  deleteClient looks   *)
(* in the id's stream of the moment, which need not be the client's own.   *)
(***************************************************************************)
NoDepartedClient ==
  \A c \in Clients : client[c] = "done" /\ streamMap # 0 => c \notin members[streamMap]

(* The map has the newest Stream or none; those to come have nothing yet. *)
StreamsMade ==
  /\ streamMap \in {0, streams}
  /\ \A s \in Streams : s > streams => puts[s] = 0 /\ members[s] = {}

Connected(c) == client[c] \notin {"new", "done", "absent"}

(* A client is in no Stream but its own, and is there while it is connected. *)
MembersJoined ==
  /\ \A s \in Streams : \A c \in members[s] : joined[c] = s
  /\ \A c \in Clients :
       /\ Connected(c) => joined[c] # 0 /\ c \in members[joined[c]]
       /\ client[c] \in {"new", "absent"} => joined[c] = 0

(* A GOP cache is a run of packets up to the newest, from a keyframe on. *)
GopIsRun ==
  \A s \in Streams :
    /\ Len(gopCache[s]) <= puts[s]
    /\ \A i \in DOMAIN gopCache[s] : gopCache[s][i] = <<s, puts[s] - Len(gopCache[s]) + i>>
    /\ gopCache[s] # << >> => gopCache[s][1] \in keyFrames \/ gopCache[s][1][2] = 1
    /\ gopCache[s] = << >> => ~config.gopCache \/ puts[s] = 0
    /\ ~config.gopCache => gopCache[s] = << >>

(* A channel has packets of its client's Stream; if it never filled, the newest. *)
ChannelFollows ==
  \A c \in Clients :
    /\ \A i \in DOMAIN channel[c] :
         joined[c] # 0 /\ channel[c][i] \in {joined[c]} \X (1 .. puts[joined[c]])
    /\ Connected(c) /\ c \notin overflowed => \A i \in DOMAIN channel[c] :
         channel[c][i] = <<joined[c], puts[joined[c]] - Len(channel[c]) + i>>

(* Nothing is sent before the snapshot is taken; without one, all that is put. *)
FeedBegins ==
  \A c \in Clients :
    /\ client[c] \in {"new", "absent", "joined", "counted", "primed", "found"} =>
         got[c] = << >> /\ snapshot[c] = << >>
    /\ client[c] = "found" \/ Playing(c) => source[c] # 0
    /\ ~config.gopCache =>
         /\ snapshot[c] = << >>
         /\ \A i \in DOMAIN got[c] : joined[c] # 0 /\ got[c][i][2] <= puts[joined[c]]

(* What the first packet sent will be: a keyframe, or the stream's first. *)
FirstIsDecodable ==
  \A c \in Clients :
    config.gopCache /\ Playing(c) /\ source[c] = joined[c] /\ got[c] = << >> =>
      IF snapshot[c] # << >> THEN snapshot[c][1] \in keyFrames \/ snapshot[c][1][2] = 1
      ELSE IF channel[c] # << >> THEN channel[c][1][2] = 1
      ELSE puts[joined[c]] = 0

(* The inductive invariant the properties above are proved from. *)
IInv ==
  /\ TypeOK
  /\ StreamsMade
  /\ MembersJoined
  /\ GopIsRun
  /\ ChannelFollows
  /\ FeedBegins
  /\ FirstIsDecodable
  /\ NoGap
  /\ StartsDecodable
  /\ LiveInOrder
  /\ NoDepartedClient

(***************************************************************************)
(* The camera comes back, however the deaths of ffmpeg, the ends of the    *)
(* handlers and the checks of hasEntry fall: again and again the ffmpeg    *)
(* that runs is being read (or the model's streams are used up).           *)
(***************************************************************************)
StreamComesBack ==
  \/ <>(streams = MaxStreams)
  \/ []<>(feed # NoHandler /\ handler[feed] = "reading" /\ streamMap # 0)
=============================================================================
