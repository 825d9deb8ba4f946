------------------------------ MODULE AudioOut ------------------------------
(***************************************************************************)
(* Audio from a browser to a camera (UtilsService.groovy): startAudioOut   *)
(* listens on port 8881 for the ffmpeg that RtspClient starts once the     *)
(* camera has accepted a backchannel session; audio passes on what the     *)
(* browser sends; stopAudioOut ends it all, and is called by the browser,  *)
(* by the check of the feed each second, by a start that fails and by the  *)
(* accept thread when its socket is closed.  Nothing is locked.            *)
(*                                                                         *)
(* A start that gets the port is numbered, and its server socket and its   *)
(* RtspClient go by that number.  A stop is run by the thread that calls   *)
(* it, which then goes on from where "after" says.  The bytes of the audio *)
(* are left out.                                                           *)
(***************************************************************************)
EXTENDS Integers

CONSTANTS
  Requests,               \* HTTP requests that may be at work at a time
  AudioInSessionTimeout,  \* audioInSessionTimeout: 3 checks
  MaxStarts               \* bound of the model: server sockets opened

ASSUME AudioOutAssumption ==
  /\ MaxStarts \in Nat
  /\ AudioInSessionTimeout \in Nat

VARIABLES
  audioInUse,
  count,         \* audioInputStreamCheckCount
  serverSocket,  \* the field, 0 for null
  client,        \* the field, 0 for null
  opened,        \* number of server sockets opened
  listening,     \* the server sockets that are open
  session,       \* what each RtspClient is doing
  pc,            \* where each thread is
  start,         \* the start each thread is making
  after,         \* where each thread goes on after its stopAudioOut
  unheard        \* checks since the audio was last heard, or came into use

fields == <<audioInUse, count, serverSocket, client>>
audioVars == <<fields, opened, listening, session, pc, start, after, unheard>>

Starts == 1 .. MaxStarts
Request(r) == <<"request", r>>
FeedCheck == <<"check", 0>>
Acceptor(s) == <<"accept", s>>
Threads ==
  {Request(r) : r \in Requests} \union {FeedCheck} \union {Acceptor(s) : s \in Starts}

AudioInit ==
  /\ audioInUse = FALSE
  /\ count = 0
  /\ serverSocket = 0
  /\ client = 0
  /\ opened = 0
  /\ listening = {}
  /\ session = [s \in Starts |-> "none"]
  /\ pc = [t \in Threads |-> "idle"]
  /\ start = [t \in Threads |-> 0]
  /\ after = [t \in Threads |-> "idle"]
  /\ unheard = 0

Goes(t, to) == pc' = [pc EXCEPT ![t] = to]

Stops(t, then) ==
  /\ Goes(t, "releasing")
  /\ after' = [after EXCEPT ![t] = then]

-----------------------------------------------------------------------------
(* startAudioOut *)

(* In use, the request is answered at once, and nothing is started. *)
StartAudioOut(r) ==
  /\ pc[Request(r)] = "idle"
  /\ ~audioInUse
  /\ Goes(Request(r), "opening")
  /\ UNCHANGED <<fields, opened, listening, session, start, after, unheard>>

OpenSocketOverOld(t) ==  \* mutant: the field is cleared before the port is tried
  /\ pc[t] = "opening"
  /\ IF listening = {}
     THEN /\ opened < MaxStarts
          /\ opened' = opened + 1
          /\ serverSocket' = opened + 1
          /\ listening' = {opened + 1}
          /\ start' = [start EXCEPT ![t] = opened + 1]
          /\ pc' = [pc EXCEPT ![t] = "creating", ![Acceptor(opened + 1)] = "accepting"]
          /\ UNCHANGED after
     ELSE /\ Stops(t, "using")
          /\ serverSocket' = 0
          /\ UNCHANGED <<opened, listening, start>>
  /\ UNCHANGED <<audioInUse, count, client, session, unheard>>

(* The port is taken by whoever listens on it: the new ServerSocket throws. *)
OpenSocket(t) ==
  /\ pc[t] = "opening"
  /\ IF listening = {}
     THEN /\ opened < MaxStarts
          /\ opened' = opened + 1
          /\ serverSocket' = opened + 1
          /\ listening' = {opened + 1}
          /\ start' = [start EXCEPT ![t] = opened + 1]
          /\ pc' = [pc EXCEPT ![t] = "creating", ![Acceptor(opened + 1)] = "accepting"]
          /\ UNCHANGED after
     ELSE /\ Stops(t, "using")
          /\ UNCHANGED <<opened, serverSocket, listening, start>>
  /\ UNCHANGED <<audioInUse, count, client, session, unheard>>

CreateClient(t) ==
  /\ pc[t] = "creating"
  /\ client' = start[t]
  /\ session' = [session EXCEPT ![start[t]] = "made"]
  /\ Goes(t, "connecting")
  /\ UNCHANGED <<audioInUse, count, serverSocket, opened, listening, start, after, unheard>>

(* The camera's address or its credentials are no good. *)
CreateClientFails(t) ==
  /\ pc[t] = "creating"
  /\ Stops(t, "using")
  /\ UNCHANGED <<fields, opened, listening, session, start, unheard>>

(* RtspClient.start takes the exception of a connection that fails. *)
StartClient(t) ==
  /\ pc[t] = "connecting"
  /\ \E outcome \in {"running", "failed"} :
       session' = [session EXCEPT ![start[t]] = outcome]
  /\ Goes(t, "awaiting")
  /\ UNCHANGED <<fields, opened, listening, start, after, unheard>>

(* An answer, of a session set up or of an error, or ten seconds without. *)
Await(t) ==
  /\ pc[t] = "awaiting"
  /\ Goes(t, "using")
  /\ UNCHANGED <<fields, opened, listening, session, start, after, unheard>>

UseIfReady(t) ==  \* mutant: in use only if the session was set up
  /\ pc[t] = "using"
  /\ audioInUse' = (audioInUse \/ (start[t] # 0 /\ session[start[t]] = "ready"))
  /\ unheard' = 0
  /\ start' = [start EXCEPT ![t] = 0]
  /\ Goes(t, "idle")
  /\ UNCHANGED <<count, serverSocket, client, opened, listening, session, after>>

(* In use, whether or not it has worked. *)
Use(t) ==
  /\ pc[t] = "using"
  /\ audioInUse' = TRUE
  /\ unheard' = 0
  /\ start' = [start EXCEPT ![t] = 0]
  /\ Goes(t, "idle")
  /\ UNCHANGED <<count, serverSocket, client, opened, listening, session, after>>

-----------------------------------------------------------------------------
(* The camera's side of the session, and ffmpeg's of the socket. *)

SessionReady(s) ==
  /\ session[s] = "running"
  /\ session' = [session EXCEPT ![s] = "ready"]
  /\ UNCHANGED <<fields, opened, listening, pc, start, after, unheard>>

SessionFails(s) ==
  /\ session[s] = "running"
  /\ session' = [session EXCEPT ![s] = "failed"]
  /\ UNCHANGED <<fields, opened, listening, pc, start, after, unheard>>

Accept(s) ==
  /\ pc[Acceptor(s)] = "accepting"
  /\ s \in listening
  /\ \E x \in Starts : session[x] = "ready"
  /\ Goes(Acceptor(s), "idle")
  /\ UNCHANGED <<fields, opened, listening, session, start, after, unheard>>

AcceptFails(s) ==
  /\ pc[Acceptor(s)] = "accepting"
  /\ s \notin listening
  /\ Stops(Acceptor(s), "idle")
  /\ UNCHANGED <<fields, opened, listening, session, start, unheard>>

-----------------------------------------------------------------------------
(* audio, and audioFeedCheck each second *)

Audio ==
  /\ count' = 0
  /\ unheard' = 0
  /\ UNCHANGED <<audioInUse, serverSocket, client, opened, listening, session,
                 pc, start, after>>

FeedCheckNotCounting ==  \* mutant: compares and does not count
  /\ pc[FeedCheck] = "idle"
  /\ audioInUse
  /\ unheard <= AudioInSessionTimeout
  /\ unheard' = unheard + 1
  /\ IF count > AudioInSessionTimeout
     THEN Stops(FeedCheck, "idle")
     ELSE UNCHANGED <<pc, after>>
  /\ UNCHANGED <<audioInUse, count, serverSocket, client, opened, listening, session, start>>

AudioFeedCheck ==
  /\ pc[FeedCheck] = "idle"
  /\ audioInUse
  /\ count' = count + 1
  /\ unheard' = unheard + 1
  /\ IF count + 1 > AudioInSessionTimeout
     THEN Stops(FeedCheck, "idle")
     ELSE UNCHANGED <<pc, after>>
  /\ UNCHANGED <<audioInUse, serverSocket, client, opened, listening, session, start>>

-----------------------------------------------------------------------------
(* stopAudioOut *)

StopAudioOut(r) ==
  /\ pc[Request(r)] = "idle"
  /\ Stops(Request(r), "idle")
  /\ UNCHANGED <<fields, opened, listening, session, start, unheard>>

Release(t) ==
  /\ pc[t] = "releasing"
  /\ audioInUse' = FALSE
  /\ Goes(t, "closing")
  /\ UNCHANGED <<count, serverSocket, client, opened, listening, session, start,
                 after, unheard>>

CloseSocket(t) ==
  /\ pc[t] = "closing"
  /\ listening' = listening \ {serverSocket}
  /\ Goes(t, "stopping")
  /\ UNCHANGED <<fields, opened, session, start, after, unheard>>

(***************************************************************************)
(* An RtspClient that has no handler yet makes stop throw: stopAudioOut    *)
(* takes the exception, and leaves the field as it is.                     *)
(***************************************************************************)
StopClient(t) ==
  /\ pc[t] = "stopping"
  /\ IF client = 0 \/ session[client] = "made"
     THEN /\ Goes(t, after[t])
          /\ UNCHANGED session
     ELSE /\ Goes(t, "clearing")
          /\ session' = [session EXCEPT ![client] = "stopped"]
  /\ UNCHANGED <<fields, opened, listening, start, after, unheard>>

(* The two seconds that stop may take are over: client = null. *)
ClearClient(t) ==
  /\ pc[t] = "clearing"
  /\ client' = 0
  /\ Goes(t, after[t])
  /\ UNCHANGED <<audioInUse, count, serverSocket, opened, listening, session,
                 start, after, unheard>>

-----------------------------------------------------------------------------
Starting(t) ==
  \/ OpenSocket(t)
  \/ CreateClient(t)
  \/ CreateClientFails(t)
  \/ StartClient(t)
  \/ Await(t)
  \/ Use(t)

Stopping(t) == Release(t) \/ CloseSocket(t) \/ StopClient(t) \/ ClearClient(t)

AudioNext ==
  \/ \E r \in Requests : StartAudioOut(r) \/ StopAudioOut(r)
  \/ \E t \in Threads : Starting(t) \/ Stopping(t)
  \/ \E s \in Starts : SessionReady(s) \/ SessionFails(s) \/ Accept(s) \/ AcceptFails(s)
  \/ Audio
  \/ AudioFeedCheck

AudioSpec == AudioInit /\ [][AudioNext]_audioVars

(***************************************************************************)
(* Threads go on and the check is scheduled each second.  No request need  *)
(* come, no camera answer and no audio be sent.                            *)
(***************************************************************************)
AudioFairness ==
  /\ \A t \in Threads : WF_audioVars(Starting(t)) /\ WF_audioVars(Stopping(t))
  /\ \A s \in Starts : WF_audioVars(AcceptFails(s))
  /\ WF_audioVars(AudioFeedCheck)

AudioFairSpec == AudioSpec /\ AudioFairness
-----------------------------------------------------------------------------
(* Properties. *)

(* Every variable has its type. *)
AudioTypeOK ==
  /\ audioInUse \in BOOLEAN
  /\ count \in Nat
  /\ opened \in 0 .. MaxStarts
  /\ serverSocket \in 0 .. opened
  /\ client \in 0 .. opened
  /\ listening \subseteq 1 .. opened
  /\ session \in [Starts -> {"none", "made", "running", "ready", "failed", "stopped"}]
  /\ pc \in [Threads -> {"idle", "opening", "creating", "connecting", "awaiting", "using",
                         "accepting", "releasing", "closing", "stopping", "clearing"}]
  /\ start \in [Threads -> 0 .. opened]
  /\ after \in [Threads -> {"idle", "using"}]
  /\ unheard \in Nat

(* The port's one listener is the socket in the field, for a stop to close. *)
PortInField == listening \subseteq {serverSocket}

(* Thread t has started, or is stopping, and is to be heard of again. *)
ToUse(t) ==
  \/ pc[t] \in {"creating", "connecting", "awaiting", "using"}
  \/ after[t] = "using" /\ pc[t] \in {"releasing", "closing", "stopping", "clearing"}

ToClose(t) == pc[t] \in {"releasing", "closing"}

(***************************************************************************)
(* Audio can be started again.  However starts, stops, checks and accepts  *)
(* overlap, when audio is not in use the port is free, or else a thread is *)
(* on its way to close it or to bring it into use - for audioFeedCheck to  *)
(* end, even if the start has failed.                                      *)
(***************************************************************************)
PortIsFreed ==
  ~audioInUse /\ listening # {} => \E t \in Threads : ToUse(t) \/ ToClose(t)

(* Only a request opens a socket. *)
RequestsOpen == \A t \in Threads : pc[t] = "opening" => t \in {Request(r) : r \in Requests}

(***************************************************************************)
(* "Stop audio input session after 3 seconds without a websocket message"  *)
(* (UtilsService.groovy:299): audio in use has not gone unheard for more   *)
(* checks, or it is being stopped.  It may be stopped sooner: the count    *)
(* starts at what the session before has left.                             *)
(***************************************************************************)
UnheardIsStopped ==
  /\ unheard <= count
  /\ audioInUse /\ pc[FeedCheck] # "releasing" => unheard <= AudioInSessionTimeout

(* The inductive invariant. *)
AudioInv == AudioTypeOK /\ RequestsOpen /\ PortInField /\ PortIsFreed /\ UnheardIsStopped

(* A browser that has gone does not keep audio in use: it ends without audio. *)
AudioEnds == []<>~audioInUse \/ []<><<Audio>>_audioVars
=============================================================================
