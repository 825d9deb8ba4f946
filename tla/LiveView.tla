------------------------------ MODULE LiveView ------------------------------
(***************************************************************************)
(* The live pages of the client: the component of the page, its video      *)
(* component and the MediaFeeder that starts the feeder workers, notices   *)
(* that the feed has stalled and starts them again                         *)
(* (client/src/app/video/MediaFeeder.ts, video/video.component.ts,         *)
(* live-container/live-container.component.ts).                            *)
(*                                                                         *)
(* A view is one instance of the page's component.  The router keeps it    *)
(* while the user goes from one stream to another, and destroys it when    *)
(* the user leaves for another page.                                       *)
(***************************************************************************)
EXTENDS Integers, FiniteSets

CONSTANTS
  Views,           \* instances of the live page's component
  StalledMessages, \* messages before isStalled is cleared: 10
  MaxSetups        \* bound of the model: timer(100)s of a view at a time

VARIABLES
  view,         \* of each: "none", "shown", "gone"
  setups,       \* its timer(100)s that will call setupVideo
  audio,        \* the stream of its route has audio
  timerHandle,  \* the stall timer of its MediaFeeder is armed
  videoWorker,  \* "none", "feeding", "dead" once its websocket has closed (it does
                \* not open another), "terminated"
  audioWorker,
  messageCount,
  isStalled,
  warned,       \* a warning is shown and nothing was set up since
  up            \* what the server has to send comes within two seconds

lvVars == <<view, setups, audio, timerHandle, videoWorker, audioWorker,
            messageCount, isStalled, warned, up>>

Workers == {"none", "feeding", "dead", "terminated"}
Runs(worker) == worker \in {"feeding", "dead"}

Init ==
  /\ view = [v \in Views |-> "none"]
  /\ setups = [v \in Views |-> 0]
  /\ audio = [v \in Views |-> FALSE]
  /\ timerHandle = [v \in Views |-> FALSE]
  /\ videoWorker = [v \in Views |-> "none"]
  /\ audioWorker = [v \in Views |-> "none"]
  /\ messageCount = [v \in Views |-> 0]
  /\ isStalled = [v \in Views |-> FALSE]
  /\ warned = [v \in Views |-> FALSE]
  /\ up \in BOOLEAN

-----------------------------------------------------------------------------
(* MediaFeeder *)

Terminate(worker) == IF worker = "none" THEN "none" ELSE "terminated"

\* Mutant: every message is counted.
CountedAll(n) == n + 1

\* resetTimout, for a message or a start.
Counted(n) == IF n > StalledMessages THEN n ELSE n + 1
StillStalled(n, stalled) == stalled /\ n <= StalledMessages

\* Mutant: startVideo leaves resetTimout to the first message.
RestartUnwatched(v, n, stalled) ==
  /\ timerHandle' = [timerHandle EXCEPT ![v] = FALSE]
  /\ messageCount' = [messageCount EXCEPT ![v] = Counted(n)]
  /\ isStalled' = [isStalled EXCEPT ![v] = StillStalled(n, stalled)]
  /\ videoWorker' = [videoWorker EXCEPT ![v] = "feeding"]
  /\ audioWorker' = [audioWorker EXCEPT
       ![v] = IF audio[v] THEN "feeding" ELSE Terminate(@)]

\* stop(), then startVideo(): n and stalled are messageCount and isStalled.
Restart(v, n, stalled) ==
  /\ timerHandle' = [timerHandle EXCEPT ![v] = TRUE]
  /\ messageCount' = [messageCount EXCEPT ![v] = Counted(n)]
  /\ isStalled' = [isStalled EXCEPT ![v] = StillStalled(n, stalled)]
  /\ videoWorker' = [videoWorker EXCEPT ![v] = "feeding"]
  /\ audioWorker' = [audioWorker EXCEPT
       ![v] = IF audio[v] THEN "feeding" ELSE Terminate(@)]

Stop(v) ==
  /\ timerHandle' = [timerHandle EXCEPT ![v] = FALSE]
  /\ videoWorker' = [videoWorker EXCEPT ![v] = Terminate(@)]
  /\ audioWorker' = [audioWorker EXCEPT ![v] = Terminate(@)]
  /\ UNCHANGED <<messageCount, isStalled>>

-----------------------------------------------------------------------------
(* The page *)

Shown == {v \in Views : view[v] = "shown"}

\* Navigation to a live stream: paramMap emits at once, and the cameras are
\* those the menu was made of.
Enter ==
  /\ Shown = {}
  /\ \E v \in Views, a \in BOOLEAN :
       /\ view[v] = "none"
       /\ view' = [view EXCEPT ![v] = "shown"]
       /\ setups' = [setups EXCEPT ![v] = 1]
       /\ audio' = [audio EXCEPT ![v] = a]
  /\ UNCHANGED <<timerHandle, videoWorker, audioWorker, messageCount,
                 isStalled, warned, up>>

\* paramMap emits another stream: the timers started before go on.
SwitchStream(v) ==
  /\ view[v] = "shown" /\ setups[v] < MaxSetups
  /\ setups' = [setups EXCEPT ![v] = @ + 1]
  /\ \E a \in BOOLEAN : audio' = [audio EXCEPT ![v] = a]
  /\ UNCHANGED <<view, timerHandle, videoWorker, audioWorker, messageCount,
                 isStalled, warned, up>>

\* setupVideo, with VideoComponent.setSource.
SetupVideo(v) ==
  /\ setups[v] > 0
  /\ setups' = [setups EXCEPT ![v] = @ - 1]
  /\ Restart(v, messageCount[v], isStalled[v])
  /\ warned' = [warned EXCEPT ![v] = FALSE]
  /\ UNCHANGED <<view, audio, up>>

\* The user leaves the page: VideoComponent.ngOnDestroy and the page's.
Leave(v) ==
  /\ view[v] = "shown"
  /\ view' = [view EXCEPT ![v] = "gone"]
  /\ Stop(v)
  /\ UNCHANGED <<setups, audio, warned, up>>

\* A view with nothing left running is garbage: its identity is used again.
Forget(v) ==
  /\ view[v] = "gone" /\ setups[v] = 0 /\ ~timerHandle[v]
  /\ view' = [view EXCEPT ![v] = "none"]
  /\ messageCount' = [messageCount EXCEPT ![v] = 0]
  /\ isStalled' = [isStalled EXCEPT ![v] = FALSE]
  /\ warned' = [warned EXCEPT ![v] = FALSE]
  /\ videoWorker' = [videoWorker EXCEPT ![v] = "none"]
  /\ audioWorker' = [audioWorker EXCEPT ![v] = "none"]
  /\ UNCHANGED <<setups, audio, timerHandle, up>>

-----------------------------------------------------------------------------
(* The feed *)

\* A decoded frame comes from the video worker.
VideoMessage(v) ==
  /\ up /\ videoWorker[v] = "feeding"
  /\ timerHandle' = [timerHandle EXCEPT ![v] = TRUE]
  /\ messageCount' = [messageCount EXCEPT ![v] = Counted(@)]
  /\ isStalled' = [isStalled EXCEPT ![v] = StillStalled(messageCount[v], @)]
  /\ UNCHANGED <<view, setups, audio, videoWorker, audioWorker, warned, up>>

\* The video worker reports: the feed is stopped, and not started again.
VideoWarning(v) ==
  /\ Runs(videoWorker[v])
  /\ warned' = [warned EXCEPT ![v] = TRUE]
  /\ Stop(v)
  /\ UNCHANGED <<view, setups, audio, up>>

\* Mutant: the feed is stopped, to be started by the user.
StallsForGood(v) ==
  /\ timerHandle[v]
  /\ ~up \/ videoWorker[v] # "feeding"
  /\ Stop(v)
  /\ UNCHANGED <<view, setups, audio, warned, up>>

\* Two seconds with no frame.
Stalls(v) ==
  /\ timerHandle[v]
  /\ ~up \/ videoWorker[v] # "feeding"
  /\ Restart(v, 0, TRUE)
  /\ UNCHANGED <<view, setups, audio, warned, up>>

\* With nothing sent, the server or the worker's own timeout closes the websocket.
WorkerDies(v) ==
  /\ ~up /\ videoWorker[v] = "feeding"
  /\ videoWorker' = [videoWorker EXCEPT ![v] = "dead"]
  /\ UNCHANGED <<view, setups, audio, timerHandle, audioWorker, messageCount,
                 isStalled, warned, up>>

ServerChanges ==
  /\ up' = ~up
  /\ UNCHANGED <<view, setups, audio, timerHandle, videoWorker, audioWorker,
                 messageCount, isStalled, warned>>

Next ==
  \/ Enter \/ ServerChanges
  \/ \E v \in Views :
       \/ SwitchStream(v) \/ SetupVideo(v) \/ Leave(v) \/ Forget(v)
       \/ VideoMessage(v) \/ VideoWarning(v) \/ Stalls(v) \/ WorkerDies(v)

\* Timers fire, and the messages of a server that is up come.
Fairness ==
  \A v \in Views :
    WF_lvVars(SetupVideo(v)) /\ WF_lvVars(Stalls(v)) /\ WF_lvVars(VideoMessage(v))

Spec == Init /\ [][Next]_lvVars /\ Fairness

-----------------------------------------------------------------------------
(* Properties *)

TypeOK ==
  /\ view \in [Views -> {"none", "shown", "gone"}]
  /\ setups \in [Views -> 0 .. MaxSetups]
  /\ audio \in [Views -> BOOLEAN] /\ timerHandle \in [Views -> BOOLEAN]
  /\ videoWorker \in [Views -> Workers] /\ audioWorker \in [Views -> Workers]
  /\ messageCount \in [Views -> 0 .. StalledMessages + 1]
  /\ isStalled \in [Views -> BOOLEAN] /\ warned \in [Views -> BOOLEAN]
  /\ up \in BOOLEAN

(***************************************************************************)
(* A feed that runs is watched: whatever stops it, and whenever, the stall *)
(* timer is there to start it again.                                       *)
(***************************************************************************)
FeedIsWatched ==
  \A v \in Views :
    Runs(videoWorker[v]) \/ Runs(audioWorker[v]) => timerHandle[v]

(***************************************************************************)
(* A live page comes back: with a server that has frames to send, a page   *)
(* that stays, and no warning of the worker, the picture is there and is   *)
(* no longer said to have stalled, again and again.                        *)
(***************************************************************************)
PictureComesBack ==
  \A v \in Views :
    <>[](up /\ view[v] = "shown" /\ ~warned[v])
      => []<>(videoWorker[v] = "feeding" /\ ~isStalled[v])
=============================================================================
