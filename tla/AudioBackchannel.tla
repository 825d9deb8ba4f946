-------------------------- MODULE AudioBackchannel --------------------------
(***************************************************************************)
(* Speaking to a camera from a live page: the button, the microphone's     *)
(* recorder, the client of the websocket that its sound is sent by, the    *)
(* requests to the server, and the timers                                  *)
(* (client/src/app/video/AudioBackchannel.ts, video.component.ts,          *)
(* shared/utils.service.ts).  The server is modelled from what it answers. *)
(***************************************************************************)
EXTENDS Naturals

CONSTANT MaxCalls  \* a bound of the model: calls of a kind that are outstanding

VARIABLES
  audioToggle,   \* the button is down
  speakActive,   \* the server has last said that audio is in use
  inUse,         \* it is
  starting,      \* startAudioOut requests not answered
  asked,         \* calls of getUserMedia not settled
  recorder,      \* "none", "inactive", "recording"
  client,        \* "none", "inactive", "connecting", "connected"
  leaked,        \* a client replaced by a new one is connected
  longTimers,    \* the timers of five minutes
  delays,        \* the timers of beginStopAudioOut
  guestCalls,    \* calls of stopAudioOut that await isGuest
  stopping,      \* stopAudioOut requests not answered
  excused        \* a bound of the property MicrophoneGoesOff, stated there

abVars == <<audioToggle, speakActive, inUse, starting, asked, recorder, client, leaked,
            longTimers, delays, guestCalls, stopping, excused>>

button == <<audioToggle, speakActive>>
server == <<inUse, starting, stopping>>
sound == <<asked, recorder, client, leaked>>
timers == <<longTimers, delays>>

Init ==
  /\ audioToggle = FALSE /\ speakActive = FALSE
  /\ inUse = FALSE /\ starting = 0 /\ stopping = 0
  /\ asked = 0 /\ recorder = "none" /\ client = "none" /\ leaked = FALSE
  /\ longTimers = 0 /\ delays = 0 /\ guestCalls = 0
  /\ excused = FALSE

-----------------------------------------------------------------------------

Connected == client \in {"connecting", "connected"}

\* stopAudioOut: its first step, before the await.
BeginStop == guestCalls < MaxCalls /\ guestCalls' = guestCalls + 1

\* toggleAudioOut, of a user who is not the guest: on, with startAudioOutput.
TurnOn ==
  /\ ~audioToggle /\ ~speakActive
  /\ starting < MaxCalls /\ asked < MaxCalls
  /\ audioToggle' = TRUE
  /\ starting' = starting + 1
  /\ asked' = asked + 1
  /\ client' = "inactive" /\ leaked' = (leaked \/ Connected)
  /\ excused' = (excused \/ asked > 0)
  /\ UNCHANGED <<speakActive, inUse, stopping, recorder, timers, guestCalls>>

\* toggleAudioOut: off, with beginStopAudioOut.
TurnOff ==
  /\ audioToggle /\ delays < MaxCalls
  /\ audioToggle' = FALSE
  /\ delays' = delays + 1
  /\ UNCHANGED <<speakActive, server, sound, longTimers, guestCalls, excused>>

StartAnswered ==
  /\ starting > 0 /\ starting' = starting - 1
  /\ \/ inUse' = TRUE /\ UNCHANGED guestCalls
     \/ BeginStop /\ UNCHANGED inUse
  /\ UNCHANGED <<button, stopping, sound, timers, excused>>

\* Mutant: the time of the speaker is not limited.
MicrophoneGrantedForEver ==
  /\ asked > 0 /\ asked' = asked - 1
  /\ recorder' = "inactive"
  /\ client' = IF Connected THEN client ELSE "connecting"
  /\ excused' = (excused \/ recorder = "recording")
  /\ UNCHANGED <<button, server, leaked, timers, guestCalls>>

\* getUserMedia's then: a recorder, whether or not audio is still wanted.
MicrophoneGranted ==
  /\ asked > 0 /\ asked' = asked - 1
  /\ longTimers < MaxCalls /\ longTimers' = longTimers + 1
  /\ recorder' = "inactive"
  /\ client' = IF Connected THEN client ELSE "connecting"
  /\ excused' = (excused \/ recorder = "recording")
  /\ UNCHANGED <<button, server, leaked, delays, guestCalls>>

MicrophoneRefused ==
  /\ asked > 0 /\ asked' = asked - 1
  /\ BeginStop
  /\ UNCHANGED <<button, server, recorder, client, leaked, timers, excused>>

\* The client's onConnect starts the recorder there is.
OnConnect ==
  /\ client = "connecting" /\ client' = "connected"
  /\ recorder' = "recording"
  /\ UNCHANGED <<button, server, asked, leaked, timers, guestCalls, excused>>

\* A connection lost is made again; starting a recorder that records fails.
OnReconnect ==
  /\ client = "connected" \/ leaked
  /\ recorder' = IF recorder = "none" THEN "none" ELSE "recording"
  /\ excused' = (excused \/ recorder = "inactive")
  /\ UNCHANGED <<button, server, asked, client, leaked, timers, guestCalls>>

\* "This stops the audio out after 5 minutes".
LongTimer ==
  /\ longTimers > 0 /\ longTimers' = longTimers - 1
  /\ BeginStop
  /\ excused' = (excused \/ client = "connecting")
  /\ UNCHANGED <<button, server, sound, delays>>

DelayOver ==
  /\ delays > 0 /\ delays' = delays - 1
  /\ BeginStop
  /\ UNCHANGED <<button, server, sound, longTimers, excused>>

\* VideoComponent.setSource and, after 20 ms, ngOnDestroy.
LeaveStream ==
  /\ BeginStop
  /\ UNCHANGED <<button, server, sound, timers, excused>>

\* The rest of stopAudioOut, for a user who is not the guest; not run if isGuest fails.
StopAudioOut ==
  /\ guestCalls > 0 /\ guestCalls' = guestCalls - 1
  /\ \/ /\ stopping < MaxCalls /\ stopping' = stopping + 1
        /\ audioToggle' = FALSE
        /\ recorder' = IF recorder = "recording" THEN "inactive" ELSE recorder
        /\ UNCHANGED excused
     \/ excused' = TRUE /\ UNCHANGED <<stopping, audioToggle, recorder>>
  /\ UNCHANGED <<speakActive, inUse, starting, asked, client, leaked, timers>>

\* The client deactivated is the one there is by now.
StopAnswered ==
  /\ stopping > 0 /\ stopping' = stopping - 1
  /\ \/ /\ inUse' = FALSE
        /\ client' = IF client = "none" THEN "none" ELSE "inactive"
        /\ UNCHANGED excused
     \/ excused' = TRUE /\ UNCHANGED <<inUse, client>>
  /\ UNCHANGED <<button, starting, asked, recorder, leaked, timers, guestCalls>>

\* UtilsService.talkOff, some time after the server has begun or ended.
TalkOff ==
  /\ speakActive' = inUse
  /\ UNCHANGED <<audioToggle, server, sound, timers, guestCalls, excused>>

Next ==
  \/ TurnOn \/ TurnOff \/ StartAnswered \/ MicrophoneGranted \/ MicrophoneRefused
  \/ OnConnect \/ OnReconnect \/ LongTimer \/ DelayOver \/ LeaveStream
  \/ StopAudioOut \/ StopAnswered \/ TalkOff

\* Timers fire and requests are answered.
Fairness ==
  /\ WF_abVars(LongTimer) /\ WF_abVars(StopAudioOut) /\ WF_abVars(StopAnswered)

Spec == Init /\ [][Next]_abVars /\ Fairness

-----------------------------------------------------------------------------

\* The microphone is not left on: it is turned off by the button, by leaving the
\* stream, by a failure to start, or in the end by the timer, although the microphone
\* may be granted, and start, when audio is no longer wanted.  Not if a request to stop
\* fails, if the microphone is asked for a second time before it was granted, or if the
\* connection is made after the timer, or made again after the microphone went off:
\* excused.
MicrophoneGoesOff ==
  []<>(recorder = "recording" => excused)

=============================================================================
