-------------------------- MODULE RecordingPlayer --------------------------
(***************************************************************************)
(* The sound and the speed of the recordings page: the video element, the  *)
(* cookie of the camera and the buttons (client/src/app/                   *)
(* recording-control/recording-control.component.ts).                      *)
(***************************************************************************)
EXTENDS Naturals

CONSTANTS
  RpCams,        \* the cameras with a stream that is recorded
  RpLevels,      \* the volumes set
  RpDefault      \* 0.4

VARIABLES
  rpCam,               \* of the stream of the page
  loaded,              \* there is a recording to play
  rpVolume, rpMuted,   \* of the video element
  rpCookie,            \* of each camera: << >> or <<[level, mute]>>
  paused, rate,        \* of the video element
  mode                 \* the playback button that is down

rpVars == <<rpCam, loaded, rpVolume, rpMuted, rpCookie, paused, rate, mode>>

sound == <<rpVolume, rpMuted, rpCookie>>
playback == <<paused, rate, mode>>

\* Mutant: the level stays that of the camera before.
SetInitialLevelOnce(c) == UNCHANGED sound

\* setInitialLevel: the volume and then the muting of the camera's cookie, or 0.4 and
\* not muted; both write the cookie.
SetInitialLevel(c) ==
  LET initial == IF rpCookie[c] = << >> THEN [level |-> RpDefault, mute |-> FALSE]
                 ELSE rpCookie[c][1]
  IN  /\ rpVolume' = initial.level
      /\ rpMuted' = initial.mute
      /\ rpCookie' = [rpCookie EXCEPT ![c] = <<initial>>]

\* setupRecording, for a stream from the menu or after a deletion.
SetupRecording ==
  /\ \E c \in RpCams : rpCam' = c /\ SetInitialLevel(c)
  /\ loaded' = FALSE /\ mode' = "startPause"
  /\ UNCHANGED <<paused, rate>>

\* A recording is chosen, by the list's arrival or a date, or in the selector: the
\* element's load sets the speed anew.
SetSource ==
  /\ loaded' = TRUE /\ rate' = 1 /\ paused' \in BOOLEAN
  /\ mode' \in {mode, "startPause"}
  /\ UNCHANGED <<rpCam, sound>>

Mute(m) ==
  /\ rpMuted' = m /\ UNCHANGED rpVolume
  /\ rpCookie' = [rpCookie EXCEPT ![rpCam] = <<[level |-> rpVolume, mute |-> m]>>]

SetVolume(v) ==
  /\ rpVolume' = v /\ UNCHANGED rpMuted
  /\ rpCookie' = [rpCookie EXCEPT ![rpCam] = <<[level |-> v, mute |-> rpMuted]>>]

\* The audio controls; and a click on their button with the Ctrl key.
Sound ==
  /\ \/ \E m \in BOOLEAN : Mute(m)
     \/ \E v \in RpLevels : SetVolume(v)
  /\ UNCHANGED <<rpCam, loaded, playback>>

\* Mutant: the button starts play and leaves the speed as it was.
PlayOrPauseAtRate ==
  /\ loaded /\ mode' = "startPause" /\ paused' = ~paused
  /\ UNCHANGED <<rpCam, loaded, rate, sound>>

PlayOrPause ==
  /\ loaded /\ mode' = "startPause"
  /\ \/ paused /\ paused' = FALSE /\ rate' = 1       \* start
     \/ ~paused /\ paused' = TRUE /\ UNCHANGED rate  \* pause
  /\ UNCHANGED <<rpCam, loaded, sound>>

\* fastForward, fasterForward
FastForward ==
  /\ loaded
  /\ mode' = "fastForward" /\ paused' = FALSE /\ rate' \in {4, 10}
  /\ UNCHANGED <<rpCam, loaded, sound>>

\* The recording has been played to its end.
Ended ==
  /\ ~paused /\ paused' = TRUE
  /\ UNCHANGED <<rpCam, loaded, sound, rate, mode>>

Init ==
  /\ rpCam \in RpCams /\ loaded = FALSE
  /\ rpVolume = RpDefault /\ rpMuted = FALSE
  /\ rpCookie = [c \in RpCams |->
                   IF c = rpCam THEN <<[level |-> RpDefault, mute |-> FALSE]>>
                   ELSE << >>]
  /\ paused = TRUE /\ rate = 1 /\ mode = "startPause"

Next ==
  SetupRecording \/ SetSource \/ Sound \/ PlayOrPause \/ FastForward \/ Ended

-----------------------------------------------------------------------------

\* The cookie of the page's camera has the sound that is heard, so that the next visit
\* has it too.
RecordingCookie ==
  rpCookie[rpCam] = <<[level |-> rpVolume, mute |-> rpMuted]>>

\* With the play button down a recording plays at its own speed.
PlaysAtItsSpeed ==
  (loaded /\ mode = "startPause" /\ ~paused) => rate = 1

=============================================================================
