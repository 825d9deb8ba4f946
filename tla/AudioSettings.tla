--------------------------- MODULE AudioSettings ---------------------------
(***************************************************************************)
(* The sound of a live page: the settings of its MediaFeeder, those of the *)
(* AudioStream that plays it, which is made again by every start and is    *)
(* ready some time later, the cookie of the camera, and the controls that  *)
(* the page shows (client/src/app/video/video.component.ts,                *)
(* MediaFeeder.ts, audio-stream.ts, audio-control.component.ts).           *)
(***************************************************************************)
EXTENDS Integers

CONSTANTS
  Cams,         \* the cameras, each with a cookie
  Levels,       \* the volumes the user sets, none 0
  DefaultLevel  \* 0.4

ASSUME AudioSettingsAssumption ==
  Levels \subseteq Nat \ {0} /\ DefaultLevel \in Levels

VARIABLES
  cam,         \* of the stream shown
  hasAudio,    \* the stream shown has audio, and there is an AudioStream
  feeder,      \* MediaFeeder: [level, mute, latency]
  sink,        \* MyUnderlyingSink: [gain, muted, gainFactor, gainNode]
  node,        \* the worklet's node: "none" until the module is loaded, else the
               \* value of its autoLatencyControl
  leftOpen,    \* the AudioContext of an earlier start was never closed
  cookie,      \* of each camera: << >> or <<settings>>
  control      \* the controls: [open, mute, level, lastLevel], and a history: kept,
               \* open since before the page went to the stream shown

asVars == <<cam, hasAudio, feeder, sink, node, leftOpen, cookie, control>>

Settings == [level : Levels \cup {0}, mute : BOOLEAN, latency : BOOLEAN]
Nodes == {"none", "limits", "doesNot"}
Param(on) == IF on THEN "limits" ELSE "doesNot"

-----------------------------------------------------------------------------
(* AudioStream *)

\* Mutant: the volume is set, muted or not.
SetGainAnyway(s, g) == [s EXCEPT !.gain = g, !.gainNode = g * s.gainFactor]

\* The gain node: what setGain, setMuting and write leave in it.
SetGain(s, g) ==
  [s EXCEPT !.gain = g, !.gainNode = IF s.muted THEN 0 ELSE g * s.gainFactor]
SetMuting(s, m) ==
  [s EXCEPT !.muted = m, !.gainNode = IF m THEN 0 ELSE s.gain * s.gainFactor]
SetGainFactor(s) == SetGain([s EXCEPT !.gainFactor = 1], s.gain)

\* A new one, given the feeder's settings.
NewSink(f) ==
  SetGain(SetMuting([gain |-> 1, muted |-> FALSE, gainFactor |-> 0,
                     gainNode |-> 0], f.mute), f.level)

\* What the getters give the page, with no AudioStream too.
IsMuted == hasAudio /\ sink.muted
Gain == IF hasAudio THEN sink.gain ELSE 0
Limits(n) == n # "doesNot"
GetAudioLatencyControl == hasAudio /\ Limits(node)

SetNode(n, on) == IF n = "none" THEN n ELSE Param(on)

-----------------------------------------------------------------------------
(* The page *)

Fresh == [level |-> DefaultLevel, mute |-> FALSE, latency |-> TRUE]
ClosedControl ==
  [open |-> FALSE, mute |-> FALSE, level |-> 0, lastLevel |-> 0, kept |-> FALSE]

\* AudioControlComponent, made with the settings there are: ngOnInit.
OpenControl(mute, gain) ==
  [open |-> TRUE, mute |-> mute, lastLevel |-> gain,
   level |-> IF mute THEN 0 ELSE gain, kept |-> FALSE]

\* It is there while the controls are open and the stream has audio.
ControlIsThere == control.open /\ hasAudio

\* MediaFeeder.startVideo, after stop(): terminate closes the AudioContext if
\* there is a node.
Start(f, audio) ==
  /\ leftOpen' = (leftOpen \/ (hasAudio /\ node = "none"))
  /\ sink' = NewSink(f)
  /\ node' = "none"
  /\ hasAudio' = audio

\* setInitialAudioSettings: setVolume, mute and audioLatencyLimiting in turn, each
\* of which writes the cookie.  The last one's has isMuted as the stream has it.
Initial(c) == IF cookie[c] = << >> THEN Fresh ELSE cookie[c][1]
Written(f, audio) == [f EXCEPT !.mute = audio /\ f.mute]

\* setSource and setInitialAudioSettings.
SetSource(c, audio) ==
  /\ cam' = c
  /\ feeder' = Initial(c)
  /\ cookie' = [cookie EXCEPT ![c] = <<Written(Initial(c), audio)>>]
  /\ Start(Initial(c), audio)

\* The page is entered: component and feeder are new.
EnterPage ==
  /\ \E c \in Cams, audio \in BOOLEAN : SetSource(c, audio)
  /\ control' = ClosedControl

\* The route goes to another stream with no click (one closes the controls first),
\* by the browser's history.  Nothing closes controls that are open: the component
\* stays as it is between two streams with audio, and is made anew by one with audio
\* after one without.
SwitchStream ==
  /\ \E c \in Cams, audio \in BOOLEAN :
       /\ SetSource(c, audio)
       /\ control' =
            CASE ~control.open -> control
              [] control.open /\ ~audio -> [ClosedControl EXCEPT !.open = TRUE]
              [] ControlIsThere /\ audio -> [control EXCEPT !.kept = TRUE]
              [] OTHER -> OpenControl(Initial(c).mute, Initial(c).level)

Init ==
  /\ cam \in Cams /\ hasAudio = FALSE
  /\ feeder = Fresh /\ sink = NewSink(Fresh)
  /\ node = "none" /\ leftOpen = FALSE
  /\ cookie = [c \in Cams |-> << >>]
  /\ control = ClosedControl

\* The stall timer: the settings are the feeder's.
Restart ==
  /\ Start(feeder, hasAudio)
  /\ UNCHANGED <<cam, feeder, cookie, control>>

\* addModule has loaded the worklet: the parameter has its default.
NodeReady ==
  /\ hasAudio /\ node = "none"
  /\ node' = "limits"
  /\ UNCHANGED <<cam, hasAudio, feeder, sink, leftOpen, cookie, control>>

\* onloadedmetadata, before or after the node is ready.
LoadedMetadata ==
  /\ hasAudio
  /\ node' = SetNode(node, feeder.latency)
  /\ UNCHANGED <<cam, hasAudio, feeder, sink, leftOpen, cookie, control>>

\* The first write: the gain factor depends on the format of what is decoded.
FirstWrite ==
  /\ hasAudio /\ node # "none" /\ sink.gainFactor = 0
  /\ sink' = SetGainFactor(sink)
  /\ UNCHANGED <<cam, hasAudio, feeder, node, leftOpen, cookie, control>>

SetCookie(settings) == cookie' = [cookie EXCEPT ![cam] = <<settings>>]

\* Mutant: the settings are read before the muting is.
ToggleMuteStale ==
  /\ feeder' = [feeder EXCEPT !.mute = ~IsMuted]
  /\ sink' = SetMuting(sink, ~IsMuted)
  /\ SetCookie([level |-> feeder.level, mute |-> IsMuted,
                latency |-> GetAudioLatencyControl])
  /\ UNCHANGED <<cam, hasAudio, node, leftOpen>>

\* VideoComponent.toggleMuteAudio, by the controls or a click with Ctrl.
ToggleMute ==
  /\ feeder' = [feeder EXCEPT !.mute = ~IsMuted]
  /\ sink' = SetMuting(sink, ~IsMuted)
  /\ SetCookie([level |-> feeder.level, mute |-> ~IsMuted,
                latency |-> GetAudioLatencyControl])
  /\ UNCHANGED <<cam, hasAudio, node, leftOpen>>

\* Mutant: the controls are left open.
CtrlClickLeavesOpen == hasAudio /\ ToggleMute /\ UNCHANGED control

CtrlClick == hasAudio /\ ToggleMute /\ control' = ClosedControl

Open ==
  /\ hasAudio /\ ~control.open
  /\ control' = OpenControl(IsMuted, Gain)
  /\ UNCHANGED <<cam, hasAudio, feeder, sink, node, leftOpen, cookie>>

ClickElsewhere ==
  /\ control.open
  /\ control' = ClosedControl
  /\ UNCHANGED <<cam, hasAudio, feeder, sink, node, leftOpen, cookie>>

ControlToggleMute ==
  /\ ControlIsThere
  /\ control' = IF control.mute
                THEN [control EXCEPT !.mute = FALSE, !.level = control.lastLevel]
                ELSE [control EXCEPT !.mute = TRUE, !.level = 0,
                                     !.lastLevel = control.level]
  /\ ToggleMute

\* The slider, which is disabled while muted.
ControlSetVolume ==
  /\ ControlIsThere /\ ~control.mute
  /\ \E l \in Levels :
       /\ control' = [control EXCEPT !.level = l]
       /\ feeder' = [feeder EXCEPT !.level = l]
       /\ sink' = SetGain(sink, l)
       /\ SetCookie([level |-> l, mute |-> IsMuted,
                     latency |-> GetAudioLatencyControl])
  /\ UNCHANGED <<cam, hasAudio, node, leftOpen>>

SetLatencyLimiting ==
  /\ ControlIsThere
  /\ \E on \in BOOLEAN :
       /\ feeder' = [feeder EXCEPT !.latency = on]
       /\ node' = SetNode(node, on)
       /\ SetCookie([level |-> feeder.level, mute |-> IsMuted, latency |-> on])
  /\ UNCHANGED <<cam, hasAudio, sink, leftOpen, control>>

Next ==
  \/ EnterPage \/ SwitchStream \/ Restart \/ NodeReady \/ LoadedMetadata \/ FirstWrite
  \/ CtrlClick \/ Open \/ ClickElsewhere
  \/ ControlToggleMute \/ ControlSetVolume \/ SetLatencyLimiting

Spec == Init /\ [][Next]_asVars

-----------------------------------------------------------------------------
Sinks == [gain : Nat, muted : BOOLEAN, gainFactor : {0, 1}, gainNode : Nat]
Controls == [open : BOOLEAN, mute : BOOLEAN, level : Levels \cup {0},
             lastLevel : Levels \cup {0}, kept : BOOLEAN]

TypeOK ==
  /\ cam \in Cams /\ hasAudio \in BOOLEAN /\ leftOpen \in BOOLEAN
  /\ feeder \in Settings /\ sink \in Sinks /\ control \in Controls
  /\ node \in Nodes
  /\ cookie \in [Cams -> {<< >>} \cup {<<s>> : s \in Settings}]

(***************************************************************************)
(* A page that is muted is silent and one that is not is heard at its      *)
(* level, through every restart of the feed, every switch and every order  *)
(* of muting, setting the volume and the first packet.                     *)
(***************************************************************************)
HeardAsSet ==
  hasAudio => sink.gainNode =
    IF feeder.mute \/ sink.gainFactor = 0 THEN 0 ELSE feeder.level

(***************************************************************************)
(* The cookie of the camera shown has the volume and the muting that are   *)
(* heard, so that the camera is shown with them again.                     *)
(***************************************************************************)
CookieKeepsSound ==
  hasAudio => cookie[cam] # << >> /\ cookie[cam][1].level = feeder.level
                /\ cookie[cam][1].mute = feeder.mute

(***************************************************************************)
(* The controls show what is heard, unless they were left open when the    *)
(* page went to another stream: then they show the last camera's values    *)
(* until they are closed (kept).                                           *)
(***************************************************************************)
ControlsShowSound ==
  ControlIsThere /\ ~control.kept =>
    /\ control.mute = feeder.mute
    /\ ~control.mute => control.level = feeder.level

\* The AudioStream and the feeder, which is what a restart goes by, agree.
SinkFollowsFeeder ==
  sink.muted = feeder.mute /\ sink.gain = feeder.level

\* Muted, they remember the volume that comes back; with the same exception.
ControlsRemember ==
  ControlIsThere /\ ~control.kept /\ control.mute => control.lastLevel = feeder.level

(***************************************************************************)
(* What is heard is what was set, and the camera's cookie says the same,   *)
(* in whatever order toggling, the slider, restarts of the feed, switches  *)
(* and the first packet come; so do the controls, unless they were kept    *)
(* through a switch.  With the types and the two facts above this is       *)
(* inductive.                                                              *)
(***************************************************************************)
SoundAsSet ==
  /\ TypeOK /\ SinkFollowsFeeder /\ ControlsRemember
  /\ HeardAsSet /\ CookieKeepsSound /\ ControlsShowSound
=============================================================================
