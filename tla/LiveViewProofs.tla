-------------------------- MODULE LiveViewProofs --------------------------
(***************************************************************************)
(* Proofs about the parts of a live page: that it sounds as it was set,    *)
(* for any cameras and any volumes, that what runs is watched, for any     *)
(* views and tabs and any limits, and that what is buffered holds, for any *)
(* number of messages, errors and samples.  At the end, the other side of  *)
(* the page: the server's of the audio to a camera.                        *)
(***************************************************************************)
EXTENDS MCLiveView, AudioOut, SequenceTheorems, FiniteSetTheorems, WellFoundedInduction, TLAPS

USE AudioSettingsAssumption

(* What the gain factor makes of a volume. *)
LEMMA Product ==
  ASSUME NEW g \in Nat, NEW f \in {0, 1}
  PROVE  g * f = IF f = 0 THEN 0 ELSE g
OBVIOUS

LEMMA VolumesAreNumbers == Levels \cup {0} \subseteq Nat
<1>1. Levels \subseteq Nat
  BY Zenon
<1> QED
  BY <1>1, 0 \in Nat

(* What a setting of the volume, or of the muting, leaves in the gain node. *)
LEMMA GainIsSet ==
  ASSUME NEW s \in Sinks, NEW g \in Nat
  PROVE  /\ SetGain(s, g) \in Sinks
         /\ SetGain(s, g).gain = g
         /\ SetGain(s, g).muted = s.muted
         /\ SetGain(s, g).gainFactor = s.gainFactor
         /\ SetGain(s, g).gainNode = IF s.muted \/ s.gainFactor = 0 THEN 0 ELSE g
<1>1. s.gain \in Nat /\ s.gainFactor \in {0, 1} /\ s.muted \in BOOLEAN
  BY DEF Sinks
<1> DEFINE heard == IF s.muted THEN 0 ELSE g * s.gainFactor
<1>2. heard \in Nat /\ heard = IF s.muted \/ s.gainFactor = 0 THEN 0 ELSE g
  BY <1>1, Product
<1>3. SetGain(s, g) = [s EXCEPT !.gain = g, !.gainNode = heard]
  BY DEF SetGain
<1> HIDE DEF heard
<1> QED
  BY <1>2, <1>3 DEF Sinks

LEMMA MutingIsSet ==
  ASSUME NEW s \in Sinks, NEW m \in BOOLEAN
  PROVE  /\ SetMuting(s, m) \in Sinks
         /\ SetMuting(s, m).gain = s.gain
         /\ SetMuting(s, m).muted = m
         /\ SetMuting(s, m).gainFactor = s.gainFactor
         /\ SetMuting(s, m).gainNode = IF m \/ s.gainFactor = 0 THEN 0 ELSE s.gain
<1>1. s.gain \in Nat /\ s.gainFactor \in {0, 1}
  BY DEF Sinks
<1> DEFINE heard == IF m THEN 0 ELSE s.gain * s.gainFactor
<1>2. heard \in Nat /\ heard = IF m \/ s.gainFactor = 0 THEN 0 ELSE s.gain
  BY <1>1, Product
<1>3. SetMuting(s, m) = [s EXCEPT !.muted = m, !.gainNode = heard]
  BY DEF SetMuting
<1> HIDE DEF heard
<1> QED
  BY <1>2, <1>3 DEF Sinks

(* A new AudioStream is silent, and has its feeder's settings. *)
LEMMA NewSinkFollows ==
  ASSUME NEW f \in Settings
  PROVE  /\ NewSink(f) \in Sinks
         /\ NewSink(f).gain = f.level /\ NewSink(f).muted = f.mute
         /\ NewSink(f).gainFactor = 0 /\ NewSink(f).gainNode = 0
<1> DEFINE first == [gain |-> 1, muted |-> FALSE, gainFactor |-> 0, gainNode |-> 0]
           second == SetMuting(first, f.mute)
<1>1. f.level \in Nat /\ f.mute \in BOOLEAN
  BY VolumesAreNumbers DEF Settings
<1>2. first \in Sinks /\ first.gainFactor = 0
  BY DEF Sinks
<1>3. second \in Sinks /\ second.muted = f.mute /\ second.gainFactor = 0
  <2> HIDE DEF first
  <2> QED
    BY <1>1, <1>2, MutingIsSet
<1>4. NewSink(f) = SetGain(second, f.level)
  BY DEF NewSink
<1> HIDE DEF second
<1> QED
  BY <1>1, <1>3, <1>4, GainIsSet

(* The settings that a camera's page starts with. *)
LEMMA InitialSettings ==
  ASSUME TypeOK, NEW c \in Cams
  PROVE  Initial(c) \in Settings
<1>1. CASE cookie[c] = << >>
  BY <1>1 DEF Initial, Fresh, Settings
<1>2. CASE cookie[c] # << >>
  <2>1. PICK s \in Settings : cookie[c] = <<s>>
    BY <1>2 DEF TypeOK
  <2> QED
    BY <1>2, <2>1 DEF Initial
<1> QED
  BY <1>1, <1>2

LEMMA InitSounds == Init => SoundAsSet
<1> SUFFICES ASSUME Init PROVE SoundAsSet
  OBVIOUS
<1>1. Fresh \in Settings
  BY DEF Fresh, Settings
<1>2. /\ sink \in Sinks /\ sink.gain = feeder.level /\ sink.muted = feeder.mute
      /\ sink.gainFactor = 0 /\ sink.gainNode = 0
  BY <1>1, NewSinkFollows DEF Init
<1>3. sink \in Sinks /\ control \in Controls /\ feeder \in Settings
  BY <1>1, <1>2 DEF Init, Controls, ClosedControl
<1>4. cookie \in [Cams -> {<< >>} \cup {<<s>> : s \in Settings}]
  BY DEF Init
<1>5. TypeOK
  BY <1>3, <1>4 DEF Init, TypeOK, Nodes
<1> QED
  BY <1>2, <1>5 DEF Init, SoundAsSet, SinkFollowsFeeder, ControlsRemember, HeardAsSet,
    CookieKeepsSound, ControlsShowSound, ControlIsThere, ClosedControl

(* A start keeps to the settings it is given: the AudioStream is a new one. *)
LEMMA StartFollows ==
  ASSUME NEW f \in Settings, NEW has \in BOOLEAN, TypeOK, Start(f, has)
  PROVE  /\ leftOpen' \in BOOLEAN /\ hasAudio' = has /\ node' \in Nodes
         /\ sink' \in Sinks /\ sink'.gain = f.level /\ sink'.muted = f.mute
         /\ sink'.gainFactor = 0 /\ sink'.gainNode = 0
BY NewSinkFollows DEF Start, TypeOK, Settings, Sinks, Nodes

(* A source is played as its camera's cookie says, whatever the controls. *)
LEMMA SetSourceSounds ==
  ASSUME SoundAsSet, NEW c \in Cams, NEW has \in BOOLEAN, SetSource(c, has),
         control' \in Controls, ControlsRemember', ControlsShowSound'
  PROVE  SoundAsSet'
<1>1. TypeOK
  BY DEF SoundAsSet
<1>2. /\ cam' = c
      /\ feeder' = Initial(c)
      /\ cookie' = [cookie EXCEPT ![c] = <<Written(Initial(c), has)>>]
      /\ Start(Initial(c), has)
  BY DEF SetSource
<1>3. Initial(c) \in Settings
  BY <1>1, InitialSettings
<1>4. /\ Written(Initial(c), has) \in Settings
      /\ Written(Initial(c), has).level = Initial(c).level
      /\ Written(Initial(c), has).mute = (has /\ Initial(c).mute)
  BY <1>3 DEF Written, Settings
<1>5. cookie'[c] = <<Written(Initial(c), has)>>
  BY <1>1, <1>2 DEF TypeOK
<1>7. /\ leftOpen' \in BOOLEAN /\ hasAudio' = has /\ node' \in Nodes
      /\ sink' \in Sinks /\ sink'.gain = feeder'.level /\ sink'.muted = feeder'.mute
      /\ sink'.gainFactor = 0 /\ sink'.gainNode = 0
  BY <1>1, <1>2, <1>3, StartFollows
<1>8. TypeOK'
  BY <1>1, <1>2, <1>3, <1>4, <1>7 DEF TypeOK
<1>9. CookieKeepsSound'
  <2>1. has => Written(Initial(c), has).mute = Initial(c).mute
    BY <1>3, <1>4 DEF Settings
  <2>2. cam' = c /\ feeder' = Initial(c) /\ hasAudio' = has
    BY <1>2, <1>7
  <2>3. cookie'[c] # << >> /\ cookie'[c][1] = Written(Initial(c), has)
    BY <1>5
  <2> QED
    BY <1>4, <2>1, <2>2, <2>3 DEF CookieKeepsSound
<1> QED
  BY <1>7, <1>8, <1>9 DEF SoundAsSet, SinkFollowsFeeder, HeardAsSet

LEMMA EnterPageSounds == SoundAsSet /\ EnterPage => SoundAsSet'
<1> SUFFICES ASSUME SoundAsSet, EnterPage PROVE SoundAsSet'
  OBVIOUS
<1>1. control' = ClosedControl
  BY DEF EnterPage
<1>2. control' \in Controls /\ ControlsRemember' /\ ControlsShowSound'
  BY <1>1 DEF ClosedControl, Controls, ControlsRemember, ControlsShowSound, ControlIsThere
<1> QED
  BY <1>2, SetSourceSounds DEF EnterPage

(* Controls that stay open are those kept, or new ones, or there are none. *)
LEMMA SwitchStreamSounds == SoundAsSet /\ SwitchStream => SoundAsSet'
<1> SUFFICES ASSUME SoundAsSet, SwitchStream PROVE SoundAsSet'
  OBVIOUS
<1>1. PICK c \in Cams, has \in BOOLEAN :
        /\ SetSource(c, has)
        /\ control' =
             CASE ~control.open -> control
               [] control.open /\ ~has -> [ClosedControl EXCEPT !.open = TRUE]
               [] ControlIsThere /\ has -> [control EXCEPT !.kept = TRUE]
               [] OTHER -> OpenControl(Initial(c).mute, Initial(c).level)
  BY DEF SwitchStream
<1>2. /\ TypeOK /\ Initial(c) \in Settings
      /\ feeder' = Initial(c) /\ hasAudio' = has
      /\ control \in Controls /\ control.open \in BOOLEAN /\ hasAudio \in BOOLEAN
  BY <1>1, InitialSettings DEF SoundAsSet, TypeOK, SetSource, Start, Controls
<1>3. CASE ~control.open
  <2>1. control' = control
    BY <1>1, <1>3 DEF ControlIsThere
  <2>2. control' \in Controls /\ ControlsRemember' /\ ControlsShowSound'
    BY <1>2, <1>3, <2>1 DEF ControlsRemember, ControlsShowSound, ControlIsThere
  <2> QED
    BY <1>1, <2>2, SetSourceSounds
<1>4. CASE control.open /\ ~has
  <2>1. control' = [ClosedControl EXCEPT !.open = TRUE]
    BY <1>1, <1>4
  <2>2. control' \in Controls
    BY <2>1 DEF ClosedControl, Controls
  <2> QED
    BY <1>1, <1>2, <1>4, <2>2, SetSourceSounds
       DEF ControlsRemember, ControlsShowSound, ControlIsThere
<1>5. CASE control.open /\ has /\ hasAudio
  <2>1. control' = [control EXCEPT !.kept = TRUE]
    BY <1>1, <1>5 DEF ControlIsThere
  <2>2. control' \in Controls /\ control'.kept
    BY <1>2, <2>1 DEF Controls
  <2> QED
    BY <1>1, <2>2, SetSourceSounds DEF ControlsRemember, ControlsShowSound
<1>6. CASE control.open /\ has /\ ~hasAudio
  <2>1. control' = OpenControl(Initial(c).mute, Initial(c).level)
    BY <1>1, <1>6 DEF ControlIsThere
  <2>2. control' \in Controls /\ ControlsRemember' /\ ControlsShowSound'
    BY <1>2, <2>1
       DEF OpenControl, Controls, Settings, ControlsRemember, ControlsShowSound, ControlIsThere
  <2> QED
    BY <1>1, <2>2, SetSourceSounds
<1> QED
  BY <1>2, <1>3, <1>4, <1>5, <1>6

LEMMA RestartSounds == SoundAsSet /\ Restart => SoundAsSet'
<1> SUFFICES ASSUME SoundAsSet, Restart PROVE SoundAsSet'
  OBVIOUS
<1>1. /\ leftOpen' \in BOOLEAN /\ hasAudio' = hasAudio /\ node' \in Nodes
      /\ sink' \in Sinks /\ sink'.gain = feeder.level /\ sink'.muted = feeder.mute
      /\ sink'.gainFactor = 0 /\ sink'.gainNode = 0
  BY StartFollows DEF SoundAsSet, TypeOK, Restart
<1> QED
  BY <1>1 DEF Restart, SoundAsSet, TypeOK, SinkFollowsFeeder, ControlsRemember, HeardAsSet,
    CookieKeepsSound, ControlsShowSound, ControlIsThere

(* With has, the page's getters tell what the feeder is set to. *)
LEMMA GettersTell ==
  ASSUME SoundAsSet, hasAudio
  PROVE  IsMuted = feeder.mute /\ Gain = feeder.level
<1>1. sink.muted = feeder.mute /\ sink.gain = feeder.level /\ sink.muted \in BOOLEAN
  BY DEF SoundAsSet, SinkFollowsFeeder, TypeOK, Sinks
<1>2. IsMuted = sink.muted
  BY <1>1 DEF IsMuted
<1>3. Gain = sink.gain
  BY DEF Gain
<1> QED
  BY <1>1, <1>2, <1>3

(* Toggling, with whatever becomes of the controls. *)
LEMMA ToggleMuteSounds ==
  ASSUME SoundAsSet, hasAudio, ToggleMute, control' \in Controls,
         ControlsRemember', ControlsShowSound'
  PROVE  SoundAsSet'
<1>1. feeder.mute \in BOOLEAN /\ feeder.level \in Levels \cup {0} /\ IsMuted = feeder.mute
  BY GettersTell DEF SoundAsSet, TypeOK, Settings
<1>2. /\ feeder' \in Settings
      /\ feeder'.mute = ~IsMuted /\ feeder'.level = feeder.level
  BY <1>1 DEF ToggleMute, SoundAsSet, TypeOK, Settings
<1>3. /\ sink' \in Sinks /\ sink'.gain = sink.gain /\ sink'.muted = ~IsMuted
      /\ sink'.gainNode = IF ~IsMuted \/ sink'.gainFactor = 0 THEN 0 ELSE sink.gain
  BY <1>1, MutingIsSet DEF ToggleMute, SoundAsSet, TypeOK
<1> DEFINE new == [level |-> feeder.level, mute |-> ~IsMuted, latency |-> GetAudioLatencyControl]
<1>4. new \in Settings
  BY <1>1 DEF Settings, GetAudioLatencyControl, Limits
<1>5. cookie' = [cookie EXCEPT ![cam] = <<new>>]
  BY DEF ToggleMute, SetCookie
<1>6. cam' = cam /\ hasAudio' = hasAudio /\ node' = node /\ leftOpen' = leftOpen
  BY DEF ToggleMute
<1>7. TypeOK'
  BY <1>2, <1>3, <1>4, <1>5, <1>6 DEF SoundAsSet, TypeOK
<1>8. cookie'[cam'] = <<new>>
  BY <1>5, <1>6 DEF SoundAsSet, TypeOK
<1>9. CookieKeepsSound'
  BY <1>2, <1>8 DEF CookieKeepsSound
<1> QED
  BY <1>2, <1>3, <1>6, <1>7, <1>9 DEF SoundAsSet, SinkFollowsFeeder, HeardAsSet

LEMMA CtrlClickSounds == SoundAsSet /\ CtrlClick => SoundAsSet'
<1> SUFFICES ASSUME SoundAsSet, CtrlClick PROVE SoundAsSet'
  OBVIOUS
<1>1. control' = ClosedControl /\ hasAudio /\ ToggleMute
  BY DEF CtrlClick
<1>2. control' \in Controls /\ ControlsRemember' /\ ControlsShowSound'
  BY <1>1 DEF ClosedControl, Controls, ControlsRemember, ControlsShowSound, ControlIsThere
<1> QED
  BY <1>1, <1>2, ToggleMuteSounds

(* Unmuting by the controls brings back the volume they remember. *)
LEMMA ControlToggleMuteSounds == SoundAsSet /\ ControlToggleMute => SoundAsSet'
<1> SUFFICES ASSUME SoundAsSet, ControlToggleMute PROVE SoundAsSet'
  OBVIOUS
<1>1. ControlIsThere /\ hasAudio /\ ToggleMute
  BY DEF ControlToggleMute, ControlIsThere
<1>2. /\ feeder'.mute = ~feeder.mute /\ feeder'.level = feeder.level /\ hasAudio'
      /\ control \in Controls /\ feeder.mute \in BOOLEAN
      /\ ~control.kept => control.mute = feeder.mute
  BY <1>1, GettersTell DEF ToggleMute, SoundAsSet, TypeOK, Settings, ControlsShowSound
<1>3. CASE control.mute
  <2>1. control' = [control EXCEPT !.mute = FALSE, !.level = control.lastLevel]
    BY <1>3 DEF ControlToggleMute
  <2>2. ~control.kept => control.lastLevel = feeder.level
    BY <1>1, <1>3 DEF SoundAsSet, ControlsRemember
  <2>3. control' \in Controls /\ ControlsRemember' /\ ControlsShowSound'
    BY <1>2, <1>3, <2>1, <2>2 DEF Controls, ControlsRemember, ControlsShowSound
  <2> QED
    BY <1>1, <2>3, ToggleMuteSounds
<1>4. CASE ~control.mute
  <2>1. control' = [control EXCEPT !.mute = TRUE, !.level = 0, !.lastLevel = control.level]
    BY <1>4 DEF ControlToggleMute
  <2>2. ~control.kept => control.level = feeder.level
    BY <1>1, <1>4 DEF SoundAsSet, ControlsShowSound
  <2>3. control' \in Controls /\ ControlsRemember' /\ ControlsShowSound'
    BY <1>2, <1>4, <2>1, <2>2 DEF Controls, ControlsRemember, ControlsShowSound
  <2> QED
    BY <1>1, <2>3, ToggleMuteSounds
<1> QED
  BY <1>2, <1>3, <1>4 DEF Controls

LEMMA ControlSetVolumeSounds == SoundAsSet /\ ControlSetVolume => SoundAsSet'
<1> SUFFICES ASSUME SoundAsSet, ControlSetVolume PROVE SoundAsSet'
  OBVIOUS
<1> DEFINE new(l) == [level |-> l, mute |-> IsMuted, latency |-> GetAudioLatencyControl]
<1>1. /\ ControlIsThere /\ ~control.mute /\ hasAudio
      /\ UNCHANGED <<cam, hasAudio, node, leftOpen>>
  BY DEF ControlSetVolume, ControlIsThere
<1>2. PICK l \in Levels :
        /\ control' = [control EXCEPT !.level = l]
        /\ feeder' = [feeder EXCEPT !.level = l]
        /\ sink' = SetGain(sink, l)
        /\ cookie' = [cookie EXCEPT ![cam] = <<new(l)>>]
  BY DEF ControlSetVolume, SetCookie
<1>3. /\ feeder \in Settings /\ control \in Controls /\ sink \in Sinks
      /\ feeder.mute \in BOOLEAN /\ IsMuted = feeder.mute
      /\ sink.muted = feeder.mute /\ (~control.kept => control.mute = feeder.mute)
  BY <1>1, GettersTell DEF SoundAsSet, TypeOK, Settings, ControlsShowSound, SinkFollowsFeeder
<1>4. /\ feeder' \in Settings /\ feeder'.level = l /\ feeder'.mute = feeder.mute
  BY <1>2, <1>3 DEF Settings
<1>5. /\ control' \in Controls /\ control'.level = l /\ control'.mute = control.mute
      /\ control'.kept = control.kept
  BY <1>1, <1>2, <1>3 DEF Controls
<1> l \in Nat
  BY VolumesAreNumbers
<1>6. /\ sink' \in Sinks /\ sink'.gain = l /\ sink'.muted = feeder.mute
      /\ sink'.gainNode = IF feeder.mute \/ sink'.gainFactor = 0 THEN 0 ELSE l
  BY <1>2, <1>3, GainIsSet
<1>7. new(l) \in Settings
  BY <1>3 DEF Settings, GetAudioLatencyControl, Limits
<1>8. TypeOK'
  BY <1>1, <1>2, <1>4, <1>5, <1>6, <1>7 DEF SoundAsSet, TypeOK
<1>9. cookie'[cam'] = <<new(l)>>
  BY <1>1, <1>2 DEF SoundAsSet, TypeOK
<1>10. CookieKeepsSound'
  BY <1>3, <1>4, <1>9 DEF CookieKeepsSound
<1> QED
  BY <1>1, <1>3, <1>4, <1>5, <1>6, <1>8, <1>10 DEF SoundAsSet, SinkFollowsFeeder,
    ControlsRemember, HeardAsSet, ControlsShowSound

LEMMA SetLatencyLimitingSounds == SoundAsSet /\ SetLatencyLimiting => SoundAsSet'
<1> SUFFICES ASSUME SoundAsSet, SetLatencyLimiting PROVE SoundAsSet'
  OBVIOUS
<1> DEFINE new(on) == [level |-> feeder.level, mute |-> IsMuted, latency |-> on]
<1>1. hasAudio /\ UNCHANGED <<cam, hasAudio, sink, leftOpen, control>>
  BY DEF SetLatencyLimiting, ControlIsThere
<1>2. PICK on \in BOOLEAN :
        /\ feeder' = [feeder EXCEPT !.latency = on]
        /\ node' = SetNode(node, on)
        /\ cookie' = [cookie EXCEPT ![cam] = <<new(on)>>]
  BY DEF SetLatencyLimiting, SetCookie
<1>3. feeder \in Settings /\ feeder.mute \in BOOLEAN /\ IsMuted = feeder.mute
  BY <1>1, GettersTell DEF SoundAsSet, TypeOK, Settings
<1>4. feeder' \in Settings /\ feeder'.level = feeder.level /\ feeder'.mute = feeder.mute
  BY <1>2, <1>3 DEF Settings
<1>5. node' \in Nodes
  BY <1>2 DEF SoundAsSet, TypeOK, SetNode, Param, Nodes
<1>6. new(on) \in Settings
  BY <1>3 DEF Settings
<1>7. TypeOK'
  BY <1>1, <1>2, <1>4, <1>5, <1>6 DEF SoundAsSet, TypeOK
<1>8. cookie'[cam'] = <<new(on)>>
  BY <1>1, <1>2 DEF SoundAsSet, TypeOK
<1>9. CookieKeepsSound'
  BY <1>3, <1>4, <1>8 DEF CookieKeepsSound
<1> QED
  BY <1>1, <1>4, <1>7, <1>9 DEF SoundAsSet, SinkFollowsFeeder,
    ControlsRemember, HeardAsSet, ControlsShowSound, ControlIsThere

(* What the worklet's node and the first packet do. *)
LEMMA StreamSounds ==
  SoundAsSet /\ (NodeReady \/ LoadedMetadata \/ FirstWrite) => SoundAsSet'
<1> SUFFICES ASSUME SoundAsSet, NodeReady \/ LoadedMetadata \/ FirstWrite PROVE SoundAsSet'
  OBVIOUS
<1>1. CASE NodeReady \/ LoadedMetadata
  <2>1. node' \in Nodes /\ UNCHANGED <<cam, hasAudio, feeder, sink, leftOpen, cookie, control>>
    BY <1>1 DEF NodeReady, LoadedMetadata, SoundAsSet, TypeOK, SetNode, Param, Nodes
  <2> QED
    BY <2>1 DEF SoundAsSet, TypeOK, SinkFollowsFeeder, ControlsRemember, HeardAsSet,
      CookieKeepsSound, ControlsShowSound, ControlIsThere
<1>2. CASE FirstWrite
  <2> DEFINE heard == [sink EXCEPT !.gainFactor = 1]
  <2>1. /\ UNCHANGED <<cam, hasAudio, feeder, node, leftOpen, cookie, control>>
        /\ sink' = SetGain(heard, heard.gain)
    BY <1>2 DEF FirstWrite, SetGainFactor
  <2>2. /\ heard \in Sinks /\ heard.gain = sink.gain /\ heard.muted = sink.muted
        /\ heard.gain \in Nat /\ heard.gainFactor = 1
    BY DEF SoundAsSet, TypeOK, Sinks
  <2>3. /\ sink' \in Sinks /\ sink'.gain = sink.gain /\ sink'.muted = sink.muted
        /\ sink'.gainFactor = 1 /\ sink'.gainNode = IF sink.muted THEN 0 ELSE sink.gain
    <3> HIDE DEF heard
    <3>1. /\ sink' \in Sinks /\ sink'.gain = heard.gain /\ sink'.muted = heard.muted
          /\ sink'.gainFactor = heard.gainFactor
          /\ sink'.gainNode = IF heard.muted \/ heard.gainFactor = 0 THEN 0 ELSE heard.gain
      BY <2>1, <2>2, GainIsSet
    <3>2. heard.muted \in BOOLEAN /\ heard.gainFactor # 0
      BY <2>2 DEF Sinks
    <3> QED
      BY <2>2, <3>1, <3>2
  <2> QED
    BY <2>1, <2>3 DEF SoundAsSet, TypeOK, SinkFollowsFeeder, ControlsRemember, HeardAsSet,
      CookieKeepsSound, ControlsShowSound, ControlIsThere
<1> QED
  BY <1>1, <1>2

LEMMA ControlsOpenAndClose == SoundAsSet /\ (Open \/ ClickElsewhere) => SoundAsSet'
<1> SUFFICES ASSUME SoundAsSet, Open \/ ClickElsewhere PROVE SoundAsSet'
  OBVIOUS
<1>1. UNCHANGED <<cam, hasAudio, feeder, sink, node, leftOpen, cookie>>
  BY DEF Open, ClickElsewhere
<1>2. control' \in Controls /\ ControlsRemember' /\ ControlsShowSound'
  <2>1. CASE Open
    <3>1. /\ hasAudio /\ IsMuted = feeder.mute /\ Gain = feeder.level
          /\ feeder.mute \in BOOLEAN /\ feeder.level \in Levels \cup {0}
      BY <2>1, GettersTell DEF Open, SoundAsSet, TypeOK, Settings
    <3> QED
      BY <1>1, <2>1, <3>1 DEF Open, OpenControl, Controls, ControlsRemember, ControlsShowSound
  <2>2. CASE ClickElsewhere
    BY <2>2 DEF ClickElsewhere, ClosedControl, Controls, ControlsRemember, ControlsShowSound,
      ControlIsThere
  <2> QED
    BY <2>1, <2>2
<1> QED
  BY <1>1, <1>2 DEF SoundAsSet, TypeOK, SinkFollowsFeeder, HeardAsSet, CookieKeepsSound

(* Every step keeps the sound as it was set. *)
LEMMA SoundStep == SoundAsSet /\ [Next]_asVars => SoundAsSet'
<1> SUFFICES ASSUME SoundAsSet, [Next]_asVars PROVE SoundAsSet'
  OBVIOUS
<1>1. CASE UNCHANGED asVars
  BY <1>1 DEF asVars, SoundAsSet, TypeOK, SinkFollowsFeeder, ControlsRemember, HeardAsSet,
    CookieKeepsSound, ControlsShowSound, ControlIsThere
<1>2. CASE Next
  BY <1>2, EnterPageSounds, SwitchStreamSounds, RestartSounds, StreamSounds, CtrlClickSounds, ControlsOpenAndClose,
    ControlToggleMuteSounds, ControlSetVolumeSounds, SetLatencyLimitingSounds DEF Next
<1> QED
  BY <1>1, <1>2

(***************************************************************************)
(* A live page is heard at the volume set for its camera, or not at all    *)
(* when it is muted, and the camera's cookie says the same, whatever the   *)
(* order of restarts, switches, the first packet and what the user sets;   *)
(* so do its controls, but for those kept open through a switch            *)
(* (video.component.ts, MediaFeeder.ts, audio-stream.ts).                  *)
(***************************************************************************)
THEOREM SoundIsAsSet == Spec => []SoundAsSet
<1>1. Init => SoundAsSet
  BY InitSounds
<1>2. SoundAsSet /\ [Next]_asVars => SoundAsSet'
  BY SoundStep
<1> QED
  BY <1>1, <1>2, PTL DEF Spec

-----------------------------------------------------------------------------
(* One part moves at a time: each is seen to do its own steps, or none. *)

LEMMA PartsMoveAlone ==
  ASSUME [PartNext]_partVars
  PROVE  /\ [Next]_asVars
         /\ [LV!Next]_lvVars
         /\ [AF!Next]_afVars
         /\ [SE!Next]_seVars
         /\ [VF!Next]_vfVars
         /\ [AQ!Next]_aqVars
BY DEF PartNext, partVars

-----------------------------------------------------------------------------
(* LiveView: the stall timer. *)

WatchedView == LV!TypeOK /\ LV!FeedIsWatched

LEMMA ViewInit == PartInit => WatchedView
BY LiveViewAssumption
DEF PartInit, WatchedView, LV!Init, LV!TypeOK, LV!FeedIsWatched, LV!Workers, LV!Runs

LEMMA CountedInRange ==
  ASSUME NEW n \in 0 .. StalledMessages + 1
  PROVE  LV!Counted(n) \in 0 .. StalledMessages + 1
BY LiveViewAssumption DEF LV!Counted

LEMMA TerminatedDoesNotRun ==
  ASSUME NEW w \in LV!Workers
  PROVE  LV!Terminate(w) \in LV!Workers /\ ~LV!Runs(LV!Terminate(w))
BY DEF LV!Workers, LV!Terminate, LV!Runs

(* A start, and so a restart, leaves the timer armed. *)
LEMMA RestartWatches ==
  ASSUME WatchedView, NEW v \in Views, NEW n \in 0 .. StalledMessages + 1,
         NEW stalled \in BOOLEAN, LV!Restart(v, n, stalled),
         UNCHANGED <<view, audio, up>>, setups' \in [Views -> 0 .. MaxSetups],
         warned' \in [Views -> BOOLEAN]
  PROVE  WatchedView'
<1>1. LV!Counted(n) \in 0 .. StalledMessages + 1 /\ LV!StillStalled(n, stalled) \in BOOLEAN
  BY CountedInRange DEF LV!StillStalled
<1>2. /\ audioWorker[v] \in LV!Workers /\ LV!Terminate(audioWorker[v]) \in LV!Workers
      /\ "feeding" \in LV!Workers
  BY TerminatedDoesNotRun DEF WatchedView, LV!TypeOK, LV!Workers
<1>3. LV!TypeOK'
  BY <1>1, <1>2 DEF WatchedView, LV!TypeOK, LV!Restart
<1>4. LV!FeedIsWatched'
  BY DEF WatchedView, LV!TypeOK, LV!FeedIsWatched, LV!Restart
<1>. QED  BY <1>3, <1>4 DEF WatchedView

(* A stop leaves nothing to watch. *)
LEMMA StopWatches ==
  ASSUME WatchedView, NEW v \in Views, LV!Stop(v), UNCHANGED <<setups, audio, up>>,
         view' \in [Views -> {"none", "shown", "gone"}], warned' \in [Views -> BOOLEAN]
  PROVE  WatchedView'
<1>1. /\ LV!Terminate(videoWorker[v]) \in LV!Workers /\ ~LV!Runs(LV!Terminate(videoWorker[v]))
      /\ LV!Terminate(audioWorker[v]) \in LV!Workers /\ ~LV!Runs(LV!Terminate(audioWorker[v]))
  BY TerminatedDoesNotRun DEF WatchedView, LV!TypeOK
<1>2. LV!TypeOK'
  BY <1>1 DEF WatchedView, LV!TypeOK, LV!Stop
<1>3. LV!FeedIsWatched'
  BY <1>1 DEF WatchedView, LV!TypeOK, LV!FeedIsWatched, LV!Stop
<1>. QED  BY <1>2, <1>3 DEF WatchedView

LEMMA ViewStep ==
  ASSUME WatchedView, [LV!Next]_lvVars
  PROVE  WatchedView'
<1>. USE LiveViewAssumption
<1>1. CASE UNCHANGED lvVars
  BY <1>1 DEF lvVars, WatchedView, LV!TypeOK, LV!FeedIsWatched, LV!Runs
<1>2. CASE LV!Enter
  <2>1. MaxSetups \in Nat /\ 1 \in 0 .. MaxSetups
    OBVIOUS
  <2>2. PICK v \in Views, a \in BOOLEAN :
          /\ view' = [view EXCEPT ![v] = "shown"]
          /\ setups' = [setups EXCEPT ![v] = 1]
          /\ audio' = [audio EXCEPT ![v] = a]
    BY <1>2 DEF LV!Enter
  <2>3. UNCHANGED <<timerHandle, videoWorker, audioWorker, messageCount, isStalled,
                    warned, up>>
    BY <1>2 DEF LV!Enter
  <2>4. LV!TypeOK'
    BY <2>1, <2>2, <2>3 DEF WatchedView, LV!TypeOK
  <2>. QED  BY <2>3, <2>4 DEF WatchedView, LV!FeedIsWatched, LV!Runs
<1>10. CASE LV!ServerChanges
  BY <1>10 DEF LV!ServerChanges, WatchedView, LV!TypeOK, LV!FeedIsWatched, LV!Runs
<1>3. ASSUME NEW v \in Views, LV!SwitchStream(v) PROVE WatchedView'
  BY <1>3 DEF LV!SwitchStream, WatchedView, LV!TypeOK, LV!FeedIsWatched, LV!Runs
<1>4. ASSUME NEW v \in Views, LV!SetupVideo(v) PROVE WatchedView'
  <2>1. setups' \in [Views -> 0 .. MaxSetups] /\ warned' \in [Views -> BOOLEAN]
    BY <1>4 DEF LV!SetupVideo, WatchedView, LV!TypeOK
  <2>2. messageCount[v] \in 0 .. StalledMessages + 1 /\ isStalled[v] \in BOOLEAN
    BY DEF WatchedView, LV!TypeOK
  <2>. QED  BY <1>4, <2>1, <2>2, RestartWatches DEF LV!SetupVideo
<1>5. ASSUME NEW v \in Views, LV!Stalls(v) PROVE WatchedView'
  <2>1. setups' \in [Views -> 0 .. MaxSetups] /\ warned' \in [Views -> BOOLEAN]
    BY <1>5 DEF LV!Stalls, WatchedView, LV!TypeOK
  <2>2. 0 \in 0 .. StalledMessages + 1
    OBVIOUS
  <2>. QED  BY <1>5, <2>1, <2>2, RestartWatches DEF LV!Stalls
<1>6. ASSUME NEW v \in Views, LV!Leave(v) \/ LV!VideoWarning(v) PROVE WatchedView'
  <2>1. view' \in [Views -> {"none", "shown", "gone"}] /\ warned' \in [Views -> BOOLEAN]
    BY <1>6 DEF LV!Leave, LV!VideoWarning, WatchedView, LV!TypeOK
  <2>. QED  BY <1>6, <2>1, StopWatches DEF LV!Leave, LV!VideoWarning
<1>7. ASSUME NEW v \in Views, LV!Forget(v) PROVE WatchedView'
  <2>1. LV!TypeOK'
    BY <1>7 DEF LV!Forget, WatchedView, LV!TypeOK, LV!Workers
  <2>2. LV!FeedIsWatched'
    BY <1>7 DEF LV!Forget, WatchedView, LV!TypeOK, LV!FeedIsWatched, LV!Runs
  <2>. QED  BY <2>1, <2>2 DEF WatchedView
<1>8. ASSUME NEW v \in Views, LV!VideoMessage(v) PROVE WatchedView'
  <2>1. /\ LV!Counted(messageCount[v]) \in 0 .. StalledMessages + 1
        /\ LV!StillStalled(messageCount[v], isStalled[v]) \in BOOLEAN
    BY CountedInRange DEF WatchedView, LV!TypeOK, LV!StillStalled
  <2>2. LV!TypeOK'
    BY <1>8, <2>1 DEF LV!VideoMessage, WatchedView, LV!TypeOK
  <2>3. LV!FeedIsWatched'
    BY <1>8 DEF LV!VideoMessage, WatchedView, LV!TypeOK, LV!FeedIsWatched, LV!Runs
  <2>. QED  BY <2>2, <2>3 DEF WatchedView
<1>9. ASSUME NEW v \in Views, LV!WorkerDies(v) PROVE WatchedView'
  BY <1>9 DEF LV!WorkerDies, WatchedView, LV!TypeOK, LV!FeedIsWatched, LV!Runs, LV!Workers
<1>. QED  BY <1>1, <1>2, <1>3, <1>4, <1>5, <1>6, <1>7, <1>8, <1>9, <1>10
      DEF LV!Next

-----------------------------------------------------------------------------
(* AudioFeeder: the timeout. *)

LEMMA FeederInit == PartInit => AF!TimeoutIsArmed
BY DEF PartInit, AF!Init, AF!TimeoutIsArmed, AF!FirstTimeout

LEMMA AudioStep ==
  ASSUME AF!TimeoutIsArmed, [AF!Next]_afVars
  PROVE  AF!TimeoutIsArmed'
<1>. USE DEF AF!TimeoutIsArmed, AF!FirstTimeout, AF!Timeout
<1>1. CASE UNCHANGED afVars
  BY <1>1 DEF afVars
<1>2. CASE AF!SetUpWSConnection \/ AF!NotSupported \/ AF!DecoderError \/ AF!OnError \/ AF!OnClose
  BY <1>2 DEF AF!SetUpWSConnection, AF!NotSupported, AF!DecoderError, AF!OnError, AF!OnClose
<1>3. CASE AF!Message
  BY <1>3 DEF AF!Message
<1>4. CASE AF!Second
  BY <1>4 DEF AF!Second, AF!CloseWs
<1>5. CASE AF!Close
  BY <1>5 DEF AF!Close, AF!CloseWs
<1>. QED  BY <1>1, <1>2, <1>3, <1>4, <1>5 DEF AF!Next

LEMMA SilenceIsDropped == AF!TimeoutIsArmed => AF!SilentAudioIsDropped
BY DEF AF!TimeoutIsArmed, AF!SilentAudioIsDropped, AF!FirstTimeout

-----------------------------------------------------------------------------
(* Session: the count down. *)

WarnedSession == SE!TypeOK /\ SE!CountedWhenIdle /\ SE!Warned /\ SE!LivePageStays

LEMMA SessionInit == PartInit => WarnedSession
<1>1. IdleSecs \in Nat /\ 0 < IdleSecs /\ 0 \in 0 .. IdleSecs /\ 0 \in 0 .. CountDown - 1
  BY LiveViewAssumption
<1>. SUFFICES ASSUME SE!Init PROVE WarnedSession
  BY DEF PartInit
<1>2. SE!TypeOK
  BY <1>1 DEF SE!Init, SE!TypeOK, SE!Pages
<1>3. SE!CountedWhenIdle
  BY <1>1 DEF SE!Init, SE!CountedWhenIdle, SE!Live
<1>4. SE!Warned /\ SE!LivePageStays
  BY DEF SE!Init, SE!Warned, SE!LivePageStays
<1>. QED  BY <1>2, <1>3, <1>4 DEF WarnedSession

LEMMA SessionStep ==
  ASSUME WarnedSession, [SE!Next]_seVars
  PROVE  WarnedSession'
<1>. USE LiveViewAssumption
     DEF WarnedSession, SE!TypeOK, SE!CountedWhenIdle, SE!Warned, SE!LivePageStays,
         SE!Watching, SE!Counting
<1>1. CASE UNCHANGED seVars
  BY <1>1 DEF seVars
<1>2. ASSUME NEW t \in Tabs, SE!Activity(t) PROVE WarnedSession'
  BY <1>2 DEF SE!Activity
<1>3. ASSUME NEW t \in Tabs, SE!IdleSecond(t) PROVE WarnedSession'
  <2>1. IdleSecs \in Nat /\ idle[t] \in 0 .. IdleSecs /\ idle[t] < IdleSecs /\ seCount[t] = 0
    BY <1>3 DEF SE!IdleSecond
  <2>2. idle[t] + 1 \in 0 .. IdleSecs
    BY <2>1
  <2>3. /\ idle' = [idle EXCEPT ![t] = @ + 1]
        /\ isInactivityTimer' = [isInactivityTimer EXCEPT ![t] = (idle[t] + 1 = IdleSecs)]
        /\ ~loggedOff[t] /\ ~isInactivityTimer[t]
        /\ UNCHANGED <<page, idleTimeoutActive, seCount, dialog, dismissed, isGuest, away,
                       stored, loggedOff>>
    BY <1>3 DEF SE!IdleSecond
  <2>4. SE!TypeOK'
    BY <2>2, <2>3 DEF SE!TypeOK
  <2>5. ASSUME NEW u \in Tabs
        PROVE  /\ ~isInactivityTimer'[u] => seCount'[u] = 0
               /\ ~loggedOff'[u] /\ ~isInactivityTimer'[u] => idle'[u] < IdleSecs
               /\ idleTimeoutActive'[u] = (page'[u] \notin SE!Live)
    <3>1. CASE u # t
      BY <2>3, <3>1
    <3>2. CASE u = t
      <4>1. idle'[t] = idle[t] + 1 /\ (isInactivityTimer'[t] <=> idle[t] + 1 = IdleSecs)
        BY <2>3
      <4>. QED  BY <2>1, <2>3, <3>2, <4>1
    <3>. QED  BY <3>1, <3>2
  <2>6. SE!Warned' /\ SE!LivePageStays'
    BY <2>1, <2>3
  <2>. QED  BY <2>4, <2>5, <2>6 DEF SE!Live
<1>4. ASSUME NEW t \in Tabs, SE!TimedOut(t) PROVE WarnedSession'
  BY <1>4 DEF SE!TimedOut, SE!LogOff
<1>5. ASSUME NEW t \in Tabs, SE!Warn(t) PROVE WarnedSession'
  BY <1>5 DEF SE!Warn
<1>6. ASSUME NEW t \in Tabs, SE!DoNotWarn(t) PROVE WarnedSession'
  BY <1>6 DEF SE!DoNotWarn, SE!ResetTimer
<1>7. ASSUME NEW t \in Tabs, SE!OnContinue(t) PROVE WarnedSession'
  BY <1>7 DEF SE!OnContinue, SE!ResetTimer
<1>8. ASSUME NEW t \in Tabs, SE!OnClose(t) PROVE WarnedSession'
  BY <1>8 DEF SE!OnClose
<1>9. ASSUME NEW t \in Tabs, SE!Navigate(t) PROVE WarnedSession'
  BY <1>9 DEF SE!Navigate, SE!ActiveAfter, SE!Pages, SE!Live
<1>10. ASSUME NEW t \in Tabs, SE!ConfirmLogoff(t) PROVE WarnedSession'
  BY <1>10 DEF SE!ConfirmLogoff, SE!LogOff
<1>11. ASSUME NEW t \in Tabs, SE!OnStorage(t) PROVE WarnedSession'
  BY <1>11 DEF SE!OnStorage
<1>12. ASSUME NEW t \in Tabs, SE!GuestLogoff(t) PROVE WarnedSession'
  BY <1>12 DEF SE!GuestLogoff
<1>13. ASSUME NEW t \in Tabs, SE!GoAway(t) PROVE WarnedSession'
  BY <1>13 DEF SE!GoAway
<1>. QED  BY <1>1, <1>2, <1>3, <1>4, <1>5, <1>6, <1>7, <1>8, <1>9, <1>10, <1>11, <1>12,
             <1>13 DEF SE!Next

-----------------------------------------------------------------------------
(***************************************************************************)
(* What runs is watched: the feeds of a page by its stall timer, a silent  *)
(* audio feed by its timeout, the count down of a login by the user who is *)
(* warned of it (MediaFeeder.ts, audio-feeder.worker.ts, nav.component.ts).*)
(***************************************************************************)
THEOREM WhatRunsIsWatched == PartSpec => []TimersWatch
<1>1. PartInit => WatchedView /\ AF!TimeoutIsArmed /\ WarnedSession
  BY ViewInit, FeederInit, SessionInit
<1>2. /\ WatchedView /\ AF!TimeoutIsArmed /\ WarnedSession
      /\ [PartNext]_partVars
      => (WatchedView /\ AF!TimeoutIsArmed /\ WarnedSession)'
  BY PartsMoveAlone, ViewStep, AudioStep, SessionStep
<1>3. WatchedView /\ AF!TimeoutIsArmed /\ WarnedSession => TimersWatch
  BY SilenceIsDropped DEF WatchedView, WarnedSession, TimersWatch
<1>. QED  BY <1>1, <1>2, <1>3, PTL DEF PartSpec

(* The sound of a live page is as it was set, whatever the other parts do. *)
THEOREM PageSoundsAsSet == PartSpec => []SoundAsSet
<1>1. PartInit => SoundAsSet
  BY InitSounds DEF PartInit
<1>2. SoundAsSet /\ [PartNext]_partVars => SoundAsSet'
  BY PartsMoveAlone, SoundStep
<1>. QED  BY <1>1, <1>2, PTL DEF PartSpec

-----------------------------------------------------------------------------
(* VideoFeeder: whole frames. *)

Calls == [data : VF!Data, rest : VF!Data]
Decoders == [state : {"unconfigured", "configured", "closed"}, keyRequired : BOOLEAN]

(* What a step that takes or hands on messages must keep. *)
FedWhole ==
  /\ largeBuffers \in VF!Data /\ pending \in Seq(Calls) /\ Len(pending) <= MaxPending
  /\ bufferInUse \in BOOLEAN /\ decoder \in Decoders
  /\ VF!PutTogether /\ VF!StartDropped /\ VF!CallsWait /\ VF!WholeFrames

LEMMA MessageFacts ==
  ASSUME NEW m \in VF!Messages(BOOLEAN)
  PROVE  /\ m.part \in {1, 2} /\ m.full \in BOOLEAN /\ m.spoilt \in BOOLEAN
         /\ m.full => m.part = 1
         /\ <<m>> \in VF!Data
         /\ ~m.spoilt => VF!Unspoilt(<<m>>)
         /\ VF!Unspoilt(<<m>>) => ~m.spoilt
         /\ m.part = 1 /\ ~m.full => VF!Whole(<<m>>)
<1>1. /\ m.part \in {1, 2} /\ m.full \in BOOLEAN /\ m.spoilt \in BOOLEAN
      /\ m.full => m.part = 1
  BY DEF VF!Messages
<1>2. <<m>> \in VF!Data
  BY DEF VF!Data
<1>. DEFINE c == <<m>>
<1>3. DOMAIN c = {1} /\ c[1] = m /\ Len(c) = 1
  OBVIOUS
<1>. HIDE DEF c
<1>4. /\ ~m.spoilt => VF!Unspoilt(c)
      /\ VF!Unspoilt(c) => ~m.spoilt
  BY <1>3 DEF VF!Unspoilt
<1>5. m.part = 1 /\ ~m.full => VF!Whole(c)
  BY <1>3 DEF VF!Whole
<1>. QED  BY <1>1, <1>2, <1>4, <1>5 DEF c

LEMMA AppendedFacts ==
  ASSUME NEW large \in VF!Data, NEW m \in VF!Messages(BOOLEAN)
  PROVE  /\ Append(large, m) \in VF!Data /\ Append(large, m) # << >>
         /\ VF!Unspoilt(Append(large, m)) => VF!Unspoilt(large) /\ ~m.spoilt
         /\ large = << >> => Append(large, m) = <<m>>
<1>1. Append(large, m) \in VF!Data /\ Append(large, m) # << >>
  <2>1. Append(large, m) \in VF!Data /\ Len(Append(large, m)) = Len(large) + 1 /\ Len(large) \in Nat
    BY DEF VF!Data
  <2>2. Len(<< >>) = 0
    OBVIOUS
  <2>. QED  BY <2>1, <2>2
<1>2. /\ Len(large) \in Nat /\ DOMAIN large = 1 .. Len(large)
      /\ DOMAIN Append(large, m) = 1 .. Len(large) + 1
      /\ \A i \in 1 .. Len(large) : Append(large, m)[i] = large[i]
      /\ Append(large, m)[Len(large) + 1] = m
  BY DEF VF!Data
<1>3. ASSUME VF!Unspoilt(Append(large, m))
      PROVE  VF!Unspoilt(large) /\ ~m.spoilt
  <2>1. \A i \in 1 .. Len(large) + 1 : ~Append(large, m)[i].spoilt
    BY <1>2, <1>3 DEF VF!Unspoilt
  <2>2. Len(large) + 1 \in 1 .. Len(large) + 1 /\ \A i \in 1 .. Len(large) : i \in 1 .. Len(large) + 1
    BY <1>2
  <2>. QED  BY <1>2, <2>1, <2>2 DEF VF!Unspoilt
<1>4. large = << >> => Append(large, m) = <<m>>
  OBVIOUS
<1>. QED  BY <1>1, <1>3, <1>4

LEMMA TwoAppended ==
  ASSUME NEW S, NEW a \in S, NEW b \in S
  PROVE  Append(<<a>>, b) = <<a, b>>
<1>. DEFINE s == Append(<<a>>, b)
            t == <<a, b>>
<1>1. s \in Seq(S) /\ Len(s) = 2 /\ s[1] = a /\ s[2] = b
  OBVIOUS
<1>2. t \in Seq(S) /\ Len(t) = 2 /\ t[1] = a /\ t[2] = b
  OBVIOUS
<1>. HIDE DEF s, t
<1>3. \A i \in 1 .. Len(s) : s[i] = t[i]
  BY <1>1, <1>2
<1>4. s = t
  BY <1>1, <1>2, <1>3, SeqEqual
<1>. QED  BY <1>4 DEF s, t

LEMMA NothingIsUnspoilt == VF!Unspoilt(<< >>)
BY DEF VF!Unspoilt

(* What is handed on when before has been. *)
LEMMA HandedFacts ==
  ASSUME NEW before, before = << >> \/ \E data : before = <<data>> /\ (VF!Unspoilt(data) => VF!Whole(data)),
         NEW d, NEW m \in VF!Messages(BOOLEAN), ~m.spoilt => m.part = 1 /\ ~m.full
  PROVE  LET h == before \o VF!Taken(d, <<m>>) IN
         \A i \in DOMAIN h : VF!Unspoilt(h[i]) => VF!Whole(h[i])
<1>1. VF!Unspoilt(<<m>>) => VF!Whole(<<m>>)
  BY MessageFacts
<1>2. VF!Taken(d, <<m>>) = << <<m>> >> \/ VF!Taken(d, <<m>>) = << >>
  BY DEF VF!Taken
<1>. DEFINE c == <<m>>
<1>3. VF!Unspoilt(c) => VF!Whole(c)
  BY <1>1
<1>4. VF!Taken(d, c) = <<c>> \/ VF!Taken(d, c) = << >>
  BY <1>2
<1>. HIDE DEF c
<1>5. ASSUME before = << >>
      PROVE  LET h == before \o VF!Taken(d, c) IN
             \A i \in DOMAIN h : VF!Unspoilt(h[i]) => VF!Whole(h[i])
  <2>1. CASE VF!Taken(d, c) = <<c>>
    <3>1. before \o VF!Taken(d, c) = <<c>>
      BY <1>5, <2>1
    <3>. QED  BY <1>3, <3>1
  <2>2. CASE VF!Taken(d, c) = << >>
    <3>1. before \o VF!Taken(d, c) = << >>
      BY <1>5, <2>2
    <3>. QED  BY <3>1
  <2>. QED  BY <1>4, <2>1, <2>2
<1>6. ASSUME NEW data, before = <<data>>, VF!Unspoilt(data) => VF!Whole(data)
      PROVE  LET h == before \o VF!Taken(d, c) IN
             \A i \in DOMAIN h : VF!Unspoilt(h[i]) => VF!Whole(h[i])
  BY <1>3, <1>4, <1>6
<1>. QED  BY <1>5, <1>6 DEF c

LEMMA Finished ==
  ASSUME NEW m \in VF!Messages(BOOLEAN), NEW n \in VF!Messages(BOOLEAN),
         NEW large \in VF!Data, large = << >> \/ ~VF!Unspoilt(large),
         NEW d \in Decoders,
         NEW before, before = << >> \/ \E data : before = <<data>> /\ (VF!Unspoilt(data) => VF!Whole(data)),
         NEW waiting \in Seq(Calls), Len(waiting) < MaxPending,
         \A i \in DOMAIN waiting : VF!CallIsOf(waiting[i], n),
         ~n.spoilt => n = m /\ waiting = << >> /\ firstKeyFrameReceived',
         buffer' = n,
         VF!Finish(m, n, FALSE, large, d, before, waiting)
  PROVE  FedWhole'
<1>. USE LiveViewAssumption
<1>0. /\ m.part \in {1, 2} /\ m.full \in BOOLEAN /\ n.spoilt \in BOOLEAN
      /\ m.full => m.part = 1
  BY MessageFacts
<1>b. \A i \in DOMAIN before : VF!Unspoilt(before[i]) => VF!Whole(before[i])
  <2>1. CASE before = << >>
    BY <2>1
  <2>2. ASSUME NEW data, before = <<data>>, VF!Unspoilt(data) => VF!Whole(data)
        PROVE  \A i \in DOMAIN before : VF!Unspoilt(before[i]) => VF!Whole(before[i])
    BY <2>2
  <2>. QED  BY <2>1, <2>2
<1>1. CASE m.full
  <2>1. /\ bufferInUse' = TRUE /\ largeBuffers' = Append(large, n)
        /\ decoder' = d /\ handed' = before /\ pending' = waiting
    BY <1>1 DEF VF!Finish, VF!IsFull
  <2>2. largeBuffers' \in VF!Data /\ largeBuffers' # << >>
    BY <2>1, AppendedFacts
  <2>3. VF!PutTogether'
    <3>. SUFFICES ASSUME VF!Unspoilt(largeBuffers')
                  PROVE  /\ firstKeyFrameReceived' /\ pending' = << >>
                         /\ largeBuffers' = <<n>> /\ n.part = 1 /\ n.full
      BY <2>1 DEF VF!PutTogether, VF!Unspoilt
    <3>1. VF!Unspoilt(large) /\ ~n.spoilt
      BY <2>1, AppendedFacts
    <3>2. large = << >> /\ largeBuffers' = <<n>>
      BY <2>1, <3>1, AppendedFacts
    <3>. QED  BY <1>0, <1>1, <2>1, <3>1, <3>2
  <2>4. VF!StartDropped'
    BY <2>2 DEF VF!StartDropped
  <2>5. VF!CallsWait'
    BY <2>1 DEF VF!CallsWait
  <2>6. VF!WholeFrames'
    BY <1>b, <2>1 DEF VF!WholeFrames, VF!Unspoilt, VF!Whole
  <2>. QED  BY <2>1, <2>2, <2>3, <2>4, <2>5, <2>6 DEF FedWhole, VF!Data
<1>2. CASE ~m.full
  <2>1. bufferInUse' = FALSE /\ largeBuffers' = large
    BY <1>2 DEF VF!Finish, VF!IsFull
  <2>2. VF!StartDropped'
    BY <2>1 DEF VF!StartDropped
  <2>3. VF!PutTogether'
    BY <2>1 DEF VF!PutTogether, VF!Unspoilt
  <2>4. CASE ~VF!IsStartFrame(m)
    <3>1. decoder' = d /\ handed' = before /\ pending' = waiting
      BY <1>2, <2>4 DEF VF!Finish, VF!IsFull
    <3>2. VF!CallsWait'
      BY <3>1 DEF VF!CallsWait
    <3>3. VF!WholeFrames'
      BY <1>b, <3>1 DEF VF!WholeFrames, VF!Unspoilt, VF!Whole
    <3>4. Len(pending') <= MaxPending
      BY <3>1
    <3>. QED  BY <2>1, <2>2, <2>3, <3>1, <3>2, <3>3, <3>4 DEF FedWhole
  <2>5. CASE VF!IsStartFrame(m)
    <3>1. VF!ProcessMessage(d, <<n>>, << >>, before, waiting)
      BY <1>2, <2>5 DEF VF!Finish, VF!IsFull
    <3>2. ~n.spoilt => n.part = 1 /\ ~n.full
      BY <1>2, <2>5 DEF VF!IsStartFrame
    <3>3. CASE d.state = "configured"
      <4>1. /\ decoder' = VF!AfterDecode(d, <<n>>) /\ pending' = waiting
            /\ handed' = before \o VF!Taken(d, <<n>>)
        BY <3>1, <3>3 DEF VF!ProcessMessage
      <4>2. decoder' \in Decoders
        BY <4>1 DEF VF!AfterDecode, Decoders
      <4>3. VF!CallsWait'
        BY <4>1 DEF VF!CallsWait
      <4>4. VF!WholeFrames'
        <5>1. \A i \in DOMAIN handed' : VF!Unspoilt(handed'[i]) => VF!Whole(handed'[i])
          BY <3>2, <4>1, HandedFacts
        <5>. QED  BY <5>1 DEF VF!WholeFrames, VF!Unspoilt, VF!Whole
      <4>5. Len(pending') <= MaxPending
        BY <4>1
      <4>. QED  BY <2>1, <2>2, <2>3, <4>1, <4>2, <4>3, <4>4, <4>5 DEF FedWhole
    <3>4. CASE d.state # "configured"
      <4>. DEFINE call == [data |-> <<n>>, rest |-> << >>]
      <4>1. /\ decoder' = d /\ handed' = before /\ pending' = Append(waiting, call)
        BY <3>1, <3>4 DEF VF!ProcessMessage
      <4>2. call \in Calls
        BY MessageFacts DEF Calls, VF!Data
      <4>3. VF!CallIsOf(call, n)
        <5>1. VF!Unspoilt(<<n>>) => VF!Whole(<<n>>)
          BY <3>2, MessageFacts
        <5>2. ~n.spoilt => ~n.full
          BY <3>2
        <5>. QED  BY <5>1, <5>2 DEF VF!CallIsOf
      <4>. HIDE DEF call
      <4>4. /\ pending' \in Seq(Calls) /\ Len(pending') = Len(waiting) + 1
            /\ \A i \in DOMAIN pending' : VF!CallIsOf(pending'[i], n)
        BY <4>1, <4>2, <4>3
      <4>5. VF!CallsWait'
        <5>1. ~n.spoilt => Len(pending') = 1 /\ decoder'.state # "configured" /\ firstKeyFrameReceived'
          BY <3>4, <4>1, <4>4
        <5>. QED  BY <4>4, <5>1 DEF VF!CallsWait, VF!CallIsOf, VF!Unspoilt, VF!Whole
      <4>6. VF!WholeFrames'
        BY <1>b, <4>1 DEF VF!WholeFrames, VF!Unspoilt, VF!Whole
      <4>7. Len(pending') <= MaxPending
        BY <4>4
      <4>. QED  BY <2>1, <2>2, <2>3, <4>1, <4>4, <4>5, <4>6, <4>7 DEF FedWhole, VF!Data
    <3>. QED  BY <3>3, <3>4
  <2>. QED  BY <2>4, <2>5
<1>. QED  BY <1>0, <1>1, <1>2

(* The invariant of a feeder, of what it must keep and the rest of its type. *)
LEMMA FeederParts ==
  /\ VF!IInv => FedWhole
  /\ FedWhole /\ VF!TypeOK => VF!IInv
  /\ FedWhole' /\ VF!TypeOK' => VF!IInv'
BY DEF VF!IInv, FedWhole, VF!TypeOK, VF!Data, Calls, Decoders

LEMMA RestOfType ==
  ASSUME VF!IInv, FedWhole', buffer' \in VF!Messages(BOOLEAN),
         ws' \in {"none", "never", "open", "closing", "closed"},
         {started', firstKeyFrameReceived', noRestart'} \subseteq BOOLEAN,
         configSupported' \in {"undefined", "yes", "no"}, errors' \in 0 .. MaxErrors
  PROVE  VF!IInv'
<1>1. VF!TypeOK'
  BY DEF FedWhole, VF!TypeOK, Decoders
<1>. QED  BY <1>1, FeederParts

(* What happens to the decoder or the websocket alone. *)
LEMMA NothingFed ==
  ASSUME VF!IInv, handed' = << >>, decoder' \in {decoder, VF!Closed(decoder)},
         UNCHANGED <<firstKeyFrameReceived, buffer, largeBuffers, bufferInUse, pending>>
  PROVE  FedWhole' /\ buffer' \in VF!Messages(BOOLEAN)
<1>1. FedWhole /\ buffer \in VF!Messages(BOOLEAN)
  BY FeederParts DEF VF!IInv, VF!TypeOK
<1>2. /\ decoder' \in Decoders
      /\ decoder'.state = "configured" => decoder.state = "configured" /\ decoder'.keyRequired = decoder.keyRequired
  BY <1>1 DEF FedWhole, Decoders, VF!Closed
<1>3. VF!NeedsKey => VF!NeedsKey'
  BY <1>2 DEF VF!NeedsKey
<1>4. VF!PutTogether' /\ VF!StartDropped'
  BY <1>1, <1>3 DEF FedWhole, VF!PutTogether, VF!StartDropped, VF!Unspoilt, VF!Whole
<1>5. VF!CallsWait'
  BY <1>1, <1>2 DEF FedWhole, VF!CallsWait
<1>6. VF!WholeFrames'
  BY DEF VF!WholeFrames
<1>. QED  BY <1>1, <1>2, <1>4, <1>5, <1>6 DEF FedWhole

(* The messages that waited for an error are spoilt, and those that come wait for a key. *)
LEMMA ErrorSpoils ==
  ASSUME VF!IInv, VF!DecoderError
  PROVE  FedWhole'
<1>. DEFINE S == VF!Messages(BOOLEAN)
<1>1. FedWhole /\ VF!TypeOK
  BY FeederParts DEF VF!IInv
<1>2. /\ decoder.state = "configured" /\ decoder' = VF!New /\ handed' = << >>
      /\ largeBuffers' = [i \in DOMAIN largeBuffers |-> [largeBuffers[i] EXCEPT !.spoilt = TRUE]]
      /\ ~firstKeyFrameReceived' /\ UNCHANGED <<buffer, bufferInUse, pending>>
  BY DEF VF!DecoderError
<1>3. /\ Len(largeBuffers) \in Nat /\ DOMAIN largeBuffers = 1 .. Len(largeBuffers)
      /\ \A i \in 1 .. Len(largeBuffers) : largeBuffers[i] \in S
  BY <1>1 DEF FedWhole, VF!Data
<1>4. \A m \in S : [m EXCEPT !.spoilt = TRUE] \in S /\ [m EXCEPT !.spoilt = TRUE].spoilt
  BY DEF VF!Messages
<1>. HIDE DEF S
<1>5. /\ largeBuffers' \in VF!Data /\ Len(largeBuffers') = Len(largeBuffers)
      /\ DOMAIN largeBuffers' = 1 .. Len(largeBuffers)
  <2>. DEFINE l == Len(largeBuffers)
  <2>. HIDE DEF l
  <2>1. largeBuffers' \in [1 .. l -> S] /\ l \in Nat
    BY <1>2, <1>3, <1>4 DEF l
  <2>2. largeBuffers' \in Seq(S) /\ Len(largeBuffers') = l /\ DOMAIN largeBuffers' = 1 .. l
    BY <2>1
  <2>. QED  BY <2>2 DEF l, VF!Data, S
<1>6. VF!PutTogether'
  <2>. SUFFICES ASSUME largeBuffers' # << >>
                PROVE  \E i \in DOMAIN largeBuffers' : largeBuffers'[i].spoilt
    BY DEF VF!PutTogether, VF!Unspoilt
  <2>1. 1 \in 1 .. Len(largeBuffers)
    BY <1>3, <1>5, EmptySeq DEF VF!Data
  <2>2. largeBuffers'[1].spoilt
    BY <1>2, <1>3, <1>4, <2>1
  <2>. QED  BY <1>5, <2>1, <2>2
<1>7. VF!StartDropped'
  BY <1>2 DEF VF!StartDropped
<1>8. VF!CallsWait'
  BY <1>1, <1>2 DEF FedWhole, VF!CallsWait
<1>9. VF!WholeFrames'
  BY <1>2 DEF VF!WholeFrames
<1>10. decoder' \in Decoders
  BY <1>2 DEF VF!New, Decoders
<1>. QED  BY <1>1, <1>2, <1>5, <1>6, <1>7, <1>8, <1>9, <1>10 DEF FedWhole

-----------------------------------------------------------------------------
(* The answer of isConfigSupported *)

(* What waits stays of the newest message when a spoilt one comes. *)
LEMMA CallIsOfSpoilt ==
  ASSUME NEW call, NEW n, NEW m, VF!CallIsOf(call, n), m.spoilt
  PROVE  VF!CallIsOf(call, m)
BY DEF VF!CallIsOf

LEMMA TailFacts ==
  ASSUME NEW calls \in Seq(Calls), calls # << >>
  PROVE  /\ Tail(calls) \in Seq(Calls) /\ Head(calls) \in Calls /\ Head(calls) = calls[1]
         /\ 1 \in DOMAIN calls /\ Len(Tail(calls)) = Len(calls) - 1 /\ Len(calls) \in Nat \ {0}
         /\ Len(calls) = 1 => Tail(calls) = << >>
         /\ \A i \in DOMAIN Tail(calls) : i + 1 \in DOMAIN calls /\ Tail(calls)[i] = calls[i + 1]
<1>1. Len(calls) \in Nat \ {0} /\ DOMAIN calls = 1 .. Len(calls)
  BY EmptySeq
<1>2. /\ Tail(calls) \in Seq(Calls) /\ Len(Tail(calls)) = Len(calls) - 1
      /\ \A i \in 1 .. Len(calls) - 1 : Tail(calls)[i] = calls[i + 1]
      /\ Head(calls) \in Calls /\ Head(calls) = calls[1]
  BY <1>1, HeadTailProperties
<1>3. DOMAIN Tail(calls) = 1 .. Len(calls) - 1
  BY <1>2
<1>4. Len(calls) = 1 => Tail(calls) = << >>
  <2>. DEFINE t == Tail(calls)
  <2>1. t \in Seq(Calls) /\ Len(t) = Len(calls) - 1
    BY <1>2
  <2>. HIDE DEF t
  <2>2. Len(calls) = 1 => t = << >>
    BY <2>1, EmptySeq
  <2>. QED  BY <2>2 DEF t
<1>. QED  BY <1>1, <1>2, <1>3, <1>4

LEMMA GoneOn ==
  ASSUME VF!IInv, pending # << >>, NEW d \in Decoders,
         NEW before, before = << >> \/ \E data : before = <<data>> /\ (VF!Unspoilt(data) => VF!Whole(data)),
         UNCHANGED <<buffer, firstKeyFrameReceived>>,
         VF!GoOn(Head(pending), d, before)
  PROVE  FedWhole'
<1>. DEFINE call == Head(pending)
            waiting == Tail(pending)
<1>1. FedWhole /\ VF!TypeOK
  BY FeederParts DEF VF!IInv
<1>2. /\ pending \in Seq(Calls) /\ waiting \in Seq(Calls) /\ call \in Calls
      /\ Len(pending) \in Nat \ {0} /\ Len(waiting) = Len(pending) - 1
      /\ Len(pending) <= MaxPending /\ MaxPending \in Nat
      /\ Len(pending) = 1 => waiting = << >>
      /\ \A i \in DOMAIN pending : VF!CallIsOf(pending[i], buffer)
      /\ ~buffer.spoilt => Len(pending) = 1 /\ firstKeyFrameReceived
  BY <1>1, TailFacts, LiveViewAssumption DEF FedWhole, VF!CallsWait
<1>3. VF!CallIsOf(call, buffer) /\ \A i \in DOMAIN waiting : VF!CallIsOf(waiting[i], buffer)
  BY <1>2, TailFacts
<1>4. largeBuffers \in VF!Data /\ (largeBuffers = << >> \/ ~VF!Unspoilt(largeBuffers))
  BY <1>1 DEF FedWhole, VF!PutTogether
<1>5. buffer \in VF!Messages(BOOLEAN)
  BY <1>1 DEF VF!TypeOK
<1>6. ~buffer.spoilt => waiting = << >> /\ firstKeyFrameReceived'
  BY <1>2
<1>7. Len(waiting) < MaxPending
  BY <1>2
<1>8. CASE call.rest # << >>
  <2>1. VF!Finish(Head(call.rest), buffer, FALSE, largeBuffers, d, before, waiting)
    BY <1>8 DEF VF!GoOn
  <2>2. Len(call.rest) = 1 /\ (buffer.spoilt \/ call.rest[1] = buffer)
    BY <1>3, <1>8 DEF VF!CallIsOf
  <2>3. Head(call.rest) = call.rest[1] /\ call.rest[1] \in VF!Messages(BOOLEAN)
    BY <1>2, <2>2 DEF Calls, VF!Data
  <2>. HIDE DEF call, waiting
  <2>. QED  BY <1>2, <1>3, <1>4, <1>5, <1>6, <1>7, <2>1, <2>2, <2>3, Finished
<1>9. CASE call.rest = << >>
  <2>1. decoder' = d /\ handed' = before /\ pending' = waiting /\ UNCHANGED <<largeBuffers, bufferInUse>>
    BY <1>9 DEF VF!GoOn
  <2>2. VF!PutTogether'
    BY <1>4, <2>1 DEF VF!PutTogether, VF!Unspoilt
  <2>3. VF!StartDropped'
    BY <1>3, <1>9 DEF VF!CallIsOf, VF!StartDropped
  <2>4. VF!CallsWait'
    <3>1. \A i \in DOMAIN pending' : VF!CallIsOf(pending'[i], buffer')
      BY <1>3, <2>1
    <3>2. ~buffer'.spoilt => pending' = << >>
      BY <1>6, <2>1
    <3>. QED  BY <3>1, <3>2 DEF VF!CallsWait, VF!CallIsOf, VF!Unspoilt, VF!Whole
  <2>5. VF!WholeFrames'
    <3>1. \A i \in DOMAIN before : VF!Unspoilt(before[i]) => VF!Whole(before[i])
      <4>1. CASE before = << >>
        BY <4>1
      <4>2. ASSUME NEW data, before = <<data>>, VF!Unspoilt(data) => VF!Whole(data)
            PROVE  \A i \in DOMAIN before : VF!Unspoilt(before[i]) => VF!Whole(before[i])
        BY <4>2
      <4>. QED  BY <4>1, <4>2
    <3>. QED  BY <2>1, <3>1 DEF VF!WholeFrames, VF!Unspoilt, VF!Whole
  <2>6. Len(pending') <= MaxPending
    BY <1>2, <2>1
  <2>. QED  BY <1>1, <1>2, <2>1, <2>2, <2>3, <2>4, <2>5, <2>6 DEF FedWhole
<1>. QED  BY <1>8, <1>9

LEMMA ConfigIsSupported ==
  ASSUME VF!IInv, VF!ConfigSupported
  PROVE  FedWhole'
<1>. DEFINE call == Head(pending)
<1>1. FedWhole /\ VF!TypeOK
  BY FeederParts DEF VF!IInv
<1>2. pending # << >> /\ pending \in Seq(Calls) /\ UNCHANGED <<buffer, firstKeyFrameReceived>>
  BY <1>1 DEF VF!ConfigSupported, FedWhole
<1>3. VF!CallIsOf(call, buffer)
  BY <1>1, <1>2, TailFacts DEF FedWhole, VF!CallsWait
<1>4. VF!Configured \in Decoders /\ VF!Configured.keyRequired /\ VF!Configured.state = "configured"
  BY DEF VF!Configured, Decoders
<1>5. CASE decoder.state # "closed" /\ VF!Decodes(VF!Configured, call.data)
  <2>. DEFINE d == VF!AfterDecode(VF!Configured, call.data)
  <2>1. VF!GoOn(call, d, <<call.data>>)
    BY <1>5 DEF VF!ConfigSupported
  <2>2. d \in Decoders
    BY <1>4 DEF VF!AfterDecode, Decoders
  <2>3. VF!Unspoilt(call.data) => VF!Whole(call.data)
    <3>1. VF!ChunkType(call.data) = "key"
      BY <1>4, <1>5 DEF VF!Decodes
    <3>2. Head(call.data).part = 1
      BY <3>1 DEF VF!ChunkType
    <3>3. Head(call.data) = call.data[1]
      BY <1>2, <1>3, TailFacts DEF VF!CallIsOf, Calls, VF!Data
    <3>. QED  BY <1>3, <3>2, <3>3 DEF VF!CallIsOf
  <2>. HIDE DEF d
  <2>. QED  BY <1>2, <2>1, <2>2, <2>3, GoneOn
<1>6. CASE ~(decoder.state # "closed" /\ VF!Decodes(VF!Configured, call.data))
  <2>1. /\ decoder' = (IF decoder.state = "closed" THEN decoder ELSE VF!Configured)
        /\ handed' = << >> /\ pending' = Tail(pending) /\ UNCHANGED <<largeBuffers, bufferInUse>>
    BY <1>6 DEF VF!ConfigSupported, VF!Rejected
  <2>2. decoder' \in Decoders /\ VF!NeedsKey'
    BY <1>1, <1>4, <2>1 DEF FedWhole, VF!NeedsKey
  <2>3. VF!PutTogether'
    BY <1>1, <1>2, <2>1 DEF FedWhole, VF!PutTogether, VF!Unspoilt
  <2>4. VF!StartDropped'
    BY <2>2 DEF VF!StartDropped
  <2>5. /\ pending' \in Seq(Calls) /\ Len(pending') <= MaxPending
        /\ \A i \in DOMAIN pending' : VF!CallIsOf(pending'[i], buffer)
        /\ ~buffer.spoilt => pending' = << >>
    BY <1>1, <1>2, <2>1, TailFacts, LiveViewAssumption DEF FedWhole, VF!CallsWait
  <2>6. VF!CallsWait'
    BY <1>2, <2>5 DEF VF!CallsWait, VF!CallIsOf, VF!Unspoilt, VF!Whole
  <2>7. VF!WholeFrames'
    BY <2>1 DEF VF!WholeFrames
  <2>. QED  BY <1>1, <2>1, <2>2, <2>3, <2>4, <2>5, <2>6, <2>7 DEF FedWhole
<1>. QED  BY <1>5, <1>6

LEMMA ConfigIsNotSupported ==
  ASSUME VF!IInv, VF!ConfigNotSupported
  PROVE  FedWhole'
<1>1. FedWhole
  BY FeederParts
<1>2. /\ pending # << >> /\ UNCHANGED <<buffer, firstKeyFrameReceived>>
      /\ VF!GoOn(Head(pending), decoder, << >>)
  BY DEF VF!ConfigNotSupported
<1>3. decoder \in Decoders
  BY <1>1 DEF FedWhole
<1>. QED  BY <1>2, <1>3, GoneOn

-----------------------------------------------------------------------------
(* A message *)

(* What the server may send, and what is known of it. *)
LEMMA ReceivedFacts ==
  ASSUME VF!IInv, NEW m0 \in VF!Follows(buffer)
  PROVE  LET m == [m0 EXCEPT !.spoilt = pending # << >> \/ (m0.part = 2 /\ buffer.spoilt)] IN
         /\ m \in VF!Messages(BOOLEAN)
         /\ m.spoilt <=> pending # << >> \/ (m.part = 2 /\ buffer.spoilt)
         /\ IF buffer.part = 1 /\ buffer.full THEN m.part = 2 /\ m.frame = buffer.frame
            ELSE m.part = 1
<1>1. buffer \in VF!Messages(BOOLEAN)
  BY DEF VF!IInv, VF!TypeOK
<1>. DEFINE b == (pending # << >> \/ (m0.part = 2 /\ buffer.spoilt))
<1>2. b \in BOOLEAN
  OBVIOUS
<1>3. m0 \in VF!Messages({FALSE})
  BY DEF VF!Follows, VF!Message
<1>4. IF buffer.part = 1 /\ buffer.full THEN m0.part = 2 /\ m0.frame = buffer.frame
      ELSE m0.part = 1
  BY DEF VF!Follows
<1>. DEFINE m == [m0 EXCEPT !.spoilt = b]
<1>5. /\ m \in VF!Messages(BOOLEAN) /\ m.spoilt = b /\ m.part = m0.part /\ m.frame = m0.frame
  <2>. HIDE DEF b
  <2>. QED  BY <1>2, <1>3 DEF VF!Messages
<1>6. m.spoilt <=> pending # << >> \/ (m.part = 2 /\ buffer.spoilt)
  BY <1>5
<1>. HIDE DEF b
<1>. QED  BY <1>4, <1>5, <1>6 DEF b

LEMMA Received ==
  ASSUME VF!IInv, Len(pending) < MaxPending,
         NEW m \in VF!Messages(BOOLEAN),
         m.spoilt <=> pending # << >> \/ (m.part = 2 /\ buffer.spoilt),
         IF buffer.part = 1 /\ buffer.full THEN m.part = 2 /\ m.frame = buffer.frame
         ELSE m.part = 1,
         VF!ProcessChunk(m)
  PROVE  FedWhole' /\ firstKeyFrameReceived' \in BOOLEAN /\ buffer' = m
<1>. USE LiveViewAssumption
<1>1. FedWhole /\ VF!TypeOK
  BY FeederParts DEF VF!IInv
<1>2. /\ buffer' = m
      /\ firstKeyFrameReceived' = (firstKeyFrameReceived \/ VF!IsKeyFrame(m))
  BY DEF VF!ProcessChunk
<1>3. firstKeyFrameReceived' \in BOOLEAN
  BY <1>1, <1>2 DEF VF!TypeOK
<1>4. /\ buffer \in VF!Messages(BOOLEAN) /\ buffer.part \in {1, 2} /\ buffer.spoilt \in BOOLEAN
      /\ buffer.full \in BOOLEAN /\ buffer.full => buffer.part = 1
      /\ m.part \in {1, 2} /\ m.full \in BOOLEAN /\ m.spoilt \in BOOLEAN /\ m.full => m.part = 1
  BY <1>1, MessageFacts DEF VF!TypeOK
<1>5. /\ largeBuffers \in VF!Data /\ decoder \in Decoders /\ bufferInUse \in BOOLEAN
      /\ pending \in Seq(Calls) /\ Len(pending) \in Nat
  BY <1>1 DEF FedWhole
(* The calls that wait, with the new message. *)
<1>6. /\ \A i \in DOMAIN pending : VF!CallIsOf(pending[i], m)
      /\ ~m.spoilt => pending = << >>
  <2>1. pending # << >> => m.spoilt
    OBVIOUS
  <2>2. \A i \in DOMAIN pending : VF!CallIsOf(pending[i], m)
    <3>1. CASE pending = << >>
      BY <3>1
    <3>2. CASE pending # << >>
      BY <1>1, <2>1, <3>2, CallIsOfSpoilt DEF FedWhole, VF!CallsWait
    <3>. QED  BY <3>1, <3>2
  <2>. QED  BY <2>1, <2>2
(* What is put together, when the message is of the start of a frame. *)
<1>7. ASSUME largeBuffers # << >>, VF!Unspoilt(largeBuffers), m.part = 1
      PROVE  VF!Whole(largeBuffers) \/ (largeBuffers[1].part = 2 /\ VF!NeedsKey)
  <2>1. ~(buffer.part = 1 /\ buffer.full)
    BY <1>7
  <2>2. CASE largeBuffers = <<buffer>> /\ buffer.part = 2 /\ VF!NeedsKey
    BY <2>2
  <2>. QED  BY <1>1, <1>7, <2>1, <2>2 DEF FedWhole, VF!PutTogether
<1>8. CASE ~firstKeyFrameReceived'
  <2>1. handed' = << >> /\ UNCHANGED <<decoder, largeBuffers, bufferInUse, pending>>
    BY <1>8 DEF VF!ProcessChunk
  <2>2. ~firstKeyFrameReceived
    BY <1>2, <1>8
  <2>3. VF!PutTogether'
    BY <1>1, <2>1, <2>2 DEF FedWhole, VF!PutTogether, VF!Unspoilt
  <2>4. VF!StartDropped'
    BY <1>8 DEF VF!StartDropped
  <2>5. VF!CallsWait'
    BY <1>2, <1>6, <2>1 DEF VF!CallsWait, VF!CallIsOf, VF!Unspoilt, VF!Whole
  <2>6. VF!WholeFrames'
    BY <2>1 DEF VF!WholeFrames
  <2>. QED  BY <1>1, <1>2, <1>3, <2>1, <2>3, <2>4, <2>5, <2>6 DEF FedWhole
<1>9. CASE firstKeyFrameReceived' /\ VF!IsStartFrame(m) /\ bufferInUse
  <2>0. VF!PutLargeFrames(m) /\ m.part = 1
    BY <1>9 DEF VF!ProcessChunk, VF!IsStartFrame
  <2>1. CASE largeBuffers = << >>
    <3>1. VF!Finish(m, m, FALSE, << >>, decoder, << >>, pending)
      BY <2>0, <2>1 DEF VF!PutLargeFrames
    <3>2. << >> \in VF!Data
      BY DEF VF!Data
    <3>. QED  BY <1>2, <1>3, <1>5, <1>6, <1>9, <3>1, <3>2, Finished
  <2>2. CASE largeBuffers # << >> /\ VF!Decodes(decoder, largeBuffers)
    <3>. DEFINE d == VF!AfterDecode(decoder, largeBuffers)
    <3>1. VF!Finish(m, m, FALSE, << >>, d, <<largeBuffers>>, pending)
      BY <2>0, <2>2 DEF VF!PutLargeFrames
    <3>2. << >> \in VF!Data /\ d \in Decoders
      <4>1. << >> \in VF!Data
        BY DEF VF!Data
      <4>2. [decoder EXCEPT !.keyRequired = FALSE] \in Decoders
        BY <1>5 DEF Decoders
      <4>. QED  BY <1>5, <4>1, <4>2 DEF VF!AfterDecode
    <3>3. VF!Unspoilt(largeBuffers) => VF!Whole(largeBuffers)
      <4>. SUFFICES ASSUME VF!Unspoilt(largeBuffers), largeBuffers[1].part = 2, VF!NeedsKey
                    PROVE  FALSE
        BY <1>7, <2>0, <2>2
      <4>1. VF!ChunkType(largeBuffers) = "key"
        BY <2>2 DEF VF!Decodes, VF!NeedsKey
      <4>2. Head(largeBuffers).part = 1
        BY <4>1 DEF VF!ChunkType
      <4>3. Head(largeBuffers) = largeBuffers[1]
        BY <1>5, <2>2 DEF VF!Data
      <4>. QED  BY <4>2, <4>3
    <3>. HIDE DEF d
    <3>. QED  BY <1>2, <1>3, <1>5, <1>6, <1>9, <3>1, <3>2, <3>3, Finished
  <2>3. CASE largeBuffers # << >> /\ ~VF!Decodes(decoder, largeBuffers)
    <3>1. /\ VF!ProcessMessage(decoder, largeBuffers, <<m>>, << >>, pending)
          /\ largeBuffers' = << >> /\ UNCHANGED bufferInUse
      BY <2>0, <2>3 DEF VF!PutLargeFrames
    <3>2. VF!PutTogether'
      BY <3>1 DEF VF!PutTogether
    <3>3. CASE decoder.state = "configured"
      <4>1. decoder' = decoder /\ handed' = << >> /\ pending' = pending
        BY <2>3, <3>1, <3>3 DEF VF!ProcessMessage, VF!AfterDecode, VF!Taken
      <4>2. VF!NeedsKey'
        <5>1. decoder.keyRequired
          BY <2>3, <3>3 DEF VF!Decodes
        <5>. QED  BY <4>1, <5>1 DEF VF!NeedsKey
      <4>3. VF!StartDropped'
        BY <4>2 DEF VF!StartDropped
      <4>4. VF!CallsWait'
        BY <1>2, <1>6, <4>1 DEF VF!CallsWait, VF!CallIsOf, VF!Unspoilt, VF!Whole
      <4>5. VF!WholeFrames'
        BY <4>1 DEF VF!WholeFrames
      <4>6. << >> \in VF!Data
        BY DEF VF!Data
      <4>. QED  BY <1>1, <1>2, <1>3, <3>1, <3>2, <4>1, <4>3, <4>4, <4>5, <4>6 DEF FedWhole
    <3>4. CASE decoder.state # "configured"
      <4>. DEFINE call == [data |-> largeBuffers, rest |-> <<m>>]
      <4>1. decoder' = decoder /\ handed' = << >> /\ pending' = Append(pending, call)
        BY <3>1, <3>4 DEF VF!ProcessMessage
      <4>2. call \in Calls
        BY <1>5, MessageFacts DEF Calls
      <4>3. VF!CallIsOf(call, m)
        <5>1. VF!Unspoilt(largeBuffers) => VF!Whole(largeBuffers) \/ largeBuffers[1].part = 2
          BY <1>7, <2>0, <2>3
        <5>2. <<m>> # << >> /\ Len(<<m>>) = 1 /\ <<m>>[1] = m
          OBVIOUS
        <5>. QED  BY <2>0, <2>3, <5>1, <5>2 DEF VF!CallIsOf
      <4>. HIDE DEF call
      <4>4. /\ pending' \in Seq(Calls) /\ Len(pending') = Len(pending) + 1
            /\ \A i \in DOMAIN pending' : VF!CallIsOf(pending'[i], m)
        BY <1>5, <1>6, <4>1, <4>2, <4>3
      <4>5. VF!CallsWait'
        <5>1. ~m.spoilt => Len(pending') = 1 /\ decoder'.state # "configured" /\ firstKeyFrameReceived'
          BY <1>6, <1>9, <3>4, <4>1, <4>4
        <5>. QED  BY <1>2, <4>4, <5>1 DEF VF!CallsWait, VF!CallIsOf, VF!Unspoilt, VF!Whole
      <4>6. VF!WholeFrames'
        BY <4>1 DEF VF!WholeFrames
      <4>7. Len(pending') <= MaxPending /\ pending' # << >>
        <5>1. Len(<< >>) = 0
          OBVIOUS
        <5>. QED  BY <1>5, <4>4, <5>1
      <4>8. VF!StartDropped'
        BY <4>7 DEF VF!StartDropped
      <4>9. << >> \in VF!Data
        BY DEF VF!Data
      <4>. QED  BY <1>1, <1>2, <1>3, <3>1, <3>2, <4>1, <4>4, <4>5, <4>6, <4>7, <4>8, <4>9 DEF FedWhole
    <3>. QED  BY <3>3, <3>4
  <2>. QED  BY <2>1, <2>2, <2>3
<1>10. CASE firstKeyFrameReceived' /\ ~(VF!IsStartFrame(m) /\ bufferInUse)
  <2>0. VF!Finish(m, m, bufferInUse, largeBuffers, decoder, << >>, pending)
    BY <1>10 DEF VF!ProcessChunk
  <2>1. CASE ~bufferInUse
    <3>1. bufferInUse = FALSE
      BY <1>5, <2>1
    <3>2. largeBuffers = << >> \/ ~VF!Unspoilt(largeBuffers)
      BY <1>1, <2>1 DEF FedWhole, VF!PutTogether
    <3>3. VF!Finish(m, m, FALSE, largeBuffers, decoder, << >>, pending)
      BY <2>0, <3>1
    <3>. QED  BY <1>2, <1>3, <1>5, <1>6, <1>10, <3>2, <3>3, Finished
  <2>2. CASE bufferInUse
    <3>1. m.part = 2
      BY <1>4, <1>10, <2>2 DEF VF!IsStartFrame
    <3>2. /\ bufferInUse' = TRUE /\ largeBuffers' = Append(largeBuffers, m)
          /\ decoder' = decoder /\ handed' = << >> /\ pending' = pending
      BY <2>0, <2>2 DEF VF!Finish
    <3>3. buffer.part = 1 /\ buffer.full /\ m.frame = buffer.frame
      BY <3>1
    <3>4. largeBuffers' \in VF!Data /\ largeBuffers' # << >>
      BY <1>5, <3>2, AppendedFacts
    <3>5. VF!PutTogether'
      <4>. SUFFICES ASSUME VF!Unspoilt(largeBuffers')
                    PROVE  /\ bufferInUse' /\ firstKeyFrameReceived' /\ pending' = << >>
                           /\ \/ largeBuffers' = <<largeBuffers'[1], m>> /\ VF!Whole(largeBuffers')
                              \/ largeBuffers' = <<m>> /\ m.part = 2 /\ VF!NeedsKey'
        BY <1>2 DEF VF!PutTogether, VF!Unspoilt, VF!Whole
      <4>1. VF!Unspoilt(largeBuffers) /\ ~m.spoilt
        BY <1>5, <3>2, AppendedFacts
      <4>2. pending = << >> /\ ~buffer.spoilt
        BY <1>4, <3>1, <4>1
      <4>3. CASE largeBuffers = << >>
        <5>1. largeBuffers' = <<m>>
          BY <3>2, <4>3
        <5>2. VF!NeedsKey
          <6>1. CASE firstKeyFrameReceived
            BY <1>1, <2>2, <3>3, <4>2, <4>3, <6>1 DEF FedWhole, VF!StartDropped
          <6>2. CASE ~firstKeyFrameReceived
            <7>1. ~VF!IsKeyFrame(m)
              BY <3>1 DEF VF!IsKeyFrame
            <7>. QED  BY <1>2, <1>10, <6>2, <7>1
          <6>. QED  BY <6>1, <6>2
        <5>3. VF!NeedsKey'
          BY <3>2, <5>2 DEF VF!NeedsKey
        <5>. QED  BY <1>10, <3>1, <3>2, <4>2, <5>1, <5>3
      <4>4. CASE largeBuffers # << >>
        <5>1. \/ largeBuffers = <<buffer>>
              \/ largeBuffers = <<largeBuffers[1], buffer>> /\ VF!Whole(largeBuffers)
          BY <1>1, <4>1, <4>4 DEF FedWhole, VF!PutTogether
        <5>2. largeBuffers = <<buffer>>
          <6>. SUFFICES ASSUME largeBuffers = <<largeBuffers[1], buffer>>, VF!Whole(largeBuffers)
                        PROVE  FALSE
            BY <5>1
          <6>1. Len(largeBuffers) = 2 /\ largeBuffers[2] = buffer
            <7>. DEFINE a == largeBuffers[1]
            <7>1. largeBuffers = <<a, buffer>>
              OBVIOUS
            <7>. HIDE DEF a
            <7>. QED  BY <7>1
          <6>2. buffer.part = 2
            BY <6>1 DEF VF!Whole
          <6>. QED  BY <3>3, <6>2
        <5>3. largeBuffers' = <<buffer, m>>
          <6>1. largeBuffers' = Append(<<buffer>>, m)
            BY <3>2, <5>2
          <6>2. Append(<<buffer>>, m) = <<buffer, m>>
            BY <1>4, TwoAppended
          <6>. QED  BY <6>1, <6>2
        <5>4. VF!Whole(<<buffer, m>>) /\ <<buffer, m>>[1] = buffer
          BY <3>1, <3>3 DEF VF!Whole
        <5>. QED  BY <1>10, <3>2, <4>2, <5>3, <5>4
      <4>. QED  BY <4>3, <4>4
    <3>6. VF!StartDropped'
      BY <3>4 DEF VF!StartDropped
    <3>7. VF!CallsWait'
      BY <1>2, <1>6, <3>2 DEF VF!CallsWait, VF!CallIsOf, VF!Unspoilt, VF!Whole
    <3>8. VF!WholeFrames'
      BY <3>2 DEF VF!WholeFrames
    <3>. QED  BY <1>1, <1>2, <1>3, <3>2, <3>4, <3>5, <3>6, <3>7, <3>8 DEF FedWhole
  <2>. QED  BY <2>1, <2>2
<1>. QED  BY <1>8, <1>9, <1>10

LEMMA FeederOfVideoInit == PartInit => VF!IInv
<1>. SUFFICES ASSUME VF!Init PROVE VF!IInv
  BY DEF PartInit
<1>1. /\ MaxPending \in Nat /\ MaxErrors \in Nat /\ Frames \in Nat /\ Frames > 0
  BY LiveViewAssumption
<1>2. buffer \in VF!Messages(BOOLEAN)
  <2>1. 0 \in 0 .. Frames - 1
    BY <1>1
  <2>. QED  BY <2>1 DEF VF!Init, VF!NoMessage, VF!Messages
<1>3. Len(pending) = 0 /\ pending \in Seq(Calls) /\ largeBuffers \in VF!Data
  BY DEF VF!Init, VF!Data
<1>4. VF!TypeOK
  <2>1. errors \in 0 .. MaxErrors /\ Len(pending) <= MaxPending
    BY <1>1, <1>3 DEF VF!Init
  <2>2. {started, firstKeyFrameReceived, bufferInUse, noRestart} \subseteq BOOLEAN
    BY DEF VF!Init
  <2>3. /\ ws \in {"none", "never", "open", "closing", "closed"}
        /\ configSupported \in {"undefined", "yes", "no"}
    BY DEF VF!Init
  <2>4. decoder \in [state : {"unconfigured", "configured", "closed"}, keyRequired : BOOLEAN]
    BY DEF VF!Init, VF!New
  <2>. QED  BY <1>2, <2>1, <2>2, <2>3, <2>4 DEF VF!TypeOK
<1>5. VF!PutTogether /\ VF!CallsWait /\ VF!WholeFrames
  BY DEF VF!Init, VF!PutTogether, VF!CallsWait, VF!WholeFrames
<1>6. VF!StartDropped
  BY DEF VF!Init, VF!StartDropped
<1>. QED  BY <1>3, <1>4, <1>5, <1>6 DEF VF!IInv, Calls

LEMMA FeederOfVideoStep ==
  ASSUME VF!IInv, [VF!Next]_vfVars
  PROVE  VF!IInv'
<1>1. FedWhole /\ VF!TypeOK
  BY FeederParts DEF VF!IInv
<1>. USE DEF VF!TypeOK
<1>2. CASE UNCHANGED vfVars
  <2>1. UNCHANGED <<ws, started, decoder, configSupported, firstKeyFrameReceived, buffer,
                    largeBuffers, bufferInUse, pending, noRestart, handed, errors>>
    BY <1>2 DEF vfVars
  <2>. QED  BY <2>1 DEF VF!IInv, VF!PutTogether, VF!StartDropped, VF!CallsWait, VF!WholeFrames,
                        VF!NeedsKey, VF!CallIsOf, VF!Unspoilt, VF!Whole
<1>8. CASE VF!NotSupported
  <2>1. /\ UNCHANGED <<started, decoder, configSupported, firstKeyFrameReceived, buffer,
                       largeBuffers, bufferInUse, pending, noRestart, handed, errors>>
        /\ ws' \in {"none", "never", "open", "closing", "closed"}
    BY <1>8 DEF VF!NotSupported
  <2>. QED  BY <2>1 DEF VF!IInv, VF!PutTogether, VF!StartDropped, VF!CallsWait, VF!WholeFrames,
                        VF!NeedsKey, VF!CallIsOf, VF!Unspoilt, VF!Whole
<1>3. CASE VF!SetUp \/ VF!ReceiveCodec \/ VF!TimedOut \/ VF!Close
           \/ VF!OnError \/ VF!OnClose
  <2>1. /\ handed' = << >> /\ decoder' \in {decoder, VF!Closed(decoder)}
        /\ UNCHANGED <<firstKeyFrameReceived, buffer, largeBuffers, bufferInUse, pending,
                       configSupported, errors>>
        /\ ws' \in {ws, "open", "never", "closing", "closed"}
        /\ started' \in {started, TRUE} /\ noRestart' \in {noRestart, TRUE}
    <3>1. CASE VF!SetUp
      BY <3>1 DEF VF!SetUp
    <3>2. CASE VF!ReceiveCodec
      BY <3>2 DEF VF!ReceiveCodec
    <3>3. CASE VF!TimedOut
      BY <3>3 DEF VF!TimedOut
    <3>4. CASE VF!Close
      BY <3>4 DEF VF!Close
    <3>5. CASE VF!OnError \/ VF!OnClose
      BY <3>5 DEF VF!OnError, VF!OnClose
    <3>. QED  BY <1>3, <3>1, <3>2, <3>3, <3>4, <3>5
  <2>2. FedWhole' /\ buffer' \in VF!Messages(BOOLEAN)
    BY <2>1, NothingFed
  <2>. QED  BY <1>1, <2>1, <2>2, RestOfType
<1>4. CASE VF!Receive
  <2>1. /\ Len(pending) < MaxPending
        /\ UNCHANGED <<ws, started, configSupported, noRestart, errors>>
    BY <1>4 DEF VF!Receive
  <2>2. PICK m0 \in VF!Follows(buffer) :
          VF!ProcessChunk([m0 EXCEPT !.spoilt = pending # << >> \/ (m0.part = 2 /\ buffer.spoilt)])
    BY <1>4 DEF VF!Receive
  <2>. DEFINE m == [m0 EXCEPT !.spoilt = pending # << >> \/ (m0.part = 2 /\ buffer.spoilt)]
  <2>3. /\ m \in VF!Messages(BOOLEAN)
        /\ m.spoilt <=> pending # << >> \/ (m.part = 2 /\ buffer.spoilt)
        /\ IF buffer.part = 1 /\ buffer.full THEN m.part = 2 /\ m.frame = buffer.frame
           ELSE m.part = 1
    BY ReceivedFacts
  <2>4. VF!ProcessChunk(m)
    BY <2>2
  <2>. HIDE DEF m
  <2>5. FedWhole' /\ firstKeyFrameReceived' \in BOOLEAN /\ buffer' = m
    BY <2>1, <2>3, <2>4, Received
  <2>. QED  BY <1>1, <2>1, <2>3, <2>5, RestOfType
<1>5. CASE VF!ConfigSupported
  <2>1. FedWhole'
    BY <1>5, ConfigIsSupported
  <2>. QED  BY <1>1, <1>5, <2>1, RestOfType DEF VF!ConfigSupported
<1>6. CASE VF!ConfigNotSupported
  <2>1. FedWhole'
    BY <1>6, ConfigIsNotSupported
  <2>. QED  BY <1>1, <1>6, <2>1, RestOfType DEF VF!ConfigNotSupported
<1>7. CASE VF!DecoderError
  <2>1. FedWhole'
    BY <1>7, ErrorSpoils
  <2>2. errors' \in 0 .. MaxErrors
    <3>1. errors \in 0 .. MaxErrors /\ errors < MaxErrors /\ errors' = errors + 1 /\ MaxErrors \in Nat
      BY <1>1, <1>7, LiveViewAssumption DEF VF!DecoderError
    <3>. QED  BY <3>1
  <2>. QED  BY <1>1, <1>7, <2>1, <2>2, RestOfType DEF VF!DecoderError
<1>. QED  BY <1>2, <1>3, <1>4, <1>5, <1>6, <1>7, <1>8 DEF VF!Next

-----------------------------------------------------------------------------
(* Induction over the numbers, as membership of a set. *)
LEMMA LeastOf ==
  ASSUME NEW T, T \subseteq Nat, T # {}
  PROVE  \E x \in T : \A y \in T : x <= y
<1>1. IsWellFoundedOn(OpToRel(<, Nat), Nat)
  BY NatLessThanWellFounded
<1>2. PICK x \in T : \A y \in T : ~(<<y, x>> \in OpToRel(<, Nat))
  BY <1>1, WFMin
<1>3. ASSUME NEW y \in T PROVE x <= y
  <2>1. ~(<<y, x>> \in OpToRel(<, Nat))
    BY <1>2
  <2>2. y \in Nat /\ x \in Nat
    OBVIOUS
  <2>3. ~(y < x)
    BY <2>1, <2>2, Zenon DEF OpToRel
  <2>. QED  BY <2>2, <2>3
<1>. QED  BY <1>3

LEMMA UpTo ==
  ASSUME NEW T, 0 \in T, \A n \in Nat : n \in T => n + 1 \in T
  PROVE  Nat \subseteq T
<1>. DEFINE Others == {n \in Nat : n \notin T}
<1>. SUFFICES ASSUME Others # {} PROVE FALSE
  OBVIOUS
<1>1. PICK x \in Others : \A y \in Others : x <= y
  <2>1. Others \subseteq Nat
    OBVIOUS
  <2>. HIDE DEF Others
  <2>. QED  BY <2>1, LeastOf
<1>2. x \in Nat /\ x # 0 /\ x \notin T
  OBVIOUS
<1>3. x - 1 \in Nat /\ x - 1 \notin Others
  <2>1. x - 1 \in Nat /\ ~(x <= x - 1)
    BY <1>2
  <2>. QED  BY <1>1, <2>1
<1>4. x - 1 \in T
  BY <1>3
<1>5. (x - 1) + 1 \in T
  BY <1>3, <1>4
<1>. QED  BY <1>2, <1>5

(* Sums are sums: the recursive function of SumTo is there. *)
Samples == [0 .. ArraySize - 1 -> Nat]

LEMMA SumIsThere ==
  ASSUME NEW s \in Samples
  PROVE  \E g \in [0 .. ArraySize -> Nat] :
           g = [n \in 0 .. ArraySize |-> IF n = 0 THEN 0 ELSE g[n - 1] + s[n - 1]]
<1>0. ArraySize \in Nat \ {0}
  BY LiveViewAssumption
<1>. DEFINE Sums(k, g) == g[0] = 0 /\ \A n \in 1 .. k : g[n] = g[n - 1] + s[n - 1]
            T == {k \in Nat : k <= ArraySize => \E g \in [0 .. ArraySize -> Nat] : Sums(k, g)}
<1>1. 0 \in T
  <2>. DEFINE g == [n \in 0 .. ArraySize |-> 0]
  <2>1. g \in [0 .. ArraySize -> Nat] /\ Sums(0, g)
    BY <1>0
  <2>. HIDE DEF Sums, g
  <2>2. \E h \in [0 .. ArraySize -> Nat] : Sums(0, h)
    BY <2>1
  <2>. QED  BY <2>2
<1>2. ASSUME NEW k \in Nat, k \in T PROVE k + 1 \in T
  <2>. SUFFICES ASSUME k + 1 <= ArraySize
                PROVE  \E g \in [0 .. ArraySize -> Nat] : Sums(k + 1, g)
    OBVIOUS
  <2>1. PICK g \in [0 .. ArraySize -> Nat] : Sums(k, g)
    BY <1>0, <1>2
  <2>2. g[k] + s[k] \in Nat
    <3>1. k \in 0 .. ArraySize /\ k \in 0 .. ArraySize - 1
      BY <1>0
    <3>2. g[k] \in Nat /\ s[k] \in Nat
      BY <3>1 DEF Samples
    <3>. QED  BY <3>2
  <2>. DEFINE h == [g EXCEPT ![k + 1] = g[k] + s[k]]
  <2>3. h \in [0 .. ArraySize -> Nat] /\ h[k + 1] = g[k] + s[k]
    BY <1>0, <2>2
  <2>4. \A n \in 0 .. k : h[n] = g[n]
    BY <1>0
  <2>5. h[0] = 0
    BY <2>1, <2>4
  <2>6. ASSUME NEW n \in 1 .. k + 1 PROVE h[n] = h[n - 1] + s[n - 1]
    <3>1. CASE n = k + 1
      <4>1. n - 1 = k /\ k \in 0 .. k
        BY <3>1
      <4>. QED  BY <2>3, <2>4, <3>1, <4>1
    <3>2. CASE n # k + 1
      <4>1. n \in 1 .. k /\ n \in 0 .. k /\ n - 1 \in 0 .. k
        BY <3>2
      <4>. QED  BY <2>1, <2>4, <4>1
    <3>. QED  BY <3>1, <3>2
  <2>7. Sums(k + 1, h)
    BY <2>5, <2>6
  <2>. QED  BY <2>3, <2>7
<1>3. ArraySize \in T
  <2>. HIDE DEF T
  <2>. QED  BY <1>0, <1>1, <1>2, UpTo
<1>4. PICK g \in [0 .. ArraySize -> Nat] : Sums(ArraySize, g)
  <2>1. ArraySize <= ArraySize
    BY <1>0
  <2>. HIDE DEF Sums
  <2>2. \E g \in [0 .. ArraySize -> Nat] : Sums(ArraySize, g)
    BY <1>3, <2>1, Zenon
  <2>. QED  BY <2>2
<1>5. ASSUME NEW n \in 0 .. ArraySize
      PROVE  g[n] = IF n = 0 THEN 0 ELSE g[n - 1] + s[n - 1]
  BY <1>0, <1>4
<1>6. g = [n \in 0 .. ArraySize |-> IF n = 0 THEN 0 ELSE g[n - 1] + s[n - 1]]
  BY <1>5
<1>. QED  BY <1>6

LEMMA SumFacts ==
  ASSUME NEW s \in Samples
  PROVE  /\ AQ!SumTo(s)[0] = 0
         /\ \A n \in 0 .. ArraySize : AQ!SumTo(s)[n] \in Nat
         /\ \A n \in 0 .. ArraySize - 1 : AQ!SumTo(s)[n + 1] = AQ!SumTo(s)[n] + s[n]
<1>0. ArraySize \in Nat \ {0}
  BY LiveViewAssumption
<1>. DEFINE f == AQ!SumTo(s)
<1>1. f = CHOOSE g : g = [n \in 0 .. ArraySize |-> IF n = 0 THEN 0 ELSE g[n - 1] + s[n - 1]]
  BY Zenon DEF AQ!SumTo
<1>. HIDE DEF f
<1>2. f = [n \in 0 .. ArraySize |-> IF n = 0 THEN 0 ELSE f[n - 1] + s[n - 1]]
  BY <1>1, SumIsThere, Zenon
<1>3. \A n \in 0 .. ArraySize : f[n] = IF n = 0 THEN 0 ELSE f[n - 1] + s[n - 1]
  BY <1>2, Zenon
<1>4. f[0] = 0
  <2>1. 0 \in 0 .. ArraySize
    BY <1>0
  <2>. QED  BY <1>3, <2>1
<1>5. ASSUME NEW n \in 0 .. ArraySize - 1 PROVE f[n + 1] = f[n] + s[n]
  <2>1. n + 1 \in 0 .. ArraySize /\ n + 1 # 0 /\ (n + 1) - 1 = n
    BY <1>0
  <2>. QED  BY <1>3, <2>1
<1>6. \A n \in 0 .. ArraySize : f[n] \in Nat
  <2>. DEFINE T == {n \in Nat : n <= ArraySize => f[n] \in Nat}
  <2>1. 0 \in T
    BY <1>4
  <2>2. ASSUME NEW n \in Nat, n \in T PROVE n + 1 \in T
    <3>. SUFFICES ASSUME n + 1 <= ArraySize PROVE f[n + 1] \in Nat
      OBVIOUS
    <3>1. n \in 0 .. ArraySize - 1 /\ f[n] \in Nat
      BY <1>0, <2>2
    <3>2. s[n] \in Nat
      BY <3>1 DEF Samples
    <3>. QED  BY <1>5, <3>1, <3>2
  <2>3. Nat \subseteq T
    <3>. HIDE DEF T
    <3>. QED  BY <2>1, <2>2, UpTo
  <2>. QED  BY <1>0, <2>3
<1>. QED  BY <1>4, <1>5, <1>6 DEF f

(* The square of a sum, and the sum of the squares. *)
LEMMA ProductsOfNats == \A a, b \in Nat : a * b \in Nat
OBVIOUS

LEMMA SquareIsNat == \A a \in Int : a * a \in Nat
<1>. SUFFICES ASSUME NEW a \in Int PROVE a * a >= 0
  OBVIOUS
<1>1. CASE a >= 0
  BY <1>1
<1>2. CASE a < 0
  BY <1>2
<1>. QED  BY <1>1, <1>2

LEMMA OneMore ==
  ASSUME NEW n \in Nat, NEW q \in Nat, NEW t \in Nat, NEW x \in Nat,
         n * q >= t * t, n = 0 => t = 0
  PROVE  (n + 1) * (q + x * x) >= (t + x) * (t + x)
<1>. DEFINE z == n * (x * x) + q - 2 * (t * x)
<1>0. x * x \in Nat /\ t * x \in Nat /\ t * t \in Nat /\ n * q \in Nat /\ n * (x * x) \in Nat
  BY ProductsOfNats
<1>1. z \in Int
  BY <1>0
<1>2. (n + 1) * (q + x * x) = n * q + n * (x * x) + q + x * x
  BY <1>0
<1>3. (t + x) * (t + x) = t * t + 2 * (t * x) + x * x
  BY <1>0
<1>4. z >= 0
  <2>1. CASE n = 0
    <3>1. t * x = 0 /\ n * (x * x) = 0
      BY <2>1
    <3>. QED  BY <3>1
  <2>2. CASE n # 0
    <3>1. n * z = n * (n * (x * x)) + n * q - 2 * (n * (t * x))
      BY <1>0
    <3>2. (n * x - t) * (n * x - t) = n * (n * (x * x)) - 2 * (n * (t * x)) + t * t
      BY <1>0
    <3>3. n * x - t \in Int
      BY ProductsOfNats
    <3>4. (n * x - t) * (n * x - t) >= 0
      BY <3>3, SquareIsNat
    <3>5. n * (n * (x * x)) \in Nat /\ n * (t * x) \in Nat
      BY <1>0, ProductsOfNats
    <3>6. n * z >= 0
      <4>. DEFINE a == n * (n * (x * x))
                  b == n * (t * x)
                  c == n * q
                  d == t * t
                  y == n * z
                  w == (n * x - t) * (n * x - t)
      <4>1. a \in Nat /\ b \in Nat /\ c \in Nat /\ d \in Nat /\ w \in Int /\ y \in Int
        BY <1>0, <1>1, <3>3, <3>5
      <4>2. y = a + c - 2 * b /\ w = a - 2 * b + d /\ w >= 0 /\ c >= d
        BY <3>1, <3>2, <3>4
      <4>. HIDE DEF a, b, c, d, w, y
      <4>3. y >= 0
        BY <4>1, <4>2
      <4>. QED  BY <4>3 DEF y
    <3>. HIDE DEF z
    <3>7. ~(z < 0)
      <4>. SUFFICES ASSUME z < 0 PROVE FALSE
        OBVIOUS
      <4>1. n * z < 0
        BY <1>1, <2>2
      <4>2. n * z \in Int
        BY <1>1
      <4>. QED  BY <3>6, <4>1, <4>2
    <3>. QED  BY <1>1, <3>7
  <2>. QED  BY <2>1, <2>2
<1>5. n * q + n * (x * x) + q + x * x >= t * t + 2 * (t * x) + x * x
  <2>. DEFINE a == n * q
              b == n * (x * x)
              c == x * x
              d == t * t
              y == t * x
  <2>1. a \in Nat /\ b \in Nat /\ c \in Nat /\ d \in Nat /\ y \in Nat
    BY <1>0
  <2>2. b + q - 2 * y >= 0 /\ a >= d
    BY <1>4
  <2>. HIDE DEF a, b, c, d, y
  <2>3. a + b + q + c >= d + 2 * y + c
    BY <2>1, <2>2
  <2>. QED  BY <2>3 DEF a, b, c, d, y
<1>. QED  BY <1>2, <1>3, <1>5

LEMMA SquaresAreEnough ==
  ASSUME NEW s \in Samples
  PROVE  /\ AQ!Total(s) \in Nat /\ AQ!Squares(s) \in Nat
         /\ ArraySize * AQ!Squares(s) >= AQ!Total(s) * AQ!Total(s)
<1>0. ArraySize \in Nat \ {0}
  BY LiveViewAssumption
<1>. DEFINE sq == [i \in DOMAIN s |-> s[i] * s[i]]
            f == AQ!SumTo(s)
            q == AQ!SumTo(sq)
            T == {n \in Nat : n <= ArraySize => n * q[n] >= f[n] * f[n]}
<1>1. sq \in Samples /\ \A n \in 0 .. ArraySize - 1 : sq[n] = s[n] * s[n]
  <2>1. DOMAIN s = 0 .. ArraySize - 1 /\ \A n \in 0 .. ArraySize - 1 : s[n] \in Nat
    BY DEF Samples
  <2>2. \A n \in 0 .. ArraySize - 1 : s[n] * s[n] \in Nat
    BY <2>1, ProductsOfNats
  <2>. QED  BY <2>1, <2>2 DEF Samples
<1>2. AQ!Squares(s) = q[ArraySize] /\ AQ!Total(s) = f[ArraySize]
  BY Zenon DEF AQ!Squares, AQ!Total
<1>. HIDE DEF sq
<1>3. /\ f[0] = 0 /\ \A n \in 0 .. ArraySize : f[n] \in Nat
      /\ \A n \in 0 .. ArraySize - 1 : f[n + 1] = f[n] + s[n]
  BY SumFacts
<1>4. /\ q[0] = 0 /\ \A n \in 0 .. ArraySize : q[n] \in Nat
      /\ \A n \in 0 .. ArraySize - 1 : q[n + 1] = q[n] + sq[n]
  BY <1>1, SumFacts
<1>. HIDE DEF f, q
<1>5. 0 \in T
  <2>1. f[0] * f[0] = 0 /\ 0 * q[0] = 0
    BY <1>3, <1>4
  <2>. QED  BY <2>1
<1>6. ASSUME NEW n \in Nat, n \in T PROVE n + 1 \in T
  <2>. SUFFICES ASSUME n + 1 <= ArraySize
                PROVE  (n + 1) * q[n + 1] >= f[n + 1] * f[n + 1]
    OBVIOUS
  <2>1. n \in 0 .. ArraySize /\ n \in 0 .. ArraySize - 1 /\ n * q[n] >= f[n] * f[n]
    BY <1>0, <1>6
  <2>2. s[n] \in Nat /\ f[n] \in Nat /\ q[n] \in Nat
    BY <1>3, <1>4, <2>1 DEF Samples
  <2>3. f[n + 1] = f[n] + s[n] /\ q[n + 1] = q[n] + s[n] * s[n]
    BY <1>1, <1>3, <1>4, <2>1
  <2>4. n = 0 => f[n] = 0
    BY <1>3
  <2>5. (n + 1) * (q[n] + s[n] * s[n]) >= (f[n] + s[n]) * (f[n] + s[n])
    BY <2>1, <2>2, <2>4, OneMore
  <2>. QED  BY <2>3, <2>5, Zenon
<1>7. ArraySize \in T
  <2>. HIDE DEF T
  <2>. QED  BY <1>0, <1>5, <1>6, UpTo
<1>8. ArraySize \in 0 .. ArraySize
  BY <1>0
<1>9. ArraySize * q[ArraySize] >= f[ArraySize] * f[ArraySize]
  BY <1>0, <1>7
<1>. QED  BY <1>2, <1>3, <1>4, <1>8, <1>9

LEMMA RootIsNat ==
  ASSUME NEW n \in Nat
  PROVE  AQ!Root(n) \in Nat
<1>. DEFINE T == {r \in Nat : (r + 1) * (r + 1) > n}
<1>1. n \in T
  <2>1. n * n \in Nat
    BY ProductsOfNats
  <2>2. (n + 1) * (n + 1) = n * n + 2 * n + 1
    OBVIOUS
  <2>3. (n + 1) * (n + 1) > n
    BY <2>1, <2>2
  <2>. QED  BY <2>3
<1>2. PICK r \in T : \A y \in T : r <= y
  <2>1. T \subseteq Nat /\ T # {}
    BY <1>1
  <2>. HIDE DEF T
  <2>. QED  BY <2>1, LeastOf
<1>3. r \in Nat /\ (r + 1) * (r + 1) > n /\ r <= n
  BY <1>1, <1>2
<1>4. r * r <= n
  <2>1. CASE r = 0
    <3>1. r * r = 0
      BY <2>1
    <3>. QED  BY <3>1
  <2>2. CASE r # 0
    <3>1. r - 1 \in Nat /\ ~(r <= r - 1) /\ (r - 1) + 1 = r
      BY <1>3, <2>2
    <3>2. ~(((r - 1) + 1) * ((r - 1) + 1) > n)
      BY <1>2, <3>1
    <3>3. ~(r * r > n) /\ r * r \in Nat
      BY <1>3, <3>1, <3>2, ProductsOfNats
    <3>. QED  BY <3>3
  <2>. QED  BY <2>1, <2>2
<1>5. \E m \in 0 .. n : m * m <= n /\ (m + 1) * (m + 1) > n
  BY <1>3, <1>4
<1>6. AQ!Root(n) \in 0 .. n
  BY <1>5, Zenon DEF AQ!Root
<1>. QED  BY <1>6

LEMMA DeviationIsNat ==
  ASSUME NEW s \in Samples
  PROVE  AQ!Deviation(s) \in Nat
<1>0. ArraySize \in Nat
  BY LiveViewAssumption
<1>. DEFINE a == ArraySize * AQ!Squares(s)
            b == AQ!Total(s) * AQ!Total(s)
<1>1. AQ!Total(s) \in Nat /\ AQ!Squares(s) \in Nat /\ a >= b
  BY SquaresAreEnough
<1>2. a \in Nat /\ b \in Nat
  BY <1>0, <1>1, ProductsOfNats
<1>3. AQ!Deviation(s) = 4 * (a - b)
  BY DEF AQ!Deviation
<1>. HIDE DEF a, b
<1>. QED  BY <1>1, <1>2, <1>3

(* The sizes that are measured. *)
LEMMA LeastOfTwo ==
  ASSUME NEW a \in Int, NEW b \in Int
  PROVE  AQ!Min({a, b}) \in {a, b} /\ AQ!Min({a, b}) <= a /\ AQ!Min({a, b}) <= b
<1>1. \E x \in {a, b} : \A y \in {a, b} : x <= y
  OBVIOUS
<1>2. /\ AQ!Min({a, b}) \in {a, b}
      /\ \A y \in {a, b} : AQ!Min({a, b}) <= y
  BY <1>1, Zenon DEF AQ!Min
<1>. QED  BY <1>2

LEMMA GreatestOfTwo ==
  ASSUME NEW a \in Int, NEW b \in Int
  PROVE  AQ!Max({a, b}) \in {a, b} /\ AQ!Max({a, b}) >= a /\ AQ!Max({a, b}) >= b
<1>1. \E x \in {a, b} : \A y \in {a, b} : x >= y
  OBVIOUS
<1>2. /\ AQ!Max({a, b}) \in {a, b}
      /\ \A y \in {a, b} : AQ!Max({a, b}) >= y
  BY <1>1, Zenon DEF AQ!Max
<1>. QED  BY <1>2

LEMMA OneLess ==
  ASSUME NEW n \in Nat
  PROVE  AQ!Max({0, n - 1}) \in Nat /\ AQ!Max({0, n - 1}) <= n
<1>. DEFINE m == AQ!Max({0, n - 1})
<1>1. m \in {0, n - 1} /\ m >= 0
  <2>1. 0 \in Int /\ n - 1 \in Int
    OBVIOUS
  <2>. QED  BY <2>1, GreatestOfTwo, Zenon
<1>. HIDE DEF m
<1>2. m \in Nat /\ m <= n
  BY <1>1
<1>. QED  BY <1>2 DEF m

LEMMA QuotientFacts ==
  ASSUME NEW x \in Int, NEW n \in Nat, n > 0
  PROVE  x \div n \in Int /\ n * (x \div n) <= x /\ x < n * (x \div n) + n
OBVIOUS

LEMMA SizesMeasured ==
  ASSUME NEW s \in Samples
  PROVE  /\ AQ!MaxBufferSize(s) \in Int
         /\ AQ!WorkingBufferSize(s) \in 1 .. AQ!MaxBufferSize(s) - 1
<1>0. /\ ArraySize \in Nat /\ ArraySize > 0
      /\ WorkingHardLimit \in Nat /\ WorkingHardLimit > 0
      /\ MaxHardLimit \in Nat /\ WorkingHardLimit < MaxHardLimit
  BY LiveViewAssumption
<1>. DEFINE t == AQ!Total(s)
            d == AQ!Deviation(s)
            r == AQ!Root(d)
            above == IF r * r = d THEN r ELSE r + 1
            n == 2 * ArraySize
            x == 2 * t + 7 * ArraySize + r
            y == 2 * t + ArraySize - above
            p == x \div n
            q == y \div n
            max == AQ!MaxBufferSize(s)
            working == AQ!WorkingBufferSize(s)
<1>1. t \in Nat /\ d \in Nat
  BY SquaresAreEnough, DeviationIsNat
<1>2. r \in Nat
  <2>. HIDE DEF d
  <2>. QED  BY <1>1, RootIsNat
<1>3. max = AQ!Min({MaxHardLimit, p})
  BY DEF AQ!MaxBufferSize
<1>4. working = AQ!Max({1, AQ!Min({WorkingHardLimit, q})})
  BY DEF AQ!WorkingBufferSize
<1>. HIDE DEF t, d, r, max, working
<1>5. above \in Int /\ above >= r
  BY <1>2
<1>. HIDE DEF above
<1>6. /\ n \in Nat /\ n > 0 /\ x \in Int /\ y \in Int
      /\ x >= 3 * n /\ x >= y + 3 * n
  BY <1>0, <1>1, <1>2, <1>5
<1>. HIDE DEF n, x, y
<1>7. /\ p \in Int /\ n * p <= x /\ x < n * p + n
      /\ q \in Int /\ n * q <= y /\ y < n * q + n
  BY <1>6, QuotientFacts
<1>. HIDE DEF p, q
<1>8. p >= 3
  <2>. SUFFICES ASSUME p <= 2 PROVE FALSE
    BY <1>7
  <2>1. n * p <= n * 2
    BY <1>6, <1>7
  <2>2. n * p \in Int
    BY <1>6, <1>7
  <2>. QED  BY <1>6, <1>7, <2>1, <2>2
<1>9. q < p
  <2>. SUFFICES ASSUME p <= q PROVE FALSE
    BY <1>7
  <2>1. n * p <= n * q
    BY <1>6, <1>7
  <2>2. n * p \in Int /\ n * q \in Int
    BY <1>6, <1>7
  <2>. QED  BY <1>6, <1>7, <2>1, <2>2
<1>10. max \in {MaxHardLimit, p} /\ max \in Int
  <2>1. MaxHardLimit \in Int
    BY <1>0
  <2>2. AQ!Min({MaxHardLimit, p}) \in {MaxHardLimit, p}
    BY <1>7, <2>1, LeastOfTwo, Zenon
  <2>. QED  BY <1>3, <1>7, <2>1, <2>2
<1>11. max >= 2
  BY <1>0, <1>8, <1>10
<1>. DEFINE w == AQ!Min({WorkingHardLimit, q})
<1>12. w \in Int /\ w <= WorkingHardLimit /\ w <= q
  <2>1. w \in {WorkingHardLimit, q} /\ w <= WorkingHardLimit /\ w <= q
    <3>1. WorkingHardLimit \in Int
      BY <1>0
    <3>. QED  BY <1>7, <3>1, LeastOfTwo, Zenon
  <2>. QED  BY <1>0, <1>7, <2>1
<1>. HIDE DEF w
<1>13. working \in {1, w} /\ working >= 1
  <2>1. working = AQ!Max({1, w})
    BY <1>4 DEF w
  <2>. QED  BY <1>12, <2>1, GreatestOfTwo
<1>14. w < max
  BY <1>0, <1>7, <1>9, <1>10, <1>12
<1>15. working \in Int /\ working <= max - 1
  BY <1>10, <1>11, <1>12, <1>13, <1>14
<1>. QED  BY <1>10, <1>13, <1>15 DEF max, working

-----------------------------------------------------------------------------
(* The queue *)

Stats == [samples : Samples, arrayIndex : 0 .. ArraySize - 1,
          fullArray : BOOLEAN, measuring : BOOLEAN, max : Int, working : Int]
Leaves(b) == ~b.measuring => b.working \in 1 .. b.max - 1

LEMMA StatsUpdated ==
  ASSUME NEW b \in Stats, Leaves(b), NEW length \in Nat, NEW due \in BOOLEAN
  PROVE  AQ!Updated(b, length, due) \in Stats /\ Leaves(AQ!Updated(b, length, due))
<1>0. ArraySize \in Nat /\ ArraySize > 0
  BY LiveViewAssumption
<1>. DEFINE s == [b.samples EXCEPT ![b.arrayIndex] = length]
            full == b.fullArray \/ b.arrayIndex + 1 = ArraySize
            done == due /\ full
            u == [samples |-> s, arrayIndex |-> (b.arrayIndex + 1) % ArraySize,
                  fullArray |-> full, measuring |-> ~done,
                  max |-> IF done THEN AQ!MaxBufferSize(s) ELSE b.max,
                  working |-> IF done THEN AQ!WorkingBufferSize(s) ELSE b.working]
<1>1. AQ!Updated(b, length, due) = IF ~b.measuring THEN b ELSE u
  BY DEF AQ!Updated
<1>2. CASE ~b.measuring
  BY <1>1, <1>2
<1>3. CASE b.measuring
  <2>1. b.samples \in Samples /\ b.arrayIndex \in 0 .. ArraySize - 1
    BY DEF Stats
  <2>2. s \in Samples
    BY <2>1 DEF Samples
  <2>3. (b.arrayIndex + 1) % ArraySize \in 0 .. ArraySize - 1
    BY <1>0, <2>1
  <2>4. b.max \in Int /\ b.working \in Int /\ b.fullArray \in BOOLEAN
    BY DEF Stats
  <2>5. full \in BOOLEAN /\ done \in BOOLEAN
    OBVIOUS
  <2>. HIDE DEF s, full, done
  <2>6. /\ AQ!MaxBufferSize(s) \in Int
        /\ AQ!WorkingBufferSize(s) \in 1 .. AQ!MaxBufferSize(s) - 1
    BY <2>2, SizesMeasured
  <2>7. AQ!WorkingBufferSize(s) \in Int
    BY <2>6
  <2>8. u \in Stats
    BY <2>2, <2>3, <2>4, <2>5, <2>6, <2>7 DEF Stats
  <2>9. Leaves(u)
    BY <2>6 DEF Leaves
  <2>. QED  BY <1>1, <1>3, <2>8, <2>9
<1>. QED  BY <1>2, <1>3

LEMMA StatsReset ==
  ASSUME NEW b \in Stats
  PROVE  /\ AQ!ResetStats(b) \in Stats /\ Leaves(AQ!ResetStats(b))
         /\ AQ!ResetStats(b).measuring
<1>1. 0 \in 0 .. ArraySize - 1
  BY LiveViewAssumption
<1>. QED  BY <1>1 DEF AQ!ResetStats, Stats, Leaves

LEMMA QueueInit == PartInit => AQ!IInv
<1>. SUFFICES ASSUME AQ!Init PROVE AQ!IInv
  BY DEF PartInit
<1>1. ArraySize \in Nat /\ ArraySize > 0 /\ InitialMax \in Nat /\ InitialWorking \in Nat
  BY LiveViewAssumption
<1>2. arrays \in Nat /\ {playing, autoLatencyControl, lastAutoLatencyControl, wanted} \subseteq BOOLEAN
  BY DEF AQ!Init
<1>3. bs \in [samples : [0 .. ArraySize - 1 -> Nat], arrayIndex : 0 .. ArraySize - 1,
              fullArray : BOOLEAN, measuring : BOOLEAN, max : Int, working : Int]
  BY <1>1 DEF AQ!Init
<1>4. bs.measuring
  BY DEF AQ!Init
<1>. QED  BY <1>2, <1>3, <1>4 DEF AQ!IInv, AQ!LatencyLimited, AQ!WorkingBelowMax

LEMMA QueueStep ==
  ASSUME AQ!IInv, [AQ!Next]_aqVars
  PROVE  AQ!IInv'
<1>1. arrays \in Nat /\ bs \in Stats /\ Leaves(bs)
  BY DEF AQ!IInv, Stats, Samples, Leaves, AQ!WorkingBelowMax
<1>2. SUFFICES /\ arrays' \in Nat /\ bs' \in Stats /\ Leaves(bs')
               /\ {playing', autoLatencyControl', lastAutoLatencyControl', wanted'} \subseteq BOOLEAN
               /\ AQ!LatencyLimited'
  BY DEF AQ!IInv, Stats, Samples, Leaves, AQ!WorkingBelowMax
<1>3. {playing, autoLatencyControl, lastAutoLatencyControl, wanted} \subseteq BOOLEAN /\ AQ!LatencyLimited
  BY DEF AQ!IInv
<1>4. CASE AQ!Push
  <2>1. PICK due \in BOOLEAN :
         LET turnedOn == autoLatencyControl /\ ~lastAutoLatencyControl
             length == IF turnedOn THEN 1 ELSE arrays + 1
             b == IF ~autoLatencyControl THEN bs
                  ELSE AQ!Updated(IF turnedOn THEN AQ!ResetStats(bs) ELSE bs, length, due)
             tooLarge == autoLatencyControl /\ AQ!BufferTooLarge(b, length)
         IN /\ arrays' = IF tooLarge THEN AQ!Min({length, b.working}) ELSE length
            /\ bs' = IF tooLarge THEN AQ!ResetStats(b) ELSE b
    BY <1>4 DEF AQ!Push
  <2>. DEFINE turnedOn == autoLatencyControl /\ ~lastAutoLatencyControl
              length == IF turnedOn THEN 1 ELSE arrays + 1
              before == IF turnedOn THEN AQ!ResetStats(bs) ELSE bs
              b == IF ~autoLatencyControl THEN bs ELSE AQ!Updated(before, length, due)
              tooLarge == autoLatencyControl /\ AQ!BufferTooLarge(b, length)
  <2>2. /\ arrays' = IF tooLarge THEN AQ!Min({length, b.working}) ELSE length
        /\ bs' = IF tooLarge THEN AQ!ResetStats(b) ELSE b
    BY <2>1
  <2>3. length \in Nat
    BY <1>1
  <2>4. before \in Stats /\ Leaves(before)
    BY <1>1, StatsReset
  <2>. HIDE DEF length, before
  <2>5. b \in Stats /\ Leaves(b)
    BY <1>1, <2>3, <2>4, StatsUpdated
  <2>. HIDE DEF b
  <2>6. lastAutoLatencyControl' = autoLatencyControl /\ UNCHANGED <<playing, autoLatencyControl, wanted>>
    BY <1>4 DEF AQ!Push
  <2>7. CASE tooLarge
    <3>1. ~b.measuring /\ autoLatencyControl
      BY <2>7 DEF AQ!BufferTooLarge
    <3>2. b.working \in Nat /\ b.max \in Int
      <4>1. b.max \in Int /\ b.working \in 1 .. b.max - 1
        BY <2>5, <3>1 DEF Leaves, Stats
      <4>. QED  BY <4>1
    <3>3. AQ!Min({length, b.working}) \in {length, b.working}
      <4>1. length \in Int /\ b.working \in Int
        BY <2>3, <3>2
      <4>. QED  BY <4>1, LeastOfTwo, Zenon
    <3>4. arrays' \in Nat
      BY <2>2, <2>3, <2>7, <3>2, <3>3
    <3>5. bs' \in Stats /\ Leaves(bs') /\ bs'.measuring
      BY <2>2, <2>5, <2>7, StatsReset
    <3>. QED  BY <1>3, <2>6, <3>4, <3>5 DEF AQ!LatencyLimited
  <2>8. CASE ~tooLarge
    <3>1. arrays' = length /\ bs' = b
      BY <2>2, <2>8
    <3>2. autoLatencyControl => b.measuring \/ ~(length > b.max)
      BY <2>8 DEF AQ!BufferTooLarge
    <3>3. b.max \in Int
      BY <2>5 DEF Stats
    <3>4. AQ!LatencyLimited'
      BY <2>3, <2>6, <3>1, <3>2, <3>3 DEF AQ!LatencyLimited
    <3>. QED  BY <1>3, <2>3, <2>5, <2>6, <3>1, <3>4
  <2>. QED  BY <2>7, <2>8
<1>5. CASE AQ!Process
  <2>1. UNCHANGED <<bs, lastAutoLatencyControl, wanted>> /\ autoLatencyControl' = wanted
    BY <1>5 DEF AQ!Process
  <2>2. autoLatencyControl' \in BOOLEAN
    BY <1>3, <2>1
  <2>3. \/ arrays' = arrays /\ playing' = playing
        \/ playing' = (arrays > 0) /\ arrays' = AQ!Max({0, arrays - 1})
    BY <1>5 DEF AQ!Process
  <2>4. arrays' \in Nat /\ arrays' <= arrays /\ playing' \in BOOLEAN
    <3>1. AQ!Max({0, arrays - 1}) \in Nat /\ AQ!Max({0, arrays - 1}) <= arrays
      BY <1>1, OneLess
    <3>2. arrays' \in Nat /\ arrays' <= arrays
      BY <1>1, <2>3, <3>1
    <3>3. playing \in BOOLEAN /\ (arrays > 0) \in BOOLEAN
      BY <1>3
    <3>4. playing' = playing \/ playing' = (arrays > 0)
      BY <2>3, Zenon
    <3>5. playing' \in BOOLEAN
      BY <3>3, <3>4, Zenon
    <3>. QED  BY <3>2, <3>5
  <2>5. bs.max \in Int
    BY <1>1 DEF Stats
  <2>6. AQ!LatencyLimited'
    BY <1>1, <1>3, <2>1, <2>4, <2>5 DEF AQ!LatencyLimited
  <2>. QED  BY <1>1, <1>3, <2>1, <2>2, <2>4, <2>6
<1>6. CASE AQ!SetAutoLatencyControl \/ AQ!Shutdown \/ UNCHANGED aqVars
  <2>1. /\ UNCHANGED <<arrays, playing, bs, autoLatencyControl, lastAutoLatencyControl>>
        /\ wanted' \in {wanted, ~wanted}
    BY <1>6 DEF AQ!SetAutoLatencyControl, AQ!Shutdown, aqVars
  <2>. QED  BY <1>1, <1>3, <2>1 DEF AQ!LatencyLimited
<1>. QED  BY <1>4, <1>5, <1>6 DEF AQ!Next

-----------------------------------------------------------------------------
(***************************************************************************)
(* What is buffered holds, whatever the other parts do: what is decoded is *)
(* whole frames, and the queue that was measured is limited and leaves     *)
(* something to play when it is shortened.                                 *)
(***************************************************************************)
THEOREM BuffersAlwaysHold == PartSpec => []BuffersHold
<1>1. PartInit => VF!IInv /\ AQ!IInv
  BY FeederOfVideoInit, QueueInit
<1>2. VF!IInv /\ AQ!IInv /\ [PartNext]_partVars => (VF!IInv /\ AQ!IInv)'
  BY PartsMoveAlone, FeederOfVideoStep, QueueStep
<1>3. VF!IInv /\ AQ!IInv => BuffersHold
  BY DEF VF!IInv, AQ!IInv, BuffersHold
<1>. QED  BY <1>1, <1>2, <1>3, PTL DEF PartSpec

-----------------------------------------------------------------------------
(***************************************************************************)
(* The server's side of the audio to a camera: the port is freed, and      *)
(* audio that goes unheard is stopped, for any number of requests, starts  *)
(* and checks.                                                             *)
(***************************************************************************)
HIDE AudioSettingsAssumption
USE DEF Goes, Stops, fields

(* Threads of one kind are none of another. *)
LEMMA ThreadKinds ==
  /\ \A r \in Requests : Request(r) \in Threads
  /\ FeedCheck \in Threads
  /\ \A s \in Starts : Acceptor(s) \in Threads
  /\ \A r \in Requests : FeedCheck # Request(r) /\ \A s \in Starts : Acceptor(s) # Request(r)
BY DEF Threads, Request, FeedCheck, Acceptor

LEMMA AcceptorIsNoCheck == \A s \in Starts : Acceptor(s) # FeedCheck
BY DEF FeedCheck, Acceptor

(* Every step keeps the types. *)
LEMMA AudioTypeStep ==
  AudioTypeOK /\ [AudioNext]_audioVars => AudioTypeOK'
<1> SUFFICES ASSUME AudioTypeOK, [AudioNext]_audioVars PROVE AudioTypeOK'
  OBVIOUS
<1> USE ThreadKinds, AudioOutAssumption DEF AudioTypeOK, Starts
<1>1. ASSUME NEW r \in Requests, StartAudioOut(r) PROVE AudioTypeOK'
  BY <1>1 DEF StartAudioOut
<1>2. ASSUME NEW r \in Requests, StopAudioOut(r) PROVE AudioTypeOK'
  BY <1>2 DEF StopAudioOut
<1>3. ASSUME NEW t \in Threads, OpenSocket(t) PROVE AudioTypeOK'
  <2>1. CASE listening = {}
    <3>1. opened + 1 \in Starts /\ opened' = opened + 1
      BY <1>3, <2>1 DEF OpenSocket
    <3>2. Acceptor(opened + 1) \in Threads
      BY <3>1
    <3>3. pc' = [pc EXCEPT ![t] = "creating", ![Acceptor(opened + 1)] = "accepting"]
      BY <1>3, <2>1 DEF OpenSocket
    <3>4. start' \in [Threads -> 0 .. opened'] /\ after' = after
      BY <1>3, <2>1, <3>1 DEF OpenSocket
    <3>5. pc' \in [Threads -> {"idle", "opening", "creating", "connecting", "awaiting", "using",
                         "accepting", "releasing", "closing", "stopping", "clearing"}]
      BY <3>2, <3>3
    <3> QED
      BY <1>3, <2>1, <3>1, <3>4, <3>5 DEF OpenSocket
  <2>2. CASE listening # {}
    BY <1>3, <2>2 DEF OpenSocket
  <2> QED
    BY <2>1, <2>2
<1>4. ASSUME NEW t \in Threads, CreateClient(t) PROVE AudioTypeOK'
  BY <1>4 DEF CreateClient
<1>5. ASSUME NEW t \in Threads, CreateClientFails(t) PROVE AudioTypeOK'
  BY <1>5 DEF CreateClientFails
<1>6. ASSUME NEW t \in Threads, StartClient(t) PROVE AudioTypeOK'
  BY <1>6 DEF StartClient
<1>7. ASSUME NEW t \in Threads, Await(t) PROVE AudioTypeOK'
  BY <1>7 DEF Await
<1>8. ASSUME NEW t \in Threads, Use(t) PROVE AudioTypeOK'
  BY <1>8 DEF Use
<1>9. ASSUME NEW t \in Threads, Release(t) PROVE AudioTypeOK'
  BY <1>9 DEF Release
<1>10. ASSUME NEW t \in Threads, CloseSocket(t) PROVE AudioTypeOK'
  BY <1>10 DEF CloseSocket
<1>11. ASSUME NEW t \in Threads, StopClient(t) PROVE AudioTypeOK'
  BY <1>11 DEF StopClient
<1>12. ASSUME NEW t \in Threads, ClearClient(t) PROVE AudioTypeOK'
  BY <1>12 DEF ClearClient
<1>13. ASSUME NEW s \in Starts, SessionReady(s) PROVE AudioTypeOK'
  BY <1>13 DEF SessionReady
<1>14. ASSUME NEW s \in Starts, SessionFails(s) PROVE AudioTypeOK'
  BY <1>14 DEF SessionFails
<1>15. ASSUME NEW s \in Starts, Accept(s) PROVE AudioTypeOK'
  BY <1>15 DEF Accept
<1>16. ASSUME NEW s \in Starts, AcceptFails(s) PROVE AudioTypeOK'
  BY <1>16 DEF AcceptFails
<1>17. ASSUME Audio PROVE AudioTypeOK'
  BY <1>17 DEF Audio
<1>18. ASSUME AudioFeedCheck PROVE AudioTypeOK'
  <2>1. CASE count + 1 > AudioInSessionTimeout
    BY SMTT(30), <1>18, <2>1 DEF AudioFeedCheck
  <2>2. CASE ~(count + 1 > AudioInSessionTimeout)
    BY SMTT(30), <1>18, <2>2 DEF AudioFeedCheck
  <2> QED
    BY <2>1, <2>2
<1>19. ASSUME UNCHANGED audioVars PROVE AudioTypeOK'
  BY <1>19 DEF audioVars
<1> QED
  BY <1>1, <1>2, <1>3, <1>4, <1>5, <1>6, <1>7, <1>8, <1>9, <1>10, <1>11, <1>12, <1>13, <1>14, <1>15, <1>16, <1>17, <1>18, <1>19 DEF AudioNext, Starting, Stopping

(* No step but a request's opens a socket. *)
LEMMA RequestsOpenStep ==
  AudioTypeOK /\ RequestsOpen /\ [AudioNext]_audioVars => RequestsOpen'
<1> SUFFICES ASSUME AudioTypeOK, RequestsOpen, [AudioNext]_audioVars PROVE RequestsOpen'
  OBVIOUS
<1> USE ThreadKinds DEF RequestsOpen, AudioTypeOK
<1>1. ASSUME NEW r \in Requests, StartAudioOut(r) PROVE RequestsOpen'
  BY <1>1 DEF StartAudioOut
<1>2. ASSUME NEW r \in Requests, StopAudioOut(r) PROVE RequestsOpen'
  BY <1>2 DEF StopAudioOut
<1>3. ASSUME NEW t \in Threads, OpenSocket(t) PROVE RequestsOpen'
  BY <1>3 DEF OpenSocket
<1>4. ASSUME NEW t \in Threads, CreateClient(t) PROVE RequestsOpen'
  BY <1>4 DEF CreateClient
<1>5. ASSUME NEW t \in Threads, CreateClientFails(t) PROVE RequestsOpen'
  BY <1>5 DEF CreateClientFails
<1>6. ASSUME NEW t \in Threads, StartClient(t) PROVE RequestsOpen'
  BY <1>6 DEF StartClient
<1>7. ASSUME NEW t \in Threads, Await(t) PROVE RequestsOpen'
  BY <1>7 DEF Await
<1>8. ASSUME NEW t \in Threads, Use(t) PROVE RequestsOpen'
  BY <1>8 DEF Use
<1>9. ASSUME NEW t \in Threads, Release(t) PROVE RequestsOpen'
  BY <1>9 DEF Release
<1>10. ASSUME NEW t \in Threads, CloseSocket(t) PROVE RequestsOpen'
  BY <1>10 DEF CloseSocket
<1>11. ASSUME NEW t \in Threads, StopClient(t) PROVE RequestsOpen'
  BY <1>11 DEF StopClient
<1>12. ASSUME NEW t \in Threads, ClearClient(t) PROVE RequestsOpen'
  BY <1>12 DEF ClearClient
<1>13. ASSUME NEW s \in Starts, SessionReady(s) PROVE RequestsOpen'
  BY <1>13 DEF SessionReady
<1>14. ASSUME NEW s \in Starts, SessionFails(s) PROVE RequestsOpen'
  BY <1>14 DEF SessionFails
<1>15. ASSUME NEW s \in Starts, Accept(s) PROVE RequestsOpen'
  BY <1>15 DEF Accept
<1>16. ASSUME NEW s \in Starts, AcceptFails(s) PROVE RequestsOpen'
  BY <1>16 DEF AcceptFails
<1>17. ASSUME Audio PROVE RequestsOpen'
  BY <1>17 DEF Audio
<1>18. ASSUME AudioFeedCheck PROVE RequestsOpen'
  BY <1>18 DEF AudioFeedCheck
<1>19. ASSUME UNCHANGED audioVars PROVE RequestsOpen'
  BY <1>19 DEF audioVars
<1> QED
  BY <1>1, <1>2, <1>3, <1>4, <1>5, <1>6, <1>7, <1>8, <1>9, <1>10, <1>11, <1>12, <1>13, <1>14, <1>15, <1>16, <1>17, <1>18, <1>19 DEF AudioNext, Starting, Stopping

(* A socket that listens is the one in the field. *)
LEMMA PortInFieldStep ==
  AudioTypeOK /\ PortInField /\ [AudioNext]_audioVars => PortInField'
<1> SUFFICES ASSUME AudioTypeOK, PortInField, [AudioNext]_audioVars PROVE PortInField'
  OBVIOUS
<1> USE ThreadKinds DEF PortInField, AudioTypeOK
<1>1. ASSUME NEW r \in Requests, StartAudioOut(r) PROVE PortInField'
  BY <1>1 DEF StartAudioOut
<1>2. ASSUME NEW r \in Requests, StopAudioOut(r) PROVE PortInField'
  BY <1>2 DEF StopAudioOut
<1>3. ASSUME NEW t \in Threads, OpenSocket(t) PROVE PortInField'
  BY <1>3 DEF OpenSocket
<1>4. ASSUME NEW t \in Threads, CreateClient(t) PROVE PortInField'
  BY <1>4 DEF CreateClient
<1>5. ASSUME NEW t \in Threads, CreateClientFails(t) PROVE PortInField'
  BY <1>5 DEF CreateClientFails
<1>6. ASSUME NEW t \in Threads, StartClient(t) PROVE PortInField'
  BY <1>6 DEF StartClient
<1>7. ASSUME NEW t \in Threads, Await(t) PROVE PortInField'
  BY <1>7 DEF Await
<1>8. ASSUME NEW t \in Threads, Use(t) PROVE PortInField'
  BY <1>8 DEF Use
<1>9. ASSUME NEW t \in Threads, Release(t) PROVE PortInField'
  BY <1>9 DEF Release
<1>10. ASSUME NEW t \in Threads, CloseSocket(t) PROVE PortInField'
  BY <1>10 DEF CloseSocket
<1>11. ASSUME NEW t \in Threads, StopClient(t) PROVE PortInField'
  BY <1>11 DEF StopClient
<1>12. ASSUME NEW t \in Threads, ClearClient(t) PROVE PortInField'
  BY <1>12 DEF ClearClient
<1>13. ASSUME NEW s \in Starts, SessionReady(s) PROVE PortInField'
  BY <1>13 DEF SessionReady
<1>14. ASSUME NEW s \in Starts, SessionFails(s) PROVE PortInField'
  BY <1>14 DEF SessionFails
<1>15. ASSUME NEW s \in Starts, Accept(s) PROVE PortInField'
  BY <1>15 DEF Accept
<1>16. ASSUME NEW s \in Starts, AcceptFails(s) PROVE PortInField'
  BY <1>16 DEF AcceptFails
<1>17. ASSUME Audio PROVE PortInField'
  BY <1>17 DEF Audio
<1>18. ASSUME AudioFeedCheck PROVE PortInField'
  BY <1>18 DEF AudioFeedCheck
<1>19. ASSUME UNCHANGED audioVars PROVE PortInField'
  BY <1>19 DEF audioVars
<1> QED
  BY <1>1, <1>2, <1>3, <1>4, <1>5, <1>6, <1>7, <1>8, <1>9, <1>10, <1>11, <1>12, <1>13, <1>14, <1>15, <1>16, <1>17, <1>18, <1>19 DEF AudioNext, Starting, Stopping

(* The count is no less than the checks that audio went unheard for. *)
LEMMA UnheardStep ==
  AudioTypeOK /\ UnheardIsStopped /\ [AudioNext]_audioVars => UnheardIsStopped'
<1> SUFFICES ASSUME AudioTypeOK, UnheardIsStopped, [AudioNext]_audioVars PROVE UnheardIsStopped'
  OBVIOUS
<1> USE ThreadKinds, AudioOutAssumption DEF UnheardIsStopped, AudioTypeOK
<1>1. ASSUME NEW r \in Requests, StartAudioOut(r) PROVE UnheardIsStopped'
  BY <1>1 DEF StartAudioOut
<1>2. ASSUME NEW r \in Requests, StopAudioOut(r) PROVE UnheardIsStopped'
  BY <1>2 DEF StopAudioOut
<1>3. ASSUME NEW t \in Threads, OpenSocket(t) PROVE UnheardIsStopped'
  <2>1. CASE listening = {}
    <3>1. Acceptor(opened + 1) # FeedCheck
      BY <1>3, <2>1, AcceptorIsNoCheck DEF OpenSocket, Starts
    <3>2. pc'[FeedCheck] = pc[FeedCheck] \/ pc[FeedCheck] = "opening"
      BY <1>3, <2>1, <3>1 DEF OpenSocket
    <3> QED
      BY <1>3, <3>2 DEF OpenSocket
  <2>2. CASE listening # {}
    BY <1>3, <2>2 DEF OpenSocket
  <2> QED
    BY <2>1, <2>2
<1>4. ASSUME NEW t \in Threads, CreateClient(t) PROVE UnheardIsStopped'
  BY <1>4 DEF CreateClient
<1>5. ASSUME NEW t \in Threads, CreateClientFails(t) PROVE UnheardIsStopped'
  BY <1>5 DEF CreateClientFails
<1>6. ASSUME NEW t \in Threads, StartClient(t) PROVE UnheardIsStopped'
  BY <1>6 DEF StartClient
<1>7. ASSUME NEW t \in Threads, Await(t) PROVE UnheardIsStopped'
  BY <1>7 DEF Await
<1>8. ASSUME NEW t \in Threads, Use(t) PROVE UnheardIsStopped'
  BY <1>8 DEF Use
<1>9. ASSUME NEW t \in Threads, Release(t) PROVE UnheardIsStopped'
  BY <1>9 DEF Release
<1>10. ASSUME NEW t \in Threads, CloseSocket(t) PROVE UnheardIsStopped'
  BY <1>10 DEF CloseSocket
<1>11. ASSUME NEW t \in Threads, StopClient(t) PROVE UnheardIsStopped'
  BY <1>11 DEF StopClient
<1>12. ASSUME NEW t \in Threads, ClearClient(t) PROVE UnheardIsStopped'
  BY <1>12 DEF ClearClient
<1>13. ASSUME NEW s \in Starts, SessionReady(s) PROVE UnheardIsStopped'
  BY <1>13 DEF SessionReady
<1>14. ASSUME NEW s \in Starts, SessionFails(s) PROVE UnheardIsStopped'
  BY <1>14 DEF SessionFails
<1>15. ASSUME NEW s \in Starts, Accept(s) PROVE UnheardIsStopped'
  BY <1>15 DEF Accept
<1>16. ASSUME NEW s \in Starts, AcceptFails(s) PROVE UnheardIsStopped'
  BY <1>16 DEF AcceptFails
<1>17. ASSUME Audio PROVE UnheardIsStopped'
  BY <1>17 DEF Audio
<1>18. ASSUME AudioFeedCheck PROVE UnheardIsStopped'
  <2>1. unheard' = unheard + 1 /\ count' = count + 1 /\ unheard' <= count'
    BY <1>18 DEF AudioFeedCheck
  <2>2. CASE count + 1 > AudioInSessionTimeout
    <3>1. pc'[FeedCheck] = "releasing"
      BY <1>18, <2>2 DEF AudioFeedCheck
    <3> QED
      BY <2>1, <3>1
  <2>3. CASE ~(count + 1 > AudioInSessionTimeout)
    BY <2>1, <2>3
  <2> QED
    BY <2>2, <2>3
<1>19. ASSUME UNCHANGED audioVars PROVE UnheardIsStopped'
  BY <1>19 DEF audioVars
<1> QED
  BY <1>1, <1>2, <1>3, <1>4, <1>5, <1>6, <1>7, <1>8, <1>9, <1>10, <1>11, <1>12, <1>13, <1>14, <1>15, <1>16, <1>17, <1>18, <1>19 DEF AudioNext, Starting, Stopping

(* A thread that was to free the port or to use it goes on to do so. *)
LEMMA PortIsFreedStep ==
  AudioInv /\ [AudioNext]_audioVars => PortIsFreed'
<1> SUFFICES ASSUME AudioInv, [AudioNext]_audioVars PROVE PortIsFreed'
  OBVIOUS
<1> USE ThreadKinds DEF PortIsFreed, ToUse, ToClose, PortInField, RequestsOpen, AudioTypeOK, AudioInv
<1>1. ASSUME NEW r \in Requests, StartAudioOut(r) PROVE PortIsFreed'
  BY <1>1 DEF StartAudioOut
<1>2. ASSUME NEW r \in Requests, StopAudioOut(r) PROVE PortIsFreed'
  BY <1>2 DEF StopAudioOut
<1>3. ASSUME NEW t \in Threads, OpenSocket(t) PROVE PortIsFreed'
  <2>1. CASE listening = {}
    <3>1. pc'[t] = "creating"
      BY <1>3, <2>1 DEF OpenSocket, Starts
    <3> QED
      BY <3>1
  <2>2. CASE listening # {}
    BY <1>3, <2>2 DEF OpenSocket
  <2> QED
    BY <2>1, <2>2
<1>4. ASSUME NEW t \in Threads, CreateClient(t) PROVE PortIsFreed'
  BY <1>4 DEF CreateClient
<1>5. ASSUME NEW t \in Threads, CreateClientFails(t) PROVE PortIsFreed'
  BY <1>5 DEF CreateClientFails
<1>6. ASSUME NEW t \in Threads, StartClient(t) PROVE PortIsFreed'
  BY <1>6 DEF StartClient
<1>7. ASSUME NEW t \in Threads, Await(t) PROVE PortIsFreed'
  BY <1>7 DEF Await
<1>8. ASSUME NEW t \in Threads, Use(t) PROVE PortIsFreed'
  BY <1>8 DEF Use
<1>9. ASSUME NEW t \in Threads, Release(t) PROVE PortIsFreed'
  BY <1>9 DEF Release
<1>10. ASSUME NEW t \in Threads, CloseSocket(t) PROVE PortIsFreed'
  BY <1>10 DEF CloseSocket
<1>11. ASSUME NEW t \in Threads, StopClient(t) PROVE PortIsFreed'
  BY <1>11 DEF StopClient
<1>12. ASSUME NEW t \in Threads, ClearClient(t) PROVE PortIsFreed'
  BY <1>12 DEF ClearClient
<1>13. ASSUME NEW s \in Starts, SessionReady(s) PROVE PortIsFreed'
  BY <1>13 DEF SessionReady
<1>14. ASSUME NEW s \in Starts, SessionFails(s) PROVE PortIsFreed'
  BY <1>14 DEF SessionFails
<1>15. ASSUME NEW s \in Starts, Accept(s) PROVE PortIsFreed'
  BY <1>15 DEF Accept
<1>16. ASSUME NEW s \in Starts, AcceptFails(s) PROVE PortIsFreed'
  BY <1>16 DEF AcceptFails
<1>17. ASSUME Audio PROVE PortIsFreed'
  BY <1>17 DEF Audio
<1>18. ASSUME AudioFeedCheck PROVE PortIsFreed'
  BY <1>18 DEF AudioFeedCheck
<1>19. ASSUME UNCHANGED audioVars PROVE PortIsFreed'
  BY <1>19 DEF audioVars
<1> QED
  BY <1>1, <1>2, <1>3, <1>4, <1>5, <1>6, <1>7, <1>8, <1>9, <1>10, <1>11, <1>12, <1>13, <1>14, <1>15, <1>16, <1>17, <1>18, <1>19 DEF AudioNext, Starting, Stopping

(* The inductive invariant holds. *)
THEOREM AudioInvariance == AudioSpec => []AudioInv
<1>1. AudioInit => AudioInv
  <2> SUFFICES ASSUME AudioInit PROVE AudioInv
    OBVIOUS
  <2>1. AudioTypeOK
    <3>0. audioInUse \in BOOLEAN
      BY DEF AudioInit
    <3>1. /\ count \in Nat /\ unheard \in Nat
          /\ opened \in 0 .. MaxStarts /\ serverSocket \in 0 .. opened
          /\ client \in 0 .. opened
      BY AudioOutAssumption DEF AudioInit
    <3>2. listening \subseteq 1 .. opened
      BY DEF AudioInit
    <3>3. start \in [Threads -> 0 .. opened]
      BY DEF AudioInit
    <3> QED
      BY <3>0, <3>1, <3>2, <3>3 DEF AudioInit, AudioTypeOK
  <2>2. RequestsOpen /\ PortInField /\ PortIsFreed /\ UnheardIsStopped
    BY DEF AudioInit, RequestsOpen, PortInField, PortIsFreed, UnheardIsStopped
  <2> QED
    BY <2>1, <2>2 DEF AudioInv
<1>2. AudioInv /\ [AudioNext]_audioVars => AudioInv'
  BY AudioTypeStep, RequestsOpenStep, PortInFieldStep, UnheardStep, PortIsFreedStep DEF AudioInv
<1> QED
  BY <1>1, <1>2, PTL DEF AudioSpec

(* Audio can be started again (startAudioOut, UtilsService.groovy:227-267). *)
THEOREM PortGetsFree == AudioSpec => []PortIsFreed
BY AudioInvariance, PTL DEF AudioInv

(* Audio that goes unheard is stopped in time (audioFeedCheck, UtilsService.groovy:218-225). *)
THEOREM UnheardStops == AudioSpec => []UnheardIsStopped
BY AudioInvariance, PTL DEF AudioInv
=============================================================================
