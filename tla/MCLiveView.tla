----------------------------- MODULE MCLiveView -----------------------------
(***************************************************************************)
(* The parts of the client behind a live page, each alone: they run in     *)
(* workers and worklets of their own, or share no state that the           *)
(* properties tell apart.  A behaviour is one of one part, the others      *)
(* staying as they are at the beginning.                                   *)
(***************************************************************************)
EXTENDS AudioSettings

CONSTANTS
  Frames, MaxPending, MaxErrors, Views, StalledMessages, MaxSetups,
  ArraySize, MaxHardLimit, WorkingHardLimit, InitialMax, InitialWorking, MaxQueue,
  MaxCalls,
  Tabs, IdleSecs, CountDown

ASSUME LiveViewAssumption ==
  /\ {StalledMessages, MaxPending, MaxErrors} \subseteq Nat
  /\ {Frames, MaxSetups, IdleSecs, CountDown} \subseteq Nat \ {0}
  /\ {ArraySize, WorkingHardLimit, MaxHardLimit} \subseteq Nat \ {0}
  /\ WorkingHardLimit < MaxHardLimit
  /\ {InitialMax, InitialWorking} \subseteq Nat

VARIABLES
  part, \* the one that moves
  ws, started, decoder, configSupported, firstKeyFrameReceived, buffer,
  largeBuffers, bufferInUse, pending, noRestart, handed, errors,
  view, setups, audio, timerHandle, videoWorker, audioWorker, messageCount,
  isStalled, warned, up,
  afWs, afDecoder, afStarted, afTimeout, afQuiet, afNoRestart, afPosted,
  arrays, playing, bs, autoLatencyControl, lastAutoLatencyControl, wanted,
  running, processing,
  audioToggle, speakActive, inUse, starting, asked, recorder, abClient, leaked,
  longTimers, delays, guestCalls, stopping, excused,
  page, idleTimeoutActive, idle, isInactivityTimer, seCount, dialog, dismissed,
  isGuest, away, stored, loggedOff

vfVars == <<ws, started, decoder, configSupported, firstKeyFrameReceived, buffer,
            largeBuffers, bufferInUse, pending, noRestart, handed, errors>>
lvVars == <<view, setups, audio, timerHandle, videoWorker, audioWorker, messageCount,
            isStalled, warned, up>>
afVars == <<afWs, afDecoder, afStarted, afTimeout, afQuiet, afNoRestart, afPosted>>
aqVars == <<arrays, playing, bs, autoLatencyControl, lastAutoLatencyControl, wanted,
            running, processing>>
abVars == <<audioToggle, speakActive, inUse, starting, asked, recorder, abClient, leaked,
            longTimers, delays, guestCalls, stopping, excused>>
seVars == <<page, idleTimeoutActive, idle, isInactivityTimer, seCount, dialog, dismissed,
            isGuest, away, stored, loggedOff>>

VF == INSTANCE VideoFeeder
LV == INSTANCE LiveView
AF == INSTANCE AudioFeeder
AQ == INSTANCE AudioQueue
AB == INSTANCE AudioBackchannel WITH client <- abClient
SE == INSTANCE Session WITH count <- seCount

Parts == {"settings", "video", "page", "audio", "queue", "speak", "session"}

PartInit ==
  /\ part \in Parts
  /\ Init /\ VF!Init /\ LV!Init /\ AF!Init /\ AQ!Init /\ AB!Init /\ SE!Init
  /\ part # "settings" => cam = CHOOSE c \in Cams : TRUE
  /\ part # "page" => up
  /\ part # "queue" => wanted
  /\ part # "session" => ~isGuest

PartNext ==
  /\ UNCHANGED part
  /\ \/ part = "settings" /\ Next
        /\ UNCHANGED <<vfVars, lvVars, afVars, aqVars, abVars, seVars>>
     \/ part = "video" /\ VF!Next
        /\ UNCHANGED <<asVars, lvVars, afVars, aqVars, abVars, seVars>>
     \/ part = "page" /\ LV!Next
        /\ UNCHANGED <<asVars, vfVars, afVars, aqVars, abVars, seVars>>
     \/ part = "audio" /\ AF!Next
        /\ UNCHANGED <<asVars, vfVars, lvVars, aqVars, abVars, seVars>>
     \/ part = "queue" /\ AQ!Next
        /\ UNCHANGED <<asVars, vfVars, lvVars, afVars, abVars, seVars>>
     \/ part = "speak" /\ AB!Next
        /\ UNCHANGED <<asVars, vfVars, lvVars, afVars, aqVars, seVars>>
     \/ part = "session" /\ SE!Next
        /\ UNCHANGED <<asVars, vfVars, lvVars, afVars, aqVars, abVars>>

partVars == <<part, asVars, vfVars, lvVars, afVars, aqVars, abVars, seVars>>

\* The time of the session passes where the session is the part.
SessionFairness ==
  \A t \in Tabs : WF_seVars(part = "session" /\ SE!Second(t)) /\ WF_seVars(SE!OnStorage(t))

\* Nothing that the fairness of the others asks for is enabled where they begin.
PartSpec ==
  /\ PartInit /\ [][PartNext]_partVars
  /\ VF!Fairness /\ LV!Fairness /\ AF!Fairness /\ AB!Fairness /\ SessionFairness

-----------------------------------------------------------------------------
(* The properties of the parts, stated where they are defined. *)

(***************************************************************************)
(* What is buffered: VideoFeeder hands on whole frames, through errors and *)
(* configurations that cross; AudioQueue, once measured, is limited, and   *)
(* shortening it leaves something to play.                                 *)
(***************************************************************************)
BuffersHold == VF!IInv /\ VF!WholeFrames /\ AQ!IInv /\ AQ!LatencyLimited /\ AQ!WorkingBelowMax

(***************************************************************************)
(* What runs is watched: a feed of LiveView by the stall timer, the silent *)
(* feed of AudioFeeder by its timeout, and the count down of Session by    *)
(* the user who is warned of it, a live page being counted down never.     *)
(***************************************************************************)
TimersWatch ==
  /\ LV!TypeOK /\ LV!FeedIsWatched
  /\ AF!TimeoutIsArmed /\ AF!SilentAudioIsDropped
  /\ SE!TypeOK /\ SE!CountedWhenIdle /\ SE!Warned /\ SE!LivePageStays

(***************************************************************************)
(* After an error VideoFeeder decodes again, the picture of a LiveView     *)
(* that stays comes back, and an AudioFeeder whose decoder is dead gives   *)
(* up its websocket.                                                       *)
(***************************************************************************)
FeedsRecover == VF!KeepsDecoding /\ LV!PictureComesBack /\ AF!DeadAudioIsDropped

(***************************************************************************)
(* What a user leaves ends: the microphone of AudioBackchannel, and the    *)
(* login of Session in every tab.                                          *)
(***************************************************************************)
NothingIsLeftOn == AB!MicrophoneGoesOff /\ SE!LeftIsLoggedOff
=============================================================================
