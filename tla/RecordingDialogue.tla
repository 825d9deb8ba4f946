-------------------------- MODULE RecordingDialogue --------------------------
(***************************************************************************)
(* What the recording set-up dialogue asks of its fields                   *)
(* (client/src/app/config-setup/recording-setup).  ConfigSetup has the     *)
(* keys that it gives to the streams; here are the form, which is made     *)
(* anew by most of the selectors, the mask files and what the button to    *)
(* confirm waits for.                                                      *)
(***************************************************************************)
EXTENDS Naturals

CONSTANTS
  DgCams, DgStreams,   \* the cameras, and the streams that each of them has
  MaskFiles,           \* the names of mask files
  MaxChanges           \* bound: changes made in the dialogues

VARIABLES
  setups,      \* of each camera, the set-up of its recording
  open,        \* the camera whose dialogue is shown
  localCamera, \* the clone of its set-up
  dgForm,      \* the controls: [preamble, mask, sized]
  uploading,   \* of each mask file, how many times it is on its way to the server
  uploaded,    \* those that the server took
  reported,    \* history: those that an error was reported of: they were not sent, because
               \* two cameras shared one at the time, or did not arrive
  changes

dgVars == <<setups, open, localCamera, dgForm, uploading, uploaded, reported, changes>>

NoneKey == "none"
BadName == "bad"   \* of a file that is not a mask file

\* sized: the width, the height and the threshold of a stream are within their limits.
\* items: the simple items of the camera are filled in.
NewSetup ==
  [type |-> "none", motion |-> NoneKey, recording |-> NoneKey, topic |-> FALSE, items |-> FALSE,
   streams |-> [s \in DgStreams |->
                  [mask |-> NoneKey, trigger |-> NoneKey, preamble |-> 0, sized |-> FALSE]]]
Masked(f, s) ==
  [NewSetup EXCEPT !.type = "motionService", !.motion = s,
                   !.streams[s] = [@ EXCEPT !.mask = f, !.sized = TRUE]]

\* getTriggeredStream: where the recording is made.
TriggeredStream(c) ==
  IF c.type = "motionService"
  THEN IF c.motion = NoneKey THEN NoneKey ELSE c.streams[c.motion].trigger
  ELSE c.recording

PreambleDisabled(c) ==
  \/ TriggeredStream(c) = NoneKey
  \/ c.type = "pullPointEventTriggered" /\ ~c.topic

\* getMaskFileName, and checkForMaskFileReUse of the dialogues that are shown.
GetMaskFileName(c) == IF c.motion = NoneKey THEN NoneKey ELSE c.streams[c.motion].mask
CheckForMaskFileReUse(dialogues) ==
  \E c, d \in DOMAIN dialogues :
    /\ c # d /\ GetMaskFileName(dialogues[c]) = GetMaskFileName(dialogues[d])
    /\ GetMaskFileName(dialogues[c]) # NoneKey

\* isValidMaskFileName: what is confirmed of the cameras uses no file twice.
IsValidMaskFileName(name) ==
  \/ name = NoneKey
  \/ name # BadName /\ ~CheckForMaskFileReUse(setups)

FormOf(c) ==
  [preamble |-> IF TriggeredStream(c) = NoneKey THEN 0
                ELSE c.streams[TriggeredStream(c)].preamble,
   mask |-> GetMaskFileName(c),
   sized |-> c.motion # NoneKey /\ c.streams[c.motion].sized]

\* anyInvalid: a control that is disabled is not looked at.
DgAnyInvalid ==
  LET c == localCamera IN
  \/ c.motion # NoneKey /\ (~dgForm.sized \/ ~IsValidMaskFileName(dgForm.mask))
  \/ c.type = "pullPointEventTriggered" /\ c.recording # NoneKey /\ ~c.items
  \/ c.type = "motionService" /\ c.motion = NoneKey

\* Mutant: the form is not asked.
ConfirmDisabledUnasked ==
  \/ localCamera.type \in {"pullPointEventTriggered", "ftpTriggered"} /\
     localCamera.recording = NoneKey
  \/ localCamera.type = "motionService" /\ localCamera.motion = NoneKey

ConfirmDisabled ==
  \/ localCamera.type \in {"pullPointEventTriggered", "ftpTriggered"} /\
     localCamera.recording = NoneKey
  \/ DgAnyInvalid

Init ==
  /\ setups \in [DgCams -> {NewSetup} \cup {Masked(f, s) : f \in MaskFiles, s \in DgStreams}]
  /\ ~CheckForMaskFileReUse(setups)
  /\ open = NoneKey /\ localCamera = NewSetup /\ dgForm = FormOf(NewSetup)
  /\ uploaded = {GetMaskFileName(setups[c]) : c \in DgCams} \ {NoneKey}
  /\ uploading = [f \in MaskFiles |-> 0] /\ reported = {}
  /\ changes = 0

\* toggleRecordingSetupDialogue: one dialogue is shown at a time.
ToggleDialogue ==
  /\ \E c \in DgCams :
       /\ open' = IF open = c THEN NoneKey ELSE c
       /\ localCamera' = setups[c] /\ dgForm' = FormOf(setups[c])
  /\ UNCHANGED <<setups, uploading, uploaded, reported, changes>>

\* A selector: the clone is changed and the form made anew.
SetUp(c) ==
  /\ open # NoneKey /\ changes < MaxChanges
  /\ localCamera' = c /\ dgForm' = FormOf(c)
  /\ changes' = changes + 1
  /\ UNCHANGED <<setups, open, uploading, uploaded, reported>>

\* A field: what was typed is written to the clone.
Typed(c, form) ==
  /\ open # NoneKey /\ changes < MaxChanges
  /\ localCamera' = c /\ dgForm' = form
  /\ changes' = changes + 1
  /\ UNCHANGED <<setups, open, uploading, uploaded, reported>>

SetRecordingType ==
  \E t \in {"none", "motionService", "ftpTriggered", "pullPointEventTriggered"}
             \ {localCamera.type} :
    SetUp([localCamera EXCEPT !.type = t, !.motion = NoneKey, !.recording = NoneKey,
             !.topic = FALSE,
             !.streams = [s \in DgStreams |->
                            [@[s] EXCEPT !.mask = NoneKey, !.trigger = NoneKey]]])

\* Mutant: the form stays as it was.
SelectStreamOnly(s) ==
  /\ open # NoneKey /\ changes < MaxChanges
  /\ localCamera' = [localCamera EXCEPT !.recording = s]
  /\ changes' = changes + 1
  /\ UNCHANGED <<setups, open, dgForm, uploading, uploaded, reported>>

SelectStream(s) == SetUp([localCamera EXCEPT !.recording = s])

SetSelectedStream ==
  /\ \/ localCamera.type = "ftpTriggered"
     \/ localCamera.type = "pullPointEventTriggered" /\ localCamera.topic
  /\ \E s \in DgStreams \cup {NoneKey} : SelectStream(s)

\* The form stays, but shows nothing of the topic.
SetPullPointTopic ==
  /\ localCamera.type = "pullPointEventTriggered"
  /\ Typed([localCamera EXCEPT !.topic = ~@], dgForm)

SetStreamForMotionDetection ==
  /\ localCamera.type = "motionService"
  /\ \E s \in DgStreams \cup {NoneKey} : SetUp([localCamera EXCEPT !.motion = s])

UpdateRecordingTrigger ==
  /\ localCamera.motion # NoneKey
  /\ \E k \in (DgStreams \ {localCamera.motion}) \cup {NoneKey} :
       SetUp([localCamera EXCEPT !.streams =
                [s \in DgStreams |-> [@[s] EXCEPT !.trigger =
                   IF s = localCamera.motion THEN k ELSE NoneKey]]])

UpdatePreambleTime ==
  /\ ~PreambleDisabled(localCamera)
  /\ LET v == 1 - dgForm.preamble IN
     Typed([localCamera EXCEPT !.streams[TriggeredStream(localCamera)].preamble = v],
           [dgForm EXCEPT !.preamble = v])

UpdateVideoSize ==
  /\ localCamera.motion # NoneKey
  /\ Typed([localCamera EXCEPT !.streams[localCamera.motion].sized = ~dgForm.sized],
           [dgForm EXCEPT !.sized = ~@])

UpdateSimpleItem ==
  /\ localCamera.type = "pullPointEventTriggered" /\ localCamera.recording # NoneKey
  /\ Typed([localCamera EXCEPT !.items = ~@], dgForm)

\* The name is written to the clone first; only the dialogue that is shown is compared,
\* and the file is sent if its field is valid.  The name of a file that was not sent
\* stays in the clone, as does the name of one whose answer is not there yet.
UploadMaskFile ==
  /\ open # NoneKey /\ localCamera.motion # NoneKey /\ changes < MaxChanges
  /\ \E f \in MaskFiles \cup {BadName} :
       LET c == [localCamera EXCEPT !.streams[localCamera.motion].mask = f] IN
       IF CheckForMaskFileReUse([d \in {open} |-> c])
       THEN /\ localCamera' = [c EXCEPT !.streams[c.motion].mask = NoneKey]
            /\ UNCHANGED <<dgForm, uploading, reported>>
       ELSE /\ localCamera' = c
            /\ dgForm' = [dgForm EXCEPT !.mask = f]
            /\ IF IsValidMaskFileName(f)
               THEN uploading' = [uploading EXCEPT ![f] = @ + 1] /\ UNCHANGED reported
               ELSE reported' = reported \cup ({f} \ {BadName}) /\ UNCHANGED uploading
  /\ changes' = changes + 1
  /\ UNCHANGED <<setups, open, uploaded>>

\* The answers come whenever they do, to an open dialogue or to none: an error is
\* reported, and the name stays where it is.
Uploaded(f) ==
  /\ uploading[f] > 0
  /\ uploading' = [uploading EXCEPT ![f] = @ - 1]
  /\ UNCHANGED <<setups, open, localCamera, dgForm, changes>>

\* Mutant: an error is not subscribed to.
UploadFailedUnheard ==
  \E f \in MaskFiles : Uploaded(f) /\ UNCHANGED <<uploaded, reported>>

UploadDone ==
  \E f \in MaskFiles :
    Uploaded(f) /\ uploaded' = uploaded \cup {f} /\ UNCHANGED reported
UploadFailed ==
  \E f \in MaskFiles :
    Uploaded(f) /\ reported' = reported \cup {f} /\ UNCHANGED uploaded

ClearMaskFile ==
  /\ localCamera.motion # NoneKey
  /\ Typed([localCamera EXCEPT !.streams[localCamera.motion].mask = NoneKey],
           [dgForm EXCEPT !.mask = NoneKey])

ConfirmChanges ==
  /\ open # NoneKey /\ ~ConfirmDisabled
  /\ setups' = [setups EXCEPT ![open] = localCamera]
  /\ open' = NoneKey
  /\ UNCHANGED <<localCamera, dgForm, uploading, uploaded, reported, changes>>

Next ==
  \/ ToggleDialogue \/ SetRecordingType \/ SetSelectedStream \/ SetPullPointTopic
  \/ SetStreamForMotionDetection \/ UpdateRecordingTrigger \/ UpdatePreambleTime
  \/ UpdateVideoSize \/ UpdateSimpleItem \/ UploadMaskFile \/ UploadDone \/ UploadFailed
  \/ ClearMaskFile \/ ConfirmChanges

-----------------------------------------------------------------------------

\* The fields show what the dialogue would save, whichever selectors were used and in
\* whatever order: the preamble of the stream that records and the mask and the size of
\* the stream that is watched.
ShownIsEdited == open # NoneKey => dgForm = FormOf(localCamera)

\* What the server has, will have, or was said not to have.
Accounted ==
  uploaded \cup {f \in MaskFiles : uploading[f] > 0} \cup reported

\* What was confirmed can be carried out: motion is looked for in a stream of a known size
\* with a mask that the server has or is being sent, and an event that is waited for has a
\* stream to record and the items to be recognised by.  Excepted is a mask that an error
\* was reported of: its name is kept and its field is valid, so that a set-up is confirmed
\* with a mask that the server never had.  One that was not sent because two cameras shared
\* a file is so once they have ceased to share one.
ConfirmedIsComplete ==
  \A c \in DgCams : LET k == setups[c] IN
    /\ k.type = "motionService" =>
         /\ k.motion # NoneKey /\ k.streams[k.motion].sized
         /\ GetMaskFileName(k) \in Accounted \cup {NoneKey}
    /\ k.type \in {"ftpTriggered", "pullPointEventTriggered"} => k.recording # NoneKey
    /\ k.type = "pullPointEventTriggered" => k.items

\* The set-ups of a camera, and that it knows of no mask but those that were given.
Keys == DgStreams \cup {NoneKey}
SetUps ==
  [type : {"none", "motionService", "ftpTriggered", "pullPointEventTriggered"},
   motion : Keys, recording : Keys, topic : BOOLEAN, items : BOOLEAN,
   streams : [DgStreams -> [mask : MaskFiles \cup {NoneKey, BadName}, trigger : Keys,
                            preamble : {0, 1}, sized : BOOLEAN]]]
MasksKnown(c) ==
  \A s \in DgStreams : c.streams[s].mask \in Accounted \cup {NoneKey, BadName}

\* Why they hold: the masks of the clone and of what was confirmed, also those of streams
\* that are not watched, were sent, reported or are no mask files.
IInv ==
  /\ uploading \in [MaskFiles -> Nat]
  /\ setups \in [DgCams -> SetUps] /\ localCamera \in SetUps
  /\ open \in DgCams \cup {NoneKey}
  /\ \A c \in DgCams : MasksKnown(setups[c])
  /\ MasksKnown(localCamera)
  /\ ShownIsEdited /\ ConfirmedIsComplete
=============================================================================
