---------------------------- MODULE ConfigSetup ----------------------------
(***************************************************************************)
(* One visit of the camera configuration page: the table of cameras and    *)
(* their streams, its buttons and dialogues, the requests it makes, whose  *)
(* answers come while the user goes on, and the question it asks before it *)
(* is left (client/src/app/config-setup, cameras/camera.service.ts).       *)
(***************************************************************************)
EXTENDS Naturals, Sequences, FiniteSets, SequencesExt

CONSTANTS
  Types,        \* RecordingType: "none", "motionService", "ftpTriggered" and
                \* "pullPointEventTriggered", or those of them that are tried
  MaxStreams,   \* the streams that may be configured: 50
  Configurations,  \* that the server may have at first
  SearchResults, \* what a search may find: how many streams each of the devices has
  MaxEdits      \* a bound of the model: edits of the table in one visit

VARIABLES
  cameras,      \* the table: camera<n> is the n-th
  saved,        \* what savedDataHash is the hash of: << >> or <<cameras>>
  server,       \* the configuration that the server has: << >> or <<cameras>>
  local,        \* the recording dialogue's clone: << >> or <<camera>>
  expanded,     \* the camera whose streams are shown, or 0
  popup,        \* the dialogue shown, with the keys it is for
  confirm,      \* the questions shown: of "save", "restore", "new", "lookup"
  loads,        \* loadCameras: [at, cams], "none" if none is under way, "asked", or
                \* "read", with what the server had
  saving,       \* updateCameras under way: << >> or <<what was sent>>
  discovering,  \* an Onvif search is under way
  getting,      \* discoverCameraDetails under way, from the table's footer
  retrying,     \* the same, from the list of failures
  failures,     \* the list of failures is not empty
  downloading,
  confirmed,    \* deactivateConfirmed: the user has agreed to lose the changes
  crossed,      \* loadCameras was answered in the middle of a save, or with an older
                \* configuration than the one saved since
  edits

csVars == <<cameras, saved, server, local, expanded, popup, confirm, loads, saving,
            discovering, getting, retrying, failures, downloading,
            confirmed, crossed, edits>>

requests == <<loads, saving, discovering, getting, retrying>>

-----------------------------------------------------------------------------
(* A camera of the configuration as the client holds it (cameras/Camera.ts): *)
(* a key 'stream<n>' is the number n, and 'none' is 0.                       *)

NoKey == 0

\* Recording: enabled, the camera and stream number in its URLs, and the N of its
\* directory recN.
NoRecording == [on |-> FALSE, src |-> <<0, 0>>, loc |-> 0]

NewStream(key) ==
  [key |-> key, default |-> FALSE, motion |-> FALSE, trigger |-> NoKey,
   rec |-> NoRecording]

\* valid: every form control of the camera and of its streams is.
NewCamera(streams) ==
  [type |-> "none", recordingStream |-> NoKey, motionStream |-> NoKey,
   topic |-> FALSE, valid |-> FALSE, streams |-> streams]

KeysOf(c) == {c.streams[i].key : i \in DOMAIN c.streams}
OnStreams(c, Op(_)) == [c EXCEPT !.streams = [i \in DOMAIN c.streams |->
                                                Op(c.streams[i])]]

-----------------------------------------------------------------------------
(* The recording set-up dialogue edits a clone of a camera, and copies the   *)
(* clone's fields back when it is confirmed (config-setup/recording-setup):  *)
(* what its selectors do to the clone.                                       *)

SetRecordingType(c, t) ==
  [OnStreams(c, LAMBDA s : [s EXCEPT !.trigger = NoKey, !.motion = FALSE])
     EXCEPT !.type = t, !.motionStream = NoKey, !.recordingStream = NoKey,
            !.topic = FALSE]

SetSelectedStream(c, k) == [c EXCEPT !.recordingStream = k]

SetSelectedPullPointRecordingTrigger(c, on) == [c EXCEPT !.topic = on]

SetStreamForMotionDetection(c, k) ==
  [OnStreams(c, LAMBDA s : [s EXCEPT !.motion = (s.key = k)])
     EXCEPT !.motionStream = k]

UpdateRecordingTrigger(c, k) ==
  OnStreams(c, LAMBDA s : [s EXCEPT !.trigger =
                             IF s.key = c.motionStream THEN k ELSE NoKey])

\* Each selector is shown with its type; a stream is not offered to trigger itself.
Edited(c) ==
  {SetRecordingType(c, t) : t \in Types}
  \cup (IF c.type \in {"ftpTriggered", "pullPointEventTriggered"}
        THEN {SetSelectedStream(c, k) : k \in KeysOf(c) \cup {NoKey}} ELSE {})
  \cup (IF c.type = "pullPointEventTriggered"
        THEN {SetSelectedPullPointRecordingTrigger(c, on) : on \in BOOLEAN} ELSE {})
  \cup (IF c.type = "motionService"
        THEN {SetStreamForMotionDetection(c, k) : k \in KeysOf(c) \cup {NoKey}}
        ELSE {})
  \cup (IF c.type = "motionService" /\ c.motionStream # NoKey
        THEN {UpdateRecordingTrigger(c, k) :
                k \in (KeysOf(c) \ {c.motionStream}) \cup {NoKey}}
        ELSE {})

\* confirmButtonDisabledState, anyInvalid
CanConfirm(c) ==
  /\ c.type \in {"pullPointEventTriggered", "ftpTriggered"} =>
       c.recordingStream # NoKey
  /\ c.type = "motionService" =>
       /\ c.motionStream # NoKey
       /\ \E i \in DOMAIN c.streams : c.streams[i].motion

\* confirmChanges: what the dialogue edits is copied, stream by stream with the same
\* key, and what was edited elsewhere since is kept.
ConfirmChanges(c, l) ==
  LET From(s) == {i \in DOMAIN l.streams : l.streams[i].key = s.key}
      Copied(s) == IF From(s) = {} THEN s
                   ELSE LET t == l.streams[CHOOSE i \in From(s) : TRUE]
                        IN  [s EXCEPT !.rec = t.rec, !.motion = t.motion,
                                      !.trigger = t.trigger]
  IN  [OnStreams(c, Copied)
         EXCEPT !.type = l.type, !.motionStream = l.motionStream,
                !.recordingStream = l.recordingStream, !.topic = l.topic]

-----------------------------------------------------------------------------
(* The data *)

\* The streams of the first n - 1 cameras, and of all.
StreamsBefore(cs, n) == UNION {{m} \X DOMAIN cs[m].streams : m \in 1 .. n - 1}
StreamsOf(cs) == StreamsBefore(cs, Len(cs) + 1)
Total(cs) == Cardinality(StreamsOf(cs))

\* Mutant: what recorded is not cleared first.
FixUpCameraKeepingRecordings(c, n, first) ==
  [c EXCEPT !.streams = [i \in DOMAIN c.streams |->
     [c.streams[i] EXCEPT !.key = i,
        !.rec = IF c.recordingStream = c.streams[i].key
                THEN [on |-> TRUE, src |-> <<n, i>>, loc |-> first + i - 1] ELSE @]]]

\* FixUpCameraData, of the camera that becomes camera<n> and whose first stream is
\* the first-th of all: the streams are numbered anew, and what records is worked
\* out from the keys that they have had.
FixUpCamera(c, n, first) ==
  LET S == DOMAIN c.streams
      Records(i) == c.recordingStream # NoKey /\ c.recordingStream = c.streams[i].key
      Detects(i) == ~Records(i) /\ c.streams[i].motion
      Triggers(j, i) == Detects(j) /\ c.streams[j].trigger = c.streams[i].key
      \* the recording's URLs: of the new number, or of the key in the trigger
      Number(i) ==
        IF (Records(i) \/ Detects(i)) /\ ~\E j \in S : j > i /\ Triggers(j, i)
        THEN i ELSE c.streams[i].key
      Rec(i) ==
        IF Records(i) \/ Detects(i) \/ \E j \in S : Triggers(j, i)
        THEN [on |-> TRUE, src |-> <<n, Number(i)>>, loc |-> first + i - 1]
        ELSE [c.streams[i].rec EXCEPT !.on = FALSE]
  IN  [c EXCEPT !.streams = [i \in S |->
        [c.streams[i] EXCEPT !.key = i, !.rec = Rec(i),
                             !.trigger = IF Records(i) THEN NoKey ELSE @]]]

FixUpCameraData(cs) ==
  [n \in DOMAIN cs |-> FixUpCamera(cs[n], n, 1 + Cardinality(StreamsBefore(cs, n)))]

\* A camera with one stream, which is its default on the multi camera display.
Single == NewCamera(<<[NewStream(1) EXCEPT !.default = TRUE]>>)

\* What the server's Onvif discovery gives for a device: one default, and the last
\* stream, the one of lowest resolution.
Device(n) ==
  [NewCamera([i \in 1 .. n |-> [NewStream(i) EXCEPT !.default = (i = n)]])
     EXCEPT !.valid = TRUE]

\* Mutant: the default goes with the stream that was it.
DeleteStreamAlone(c, i) ==
  [c EXCEPT !.streams = RemoveAt(c.streams, i)]

DeleteStream(c, i) ==
  LET rest == RemoveAt(c.streams, i)
      Kept(j) ==
        [rest[j] EXCEPT
           !.default = @ \/ (c.streams[i].default /\ j = 1),
           !.trigger = IF rest[j].motion THEN NoKey ELSE @]
  IN  [c EXCEPT !.streams = [j \in DOMAIN rest |-> Kept(j)]]

SetDefaultOnMultiDisplayStatus(c, i) ==
  [c EXCEPT !.streams = [j \in DOMAIN c.streams |->
                           [c.streams[j] EXCEPT !.default = (j = i)]]]

AnyInvalid == \E n \in DOMAIN cameras : ~cameras[n].valid
DataHasChanged == saved # <<cameras>>

StreamIsUsed(c, i) ==
  \/ c.recordingStream = c.streams[i].key
  \/ c.streams[i].motion
  \/ \E j \in DOMAIN c.streams : c.streams[j].trigger = c.streams[i].key

-----------------------------------------------------------------------------
(* A camera in its table *)

Stream ==
  [key : Nat, default : BOOLEAN, motion : BOOLEAN, trigger : Nat,
   rec : [on : BOOLEAN, src : Nat \X Nat, loc : Nat]]
Camera ==
  [type : Types \cup {"none"}, recordingStream : Nat, motionStream : Nat,
   topic : BOOLEAN, valid : BOOLEAN,
   streams : Seq(Stream)]

Numbered(c) == \A i \in DOMAIN c.streams : c.streams[i].key = i

QuietUnlessSetUp(c) ==
  c.type = "none" =>
    c.recordingStream = NoKey /\ \A i \in DOMAIN c.streams : ~c.streams[i].motion

HasOneDefault(c) ==
  \E i \in DOMAIN c.streams : \A j \in DOMAIN c.streams : c.streams[j].default <=> j = i

\* What the server has at first is what the page gave it in an earlier visit.
ASSUME ConfigurationsAssumption ==
  /\ MaxStreams \in Nat /\ MaxEdits \in Nat
  /\ SearchResults \subseteq Seq(Nat \ {0})
  /\ \A cs \in Configurations :
       /\ cs \in Seq(Camera) /\ FixUpCameraData(cs) = cs
       /\ \A n \in DOMAIN cs :
            Numbered(cs[n]) /\ QuietUnlessSetUp(cs[n]) /\ HasOneDefault(cs[n])

-----------------------------------------------------------------------------
(* What is shown *)

TableShown ==
  ~downloading /\ saving = << >> /\ ~discovering
FooterShown == TableShown /\ ~getting

None == <<"none">>
NoLoad == [at |-> "none", cams |-> << >>]
Asked == [at |-> "asked", cams |-> << >>]
RecordingSetupOf(n) == popup = <<"recording", n>>

Toggled(p) == IF popup = p THEN None ELSE p

\* An edit of the table, which FixUpCameraData may follow.  Rows are made again when
\* the cameras are others than before, and a recording dialogue with them.
Rows(cs) ==
  local' = IF popup[1] = "recording" /\ popup[2] \in DOMAIN cs
           THEN <<cs[popup[2]]>> ELSE << >>

Shows(cs) == cameras' = cs /\ Rows(cs)

Edit(cs) == edits < MaxEdits /\ edits' = edits + 1 /\ Shows(cs)

Quiet == UNCHANGED <<saved, server, confirmed, crossed, downloading, failures>>

\* The cameras are other ones than those that the rows were opened for.
Replaced(cs) == Shows(cs) /\ expanded' = 0

-----------------------------------------------------------------------------
(* The table *)

\* updateCamField, updateStreamField, updateAudioEncoding, toggleBackChannelAudio,
\* updateCredentials: a field, which makes its form control valid or not.
UpdateField ==
  /\ TableShown
  /\ \E n \in DOMAIN cameras, v \in BOOLEAN :
       /\ edits < MaxEdits /\ edits' = edits + 1
       /\ cameras' = [cameras EXCEPT ![n].valid = v]
  /\ Quiet /\ UNCHANGED <<expanded, local, popup, confirm, requests>>

SetDefault ==
  /\ TableShown
  /\ expanded # 0
  /\ \E i \in DOMAIN cameras[expanded].streams :
       /\ ~cameras[expanded].streams[i].default
       /\ edits < MaxEdits /\ edits' = edits + 1
       /\ cameras' = [cameras EXCEPT ![expanded] =
                        SetDefaultOnMultiDisplayStatus(@, i)]
  /\ Quiet /\ UNCHANGED <<expanded, local, popup, confirm, requests>>

Move ==
  /\ TableShown /\ ~AnyInvalid /\ confirm \cap {"new", "lookup"} = {}
  /\ \E n \in 1 .. Len(cameras) - 1 :
       /\ Edit(FixUpCameraData([cameras EXCEPT ![n] = cameras[n + 1],
                                               ![n + 1] = cameras[n]]))
       /\ expanded' = CASE expanded = n -> n + 1 [] expanded = n + 1 -> n
                        [] OTHER -> expanded
  /\ Quiet /\ UNCHANGED <<popup, confirm, requests>>

\* toggle: the streams of a camera.
Expand ==
  /\ TableShown
  /\ \E n \in DOMAIN cameras : expanded' = IF expanded = n THEN 0 ELSE n
  /\ IF popup[1] \in {"deleteStream", "deleteCamera", "recording"}
     THEN popup' = None /\ local' = << >> ELSE UNCHANGED <<popup, local>>
  /\ Quiet /\ UNCHANGED <<cameras, confirm, requests, edits>>

\* The toggles: allOff, then the one that was asked for, unless it was shown.  The
\* recording dialogue is made with a clone of its camera.
Toggle ==
  /\ TableShown
  /\ \/ \E n \in DOMAIN cameras :
          \/ /\ popup' = Toggled(<<"recording", n>>)
             /\ local' = IF RecordingSetupOf(n) THEN << >> ELSE <<cameras[n]>>
          \/ /\ Len(cameras) > 1 /\ confirm \cap {"save", "new"} = {}
             /\ ~RecordingSetupOf(n)
             /\ popup' = Toggled(<<"deleteCamera", n>>) /\ local' = << >>
          \/ /\ expanded = n /\ Len(cameras[n].streams) > 1 /\ confirm \cap {"save", "new"} = {}
             /\ ~RecordingSetupOf(n)
             /\ \E i \in DOMAIN cameras[n].streams :
                  /\ ~StreamIsUsed(cameras[n], i)
                  /\ popup' = Toggled(<<"deleteStream", n, i>>) /\ local' = << >>
     \/ /\ FooterShown /\ ~AnyInvalid /\ confirm \cap {"save", "new", "lookup"} = {}
        /\ Total(cameras) < MaxStreams
        /\ popup' = Toggled(<<"addCamera">>) /\ local' = << >>
  /\ Quiet /\ UNCHANGED <<expanded, cameras, confirm, requests, edits>>

DeleteCamera ==
  /\ TableShown /\ popup[1] = "deleteCamera"
  /\ LET cs == IF popup[2] \in DOMAIN cameras THEN RemoveAt(cameras, popup[2])
               ELSE cameras
     IN  /\ edits < MaxEdits /\ edits' = edits + 1
         /\ cameras' = FixUpCameraData(cs)
         /\ expanded' = CASE expanded = popup[2] -> 0
                          [] expanded > popup[2] -> expanded - 1
                          [] OTHER -> expanded
  /\ popup' = None /\ local' = << >>
  /\ Quiet /\ UNCHANGED <<confirm, requests>>

\* The confirmation is shown where the row has its keys, if the row is shown.
DeleteAStream ==
  /\ TableShown /\ popup[1] = "deleteStream"
  /\ popup[2] = expanded /\ popup[3] \in DOMAIN cameras[expanded].streams
  /\ edits < MaxEdits /\ edits' = edits + 1
  /\ cameras' = FixUpCameraData([cameras EXCEPT ![popup[2]] =
                                   DeleteStream(@, popup[3])])
  /\ popup' = None /\ local' = << >>
  /\ Quiet /\ UNCHANGED <<expanded, confirm, requests>>

AddCamera ==
  /\ FooterShown /\ ~AnyInvalid /\ confirm \cap {"save", "new", "lookup"} = {}
  /\ Total(cameras) < MaxStreams
  /\ Edit(FixUpCameraData(Append(cameras, Single)))
  /\ Quiet /\ UNCHANGED <<expanded, popup, confirm, requests>>

AddStream ==
  /\ TableShown /\ ~AnyInvalid /\ confirm \cap {"save", "new"} = {}
  /\ Total(cameras) < MaxStreams
  /\ expanded # 0
  /\ edits < MaxEdits /\ edits' = edits + 1
  /\ cameras' = FixUpCameraData([cameras EXCEPT
                  ![expanded].streams = Append(@, NewStream(Len(@) + 1)),
                  ![expanded].valid = FALSE])
  /\ Quiet /\ UNCHANGED <<expanded, local, popup, confirm, requests>>

-----------------------------------------------------------------------------
(* The recording dialogue *)

EditRecording ==
  /\ TableShown /\ local # << >>
  /\ edits < MaxEdits /\ edits' = edits + 1
  /\ \E l \in Edited(local[1]) : l # local[1] /\ local' = <<l>>
  /\ Quiet /\ UNCHANGED <<expanded, cameras, popup, confirm, requests>>

ConfirmRecording ==
  /\ TableShown /\ local # << >> /\ CanConfirm(local[1])
  /\ cameras' = [cameras EXCEPT ![popup[2]] = ConfirmChanges(@, local[1])]
  /\ popup' = None /\ local' = << >>
  /\ Quiet /\ UNCHANGED <<expanded, confirm, requests, edits>>

-----------------------------------------------------------------------------
(* The questions of the footer, and what is done when they are confirmed *)

Ask ==
  /\ FooterShown
  /\ \/ /\ confirm \cap {"new", "lookup", "save"} = {} /\ ~AnyInvalid
        /\ confirm' = confirm \cup {"new"} /\ popup' = None /\ local' = << >>
     \/ /\ confirm \cap {"new", "lookup", "save"} = {}
        /\ confirm' = confirm \cup {"lookup"} /\ popup' = None /\ local' = << >>
     \/ /\ confirm = {} /\ DataHasChanged
        /\ confirm' = {"restore"} /\ UNCHANGED <<popup, local>>
     \/ /\ confirm = {} /\ DataHasChanged /\ ~AnyInvalid
        /\ confirm' = {"save"} /\ UNCHANGED <<popup, local>>
  /\ Quiet /\ UNCHANGED <<expanded, cameras, requests, edits>>

Cancel ==
  /\ FooterShown
  /\ \E q \in confirm : confirm' = confirm \ {q}
  /\ Quiet /\ UNCHANGED <<expanded, cameras, local, popup, requests, edits>>

CreateNew ==
  /\ FooterShown /\ "new" \in confirm
  /\ confirm' = confirm \ {"new"}
  /\ Edit(FixUpCameraData(<<Single>>)) /\ expanded' = 0
  /\ Quiet /\ UNCHANGED <<popup, requests>>

\* The form may have become invalid since the question was asked: it is sent.  The
\* table goes, and with it a list of failures that waits for an answer.
CommitConfig ==
  /\ FooterShown /\ "save" \in confirm
  /\ confirm' = confirm \ {"save"}
  /\ cameras' = FixUpCameraData(cameras) /\ local' = << >>
  /\ saving' = <<cameras'>>
  /\ retrying' = FALSE
  /\ Quiet /\ UNCHANGED <<expanded, popup, loads, discovering, getting, edits>>

\* Mutant: the hash is brought up to date by an error too.
CommitDoneAnyhow ==
  /\ saving # << >>
  /\ saving' = << >> /\ server' \in {server, saving} /\ saved' = <<cameras>>
  /\ UNCHANGED <<expanded, cameras, local, popup, confirm, loads, discovering, getting,
                 retrying, failures, downloading, confirmed, crossed, edits>>

\* The server has it, or gives an error and has it not.
CommitDone ==
  /\ saving # << >>
  /\ saving' = << >>
  /\ \/ /\ server' = saving
        /\ saved' = <<cameras>>
     \/ UNCHANGED <<server, saved>>
  /\ UNCHANGED <<expanded, cameras, local, popup, confirm, loads, discovering, getting, retrying,
                 failures, downloading, confirmed, crossed, edits>>

RestoreConfig ==
  /\ FooterShown /\ "restore" \in confirm /\ loads.at = "none"
  /\ confirm' = confirm \ {"restore"}
  /\ loads' = Asked
  /\ Quiet
  /\ UNCHANGED <<expanded, cameras, local, popup, saving, discovering, getting, retrying,
                 edits>>

\* loadCameras, by ngOnInit: the server reads its configuration, and some time later
\* the answer comes.
LoadRead ==
  /\ loads = Asked
  /\ loads' = [at |-> "read", cams |-> server]
  /\ Quiet
  /\ UNCHANGED <<expanded, cameras, local, popup, confirm, saving, discovering, getting,
                 retrying, edits>>

LoadDone ==
  /\ loads.at = "read"
  /\ loads' = NoLoad /\ downloading' = FALSE
  /\ \/ /\ loads.cams # << >>
        /\ Replaced(FixUpCameraData(loads.cams[1]))
        /\ saved' = <<cameras'>>
     \/ /\ Replaced(FixUpCameraData(<<Single>>))   \* absent, or the request failed
        /\ UNCHANGED saved
  /\ crossed' = (crossed \/ saving # << >> \/ loads.cams # server)
  /\ UNCHANGED <<server, popup, confirm, saving, discovering, getting, retrying,
                 failures, confirmed, edits>>

StartOnvifSearch ==
  /\ FooterShown /\ "lookup" \in confirm
  /\ confirm' = confirm \ {"lookup"}
  /\ discovering' = TRUE /\ retrying' = FALSE /\ failures' = FALSE
  /\ local' = << >>
  /\ UNCHANGED <<expanded, cameras, saved, server, popup, loads, saving, getting,
                 downloading, confirmed, crossed, edits>>

DiscoverDone ==
  /\ discovering
  /\ discovering' = FALSE
  /\ \/ \E ns \in SearchResults :
          LET found == [k \in DOMAIN ns |-> Device(ns[k])]
          IN  /\ Total(found) <= MaxStreams
              /\ edits < MaxEdits /\ edits' = edits + 1
              /\ Replaced(FixUpCameraData(found))
              /\ failures' \in BOOLEAN
     \/ UNCHANGED <<cameras, local, expanded, failures, edits>>
  /\ UNCHANGED <<saved, server, popup, confirm, loads, saving, getting, retrying,
                 downloading, confirmed, crossed>>

\* A device's details are asked for by the dialogue, or for a device that failed.
StartFindCameraDetails ==
  /\ TableShown
  /\ \/ /\ FooterShown /\ popup = <<"addCamera">>
        /\ getting' = TRUE /\ popup' = None /\ UNCHANGED retrying
     \/ /\ failures /\ ~retrying /\ retrying' = TRUE
        /\ UNCHANGED <<getting, popup>>
  /\ Quiet
  /\ UNCHANGED <<expanded, cameras, local, confirm, loads, saving, discovering,
                 edits>>

\* The limit on the streams is not looked at again.
DetailsDone ==
  /\ \/ getting /\ getting' = FALSE /\ UNCHANGED retrying
     \/ retrying /\ retrying' = FALSE /\ UNCHANGED getting
  /\ \/ /\ edits < MaxEdits /\ edits' = edits + 1
        /\ Shows(FixUpCameraData(Append(cameras, Device(1))))
        /\ failures' \in IF retrying' = retrying THEN {failures} ELSE BOOLEAN
     \/ UNCHANGED <<cameras, local, edits>> /\ failures' \in {failures, TRUE}
  /\ UNCHANGED <<expanded, saved, server, popup, confirm, loads, saving, discovering,
                 downloading, confirmed, crossed>>

-----------------------------------------------------------------------------
(* Leaving the page *)

\* The question, and its answer.  Having said yes the user may stay after all, since
\* the browser asks too; and is not asked again.
ConfirmDeactivate ==
  /\ DataHasChanged \/ AnyInvalid
  /\ ~confirmed /\ confirmed' = TRUE
  /\ UNCHANGED <<cameras, saved, server, local, expanded, popup, confirm, requests,
                 failures, downloading, crossed, edits>>

\* canDeactivate.  The server may still get what was being saved; the page is then
\* entered again.
CanDeactivate ==
  /\ (~DataHasChanged /\ ~AnyInvalid) \/ confirmed
  /\ server' \in {server} \cup (IF saving = << >> THEN {} ELSE {saving})
  /\ cameras' = << >> /\ saved' = << >> /\ local' = << >>
  /\ expanded' = 0 /\ popup' = None /\ confirm' = {}
  /\ loads' = Asked /\ saving' = << >> /\ downloading' = TRUE
  /\ discovering' = FALSE /\ getting' = FALSE /\ retrying' = FALSE
  /\ failures' = FALSE /\ confirmed' = FALSE /\ crossed' = FALSE
  /\ UNCHANGED edits

-----------------------------------------------------------------------------

Init ==
  /\ cameras = << >> /\ saved = << >> /\ local = << >>
  /\ expanded = 0 /\ popup = None /\ confirm = {}
  /\ loads = Asked /\ saving = << >> /\ downloading = TRUE
  /\ discovering = FALSE /\ getting = FALSE /\ retrying = FALSE
  /\ failures = FALSE /\ confirmed = FALSE /\ crossed = FALSE
  /\ server \in {<< >>} \cup {<<cs>> : cs \in Configurations}
  /\ edits = 0

Next ==
  \/ UpdateField \/ SetDefault \/ Move \/ Expand \/ Toggle \/ DeleteCamera \/ DeleteAStream
  \/ AddCamera \/ AddStream \/ EditRecording \/ ConfirmRecording
  \/ Ask \/ Cancel \/ CreateNew
  \/ CommitConfig \/ CommitDone \/ RestoreConfig \/ LoadRead \/ LoadDone
  \/ StartOnvifSearch \/ DiscoverDone \/ StartFindCameraDetails \/ DetailsDone
  \/ CanDeactivate \/ ConfirmDeactivate

-----------------------------------------------------------------------------

\* There is always exactly one stream of a camera that is its default on the multi
\* camera display (config-setup.component.ts:633), whatever is added, deleted, found
\* or restored.
OneDefault ==
  \A n \in DOMAIN cameras :
    Cardinality({i \in DOMAIN cameras[n].streams : cameras[n].streams[i].default}) = 1

Recordings(cs) == {r \in StreamsOf(cs) : cs[r[1]].streams[r[2]].rec.on}

\* In what the server is given, a stream records only if its camera's set-up says so,
\* what it records is itself, and no two recordings share a directory.
RecordingsSaved ==
  server # << >> =>
    LET cs == server[1]
        rec(r) == cs[r[1]].streams[r[2]].rec
    IN  \A r \in Recordings(cs) :
          /\ cs[r[1]].type # "none"
          /\ rec(r).src = r
          /\ \A q \in Recordings(cs) : q # r => rec(q).loc # rec(r).loc

\* When the page may be left without a question, the server has what the page shows,
\* unless an answer has crossed a save.
LeftWhenSaved ==
  (~DataHasChanged /\ ~crossed /\ saving = << >>) => server = <<cameras>>

\* Why they hold.  The keys of every camera of the table are its streams' places; one is
\* the default; and without a recording set-up nothing of it is there to be worked out.
WellFormed(cs) ==
  /\ cs \in Seq(Camera)
  /\ \A n \in DOMAIN cs :
       Numbered(cs[n]) /\ QuietUnlessSetUp(cs[n]) /\ HasOneDefault(cs[n])

\* What has been through FixUpCameraData with its keys in place is not changed by it.
Kept(at) ==
  /\ at \in Seq(Seq(Camera)) /\ Len(at) <= 1
  /\ at # << >> => WellFormed(at[1]) /\ FixUpCameraData(at[1]) = at[1]

\* The clone is of the camera of its row, and what the camera has more than the clone was
\* added since.
CloneOfItsRow ==
  /\ local \in Seq(Camera) /\ Len(local) <= 1
  /\ local # << >> =>
       /\ popup[1] = "recording" /\ popup[2] \in DOMAIN cameras
       /\ Numbered(local[1]) /\ QuietUnlessSetUp(local[1])
       /\ LET ss == cameras[popup[2]].streams IN
          /\ Len(local[1].streams) <= Len(ss)
          /\ \A i \in DOMAIN ss : i > Len(local[1].streams) => ~ss[i].motion

\* A save is of what the table shows, which nothing but a load changes before its answer.
SavesTheTable ==
  saving # << >> =>
    /\ ~discovering /\ ~getting /\ ~retrying
    /\ crossed \/ saving = <<cameras>>

RowsAreThere ==
  /\ expanded \in 0 .. Len(cameras)
  /\ popup[1] = "deleteCamera" => popup[2] \in Nat \ {0}
  /\ popup[1] = "deleteStream" /\ expanded # 0 => Len(cameras[expanded].streams) > 1

IInv ==
  /\ WellFormed(cameras)
  /\ Kept(server) /\ Kept(saving) /\ Kept(loads.cams)
  /\ CloneOfItsRow /\ SavesTheTable /\ RowsAreThere
  /\ ~crossed /\ saved # << >> => server = saved
=============================================================================
