---------------------------- MODULE AdHocHosting ----------------------------
(***************************************************************************)
(* The table of the devices, other than cameras, whose web pages the NVR   *)
(* hosts (client/src/app/ad-hoc-hosting-config,                            *)
(* client/src/app/shared/utils.service.ts).  A row is what its fields say, *)
(* taken together.  The controls of the table have values of their own,    *)
(* which a key press copies to the row.  The menu that offers the rows,    *)
(* UtilsService's adHocDevices, is left out.  The user is no guest.        *)
(***************************************************************************)
EXTENDS Naturals, Sequences, SequencesExt

CONSTANTS
  DeviceRows,  \* what a row that is filled in may say
  MaxRows,     \* bound
  MaxSaves     \* bound: updates on their way

VARIABLES
  stored,      \* the list the server keeps
  adState,     \* "left", "loading", "ready"
  devices,     \* the component's rows
  tableForms,  \* the values of the controls
  savedHash,   \* of the rows last loaded or saved: here the rows themselves
  confirmSave, \* the second button is there
  commits,     \* the updates on their way: [rows, answer], none once answered
  pasted,      \* a control was changed with no key, and its row not told
  unsure       \* since the last save begun with none on its way, or the list's loading,
               \* a row was changed during a save, or a save failed

ahVars == <<stored, adState, devices, tableForms, savedHash, confirmSave, commits,
            pasted, unsure>>
saving == <<confirmSave, commits>>

Empty == "empty"          \* a row of a new Device, or with a field that is empty or wrong
Rows == DeviceRows \cup {Empty}
Lists == UNION {[1 .. n -> Rows] : n \in 0 .. MaxRows}
NoHash == <<"noRows">>
AnyInvalid == Empty \in Range(tableForms)
DataHasChanged == devices # savedHash

Init ==
  /\ stored \in Lists
  /\ adState = "left"
  /\ devices = <<>> /\ tableForms = <<>> /\ savedHash = NoHash
  /\ confirmSave = FALSE /\ commits = <<>>
  /\ pasted = FALSE /\ unsure = FALSE

EnterPage ==
  /\ adState = "left" /\ adState' = "loading"
  /\ UNCHANGED <<stored, devices, tableForms, savedHash, saving, pasted, unsure>>

\* loadAdHocDevices.
Loaded ==
  /\ adState = "loading" /\ adState' = "ready"
  /\ devices' = stored /\ tableForms' = stored /\ savedHash' = stored
  /\ UNCHANGED <<stored, saving, pasted, unsure>>

\* One row to be filled in, which counts as a change.
NotLoaded ==
  /\ adState = "loading" /\ adState' = "ready"
  /\ devices' = <<Empty>> /\ tableForms' = <<Empty>> /\ savedHash' = NoHash
  /\ UNCHANGED <<stored, saving, pasted, unsure>>

Changed == unsure' = (unsure \/ commits # <<>>)

\* updateField, at a key.
UpdateField ==
  /\ adState = "ready"
  /\ \E i \in DOMAIN devices, r \in Rows :
       /\ r # tableForms[i]
       /\ tableForms' = [tableForms EXCEPT ![i] = r]
       /\ devices' = [devices EXCEPT ![i] = r]
  /\ Changed
  /\ UNCHANGED <<stored, adState, savedHash, saving, pasted>>

\* With the mouse.
Pasted ==
  /\ adState = "ready"
  /\ \E i \in DOMAIN devices, r \in Rows :
       r # tableForms[i] /\ tableForms' = [tableForms EXCEPT ![i] = r]
  /\ pasted' = TRUE
  /\ UNCHANGED <<stored, adState, devices, savedHash, saving, unsure>>

\* Mutant: the controls are not set up again.
DeleteRowOnly ==
  /\ adState = "ready"
  /\ \E i \in DOMAIN devices : devices' = RemoveAt(devices, i)
  /\ tableForms' = SubSeq(tableForms, 1, Len(devices'))
  /\ Changed
  /\ UNCHANGED <<stored, adState, savedHash, saving, pasted>>

SetUpTableFormControls == tableForms' = devices' /\ pasted' = FALSE

\* Once it is confirmed.  The rows are copied and renumbered.
DeleteDevice ==
  /\ adState = "ready"
  /\ \E i \in DOMAIN devices : devices' = RemoveAt(devices, i)
  /\ SetUpTableFormControls /\ Changed
  /\ UNCHANGED <<stored, adState, savedHash, saving>>

AddDevice ==
  /\ adState = "ready" /\ ~AnyInvalid /\ Len(devices) < MaxRows
  /\ devices' = Append(devices, Empty)
  /\ SetUpTableFormControls /\ Changed
  /\ UNCHANGED <<stored, adState, savedHash, saving>>

\* The first button: what there is to save is looked at here, and not again.
AskSave ==
  /\ adState = "ready" /\ ~confirmSave /\ DataHasChanged /\ ~AnyInvalid
  /\ confirmSave' = TRUE
  /\ UNCHANGED <<stored, adState, devices, tableForms, savedHash, commits, pasted, unsure>>

CancelSave ==
  /\ confirmSave /\ confirmSave' = FALSE
  /\ UNCHANGED <<stored, adState, devices, tableForms, savedHash, commits, pasted, unsure>>

\* The second button: whatever the rows are by now, and whatever is on its way.
CommitConfig ==
  /\ confirmSave /\ confirmSave' = FALSE
  /\ Len(commits) < MaxSaves
  /\ commits' = Append(commits, [rows |-> devices, answer |-> "none"])
  /\ unsure' = (unsure /\ commits # <<>>)
  /\ UNCHANGED <<stored, adState, devices, tableForms, savedHash, pasted>>

\* Written to a file, by the server, which does not look at the rows; a failure may come
\* after that.
Stored ==
  /\ \E i \in DOMAIN commits, answer \in {"ok", "failed"} :
       /\ commits[i].answer = "none"
       /\ commits' = [commits EXCEPT ![i] = [rows |-> <<>>, answer |-> answer]]
       /\ stored' \in {commits[i].rows} \cup IF answer = "failed" THEN {stored} ELSE {}
  /\ UNCHANGED <<adState, devices, tableForms, savedHash, confirmSave, pasted, unsure>>

\* In any order.  The hash is that of the rows as they are now.
Committed ==
  /\ \E i \in DOMAIN commits : commits[i].answer = "ok" /\ commits' = RemoveAt(commits, i)
  /\ savedHash' = devices
  /\ UNCHANGED <<stored, adState, devices, tableForms, confirmSave, pasted, unsure>>

CommitFailed ==
  /\ \E i \in DOMAIN commits : commits[i].answer = "failed" /\ commits' = RemoveAt(commits, i)
  /\ unsure' = TRUE
  /\ UNCHANGED <<stored, adState, devices, tableForms, savedHash, confirmSave, pasted>>

LeavePage ==
  /\ adState = "ready" /\ commits = <<>> /\ adState' = "left"
  /\ devices' = <<>> /\ tableForms' = <<>> /\ savedHash' = NoHash
  /\ confirmSave' = FALSE /\ pasted' = FALSE /\ unsure' = FALSE
  /\ UNCHANGED <<stored, commits>>

Next ==
  \/ EnterPage \/ Loaded \/ NotLoaded \/ UpdateField \/ Pasted
  \/ DeleteDevice \/ AddDevice \/ AskSave \/ CancelSave
  \/ CommitConfig \/ Stored \/ Committed \/ CommitFailed \/ LeavePage

-----------------------------------------------------------------------------

\* A table with nothing to save, and no save on its way, has the rows that the server
\* keeps, whatever was edited, added, deleted and saved, saves that overlap included; and
\* its controls show its rows.  Excepted are a control that was changed with no key, until
\* the controls are set up again (pasted), and the time from a change made during a save,
\* or from a save that failed, to the next save that begins with none on its way (unsure):
\* ad-hoc-hosting-config.component.ts:152 takes the rows as they are at the answer for
\* those that were saved.
SavedAsShown ==
  adState = "ready" =>
    /\ tableForms # devices => pasted
    /\ commits = <<>> /\ ~DataHasChanged /\ ~unsure => devices = stored

=============================================================================
