-------------------------- MODULE CameraCredentials --------------------------
(***************************************************************************)
(* The credentials that the configuration page takes: those of a camera,   *)
(* which are encrypted here and kept with it, those for Onvif, which the   *)
(* server keeps; and the snapshot of a camera, which uses what is kept     *)
(* with it (client/src/app/config-setup/camera-credentials,                *)
(* config-setup.component.ts, cameras/camera.service.ts).                  *)
(***************************************************************************)
EXTENDS Naturals, Sequences, SequencesExt

CONSTANTS
  Cameras,        \* the rows of the table
  WithUri,        \* those whose camera has a URI for snapshots
  Passwords,      \* what is entered
  MaxAsked        \* bound: dialogues confirmed and snapshots asked for

VARIABLES
  publicKey,      \* "asked", "known" or "missing"
  cred,           \* of each row, the camera's credentials, or Unset
  object,         \* of each row, which camera object it is
  dialogue,       \* the row whose dialogue is shown, Onvif or NoRow
  encrypting,     \* confirmed, and being encrypted
  confirmed,      \* of the rows' objects, what was confirmed for them
  onvifSet,       \* the server has Onvif credentials
  haveOnvif,      \* haveOnvifCredentials of the page
  onvifCalls,     \* setOnvifCredentials and haveOnvifCredentials under way
  snapShotKey,    \* the row that shows a snapshot, or NoRow
  snapshotLoading,
  snapshot,       \* the one that would be shown: of which row, with which credentials
  asked,          \* getSnapshot under way
  crossing,       \* the row was changed, or pressed again, with an answer under way
  taken, shots

ccVars == <<publicKey, cred, object, dialogue, encrypting, confirmed, onvifSet, haveOnvif,
            onvifCalls, snapShotKey, snapshotLoading, snapshot, asked, crossing, taken, shots>>
snapshotVars == <<snapShotKey, snapshotLoading, snapshot, asked, crossing, shots>>
onvifVars == <<onvifSet, haveOnvif, onvifCalls>>

Unset == "unset"
NoRow == "none"
Onvif == "onvif"
NoShot == [row |-> NoRow, cred |-> Unset]

Init ==
  /\ publicKey = "asked"
  /\ cred = [c \in Cameras |-> Unset] /\ object = [c \in Cameras |-> 0]
  /\ dialogue = NoRow /\ encrypting = {} /\ confirmed = {}
  /\ onvifSet \in BOOLEAN /\ haveOnvif = FALSE
  /\ onvifCalls = <<"have">>
  /\ snapShotKey = NoRow /\ snapshotLoading = FALSE /\ snapshot = NoShot
  /\ asked = {} /\ crossing = FALSE /\ taken = 0 /\ shots = 0

\* getPublicKey is asked for once, when the service is made.
GotPublicKey ==
  /\ publicKey = "asked" /\ publicKey' \in {"known", "missing"}
  /\ UNCHANGED <<cred, object, dialogue, encrypting, confirmed, taken, onvifVars, snapshotVars>>

-----------------------------------------------------------------------------
(* The dialogue *)

\* importKey needs the server's key.
CanEncrypt == publicKey = "known"

Gone(es) == {[e EXCEPT !.shown = FALSE] : e \in es}

\* Another dialogue, or none, is shown, whatever the one before waits for.
Toggle ==
  /\ \E d \in Cameras \cup {Onvif} : dialogue' = IF dialogue = d THEN NoRow ELSE d
  /\ encrypting' = Gone(encrypting)
  /\ UNCHANGED <<publicKey, cred, object, confirmed, taken, onvifVars, snapshotVars>>

\* updateCredentials for a camera: its object is looked up first, and has what was
\* encrypted some time later.  Without a public key there is an exception, and the
\* dialogue stays.
UpdateCredentials ==
  /\ dialogue \in Cameras /\ taken + shots < MaxAsked /\ taken' = taken + 1
  /\ \E p \in Passwords :
       IF CanEncrypt
       THEN /\ encrypting' = encrypting \cup
                 {[row |-> dialogue, object |-> object[dialogue], cred |-> p, shown |-> TRUE]}
            /\ confirmed' = confirmed \cup {<<dialogue, object[dialogue], p>>}
       ELSE UNCHANGED <<encrypting, confirmed>>
  /\ UNCHANGED <<publicKey, cred, object, dialogue, onvifVars, snapshotVars>>

\* Mutant: the camera is looked up when the encryption is done.
KeptLate(e) == cred' = [cred EXCEPT ![e.row] = e.cred]

\* An object that is in the table no more has it in vain.
Kept(e) ==
  cred' = IF object[e.row] = e.object THEN [cred EXCEPT ![e.row] = e.cred] ELSE cred

\* The dialogue hides itself, if it is the one that is shown.
Encrypted ==
  /\ \E e \in encrypting :
       /\ Kept(e)
       /\ IF e.shown THEN dialogue' = NoRow /\ encrypting' = Gone(encrypting \ {e})
          ELSE UNCHANGED dialogue /\ encrypting' = encrypting \ {e}
  /\ UNCHANGED <<publicKey, object, confirmed, taken, onvifVars, snapshotVars>>

\* updateCredentials for Onvif: the dialogue is hidden at once.
SetOnvifCredentials ==
  /\ dialogue = Onvif /\ taken + shots < MaxAsked /\ taken' = taken + 1
  /\ dialogue' = NoRow /\ onvifCalls' = Append(onvifCalls, "set")
  /\ UNCHANGED <<publicKey, cred, object, encrypting, confirmed, onvifSet, haveOnvif,
                 snapshotVars>>

\* The answer is to be followed by haveOnvifCredentials; but the component is no more,
\* and its output goes nowhere.  Or the server could not write them.
SetDone ==
  /\ \E i \in DOMAIN onvifCalls :
       /\ onvifCalls[i] = "set"
       /\ onvifCalls' = RemoveAt(onvifCalls, i)
  /\ onvifSet' \in {onvifSet, TRUE}
  /\ UNCHANGED <<publicKey, cred, object, dialogue, encrypting, confirmed, haveOnvif, taken,
                 snapshotVars>>

\* checkIfOnvifCredentialsPresent, when the page is entered: what the server has, or an
\* error message.
HaveDone ==
  /\ \E i \in DOMAIN onvifCalls :
       /\ onvifCalls[i] = "have"
       /\ onvifCalls' = RemoveAt(onvifCalls, i)
  /\ haveOnvif' \in {haveOnvif, onvifSet}
  /\ UNCHANGED <<publicKey, cred, object, dialogue, encrypting, confirmed, onvifSet, taken,
                 snapshotVars>>

-----------------------------------------------------------------------------
(* The snapshot *)

\* What is sent is what the camera has now.
Request(c) == [row |-> c, cred |-> cred[c]]

\* A row is pressed: its snapshot is shown, or hidden if it was.  The wait is shown even
\* if nothing is asked for.
GetSnapshot ==
  /\ \E c \in Cameras :
       /\ snapshotLoading' = TRUE
       /\ CASE snapShotKey = c ->
                 snapShotKey' = NoRow /\ UNCHANGED <<asked, crossing, shots>>
            [] snapShotKey # c /\ c \notin WithUri ->
                 UNCHANGED <<snapShotKey, asked, crossing, shots>>
            [] OTHER ->
                 /\ snapShotKey' = c
                 /\ taken + shots < MaxAsked /\ shots' = shots + 1
                 /\ asked' = asked \cup {Request(c)}
                 /\ crossing' = (asked # {})
  /\ UNCHANGED <<publicKey, cred, object, dialogue, encrypting, confirmed, taken, snapshot,
                 onvifVars>>

GotSnapshot ==
  /\ \E s \in asked : snapshot' = s /\ asked' = asked \ {s}
  /\ snapshotLoading' = FALSE
  /\ UNCHANGED <<publicKey, cred, object, dialogue, encrypting, confirmed, taken, snapShotKey,
                 crossing, shots, onvifVars>>

\* Mutant: the row goes on showing what there is.
SnapshotFailedStays ==
  /\ \E s \in asked : asked' = asked \ {s}
  /\ snapshotLoading' = FALSE
  /\ UNCHANGED <<publicKey, cred, object, dialogue, encrypting, confirmed, taken, snapShotKey,
                 snapshot, crossing, shots, onvifVars>>

SnapshotFailed ==
  /\ \E s \in asked : asked' = asked \ {s}
  /\ snapshotLoading' = FALSE /\ snapShotKey' = NoRow
  /\ UNCHANGED <<publicKey, cred, object, dialogue, encrypting, confirmed, taken, snapshot,
                 crossing, shots, onvifVars>>

-----------------------------------------------------------------------------

\* A search, or the server's configuration (ngOnInit again), puts another camera into a
\* row.  The rows are made anew, and with them the dialogue that is shown.
ReplaceCamera ==
  /\ \E c \in Cameras :
       /\ object[c] = 0 /\ object' = [object EXCEPT ![c] = 1]
       /\ cred' = [cred EXCEPT ![c] = Unset]
       /\ crossing' = (crossing \/ snapShotKey = c)
  /\ encrypting' = Gone(encrypting)
  /\ onvifCalls' \in {onvifCalls, Append(onvifCalls, "have")}
  /\ UNCHANGED <<publicKey, dialogue, confirmed, taken, onvifSet, haveOnvif, snapShotKey,
                 snapshotLoading, snapshot, asked, shots>>

Next ==
  \/ GotPublicKey \/ Toggle \/ UpdateCredentials \/ Encrypted
  \/ SetOnvifCredentials \/ SetDone \/ HaveDone
  \/ GetSnapshot \/ GotSnapshot \/ SnapshotFailed \/ ReplaceCamera

-----------------------------------------------------------------------------

Shot == [row : Cameras \cup {NoRow}, cred : Passwords \cup {Unset}]

TypeOK ==
  /\ publicKey \in {"asked", "known", "missing"}
  /\ cred \in [Cameras -> Passwords \cup {Unset}] /\ object \in [Cameras -> {0, 1}]
  /\ dialogue \in Cameras \cup {Onvif, NoRow}
  /\ encrypting \subseteq [row : Cameras, object : {0, 1}, cred : Passwords, shown : BOOLEAN]
  /\ confirmed \subseteq Cameras \X {0, 1} \X Passwords
  /\ onvifSet \in BOOLEAN /\ haveOnvif \in BOOLEAN /\ onvifCalls \in Seq({"have", "set"})
  /\ snapShotKey \in Cameras \cup {NoRow} /\ snapshotLoading \in BOOLEAN
  /\ snapshot \in Shot /\ asked \subseteq Shot
  /\ crossing \in BOOLEAN /\ taken \in Nat /\ shots \in Nat

\* A camera has credentials that were confirmed for it, and not for the camera that its
\* row had before; and when what was confirmed for it has been encrypted, it has some
\* (updateCredentials).
KeptForItsCamera ==
  \A c \in Cameras :
    /\ cred[c] # Unset => <<c, object[c], cred[c]>> \in confirmed
    /\ (\E p \in Passwords : <<c, object[c], p>> \in confirmed) =>
         \/ cred[c] # Unset
         \/ \E e \in encrypting : e.row = c /\ e.object = object[c]

\* The snapshot that a row shows is its own, unless another was waited for when it was
\* asked for, or the row has got another camera since (getSnapshot).
ShowsItsSnapshot ==
  snapShotKey # NoRow /\ ~snapshotLoading /\ ~crossing => snapshot.row = snapShotKey

\* What is encrypted was confirmed, and nothing for a camera that is yet to come.
EncryptsConfirmed ==
  /\ \A e \in encrypting : <<e.row, e.object, e.cred>> \in confirmed
  /\ \A k \in confirmed : k[2] <= object[k[1]]

\* The row that shows a snapshot waits for its own, and for no other.
WaitsForItsOwn ==
  snapShotKey # NoRow /\ ~crossing =>
    /\ \A s \in asked : s.row = snapShotKey /\ asked = {s} /\ snapshotLoading
    /\ asked = {} /\ ~snapshotLoading => snapshot.row = snapShotKey

\* The inductive invariant.
IInv == TypeOK /\ KeptForItsCamera /\ EncryptsConfirmed /\ WaitsForItsOwn
=============================================================================
