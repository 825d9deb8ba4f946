--------------------------- MODULE MCConfiguration ---------------------------
(***************************************************************************)
(* The pages that configure the recorder, each alone: the table of the     *)
(* cameras, its recording dialogue, its credentials, the devices that      *)
(* discovery failed for, and the cameras' own pages that it hosts.  A      *)
(* behaviour is one of one part, the others staying as they are at the     *)
(* beginning.                                                              *)
(***************************************************************************)
EXTENDS ConfigSetup

CONSTANTS
  OnvifHosts, DefaultHost, MaxDiscoveries,
  DgCams, DgStreams, MaskFiles, MaxChanges,
  Cameras, WithUri, Passwords, MaxAsked,
  Users, Devices, MaxHostingCalls, MaxConnections

ASSUME ConfigurationAssumption ==
  /\ IsFiniteSet(OnvifHosts) /\ OnvifHosts \subseteq Nat \ {0} /\ DefaultHost \in OnvifHosts
  /\ MaxDiscoveries \in Nat
  /\ "none" \notin DgCams \cup DgStreams
  /\ {"none", "onvif"} \cap Cameras = {} /\ "unset" \notin Passwords
  /\ "none" \notin Devices

VARIABLES
  part, \* the one that moves
  devices, failed, failControls, retries, addForm, adding, busy, restoring, excused,
  discoveries,
  setups, open, localCamera, dgForm, uploading, uploaded, reported, changes,
  publicKey, cred, object, dialogue, encrypting, ccConfirmed, onvifSet, haveOnvif,
  onvifCalls, snapShotKey, snapshotLoading, snapshot, asked, crossing, taken, shots,
  shown, address, tab, strayTab, hostCalls, hosted, connections, overtaken, listedLate

ofVars == <<devices, failed, failControls, retries, addForm, adding, busy, restoring,
            excused, discoveries>>
dgVars == <<setups, open, localCamera, dgForm, uploading, uploaded, reported, changes>>
ccVars == <<publicKey, cred, object, dialogue, encrypting, ccConfirmed, onvifSet, haveOnvif,
            onvifCalls, snapShotKey, snapshotLoading, snapshot, asked, crossing, taken,
            shots>>
ahgVars == <<shown, address, tab, strayTab, hostCalls, hosted, connections, overtaken,
             listedLate>>

RD == INSTANCE RecordingDialogue
OF == INSTANCE OnvifFailures
CC == INSTANCE CameraCredentials WITH confirmed <- ccConfirmed
AG == INSTANCE AdminHosting

\* Two cameras; the second stream of one is recorded, by motion on the first.
MCConfigurations ==
  {FixUpCameraData(<<[Device(2) EXCEPT
                        !.type = "motionService", !.motionStream = 1,
                        !.streams[1].motion = TRUE, !.streams[1].trigger = 2],
                     Device(1)>>)}

\* Two devices, or none.
MCSearchResults == {<< >>, <<1, 2>>}

Parts == {"table", "recording", "failures", "credentials", "hosting"}

PartInit ==
  /\ part \in Parts
  /\ Init /\ RD!Init /\ OF!Init /\ CC!Init /\ AG!Init
  /\ part # "table" => server = << >>
  /\ part # "recording" => \A c \in DgCams : setups[c] = RD!NewSetup
  /\ part # "failures" => devices = << >>
  /\ part # "credentials" => onvifSet

PartNext ==
  /\ UNCHANGED part
  /\ \/ part = "table" /\ Next
        /\ UNCHANGED <<dgVars, ofVars, ccVars, ahgVars>>
     \/ part = "recording" /\ RD!Next
        /\ UNCHANGED <<csVars, ofVars, ccVars, ahgVars>>
     \/ part = "failures" /\ OF!Next
        /\ UNCHANGED <<csVars, dgVars, ccVars, ahgVars>>
     \/ part = "credentials" /\ CC!Next
        /\ UNCHANGED <<csVars, dgVars, ofVars, ahgVars>>
     \/ part = "hosting" /\ AG!Next
        /\ UNCHANGED <<csVars, dgVars, ofVars, ccVars>>

configVars == <<part, csVars, dgVars, ofVars, ccVars, ahgVars>>

PartSpec == PartInit /\ [][PartNext]_configVars

-----------------------------------------------------------------------------
(* The properties of the parts, stated where they are defined. *)

(***************************************************************************)
(* What the server is given is what was entered, and whole: the cameras    *)
(* and their recordings (ConfigSetup), the recording dialogue's set-ups    *)
(* (RecordingDialogue).                                                    *)
(***************************************************************************)
SavedAsEntered ==
  /\ IInv /\ OneDefault /\ RecordingsSaved /\ LeftWhenSaved
  /\ RD!IInv /\ RD!ShownIsEdited /\ RD!ConfirmedIsComplete

(***************************************************************************)
(* What is found, entered, shown and hosted is of the device it is meant   *)
(* for, when answers overtake each other, rows shift and other users do    *)
(* the same (OnvifFailures, CameraCredentials, AdminHosting).              *)
(***************************************************************************)
RightDevice ==
  /\ OF!IInv /\ OF!DevicesAreDistinct
  /\ CC!IInv /\ CC!KeptForItsCamera /\ CC!ShowsItsSnapshot
  /\ AG!IInv /\ AG!HostingAgrees /\ AG!ClosedWithHosting

(***************************************************************************)
(* OnvifFailures: a device that could not be read leaves the list into the *)
(* table only, or with the list itself.                                    *)
(***************************************************************************)
FailuresStayListed == OF!FailuresStayListed
=============================================================================
