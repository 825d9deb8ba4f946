---------------------------- MODULE OnvifFailures ----------------------------
(***************************************************************************)
(* The devices that Onvif discovery could not read: the list of them, with *)
(* credentials to be entered against each and a button to try again, and   *)
(* the dialogue that adds a device by its URL                              *)
(* (client/src/app/config-setup/onvif-failures, add-as-onvif-device).      *)
(* ConfigSetup has the table that they add cameras to; here are the names  *)
(* of the devices, which ConfigSetup leaves out.                           *)
(***************************************************************************)
EXTENDS Integers, Sequences, FiniteSets, SequencesExt

CONSTANTS
  OnvifHosts,      \* positive numbers, in the order in which the list shows the devices
  DefaultHost,     \* the one that the dialogue's URL is at first
  MaxDiscoveries   \* bound: requests of one visit

VARIABLES
  devices,         \* the devices of the cameras in the table
  failed,          \* those on the list
  failControls,    \* of each row made, what is entered: the device it was entered for
  retries,         \* discoverCameraDetails under way, from the list
  addForm,         \* the dialogue's URL and what was found wrong with it; << >>: hidden
  adding,          \* discoverCameraDetails under way, from the dialogue
  busy,            \* what hides the table: "search", "save" or "no"
  restoring,       \* loadCameras under way
  excused,         \* devices tried again, or come into the table after their URL was checked
  discoveries

ofVars == <<devices, failed, failControls, retries, addForm, adding, busy, restoring,
            excused, discoveries>>

NoHost == 0
BadEntry == -1   \* credentials or a URL of the wrong form

Listed == busy = "no" /\ failed # {}
Row(host) == Cardinality({h \in failed : h <= host})

SetupTableFormControls(hosts) == [i \in 1 .. Cardinality(hosts) |-> NoHost]

\* The component is made when there is a failure to list, and its controls with it,
\* once.
List ==
  failControls' = IF ~Listed' THEN << >>
                  ELSE IF Listed THEN failControls
                  ELSE SetupTableFormControls(failed')

AnyInvalid(i) == failControls[i] = BadEntry
Getting == \E r \in retries : r.live

\* Mutant: the host need only be well formed.
IsValidDeviceIPAlone(url) == url # BadEntry

IsValidDeviceIP(url) == url # BadEntry /\ url \notin ToSet(devices)

FreshForm == <<[url |-> DefaultHost, error |-> ~IsValidDeviceIP(DefaultHost)]>>

\* A camera is put into the table.  What is written into a URL that was accepted, or
\* is being looked up, is not compared with it any more.
Excused(hosts) ==
  {h \in hosts : adding = h \/ (addForm # << >> /\ addForm[1].url = h /\ ~addForm[1].error)}
SetDevices(ds) ==
  devices' = ds /\ excused' = excused \cup Excused(ToSet(ds) \ ToSet(devices))

\* FixUpCameraData makes a new map of cameras: a list that is no more has the old one.
FixedUp(rs) == {[r EXCEPT !.current = r.live] : r \in rs}
Gone(rs) == {[r EXCEPT !.live = FALSE] : r \in rs}

Init ==
  /\ devices \in {<< >>, <<DefaultHost>>}
  /\ failed = {} /\ failControls = << >> /\ retries = {}
  /\ addForm = << >> /\ adding = NoHost /\ busy = "no" /\ restoring = FALSE
  /\ excused = {} /\ discoveries = 0

Request == discoveries < MaxDiscoveries /\ discoveries' = discoveries + 1

-----------------------------------------------------------------------------
(* The list *)

\* A row beyond the controls that were made shows nothing to enter or to press.
WithControls == {h \in failed : Row(h) \in DOMAIN failControls}

EnterCredentials ==
  /\ Listed /\ ~Getting
  /\ \E h \in WithControls : \E entry \in {h, BadEntry} :
       failControls' = [failControls EXCEPT ![Row(h)] = entry]
  /\ UNCHANGED <<devices, failed, retries, addForm, adding, busy, restoring, excused,
                 discoveries>>

Discover ==
  /\ Listed /\ ~Getting /\ Request
  /\ \E h \in WithControls :
       /\ ~AnyInvalid(Row(h))
       /\ retries' = retries \cup
            {[url |-> h, entered |-> failControls[Row(h)],
              live |-> TRUE, current |-> TRUE, listed |-> TRUE]}
       /\ excused' = excused \cup {h}
  /\ UNCHANGED <<devices, failed, failControls, addForm, adding, busy, restoring>>

\* Mutant: the device leaves the list with any answer.
NotFoundDeleted(r) ==
  /\ failed' = IF r.listed THEN failed \ {r.url} ELSE failed
  /\ UNCHANGED <<devices, excused>>

\* The camera is put into the table and the device off the list, or into the maps that
\* were shown when the list was.
Found(r) ==
  /\ IF r.current THEN SetDevices(Append(devices, r.url)) ELSE UNCHANGED <<devices, excused>>
  /\ failed' = IF r.listed THEN failed \ {r.url} ELSE failed

\* What the device failed with is put on the list if it is not there.
NotFound(r) ==
  /\ failed' = IF r.listed THEN failed \cup {r.url} ELSE failed
  /\ UNCHANGED <<devices, excused>>

Failed == UNCHANGED <<devices, failed, excused>>

DiscoverDone ==
  /\ \E r \in retries :
       /\ Found(r) \/ NotFound(r) \/ Failed
       /\ retries' = IF r.live /\ devices' # devices THEN FixedUp(retries \ {r})
                     ELSE retries \ {r}
  /\ UNCHANGED <<addForm, adding, busy, restoring, discoveries>>
  /\ List

-----------------------------------------------------------------------------
(* The dialogue *)

ToggleAddDialogue ==
  /\ busy = "no" /\ adding = NoHost
  /\ addForm' = IF addForm = << >> THEN FreshForm ELSE << >>
  /\ UNCHANGED <<devices, failed, failControls, retries, adding, busy, restoring, excused,
                 discoveries>>

\* The URL is looked at when it is typed.
TypeUrl ==
  /\ busy = "no" /\ addForm # << >>
  /\ \E url \in OnvifHosts \cup {BadEntry} :
       addForm' = <<[url |-> url, error |-> ~IsValidDeviceIP(url)]>>
  /\ UNCHANGED <<devices, failed, failControls, retries, adding, busy, restoring, excused,
                 discoveries>>

StartCapabilitiesDiscovery ==
  /\ busy = "no" /\ addForm # << >> /\ ~addForm[1].error
  /\ Request
  /\ adding' = addForm[1].url /\ addForm' = << >>
  /\ UNCHANGED <<devices, failed, failControls, retries, busy, restoring, excused>>

FindCameraDetailsDone ==
  /\ adding # NoHost /\ adding' = NoHost
  /\ \/ /\ devices' = Append(devices, adding)
        /\ retries' = FixedUp(retries) /\ UNCHANGED failed
     \/ /\ failed' = failed \cup {adding} /\ UNCHANGED <<devices, retries>>
     \/ UNCHANGED <<devices, failed, retries>>
  /\ UNCHANGED <<addForm, busy, restoring, excused, discoveries>>
  /\ List

-----------------------------------------------------------------------------
(* The rest of the page *)

\* What a discovery or the server's configuration has: no device twice.
Found2 ==
  {ds \in UNION {[1 .. n -> OnvifHosts] : n \in 0 .. 2} :
     \A i, j \in DOMAIN ds : i < j => ds[i] < ds[j]}

DeleteDevice ==
  /\ busy = "no"
  /\ Len(devices) > 1
  /\ \E i \in DOMAIN devices : devices' = RemoveAt(devices, i)
  /\ retries' = FixedUp(retries)
  /\ UNCHANGED <<failed, failControls, addForm, adding, busy, restoring, excused, discoveries>>

StartSearch ==
  /\ busy = "no" /\ adding = NoHost /\ Request
  /\ busy' = "search" /\ failed' = {}
  /\ addForm' = << >>
  /\ retries' = {[r EXCEPT !.listed = FALSE] : r \in Gone(retries)}
  /\ UNCHANGED <<devices, adding, restoring, excused>>
  /\ List

SearchDone ==
  /\ busy = "search" /\ busy' = "no"
  /\ \/ \E ds \in Found2 :
          /\ SetDevices(ds) /\ retries' = FixedUp(retries)
          /\ failed' \in SUBSET (OnvifHosts \ ToSet(ds))
     \/ UNCHANGED <<devices, failed, retries, excused>>
  /\ UNCHANGED <<addForm, adding, restoring, discoveries>>
  /\ List

\* The dialogue is made anew when the table comes back.
CommitStarted ==
  /\ busy = "no" /\ adding = NoHost /\ Request
  /\ busy' = "save"
  /\ retries' = FixedUp(Gone(retries))
  /\ addForm' = IF addForm = << >> THEN << >> ELSE FreshForm
  /\ UNCHANGED <<devices, failed, adding, restoring, excused>>
  /\ List

CommitEnded ==
  /\ busy = "save" /\ busy' = "no"
  /\ UNCHANGED <<devices, failed, retries, addForm, adding, restoring, excused, discoveries>>
  /\ List

Restore ==
  /\ busy = "no" /\ adding = NoHost /\ ~restoring /\ Request
  /\ restoring' = TRUE
  /\ UNCHANGED <<devices, failed, failControls, retries, addForm, adding, busy, excused>>

RestoreDone ==
  /\ restoring /\ restoring' = FALSE
  /\ \E ds \in Found2 : SetDevices(ds)
  /\ retries' = FixedUp(retries)
  /\ UNCHANGED <<failed, failControls, addForm, adding, busy, discoveries>>

Next ==
  \/ EnterCredentials \/ Discover \/ DiscoverDone
  \/ ToggleAddDialogue \/ TypeUrl \/ StartCapabilitiesDiscovery \/ FindCameraDetailsDone
  \/ DeleteDevice \/ StartSearch \/ SearchDone \/ CommitStarted \/ CommitEnded
  \/ Restore \/ RestoreDone

-----------------------------------------------------------------------------

TypeOK ==
  /\ devices \in Seq(OnvifHosts) /\ failed \subseteq OnvifHosts
  /\ failControls \in Seq(OnvifHosts \cup {NoHost, BadEntry})
  /\ retries \subseteq [url : OnvifHosts, entered : OnvifHosts \cup {NoHost, BadEntry},
                       live : BOOLEAN, current : BOOLEAN, listed : BOOLEAN]
  /\ addForm \in
       {<< >>} \cup {<<f>> : f \in [url : OnvifHosts \cup {BadEntry}, error : BOOLEAN]}
  /\ adding \in OnvifHosts \cup {NoHost}
  /\ busy \in {"search", "save", "no"} /\ restoring \in BOOLEAN
  /\ excused \subseteq OnvifHosts /\ discoveries \in 0 .. MaxDiscoveries

\* Two cameras of the table are the same device only if the device was tried again
\* from the list, or came into the table after the URL of the dialogue was checked
\* (isValidDeviceIP).
DevicesAreDistinct ==
  \A i, j \in DOMAIN devices : i # j /\ devices[i] = devices[j] => devices[i] \in excused

\* What may come into the table is not there, or is excused.
New(host) == host \in ToSet(devices) => host \in excused
OnlyNew ==
  /\ \A r \in retries : r.url \in excused
  /\ adding # NoHost => New(adding) /\ addForm = << >>
  /\ addForm # << >> => addForm[1].error \/ (addForm[1].url # BadEntry /\ New(addForm[1].url))

\* The list that is shown is that of its cameras, and a search has none.
ListIsCurrent ==
  /\ \A r \in retries : r.live => r.current
  /\ busy = "search" => failed = {} /\ adding = NoHost /\ \A r \in retries : ~r.listed

\* The inductive invariant.
IInv == TypeOK /\ DevicesAreDistinct /\ OnlyNew /\ ListIsCurrent

\* A device leaves the list of failures into the table, by a search that makes the
\* list anew, or by the answer to a list that is no more (discover).
LeavesListForTable ==
  \A h \in failed \ failed' :
    \/ h \in ToSet(devices')
    \/ busy' = "search"
    \/ \E r \in retries \ retries' : ~r.live /\ r.url = h
FailuresStayListed == [][LeavesListForTable]_ofVars
=============================================================================
