---------------------------- MODULE MCClientPages ----------------------------
(***************************************************************************)
(* The other pages and parts of the client, each alone: they share no      *)
(* state that the properties tell apart.  A behaviour is one of one part,  *)
(* the others staying as they are at the beginning.                        *)
(***************************************************************************)
EXTENDS Integers, FiniteSets

CONSTANTS
  RcStreams, TimesOf, PerDay, DaysInYear, MaxRequests,
  RpCams, RpLevels, RpDefault,
  Containers, MaxScale, Fingers,
  Windows, Ratios, Sizes,
  CamCount, StreamCount, Columns,
  CpCams, Settings, CpMaxRequests,
  AccessPoints, MaxCalls,
  Buttons, MaxOnTheirWay,
  DeviceRows, MaxRows, MaxSaves,
  CpsMaxRequests,
  Entries, AfMaxRequests,
  Usernames, AdMaxRequests,
  NavTabs, Temperatures, MaxChoices

ASSUME ClientPagesAssumption ==
  /\ CamCount \in Nat /\ StreamCount \in Nat
  /\ TimesOf \in [RcStreams -> SUBSET Nat]
  /\ PerDay \in Nat \ {0} /\ DaysInYear \in Nat \ {0}
  /\ Containers \subseteq [left : Int, width : Nat \ {0}]
  /\ MaxScale \in Nat \ {0} /\ IsFiniteSet(Fingers)
  /\ Windows \subseteq [width : Nat, height : Nat, phone : BOOLEAN]
  /\ Ratios \subseteq Nat \ {0} /\ Sizes \subseteq 1 .. 100
  /\ "none" \notin Buttons       \* no button of Ptz
  /\ "unset" \notin Settings     \* no settings of CameraParams
  /\ {"empty", "noRows"} \cap DeviceRows = {}   \* no row of AdHocHosting

VARIABLES
  part, \* the one that moves
  stream, listing, dateSlots, motionEvents, manifest, visible, noVideo, confirmDelete,
  deleting, reload, rcDownloading, recordings, overtaken,
  rpCam, loaded, rpVolume, rpMuted, rpCookie, paused, rate, mode,
  device, container, scale, offset, measured, pointer, fingers, currentTouches, panStart,
  touchStartDist, tapTimer,
  window, picture, aspectRatio, size, isRecording, style, backup, scrolledToTop,
  defaults, mvState, selected, cells, updates, columns, early,
  params, cam, cameraParams, fields, editable, downloading, confirmReboot, cpRequests,
  crossed, cpFailed,
  nvrWifi, nvrAp, ethernet, wifiEnabled, box, listed, accessPoint, choice, needPassword,
  connecting, calls, doubtful,
  mouseOver, mouseHeld, finger, mouseDown, sent, moving, ptzOvertaken, ptzFailed,
  interrupted, switch, fresh, presetHeld, noClick,
  stored, adState, devices, tableForms, savedHash, confirmSave, commits, pasted, unsure,
  proxyRunning, cps, cpsBox, cbEnabled, cloudProxyRunning, cpsRequests, cpsOvertaken,
  cpsFailed,
  page, guestEnabled, current, new, confirm, refused, matches, guestBox,
  originalEnabledState, afRequests, afCrossed, afFailed,
  adPage, username, adPassword, adConfirm, notMatching, adBlamed, adAuth, adEnabled,
  updateExisting, adError, committed, adRequests, accounts, adRaced,
  guestAccount, isGuest, asking, menuOpen, route, locked, cookies, boxes, clicked,
  serverCaching, navCalls, navUnsure, temperature, choices,
  e, message, rtStyle, validationErrors, showMessageInError, showMessageFromMessage,
  isHTML, last, raised

rcVars == <<stream, listing, dateSlots, motionEvents, manifest, visible, noVideo,
            confirmDelete, deleting, reload, rcDownloading, recordings, overtaken>>
rpVars == <<rpCam, loaded, rpVolume, rpMuted, rpCookie, paused, rate, mode>>
vzVars == <<device, container, scale, offset, measured, pointer, fingers,
            currentTouches, panStart, touchStartDist, tapTimer>>
vsVars == <<window, picture, aspectRatio, size, isRecording, style, backup,
            scrolledToTop>>
mvVars == <<defaults, mvState, selected, cells, updates, columns, early>>
cpVars == <<params, cam, cameraParams, fields, editable, downloading, confirmReboot,
            cpRequests, crossed, cpFailed>>
wfVars == <<nvrWifi, nvrAp, ethernet, wifiEnabled, box, listed, accessPoint, choice,
            needPassword, connecting, calls, doubtful>>
pzVars == <<mouseOver, mouseHeld, finger, mouseDown, sent, moving, ptzOvertaken,
            ptzFailed, interrupted, switch, fresh, presetHeld, noClick>>
ahVars == <<stored, adState, devices, tableForms, savedHash, confirmSave, commits,
            pasted, unsure>>
clVars == <<proxyRunning, cps, cpsBox, cbEnabled, cloudProxyRunning, cpsRequests,
            cpsOvertaken, cpsFailed>>
guVars == <<page, guestEnabled, current, new, confirm, refused, matches, guestBox,
            originalEnabledState, afRequests, afCrossed, afFailed>>
adVars == <<adPage, username, adPassword, adConfirm, notMatching, adBlamed, adAuth,
            adEnabled, updateExisting, adError, committed, adRequests, accounts, adRaced>>
nbVars == <<guestAccount, isGuest, asking, menuOpen, route, locked, cookies, boxes,
            clicked, serverCaching, navCalls, navUnsure, temperature, choices>>
rtVars == <<e, message, rtStyle, validationErrors, showMessageInError,
            showMessageFromMessage, isHTML, last, raised>>

RC == INSTANCE RecordingControl
RP == INSTANCE RecordingPlayer
VZ == INSTANCE VideoZoom
VS == INSTANCE VideoSizing
MV == INSTANCE MultiCamView
CP == INSTANCE CameraParams
WF == INSTANCE WifiSettings
PZ == INSTANCE Ptz WITH overtaken <- ptzOvertaken
AH == INSTANCE AdHocHosting
CL == INSTANCE CloudProxyPage
GU == INSTANCE AccountForms
AD == INSTANCE AdminForms
NB == INSTANCE Nav WITH calls <- navCalls, unsure <- navUnsure
RT == INSTANCE Reporting WITH style <- rtStyle

\* Of one stream, twice on a day and once on the next; of the other, on a day and on the
\* same day of the next year.
MCTimesOf == [s1 |-> {2, 3, 4}, s2 |-> {1, 4}]

\* Of one width, and of another elsewhere.
MCContainers == {[left |-> 0, width |-> 3], [left |-> 1, width |-> 2]}

\* From a wide screen to a phone, on both sides of each width the sizes depend on.
MCWindows ==
  {[width |-> d[1], height |-> d[2], phone |-> FALSE] :
     d \in {<<1900, 950>>, <<1400, 1000>>, <<1000, 700>>, <<700, 900>>, <<500, 800>>}}
  \cup {[width |-> 740, height |-> 360, phone |-> TRUE]}

Parts ==
  {"recordings", "player", "zoom", "sizing", "multicam", "settings", "wifi", "ptz",
   "devices", "cloud", "guest", "account", "bar", "report"}

PartInit ==
  /\ part \in Parts
  /\ part # "recordings" => stream = CHOOSE s \in RcStreams : TRUE
  /\ part # "player" => rpCam = CHOOSE c \in RpCams : TRUE
  /\ part # "zoom" => device = "mouse" /\ container = CHOOSE c \in Containers : TRUE
  /\ part # "sizing" =>
       /\ window = CHOOSE w \in Windows : TRUE
       /\ size = CHOOSE n \in Sizes : TRUE
       /\ isRecording = FALSE
  /\ part # "multicam" => defaults = CHOOSE d \in [MV!CamIds -> MV!StreamIds] : TRUE
  /\ part # "settings" =>
       /\ params = CHOOSE p \in [CpCams -> Settings] : TRUE
       /\ cam = CHOOSE c \in CpCams : TRUE
  /\ part # "wifi" => nvrWifi = FALSE
  /\ part # "devices" => stored = CHOOSE l \in AH!Lists : TRUE
  /\ part # "cloud" => proxyRunning = FALSE
  /\ part # "guest" => guestEnabled = FALSE
  /\ part # "account" => accounts = {}
  /\ part # "bar" => guestAccount = FALSE
  /\ RC!Init /\ RP!Init /\ VZ!Init /\ VS!Init /\ MV!Init /\ CP!Init /\ WF!Init
  /\ PZ!Init /\ AH!Init /\ CL!Init /\ GU!Init /\ AD!Init /\ NB!Init /\ RT!Init

PartNext ==
  /\ UNCHANGED part
  /\ \/ part = "recordings" /\ RC!Next /\ UNCHANGED <<rpVars, vzVars, vsVars, mvVars,
            cpVars, wfVars, pzVars, ahVars, clVars, guVars, adVars, nbVars, rtVars>>
     \/ part = "player" /\ RP!Next /\ UNCHANGED <<rcVars, vzVars, vsVars, mvVars, cpVars,
            wfVars, pzVars, ahVars, clVars, guVars, adVars, nbVars, rtVars>>
     \/ part = "zoom" /\ VZ!Next /\ UNCHANGED <<rcVars, rpVars, vsVars, mvVars, cpVars,
            wfVars, pzVars, ahVars, clVars, guVars, adVars, nbVars, rtVars>>
     \/ part = "sizing" /\ VS!Next /\ UNCHANGED <<rcVars, rpVars, vzVars, mvVars, cpVars,
            wfVars, pzVars, ahVars, clVars, guVars, adVars, nbVars, rtVars>>
     \/ part = "multicam" /\ MV!Next /\ UNCHANGED <<rcVars, rpVars, vzVars, vsVars,
            cpVars, wfVars, pzVars, ahVars, clVars, guVars, adVars, nbVars, rtVars>>
     \/ part = "settings" /\ CP!Next /\ UNCHANGED <<rcVars, rpVars, vzVars, vsVars,
            mvVars, wfVars, pzVars, ahVars, clVars, guVars, adVars, nbVars, rtVars>>
     \/ part = "wifi" /\ WF!Next /\ UNCHANGED <<rcVars, rpVars, vzVars, vsVars, mvVars,
            cpVars, pzVars, ahVars, clVars, guVars, adVars, nbVars, rtVars>>
     \/ part = "ptz" /\ PZ!Next /\ UNCHANGED <<rcVars, rpVars, vzVars, vsVars, mvVars,
            cpVars, wfVars, ahVars, clVars, guVars, adVars, nbVars, rtVars>>
     \/ part = "devices" /\ AH!Next /\ UNCHANGED <<rcVars, rpVars, vzVars, vsVars, mvVars,
            cpVars, wfVars, pzVars, clVars, guVars, adVars, nbVars, rtVars>>
     \/ part = "cloud" /\ CL!Next /\ UNCHANGED <<rcVars, rpVars, vzVars, vsVars, mvVars,
            cpVars, wfVars, pzVars, ahVars, guVars, adVars, nbVars, rtVars>>
     \/ part = "guest" /\ GU!Next /\ UNCHANGED <<rcVars, rpVars, vzVars, vsVars, mvVars,
            cpVars, wfVars, pzVars, ahVars, clVars, adVars, nbVars, rtVars>>
     \/ part = "account" /\ AD!Next /\ UNCHANGED <<rcVars, rpVars, vzVars, vsVars, mvVars,
            cpVars, wfVars, pzVars, ahVars, clVars, guVars, nbVars, rtVars>>
     \/ part = "bar" /\ NB!Next /\ UNCHANGED <<rcVars, rpVars, vzVars, vsVars, mvVars,
            cpVars, wfVars, pzVars, ahVars, clVars, guVars, adVars, rtVars>>
     \/ part = "report" /\ RT!Next /\ UNCHANGED <<rcVars, rpVars, vzVars, vsVars, mvVars,
            cpVars, wfVars, pzVars, ahVars, clVars, guVars, adVars, nbVars>>

pagesVars == <<part, rcVars, rpVars, vzVars, vsVars, mvVars, cpVars, wfVars, pzVars,
               ahVars, clVars, guVars, adVars, nbVars, rtVars>>

PartSpec == PartInit /\ [][PartNext]_pagesVars

-----------------------------------------------------------------------------
(* The properties of the parts, stated where they are defined. *)

(***************************************************************************)
(* A page whose answers have come shows what the server has, and of what   *)
(* the page is for: MultiCamView the streams that are selected,            *)
(* CameraParams its camera's settings, WifiSettings the network connected  *)
(* to, AdHocHosting the devices saved, CloudProxyPage and AccountForms     *)
(* whether the proxy and the guest are on, Reporting what was reported     *)
(* last.                                                                   *)
(***************************************************************************)
ShowsWhatIs ==
  /\ MV!CellsShowSelection
  /\ CP!KnowsTheCamera /\ WF!NamedAsConnected
  /\ AH!SavedAsShown /\ CL!BoxTellsRunning /\ GU!GuestKnown
  /\ RT!ShowsTheLast

(***************************************************************************)
(* What is done is what the user did, in whatever order: RecordingPlayer's *)
(* sound and speed, the camera that Ptz moves and the views it saves, the  *)
(* passwords of AccountForms and AdminForms and the one account, the       *)
(* options of Nav and what it keeps from a guest.                          *)
(***************************************************************************)
DoesAsAsked ==
  /\ RP!RecordingCookie /\ RP!PlaysAtItsSpeed
  /\ PZ!NotLeftMoving /\ PZ!SavesOnce
  /\ GU!GuestMatches /\ AD!SentTwice /\ AD!OneAccount
  /\ NB!GuestIsLocked /\ NB!CachesAsClicked

(***************************************************************************)
(* What is laid out has its place: each recording of the stream in the     *)
(* slot of its date, the one that is played among them (RecordingControl); *)
(* the picture covers the viewport and follows the finger and the wheel    *)
(* (VideoZoom), and fits the window (VideoSizing).                         *)
(***************************************************************************)
AllInPlace ==
  /\ []RC!SlotsHoldAll /\ []RC!PlaysItsStream /\ []RC!IInv
  /\ []VZ!CoversViewPort /\ []VZ!IInv /\ []VS!PictureFits /\ []VS!IInv
  /\ VZ!FocusStays /\ VZ!PictureFollowsFinger
=============================================================================
