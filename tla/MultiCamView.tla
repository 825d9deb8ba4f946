---------------------------- MODULE MultiCamView ----------------------------
(***************************************************************************)
(* The page with a picture for every camera: which stream of it is shown,  *)
(* and how large (client/src/app/multi-cam-view,                           *)
(* cameras/camera.service.ts).                                             *)
(***************************************************************************)
EXTENDS Naturals, FiniteSets

CONSTANTS
  CamCount,     \* cameras, in the order of the configuration
  StreamCount,  \* streams of each
  Columns       \* that may be chosen, less one

VARIABLES
  defaults,     \* the configuration: of each camera, the stream to show
  mvState,      \* "left", "loading", "loaded" (setupVideo is due), "shown"
  selected,     \* of each camera, the streams selected
  cells,        \* what each video has: [cam, stream, cols], none before it is set
  updates,      \* the cameras of the timers of updateCameras
  columns,      \* less one: CameraService's, and its cookie's
  early         \* cameras whose stream was last chosen in the 100 ms before setupVideo

mvVars == <<defaults, mvState, selected, cells, updates, columns,
            early>>

CamIds == 1 .. CamCount
StreamIds == 1 .. StreamCount
Empty == [cam |-> 0, stream |-> 0, cols |-> 0]

Init ==
  /\ defaults \in [CamIds -> StreamIds]
  /\ mvState = "left"
  /\ selected = [c \in CamIds |-> {}]
  /\ cells = [c \in CamIds |-> Empty]
  /\ updates = {}
  /\ columns = 2
  /\ early = {}

\* A new component: setUpCameraDetails.
EnterMulti ==
  /\ mvState = "left" /\ mvState' = "loading"
  /\ cells' = [c \in CamIds |-> Empty]
  /\ early' = {}
  /\ UNCHANGED <<defaults, selected, updates, columns>>

\* convertCamsObjectToMap selects the defaults, and the page has its videos.
CamerasLoaded ==
  /\ mvState = "loading" /\ mvState' = "loaded"
  /\ selected' = [c \in CamIds |-> {defaults[c]}]
  /\ UNCHANGED <<defaults, cells, updates, columns, early>>

\* The streams that are a default, each with its camera.
Defaults == {<<c, defaults[c]>> : c \in CamIds}

\* The video that a default gets: index goes on with each.
Index(cs) ==
  1 + Cardinality({d \in Defaults : d[1] < cs[1] \/ (d[1] = cs[1] /\ d[2] < cs[2])})

\* setupVideo, 100 ms after.
SetupVideo ==
  /\ mvState = "loaded" /\ mvState' = "shown"
  /\ cells' = [i \in CamIds |->
       IF \E cs \in Defaults : Index(cs) = i
       THEN LET cs == CHOOSE ds \in Defaults : Index(ds) = i IN
            [cam |-> cs[1], stream |-> cs[2], cols |-> columns]
       ELSE cells[i]]
  /\ UNCHANGED <<defaults, selected, updates, columns, early>>

\* Mutant: the stream selected before stays selected.
UpdateCamerasToo ==
  /\ mvState \in {"loaded", "shown"}
  /\ \E c \in CamIds, s \in StreamIds :
       /\ s \notin selected[c]
       /\ selected' = [selected EXCEPT ![c] = @ \cup {s}]
       /\ updates' = updates \cup {c}
       /\ early' = IF mvState = "loaded" THEN early \cup {c} ELSE early \ {c}
  /\ UNCHANGED <<defaults, mvState, cells, columns>>

\* A stream's box is checked: it is selected in place of the other.
UpdateCameras ==
  /\ mvState \in {"loaded", "shown"}
  /\ \E c \in CamIds, s \in StreamIds :
       /\ s \notin selected[c]
       /\ selected' = [selected EXCEPT ![c] = {s}]
       /\ updates' = updates \cup {c}
       /\ early' = IF mvState = "loaded" THEN early \cup {c} ELSE early \ {c}
  /\ UNCHANGED <<defaults, mvState, cells, columns>>

\* 10 ms after: the index is that of the camera, and the last stream selected stays.
UpdateVideo ==
  /\ \E c \in updates :
       /\ updates' = updates \ {c}
       /\ cells' = [cells EXCEPT ![c] =
            [@ EXCEPT !.cam = c,
                      !.stream = CHOOSE s \in selected[c] : \A t \in selected[c] : t <= s]]
  /\ UNCHANGED <<defaults, mvState, selected, columns, early>>

\* Every video there is changes its size.
SetNumColumns ==
  /\ mvState # "left"
  /\ \E n \in Columns :
       /\ columns' = n
       /\ cells' = IF mvState = "shown"
                   THEN [c \in CamIds |-> [cells[c] EXCEPT !.cols = n]] ELSE cells
  /\ UNCHANGED <<defaults, mvState, selected, updates, early>>

LeaveMulti ==
  /\ mvState = "shown" /\ updates = {} /\ mvState' = "left"
  /\ UNCHANGED <<defaults, selected, cells, updates, columns, early>>

Next ==
  \/ EnterMulti \/ CamerasLoaded \/ SetupVideo \/ UpdateCameras \/ UpdateVideo
  \/ SetNumColumns \/ LeaveMulti

-----------------------------------------------------------------------------

\* Every camera has its place, and shows the one stream whose box is checked, in the
\* size last chosen: the counts by default, by camera and by video agree.  Excepted is a
\* stream that was chosen before setupVideo ran (multi-cam-view.component.ts:116): the
\* camera may show its default, with the box of the other checked, until a stream of it is
\* chosen again.
CellsShowSelection ==
  (mvState = "shown" /\ updates = {}) =>
    \A c \in CamIds :
      /\ \/ selected[c] = {cells[c].stream}
         \/ c \in early /\ cells[c].stream = defaults[c]
      /\ cells[c].cam = c /\ cells[c].cols = columns

=============================================================================
