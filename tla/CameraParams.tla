---------------------------- MODULE CameraParams ----------------------------
(***************************************************************************)
(* The page that shows and sets what a camera keeps of itself: its name,   *)
(* its infra red lamp (client/src/app/camera-params,                       *)
(* client/src/app/shared/utils.service.ts).  The menu may go to another    *)
(* camera while the requests for the last one are on their way: the page   *)
(* is then the same component.                                             *)
(***************************************************************************)
EXTENDS Naturals, Sequences

CONSTANTS
  CpCams,        \* the cameras
  Settings,      \* what the fields of a camera may say, taken together
  CpMaxRequests  \* bound: requests on their way

VARIABLES
  params,        \* of each camera, what it keeps
  cam,           \* the camera of the page
  cameraParams,  \* what the page believes the camera keeps
  fields,        \* what the fields say
  editable,      \* the fields are enabled
  downloading,   \* the page waits, and shows neither fields nor buttons
  confirmReboot, \* the page asks whether it should restart the camera
  cpRequests,    \* on their way: [kind, cam, value, answer]
  crossed,       \* an answer met another request, or the question another camera
  cpFailed       \* the last answer was an error

cpVars == <<params, cam, cameraParams, fields, editable, downloading,
            confirmReboot, cpRequests, crossed, cpFailed>>

Blank == "blank"     \* of the fields of a new form
Unset == "unset"     \* of cameraParams, before the first answer
Asked(kind, value) == [kind |-> kind, cam |-> cam, value |-> value, answer |-> "none"]

Init ==
  /\ params \in [CpCams -> Settings]
  /\ cam \in CpCams
  /\ cameraParams = Unset /\ fields = Blank /\ editable = TRUE
  /\ downloading = TRUE /\ confirmReboot = FALSE
  /\ cpRequests = <<Asked("get", Blank)>>
  /\ crossed = FALSE /\ cpFailed = FALSE

\* The route has another camera: a new form, and getCameraParams.  What was known of
\* the other camera and the question about its restart stay.
SwitchCamera ==
  /\ Len(cpRequests) < CpMaxRequests
  /\ \E c \in CpCams \ {cam} :
       /\ cam' = c
       /\ cpRequests' = Append(cpRequests, [Asked("get", Blank) EXCEPT !.cam = c])
  /\ fields' = Blank /\ editable' = TRUE /\ downloading' = TRUE
  /\ crossed' = (cpRequests # <<>> \/ confirmReboot)
  /\ UNCHANGED <<params, cameraParams, confirmReboot, cpFailed>>

Edit ==
  /\ ~downloading /\ editable
  /\ fields' \in Settings \ {fields}
  /\ UNCHANGED <<params, cam, cameraParams, editable, downloading, confirmReboot,
                 cpRequests, crossed, cpFailed>>

Send(kind) ==
  /\ Len(cpRequests) < CpMaxRequests
  /\ cpRequests' = Append(cpRequests, Asked(kind, fields))
  /\ downloading' = TRUE

UpdateParams ==
  /\ ~downloading /\ ~confirmReboot
  /\ fields \in Settings \ {cameraParams}
  /\ Send("set")
  /\ UNCHANGED <<params, cam, cameraParams, fields, editable, confirmReboot, crossed, cpFailed>>

ConfirmReboot ==
  /\ ~downloading /\ ~confirmReboot
  /\ fields = cameraParams
  /\ confirmReboot' = TRUE /\ editable' = FALSE
  /\ UNCHANGED <<params, cam, cameraParams, fields, downloading, cpRequests, crossed, cpFailed>>

\* The button is enabled by the question, whatever the fields say; cancelReboot is part.
Reboot ==
  /\ ~downloading /\ confirmReboot
  /\ Send("reboot")
  /\ confirmReboot' = FALSE /\ editable' = TRUE
  /\ UNCHANGED <<params, cam, cameraParams, fields, crossed, cpFailed>>

CancelReboot ==
  /\ ~downloading /\ confirmReboot
  /\ fields = cameraParams
  /\ confirmReboot' = FALSE /\ editable' = TRUE
  /\ UNCHANGED <<params, cam, cameraParams, fields, downloading, cpRequests, crossed, cpFailed>>

\* The server asks the camera.  Of a set that fails, the camera may have done its part.
Serve ==
  /\ \E i \in DOMAIN cpRequests, ok \in BOOLEAN :
       LET r == cpRequests[i] IN
       /\ r.answer = "none"
       /\ \/ r.kind = "set" /\ params' = [params EXCEPT ![r.cam] = r.value]
          \/ params' = params /\ (ok => r.kind # "set")
       /\ cpRequests' = [cpRequests EXCEPT ![i].answer = IF ok THEN "ok" ELSE "failed",
              ![i].value = IF r.kind = "get" THEN params[r.cam] ELSE @]
  /\ UNCHANGED <<cam, cameraParams, fields, editable, downloading, confirmReboot,
                 crossed, cpFailed>>

Answered(kinds, answer, i) ==
  /\ cpRequests[i].kind \in kinds /\ cpRequests[i].answer = answer
  /\ cpRequests' = SubSeq(cpRequests, 1, i - 1) \o SubSeq(cpRequests, i + 1, Len(cpRequests))
  /\ crossed' = (crossed \/ Len(cpRequests) > 1)
  /\ downloading' = FALSE

\* The answer is shown, of whichever camera it is.
GetDone ==
  /\ \E i \in DOMAIN cpRequests :
       /\ Answered({"get"}, "ok", i)
       /\ cameraParams' = cpRequests[i].value /\ fields' = cpRequests[i].value
  /\ cpFailed' = FALSE
  /\ UNCHANGED <<params, cam, editable, confirmReboot>>

\* Mutant: the update is not noted.
SetDoneUnnoted ==
  /\ \E i \in DOMAIN cpRequests : Answered({"set", "reboot"}, "ok", i)
  /\ confirmReboot' = FALSE
  /\ UNCHANGED <<params, cam, cameraParams, fields, editable, cpFailed>>

\* The values noted are those of the fields, after a restart too.  (Where nothing was
\* ever received, noting them throws: the answer has done the rest.)
SetDone ==
  /\ \E i \in DOMAIN cpRequests : Answered({"set", "reboot"}, "ok", i)
  /\ confirmReboot' = FALSE
  /\ cameraParams' = IF cameraParams = Unset THEN Unset ELSE fields
  /\ UNCHANGED <<params, cam, fields, editable, cpFailed>>

Failed ==
  /\ \E i \in DOMAIN cpRequests :
       /\ Answered({"get", "set", "reboot"}, "failed", i)
       /\ confirmReboot' = (confirmReboot /\ cpRequests[i].kind = "get")
  /\ cpFailed' = TRUE
  /\ UNCHANGED <<params, cam, cameraParams, fields, editable>>

Next ==
  \/ SwitchCamera \/ Edit \/ UpdateParams \/ ConfirmReboot \/ Reboot \/ CancelReboot
  \/ Serve \/ GetDone \/ SetDone \/ Failed

-----------------------------------------------------------------------------

\* What the page compares its fields with is what its camera keeps, whatever was
\* loaded, updated and restarted before (anyChanged decides by it whether an update or
\* a restart is offered) - unless an answer met a request for another camera (crossed) or
\* the last answer was an error (cpFailed).
KnowsTheCamera ==
  (~downloading /\ cpRequests = <<>> /\ ~crossed /\ ~cpFailed)
    => cameraParams = params[cam]

=============================================================================
