-------------------------------- MODULE Ptz --------------------------------
(***************************************************************************)
(* The controls that turn a camera: a button moves it as long as it is     *)
(* held, a preset button sends it to a saved view, or saves or clears that *)
(* view after one of the two switches was set                              *)
(* (client/src/app/live-container/ptzcontrols,                             *)
(* client/src/app/live-container/ptz.service.ts).                          *)
(***************************************************************************)
EXTENDS Naturals, Sequences

CONSTANTS
  Buttons,        \* that move the camera
  MaxOnTheirWay   \* bound: requests

VARIABLES
  mouseOver,      \* the button under the mouse, or NoButton
  mouseHeld,      \* its left button is pressed
  finger,         \* the button that is touched, or NoButton
  mouseDown,      \* of each button
  sent,           \* requests on their way, as they were sent
  moving,         \* the camera moves
  overtaken,      \* a request was served before an earlier one
  ptzFailed,
  interrupted,    \* a touch was cancelled: no touchend
  switch,         \* savePreset or clearPreset, or "off"
  fresh,          \* it was set since the last saving or clearing
  presetHeld,     \* the mouse is pressed on a preset button
  noClick         \* a preset button was touched, or the mouse dragged from it

ptzVars == <<mouseOver, mouseHeld, finger, mouseDown, sent, moving, overtaken,
             ptzFailed, interrupted, switch, fresh, presetHeld, noClick>>
presetVars == <<switch, fresh, presetHeld, noClick>>
serverVars == <<moving, overtaken, ptzFailed>>

NoButton == "none"

Init ==
  /\ mouseOver = NoButton /\ mouseHeld = FALSE /\ finger = NoButton
  /\ mouseDown = [b \in Buttons |-> FALSE]
  /\ sent = <<>> /\ moving = FALSE
  /\ overtaken = FALSE /\ ptzFailed = FALSE /\ interrupted = FALSE
  /\ switch = "off" /\ fresh = FALSE /\ presetHeld = FALSE /\ noClick = FALSE

Send(op) == Len(sent) < MaxOnTheirWay /\ sent' = Append(sent, op)
Move(b) == Send("move") /\ mouseDown' = [mouseDown EXCEPT ![b] = TRUE]
Stop(b) == Send("stop") /\ mouseDown' = [mouseDown EXCEPT ![b] = FALSE]

MouseOver ==
  /\ mouseOver = NoButton /\ ~presetHeld
  /\ mouseOver' \in Buttons
  /\ UNCHANGED <<mouseHeld, finger, mouseDown, sent, interrupted, serverVars, presetVars>>

MousePress ==
  /\ ~mouseHeld /\ mouseHeld' = TRUE
  /\ IF mouseOver \in Buttons THEN Move(mouseOver) ELSE UNCHANGED <<sent, mouseDown>>
  /\ UNCHANGED <<mouseOver, finger, interrupted, serverVars, presetVars>>

\* The button under the mouse stops the camera, wherever the mouse was pressed.
MouseRelease ==
  /\ mouseHeld /\ ~presetHeld /\ mouseHeld' = FALSE
  /\ IF mouseOver \in Buttons THEN Stop(mouseOver) ELSE UNCHANGED <<sent, mouseDown>>
  /\ UNCHANGED <<mouseOver, finger, interrupted, serverVars, presetVars>>

\* Mutant: sliding off a button leaves the camera moving.
MouseOutOnly ==
  /\ mouseOver \in Buttons /\ mouseOver' = NoButton
  /\ UNCHANGED <<mouseHeld, finger, mouseDown, sent, interrupted, serverVars, presetVars>>

\* stopIfMouseDown.
MouseOut ==
  /\ mouseOver \in Buttons /\ mouseOver' = NoButton
  /\ IF mouseDown[mouseOver] THEN Stop(mouseOver) ELSE UNCHANGED <<sent, mouseDown>>
  /\ UNCHANGED <<mouseHeld, finger, interrupted, serverVars, presetVars>>

\* preventDefault: no mouse events follow the touch.
TouchStart ==
  /\ finger = NoButton
  /\ \E b \in Buttons : finger' = b /\ Move(b)
  /\ UNCHANGED <<mouseOver, mouseHeld, interrupted, serverVars, presetVars>>

\* The touch ends where it began, wherever the finger is by then.
TouchEnd ==
  /\ finger # NoButton /\ Stop(finger)
  /\ finger' = NoButton
  /\ UNCHANGED <<mouseOver, mouseHeld, interrupted, serverVars, presetVars>>

TouchCancel ==
  /\ finger # NoButton /\ finger' = NoButton
  /\ interrupted' = TRUE
  /\ UNCHANGED <<mouseOver, mouseHeld, mouseDown, sent, serverVars, presetVars>>

\* The requests have connections of their own: any of them may be the next to be served.
Served ==
  /\ \E i \in DOMAIN sent :
       /\ sent' = SubSeq(sent, 1, i - 1) \o SubSeq(sent, i + 1, Len(sent))
       /\ overtaken' = (overtaken \/ i # 1)
       /\ \/ moving' = (sent[i] = "move") /\ UNCHANGED ptzFailed
          \/ ptzFailed' = TRUE /\ UNCHANGED moving
  /\ UNCHANGED <<mouseOver, mouseHeld, finger, mouseDown, interrupted, presetVars>>

\* A switch is disabled while the other is on.
PresetSwitchChanged ==
  /\ ~presetHeld
  /\ switch' \in IF switch = "off" THEN {"save", "clear"} ELSE {"off"}
  /\ fresh' = TRUE
  /\ UNCHANGED <<mouseOver, mouseHeld, finger, mouseDown, sent, interrupted, serverVars,
                 presetHeld, noClick>>

\* The view is saved or cleared, or the camera sent to it, when the button is pressed.
PresetPressed ==
  /\ fresh' = (fresh /\ switch = "off")
  /\ \/ /\ ~mouseHeld /\ mouseOver = NoButton /\ mouseHeld' = TRUE /\ presetHeld' = TRUE
        /\ UNCHANGED noClick
     \/ noClick' = TRUE /\ ~presetHeld /\ UNCHANGED <<mouseHeld, presetHeld>>
  /\ UNCHANGED <<mouseOver, finger, mouseDown, sent, interrupted, serverVars, switch>>

\* Mutant: the switches stay.
PresetButtonKept ==
  /\ presetHeld /\ presetHeld' = FALSE /\ mouseHeld' = FALSE
  /\ UNCHANGED <<mouseOver, finger, mouseDown, sent, interrupted, serverVars, fresh,
                 switch, noClick>>

\* The click that a press and a release on the preset button make.
PresetButtonPressed ==
  /\ presetHeld /\ presetHeld' = FALSE /\ mouseHeld' = FALSE
  /\ switch' = "off"
  /\ UNCHANGED <<mouseOver, finger, mouseDown, sent, interrupted, serverVars, fresh, noClick>>

PresetDragged ==
  /\ presetHeld /\ presetHeld' = FALSE /\ mouseHeld' = FALSE
  /\ noClick' = TRUE
  /\ UNCHANGED <<mouseOver, finger, mouseDown, sent, interrupted, serverVars, fresh, switch>>

Next ==
  \/ MouseOver \/ MousePress \/ MouseRelease \/ MouseOut
  \/ TouchStart \/ TouchEnd \/ TouchCancel \/ Served
  \/ PresetSwitchChanged \/ PresetPressed \/ PresetButtonPressed \/ PresetDragged

-----------------------------------------------------------------------------

\* When no button is held and everything was served the camera stands still, whatever the
\* mouse and the finger did: pressed and dragged off, released over another button, one
\* holding what the other lets go.  Excepted are a touch that was cancelled, which sends no
\* stop (interrupted), a stop served before its move (overtaken) and a request that failed
\* (ptzFailed): after each of them the camera may go on moving.
NotLeftMoving ==
  (/\ sent = <<>> /\ finger = NoButton /\ (mouseHeld => mouseOver = NoButton)
   /\ ~overtaken /\ ~ptzFailed /\ ~interrupted) => ~moving

\* A switch serves once: a second view is never overwritten or cleared by the press that
\* should move the camera to it - with a mouse that clicks.  Excepted (noClick) are a touch
\* on a preset button and a mouse dragged from it: each acts and leaves the switch on.
SavesOnce == (switch # "off" /\ ~presetHeld /\ ~noClick) => fresh

=============================================================================
