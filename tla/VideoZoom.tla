----------------------------- MODULE VideoZoom -----------------------------
(***************************************************************************)
(* Zooming and moving the picture by wheel and mouse, or by touch          *)
(* (client/src/app/video/VideoTransformations.ts, Point.ts,                *)
(* ContainerDimensions.ts), in a container that may be resized or moved at *)
(* any time.  Of the two coordinates, which are treated alike, there is    *)
(* one; lengths and scales are whole, and divisions are rounded down.      *)
(***************************************************************************)
EXTENDS Integers, FiniteSets

CONSTANTS
  Containers, \* [left, width] that the container may have
  MaxScale,   \* 6
  Fingers     \* that may touch

VARIABLES
  device,         \* "mouse" or "touch"
  container,      \* where it is and how wide
  scale, offset,
  measured,       \* cd: the container when it was measured last
  pointer,        \* where the mouse was when the wheel was turned last
  fingers,        \* the positions of those that touch: a partial function
  currentTouches,
  panStart, touchStartDist,
  tapTimer        \* a tap may become a double tap

vzVars == <<device, container, scale, offset, measured, pointer, fingers,
            currentTouches, panStart, touchStartDist, tapTimer>>
view == <<scale, offset, measured>>
gesture == <<fingers, currentTouches, panStart, touchStartDist, tapTimer>>

NotMeasured == [left |-> 0, width |-> 0]

\* Where an event on the container may be.
Positions == container.left .. container.left + container.width
Touches(f) == Cardinality(DOMAIN f)
Abs(n) == IF n < 0 THEN -n ELSE n

\* Of two fingers.
First(f) == CHOOSE i \in DOMAIN f : TRUE
Second(f) == CHOOSE i \in DOMAIN f : i # First(f)

\* hypotenuse: of two fingers, or 0.
Distance(f) == IF Touches(f) = 2 THEN Abs(f[First(f)] - f[Second(f)]) ELSE 0

\* zoom: the middle of the two fingers.
Middle(f) == (f[First(f)] + f[Second(f)]) \div 2

SetScaleWithinLimits(s) == IF s > MaxScale THEN MaxScale ELSE IF s < 1 THEN 1 ELSE s

\* Mutant: the ratio is the wrong way round.
DeltaOffsetInverse(sc0, sc1, m) == ((m - offset) * sc0) \div sc1 - (m - offset)

\* What the offset changes by for the point at m to stay where it is.
DeltaOffset(sc0, sc1, m) == ((m - offset) * sc1) \div sc0 - (m - offset)

\* Mutant: the lower limit is that of the picture's own width.
FixWithinPicture(o, sc, w) ==
  LET upper == IF o > 0 THEN 0 ELSE o IN IF upper < -(w * sc) THEN -(w * sc) ELSE upper

\* fixWithinViewPort: both limits, the lower last.
FixWithinViewPort(o, sc, w) ==
  LET upper == IF o > 0 THEN 0 ELSE o
      lower == w * (1 - sc)
  IN  IF upper < lower THEN lower ELSE upper

ZoomTo(sc, m, w) ==
  /\ scale' = SetScaleWithinLimits(sc)
  /\ offset' = FixWithinViewPort(offset - DeltaOffset(scale, scale', m), scale', w)

PanBy(d) == offset' = FixWithinViewPort(offset + d, scale, measured.width)

\* zoom: the container is measured when the picture is not zoomed.
Zoom(sc, position) ==
  /\ measured' = IF scale = 1 THEN container ELSE measured
  /\ ZoomTo(sc, position - measured'.left, measured'.width)

-----------------------------------------------------------------------------
(* Wheel and mouse *)

\* mouseWheel: the wheel turns as far as doubles or halves the scale.
MouseWheel ==
  /\ device = "mouse"
  /\ \E p \in Positions, turned \in {2 * scale, scale \div 2} :
       Zoom(turned, p) /\ pointer' = p
  /\ UNCHANGED <<device, container, gesture>>

\* The pressed mouse is a finger of its own.
MouseDown ==
  /\ device = "mouse" /\ Touches(fingers) = 0
  /\ \E f \in Fingers, p \in Positions : fingers' = [i \in {f} |-> p] /\ panStart' = p
  /\ UNCHANGED <<device, container, view, pointer, currentTouches, touchStartDist,
                 tapTimer>>

MouseMove ==
  /\ device = "mouse" /\ Touches(fingers) = 1
  /\ \E p \in Positions :
       /\ fingers' = [i \in DOMAIN fingers |-> p]
       /\ IF scale # 1 THEN PanBy(p - panStart) /\ panStart' = p
          ELSE UNCHANGED <<offset, panStart>>
  /\ UNCHANGED <<device, container, scale, measured, pointer, currentTouches,
                 touchStartDist, tapTimer>>

MouseUp ==
  /\ device = "mouse" /\ Touches(fingers) = 1
  /\ fingers' = << >>
  /\ UNCHANGED <<device, container, view, pointer, currentTouches, panStart,
                 touchStartDist, tapTimer>>

-----------------------------------------------------------------------------
(* Touch *)

Reset == scale' = 1 /\ offset' = 0 /\ measured' = container

\* touchStartHandler: a second tap within 300 ms undoes the zoom.
TouchStart ==
  /\ device = "touch"
  /\ \E f \in Fingers \ DOMAIN fingers, p \in Positions :
       LET now == [i \in DOMAIN fingers \cup {f} |->
                     IF i = f THEN p ELSE fingers[i]]
       IN  /\ fingers' = now
           /\ currentTouches' = Touches(now)
           /\ touchStartDist' = IF Touches(now) = 2 THEN Distance(now)
                                ELSE touchStartDist
           /\ panStart' = IF Touches(now) = 1 THEN p ELSE panStart
           /\ tapTimer' = IF Touches(now) = 1 THEN ~tapTimer ELSE tapTimer
           /\ IF \/ Touches(now) = 2 /\ scale = 1
                 \/ Touches(now) = 1 /\ tapTimer
              THEN Reset ELSE UNCHANGED view
  /\ UNCHANGED <<device, container, pointer>>

\* Mutant: a finger that is left of two moves the picture too.
TouchMoveAny ==
  /\ device = "touch"
  /\ \E f \in DOMAIN fingers, p \in Positions :
       LET now == [fingers EXCEPT ![f] = p]
       IN  /\ fingers' = now
           /\ IF Touches(now) = 2 /\ currentTouches = 2
              THEN /\ Zoom(scale + ((Distance(now) - touchStartDist) * 5) \div measured'.width,
                           Middle(now))
                   /\ touchStartDist' = Distance(now) /\ UNCHANGED panStart
              ELSE IF Touches(now) = 1 /\ scale # 1
              THEN /\ PanBy(p - panStart) /\ panStart' = p
                   /\ UNCHANGED <<scale, measured, touchStartDist>>
              ELSE UNCHANGED <<view, panStart, touchStartDist>>
  /\ UNCHANGED <<device, container, pointer, currentTouches, tapTimer>>

\* touchMoveHandler: only while as many fingers touch as at the last touch start.
TouchMove ==
  /\ device = "touch"
  /\ \E f \in DOMAIN fingers, p \in Positions :
       LET now == [fingers EXCEPT ![f] = p]
       IN  /\ fingers' = now
           /\ IF Touches(now) = 2 /\ currentTouches = 2
              THEN /\ Zoom(scale + ((Distance(now) - touchStartDist) * 5) \div measured'.width,
                           Middle(now))
                   /\ touchStartDist' = Distance(now) /\ UNCHANGED panStart
              ELSE IF Touches(now) = 1 /\ currentTouches = 1 /\ scale # 1
              THEN /\ PanBy(p - panStart) /\ panStart' = p
                   /\ UNCHANGED <<scale, measured, touchStartDist>>
              ELSE UNCHANGED <<view, panStart, touchStartDist>>
  /\ UNCHANGED <<device, container, pointer, currentTouches, tapTimer>>

TouchEnd ==
  /\ device = "touch"
  /\ \E f \in DOMAIN fingers :
       /\ fingers' = [i \in DOMAIN fingers \ {f} |-> fingers[i]]
       /\ currentTouches' = IF Touches(fingers) = 1 THEN 0 ELSE currentTouches
  /\ UNCHANGED <<device, container, view, pointer, panStart, touchStartDist, tapTimer>>

TapTimeout ==
  /\ tapTimer /\ tapTimer' = FALSE
  /\ UNCHANGED <<device, container, view, pointer, fingers, currentTouches, panStart,
                 touchStartDist>>

-----------------------------------------------------------------------------
(* The page *)

\* The window, the size chosen or the rest of the page changes: nothing is reset.
Resize ==
  /\ container' \in Containers \ {container}
  /\ UNCHANGED <<device, view, pointer, gesture>>

\* The middle button, another stream, the whole screen and back.
ResetView == Reset /\ UNCHANGED <<device, container, pointer, gesture>>

\* orientationChangeHandler: all is made anew, the fingers staying where they are.
OrientationChange ==
  /\ Reset
  /\ fingers' = IF device = "mouse" THEN << >> ELSE fingers
  /\ currentTouches' = 0 /\ panStart' = 0 /\ touchStartDist' = 0 /\ tapTimer' = FALSE
  /\ UNCHANGED <<device, container, pointer>>

-----------------------------------------------------------------------------

Init ==
  /\ device \in {"mouse", "touch"} /\ container \in Containers
  /\ scale = 1 /\ offset = 0 /\ measured = NotMeasured /\ pointer = 0
  /\ fingers = << >> /\ currentTouches = 0
  /\ panStart = 0 /\ touchStartDist = 0 /\ tapTimer = FALSE

Next ==
  \/ MouseWheel \/ MouseDown \/ MouseMove \/ MouseUp
  \/ TouchStart \/ TouchMove \/ TouchEnd \/ TapTimeout
  \/ Resize \/ ResetView \/ OrientationChange

-----------------------------------------------------------------------------

\* The borders of the picture do not end up inside those of the viewport
\* (VideoTransformations.ts:77), and a picture that is not zoomed is where it was.
\* Excepted is a picture that is zoomed when the container changes its width: until it is
\* reset or no longer zoomed, its limits are those of the width it had.
CoversViewPort ==
  /\ offset <= 0 /\ scale = 1 => offset = 0
  /\ measured.width = container.width => offset + container.width * scale >= container.width

\* A finger that moves alone moves the picture by no more than it has moved.
FollowsFinger ==
  (device = "touch" /\ scale' = scale /\ DOMAIN fingers' = DOMAIN fingers
     /\ Touches(fingers) = 1) =>
    \A i \in DOMAIN fingers :
      Abs(offset' - offset) <= Abs(fingers'[i] - fingers[i])

PictureFollowsFinger == [][FollowsFinger]_vzVars

\* The wheel that magnifies keeps the point of the picture under the mouse where it is, and
\* two fingers the one in their middle, to the unit: m - offset, in units of the scale, is
\* the same after.  So it needs no limit.  Excepted, as above, is a container that is not
\* where it was measured, or was resized away from the fingers' middle.
Focus == IF device = "mouse" THEN pointer ELSE Middle(fingers)

KeepsFocus ==
  LET m == Focus' - container.left IN
  (scale' > scale /\ measured' = container /\ m \in 0 .. container.width) =>
    (m - offset) * scale' - (m - offset') * scale \in 0 .. scale - 1

FocusStays == [][KeepsFocus]_vzVars

\* Why they hold.  The picture is within the limits of the container that was measured, as
\* it was if the picture is zoomed; and the finger that moves a picture was last where the
\* move begins.
ZoomTypes ==
  /\ device \in {"mouse", "touch"} /\ tapTimer \in BOOLEAN
  /\ container \in Containers /\ measured \in Containers \cup {NotMeasured}
  /\ scale \in 1 .. MaxScale /\ offset \in Int /\ pointer \in Int
  /\ DOMAIN fingers \subseteq Fingers /\ fingers \in [DOMAIN fingers -> Int]
  /\ currentTouches \in Nat /\ panStart \in Int /\ touchStartDist \in Int

WithinLimits ==
  /\ offset <= 0 /\ offset >= measured.width * (1 - scale)
  /\ scale # 1 => measured \in Containers

PansFromFinger ==
  device = "touch" =>
    /\ currentTouches = 0 \/ Touches(fingers) <= currentTouches
    /\ currentTouches = 1 /\ scale # 1 => \A i \in DOMAIN fingers : fingers[i] = panStart

IInv == ZoomTypes /\ WithinLimits /\ PansFromFinger

=============================================================================
