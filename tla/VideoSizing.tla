---------------------------- MODULE VideoSizing ----------------------------
(***************************************************************************)
(* The size that a page gives its picture                                  *)
(* (client/src/app/video/VideoSizing.ts): by the width or by the height of *)
(* the window, whichever is the closer, for the picture's aspect ratio.    *)
(* Lengths are pixels, ratios and sizes percentages.                       *)
(***************************************************************************)
EXTENDS Integers

CONSTANTS
  Windows,  \* [width, height, phone]: phone is landscape on mobile
  Ratios,   \* of pictures: height to width
  Sizes     \* 100, 50, 33, 25

VARIABLES
  window,
  picture,       \* the ratio of the picture that has come, 0 before one has
  aspectRatio,   \* what the page takes it to be
  size,
  isRecording,
  style,         \* [by, less, of]: the length, of the window's, and how much of it
  backup,        \* timerSubscription
  scrolledToTop

vsVars == <<window, picture, aspectRatio, size, isRecording, style, backup,
            scrolledToTop>>

BordersEtc == 28
NavbarTitleAndControls == 150
RecordingSelectionForm == 380
RecordingTitleAndControls == 220

\* Pictures are wider in a window that is narrow.
AdjustVideoSizeForScreen(w, s) ==
  IF w < 850 /\ s < 100 THEN 100
  ELSE IF w < 1300 /\ s < 50 THEN 50
  ELSE IF w < 1800 /\ s < 33 THEN 33
  ELSE s

ByWidth(less, of) == [by |-> "width", less |-> less, of |-> of]
ByHeight(less) == [by |-> "height", less |-> less, of |-> 100]

\* The heights that are left are compared as the widths that go with them.
RecordingSize(w, a) ==
  IF w.phone
  THEN IF (w.height - BordersEtc) * 100 > (w.width - BordersEtc) * a
       THEN ByWidth(BordersEtc + RecordingSelectionForm, 100)
       ELSE ByHeight(BordersEtc)
  ELSE IF (w.height - BordersEtc - RecordingTitleAndControls) * 100
            > (w.width - RecordingSelectionForm - BordersEtc) * a
       THEN ByWidth(BordersEtc
              + (IF w.width >= 686 THEN RecordingSelectionForm ELSE 0), 100)
       ELSE ByHeight(BordersEtc + RecordingTitleAndControls)

LiveAndMultiSize(w, a, sz) ==
  IF w.phone
  THEN IF (w.height - BordersEtc) * 100 > w.width * a
       THEN ByWidth(BordersEtc, sz) ELSE ByHeight(BordersEtc)
  ELSE IF (w.height - BordersEtc - NavbarTitleAndControls) * 10000 > w.width * a * sz
       THEN ByWidth(BordersEtc, sz) ELSE ByHeight(BordersEtc + NavbarTitleAndControls)

StyleOf(w, a, s, recording) ==
  IF recording THEN RecordingSize(w, a)
  ELSE LiveAndMultiSize(w, a, AdjustVideoSizeForScreen(w.width, s))

\* A phone is scrolled to its picture once.
SetVideoSize(w, a, s, recording) ==
  /\ style' = StyleOf(w, a, s, recording)
  /\ scrolledToTop' = w.phone

-----------------------------------------------------------------------------

Setup ==
  /\ \E s \in Sizes, recording \in BOOLEAN :
       /\ size' = s /\ isRecording' = recording
       /\ SetVideoSize(window, aspectRatio, s, recording)
  /\ backup' = TRUE
  /\ UNCHANGED <<window, picture, aspectRatio>>

ChangeSize ==
  /\ \E s \in Sizes : size' = s /\ SetVideoSize(window, aspectRatio, s, isRecording)
  /\ UNCHANGED <<window, picture, aspectRatio, isRecording, backup>>

\* The window's size changes and its resize event is handled.
Resize ==
  /\ \E w \in Windows : window' = w /\ SetVideoSize(w, aspectRatio, size, isRecording)
  /\ UNCHANGED <<picture, aspectRatio, size, isRecording, backup>>

\* (The browser.)
PictureComes ==
  /\ \E r \in Ratios : picture' = r
  /\ UNCHANGED <<window, aspectRatio, size, isRecording, style, backup, scrolledToTop>>

\* Mutant: the ratio is noted, and used when a size is next set.
PlayEventHandlerNotes ==
  /\ backup' = FALSE
  /\ aspectRatio' = IF picture = 0 THEN aspectRatio ELSE picture
  /\ UNCHANGED <<window, picture, size, isRecording, style, scrolledToTop>>

\* playEventHandler: of the video's play event, or of the timer that stands in for it,
\* which it ends whether or not there is a picture.
PlayEventHandler ==
  /\ backup' = FALSE
  /\ IF picture = 0 THEN UNCHANGED <<aspectRatio, style, scrolledToTop>>
     ELSE /\ aspectRatio' = picture
          /\ SetVideoSize(window, picture, size, isRecording)
  /\ UNCHANGED <<window, picture, size, isRecording>>

Play == picture # 0 /\ PlayEventHandler
BackupTimer == backup /\ PlayEventHandler

Init ==
  /\ window \in Windows
  /\ picture = 0 /\ aspectRatio = 55
  /\ size \in Sizes /\ isRecording \in BOOLEAN /\ backup = TRUE
  /\ style = StyleOf(window, 55, size, isRecording)
  /\ scrolledToTop = window.phone

Next == Setup \/ ChangeSize \/ Resize \/ PictureComes \/ Play \/ BackupTimer

-----------------------------------------------------------------------------

\* The picture as it is displayed, in hundredths of a pixel.
ShownWidth ==
  IF style.by = "width" THEN (window.width - style.less) * style.of
  ELSE ((window.height - style.less) * 10000) \div picture
ShownHeight ==
  IF style.by = "height" THEN (window.height - style.less) * 100
  ELSE ((window.width - style.less) * style.of * picture) \div 100

\* A picture whose ratio is known is all in view, whatever became of window, size and
\* picture since: it is no wider than its column, on a phone than the window, and no
\* higher than what the page leaves it.  (Not a recording in a window below 686 pixels,
\* where the form is over the picture.)
PictureFits ==
  (picture # 0 /\ aspectRatio = picture /\ ~(isRecording /\ window.width < 686)) =>
    /\ ShownWidth <= window.width
         * (IF isRecording \/ window.phone THEN 100
            ELSE AdjustVideoSizeForScreen(window.width, size))
    /\ ShownHeight <= 100 * (window.height -
         (IF window.phone THEN BordersEtc
          ELSE BordersEtc + (IF isRecording THEN RecordingTitleAndControls
                             ELSE NavbarTitleAndControls)))

\* Why it holds: the picture is always styled for the window, size and ratio that are.
IInv ==
  /\ window \in Windows /\ size \in Sizes /\ isRecording \in BOOLEAN
  /\ picture \in Ratios \cup {0} /\ aspectRatio \in Ratios \cup {55}
  /\ style = StyleOf(window, aspectRatio, size, isRecording)

=============================================================================
