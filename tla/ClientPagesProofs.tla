-------------------------- MODULE ClientPagesProofs --------------------------
(***************************************************************************)
(* What holds of the other pages of the client, for any cameras, devices,  *)
(* entries, accounts, tabs, recordings, fingers, windows and numbers of    *)
(* requests: what is done is what the user did, what is shown is what the  *)
(* server has, and recordings and pictures are where they belong.  One     *)
(* part moves at a time, so the inductive invariants of the parts are kept *)
(* together.                                                               *)
(***************************************************************************)
EXTENDS MCClientPages, SequenceTheorems, FiniteSetTheorems, WellFoundedInduction, TLAPS

-----------------------------------------------------------------------------
(* Lemmas about sequences. *)

(* What takes a call out of those a page waits for, and what it leaves at every index. *)
Removed(s, i) == SubSeq(s, 1, i - 1) \o SubSeq(s, i + 1, Len(s))

LEMMA RemovedAt ==
  ASSUME NEW S, NEW s \in Seq(S), NEW i \in DOMAIN s
  PROVE  /\ Removed(s, i) \in Seq(S)
         /\ Len(s) \in Nat \ {0} /\ DOMAIN s = 1 .. Len(s)
         /\ Len(Removed(s, i)) = Len(s) - 1
         /\ DOMAIN Removed(s, i) = 1 .. Len(s) - 1
         /\ \A j \in 1 .. Len(s) - 1 :
              Removed(s, i)[j] = IF j < i THEN s[j] ELSE s[j + 1]
<1>. DEFINE a == SubSeq(s, 1, i - 1)
            b == SubSeq(s, i + 1, Len(s))
<1>1. /\ Len(s) \in Nat \ {0} /\ DOMAIN s = 1 .. Len(s) /\ i \in 1 .. Len(s)
      /\ \A j \in 1 .. Len(s) : s[j] \in S
  BY LenProperties
<1>2. /\ a \in Seq(S) /\ Len(a) = i - 1
      /\ \A j \in 1 .. i - 1 : a[j] = s[j]
  <2>1. \A j \in 1 .. i - 1 : s[j] \in S
    BY <1>1
  <2>2. 1 \in Int /\ i - 1 \in Int
    BY <1>1
  <2>3. /\ a \in Seq(S) /\ Len(a) = IF 1 <= i - 1 THEN (i - 1) - 1 + 1 ELSE 0
        /\ \A j \in 1 .. (i - 1) - 1 + 1 : a[j] = s[1 + j - 1]
    BY <2>1, <2>2, SubSeqProperties
  <2>. QED  BY <1>1, <2>3
<1>3. /\ b \in Seq(S) /\ Len(b) = Len(s) - i
      /\ \A j \in 1 .. Len(s) - i : b[j] = s[i + j]
  <2>1. \A j \in i + 1 .. Len(s) : s[j] \in S
    BY <1>1
  <2>2. i + 1 \in Int /\ Len(s) \in Int
    BY <1>1
  <2>3. /\ b \in Seq(S) /\ Len(b) = IF i + 1 <= Len(s) THEN Len(s) - (i + 1) + 1 ELSE 0
        /\ \A j \in 1 .. Len(s) - (i + 1) + 1 : b[j] = s[(i + 1) + j - 1]
    BY <2>1, <2>2, SubSeqProperties
  <2>. QED  BY <1>1, <2>3
<1>4. Removed(s, i) = a \o b
  BY DEF Removed
<1>. HIDE DEF a, b
<1>5. /\ a \o b \in Seq(S) /\ Len(a \o b) = Len(s) - 1
      /\ \A j \in 1 .. Len(s) - 1 :
           (a \o b)[j] = IF j <= i - 1 THEN a[j] ELSE b[j - (i - 1)]
  <2>1. Len(a) + Len(b) = Len(s) - 1
    BY <1>1, <1>2, <1>3
  <2>2. /\ a \o b \in Seq(S) /\ Len(a \o b) = Len(a) + Len(b)
        /\ \A j \in 1 .. Len(a) + Len(b) :
             (a \o b)[j] = IF j <= Len(a) THEN a[j] ELSE b[j - Len(a)]
    BY <1>2, <1>3, ConcatProperties
  <2>. QED  BY <1>2, <2>1, <2>2
<1>6. \A j \in 1 .. Len(s) - 1 : (a \o b)[j] = IF j < i THEN s[j] ELSE s[j + 1]
  <2>. TAKE j \in 1 .. Len(s) - 1
  <2>1. CASE j < i
    BY <1>1, <1>2, <1>5, <2>1
  <2>2. CASE ~(j < i)
    <3>1. j - (i - 1) \in 1 .. Len(s) - i /\ i + (j - (i - 1)) = j + 1
      BY <1>1, <2>2
    <3>2. b[j - (i - 1)] = s[j + 1]
      BY <1>3, <3>1
    <3>. QED  BY <1>1, <1>5, <2>2, <3>2
  <2>. QED  BY <2>1, <2>2
<1>. QED  BY <1>1, <1>4, <1>5, <1>6, LenProperties

(* What Append does, at every index. *)
LEMMA AppendAt ==
  ASSUME NEW S, NEW s \in Seq(S), NEW elt \in S
  PROVE  /\ Append(s, elt) \in Seq(S)
         /\ Len(s) \in Nat /\ DOMAIN s = 1 .. Len(s)
         /\ Len(Append(s, elt)) = Len(s) + 1
         /\ DOMAIN Append(s, elt) = 1 .. Len(s) + 1
         /\ \A i \in 1 .. Len(s) : Append(s, elt)[i] = s[i]
         /\ Append(s, elt)[Len(s) + 1] = elt
BY AppendProperties

(* A change of one element. *)
LEMMA ChangedAt ==
  ASSUME NEW S, NEW s \in Seq(S), NEW i \in DOMAIN s, NEW elt \in S
  PROVE  /\ [s EXCEPT ![i] = elt] \in Seq(S)
         /\ Len([s EXCEPT ![i] = elt]) = Len(s)
         /\ DOMAIN [s EXCEPT ![i] = elt] = DOMAIN s
         /\ [s EXCEPT ![i] = elt][i] = elt
         /\ \A j \in DOMAIN s : j # i => [s EXCEPT ![i] = elt][j] = s[j]
BY ExceptSeq

(* The only element goes. *)
LEMMA OnlyGoes ==
  ASSUME NEW S, NEW s \in Seq(S), Len(s) <= 1, NEW i \in DOMAIN s
  PROVE  i = 1 /\ Len(s) = 1 /\ Removed(s, i) = << >>
<1>0. Len(s) \in Nat /\ i \in Int /\ 1 <= i /\ i <= Len(s) /\ Len(s) <= 1
  BY LenProperties
<1>1. Len(s) = 1 /\ i = 1
  <2>. DEFINE n == Len(s)
  <2>1. n \in Nat /\ i \in Int /\ 1 <= i /\ i <= n /\ n <= 1
    BY <1>0
  <2>. HIDE DEF n
  <2>2. n = 1 /\ i = 1
    BY <2>1
  <2>. QED  BY <2>2 DEF n
<1>2. Removed(s, i) \in Seq(S) /\ Len(Removed(s, i)) = 0
  BY <1>1, RemovedAt
<1>. QED  BY <1>1, <1>2, EmptySeq

(* The first element goes: what was last stays last. *)
LEMMA FirstGoes ==
  ASSUME NEW S, NEW s \in Seq(S), 1 \in DOMAIN s
  PROVE  /\ Removed(s, 1) \in Seq(S)
         /\ Len(Removed(s, 1)) = Len(s) - 1
         /\ Len(s) > 1 => Removed(s, 1)[Len(s) - 1] = s[Len(s)]
<1>1. /\ Len(s) \in Nat \ {0} /\ Removed(s, 1) \in Seq(S)
      /\ Len(Removed(s, 1)) = Len(s) - 1
      /\ \A j \in 1 .. Len(s) - 1 :
           Removed(s, 1)[j] = IF j < 1 THEN s[j] ELSE s[j + 1]
  BY RemovedAt
<1>2. ASSUME Len(s) > 1
      PROVE  Removed(s, 1)[Len(s) - 1] = s[Len(s)]
  <2>1. Len(s) - 1 \in 1 .. Len(s) - 1 /\ ~(Len(s) - 1 < 1) /\ (Len(s) - 1) + 1 = Len(s)
    BY <1>1, <1>2
  <2>. QED  BY <1>1, <2>1
<1>. QED  BY <1>1, <1>2

-----------------------------------------------------------------------------
(* Lemmas about numbers: the least, induction as membership of a set, and quotients that *)
(* are rounded down.                                                                      *)

LEMMA LeastOf ==
  ASSUME NEW T, T \subseteq Nat, T # {}
  PROVE  \E x \in T : \A y \in T : x <= y
<1>1. IsWellFoundedOn(OpToRel(<, Nat), Nat)
  BY NatLessThanWellFounded
<1>2. PICK x \in T : \A y \in T : ~(<<y, x>> \in OpToRel(<, Nat))
  BY <1>1, WFMin
<1>3. ASSUME NEW y \in T PROVE x <= y
  <2>1. ~(<<y, x>> \in OpToRel(<, Nat))
    BY <1>2
  <2>2. y \in Nat /\ x \in Nat
    OBVIOUS
  <2>3. ~(y < x)
    BY <2>1, <2>2, Zenon DEF OpToRel
  <2>. QED  BY <2>2, <2>3
<1>. QED  BY <1>3

LEMMA UpTo ==
  ASSUME NEW T, 0 \in T, \A n \in Nat : n \in T => n + 1 \in T
  PROVE  Nat \subseteq T
<1>. DEFINE Others == {n \in Nat : n \notin T}
<1>. SUFFICES ASSUME Others # {} PROVE FALSE
  OBVIOUS
<1>1. PICK x \in Others : \A y \in Others : x <= y
  <2>1. Others \subseteq Nat
    OBVIOUS
  <2>. HIDE DEF Others
  <2>. QED  BY <2>1, LeastOf
<1>2. x \in Nat /\ x # 0 /\ x \notin T
  OBVIOUS
<1>3. x - 1 \in Nat /\ x - 1 \notin Others
  <2>1. x - 1 \in Nat /\ ~(x <= x - 1)
    BY <1>2
  <2>. QED  BY <1>1, <2>1
<1>4. x - 1 \in T
  BY <1>3
<1>5. (x - 1) + 1 \in T
  BY <1>3, <1>4
<1>. QED  BY <1>2, <1>5

LEMMA QuotientIsBetween ==
  ASSUME NEW x \in Int, NEW d \in Nat \ {0}
  PROVE  /\ x \div d \in Int
         /\ d * (x \div d) <= x /\ x < d * (x \div d) + d
OBVIOUS

LEMMA QuotientAtLeast ==
  ASSUME NEW x \in Int, NEW d \in Nat \ {0}, NEW q \in Int, q * d <= x
  PROVE  q <= x \div d
<1>. DEFINE p == x \div d
<1>1. p \in Int /\ x < d * p + d
  BY QuotientIsBetween
<1>. HIDE DEF p
<1>2. q <= p
  <2>. SUFFICES ASSUME p + 1 <= q PROVE FALSE
    BY <1>1
  <2>1. d * (p + 1) <= d * q /\ d * (p + 1) = d * p + d /\ d * q = q * d
    BY <1>1
  <2>2. d * p \in Int /\ q * d \in Int
    BY <1>1
  <2>. QED  BY <1>1, <2>1, <2>2
<1>. QED  BY <1>2 DEF p

(* Rounded down, a quotient is at most what bounds it. *)
LEMMA QuotientAtMost ==
  ASSUME NEW x \in Int, NEW d \in Nat \ {0}, NEW q \in Int, x <= q * d
  PROVE  x \div d \in Int /\ x \div d <= q
<1>. DEFINE p == x \div d
<1>1. p \in Int /\ d * p <= x
  OBVIOUS
<1>. HIDE DEF p
<1>2. p <= q
  <2>. SUFFICES ASSUME q + 1 <= p PROVE FALSE
    BY <1>1
  <2>1. d * (q + 1) <= d * p /\ d * (q + 1) = q * d + d
    BY <1>1
  <2>2. d * p \in Int /\ q * d \in Int
    BY <1>1
  <2>. QED  BY <1>1, <2>1, <2>2
<1>. QED  BY <1>1, <1>2 DEF p

(* An element more, or less. *)
LEMMA OneMoreOrLess ==
  ASSUME NEW D, IsFiniteSet(D), NEW i
  PROVE  /\ i \notin D => Cardinality(D \cup {i}) = Cardinality(D) + 1
         /\ i \in D => Cardinality(D \ {i}) = Cardinality(D) - 1
         /\ Cardinality(D) \in Nat
         /\ Cardinality(D) = 0 => D = {}
BY FS_AddElement, FS_RemoveElement, FS_CardinalityType, FS_EmptySet

-----------------------------------------------------------------------------
(* RecordingPlayer: the cookie of the camera, and the speed. *)

PlayerLevels == RpLevels \cup {RpDefault}
PlayerSound == [level : PlayerLevels, mute : BOOLEAN]

PlayerInv ==
  /\ rpCam \in RpCams /\ rpVolume \in PlayerLevels /\ rpMuted \in BOOLEAN
  /\ rpCookie \in [RpCams -> {<< >>} \cup {<<s>> : s \in PlayerSound}]
  /\ RP!RecordingCookie /\ RP!PlaysAtItsSpeed

LEMMA PlayerStep ==
  ASSUME PlayerInv, RP!Next \/ UNCHANGED rpVars
  PROVE  PlayerInv'
<1>. USE DEF PlayerInv, PlayerLevels, PlayerSound, RP!RecordingCookie, RP!PlaysAtItsSpeed,
             RP!sound, RP!playback
<1>1. CASE RP!SetupRecording
  <2>1. PICK c \in RpCams : rpCam' = c /\ RP!SetInitialLevel(c)
    BY <1>1 DEF RP!SetupRecording
  <2>. DEFINE initial == IF rpCookie[c] = << >> THEN [level |-> RpDefault, mute |-> FALSE]
                         ELSE rpCookie[c][1]
  <2>2. initial \in PlayerSound
    <3>1. CASE rpCookie[c] = << >>
      BY <3>1
    <3>2. CASE rpCookie[c] # << >>
      <4>1. PICK s \in PlayerSound : rpCookie[c] = <<s>>
        BY <3>2
      <4>. QED  BY <3>2, <4>1
    <3>. QED  BY <3>1, <3>2
  <2>3. /\ rpVolume' = initial.level /\ rpMuted' = initial.mute
        /\ rpCookie' = [rpCookie EXCEPT ![c] = <<initial>>]
    BY <2>1 DEF RP!SetInitialLevel
  <2>. HIDE DEF initial
  <2>4. initial = [level |-> initial.level, mute |-> initial.mute]
    BY <2>2
  <2>5. rpCookie' \in [RpCams -> {<< >>} \cup {<<s>> : s \in PlayerSound}]
    BY <2>2, <2>3
  <2>6. rpCookie'[rpCam'] = <<initial>>
    BY <2>1, <2>3
  <2>. QED  BY <1>1, <2>1, <2>2, <2>3, <2>4, <2>5, <2>6 DEF RP!SetupRecording
<1>2. CASE RP!SetSource
  BY <1>2 DEF RP!SetSource
<1>3. CASE RP!Sound
  <2>1. CASE \E m \in BOOLEAN : RP!Mute(m)
    BY <1>3, <2>1 DEF RP!Sound, RP!Mute
  <2>2. CASE \E v \in RpLevels : RP!SetVolume(v)
    BY <1>3, <2>2 DEF RP!Sound, RP!SetVolume
  <2>. QED  BY <1>3, <2>1, <2>2 DEF RP!Sound
<1>4. CASE RP!PlayOrPause
  BY <1>4 DEF RP!PlayOrPause
<1>5. CASE RP!FastForward
  BY <1>5 DEF RP!FastForward
<1>6. CASE RP!Ended
  BY <1>6 DEF RP!Ended
<1>7. CASE UNCHANGED rpVars
  BY <1>7 DEF rpVars
<1>. QED  BY <1>1, <1>2, <1>3, <1>4, <1>5, <1>6, <1>7 DEF RP!Next

LEMMA PlayerInit == RP!Init => PlayerInv
<1>. SUFFICES ASSUME RP!Init
              PROVE  PlayerInv
  OBVIOUS
<1>1. rpCookie \in [RpCams -> {<< >>} \cup {<<s>> : s \in PlayerSound}]
  BY DEF RP!Init, PlayerSound, PlayerLevels
<1>. QED
  BY <1>1 DEF RP!Init, PlayerInv, PlayerLevels, RP!RecordingCookie, RP!PlaysAtItsSpeed

-----------------------------------------------------------------------------
(* Ptz: the camera that moves is held, and a switch serves once. *)

(* The last request, or with none on its way what the camera does, is a movement. *)
LastIsMove == IF sent = << >> THEN moving ELSE sent[Len(sent)] = "move"
Held ==
  \/ finger \in Buttons
  \/ mouseHeld /\ mouseOver \in Buttons /\ mouseDown[mouseOver]

PtzInv ==
  /\ mouseOver \in Buttons \cup {PZ!NoButton} /\ finger \in Buttons \cup {PZ!NoButton}
  /\ mouseHeld \in BOOLEAN /\ mouseDown \in [Buttons -> BOOLEAN]
  /\ sent \in Seq({"move", "stop"}) /\ moving \in BOOLEAN
  /\ ptzOvertaken \in BOOLEAN /\ ptzFailed \in BOOLEAN /\ interrupted \in BOOLEAN
  /\ presetHeld => mouseOver = PZ!NoButton
  /\ (~ptzOvertaken /\ ~ptzFailed /\ ~interrupted /\ LastIsMove) => Held
  /\ PZ!SavesOnce

(* A request is sent last. *)
LEMMA SentLast ==
  ASSUME PtzInv, NEW op \in {"move", "stop"}, PZ!Send(op)
  PROVE  sent' \in Seq({"move", "stop"}) /\ (LastIsMove' <=> op = "move")
<1>1. /\ Len(sent) \in Nat /\ sent' \in Seq({"move", "stop"}) /\ Len(sent') = Len(sent) + 1
      /\ sent'[Len(sent) + 1] = op
  BY AppendAt DEF PtzInv, PZ!Send
<1>2. sent' # << >>
  BY <1>1, EmptySeq
<1>. QED  BY <1>1, <1>2 DEF LastIsMove

LEMMA PtzStep ==
  ASSUME PtzInv, PZ!Next \/ UNCHANGED pzVars
  PROVE  PtzInv'
<1>0. PZ!NoButton \notin Buttons
  BY ClientPagesAssumption DEF PZ!NoButton
<1>. USE <1>0 DEF PtzInv, Held, PZ!SavesOnce, PZ!serverVars, PZ!presetVars
<1>1. CASE PZ!MouseOver
  BY <1>1 DEF PZ!MouseOver, LastIsMove
<1>2. CASE PZ!MousePress
  <2>1. CASE mouseOver \in Buttons
    <3>1. PZ!Send("move") /\ mouseDown' = [mouseDown EXCEPT ![mouseOver] = TRUE]
      BY <1>2, <2>1 DEF PZ!MousePress, PZ!Move
    <3>2. sent' \in Seq({"move", "stop"})
      BY <3>1, SentLast
    <3>. QED  BY <1>2, <2>1, <3>1, <3>2 DEF PZ!MousePress
  <2>2. CASE mouseOver \notin Buttons
    BY <1>2, <2>2 DEF PZ!MousePress, LastIsMove
  <2>. QED  BY <2>1, <2>2
<1>3. CASE PZ!MouseRelease
  <2>1. CASE mouseOver \in Buttons
    <3>1. PZ!Send("stop") /\ mouseDown' = [mouseDown EXCEPT ![mouseOver] = FALSE]
      BY <1>3, <2>1 DEF PZ!MouseRelease, PZ!Stop
    <3>2. sent' \in Seq({"move", "stop"}) /\ ~LastIsMove'
      BY <3>1, SentLast
    <3>. QED  BY <1>3, <2>1, <3>1, <3>2 DEF PZ!MouseRelease
  <2>2. CASE mouseOver \notin Buttons
    BY <1>3, <2>2 DEF PZ!MouseRelease, LastIsMove
  <2>. QED  BY <2>1, <2>2
<1>4. CASE PZ!MouseOut
  <2>1. CASE mouseDown[mouseOver]
    <3>1. PZ!Send("stop") /\ mouseDown' = [mouseDown EXCEPT ![mouseOver] = FALSE]
      BY <1>4, <2>1 DEF PZ!MouseOut, PZ!Stop
    <3>2. sent' \in Seq({"move", "stop"}) /\ ~LastIsMove'
      BY <3>1, SentLast
    <3>. QED  BY <1>4, <3>1, <3>2 DEF PZ!MouseOut
  <2>2. CASE ~mouseDown[mouseOver]
    BY <1>4, <2>2 DEF PZ!MouseOut, LastIsMove
  <2>. QED  BY <2>1, <2>2
<1>5. CASE PZ!TouchStart
  <2>1. PICK b \in Buttons : /\ finger' = b /\ PZ!Send("move")
                             /\ mouseDown' = [mouseDown EXCEPT ![b] = TRUE]
    BY <1>5 DEF PZ!TouchStart, PZ!Move
  <2>2. sent' \in Seq({"move", "stop"})
    BY <2>1, SentLast
  <2>. QED  BY <1>5, <2>1, <2>2 DEF PZ!TouchStart
<1>6. CASE PZ!TouchEnd
  <2>1. PZ!Send("stop") /\ mouseDown' = [mouseDown EXCEPT ![finger] = FALSE]
    BY <1>6 DEF PZ!TouchEnd, PZ!Stop
  <2>2. sent' \in Seq({"move", "stop"}) /\ ~LastIsMove'
    BY <2>1, SentLast
  <2>. QED  BY <1>6, <2>1, <2>2 DEF PZ!TouchEnd
<1>7. CASE PZ!TouchCancel
  BY <1>7 DEF PZ!TouchCancel, LastIsMove
<1>8. CASE PZ!Served
  <2>1. PICK i \in DOMAIN sent :
          /\ sent' = Removed(sent, i)
          /\ ptzOvertaken' = (ptzOvertaken \/ i # 1)
          /\ \/ moving' = (sent[i] = "move") /\ UNCHANGED ptzFailed
             \/ ptzFailed' = TRUE /\ UNCHANGED moving
    BY <1>8 DEF PZ!Served, Removed
  <2>2. sent' \in Seq({"move", "stop"})
    BY <2>1, RemovedAt
  <2>3. ASSUME ~ptzOvertaken', ~ptzFailed', LastIsMove'
        PROVE  LastIsMove
    <3>1. i = 1 /\ moving' = (sent[1] = "move")
      BY <2>1, <2>3
    <3>2. /\ Len(sent) \in Nat \ {0} /\ Len(sent') = Len(sent) - 1
          /\ Len(sent) > 1 => sent'[Len(sent) - 1] = sent[Len(sent)]
      BY <2>1, <3>1, FirstGoes, RemovedAt
    <3>3. sent # << >>
      BY <3>2, EmptySeq
    <3>4. CASE Len(sent) = 1
      <4>1. sent' = << >>
        BY <2>2, <3>2, <3>4, EmptySeq
      <4>. QED  BY <2>3, <3>1, <3>3, <3>4, <4>1 DEF LastIsMove
    <3>5. CASE Len(sent) # 1
      <4>1. sent' # << >> /\ sent'[Len(sent')] = sent[Len(sent)]
        BY <3>2, <3>5, EmptySeq
      <4>. QED  BY <2>3, <3>3, <4>1 DEF LastIsMove
    <3>. QED  BY <3>4, <3>5
  <2>4. /\ UNCHANGED <<mouseOver, mouseHeld, finger, mouseDown, interrupted, switch, fresh,
                       presetHeld, noClick>>
        /\ moving' \in BOOLEAN /\ ptzFailed' \in BOOLEAN /\ ptzOvertaken' \in BOOLEAN
    BY <1>8, <2>1 DEF PZ!Served
  <2>5. (~ptzFailed' => ~ptzFailed) /\ (~ptzOvertaken' => ~ptzOvertaken)
    <3>1. ~ptzFailed' => ~ptzFailed
      <4>1. CASE moving' = (sent[i] = "move") /\ UNCHANGED ptzFailed
        BY <4>1
      <4>2. CASE ptzFailed' = TRUE /\ UNCHANGED moving
        BY <4>2
      <4>. QED  BY <2>1, <4>1, <4>2
    <3>2. ~ptzOvertaken' => ~ptzOvertaken
      <4>1. ptzOvertaken' = (ptzOvertaken \/ i # 1)
        BY <2>1
      <4>. QED  BY ONLY <4>1, Zenon
    <3>. QED  BY <3>1, <3>2
  <2>. QED  BY <2>1, <2>2, <2>3, <2>4, <2>5
<1>9. CASE PZ!PresetSwitchChanged
  BY <1>9 DEF PZ!PresetSwitchChanged, LastIsMove
<1>10. CASE PZ!PresetPressed
  <2>1. /\ UNCHANGED <<mouseOver, finger, mouseDown, sent, interrupted, moving, ptzOvertaken,
                       ptzFailed, switch>>
        /\ LastIsMove' <=> LastIsMove
    BY <1>10 DEF PZ!PresetPressed, LastIsMove
  <2>2. CASE ~mouseHeld /\ mouseOver = PZ!NoButton /\ mouseHeld' = TRUE /\ presetHeld' = TRUE
    BY <2>1, <2>2
  <2>3. CASE noClick' = TRUE /\ UNCHANGED <<mouseHeld, presetHeld>>
    BY <2>1, <2>3
  <2>. QED  BY <1>10, <2>2, <2>3 DEF PZ!PresetPressed
<1>11. CASE PZ!PresetButtonPressed
  BY <1>11 DEF PZ!PresetButtonPressed, LastIsMove
<1>12. CASE PZ!PresetDragged
  BY <1>12 DEF PZ!PresetDragged, LastIsMove
<1>13. CASE UNCHANGED pzVars
  BY <1>13 DEF pzVars, LastIsMove
<1>. QED
  BY <1>1, <1>2, <1>3, <1>4, <1>5, <1>6, <1>7, <1>8, <1>9, <1>10, <1>11, <1>12, <1>13
  DEF PZ!Next

LEMMA PtzInit == PZ!Init => PtzInv
BY EmptySeq DEF PZ!Init, PtzInv, LastIsMove, PZ!SavesOnce

LEMMA NothingMoves ==
  ASSUME PtzInv
  PROVE  PZ!NotLeftMoving
BY ClientPagesAssumption DEF PtzInv, LastIsMove, Held, PZ!NotLeftMoving, PZ!NoButton

-----------------------------------------------------------------------------
(* AccountForms: what is confirmed, and what is known of the guest account. *)

AfRequest ==
  [kind : {"get", "set"}, valid : BOOLEAN, guest : BOOLEAN,
   answer : {"none", "ok", "refused", "error"}]

(* What the one request on its way tells, or will have done. *)
TellsGuest(r) ==
  /\ r.kind = "get" /\ r.answer = "ok" => r.guest = guestEnabled
  /\ r.kind = "set" => r.guest = originalEnabledState
  /\ r.kind = "set" /\ r.answer = "ok" => guestEnabled = originalEnabledState

FormsTypes ==
  /\ guestEnabled \in BOOLEAN /\ guestBox \in BOOLEAN /\ originalEnabledState \in BOOLEAN
  /\ refused \in BOOLEAN /\ matches \in BOOLEAN
  /\ afRequests \in Seq(AfRequest) /\ afCrossed \in BOOLEAN /\ afFailed \in BOOLEAN

GuestConfirmed == page = "guest" /\ matches => new = confirm

GuestTold ==
  page = "guest" /\ ~afCrossed =>
    /\ Len(afRequests) = 0 /\ ~afFailed => originalEnabledState = guestEnabled
    /\ Len(afRequests) = 1 => TellsGuest(afRequests[1])

FormsInv == FormsTypes /\ GuestConfirmed /\ GuestTold

(* An answer that met no other request leaves none. *)
LEMMA FormAnswered ==
  ASSUME FormsTypes, NEW i \in DOMAIN afRequests, NEW kind, NEW answers,
         GU!Answered(i, kind, answers)
  PROVE  /\ afRequests' \in Seq(AfRequest) /\ afCrossed' \in BOOLEAN
         /\ afRequests[i].kind = kind /\ afRequests[i].answer \in answers
         /\ afCrossed => afCrossed'
         /\ ~afCrossed' => i = 1 /\ Len(afRequests) = 1 /\ Len(afRequests') = 0
<1>1. afRequests' = Removed(afRequests, i) /\ afCrossed' = (afCrossed \/ Len(afRequests) > 1)
  BY DEF GU!Answered, Removed
<1>2. afRequests' \in Seq(AfRequest)
  BY <1>1, RemovedAt DEF FormsTypes
<1>3. ASSUME ~afCrossed'
      PROVE  i = 1 /\ Len(afRequests) = 1 /\ Len(afRequests') = 0
  <2>1. Len(afRequests) \in Nat /\ ~(Len(afRequests) > 1)
    BY <1>1, <1>3, LenProperties DEF FormsTypes
  <2>2. Len(afRequests) <= 1
    BY <2>1
  <2>. QED  BY <1>1, <2>2, OnlyGoes, EmptySeq DEF FormsTypes
<1>. QED  BY <1>1, <1>2, <1>3 DEF GU!Answered, FormsTypes

LEMMA FormsStep ==
  ASSUME FormsInv, GU!Next \/ UNCHANGED guVars
  PROVE  FormsInv'
<1>0. /\ FormsTypes /\ GuestConfirmed /\ GuestTold
      /\ Len(afRequests) \in Nat /\ DOMAIN afRequests = 1 .. Len(afRequests)
      /\ \A i \in DOMAIN afRequests : afRequests[i] \in AfRequest
  BY LenProperties, ElementOfSeq DEF FormsInv, FormsTypes
<1>1. CASE GU!OpenPage
  <2>1. PICK p \in {"email", "password", "guest"} : GU!Fresh(p)
    BY <1>1 DEF GU!OpenPage
  <2>2. GU!Ask \in AfRequest
    BY DEF GU!Ask, AfRequest
  <2>3. /\ <<GU!Ask>> \in Seq(AfRequest) /\ Len(<<GU!Ask>>) = 1 /\ <<GU!Ask>>[1] = GU!Ask
        /\ << >> \in Seq(AfRequest)
    BY <2>2
  <2>4. afRequests' \in Seq(AfRequest)
    BY <2>1, <2>3 DEF GU!Fresh
  <2>5. page' = "guest" => Len(afRequests') = 1 /\ afRequests'[1] = GU!Ask
    BY <2>1, <2>3 DEF GU!Fresh
  <2>6. FormsTypes' /\ GuestConfirmed'
    BY <1>0, <1>1, <2>1, <2>4 DEF GU!Fresh, GU!OpenPage, FormsTypes, GuestConfirmed
  <2>7. GuestTold'
    BY <2>5 DEF GuestTold, TellsGuest, GU!Ask
  <2>. QED  BY <2>6, <2>7 DEF FormsInv
<1>2. CASE GU!TypeCurrent \/ GU!TypeNew \/ GU!TypeConfirm \/ GU!SetEnabled
  <2>1. /\ UNCHANGED <<page, guestEnabled, originalEnabledState, afRequests, afCrossed, afFailed>>
        /\ refused' \in BOOLEAN /\ matches' \in BOOLEAN /\ guestBox' \in BOOLEAN
    BY <1>0, <1>2 DEF GU!TypeCurrent, GU!TypeNew, GU!TypeConfirm, GU!SetEnabled, GU!SetNew,
                      FormsTypes
  <2>2. GuestConfirmed'
    BY <1>0, <1>2 DEF GU!TypeCurrent, GU!TypeNew, GU!TypeConfirm, GU!SetEnabled, GU!SetNew,
                      GuestConfirmed
  <2>. QED  BY <1>0, <2>1, <2>2 DEF FormsInv, FormsTypes, GuestTold, TellsGuest
<1>3. CASE GU!FormSubmitted
  <2>1. GU!Submission \in AfRequest
    BY <1>0 DEF GU!Submission, AfRequest, FormsTypes
  <2>2. /\ afRequests' \in Seq(AfRequest) /\ Len(afRequests') = Len(afRequests) + 1
        /\ afRequests'[Len(afRequests) + 1] = GU!Submission
    BY <1>0, <1>3, <2>1, AppendAt DEF GU!FormSubmitted, FormsTypes
  <2>3. FormsTypes' /\ GuestConfirmed'
    BY <1>0, <1>3, <2>2 DEF GU!FormSubmitted, FormsTypes, GuestConfirmed
  <2>4. GuestTold'
    BY <1>0, <1>3, <2>2 DEF GU!FormSubmitted, GU!Submission, GuestTold, TellsGuest
  <2>. QED  BY <2>3, <2>4 DEF FormsInv
<1>4. CASE GU!Serve
  <2>1. PICK i \in DOMAIN afRequests, answer \in {"ok", "refused", "error"} :
          /\ guestEnabled' = IF afRequests[i].kind = "set" /\ answer = "ok" /\ page = "guest"
                             THEN afRequests[i].guest ELSE guestEnabled
          /\ afRequests' = [afRequests EXCEPT ![i].answer = answer,
               ![i].guest = IF afRequests[i].kind = "get" THEN guestEnabled ELSE @]
    BY <1>4 DEF GU!Serve
  <2>. DEFINE r == afRequests[i]
              s == [r EXCEPT !.answer = answer,
                             !.guest = IF r.kind = "get" THEN guestEnabled ELSE r.guest]
  <2>2. /\ r \in AfRequest /\ s \in AfRequest /\ s.kind = r.kind /\ s.answer = answer
        /\ s.guest = IF r.kind = "get" THEN guestEnabled ELSE r.guest
    BY <1>0, <2>1 DEF AfRequest, FormsTypes
  <2>3. afRequests' = [afRequests EXCEPT ![i] = s]
    BY <1>0, <2>1, <2>2 DEF AfRequest
  <2>. HIDE DEF s
  <2>4. /\ afRequests' \in Seq(AfRequest) /\ Len(afRequests') = Len(afRequests)
        /\ afRequests'[i] = s
    BY <1>0, <2>2, <2>3, ChangedAt DEF FormsTypes
  <2>5. UNCHANGED <<page, new, confirm, refused, matches, guestBox, originalEnabledState,
                    afCrossed, afFailed>>
    BY <1>4 DEF GU!Serve
  <2>6. FormsTypes' /\ GuestConfirmed'
    BY <1>0, <2>1, <2>2, <2>4, <2>5 DEF FormsTypes, GuestConfirmed, AfRequest
  <2>7. ASSUME page = "guest", ~afCrossed, Len(afRequests) = 1
        PROVE  TellsGuest(afRequests[1])'
    <3>1. i = 1 /\ TellsGuest(r)
      BY <1>0, <2>7 DEF GuestTold
    <3>. QED  BY <2>1, <2>2, <2>4, <2>5, <2>7, <3>1 DEF TellsGuest
  <2>8. Len(afRequests) # 0
    BY <1>0, <2>1
  <2>9. GuestTold'
    BY <2>4, <2>5, <2>7, <2>8 DEF GuestTold
  <2>. QED  BY <2>6, <2>9 DEF FormsInv
<1>5. CASE GU!GotEmail
  <2>1. PICK i \in DOMAIN afRequests :
          GU!Answered(i, "get", {"ok"}) /\ \E email \in Entries : GU!SetNew(email)
    BY <1>5 DEF GU!GotEmail
  <2>2. /\ page = "email"
        /\ UNCHANGED <<page, guestEnabled, confirm, guestBox, originalEnabledState, afFailed>>
    BY <1>5 DEF GU!GotEmail
  <2>3. refused' \in BOOLEAN /\ matches' \in BOOLEAN
    BY <1>0, <2>1, <2>2 DEF GU!SetNew, FormsTypes
  <2>. QED
    BY <1>0, <2>1, <2>2, <2>3, FormAnswered DEF FormsInv, FormsTypes, GuestConfirmed, GuestTold
<1>6. CASE GU!GotGuestAccountEnabled
  <2>1. PICK i \in DOMAIN afRequests :
          /\ GU!Answered(i, "get", {"ok"})
          /\ guestBox' = afRequests[i].guest /\ originalEnabledState' = afRequests[i].guest
    BY <1>6 DEF GU!GotGuestAccountEnabled
  <2>2. UNCHANGED <<page, guestEnabled, new, confirm, refused, matches>> /\ afFailed' = FALSE
    BY <1>6 DEF GU!GotGuestAccountEnabled
  <2>3. /\ afRequests' \in Seq(AfRequest) /\ afCrossed' \in BOOLEAN
        /\ afRequests[i].kind = "get" /\ afRequests[i].answer = "ok"
        /\ afCrossed => afCrossed'
        /\ ~afCrossed' => i = 1 /\ Len(afRequests) = 1 /\ Len(afRequests') = 0
    BY <1>0, <2>1, FormAnswered
  <2>4. FormsTypes' /\ GuestConfirmed'
    BY <1>0, <2>1, <2>2, <2>3 DEF FormsTypes, GuestConfirmed, AfRequest
  <2>5. GuestTold'
    BY <1>0, <2>1, <2>2, <2>3 DEF GuestTold, TellsGuest
  <2>. QED  BY <2>4, <2>5 DEF FormsInv
<1>7. CASE GU!Changed
  <2>1. PICK i \in DOMAIN afRequests : GU!Answered(i, "set", {"ok"})
    BY <1>7 DEF GU!Changed
  <2>2. UNCHANGED <<page, guestEnabled, guestBox, originalEnabledState>> /\ afFailed' = FALSE
    BY <1>7 DEF GU!Changed
  <2>3. /\ afRequests' \in Seq(AfRequest) /\ afCrossed' \in BOOLEAN
        /\ afRequests[i].kind = "set" /\ afRequests[i].answer = "ok"
        /\ afCrossed => afCrossed'
        /\ ~afCrossed' => i = 1 /\ Len(afRequests) = 1 /\ Len(afRequests') = 0
    BY <1>0, <2>1, FormAnswered
  <2>4. FormsTypes' /\ GuestConfirmed'
    BY <1>0, <1>7, <2>2, <2>3 DEF FormsTypes, GuestConfirmed, GU!Changed
  <2>5. GuestTold'
    BY <1>0, <2>2, <2>3 DEF GuestTold, TellsGuest
  <2>. QED  BY <2>4, <2>5 DEF FormsInv
<1>8. CASE GU!NotChanged
  <2>1. PICK i \in DOMAIN afRequests, kind \in {"get", "set"} :
          /\ GU!Answered(i, kind, {"refused", "error"})
          /\ refused' = (refused \/ afRequests[i].answer = "refused")
    BY <1>8 DEF GU!NotChanged
  <2>2. /\ UNCHANGED <<page, guestEnabled, new, confirm, matches, guestBox, originalEnabledState>>
        /\ afFailed' = TRUE
    BY <1>8 DEF GU!NotChanged
  <2>3. /\ afRequests' \in Seq(AfRequest) /\ afCrossed' \in BOOLEAN
        /\ ~afCrossed' => Len(afRequests') = 0
    BY <1>0, <2>1, FormAnswered
  <2>. QED
    BY <1>0, <2>1, <2>2, <2>3 DEF FormsInv, FormsTypes, GuestConfirmed, GuestTold
<1>9. CASE UNCHANGED guVars
  BY <1>0, <1>9 DEF guVars, FormsInv, FormsTypes, GuestConfirmed, GuestTold, TellsGuest
<1>. QED
  BY <1>1, <1>2, <1>3, <1>4, <1>5, <1>6, <1>7, <1>8, <1>9 DEF GU!Next

LEMMA FormsInit == GU!Init => FormsInv
BY EmptySeq DEF GU!Init, FormsInv, FormsTypes, GuestConfirmed, GuestTold

LEMMA FormsTell ==
  ASSUME FormsInv
  PROVE  GU!GuestMatches /\ GU!GuestKnown
BY EmptySeq
DEF FormsInv, FormsTypes, GuestConfirmed, GuestTold, GU!GuestMatches, GU!AnyInvalid,
    GU!GuestKnown

-----------------------------------------------------------------------------
(* Nav: what a guest is offered, and how the server caches. *)

(* How the server will cache when the calls on their way are served in their order. *)
CachesLast == IF navCalls = << >> THEN serverCaching ELSE navCalls[Len(navCalls)]

NavTypes ==
  /\ guestAccount \in BOOLEAN /\ serverCaching \in BOOLEAN /\ navUnsure \in BOOLEAN
  /\ isGuest \in [NavTabs -> BOOLEAN] /\ locked \in [NavTabs -> BOOLEAN]
  /\ boxes \in [NavTabs -> [NB!Options -> BOOLEAN]]
  /\ cookies \in [NB!Options -> {"", "true", "false"}]
  /\ clicked \in [NB!Options -> {"", "true", "false"}]
  /\ navCalls \in Seq(BOOLEAN)

ClickIsKept ==
  IF clicked["useCaching"] = "" THEN navCalls = << >> /\ ~serverCaching
  ELSE /\ cookies["useCaching"] = clicked["useCaching"]
       /\ ~navUnsure => CachesLast = NB!Shown(clicked["useCaching"])

NavInv == NavTypes /\ NB!GuestIsLocked /\ ClickIsKept

LEMMA NavStep ==
  ASSUME NavInv, NB!Next \/ UNCHANGED nbVars
  PROVE  NavInv'
<1>0. NavTypes /\ NB!GuestIsLocked /\ ClickIsKept
  BY DEF NavInv
<1>. USE DEF NB!Options, NB!pageVars, NB!optionVars
<1>1. CASE \E t \in NavTabs : NB!Load(t)
  <2>1. PICK t \in NavTabs : NB!Load(t)
    BY <1>1
  <2>2. /\ cookies' = [o \in NB!Options |-> IF cookies[o] = "" THEN "true" ELSE cookies[o]]
        /\ boxes' = [boxes EXCEPT ![t] =
             [hardwareDecoding |-> cookies'["hardwareDecoding"] = "true",
              useCaching |-> cookies["useCaching"] = "true"]]
        /\ isGuest' = [isGuest EXCEPT ![t] = TRUE] /\ locked' = [locked EXCEPT ![t] = TRUE]
        /\ UNCHANGED <<guestAccount, clicked, serverCaching, navCalls, navUnsure>>
    BY <2>1 DEF NB!Load, NB!ReadCookies, NB!GetCookie, NB!Shown
  <2>3. [hardwareDecoding |-> cookies'["hardwareDecoding"] = "true",
         useCaching |-> cookies["useCaching"] = "true"] \in [NB!Options -> BOOLEAN]
    <3>. DEFINE hard == cookies'["hardwareDecoding"] = "true"
                use == cookies["useCaching"] = "true"
    <3>1. hard \in BOOLEAN /\ use \in BOOLEAN
      OBVIOUS
    <3>. HIDE DEF hard, use
    <3>2. [hardwareDecoding |-> hard, useCaching |-> use] \in [NB!Options -> BOOLEAN]
      BY <3>1
    <3>. QED  BY <3>2 DEF hard, use
  <2>4. boxes' \in [NavTabs -> [NB!Options -> BOOLEAN]]
    BY <1>0, <2>2, <2>3 DEF NavTypes
  <2>5. NavTypes'
    BY <1>0, <2>2, <2>4 DEF NavTypes
  <2>6. NB!GuestIsLocked'
    BY <1>0, <2>2 DEF NavTypes, NB!GuestIsLocked
  <2>7. ClickIsKept'
    BY <1>0, <2>2 DEF NavTypes, ClickIsKept, CachesLast
  <2>. QED  BY <2>5, <2>6, <2>7 DEF NavInv
<1>2. CASE \E t \in NavTabs : NB!GuestAnswered(t)
  <2>1. PICK t \in NavTabs : NB!GuestAnswered(t)
    BY <1>2
  <2>2. PICK failed \in BOOLEAN : isGuest' = [isGuest EXCEPT ![t] = guestAccount \/ failed]
    BY <2>1 DEF NB!GuestAnswered, NB!IsGuest
  <2>3. UNCHANGED <<guestAccount, locked, cookies, boxes, clicked, serverCaching, navCalls,
                    navUnsure>>
    BY <2>1 DEF NB!GuestAnswered
  <2>4. NavTypes'
    BY <1>0, <2>2, <2>3 DEF NavTypes
  <2>5. NB!GuestIsLocked'
    BY <1>0, <2>2, <2>3 DEF NavTypes, NB!GuestIsLocked
  <2>6. ClickIsKept'
    BY <1>0, <2>3 DEF ClickIsKept, CachesLast
  <2>. QED  BY <2>4, <2>5, <2>6 DEF NavInv
<1>3. CASE \E t \in NavTabs : NB!ToggleMenu(t) \/ NB!GoTo(t)
  <2>1. PICK t \in NavTabs : NB!ToggleMenu(t) \/ NB!GoTo(t)
    BY <1>3
  <2>2. /\ UNCHANGED <<guestAccount, isGuest, cookies, boxes, clicked, serverCaching, navCalls,
                       navUnsure>>
        /\ locked' = locked \/ locked' = [locked EXCEPT ![t] = isGuest[t]]
    BY <2>1 DEF NB!ToggleMenu, NB!GoTo
  <2>3. NavTypes' /\ NB!GuestIsLocked'
    BY <1>0, <2>2 DEF NavTypes, NB!GuestIsLocked
  <2>4. ClickIsKept'
    BY <1>0, <2>2 DEF ClickIsKept, CachesLast
  <2>. QED  BY <2>3, <2>4 DEF NavInv
<1>4. CASE \E t \in NavTabs : NB!HardwareDecoding(t)
  <2>1. PICK t \in NavTabs : NB!HardwareDecoding(t)
    BY <1>4
  <2>2. PICK c \in {"true", "false"} :
          /\ cookies' = [cookies EXCEPT !["hardwareDecoding"] = c]
          /\ clicked' = [clicked EXCEPT !["hardwareDecoding"] = cookies'["hardwareDecoding"]]
    BY <2>1 DEF NB!HardwareDecoding, NB!SetCookie
  <2>3. /\ UNCHANGED <<guestAccount, isGuest, locked, serverCaching, navCalls, navUnsure>>
        /\ boxes' = [boxes EXCEPT ![t]["hardwareDecoding"] = ~@]
    BY <2>1 DEF NB!HardwareDecoding
  <2>4. boxes' \in [NavTabs -> [NB!Options -> BOOLEAN]]
    BY <1>0, <2>3 DEF NavTypes
  <2>5. /\ cookies' \in [NB!Options -> {"", "true", "false"}]
        /\ clicked' \in [NB!Options -> {"", "true", "false"}]
        /\ cookies'["useCaching"] = cookies["useCaching"]
        /\ clicked'["useCaching"] = clicked["useCaching"]
    BY <1>0, <2>2 DEF NavTypes
  <2>6. NavTypes' /\ NB!GuestIsLocked'
    BY <1>0, <2>3, <2>4, <2>5 DEF NavTypes, NB!GuestIsLocked
  <2>7. ClickIsKept'
    BY <1>0, <2>3, <2>5 DEF ClickIsKept, CachesLast
  <2>. QED  BY <2>6, <2>7 DEF NavInv
<1>5. CASE \E t \in NavTabs : NB!UseCaching(t)
  <2>1. PICK t \in NavTabs : NB!UseCaching(t)
    BY <1>5
  <2>2. /\ boxes' = [boxes EXCEPT ![t]["useCaching"] = ~@]
        /\ cookies' = [cookies EXCEPT !["useCaching"] =
                         IF boxes'[t]["useCaching"] THEN "true" ELSE "false"]
        /\ clicked' = [clicked EXCEPT !["useCaching"] = cookies'["useCaching"]]
        /\ navCalls' = Append(navCalls, boxes'[t]["useCaching"])
        /\ UNCHANGED <<guestAccount, isGuest, locked, serverCaching, navUnsure>>
    BY <2>1 DEF NB!UseCaching, NB!SetCookie
  <2>3. boxes' \in [NavTabs -> [NB!Options -> BOOLEAN]] /\ boxes'[t]["useCaching"] \in BOOLEAN
    BY <1>0, <2>2 DEF NavTypes
  <2>4. /\ cookies' \in [NB!Options -> {"", "true", "false"}]
        /\ clicked' \in [NB!Options -> {"", "true", "false"}]
        /\ clicked'["useCaching"] = IF boxes'[t]["useCaching"] THEN "true" ELSE "false"
        /\ cookies'["useCaching"] = clicked'["useCaching"]
    BY <1>0, <2>2 DEF NavTypes
  <2>5. /\ Len(navCalls) \in Nat /\ navCalls' \in Seq(BOOLEAN)
        /\ Len(navCalls') = Len(navCalls) + 1
        /\ navCalls'[Len(navCalls) + 1] = boxes'[t]["useCaching"]
    <3>. DEFINE b == boxes'[t]["useCaching"]
    <3>1. navCalls \in Seq(BOOLEAN) /\ b \in BOOLEAN /\ navCalls' = Append(navCalls, b)
      BY <1>0, <2>2, <2>3 DEF NavTypes
    <3>. HIDE DEF b
    <3>2. /\ Append(navCalls, b) \in Seq(BOOLEAN)
          /\ Len(navCalls) \in Nat
          /\ Len(Append(navCalls, b)) = Len(navCalls) + 1
          /\ Append(navCalls, b)[Len(navCalls) + 1] = b
      BY <3>1, AppendProperties
    <3>3. QED  BY <3>1, <3>2 DEF b
  <2>6. navCalls' # << >>
    BY <2>5, EmptySeq
  <2>7. NavTypes' /\ NB!GuestIsLocked'
    BY <1>0, <2>2, <2>3, <2>4, <2>5 DEF NavTypes, NB!GuestIsLocked
  <2>8. CachesLast' = NB!Shown(clicked["useCaching"])'
    BY <2>3, <2>4, <2>5, <2>6 DEF CachesLast, NB!Shown
  <2>9. ClickIsKept'
    BY <2>4, <2>8 DEF ClickIsKept
  <2>. QED  BY <2>7, <2>9 DEF NavInv
<1>6. CASE \E t \in NavTabs : NB!ToggleBox(t)
  <2>1. PICK t \in NavTabs : NB!ToggleBox(t)
    BY <1>6
  <2>2. PICK o \in NB!Options : boxes' = [boxes EXCEPT ![t][o] = ~@]
    BY <2>1 DEF NB!ToggleBox
  <2>3. UNCHANGED <<guestAccount, isGuest, locked, cookies, clicked, serverCaching, navCalls,
                    navUnsure>>
    BY <2>1 DEF NB!ToggleBox
  <2>4. boxes' \in [NavTabs -> [NB!Options -> BOOLEAN]]
    BY <1>0, <2>2 DEF NavTypes
  <2>5. NavTypes' /\ NB!GuestIsLocked'
    BY <1>0, <2>3, <2>4 DEF NavTypes, NB!GuestIsLocked
  <2>6. ClickIsKept'
    BY <1>0, <2>3 DEF ClickIsKept, CachesLast
  <2>. QED  BY <2>5, <2>6 DEF NavInv
<1>7. CASE NB!SetUseCaching
  <2>1. PICK i \in DOMAIN navCalls :
          /\ navCalls' = Removed(navCalls, i)
          /\ \/ serverCaching' = navCalls[i] /\ navUnsure' = (navUnsure \/ i > 1)
             \/ UNCHANGED serverCaching /\ navUnsure' = TRUE
    BY <1>7 DEF NB!SetUseCaching, Removed
  <2>2. UNCHANGED <<guestAccount, isGuest, locked, boxes, cookies, clicked>>
    BY <1>7 DEF NB!SetUseCaching
  <2>3. /\ navCalls' \in Seq(BOOLEAN) /\ navCalls[i] \in BOOLEAN
        /\ Len(navCalls) \in Nat \ {0} /\ i \in 1 .. Len(navCalls) /\ navCalls # << >>
    <3>1. navCalls \in Seq(BOOLEAN) /\ i \in DOMAIN navCalls
      BY <1>0, <2>1 DEF NavTypes
    <3>2. /\ Removed(navCalls, i) \in Seq(BOOLEAN)
          /\ Len(navCalls) \in Nat \ {0} /\ DOMAIN navCalls = 1 .. Len(navCalls)
      BY <3>1, RemovedAt, Zenon
    <3>3. navCalls[i] \in BOOLEAN
      BY <3>1, <3>2, ElementOfSeq, Zenon
    <3>4. navCalls # << >>
      BY <3>2, EmptySeq
    <3>. QED  BY <2>1, <3>1, <3>2, <3>3, <3>4
  <2>4. NavTypes' /\ NB!GuestIsLocked'
    BY <1>0, <2>1, <2>2, <2>3 DEF NavTypes, NB!GuestIsLocked
  <2>5. clicked["useCaching"] # ""
    BY <1>0, <2>3 DEF ClickIsKept
  <2>6. ASSUME ~navUnsure'
        PROVE  ~navUnsure /\ CachesLast' = CachesLast
    <3>0. serverCaching' = navCalls[i] /\ ~(navUnsure \/ i > 1)
      BY <2>1, <2>6, Zenon
    <3>1. ~navUnsure /\ i = 1 /\ serverCaching' = navCalls[1]
      BY <2>3, <3>0
    <3>2. /\ Len(navCalls') = Len(navCalls) - 1
          /\ Len(navCalls) > 1 => navCalls'[Len(navCalls) - 1] = navCalls[Len(navCalls)]
      BY <1>0, <2>1, <3>1, FirstGoes DEF NavTypes
    <3>3. CASE Len(navCalls) = 1
      <4>1. navCalls' = << >>
        BY <2>3, <3>2, <3>3, EmptySeq
      <4>. QED  BY <2>3, <3>1, <3>3, <4>1 DEF CachesLast
    <3>4. CASE Len(navCalls) # 1
      <4>1. navCalls' # << >> /\ navCalls'[Len(navCalls')] = navCalls[Len(navCalls)]
        BY <2>3, <3>2, <3>4, EmptySeq
      <4>. QED  BY <2>3, <3>1, <4>1 DEF CachesLast
    <3>. QED  BY <3>3, <3>4
  <2>7. ClickIsKept'
    BY <1>0, <2>2, <2>5, <2>6 DEF ClickIsKept, NB!Shown
  <2>. QED  BY <2>4, <2>7 DEF NavInv
<1>8. CASE NB!GetTemperature \/ UNCHANGED nbVars
  <2>1. UNCHANGED <<guestAccount, isGuest, locked, cookies, boxes, clicked, serverCaching,
                    navCalls, navUnsure>>
    BY <1>8 DEF NB!GetTemperature, nbVars
  <2>. QED
    BY <1>0, <2>1 DEF NavInv, NavTypes, NB!GuestIsLocked, ClickIsKept, CachesLast
<1>. QED  BY <1>1, <1>2, <1>3, <1>4, <1>5, <1>6, <1>7, <1>8 DEF NB!Next

LEMMA NavInit == NB!Init => NavInv
<1>. SUFFICES ASSUME NB!Init
              PROVE  NavInv
  OBVIOUS
<1>1. NavTypes
  BY EmptySeq DEF NB!Init, NavTypes, NB!Options
<1>2. NB!GuestIsLocked /\ ClickIsKept
  BY DEF NB!Init, NB!GuestIsLocked, ClickIsKept, NB!Options
<1>. QED  BY <1>1, <1>2 DEF NavInv

LEMMA NavCaches ==
  ASSUME NavInv
  PROVE  NB!CachesAsClicked
BY DEF NavInv, ClickIsKept, CachesLast, NB!CachesAsClicked

-----------------------------------------------------------------------------
(* AdminForms: what is sent is confirmed, and one account is kept. *)

(* t has elements of s, each at most once. *)
Thins(t, s, f) ==
  /\ f \in [DOMAIN t -> DOMAIN s]
  /\ \A k \in DOMAIN t : t[k] = s[f[k]]
  /\ \A k, l \in DOMAIN t : f[k] = f[l] => k = l

LEMMA RemovedThins ==
  ASSUME NEW S, NEW s \in Seq(S), NEW i \in DOMAIN s
  PROVE  /\ Removed(s, i) \in Seq(S)
         /\ \E f : /\ Thins(Removed(s, i), s, f)
                   /\ \A k \in DOMAIN Removed(s, i) : f[k] # i
                   /\ \A j \in DOMAIN s : j # i => \E k \in DOMAIN Removed(s, i) : f[k] = j
<1>. DEFINE t == Removed(s, i)
            From(j) == IF j < i THEN j ELSE j + 1
            f == [j \in DOMAIN t |-> From(j)]
<1>1. /\ t \in Seq(S)
      /\ Len(s) \in Nat \ {0} /\ DOMAIN s = 1 .. Len(s) /\ DOMAIN t = 1 .. Len(s) - 1
      /\ \A j \in 1 .. Len(s) - 1 : t[j] = IF j < i THEN s[j] ELSE s[j + 1]
  BY RemovedAt
<1>. HIDE DEF t
<1>2. i \in 1 .. Len(s)
  BY <1>1
<1>3. /\ \A j \in 1 .. Len(s) - 1 : From(j) \in 1 .. Len(s) /\ From(j) # i /\ t[j] = s[From(j)]
      /\ \A k, l \in 1 .. Len(s) - 1 : From(k) = From(l) => k = l
  BY <1>1, <1>2
<1>4. ASSUME NEW j \in 1 .. Len(s), j # i
      PROVE  \E k \in 1 .. Len(s) - 1 : From(k) = j
  <2>1. CASE j < i
    BY <1>1, <1>2, <2>1
  <2>2. CASE ~(j < i)
    <3>1. j - 1 \in 1 .. Len(s) - 1 /\ ~(j - 1 < i) /\ (j - 1) + 1 = j
      BY <1>1, <1>2, <1>4, <2>2
    <3>. QED  BY <3>1
  <2>. QED  BY <2>1, <2>2
<1>. HIDE DEF From
<1>5. f \in [DOMAIN t -> DOMAIN s] /\ \A k \in DOMAIN t : f[k] = From(k)
  BY <1>1, <1>3
<1>. HIDE DEF f
<1>6. Thins(t, s, f)
  <2>1. \A k \in DOMAIN t : t[k] = s[f[k]]
    BY <1>1, <1>3, <1>5
  <2>2. ASSUME NEW k \in DOMAIN t, NEW l \in DOMAIN t, f[k] = f[l]
        PROVE  k = l
    BY <1>1, <1>3, <1>5, <2>2
  <2>. QED  BY <1>5, <2>1, <2>2, Zenon DEF Thins
<1>7. /\ \A k \in DOMAIN t : f[k] # i
      /\ \A j \in DOMAIN s : j # i => \E k \in DOMAIN t : f[k] = j
  BY <1>1, <1>3, <1>4, <1>5
<1>. QED  BY <1>1, <1>6, <1>7 DEF t

LEMMA LeftThins ==
  ASSUME NEW S, NEW s \in Seq(S), NEW kept \in SUBSET DOMAIN s, NEW t \in AD!LeftOf(s, kept)
  PROVE  /\ t \in Seq(S)
         /\ \E f : Thins(t, s, f) /\ \A k \in DOMAIN t : f[k] \in kept
<1>1. PICK f \in UNION {[1 .. n -> kept] : n \in 0 .. Len(s)} :
        /\ \A k, l \in DOMAIN f : k < l => f[k] < f[l]
        /\ t = [k \in DOMAIN f |-> s[f[k]]]
  BY DEF AD!LeftOf
<1>2. PICK n \in 0 .. Len(s) : f \in [1 .. n -> kept]
  BY <1>1
<1>3. /\ n \in Nat /\ DOMAIN f = 1 .. n /\ DOMAIN t = 1 .. n /\ DOMAIN s \subseteq Nat
  BY <1>1, <1>2, LenProperties
<1>4. \A k \in 1 .. n : f[k] \in kept /\ t[k] = s[f[k]] /\ t[k] \in S
  BY <1>1, <1>2, <1>3, ElementOfSeq, LenProperties
<1>5. t \in [1 .. n -> S]
  BY <1>1, <1>3, <1>4
<1>6. t \in Seq(S)
  BY <1>3, <1>5
<1>7. ASSUME NEW k \in DOMAIN t, NEW l \in DOMAIN t, f[k] = f[l]
      PROVE  k = l
  <2>1. k \in 1 .. n /\ l \in 1 .. n /\ f[k] \in Nat /\ ~(f[k] < f[l]) /\ ~(f[l] < f[k])
    BY <1>3, <1>4, <1>7
  <2>. QED  BY <1>1, <1>3, <2>1
<1>8. Thins(t, s, f)
  BY <1>2, <1>3, <1>4, <1>7 DEF Thins
<1>. QED  BY <1>3, <1>4, <1>6, <1>8

AdNames == Usernames \cup {AD!Empty, CHOOSE u \in Usernames : TRUE}
AdWords == AD!Passwords \cup {AD!Empty}
AdRequest ==
  [kind : {"check", "save"}, page : {"any", "left", "account", "creds", "smtp"},
   username : AdNames, password : AdWords, confirm : AdWords, update : BOOLEAN,
   auth : BOOLEAN, stage : {"sent", "valid", "ok", "failed"}]

AdTypes ==
  /\ adPage \in {"account", "creds", "smtp"} /\ username \in AdNames
  /\ adPassword \in AdWords /\ adConfirm \in AdWords
  /\ notMatching \in BOOLEAN /\ adAuth \in BOOLEAN /\ adEnabled \in BOOLEAN
  /\ updateExisting \in BOOLEAN /\ adRaced \in BOOLEAN
  /\ adRequests \in Seq(AdRequest)

(* The SMTP page asks once, and has no entries until it is answered. *)
SmtpAsks ==
  /\ adPage # "smtp" => adAuth /\ adEnabled
  /\ adPage = "smtp" =>
       /\ \A i, j \in DOMAIN adRequests :
            (adRequests[i].kind = "check" /\ adRequests[j].kind = "check") => i = j
       /\ IF AD!Checking THEN adAuth /\ ~adEnabled /\ adPassword = adConfirm
          ELSE adAuth => adEnabled

(* What the page takes for valid has been confirmed. *)
Confirmed ==
  (adEnabled /\ ~notMatching /\ (adPage = "creds" \/ AD!Empty \notin {adPassword, adConfirm}))
    => adPassword = adConfirm

NamedAreSaved ==
  \A i \in DOMAIN adRequests : AD!IsAccount(adRequests[i]) => adRequests[i].kind = "save"

(* One account is made at a time, and of none or of the one that is deleted. *)
OneAtATime ==
  ~adRaced =>
    /\ accounts = {} \/ \E u \in accounts : accounts = {u}
    /\ \A i \in DOMAIN adRequests :
         adRequests[i].stage = "valid" =>
           /\ ~adRequests[i].update => accounts = {}
           /\ \A j \in DOMAIN adRequests : adRequests[j].stage = "valid" => i = j

AdInv == AdTypes /\ SmtpAsks /\ Confirmed /\ AD!SentTwice /\ NamedAreSaved /\ OneAtATime

LEMMA CheckIsRequest ==
  /\ AD!Check \in AdRequest
  /\ AD!Check.kind = "check" /\ ~AD!IsAccount(AD!Check) /\ AD!Check.stage = "sent"
  /\ \A r \in AdRequest, stage \in {"ok", "failed"}, update \in BOOLEAN :
       /\ AD!Answered(r, stage, update) \in AdRequest
       /\ AD!Answered(r, stage, update).kind = r.kind
       /\ ~AD!IsAccount(AD!Answered(r, stage, update))
       /\ AD!Answered(r, stage, update).stage = stage
       /\ ~AD!Answered(r, stage, update).auth
<1>. USE DEF AD!Check, AD!Answered, AdRequest, AD!IsAccount, AdNames, AdWords
<1>1. /\ AD!Check \in AdRequest
      /\ AD!Check.kind = "check" /\ ~AD!IsAccount(AD!Check) /\ AD!Check.stage = "sent"
  OBVIOUS
<1>2. ASSUME NEW r \in AdRequest, NEW stage \in {"ok", "failed"}, NEW update \in BOOLEAN
      PROVE  /\ AD!Answered(r, stage, update) \in AdRequest
             /\ AD!Answered(r, stage, update).kind = r.kind
             /\ ~AD!IsAccount(AD!Answered(r, stage, update))
             /\ AD!Answered(r, stage, update).stage = stage
             /\ ~AD!Answered(r, stage, update).auth
  <2>1. AD!Answered(r, stage, update) \in AdRequest
    OBVIOUS
  <2>2. /\ AD!Answered(r, stage, update).kind = r.kind
        /\ AD!Answered(r, stage, update).stage = stage
        /\ AD!Answered(r, stage, update).username = AD!Empty
    OBVIOUS
  <2>3. ~AD!Answered(r, stage, update).auth
    OBVIOUS
  <2>. QED  BY <2>1, <2>2, <2>3
<1>. QED  BY <1>1, <1>2

(* The requests after one more is sent. *)
LEMMA OneMoreSent ==
  ASSUME AdInv, NEW r \in AdRequest, adRequests' = Append(adRequests, r), r.stage = "sent",
         AD!IsAccount(r) => r.kind = "save",
         r.kind = "save" /\ r.auth => r.password = r.confirm,
         UNCHANGED <<accounts, adRaced>>
  PROVE  /\ adRequests' \in Seq(AdRequest) /\ AD!SentTwice' /\ NamedAreSaved' /\ OneAtATime'
         /\ r.kind # "check" => (AD!Checking' <=> AD!Checking)
<1>1. /\ Len(adRequests) \in Nat /\ DOMAIN adRequests = 1 .. Len(adRequests)
      /\ adRequests' \in Seq(AdRequest) /\ DOMAIN adRequests' = 1 .. Len(adRequests) + 1
      /\ \A i \in 1 .. Len(adRequests) : adRequests'[i] = adRequests[i]
      /\ adRequests'[Len(adRequests) + 1] = r
  BY AppendAt DEF AdInv, AdTypes
<1>2. \A i \in 1 .. Len(adRequests) + 1 : i \in 1 .. Len(adRequests) \/ i = Len(adRequests) + 1
  BY <1>1
<1>3. AD!SentTwice' /\ NamedAreSaved'
  BY <1>1, <1>2 DEF AdInv, AD!SentTwice, NamedAreSaved
<1>4. OneAtATime'
  BY <1>1, <1>2 DEF AdInv, OneAtATime
<1>5. r.kind # "check" => (AD!Checking' <=> AD!Checking)
  BY <1>1, <1>2 DEF AD!Checking
<1>. QED  BY <1>1, <1>3, <1>4, <1>5

(* The requests after one was answered to the page. *)
LEMMA OneAnswered ==
  ASSUME AdInv, NEW i \in DOMAIN adRequests, adRequests' = Removed(adRequests, i),
         UNCHANGED <<accounts, adRaced>>
  PROVE  /\ adRequests' \in Seq(AdRequest) /\ AD!SentTwice' /\ NamedAreSaved' /\ OneAtATime'
         /\ adRequests[i].kind # "check" => (AD!Checking' <=> AD!Checking)
         /\ (adPage = "smtp" /\ adRequests[i].kind = "check") => ~AD!Checking'
         /\ adPage = "smtp" => \A k, l \in DOMAIN adRequests' :
              (adRequests'[k].kind = "check" /\ adRequests'[l].kind = "check") => k = l
<1>0. adRequests \in Seq(AdRequest)
  BY DEF AdInv, AdTypes
<1>1. PICK f : /\ Thins(adRequests', adRequests, f)
               /\ \A k \in DOMAIN adRequests' : f[k] # i
               /\ \A j \in DOMAIN adRequests : j # i => \E k \in DOMAIN adRequests' : f[k] = j
  BY <1>0, RemovedThins
<1>2. /\ adRequests' \in Seq(AdRequest)
      /\ \A k \in DOMAIN adRequests' :
           f[k] \in DOMAIN adRequests /\ f[k] # i /\ adRequests'[k] = adRequests[f[k]]
      /\ \A k, l \in DOMAIN adRequests' : f[k] = f[l] => k = l
  BY <1>0, <1>1, RemovedThins DEF Thins
<1>3. AD!SentTwice' /\ NamedAreSaved'
  BY <1>2 DEF AdInv, AD!SentTwice, NamedAreSaved
<1>4. OneAtATime'
  BY <1>2 DEF AdInv, OneAtATime
<1>5. adRequests[i].kind # "check" => (AD!Checking' <=> AD!Checking)
  BY <1>1, <1>2 DEF AD!Checking
<1>6. (adPage = "smtp" /\ adRequests[i].kind = "check") => ~AD!Checking'
  BY <1>2 DEF AdInv, SmtpAsks, AD!Checking
<1>7. adPage = "smtp" => \A k, l \in DOMAIN adRequests' :
        (adRequests'[k].kind = "check" /\ adRequests'[l].kind = "check") => k = l
  BY <1>2 DEF AdInv, SmtpAsks
<1>. QED  BY <1>2, <1>3, <1>4, <1>5, <1>6, <1>7

LEMMA AdRegister ==
  ASSUME AdInv, AD!Register, ~AD!AdAnyInvalid
  PROVE  AdInv'
<1>1. /\ adRequests' = Append(adRequests, AD!Save)
      /\ UNCHANGED <<adPage, username, adPassword, adConfirm, notMatching, adAuth, adEnabled,
                     updateExisting, accounts, adRaced>>
      /\ adPage = "smtp" => ~AD!Checking
  BY DEF AD!Register
<1>2. AdTypes /\ SmtpAsks /\ Confirmed
  BY DEF AdInv
<1>3. adAuth => adPassword = adConfirm
  BY <1>1, <1>2 DEF AdTypes, SmtpAsks, Confirmed, AD!AdAnyInvalid
<1>4. /\ AD!Save \in AdRequest /\ AD!Save.stage = "sent" /\ AD!Save.kind = "save"
      /\ AD!Save.auth = adAuth /\ AD!Save.password = adPassword /\ AD!Save.confirm = adConfirm
  BY <1>2 DEF AD!Save, AdRequest, AdTypes, AdNames
<1>5. AD!Save.auth => AD!Save.password = AD!Save.confirm
  BY <1>3, <1>4
<1>6. /\ adRequests' \in Seq(AdRequest) /\ AD!SentTwice' /\ NamedAreSaved' /\ OneAtATime'
      /\ AD!Checking' <=> AD!Checking
  BY <1>1, <1>4, <1>5, OneMoreSent
<1>7. ASSUME adPage = "smtp"
      PROVE  \A i, j \in DOMAIN adRequests' :
               (adRequests'[i].kind = "check" /\ adRequests'[j].kind = "check") => i = j
  <2>1. ~AD!Checking'
    BY <1>1, <1>6, <1>7
  <2>. QED  BY <2>1 DEF AD!Checking
<1>8. AdTypes' /\ Confirmed'
  BY <1>1, <1>2, <1>6 DEF AdTypes, Confirmed
<1>9. SmtpAsks'
  BY <1>1, <1>2, <1>6, <1>7 DEF SmtpAsks
<1>. QED  BY <1>6, <1>8, <1>9 DEF AdInv

LEMMA AdEntered ==
  ASSUME AdInv,
         AD!TypeUsername \/ AD!TypePassword \/ AD!TypeConfirmPassword \/ AD!UpdateAuthState
  PROVE  AdInv'
<1>0. AdTypes /\ SmtpAsks /\ Confirmed /\ AD!SentTwice /\ NamedAreSaved /\ OneAtATime
  BY DEF AdInv
<1>1. /\ UNCHANGED <<adPage, updateExisting, adRequests, accounts, adRaced>>
      /\ AD!Checking' <=> AD!Checking
  BY DEF AD!TypeUsername, AD!TypePassword, AD!TypeConfirmPassword, AD!UpdateAuthState,
         AD!Checking
<1>2. AD!SentTwice' /\ NamedAreSaved' /\ OneAtATime'
  BY <1>0, <1>1 DEF AD!SentTwice, NamedAreSaved, OneAtATime
<1>. SUFFICES AdTypes' /\ SmtpAsks' /\ Confirmed'
  BY <1>2 DEF AdInv
<1>3. CASE AD!TypeUsername
  <2>1. /\ UNCHANGED <<adPassword, adConfirm, notMatching, adAuth, adEnabled>>
        /\ username' \in AdNames
    BY <1>3 DEF AD!TypeUsername, AD!Names, AdNames
  <2>. QED
    BY <1>0, <1>1, <2>1 DEF AdTypes, SmtpAsks, Confirmed
<1>4. CASE AD!TypePassword
  <2>1. PICK v \in AdWords : AD!SetPassword(v)
    BY <1>4 DEF AD!TypePassword, AdWords
  <2>2. /\ UNCHANGED <<username, adConfirm, adAuth, adEnabled>> /\ adEnabled
        /\ adPassword' = v
        /\ notMatching' = IF adPage = "creds" \/ adConfirm # AD!Empty THEN adConfirm # v
                          ELSE notMatching
    BY <1>4, <2>1 DEF AD!TypePassword, AD!SetPassword
  <2>3. AdTypes'
    BY <1>0, <1>1, <2>2 DEF AdTypes
  <2>4. SmtpAsks'
    BY <1>0, <1>1, <2>2 DEF SmtpAsks
  <2>5. Confirmed'
    BY <1>1, <2>2 DEF Confirmed
  <2>. QED  BY <2>3, <2>4, <2>5
<1>5. CASE AD!TypeConfirmPassword
  <2>1. /\ UNCHANGED <<username, adPassword, adAuth, adEnabled>> /\ adEnabled
        /\ adConfirm' \in AdWords /\ notMatching' = (adConfirm' # adPassword)
    BY <1>5 DEF AD!TypeConfirmPassword, AdWords
  <2>2. AdTypes'
    BY <1>0, <1>1, <2>1 DEF AdTypes
  <2>3. SmtpAsks'
    BY <1>0, <1>1, <2>1 DEF SmtpAsks
  <2>4. Confirmed'
    BY <1>1, <2>1 DEF Confirmed
  <2>. QED  BY <2>2, <2>3, <2>4
<1>6. CASE AD!UpdateAuthState
  <2>1. /\ UNCHANGED <<username, adPassword, adConfirm>> /\ adPage = "smtp" /\ ~AD!Checking
        /\ adAuth' = ~adAuth /\ adEnabled' = ~adAuth
        /\ notMatching' = (adAuth' /\ adConfirm # adPassword)
    BY <1>6 DEF AD!UpdateAuthState
  <2>2. AdTypes'
    BY <1>0, <1>1, <2>1 DEF AdTypes
  <2>3. SmtpAsks'
    BY <1>0, <1>1, <2>1 DEF SmtpAsks, AdTypes
  <2>4. Confirmed'
    BY <1>0, <1>1, <2>1 DEF Confirmed, AdTypes
  <2>. QED  BY <2>2, <2>3, <2>4
<1>. QED  BY <1>3, <1>4, <1>5, <1>6

LEMMA AdOpened ==
  ASSUME AdInv, AD!OpenAdminPage
  PROVE  AdInv'
<1>0. AdTypes /\ AD!SentTwice /\ NamedAreSaved /\ OneAtATime
  BY DEF AdInv
<1>. DEFINE kept == {i \in DOMAIN adRequests :
                       /\ adRequests[i].username # AD!Empty
                       /\ adRequests[i].stage \in {"sent", "valid"}}
            Left(left) == [i \in DOMAIN left |-> [left[i] EXCEPT !.page = "left"]]
<1>1. PICK left \in AD!LeftOf(adRequests, kept) :
        adRequests' = Append(Left(left), AD!Check)
  BY DEF AD!OpenAdminPage
<1>2. /\ adPage' \in {"account", "creds", "smtp"} /\ adEnabled' = (adPage' # "smtp")
      /\ username' = AD!Empty /\ adPassword' = AD!Empty /\ adConfirm' = AD!Empty
      /\ notMatching' = FALSE /\ adAuth' = TRUE /\ updateExisting' = FALSE
      /\ UNCHANGED <<accounts, adRaced>>
  BY DEF AD!OpenAdminPage
<1>3. left \in Seq(AdRequest)
  BY <1>0, LeftThins DEF AdTypes
<1>4. PICK f : Thins(left, adRequests, f) /\ \A k \in DOMAIN left : f[k] \in kept
  BY <1>0, LeftThins DEF AdTypes
<1>5. \A k \in DOMAIN left :
        /\ f[k] \in DOMAIN adRequests /\ left[k] = adRequests[f[k]]
        /\ left[k] \in AdRequest /\ AD!IsAccount(left[k])
  BY <1>3, <1>4, ElementOfSeq DEF Thins, AD!IsAccount
<1>6. Len(left) \in Nat /\ DOMAIN left = 1 .. Len(left)
  BY <1>3, LenProperties
<1>7. \A k \in DOMAIN left :
        LET r == [left[k] EXCEPT !.page = "left"] IN
        /\ r \in AdRequest /\ AD!IsAccount(r)
        /\ r.kind = left[k].kind /\ r.stage = left[k].stage /\ r.update = left[k].update
        /\ r.password = left[k].password /\ r.confirm = left[k].confirm
        /\ r.auth = left[k].auth
  BY <1>5 DEF AdRequest, AD!IsAccount
<1>8. Left(left) \in Seq(AdRequest) /\ Len(Left(left)) = Len(left)
  <2>1. Left(left) \in [1 .. Len(left) -> AdRequest]
    BY <1>6, <1>7
  <2>. QED  BY <1>6, <2>1, SeqDef, LenProperties
<1>9. /\ adRequests' \in Seq(AdRequest) /\ DOMAIN adRequests' = 1 .. Len(left) + 1
      /\ adRequests'[Len(left) + 1] = AD!Check
      /\ \A k \in 1 .. Len(left) : adRequests'[k] = Left(left)[k]
  BY <1>1, <1>6, <1>8, AppendAt, CheckIsRequest
<1>10. \A k \in DOMAIN adRequests' :
         \/ k = Len(left) + 1
         \/ /\ k \in DOMAIN left /\ f[k] \in DOMAIN adRequests
            /\ AD!IsAccount(adRequests'[k])
            /\ AD!IsAccount(adRequests[f[k]])
            /\ adRequests'[k].kind = adRequests[f[k]].kind
            /\ adRequests'[k].stage = adRequests[f[k]].stage
            /\ adRequests'[k].update = adRequests[f[k]].update
            /\ adRequests'[k].auth = adRequests[f[k]].auth
            /\ adRequests'[k].password = adRequests[f[k]].password
            /\ adRequests'[k].confirm = adRequests[f[k]].confirm
  <2>. TAKE k \in DOMAIN adRequests'
  <2>1. k = Len(left) + 1 \/ k \in DOMAIN left
    BY <1>6, <1>9
  <2>2. ASSUME k \in DOMAIN left
        PROVE  adRequests'[k] = [left[k] EXCEPT !.page = "left"]
    BY <1>6, <1>9, <2>2
  <2>. QED  BY <1>5, <1>7, <2>1, <2>2
<1>11. \A k, l \in DOMAIN left : f[k] = f[l] => k = l
  BY <1>4 DEF Thins
<1>. HIDE DEF Left, kept
<1>12. AD!SentTwice' /\ NamedAreSaved'
  BY <1>0, <1>9, <1>10, CheckIsRequest DEF AD!SentTwice, NamedAreSaved
<1>13. OneAtATime'
  BY <1>0, <1>2, <1>9, <1>10, <1>11, CheckIsRequest DEF OneAtATime
<1>14. \A k \in DOMAIN adRequests' : adRequests'[k].kind = "check" <=> k = Len(left) + 1
  BY <1>0, <1>9, <1>10, CheckIsRequest DEF NamedAreSaved
<1>15. AD!Checking'
  <2>1. Len(left) + 1 \in DOMAIN adRequests'
    BY <1>6, <1>9
  <2>. QED  BY <1>14, <2>1 DEF AD!Checking
<1>16. AdTypes'
  BY <1>0, <1>2, <1>9 DEF AdTypes, AdNames, AdWords
<1>17. SmtpAsks'
  BY <1>2, <1>14, <1>15 DEF SmtpAsks
<1>18. Confirmed'
  BY <1>2 DEF Confirmed
<1>. QED  BY <1>12, <1>13, <1>16, <1>17, <1>18 DEF AdInv

(* The requests after one went on at the server. *)
LEMMA OneWentOn ==
  ASSUME AdInv, NEW i \in DOMAIN adRequests, NEW n \in AdRequest,
         adRequests' = [adRequests EXCEPT ![i] = n], n.kind = adRequests[i].kind,
         AD!IsAccount(n) => n.kind = "save",
         n.auth => n.password = n.confirm \/ n.kind # "save",
         UNCHANGED <<adPage, username, adPassword, adConfirm, notMatching, adAuth, adEnabled,
                     updateExisting>>,
         adRaced' \in BOOLEAN, OneAtATime'
  PROVE  AdInv'
<1>0. AdTypes /\ SmtpAsks /\ Confirmed /\ AD!SentTwice /\ NamedAreSaved
  BY DEF AdInv
<1>1. /\ adRequests' \in Seq(AdRequest) /\ DOMAIN adRequests' = DOMAIN adRequests
      /\ adRequests'[i] = n
      /\ \A j \in DOMAIN adRequests : j # i => adRequests'[j] = adRequests[j]
  BY <1>0, ChangedAt DEF AdTypes
<1>2. \A j \in DOMAIN adRequests : adRequests'[j].kind = adRequests[j].kind
  BY <1>1
<1>3. AD!SentTwice' /\ NamedAreSaved'
  BY <1>0, <1>1 DEF AD!SentTwice, NamedAreSaved
<1>4. AD!Checking' <=> AD!Checking
  BY <1>1, <1>2 DEF AD!Checking
<1>5. SmtpAsks'
  BY <1>0, <1>1, <1>2, <1>4 DEF SmtpAsks
<1>6. AdTypes' /\ Confirmed'
  BY <1>0, <1>1 DEF AdTypes, Confirmed
<1>. QED  BY <1>3, <1>5, <1>6 DEF AdInv

LEMMA AdServed ==
  ASSUME AdInv, AD!Serve
  PROVE  AdInv'
<1>0. AdTypes /\ AD!SentTwice /\ NamedAreSaved /\ OneAtATime
  BY DEF AdInv
<1>1. UNCHANGED <<adPage, username, adPassword, adConfirm, notMatching, adAuth, adEnabled,
                  updateExisting, accounts>>
  BY DEF AD!Serve, AD!formVars
<1>2. PICK i \in DOMAIN adRequests :
        \E stage \in {IF AD!IsAccount(adRequests[i]) THEN "valid" ELSE "ok", "failed"} :
          /\ stage # "failed" /\ adRequests[i].kind = "save" => AD!Valid(adRequests[i])
          /\ adRequests' = [adRequests EXCEPT ![i] =
               IF stage = "valid" THEN [adRequests[i] EXCEPT !.stage = stage]
               ELSE AD!Answered(adRequests[i], stage,
                 adRequests[i].kind = "check" /\ stage = "ok" /\ accounts # {})]
          /\ adRaced' = (adRaced \/ (stage = "valid" /\
               \E j \in DOMAIN adRequests : adRequests[j].stage = "valid"))
  BY DEF AD!Serve
<1>3. adRequests[i] \in AdRequest
  BY <1>0, ElementOfSeq DEF AdTypes
<1>4. CASE /\ AD!IsAccount(adRequests[i]) /\ AD!Valid(adRequests[i])
           /\ adRequests' = [adRequests EXCEPT ![i] = [adRequests[i] EXCEPT !.stage = "valid"]]
           /\ adRaced' = (adRaced \/ \E j \in DOMAIN adRequests : adRequests[j].stage = "valid")
  <2>. DEFINE n == [adRequests[i] EXCEPT !.stage = "valid"]
  <2>1. /\ n \in AdRequest /\ n.kind = adRequests[i].kind /\ AD!IsAccount(n)
        /\ n.update = adRequests[i].update /\ n.auth = adRequests[i].auth
        /\ n.password = adRequests[i].password /\ n.confirm = adRequests[i].confirm
    BY <1>3, <1>4 DEF AdRequest, AD!IsAccount
  <2>. HIDE DEF n
  <2>2. n.kind = "save"
    BY <1>0, <1>4, <2>1 DEF NamedAreSaved
  <2>3. n.auth => n.password = n.confirm
    BY <1>0, <2>1, <2>2 DEF AD!SentTwice
  <2>4. adRequests' = [adRequests EXCEPT ![i] = n]
    BY <1>4 DEF n
  <2>5. /\ DOMAIN adRequests' = DOMAIN adRequests /\ adRequests'[i] = n
        /\ \A j \in DOMAIN adRequests : j # i => adRequests'[j] = adRequests[j]
    BY <1>0, <2>1, <2>4, ChangedAt DEF AdTypes
  <2>6. OneAtATime'
    BY <1>0, <1>1, <1>4, <2>1, <2>5 DEF OneAtATime, AD!Valid
  <2>7. adRaced' \in BOOLEAN
    BY <1>4
  <2>. QED  BY <1>1, <2>1, <2>2, <2>3, <2>4, <2>6, <2>7, OneWentOn
<1>5. CASE \E stage \in {"ok", "failed"}, update \in BOOLEAN :
             /\ adRequests' = [adRequests EXCEPT ![i] =
                                 AD!Answered(adRequests[i], stage, update)]
             /\ adRaced' = adRaced
  <2>1. PICK stage \in {"ok", "failed"}, update \in BOOLEAN :
          adRequests' = [adRequests EXCEPT ![i] = AD!Answered(adRequests[i], stage, update)]
    BY <1>5
  <2>. DEFINE n == AD!Answered(adRequests[i], stage, update)
  <2>2. /\ n \in AdRequest /\ n.kind = adRequests[i].kind /\ ~AD!IsAccount(n)
        /\ n.stage = stage /\ ~n.auth
    BY <1>3, CheckIsRequest
  <2>. HIDE DEF n
  <2>3. adRequests' = [adRequests EXCEPT ![i] = n]
    BY <2>1 DEF n
  <2>4. /\ DOMAIN adRequests' = DOMAIN adRequests /\ adRequests'[i] = n
        /\ \A j \in DOMAIN adRequests : j # i => adRequests'[j] = adRequests[j]
    BY <1>0, <2>2, <2>3, ChangedAt DEF AdTypes
  <2>5. OneAtATime'
    BY <1>0, <1>1, <1>5, <2>2, <2>4 DEF OneAtATime
  <2>6. adRaced' \in BOOLEAN
    BY <1>0, <1>5 DEF AdTypes
  <2>. QED  BY <1>1, <2>2, <2>3, <2>5, <2>6, OneWentOn
<1>6. \/ /\ AD!IsAccount(adRequests[i]) /\ AD!Valid(adRequests[i])
         /\ adRequests' = [adRequests EXCEPT ![i] = [adRequests[i] EXCEPT !.stage = "valid"]]
         /\ adRaced' = (adRaced \/ \E j \in DOMAIN adRequests : adRequests[j].stage = "valid")
      \/ \E stage \in {"ok", "failed"}, update \in BOOLEAN :
             /\ adRequests' = [adRequests EXCEPT ![i] =
                                 AD!Answered(adRequests[i], stage, update)]
             /\ adRaced' = adRaced
  <2>1. PICK stage \in {IF AD!IsAccount(adRequests[i]) THEN "valid" ELSE "ok", "failed"} :
          /\ stage # "failed" /\ adRequests[i].kind = "save" => AD!Valid(adRequests[i])
          /\ adRequests' = [adRequests EXCEPT ![i] =
               IF stage = "valid" THEN [adRequests[i] EXCEPT !.stage = stage]
               ELSE AD!Answered(adRequests[i], stage,
                 adRequests[i].kind = "check" /\ stage = "ok" /\ accounts # {})]
          /\ adRaced' = (adRaced \/ (stage = "valid" /\
               \E j \in DOMAIN adRequests : adRequests[j].stage = "valid"))
    BY <1>2
  <2>2. CASE stage = "valid"
    <3>1. AD!IsAccount(adRequests[i]) /\ AD!Valid(adRequests[i])
      BY <1>0, <2>1, <2>2 DEF NamedAreSaved
    <3>. QED  BY <2>1, <2>2, <3>1
  <2>3. CASE stage # "valid"
    <3>. DEFINE update == adRequests[i].kind = "check" /\ stage = "ok" /\ accounts # {}
    <3>1. stage \in {"ok", "failed"} /\ update \in BOOLEAN
      BY <2>1, <2>3
    <3>2. adRequests' = [adRequests EXCEPT ![i] = AD!Answered(adRequests[i], stage, update)]
      BY <2>1, <2>3
    <3>3. adRaced' = adRaced
      BY <1>0, <2>1, <2>3 DEF AdTypes
    <3>. HIDE DEF update
    <3>. QED  BY <3>1, <3>2, <3>3
  <2>. QED  BY <2>2, <2>3
<1>. QED  BY <1>4, <1>5, <1>6

LEMMA AdPerformed ==
  ASSUME AdInv, AD!Perform
  PROVE  AdInv'
<1>0. AdTypes /\ OneAtATime
  BY DEF AdInv
<1>1. UNCHANGED <<adPage, username, adPassword, adConfirm, notMatching, adAuth, adEnabled,
                  updateExisting, adRaced>>
  BY DEF AD!Perform, AD!formVars
<1>2. PICK i \in DOMAIN adRequests, can \in BOOLEAN, stage \in {"ok", "failed"} :
        /\ adRequests[i].stage = "valid"
        /\ IF can THEN AD!CreateOrUpdateAccount(adRequests[i]) ELSE UNCHANGED accounts
        /\ adRequests' = [adRequests EXCEPT ![i] = AD!Answered(adRequests[i], stage, FALSE)]
  <2>1. PICK i \in DOMAIN adRequests :
          LET r == adRequests[i]
              can == IF r.update THEN AD!Cardinality(accounts) = 1
                     ELSE r.username \notin accounts IN
          /\ r.stage = "valid"
          /\ IF can THEN AD!CreateOrUpdateAccount(r) ELSE UNCHANGED accounts
          /\ adRequests' = [adRequests EXCEPT ![i] =
               AD!Answered(r, IF can /\ r.password # "special" THEN "ok" ELSE "failed", FALSE)]
    BY DEF AD!Perform
  <2>. DEFINE can == IF adRequests[i].update THEN AD!Cardinality(accounts) = 1
                     ELSE adRequests[i].username \notin accounts
              stage == IF can /\ adRequests[i].password # "special" THEN "ok" ELSE "failed"
  <2>2. /\ adRequests[i].stage = "valid"
        /\ IF can THEN AD!CreateOrUpdateAccount(adRequests[i]) ELSE UNCHANGED accounts
        /\ adRequests' = [adRequests EXCEPT ![i] = AD!Answered(adRequests[i], stage, FALSE)]
    BY <2>1
  <2>3. can \in BOOLEAN /\ stage \in {"ok", "failed"}
    OBVIOUS
  <2>. HIDE DEF can, stage
  <2>. QED  BY <2>2, <2>3
<1>3. adRequests[i] \in AdRequest
  BY <1>0, ElementOfSeq DEF AdTypes
<1>. DEFINE n == AD!Answered(adRequests[i], stage, FALSE)
<1>4. /\ n \in AdRequest /\ n.kind = adRequests[i].kind /\ ~AD!IsAccount(n)
      /\ n.stage = stage /\ ~n.auth
  BY <1>3, CheckIsRequest
<1>5. adRequests' = [adRequests EXCEPT ![i] = n]
  BY <1>2
<1>. HIDE DEF n
<1>6. /\ DOMAIN adRequests' = DOMAIN adRequests /\ adRequests'[i] = n
      /\ \A j \in DOMAIN adRequests : j # i => adRequests'[j] = adRequests[j]
  BY <1>0, <1>4, <1>5, ChangedAt DEF AdTypes
<1>7. ASSUME ~adRaced
      PROVE  /\ accounts' = {} \/ \E u \in accounts' : accounts' = {u}
             /\ \A j \in DOMAIN adRequests' : adRequests'[j].stage # "valid"
  <2>1. /\ accounts = {} \/ \E u \in accounts : accounts = {u}
        /\ ~adRequests[i].update => accounts = {}
        /\ \A j \in DOMAIN adRequests : adRequests[j].stage = "valid" => j = i
    BY <1>0, <1>2, <1>7 DEF OneAtATime
  <2>2. accounts' = {} \/ \E u \in accounts' : accounts' = {u}
    BY <1>2, <2>1 DEF AD!CreateOrUpdateAccount
  <2>. QED  BY <1>2, <1>4, <1>6, <2>1, <2>2
<1>8. OneAtATime'
  BY <1>1, <1>7 DEF OneAtATime
<1>9. adRaced' \in BOOLEAN
  BY <1>0, <1>1 DEF AdTypes
<1>. QED  BY <1>1, <1>4, <1>5, <1>8, <1>9, OneWentOn

LEMMA AdAnswered ==
  ASSUME AdInv, AD!Checked \/ AD!NotChecked \/ AD!Saved \/ AD!NotSaved
  PROVE  AdInv'
<1>0. AdTypes /\ SmtpAsks /\ Confirmed
  BY DEF AdInv
<1>1. UNCHANGED <<adPage, accounts, adRaced>>
  BY DEF AD!Checked, AD!NotChecked, AD!Saved, AD!NotSaved, AD!formVars
<1>2. CASE AD!Checked
  <2>1. PICK i \in DOMAIN adRequests : AD!AdAnswer(i, "check", "ok")
                                       /\ updateExisting' = (adPage = "account" /\ adRequests[i].update)
    BY <1>2 DEF AD!Checked
  <2>2. adRequests' = Removed(adRequests, i) /\ adRequests[i].kind = "check"
    BY <2>1 DEF AD!AdAnswer, Removed
  <2>3. /\ adRequests' \in Seq(AdRequest) /\ AD!SentTwice' /\ NamedAreSaved' /\ OneAtATime'
        /\ adPage = "smtp" => ~AD!Checking'
        /\ adPage = "smtp" => \A k, l \in DOMAIN adRequests' :
              (adRequests'[k].kind = "check" /\ adRequests'[l].kind = "check") => k = l
    BY <1>1, <2>2, OneAnswered
  <2>4. UNCHANGED notMatching /\ updateExisting' \in BOOLEAN
    BY <1>2, <2>1 DEF AD!Checked
  <2>5. CASE adPage # "smtp"
    <3>1. UNCHANGED <<username, adPassword, adConfirm, adAuth, adEnabled>>
      BY <1>2, <2>5 DEF AD!Checked
    <3>2. AdTypes' /\ Confirmed'
      BY <1>0, <1>1, <2>3, <2>4, <3>1 DEF AdTypes, Confirmed
    <3>3. SmtpAsks'
      BY <1>0, <1>1, <2>5, <3>1 DEF SmtpAsks
    <3>. QED  BY <2>3, <3>2, <3>3 DEF AdInv
  <2>6. CASE adPage = "smtp"
    <3>1. /\ username' \in AdNames /\ adPassword' \in AdWords /\ adConfirm' = adPassword'
          /\ adAuth' \in BOOLEAN /\ adEnabled' = TRUE
      BY <1>2, <2>6 DEF AD!Checked, AD!Names, AdNames, AdWords
    <3>2. AdTypes' /\ Confirmed'
      BY <1>0, <1>1, <2>3, <2>4, <3>1 DEF AdTypes, Confirmed
    <3>3. SmtpAsks'
      BY <1>1, <2>3, <2>6, <3>1 DEF SmtpAsks
    <3>. QED  BY <2>3, <3>2, <3>3 DEF AdInv
  <2>. QED  BY <2>5, <2>6
<1>3. CASE AD!NotChecked
  <2>1. PICK i \in DOMAIN adRequests : AD!AdAnswer(i, "check", "failed")
    BY <1>3 DEF AD!NotChecked
  <2>2. adRequests' = Removed(adRequests, i) /\ adRequests[i].kind = "check"
    BY <2>1 DEF AD!AdAnswer, Removed
  <2>3. /\ adRequests' \in Seq(AdRequest) /\ AD!SentTwice' /\ NamedAreSaved' /\ OneAtATime'
        /\ adPage = "smtp" => ~AD!Checking'
        /\ adPage = "smtp" => \A k, l \in DOMAIN adRequests' :
              (adRequests'[k].kind = "check" /\ adRequests'[l].kind = "check") => k = l
    BY <1>1, <2>2, OneAnswered
  <2>4. /\ UNCHANGED <<username, adPassword, adConfirm, notMatching, adAuth, updateExisting>>
        /\ adEnabled' = TRUE
    BY <1>3 DEF AD!NotChecked
  <2>5. AdTypes'
    BY <1>0, <1>1, <2>3, <2>4 DEF AdTypes
  <2>6. SmtpAsks'
    BY <1>0, <1>1, <2>3, <2>4 DEF SmtpAsks
  <2>7. adPage = "smtp" => AD!Checking
    BY <2>2 DEF AD!Checking
  <2>8. Confirmed'
    BY <1>0, <1>1, <2>4, <2>7 DEF SmtpAsks, Confirmed
  <2>. QED  BY <2>3, <2>5, <2>6, <2>8 DEF AdInv
<1>4. CASE AD!Saved \/ AD!NotSaved
  <2>1. PICK i \in DOMAIN adRequests, stage \in {"ok", "failed"} : AD!AdAnswer(i, "save", stage)
    BY <1>4 DEF AD!Saved, AD!NotSaved
  <2>2. adRequests' = Removed(adRequests, i) /\ adRequests[i].kind = "save"
    BY <2>1 DEF AD!AdAnswer, Removed
  <2>3. /\ adRequests' \in Seq(AdRequest) /\ AD!SentTwice' /\ NamedAreSaved' /\ OneAtATime'
        /\ AD!Checking' <=> AD!Checking
        /\ adPage = "smtp" => \A k, l \in DOMAIN adRequests' :
              (adRequests'[k].kind = "check" /\ adRequests'[l].kind = "check") => k = l
    BY <1>1, <2>2, OneAnswered
  <2>4. UNCHANGED <<username, adPassword, adConfirm, notMatching, adAuth, adEnabled,
                    updateExisting>>
    BY <1>4 DEF AD!Saved, AD!NotSaved, AD!formVars
  <2>5. AdTypes' /\ Confirmed'
    BY <1>0, <1>1, <2>3, <2>4 DEF AdTypes, Confirmed
  <2>6. SmtpAsks'
    BY <1>0, <1>1, <2>3, <2>4 DEF SmtpAsks
  <2>. QED  BY <2>3, <2>5, <2>6 DEF AdInv
<1>. QED  BY <1>2, <1>3, <1>4

LEMMA AdStep ==
  ASSUME AdInv, AD!Next \/ UNCHANGED adVars
  PROVE  AdInv'
<1>1. CASE AD!OpenAdminPage
  BY <1>1, AdOpened
<1>2. CASE AD!TypeUsername \/ AD!TypePassword \/ AD!TypeConfirmPassword \/ AD!UpdateAuthState
  BY <1>2, AdEntered
<1>3. CASE AD!Confirm \/ AD!ConfirmOnReturn
  <2>1. CASE AD!Register /\ ~AD!AdAnyInvalid
    BY <2>1, AdRegister
  <2>2. CASE UNCHANGED <<adPage, username, adPassword, adConfirm, notMatching, adAuth,
                         adEnabled, updateExisting, adRequests, accounts, adRaced>>
    BY <2>2
    DEF AdInv, AdTypes, SmtpAsks, Confirmed, AD!SentTwice, NamedAreSaved, OneAtATime,
        AD!Checking
  <2>. QED  BY <1>3, <2>1, <2>2 DEF AD!Confirm, AD!ConfirmOnReturn
<1>4. CASE AD!CheckForLocalAccount
  <2>1. /\ adRequests' = Append(adRequests, AD!Check) /\ adPage = "account"
        /\ UNCHANGED <<adPage, username, adPassword, adConfirm, notMatching, adAuth, adEnabled,
                       updateExisting, accounts, adRaced>>
    BY <1>4 DEF AD!CheckForLocalAccount, AD!formVars
  <2>2. adRequests' \in Seq(AdRequest) /\ AD!SentTwice' /\ NamedAreSaved' /\ OneAtATime'
    BY <2>1, CheckIsRequest, OneMoreSent
  <2>3. AdTypes' /\ SmtpAsks' /\ Confirmed'
    BY <2>1, <2>2 DEF AdInv, AdTypes, SmtpAsks, Confirmed
  <2>. QED  BY <2>2, <2>3 DEF AdInv
<1>5. CASE AD!Serve
  BY <1>5, AdServed
<1>6. CASE AD!Perform
  BY <1>6, AdPerformed
<1>7. CASE AD!Checked \/ AD!NotChecked \/ AD!Saved \/ AD!NotSaved
  BY <1>7, AdAnswered
<1>8. CASE UNCHANGED adVars
  BY <1>8
  DEF adVars, AdInv, AdTypes, SmtpAsks, Confirmed, AD!SentTwice, NamedAreSaved, OneAtATime,
      AD!Checking
<1>. QED  BY <1>1, <1>2, <1>3, <1>4, <1>5, <1>6, <1>7, <1>8 DEF AD!Next

LEMMA AdInit == AD!Init => AdInv
<1>. SUFFICES ASSUME AD!Init
              PROVE  AdInv
  OBVIOUS
<1>1. /\ adRequests \in Seq(AdRequest) /\ DOMAIN adRequests = {1} /\ adRequests[1] = AD!Check
  BY CheckIsRequest DEF AD!Init
<1>2. accounts = {} \/ \E u \in accounts : accounts = {u}
  BY DEF AD!Init
<1>3. AdTypes
  BY <1>1 DEF AD!Init, AdTypes, AdNames, AdWords
<1>4. SmtpAsks /\ Confirmed
  BY DEF AD!Init, SmtpAsks, Confirmed
<1>5. AD!SentTwice /\ NamedAreSaved /\ OneAtATime
  BY <1>1, <1>2, CheckIsRequest DEF AD!SentTwice, NamedAreSaved, OneAtATime
<1>. QED  BY <1>3, <1>4, <1>5 DEF AdInv

LEMMA AdTells ==
  ASSUME AdInv
  PROVE  AD!SentTwice /\ AD!OneAccount
<1>1. ASSUME ~adRaced
      PROVE  AD!Cardinality(accounts) <= 1
  <2>1. CASE accounts = {}
    BY <2>1, FS_EmptySet DEF AD!Cardinality, Cardinality
  <2>2. CASE \E u \in accounts : accounts = {u}
    <3>1. PICK u \in accounts : accounts = {u}
      BY <2>2
    <3>2. Cardinality(accounts) = 1
      BY <3>1, FS_Singleton
    <3>3. AD!Cardinality(accounts) = Cardinality(accounts)
      BY DEF AD!Cardinality, Cardinality
    <3>. QED  BY <3>2, <3>3
  <2>. QED  BY <1>1, <2>1, <2>2 DEF AdInv, OneAtATime
<1>. QED  BY <1>1 DEF AdInv, AD!OneAccount

-----------------------------------------------------------------------------
(* MultiCamView: each camera's video has the stream whose box is checked. *)

MvCells == [cam : Nat, stream : Nat, cols : Columns \cup {0, 2}]

MvTypes ==
  /\ defaults \in [MV!CamIds -> MV!StreamIds]
  /\ mvState \in {"left", "loading", "loaded", "shown"}
  /\ selected \in [MV!CamIds -> SUBSET MV!StreamIds]
  /\ cells \in [MV!CamIds -> MvCells]
  /\ updates \subseteq MV!CamIds /\ columns \in Columns \cup {2} /\ early \subseteq MV!CamIds

BoxesChecked ==
  /\ mvState \in {"left", "loading"} => updates = {}
  /\ mvState \in {"loaded", "shown"} =>
       \A c \in MV!CamIds : \E s \in MV!StreamIds : selected[c] = {s}
  /\ mvState = "loaded" =>
       \A c \in MV!CamIds \ early : c \notin updates /\ selected[c] = {defaults[c]}

CellsSet ==
  mvState = "shown" =>
    \A c \in MV!CamIds :
      /\ cells[c].cam = c /\ cells[c].cols = columns
      /\ c \notin updates => \/ selected[c] = {cells[c].stream}
                             \/ c \in early /\ cells[c].stream = defaults[c]

MvInv == MvTypes /\ BoxesChecked /\ CellsSet

(* The default of a camera is given the video of that camera, and no other is. *)
LEMMA IndexIsCamera ==
  ASSUME MvTypes, NEW c \in MV!CamIds
  PROVE  MV!Index(<<c, defaults[c]>>) = c
<1>. DEFINE Before == {<<b, defaults[b]>> : b \in 1 .. c - 1}
            f == [b \in 1 .. c - 1 |-> <<b, defaults[b]>>]
<1>1. CamCount \in Nat /\ StreamCount \in Nat
  BY ClientPagesAssumption
<1>2. c \in 1 .. CamCount /\ \A b \in 1 .. CamCount : defaults[b] \in 1 .. StreamCount
  BY DEF MvTypes, MV!CamIds, MV!StreamIds
<1>3. {d \in MV!Defaults : d[1] < c \/ (d[1] = c /\ d[2] < defaults[c])} = Before
  <2>1. ASSUME NEW d \in MV!Defaults, d[1] < c \/ (d[1] = c /\ d[2] < defaults[c])
        PROVE  d \in Before
    <3>1. PICK b \in 1 .. CamCount : d = <<b, defaults[b]>>
      BY DEF MV!Defaults, MV!CamIds
    <3>2. b < c
      BY <1>1, <1>2, <2>1, <3>1
    <3>. QED  BY <1>1, <1>2, <3>1, <3>2
  <2>2. ASSUME NEW b \in 1 .. c - 1
        PROVE  <<b, defaults[b]>> \in MV!Defaults /\ <<b, defaults[b]>>[1] < c
    BY <1>1, <1>2 DEF MV!Defaults, MV!CamIds
  <2>. QED  BY <2>1, <2>2
<1>4. f \in Bijection(1 .. c - 1, Before)
  <2>1. f \in [1 .. c - 1 -> Before]
    OBVIOUS
  <2>2. \A a, b \in 1 .. c - 1 : f[a] = f[b] => a = b
    OBVIOUS
  <2>3. \A d \in Before : \E b \in 1 .. c - 1 : f[b] = d
    OBVIOUS
  <2>. HIDE DEF f, Before
  <2>. QED  BY <2>1, <2>2, <2>3 DEF Bijection, Injection, Surjection, IsInjective
<1>. HIDE DEF f
<1>5. Cardinality(Before) = c - 1
  <2>1. IsFiniteSet(1 .. c - 1) /\ Cardinality(1 .. c - 1) = c - 1
    <3>1. 1 \in Int /\ c - 1 \in Int
      BY <1>1, <1>2
    <3>2. /\ IsFiniteSet(1 .. c - 1)
          /\ Cardinality(1 .. c - 1) = IF 1 > c - 1 THEN 0 ELSE (c - 1) - 1 + 1
      BY <3>1, FS_Interval
    <3>. QED  BY <1>1, <1>2, <3>2
  <2>2. ExistsBijection(1 .. c - 1, Before)
    BY <1>4 DEF ExistsBijection
  <2>. HIDE DEF Before
  <2>. QED  BY <2>1, <2>2, FS_Bijection
<1>6. MV!Cardinality(Before) = Cardinality(Before)
  BY DEF MV!Cardinality, Cardinality
<1>7. MV!Index(<<c, defaults[c]>>) = 1 + MV!Cardinality(Before)
  BY <1>3 DEF MV!Index
<1>. HIDE DEF Before
<1>. QED  BY <1>1, <1>2, <1>5, <1>6, <1>7

LEMMA MvStep ==
  ASSUME MvInv, MV!Next \/ UNCHANGED mvVars
  PROVE  MvInv'
<1>0. /\ MvTypes /\ BoxesChecked /\ CellsSet /\ CamCount \in Nat /\ StreamCount \in Nat
      /\ MV!CamIds \subseteq Nat /\ MV!StreamIds \subseteq Nat
  <2>1. MvTypes /\ BoxesChecked /\ CellsSet
    BY DEF MvInv
  <2>2. CamCount \in Nat /\ StreamCount \in Nat
    BY ClientPagesAssumption
  <2>3. MV!CamIds \subseteq Nat
    BY <2>2 DEF MV!CamIds
  <2>4. MV!StreamIds \subseteq Nat
    BY <2>2 DEF MV!StreamIds
  <2>. QED  BY <2>1, <2>2, <2>3, <2>4
<1>1. CASE MV!EnterMulti
  <2>1. MV!Empty \in MvCells
    BY DEF MV!Empty, MvCells
  <2>2. MvTypes'
    BY <1>0, <1>1, <2>1 DEF MV!EnterMulti, MvTypes
  <2>. QED  BY <1>0, <1>1, <2>2 DEF MV!EnterMulti, MvInv, BoxesChecked, CellsSet
<1>2. CASE MV!CamerasLoaded
  <2>1. selected' \in [MV!CamIds -> SUBSET MV!StreamIds]
    BY <1>0, <1>2 DEF MV!CamerasLoaded, MvTypes
  <2>2. \A c \in MV!CamIds : selected'[c] = {defaults[c]} /\ defaults[c] \in MV!StreamIds
    BY <1>0, <1>2 DEF MV!CamerasLoaded, MvTypes
  <2>3. MvTypes' /\ BoxesChecked' /\ CellsSet'
    BY <1>0, <1>2, <2>1, <2>2 DEF MV!CamerasLoaded, MvTypes, BoxesChecked, CellsSet
  <2>. QED  BY <2>3 DEF MvInv
<1>3. CASE MV!SetupVideo
  <2>1. ASSUME NEW i \in MV!CamIds
        PROVE  /\ \E cs \in MV!Defaults : MV!Index(cs) = i
               /\ (CHOOSE ds \in MV!Defaults : MV!Index(ds) = i) = <<i, defaults[i]>>
    <3>1. <<i, defaults[i]>> \in MV!Defaults /\ MV!Index(<<i, defaults[i]>>) = i
      BY <1>0, <2>1, IndexIsCamera DEF MV!Defaults
    <3>2. ASSUME NEW ds \in MV!Defaults, MV!Index(ds) = i
          PROVE  ds = <<i, defaults[i]>>
      <4>1. PICK c \in MV!CamIds : ds = <<c, defaults[c]>>
        BY DEF MV!Defaults
      <4>2. MV!Index(<<c, defaults[c]>>) = c
        BY <1>0, IndexIsCamera
      <4>. QED  BY <3>2, <4>1, <4>2
    <3>. HIDE DEF MV!Index, MV!Defaults
    <3>. QED  BY <3>1, <3>2
  <2>2. cells' = [i \in MV!CamIds |-> [cam |-> i, stream |-> defaults[i], cols |-> columns]]
    <3>. DEFINE Some(i) == \E cs \in MV!Defaults : MV!Index(cs) = i
                One(i) == CHOOSE ds \in MV!Defaults : MV!Index(ds) = i
    <3>1. cells' = [i \in MV!CamIds |->
            IF Some(i) THEN [cam |-> One(i)[1], stream |-> One(i)[2], cols |-> columns]
            ELSE cells[i]]
      BY <1>3 DEF MV!SetupVideo
    <3>2. \A i \in MV!CamIds : Some(i) /\ One(i) = <<i, defaults[i]>>
      BY <2>1
    <3>. HIDE DEF Some, One
    <3>3. \A i \in MV!CamIds : Some(i) /\ One(i)[1] = i /\ One(i)[2] = defaults[i]
      BY <3>2
    <3>. QED  BY <3>1, <3>3
  <2>3. UNCHANGED <<defaults, selected, updates, columns, early>>
        /\ mvState = "loaded" /\ mvState' = "shown"
    BY <1>3 DEF MV!SetupVideo
  <2>4. MvTypes'
    BY <1>0, <2>2, <2>3 DEF MvTypes, MvCells
  <2>5. BoxesChecked'
    BY <1>0, <2>3 DEF BoxesChecked
  <2>6. CellsSet'
    BY <1>0, <2>2, <2>3 DEF BoxesChecked, CellsSet
  <2>. QED  BY <2>4, <2>5, <2>6 DEF MvInv
<1>4. CASE MV!UpdateCameras
  <2>1. PICK c \in MV!CamIds, s \in MV!StreamIds :
          /\ selected' = [selected EXCEPT ![c] = {s}]
          /\ updates' = updates \cup {c}
          /\ early' = IF mvState = "loaded" THEN early \cup {c} ELSE early \ {c}
    BY <1>4 DEF MV!UpdateCameras
  <2>2. /\ mvState \in {"loaded", "shown"}
        /\ UNCHANGED <<defaults, mvState, cells, columns>>
    BY <1>4 DEF MV!UpdateCameras
  <2>3. MvTypes'
    BY <1>0, <2>1, <2>2 DEF MvTypes
  <2>4. BoxesChecked'
    BY <1>0, <2>1, <2>2 DEF MvTypes, BoxesChecked
  <2>5. CellsSet'
    BY <1>0, <2>1, <2>2 DEF MvTypes, CellsSet
  <2>. QED  BY <2>3, <2>4, <2>5 DEF MvInv
<1>5. CASE MV!UpdateVideo
  <2>1. PICK c \in updates :
          /\ updates' = updates \ {c}
          /\ cells' = [cells EXCEPT ![c] =
               [cells[c] EXCEPT !.cam = c,
                  !.stream = CHOOSE s \in selected[c] : \A t \in selected[c] : t <= s]]
    BY <1>5 DEF MV!UpdateVideo
  <2>2. UNCHANGED <<defaults, mvState, selected, columns, early>>
    BY <1>5 DEF MV!UpdateVideo
  <2>3. c \in MV!CamIds /\ mvState \in {"loaded", "shown"}
    BY <1>0, <2>1 DEF MvTypes, BoxesChecked
  <2>4. PICK s \in MV!StreamIds : selected[c] = {s}
    BY <1>0, <2>3 DEF BoxesChecked
  <2>5. (CHOOSE u \in selected[c] : \A t \in selected[c] : t <= u) = s
    <3>1. s <= s
      BY <1>0
    <3>. QED  BY <2>4, <3>1
  <2>6. cells' = [cells EXCEPT ![c] = [cells[c] EXCEPT !.cam = c, !.stream = s]]
    BY <2>1, <2>5
  <2>7. cells[c] \in MvCells /\ c \in Nat /\ s \in Nat
    BY <1>0, <2>3 DEF MvTypes
  <2>8. /\ cells' \in [MV!CamIds -> MvCells]
        /\ cells'[c].cam = c /\ cells'[c].stream = s /\ cells'[c].cols = cells[c].cols
        /\ \A b \in MV!CamIds : b # c => cells'[b] = cells[b]
    BY <1>0, <2>3, <2>6, <2>7 DEF MvTypes, MvCells
  <2>9. MvTypes' /\ BoxesChecked'
    BY <1>0, <2>1, <2>2, <2>3, <2>8 DEF MvTypes, BoxesChecked
  <2>10. CellsSet'
    BY <1>0, <2>1, <2>2, <2>3, <2>4, <2>8 DEF CellsSet
  <2>. QED  BY <2>9, <2>10 DEF MvInv
<1>6. CASE MV!SetNumColumns
  <2>1. PICK n \in Columns :
          /\ columns' = n
          /\ cells' = IF mvState = "shown"
                      THEN [c \in MV!CamIds |-> [cells[c] EXCEPT !.cols = n]] ELSE cells
    BY <1>6 DEF MV!SetNumColumns
  <2>2. UNCHANGED <<defaults, mvState, selected, updates, early>>
    BY <1>6 DEF MV!SetNumColumns
  <2>3. \A c \in MV!CamIds :
          /\ [cells[c] EXCEPT !.cols = n] \in MvCells
          /\ [cells[c] EXCEPT !.cols = n].cam = cells[c].cam
          /\ [cells[c] EXCEPT !.cols = n].stream = cells[c].stream
          /\ [cells[c] EXCEPT !.cols = n].cols = n
    BY <1>0, <2>1 DEF MvTypes, MvCells
  <2>4. MvTypes' /\ BoxesChecked'
    BY <1>0, <2>1, <2>2, <2>3 DEF MvTypes, BoxesChecked
  <2>5. CellsSet'
    BY <1>0, <2>1, <2>2, <2>3 DEF CellsSet
  <2>. QED  BY <2>4, <2>5 DEF MvInv
<1>7. CASE MV!LeaveMulti
  BY <1>0, <1>7 DEF MV!LeaveMulti, MvInv, MvTypes, BoxesChecked, CellsSet
<1>8. CASE UNCHANGED mvVars
  BY <1>0, <1>8 DEF mvVars, MvInv, MvTypes, BoxesChecked, CellsSet
<1>. QED  BY <1>1, <1>2, <1>3, <1>4, <1>5, <1>6, <1>7, <1>8 DEF MV!Next

LEMMA MvInit == MV!Init => MvInv
<1>. SUFFICES ASSUME MV!Init
              PROVE  MvInv
  OBVIOUS
<1>1. MV!Empty \in MvCells
  BY DEF MV!Empty, MvCells
<1>2. MvTypes
  BY <1>1 DEF MV!Init, MvTypes
<1>3. BoxesChecked /\ CellsSet
  BY DEF MV!Init, BoxesChecked, CellsSet
<1>. QED  BY <1>2, <1>3 DEF MvInv

LEMMA MvShows ==
  ASSUME MvInv
  PROVE  MV!CellsShowSelection
BY DEF MvInv, CellsSet, MV!CellsShowSelection

-----------------------------------------------------------------------------
(* CameraParams: the page knows what its camera keeps. *)

CpFields == Settings \cup {CP!Blank}
CpRequest ==
  [kind : {"get", "set", "reboot"}, cam : CpCams, value : CpFields,
   answer : {"none", "ok", "failed"}]

CpTypes ==
  /\ params \in [CpCams -> Settings] /\ cam \in CpCams
  /\ fields \in CpFields /\ cameraParams \in CpFields \cup {CP!Unset}
  /\ editable \in BOOLEAN /\ downloading \in BOOLEAN /\ confirmReboot \in BOOLEAN
  /\ crossed \in BOOLEAN /\ cpFailed \in BOOLEAN
  /\ cpRequests \in Seq(CpRequest)
  /\ \A i \in DOMAIN cpRequests : cpRequests[i].kind = "set" => cpRequests[i].value \in Settings

(* What the only request on its way says of the page and the camera. *)
IsOf(r) ==
  /\ r.cam = cam
  /\ (r.kind = "get" /\ r.answer = "ok") => r.value = params[cam]
  /\ r.kind = "set" =>
       /\ r.value = fields
       /\ r.answer = "ok" => params[cam] = fields
       /\ ~cpFailed => cameraParams # CP!Unset
  /\ (r.kind = "reboot" /\ ~cpFailed) => cameraParams = params[cam] /\ fields = params[cam]

OneAsked ==
  ~crossed =>
    IF cpRequests = << >>
    THEN /\ ~downloading /\ (~cpFailed => cameraParams = params[cam])
         /\ confirmReboot => ~editable /\ fields = cameraParams
    ELSE Len(cpRequests) = 1 /\ downloading /\ ~confirmReboot /\ IsOf(cpRequests[1])

CpInv == CpTypes /\ OneAsked

(* The first is sent. *)
LEMMA FirstSent ==
  ASSUME NEW S, NEW s \in Seq(S), NEW elt \in S
  PROVE  /\ Append(s, elt) \in Seq(S) /\ Append(s, elt) # << >>
         /\ s = << >> => Len(Append(s, elt)) = 1 /\ Append(s, elt)[1] = elt
         /\ \A i \in DOMAIN Append(s, elt) :
              (i \in DOMAIN s /\ Append(s, elt)[i] = s[i]) \/ Append(s, elt)[i] = elt
<1>1. /\ Append(s, elt) \in Seq(S) /\ Len(s) \in Nat /\ DOMAIN s = 1 .. Len(s)
      /\ Len(Append(s, elt)) = Len(s) + 1 /\ DOMAIN Append(s, elt) = 1 .. Len(s) + 1
      /\ \A i \in 1 .. Len(s) : Append(s, elt)[i] = s[i]
      /\ Append(s, elt)[Len(s) + 1] = elt
  BY AppendAt
<1>2. Append(s, elt) # << >>
  BY <1>1, EmptySeq
<1>3. s = << >> => Len(s) = 0
  BY EmptySeq
<1>. QED  BY <1>1, <1>2, <1>3

LEMMA CpSent ==
  ASSUME CpInv, NEW kind \in {"set", "reboot"}, ~downloading, CP!Send(kind),
         UNCHANGED <<params, cam, cameraParams, fields, crossed, cpFailed>>,
         kind = "set" => UNCHANGED confirmReboot /\ UNCHANGED editable
                         /\ ~confirmReboot /\ fields \in Settings,
         kind = "reboot" => confirmReboot /\ ~confirmReboot' /\ confirmReboot' \in BOOLEAN
                            /\ editable' \in BOOLEAN
  PROVE  CpInv'
<1>0. CpTypes /\ OneAsked
  BY DEF CpInv
<1>. DEFINE r == [kind |-> kind, cam |-> cam, value |-> fields, answer |-> "none"]
<1>1. /\ r \in CpRequest /\ r.kind = kind /\ r.cam = cam /\ r.value = fields
      /\ r.answer = "none"
  BY <1>0 DEF CpTypes, CpRequest
<1>2. cpRequests' = Append(cpRequests, r) /\ downloading' = TRUE
  BY DEF CP!Send, CP!Asked
<1>. HIDE DEF r
<1>3. /\ cpRequests' \in Seq(CpRequest) /\ cpRequests' # << >>
      /\ cpRequests = << >> => Len(cpRequests') = 1 /\ cpRequests'[1] = r
      /\ \A i \in DOMAIN cpRequests' :
           \/ i \in DOMAIN cpRequests /\ cpRequests'[i] = cpRequests[i]
           \/ cpRequests'[i] = r
  BY <1>0, <1>1, <1>2, FirstSent DEF CpTypes
<1>4. CpTypes'
  BY <1>0, <1>1, <1>2, <1>3 DEF CpTypes
<1>5. ASSUME ~crossed
      PROVE  /\ cpRequests = << >> /\ (~cpFailed => cameraParams = params[cam])
             /\ confirmReboot => fields = cameraParams
  BY <1>0, <1>5 DEF OneAsked
<1>6. params[cam] \in Settings /\ CP!Unset \notin Settings
  BY <1>0, ClientPagesAssumption DEF CpTypes, CP!Unset
<1>7. ASSUME ~crossed
      PROVE  IsOf(cpRequests[1])'
  <2>1. cpRequests'[1] = r /\ (~cpFailed => cameraParams = params[cam])
    BY <1>3, <1>5, <1>7
  <2>2. CASE kind = "set"
    BY <1>1, <1>6, <2>1, <2>2 DEF IsOf
  <2>3. CASE kind = "reboot"
    BY <1>1, <1>5, <1>7, <2>1, <2>3 DEF IsOf
  <2>. QED  BY <2>2, <2>3
<1>8. ASSUME ~crossed
      PROVE  Len(cpRequests') = 1 /\ ~confirmReboot'
  BY <1>3, <1>5, <1>8
<1>9. OneAsked'
  BY <1>2, <1>3, <1>7, <1>8 DEF OneAsked
<1>. QED  BY <1>4, <1>9 DEF CpInv

LEMMA CpServed ==
  ASSUME CpInv, CP!Serve
  PROVE  CpInv'
<1>0. CpTypes /\ OneAsked
  BY DEF CpInv
<1>1. UNCHANGED <<cam, cameraParams, fields, editable, downloading, confirmReboot, crossed,
                  cpFailed>>
  BY DEF CP!Serve
<1>2. PICK i \in DOMAIN cpRequests, ok \in BOOLEAN :
        /\ cpRequests[i].answer = "none"
        /\ \/ cpRequests[i].kind = "set"
              /\ params' = [params EXCEPT ![cpRequests[i].cam] = cpRequests[i].value]
           \/ params' = params /\ (ok => cpRequests[i].kind # "set")
        /\ cpRequests' = [cpRequests EXCEPT ![i].answer = IF ok THEN "ok" ELSE "failed",
             ![i].value = IF cpRequests[i].kind = "get" THEN params[cpRequests[i].cam] ELSE @]
  BY DEF CP!Serve
<1>3. cpRequests[i] \in CpRequest
  BY <1>0, ElementOfSeq DEF CpTypes
<1>. DEFINE value == IF cpRequests[i].kind = "get" THEN params[cpRequests[i].cam]
                     ELSE cpRequests[i].value
            answer == IF ok THEN "ok" ELSE "failed"
            r == [cpRequests[i] EXCEPT !.answer = answer, !.value = value]
<1>4. cpRequests' = [cpRequests EXCEPT ![i] = r]
  BY <1>2, <1>3 DEF CpRequest
<1>5. value \in CpFields /\ answer \in {"ok", "failed"}
  BY <1>0, <1>3 DEF CpTypes, CpRequest, CpFields
<1>6. /\ r \in CpRequest /\ r.kind = cpRequests[i].kind /\ r.cam = cpRequests[i].cam
      /\ r.answer = answer /\ r.value = value
  BY <1>3, <1>5 DEF CpRequest
<1>. HIDE DEF r
<1>7. /\ cpRequests' \in Seq(CpRequest) /\ Len(cpRequests') = Len(cpRequests)
      /\ DOMAIN cpRequests' = DOMAIN cpRequests /\ cpRequests'[i] = r
      /\ \A j \in DOMAIN cpRequests : j # i => cpRequests'[j] = cpRequests[j]
  BY <1>0, <1>4, <1>6, ChangedAt DEF CpTypes
<1>8. params' \in [CpCams -> Settings]
  BY <1>0, <1>2, <1>3 DEF CpTypes, CpRequest
<1>9. CpTypes'
  BY <1>0, <1>1, <1>6, <1>7, <1>8 DEF CpTypes
<1>10. ASSUME ~crossed
       PROVE  /\ cpRequests # << >> /\ cpRequests' # << >> /\ Len(cpRequests) = 1 /\ i = 1
              /\ downloading /\ ~confirmReboot /\ IsOf(cpRequests[1])
  <2>1. cpRequests # << >> /\ cpRequests' # << >> /\ i \in 1 .. Len(cpRequests)
    BY <1>0, <1>7, EmptySeq, LenProperties DEF CpTypes
  <2>. QED  BY <1>0, <1>10, <2>1 DEF OneAsked
<1>11. ASSUME ~crossed
       PROVE  IsOf(cpRequests[1])'
  <2>1. /\ r.cam = cam /\ r.kind = cpRequests[1].kind /\ IsOf(cpRequests[1])
        /\ cpRequests[1].cam = cam /\ i = 1 /\ cpRequests'[1] = r
    BY <1>6, <1>7, <1>10, <1>11 DEF IsOf
  <2>2. CASE r.kind = "get"
    BY <1>1, <1>2, <1>6, <2>1, <2>2 DEF IsOf
  <2>3. CASE r.kind = "set"
    <3>1. r.value = fields /\ (~cpFailed => cameraParams # CP!Unset)
      BY <1>6, <2>1, <2>3 DEF IsOf
    <3>2. r.answer = "ok" => params'[cam] = fields
      BY <1>0, <1>2, <1>6, <2>1, <2>3, <3>1 DEF CpTypes
    <3>. QED  BY <1>1, <2>1, <2>3, <3>1, <3>2 DEF IsOf
  <2>4. CASE r.kind = "reboot"
    BY <1>1, <1>2, <2>1, <2>4 DEF IsOf
  <2>. QED  BY <1>3, <2>1, <2>2, <2>3, <2>4 DEF CpRequest
<1>12. OneAsked'
  BY <1>1, <1>7, <1>10, <1>11 DEF OneAsked
<1>. QED  BY <1>9, <1>12 DEF CpInv

LEMMA CpAnswered ==
  ASSUME CpInv, NEW kinds \in SUBSET {"get", "set", "reboot"}, NEW answer,
         NEW i \in DOMAIN cpRequests, CP!Answered(kinds, answer, i)
  PROVE  /\ cpRequests' \in Seq(CpRequest) /\ crossed' \in BOOLEAN /\ ~downloading'
         /\ downloading' \in BOOLEAN
         /\ \A j \in DOMAIN cpRequests' :
              cpRequests'[j].kind = "set" => cpRequests'[j].value \in Settings
         /\ cpRequests[i] \in CpRequest /\ cpRequests[i].kind \in kinds
         /\ cpRequests[i].answer = answer
         /\ ~crossed' => ~crossed /\ cpRequests' = << >> /\ ~confirmReboot /\ IsOf(cpRequests[i])
<1>0. CpTypes /\ OneAsked
  BY DEF CpInv
<1>1. /\ cpRequests' = Removed(cpRequests, i) /\ crossed' = (crossed \/ Len(cpRequests) > 1)
      /\ downloading' = FALSE /\ cpRequests[i].kind \in kinds /\ cpRequests[i].answer = answer
  BY DEF CP!Answered, Removed
<1>2. cpRequests' \in Seq(CpRequest)
  BY <1>0, <1>1, RemovedAt DEF CpTypes
<1>3. \A j \in DOMAIN cpRequests' :
        cpRequests'[j].kind = "set" => cpRequests'[j].value \in Settings
  <2>1. PICK f : Thins(cpRequests', cpRequests, f)
    BY <1>0, <1>1, RemovedThins DEF CpTypes
  <2>2. \A j \in DOMAIN cpRequests' :
          f[j] \in DOMAIN cpRequests /\ cpRequests'[j] = cpRequests[f[j]]
    BY <2>1 DEF Thins
  <2>. QED  BY <1>0, <2>2 DEF CpTypes
<1>4. cpRequests[i] \in CpRequest
  BY <1>0, ElementOfSeq DEF CpTypes
<1>5. ASSUME ~crossed'
      PROVE  ~crossed /\ cpRequests' = << >> /\ ~confirmReboot /\ IsOf(cpRequests[i])
  <2>1. ~crossed
    BY <1>1, <1>5
  <2>2. cpRequests # << >>
    BY <1>0, EmptySeq
  <2>3. Len(cpRequests) = 1 /\ ~confirmReboot /\ IsOf(cpRequests[1])
    BY <1>0, <2>1, <2>2 DEF OneAsked
  <2>4. i = 1 /\ cpRequests' = << >>
    <3>1. cpRequests \in Seq(CpRequest) /\ Len(cpRequests) <= 1
      BY <1>0, <2>3 DEF CpTypes
    <3>. QED  BY <1>1, <3>1, OnlyGoes
  <2>. QED  BY <2>1, <2>3, <2>4
<1>6. crossed' \in BOOLEAN
  BY <1>1
<1>. QED  BY <1>1, <1>2, <1>3, <1>4, <1>5, <1>6

LEMMA CpStep ==
  ASSUME CpInv, CP!Next \/ UNCHANGED cpVars
  PROVE  CpInv'
<1>0. CpTypes /\ OneAsked
  BY DEF CpInv
<1>1. CASE CP!SwitchCamera
  <2>1. PICK c \in CpCams :
          /\ cam' = c
          /\ cpRequests' = Append(cpRequests, [CP!Asked("get", CP!Blank) EXCEPT !.cam = c])
    BY <1>1 DEF CP!SwitchCamera
  <2>. DEFINE r == [CP!Asked("get", CP!Blank) EXCEPT !.cam = c]
  <2>2. r \in CpRequest /\ r.kind = "get" /\ r.cam = c /\ r.answer = "none"
    BY DEF CpRequest, CpFields, CP!Asked
  <2>3. /\ fields' = CP!Blank /\ editable' = TRUE /\ downloading' = TRUE
        /\ crossed' = (cpRequests # << >> \/ confirmReboot)
        /\ UNCHANGED <<params, cameraParams, confirmReboot, cpFailed>>
    BY <1>1 DEF CP!SwitchCamera
  <2>4. /\ cpRequests' \in Seq(CpRequest) /\ cpRequests' # << >>
        /\ cpRequests = << >> => Len(cpRequests') = 1 /\ cpRequests'[1] = r
        /\ \A i \in DOMAIN cpRequests' :
             \/ i \in DOMAIN cpRequests /\ cpRequests'[i] = cpRequests[i]
             \/ cpRequests'[i] = r
    <3>1. cpRequests' = Append(cpRequests, r)
      BY <2>1
    <3>. HIDE DEF r
    <3>. QED  BY <1>0, <2>2, <3>1, FirstSent DEF CpTypes
  <2>. HIDE DEF r
  <2>5. CpTypes'
    BY <1>0, <2>1, <2>2, <2>3, <2>4 DEF CpTypes, CpFields
  <2>6. OneAsked'
    BY <2>1, <2>2, <2>3, <2>4 DEF OneAsked, IsOf
  <2>. QED  BY <2>5, <2>6 DEF CpInv
<1>2. CASE CP!Edit
  <2>1. /\ ~downloading /\ editable /\ fields' \in CpFields
        /\ UNCHANGED <<params, cam, cameraParams, editable, downloading, confirmReboot,
                       cpRequests, crossed, cpFailed>>
    BY <1>2 DEF CP!Edit, CpFields
  <2>2. CpTypes'
    BY <1>0, <2>1 DEF CpTypes
  <2>3. OneAsked'
    BY <1>0, <2>1 DEF OneAsked
  <2>. QED  BY <2>2, <2>3 DEF CpInv
<1>3. CASE CP!UpdateParams
  BY <1>3, CpSent DEF CP!UpdateParams
<1>4. CASE CP!Reboot
  BY <1>4, CpSent DEF CP!Reboot
<1>5. CASE CP!ConfirmReboot \/ CP!CancelReboot
  <2>1. /\ ~downloading /\ fields = cameraParams
        /\ confirmReboot' \in BOOLEAN /\ editable' = ~confirmReboot'
        /\ UNCHANGED <<params, cam, cameraParams, fields, downloading, cpRequests, crossed,
                       cpFailed>>
    BY <1>5 DEF CP!ConfirmReboot, CP!CancelReboot
  <2>2. CpTypes'
    BY <1>0, <2>1 DEF CpTypes
  <2>3. OneAsked'
    BY <1>0, <2>1 DEF OneAsked
  <2>. QED  BY <2>2, <2>3 DEF CpInv
<1>6. CASE CP!Serve
  BY <1>6, CpServed
<1>7. CASE CP!GetDone
  <2>1. PICK i \in DOMAIN cpRequests :
          /\ CP!Answered({"get"}, "ok", i)
          /\ cameraParams' = cpRequests[i].value /\ fields' = cpRequests[i].value
    BY <1>7 DEF CP!GetDone
  <2>2. cpFailed' = FALSE /\ UNCHANGED <<params, cam, editable, confirmReboot>>
    BY <1>7 DEF CP!GetDone
  <2>3. /\ cpRequests' \in Seq(CpRequest) /\ crossed' \in BOOLEAN /\ ~downloading'
        /\ downloading' \in BOOLEAN
        /\ \A j \in DOMAIN cpRequests' :
             cpRequests'[j].kind = "set" => cpRequests'[j].value \in Settings
        /\ cpRequests[i] \in CpRequest
        /\ cpRequests[i].kind \in {"get"} /\ cpRequests[i].answer = "ok"
        /\ ~crossed' => cpRequests' = << >> /\ ~confirmReboot /\ IsOf(cpRequests[i])
    <3>1. {"get"} \in SUBSET {"get", "set", "reboot"}
      OBVIOUS
    <3>. QED  BY <2>1, <3>1, CpAnswered
  <2>4. CpTypes'
    BY <1>0, <2>1, <2>2, <2>3 DEF CpTypes, CpRequest
  <2>5. OneAsked'
    BY <2>1, <2>2, <2>3 DEF OneAsked, IsOf
  <2>. QED  BY <2>4, <2>5 DEF CpInv
<1>8. CASE CP!SetDone
  <2>1. PICK i \in DOMAIN cpRequests : CP!Answered({"set", "reboot"}, "ok", i)
    BY <1>8 DEF CP!SetDone
  <2>2. /\ confirmReboot' = FALSE
        /\ cameraParams' = IF cameraParams = CP!Unset THEN CP!Unset ELSE fields
        /\ UNCHANGED <<params, cam, fields, editable, cpFailed>>
    BY <1>8 DEF CP!SetDone
  <2>3. /\ cpRequests' \in Seq(CpRequest) /\ crossed' \in BOOLEAN /\ ~downloading'
        /\ downloading' \in BOOLEAN
        /\ \A j \in DOMAIN cpRequests' :
             cpRequests'[j].kind = "set" => cpRequests'[j].value \in Settings
        /\ cpRequests[i].kind \in {"set", "reboot"} /\ cpRequests[i].answer = "ok"
        /\ ~crossed' => cpRequests' = << >> /\ IsOf(cpRequests[i])
    BY <2>1, CpAnswered
  <2>4. CpTypes'
    BY <1>0, <2>2, <2>3 DEF CpTypes
  <2>5. params[cam] # CP!Unset
    BY <1>0, ClientPagesAssumption DEF CpTypes, CP!Unset
  <2>6. OneAsked'
    BY <2>2, <2>3, <2>5 DEF OneAsked, IsOf
  <2>. QED  BY <2>4, <2>6 DEF CpInv
<1>9. CASE CP!Failed
  <2>1. PICK i \in DOMAIN cpRequests :
          /\ CP!Answered({"get", "set", "reboot"}, "failed", i)
          /\ confirmReboot' = (confirmReboot /\ cpRequests[i].kind = "get")
    BY <1>9 DEF CP!Failed
  <2>2. cpFailed' = TRUE /\ UNCHANGED <<params, cam, cameraParams, fields, editable>>
    BY <1>9 DEF CP!Failed
  <2>3. /\ cpRequests' \in Seq(CpRequest) /\ crossed' \in BOOLEAN /\ ~downloading'
        /\ downloading' \in BOOLEAN
        /\ \A j \in DOMAIN cpRequests' :
             cpRequests'[j].kind = "set" => cpRequests'[j].value \in Settings
        /\ ~crossed' => cpRequests' = << >> /\ ~confirmReboot
    BY <2>1, CpAnswered
  <2>4. CpTypes'
    BY <1>0, <2>1, <2>2, <2>3 DEF CpTypes
  <2>5. OneAsked'
    BY <2>1, <2>2, <2>3 DEF OneAsked
  <2>. QED  BY <2>4, <2>5 DEF CpInv
<1>10. CASE UNCHANGED cpVars
  BY <1>0, <1>10 DEF cpVars, CpInv, CpTypes, OneAsked, IsOf
<1>. QED
  BY <1>1, <1>2, <1>3, <1>4, <1>5, <1>6, <1>7, <1>8, <1>9, <1>10 DEF CP!Next

LEMMA CpInit == CP!Init => CpInv
<1>. SUFFICES ASSUME CP!Init
              PROVE  CpInv
  OBVIOUS
<1>. DEFINE r == CP!Asked("get", CP!Blank)
<1>1. r \in CpRequest /\ r.kind = "get" /\ r.cam = cam /\ r.answer = "none"
  BY DEF CP!Init, CpRequest, CpFields, CP!Asked
<1>2. cpRequests = <<r>>
  BY DEF CP!Init
<1>. HIDE DEF r
<1>3. /\ cpRequests \in Seq(CpRequest) /\ DOMAIN cpRequests = {1} /\ Len(cpRequests) = 1
      /\ cpRequests[1] = r /\ cpRequests # << >>
  BY <1>1, <1>2
<1>4. CpTypes
  BY <1>1, <1>3 DEF CP!Init, CpTypes, CpFields
<1>5. OneAsked
  BY <1>1, <1>3 DEF CP!Init, OneAsked, IsOf
<1>. QED  BY <1>4, <1>5 DEF CpInv

LEMMA CpKnows ==
  ASSUME CpInv
  PROVE  CP!KnowsTheCamera
BY DEF CpInv, OneAsked, CP!KnowsTheCamera

-----------------------------------------------------------------------------
(* WifiSettings: the access point named is the one connected to. *)

WfKinds == {"check", "on", "off", "timer", "scan", "current", "connect"}
WfArgs == AccessPoints \cup {WF!NoAp, "on", "off"}
WfCall == [kind : WfKinds, arg : WfArgs, answer : {"none", "ok", "secret", "error"}]

WfTypes ==
  /\ nvrAp \in WfArgs /\ accessPoint \in WfArgs /\ choice \in WfArgs
  /\ wifiEnabled \in BOOLEAN /\ connecting \in BOOLEAN /\ doubtful \in BOOLEAN
  /\ calls \in Seq(WfCall)

(* With one call on its way: what was answered, and what is being connected to. *)
IsTrue(c) ==
  /\ (c.kind = "current" /\ c.answer = "ok") => c.arg = nvrAp
  /\ c.kind = "connect" =>
       /\ connecting /\ c.arg = choice
       /\ IF c.answer = "ok" THEN nvrAp = c.arg ELSE accessPoint = nvrAp

OneCalled ==
  ~doubtful =>
    /\ (calls = << >> /\ wifiEnabled) => accessPoint = nvrAp
    /\ Len(calls) = 1 => IsTrue(calls[1])

WfInv == WfTypes /\ OneCalled

LEMMA WfAnswer ==
  ASSUME WfInv, NEW i \in DOMAIN calls, NEW kinds, NEW answers, NEW next \in Seq(WfCall),
         WF!Answer(i, kinds, answers, next)
  PROVE  /\ calls' \in Seq(WfCall)
         /\ calls[i] \in WfCall /\ calls[i].kind \in kinds /\ calls[i].answer \in answers
         /\ WF!Alone => /\ calls' = next
                        /\ ~doubtful => IsTrue(calls[i])
<1>0. calls \in Seq(WfCall) /\ OneCalled
  BY DEF WfInv, WfTypes
<1>1. /\ calls' = Removed(calls, i) \o next
      /\ calls[i].kind \in kinds /\ calls[i].answer \in answers
  BY DEF WF!Answer, Removed
<1>2. calls[i] \in WfCall /\ Removed(calls, i) \in Seq(WfCall)
  BY <1>0, ElementOfSeq, RemovedAt
<1>3. calls' \in Seq(WfCall)
  BY <1>1, <1>2, ConcatProperties
<1>4. ASSUME WF!Alone
      PROVE  i = 1 /\ calls' = next
  <2>1. Len(calls) <= 1
    BY <1>4 DEF WF!Alone
  <2>2. i = 1 /\ Removed(calls, i) = << >>
    BY <1>0, <2>1, OnlyGoes
  <2>3. << >> \o next = next
    BY ConcatEmptySeq
  <2>. QED  BY <1>1, <2>2, <2>3
<1>. QED  BY <1>0, <1>1, <1>2, <1>3, <1>4 DEF OneCalled, WF!Alone

LEMMA WfCalled ==
  ASSUME WfInv, NEW kind \in WfKinds, NEW arg \in WfArgs, WF!Calls(kind, arg)
  PROVE  /\ calls' \in Seq(WfCall) /\ calls' # << >>
         /\ Len(calls') = 1 => calls = << >> /\ calls'[1] = WF!Call(kind, arg)
<1>1. WF!Call(kind, arg) \in WfCall
  BY DEF WF!Call, WfCall
<1>2. calls' = Append(calls, WF!Call(kind, arg)) /\ calls \in Seq(WfCall)
  BY DEF WF!Calls, WfInv, WfTypes
<1>3. /\ calls' \in Seq(WfCall) /\ calls' # << >> /\ Len(calls) \in Nat
      /\ Len(calls') = Len(calls) + 1
      /\ calls'[Len(calls) + 1] = WF!Call(kind, arg)
  BY <1>1, <1>2, AppendAt, FirstSent
<1>4. Len(calls) = 0 => calls = << >>
  BY <1>2, EmptySeq
<1>. QED  BY <1>3, <1>4

LEMMA WfServed ==
  ASSUME WfInv, WF!Serve
  PROVE  WfInv'
<1>0. WfTypes /\ OneCalled
  BY DEF WfInv
<1>1. UNCHANGED <<wifiEnabled, accessPoint, choice, connecting>>
  BY DEF WF!Serve
<1>2. PICK i \in DOMAIN calls, answer \in {"ok", "secret", "error"} :
        /\ calls[i].answer = "none"
        /\ IF calls[i].kind = "connect" /\ answer = "ok"
           THEN nvrWifi /\ nvrAp' = calls[i].arg /\ nvrWifi' = nvrWifi
           ELSE WF!Served(calls[i].kind, answer = "ok")
        /\ calls' = [calls EXCEPT ![i].answer = answer, ![i].arg =
             CASE calls[i].kind = "check"   -> IF nvrWifi THEN "on" ELSE "off"
               [] calls[i].kind = "current" -> nvrAp
               [] OTHER                     -> calls[i].arg]
        /\ doubtful' = (doubtful \/
             (calls[i].kind = "connect" /\ answer # "ok" /\ nvrAp' # nvrAp))
  BY DEF WF!Serve
<1>3. calls[i] \in WfCall
  BY <1>0, ElementOfSeq DEF WfTypes
<1>. DEFINE arg == CASE calls[i].kind = "check"   -> IF nvrWifi THEN "on" ELSE "off"
                     [] calls[i].kind = "current" -> nvrAp
                     [] OTHER                     -> calls[i].arg
            c == [calls[i] EXCEPT !.answer = answer, !.arg = arg]
<1>4. arg \in WfArgs
  BY <1>0, <1>3 DEF WfTypes, WfCall, WfArgs
<1>5. /\ calls[i].kind = "current" => arg = nvrAp
      /\ calls[i].kind = "connect" => arg = calls[i].arg
  OBVIOUS
<1>6. calls' = [calls EXCEPT ![i] = c]
  BY <1>2, <1>3 DEF WfCall
<1>. HIDE DEF arg
<1>7. c \in WfCall /\ c.kind = calls[i].kind /\ c.answer = answer /\ c.arg = arg
  BY <1>3, <1>4 DEF WfCall
<1>. HIDE DEF c
<1>8. /\ calls' \in Seq(WfCall) /\ Len(calls') = Len(calls)
      /\ DOMAIN calls' = DOMAIN calls /\ calls'[i] = c
  BY <1>0, <1>6, <1>7, ChangedAt DEF WfTypes
<1>9. /\ nvrAp' \in WfArgs
      /\ calls[i].kind \in {"current", "check"} => nvrAp' = nvrAp
      /\ calls[i].kind = "connect" /\ answer = "ok" => nvrAp' = calls[i].arg
  <2>1. CASE calls[i].kind = "connect" /\ answer = "ok"
    BY <1>2, <1>3, <2>1 DEF WfCall
  <2>2. CASE ~(calls[i].kind = "connect" /\ answer = "ok")
    <3>1. WF!Served(calls[i].kind, answer = "ok")
      BY <1>2, <2>2
    <3>2. CASE calls[i].kind \in {"on", "off"} /\ answer = "ok"
      BY <1>0, <3>1, <3>2 DEF WF!Served, WfTypes, WfArgs
    <3>3. CASE ~(calls[i].kind \in {"on", "off"} /\ answer = "ok")
      BY <1>0, <2>2, <3>1, <3>3 DEF WF!Served, WfTypes, WfArgs
    <3>. QED  BY <2>2, <3>2, <3>3
  <2>. QED  BY <2>1, <2>2
<1>10. WfTypes'
  BY <1>0, <1>1, <1>2, <1>8, <1>9 DEF WfTypes
<1>11. calls # << >> /\ calls' # << >> /\ i \in 1 .. Len(calls)
  BY <1>0, <1>8, EmptySeq, LenProperties DEF WfTypes
<1>12. ASSUME ~doubtful', Len(calls') = 1
       PROVE  IsTrue(calls[1])'
  <2>1. ~doubtful /\ i = 1 /\ IsTrue(calls[1]) /\ calls'[1] = c
    <3>1. ~doubtful
      BY <1>2, <1>12, Zenon
    <3>2. Len(calls) = 1 /\ i = 1
      BY <1>8, <1>11, <1>12
    <3>. QED  BY <1>0, <1>8, <3>1, <3>2 DEF OneCalled
  <2>2. CASE c.kind = "current"
    BY <1>5, <1>7, <1>9, <2>1, <2>2 DEF IsTrue
  <2>3. CASE c.kind = "connect"
    <3>1. connecting /\ c.arg = choice /\ accessPoint = nvrAp
      BY <1>2, <1>5, <1>7, <2>1, <2>3 DEF IsTrue
    <3>2. IF answer = "ok" THEN nvrAp' = c.arg ELSE nvrAp' = nvrAp
      BY <1>2, <1>5, <1>7, <1>9, <1>12, <2>3
    <3>. QED  BY <1>1, <1>7, <2>1, <2>3, <3>1, <3>2 DEF IsTrue
  <2>4. CASE c.kind \notin {"current", "connect"}
    BY <2>1, <2>4 DEF IsTrue
  <2>. QED  BY <2>2, <2>3, <2>4
<1>13. OneCalled'
  BY <1>11, <1>12 DEF OneCalled
<1>. QED  BY <1>10, <1>13 DEF WfInv

LEMMA WfStep ==
  ASSUME WfInv, WF!Next \/ UNCHANGED wfVars
  PROVE  WfInv'
<1>0. WfTypes /\ OneCalled
  BY DEF WfInv
<1>1. CASE WF!WithEthernet \/ UNCHANGED wfVars
  <2>1. UNCHANGED <<nvrAp, accessPoint, choice, wifiEnabled, connecting, doubtful, calls>>
    BY <1>1 DEF WF!WithEthernet, wfVars
  <2>. QED  BY <1>0, <2>1 DEF WfInv, WfTypes, OneCalled, IsTrue
<1>2. CASE WF!SetWifiStatus
  <2>1. /\ UNCHANGED <<nvrAp, accessPoint, choice, wifiEnabled, connecting, doubtful>>
        /\ WF!Calls(IF box THEN "off" ELSE "on", WF!NoAp)
    BY <1>2 DEF WF!SetWifiStatus
  <2>2. PICK kind \in {"on", "off"} : WF!Calls(kind, WF!NoAp)
    BY <2>1
  <2>3. /\ calls' \in Seq(WfCall) /\ calls' # << >>
        /\ Len(calls') = 1 => calls'[1] = WF!Call(kind, WF!NoAp)
    BY <2>2, WfCalled DEF WfKinds, WfArgs
  <2>4. WfTypes'
    BY <1>0, <2>1, <2>3 DEF WfTypes
  <2>5. OneCalled'
    BY <2>3 DEF OneCalled, IsTrue, WF!Call
  <2>. QED  BY <2>4, <2>5 DEF WfInv
<1>3. CASE WF!OnSelectorChange \/ WF!CancelPasswordEntry
  <2>1. /\ UNCHANGED <<nvrAp, accessPoint, wifiEnabled, connecting, calls>>
        /\ choice' \in WfArgs /\ doubtful' = (doubtful \/ connecting)
    BY <1>0, <1>3 DEF WF!OnSelectorChange, WF!CancelPasswordEntry, WfTypes, WfArgs
  <2>2. WfTypes'
    BY <1>0, <2>1 DEF WfTypes
  <2>3. OneCalled'
    BY <1>0, <2>1 DEF OneCalled, IsTrue
  <2>. QED  BY <2>2, <2>3 DEF WfInv
<1>4. CASE WF!Connect
  <2>1. /\ wifiEnabled /\ connecting' = TRUE /\ WF!Calls("connect", choice)
        /\ UNCHANGED <<nvrAp, accessPoint, choice, wifiEnabled, doubtful>>
    BY <1>4 DEF WF!Connect
  <2>2. /\ calls' \in Seq(WfCall) /\ calls' # << >>
        /\ Len(calls') = 1 => calls = << >> /\ calls'[1] = WF!Call("connect", choice)
    BY <1>0, <2>1, WfCalled DEF WfTypes, WfKinds
  <2>3. WfTypes'
    BY <1>0, <2>1, <2>2 DEF WfTypes
  <2>4. OneCalled'
    BY <1>0, <2>1, <2>2 DEF OneCalled, IsTrue, WF!Call
  <2>. QED  BY <2>3, <2>4 DEF WfInv
<1>5. CASE WF!Serve
  BY <1>5, WfServed
<1>6. \A kind \in {"timer", "scan", "current"} :
        /\ <<WF!Call(kind, WF!NoAp)>> \in Seq(WfCall)
        /\ <<WF!Call(kind, WF!NoAp)>> # << >>
        /\ Len(<<WF!Call(kind, WF!NoAp)>>) = 1
        /\ <<WF!Call(kind, WF!NoAp)>>[1].kind = kind
        /\ <<WF!Call(kind, WF!NoAp)>>[1].answer = "none"
  BY DEF WF!Call, WfCall, WfKinds, WfArgs
<1>7. ASSUME NEW next \in Seq(WfCall), calls' \in Seq(WfCall), doubtful' \in BOOLEAN,
             UNCHANGED nvrAp, wifiEnabled' \in BOOLEAN, connecting' \in BOOLEAN,
             accessPoint' \in WfArgs, choice' \in WfArgs,
             ~doubtful' => /\ calls' = next
                           /\ next = << >> /\ wifiEnabled' => accessPoint' = nvrAp
                           /\ next # << >> => \E kind \in {"timer", "scan", "current"} :
                                                 next = <<WF!Call(kind, WF!NoAp)>>
      PROVE  WfInv'
  <2>1. WfTypes'
    BY <1>0, <1>7 DEF WfTypes
  <2>2. ASSUME ~doubtful', Len(calls') = 1
        PROVE  calls'[1].kind \in {"timer", "scan", "current"} /\ calls'[1].answer = "none"
    <3>1. calls' # << >> /\ calls' = next
      BY <1>7, <2>2, EmptySeq
    <3>. QED  BY <1>6, <1>7, <2>2, <3>1
  <2>3. OneCalled'
    BY <1>7, <2>2 DEF OneCalled, IsTrue
  <2>. QED  BY <2>1, <2>3 DEF WfInv
<1>8. << >> \in Seq(WfCall)
  BY EmptySeq
<1>9. CASE WF!StatusKnown
  <2>1. PICK i \in DOMAIN calls :
          /\ WF!Answer(i, {"check"}, {"ok"}, WF!LookUp(calls[i].arg = "on"))
          /\ wifiEnabled' = (calls[i].arg = "on")
    BY <1>9 DEF WF!StatusKnown
  <2>2. /\ doubtful' = (doubtful \/ ~WF!Alone)
        /\ UNCHANGED <<nvrAp, accessPoint, choice, connecting>>
    BY <1>9 DEF WF!StatusKnown
  <2>. DEFINE next == WF!LookUp(calls[i].arg = "on")
  <2>3. /\ next \in Seq(WfCall)
        /\ next = << >> => ~wifiEnabled'
        /\ next # << >> => next = <<WF!Call("scan", WF!NoAp)>>
    BY <1>6, <1>8, <2>1 DEF WF!LookUp
  <2>. HIDE DEF next
  <2>4. calls' \in Seq(WfCall) /\ (WF!Alone => calls' = next)
    BY <2>1, <2>3, WfAnswer DEF next
  <2>. QED  BY <1>0, <1>7, <2>1, <2>2, <2>3, <2>4 DEF WfTypes
<1>10. CASE WF!StatusSet
  <2>1. PICK i \in DOMAIN calls :
          /\ WF!Answer(i, {"on", "off"}, {"ok"},
                       IF calls[i].kind = "on" THEN <<WF!Call("timer", WF!NoAp)>> ELSE << >>)
          /\ wifiEnabled' = (calls[i].kind = "on")
    BY <1>10 DEF WF!StatusSet
  <2>2. /\ doubtful' = (doubtful \/ ~WF!Alone)
        /\ UNCHANGED <<nvrAp, accessPoint, choice, connecting>>
    BY <1>10 DEF WF!StatusSet
  <2>. DEFINE next == IF calls[i].kind = "on" THEN <<WF!Call("timer", WF!NoAp)>> ELSE << >>
  <2>3. /\ next \in Seq(WfCall)
        /\ next = << >> => ~wifiEnabled'
        /\ next # << >> => next = <<WF!Call("timer", WF!NoAp)>>
    BY <1>6, <1>8, <2>1
  <2>. HIDE DEF next
  <2>4. calls' \in Seq(WfCall) /\ (WF!Alone => calls' = next)
    BY <2>1, <2>3, WfAnswer DEF next
  <2>. QED  BY <1>0, <1>7, <2>1, <2>2, <2>3, <2>4 DEF WfTypes
<1>11. CASE WF!TimerFires
  <2>1. PICK i \in DOMAIN calls : WF!Answer(i, {"timer"}, {"none"}, WF!LookUp(wifiEnabled))
    BY <1>11 DEF WF!TimerFires
  <2>2. /\ doubtful' = (doubtful \/ ~WF!Alone)
        /\ UNCHANGED <<nvrAp, accessPoint, choice, connecting, wifiEnabled>>
    BY <1>11 DEF WF!TimerFires
  <2>. DEFINE next == WF!LookUp(wifiEnabled)
  <2>3. /\ next \in Seq(WfCall)
        /\ next = << >> => ~wifiEnabled'
        /\ next # << >> => next = <<WF!Call("scan", WF!NoAp)>>
    BY <1>6, <1>8, <2>2 DEF WF!LookUp
  <2>. HIDE DEF next
  <2>4. calls' \in Seq(WfCall) /\ (WF!Alone => calls' = next)
    BY <2>1, <2>3, WfAnswer DEF next
  <2>. QED  BY <1>0, <1>7, <2>2, <2>3, <2>4 DEF WfTypes
<1>12. CASE WF!Scanned
  <2>. DEFINE next == <<WF!Call("current", WF!NoAp)>>
  <2>1. PICK i \in DOMAIN calls : WF!Answer(i, {"scan"}, {"ok"}, next)
    BY <1>12 DEF WF!Scanned
  <2>2. /\ doubtful' = ~WF!Alone
        /\ UNCHANGED <<nvrAp, accessPoint, choice, connecting, wifiEnabled>>
    BY <1>12 DEF WF!Scanned
  <2>3. next \in Seq(WfCall) /\ next # << >>
    BY <1>6
  <2>4. calls' \in Seq(WfCall) /\ (WF!Alone => calls' = next)
    BY <2>1, <2>3, WfAnswer
  <2>. QED  BY <1>0, <1>7, <2>2, <2>3, <2>4 DEF WfTypes
<1>13. CASE WF!ShowWifi
  <2>1. PICK i \in DOMAIN calls :
          WF!Answer(i, {"current"}, {"ok"}, << >>) /\ accessPoint' = calls[i].arg
    BY <1>13 DEF WF!ShowWifi
  <2>2. doubtful' = (doubtful \/ ~WF!Alone) /\ choice' = accessPoint'
        /\ UNCHANGED <<nvrAp, connecting, wifiEnabled>>
    BY <1>13 DEF WF!ShowWifi
  <2>3. /\ calls' \in Seq(WfCall) /\ calls[i] \in WfCall
        /\ calls[i].kind \in {"current"} /\ calls[i].answer \in {"ok"}
        /\ WF!Alone => calls' = << >> /\ (~doubtful => IsTrue(calls[i]))
    BY <1>8, <2>1, WfAnswer
  <2>4. WfTypes'
    BY <1>0, <2>1, <2>2, <2>3 DEF WfTypes, WfCall
  <2>5. (WF!Alone /\ ~doubtful) => accessPoint' = nvrAp
    BY <2>1, <2>3 DEF IsTrue
  <2>. QED  BY <1>0, <1>7, <1>8, <2>2, <2>3, <2>4, <2>5 DEF WfTypes
<1>14. CASE WF!Connected
  <2>1. PICK i \in DOMAIN calls : WF!Answer(i, {"connect"}, {"ok"}, << >>)
    BY <1>14 DEF WF!Connected
  <2>2. /\ accessPoint' = choice /\ connecting' = FALSE
        /\ doubtful' = (doubtful \/ ~WF!Alone)
        /\ UNCHANGED <<nvrAp, wifiEnabled, choice>>
    BY <1>14 DEF WF!Connected
  <2>3. /\ calls' \in Seq(WfCall)
        /\ calls[i].kind \in {"connect"} /\ calls[i].answer \in {"ok"}
        /\ WF!Alone => calls' = << >> /\ (~doubtful => IsTrue(calls[i]))
    BY <1>8, <2>1, WfAnswer
  <2>4. (WF!Alone /\ ~doubtful) => choice = nvrAp
    BY <2>3 DEF IsTrue
  <2>. QED  BY <1>0, <1>7, <1>8, <2>2, <2>3, <2>4 DEF WfTypes
<1>15. CASE WF!NotConnected
  <2>1. PICK i \in DOMAIN calls : WF!Answer(i, {"connect"}, {"secret", "error"}, << >>)
    BY <1>15 DEF WF!NotConnected
  <2>2. /\ connecting' = FALSE /\ doubtful' = (doubtful \/ ~WF!Alone)
        /\ UNCHANGED <<nvrAp, wifiEnabled, choice, accessPoint>>
    BY <1>15 DEF WF!NotConnected
  <2>3. /\ calls' \in Seq(WfCall)
        /\ calls[i].kind \in {"connect"} /\ calls[i].answer \in {"secret", "error"}
        /\ WF!Alone => calls' = << >> /\ (~doubtful => IsTrue(calls[i]))
    BY <1>8, <2>1, WfAnswer
  <2>4. (WF!Alone /\ ~doubtful) => accessPoint = nvrAp
    BY <2>3 DEF IsTrue
  <2>. QED  BY <1>0, <1>7, <1>8, <2>2, <2>3, <2>4 DEF WfTypes
<1>16. CASE WF!Failed
  <2>1. PICK i \in DOMAIN calls :
          WF!Answer(i, {"check", "on", "off", "scan", "current"}, {"error"}, << >>)
    BY <1>16 DEF WF!Failed
  <2>2. doubtful' = TRUE /\ UNCHANGED <<nvrAp, wifiEnabled, choice, accessPoint, connecting>>
    BY <1>16 DEF WF!Failed
  <2>3. calls' \in Seq(WfCall)
    BY <1>8, <2>1, WfAnswer
  <2>. QED  BY <1>0, <1>7, <1>8, <2>2, <2>3 DEF WfTypes
<1>. QED
  BY <1>1, <1>2, <1>3, <1>4, <1>5, <1>9, <1>10, <1>11, <1>12, <1>13, <1>14, <1>15, <1>16
  DEF WF!Next

LEMMA WfInit == WF!Init => WfInv
<1>. SUFFICES ASSUME WF!Init
              PROVE  WfInv
  OBVIOUS
<1>1. /\ calls \in Seq(WfCall) /\ calls # << >> /\ Len(calls) = 1
      /\ calls[1].kind = "check"
  BY DEF WF!Init, WF!Call, WfCall, WfKinds, WfArgs
<1>2. WfTypes
  BY <1>1 DEF WF!Init, WfTypes, WfArgs
<1>3. OneCalled
  BY <1>1 DEF OneCalled, IsTrue
<1>. QED  BY <1>2, <1>3 DEF WfInv

LEMMA WfNames ==
  ASSUME WfInv
  PROVE  WF!NamedAsConnected
BY DEF WfInv, OneCalled, WF!NamedAsConnected

-----------------------------------------------------------------------------
(* AdHocHosting: a table with nothing to save shows what the server keeps. *)

AhCommits == [rows : Seq(AH!Rows), answer : {"none", "ok", "failed"}]

AhTypes ==
  /\ adState \in {"left", "loading", "ready"}
  /\ stored \in Seq(AH!Rows) /\ devices \in Seq(AH!Rows)
  /\ commits \in Seq(AhCommits) /\ unsure \in BOOLEAN /\ pasted \in BOOLEAN

(* What is on its way would store the rows as they are, and what is answered has. *)
SendsRows(r) ==
  IF r.answer = "none" THEN r.rows = devices ELSE r.answer = "ok" => stored = devices

(* What is compared with the table is what is stored, or is no table; and its controls   *)
(* are those of its rows.                                                                 *)
HashTells ==
  /\ adState \in {"left", "loading"} => Len(commits) = 0
  /\ adState # "ready" => confirmSave = FALSE /\ ~unsure /\ ~pasted
  /\ adState = "ready" /\ ~pasted => tableForms = devices
  /\ adState = "ready" /\ ~unsure =>
       /\ Len(commits) = 0 => savedHash \in {stored, AH!NoHash}
       /\ \A i \in DOMAIN commits : SendsRows(commits[i])

AhInv == AhTypes /\ HashTells

(* A row is changed, or gone, or new. *)
LEMMA AhChanged ==
  ASSUME AhInv, adState = "ready", devices' \in Seq(AH!Rows), AH!Changed,
         UNCHANGED <<stored, adState, savedHash, confirmSave, commits>>,
         pasted' \in BOOLEAN, ~pasted' => tableForms' = devices'
  PROVE  AhInv'
<1>0. AhTypes /\ HashTells /\ Len(commits) \in Nat /\ DOMAIN commits = 1 .. Len(commits)
  BY LenProperties DEF AhInv, AhTypes
<1>1. unsure' = (unsure \/ commits # << >>)
  BY DEF AH!Changed
<1>2. AhTypes'
  BY <1>0, <1>1 DEF AhTypes
<1>3. ~unsure' => ~unsure /\ Len(commits) = 0
  BY <1>0, <1>1, EmptySeq
<1>4. HashTells'
  <2>1. DOMAIN commits = {} \/ unsure'
    BY <1>0, <1>3
  <2>. QED  BY <1>0, <1>3, <2>1 DEF HashTells
<1>. QED  BY <1>2, <1>4 DEF AhInv

LEMMA AhStep ==
  ASSUME AhInv, AH!Next \/ UNCHANGED ahVars
  PROVE  AhInv'
<1>0. /\ AhTypes /\ HashTells
      /\ Len(commits) \in Nat /\ DOMAIN commits = 1 .. Len(commits)
      /\ \A i \in DOMAIN commits : commits[i] \in AhCommits
  BY LenProperties, ElementOfSeq DEF AhInv, AhTypes
<1>1. << >> \in Seq(AH!Rows) /\ <<AH!Empty>> \in Seq(AH!Rows) /\ AH!Empty \in AH!Rows
  BY DEF AH!Rows
<1>n. commits = << >> <=> Len(commits) = 0
  BY <1>0, EmptySeq DEF AhTypes
<1>3. CASE AH!EnterPage
  BY <1>0, <1>3 DEF AH!EnterPage, AH!saving, AhInv, AhTypes, HashTells
<1>4. CASE AH!Loaded
  <2>1. DOMAIN commits = {} /\ Len(commits) = 0
    BY <1>0, <1>4 DEF AH!Loaded, HashTells
  <2>2. /\ adState = "loading" /\ adState' = "ready"
        /\ devices' = stored /\ tableForms' = stored /\ savedHash' = stored
        /\ UNCHANGED <<stored, commits, pasted, unsure>>
    BY <1>4 DEF AH!Loaded, AH!saving
  <2>. QED  BY <1>0, <2>1, <2>2 DEF AhInv, AhTypes, HashTells
<1>5. CASE AH!NotLoaded
  <2>1. DOMAIN commits = {} /\ Len(commits) = 0
    BY <1>0, <1>5 DEF AH!NotLoaded, HashTells
  <2>2. /\ adState = "loading" /\ adState' = "ready"
        /\ devices' = <<AH!Empty>> /\ tableForms' = <<AH!Empty>> /\ savedHash' = AH!NoHash
        /\ UNCHANGED <<stored, commits, pasted, unsure>>
    BY <1>5 DEF AH!NotLoaded, AH!saving
  <2>. QED  BY <1>0, <1>1, <2>1, <2>2 DEF AhInv, AhTypes, HashTells
<1>6. CASE AH!UpdateField
  <2>1. PICK i \in DOMAIN devices, r \in AH!Rows :
          /\ tableForms' = [tableForms EXCEPT ![i] = r]
          /\ devices' = [devices EXCEPT ![i] = r]
    BY <1>6 DEF AH!UpdateField
  <2>2. /\ adState = "ready" /\ AH!Changed
        /\ UNCHANGED <<stored, adState, savedHash, confirmSave, commits, pasted>>
    BY <1>6 DEF AH!UpdateField, AH!saving
  <2>3. devices' \in Seq(AH!Rows)
    BY <1>0, <2>1, ChangedAt DEF AhTypes
  <2>4. pasted' \in BOOLEAN /\ (~pasted' => tableForms' = devices')
    BY <1>0, <2>1, <2>2 DEF AhTypes, HashTells
  <2>. QED  BY <2>2, <2>3, <2>4, AhChanged
<1>7. CASE AH!Pasted
  <2>1. /\ adState = "ready" /\ pasted' = TRUE
        /\ UNCHANGED <<stored, adState, devices, savedHash, confirmSave, commits, unsure>>
    BY <1>7 DEF AH!Pasted, AH!saving
  <2>. QED  BY <1>0, <2>1 DEF AhInv, AhTypes, HashTells, SendsRows
<1>8. CASE AH!DeleteDevice
  <2>1. PICK i \in DOMAIN devices : devices' = Removed(devices, i)
    BY <1>8 DEF AH!DeleteDevice, AH!RemoveAt, Removed
  <2>2. /\ adState = "ready" /\ tableForms' = devices' /\ pasted' = FALSE /\ AH!Changed
        /\ UNCHANGED <<stored, adState, savedHash, confirmSave, commits>>
    BY <1>8 DEF AH!DeleteDevice, AH!SetUpTableFormControls, AH!saving
  <2>3. devices' \in Seq(AH!Rows)
    BY <1>0, <2>1, RemovedThins DEF AhTypes
  <2>. QED  BY <2>2, <2>3, AhChanged
<1>9. CASE AH!AddDevice
  <2>1. /\ adState = "ready" /\ devices' = Append(devices, AH!Empty)
        /\ tableForms' = devices' /\ pasted' = FALSE /\ AH!Changed
        /\ UNCHANGED <<stored, adState, savedHash, confirmSave, commits>>
    BY <1>9 DEF AH!AddDevice, AH!SetUpTableFormControls, AH!saving
  <2>2. devices' \in Seq(AH!Rows)
    BY <1>0, <1>1, <2>1, AppendAt DEF AhTypes
  <2>. QED  BY <2>1, <2>2, AhChanged
<1>s. CASE AH!AskSave \/ AH!CancelSave
  <2>1. UNCHANGED <<stored, adState, devices, tableForms, savedHash, commits, pasted, unsure>>
    BY <1>s DEF AH!AskSave, AH!CancelSave
  <2>2. adState # "ready" => confirmSave' = FALSE
    BY <1>s DEF AH!AskSave, AH!CancelSave
  <2>. QED  BY <1>0, <2>1, <2>2 DEF AhInv, AhTypes, HashTells, SendsRows
<1>10. CASE AH!CommitConfig
  <2>. DEFINE r == [rows |-> devices, answer |-> "none"]
  <2>1. /\ commits' = Append(commits, r) /\ confirmSave /\ confirmSave' = FALSE
        /\ unsure' = (unsure /\ commits # << >>)
        /\ UNCHANGED <<stored, adState, devices, tableForms, savedHash, pasted>>
    BY <1>10 DEF AH!CommitConfig
  <2>2. r \in AhCommits /\ r.rows = devices /\ r.answer = "none"
    BY <1>0 DEF AhTypes, AhCommits
  <2>. HIDE DEF r
  <2>3. /\ commits' \in Seq(AhCommits) /\ Len(commits') = Len(commits) + 1
        /\ DOMAIN commits' = 1 .. Len(commits) + 1
        /\ \A i \in 1 .. Len(commits) : commits'[i] = commits[i]
        /\ commits'[Len(commits) + 1] = r
    BY <1>0, <2>1, <2>2, AppendAt DEF AhTypes
  <2>4. AhTypes'
    BY <1>0, <2>1, <2>3 DEF AhTypes
  <2>5. adState = "ready"
    BY <1>0, <2>1 DEF HashTells, AhTypes
  <2>6. ASSUME ~unsure', NEW i \in DOMAIN commits' PROVE SendsRows(commits[i])'
    <3>1. CASE i = Len(commits) + 1
      BY <2>1, <2>2, <2>3, <3>1 DEF SendsRows
    <3>2. CASE i # Len(commits) + 1
      <4>1. i \in 1 .. Len(commits) /\ Len(commits) # 0
        BY <1>0, <2>3, <2>6, <3>2
      <4>2. ~unsure
        BY <1>n, <2>1, <2>6, <4>1
      <4>3. SendsRows(commits[i])
        BY <1>0, <2>5, <4>1, <4>2 DEF HashTells
      <4>. QED  BY <2>1, <2>3, <4>1, <4>3 DEF SendsRows
    <3>. QED  BY <3>1, <3>2
  <2>7. Len(commits') # 0
    BY <1>0, <2>3
  <2>8. HashTells'
    BY <1>0, <2>1, <2>5, <2>6, <2>7 DEF HashTells
  <2>. QED  BY <2>4, <2>8 DEF AhInv
<1>11. CASE AH!Stored
  <2>. DEFINE s(a) == [rows |-> << >>, answer |-> a]
  <2>1. PICK i \in DOMAIN commits, answer \in {"ok", "failed"} :
          /\ commits[i].answer = "none"
          /\ commits' = [commits EXCEPT ![i] = s(answer)]
          /\ stored' \in {commits[i].rows} \cup IF answer = "failed" THEN {stored} ELSE {}
    BY <1>11 DEF AH!Stored
  <2>2. UNCHANGED <<adState, devices, tableForms, savedHash, confirmSave, pasted, unsure>>
    BY <1>11 DEF AH!Stored
  <2>3. s(answer) \in AhCommits /\ s(answer).answer = answer /\ commits[i].rows \in Seq(AH!Rows)
    BY <1>0, <1>1, <2>1 DEF AhCommits
  <2>4. /\ stored' \in {stored, commits[i].rows}
        /\ answer = "ok" => stored' = commits[i].rows
    BY <2>1
  <2>. HIDE DEF s
  <2>5. /\ commits' \in Seq(AhCommits) /\ Len(commits') = Len(commits)
        /\ DOMAIN commits' = DOMAIN commits /\ commits'[i] = s(answer)
        /\ \A j \in DOMAIN commits : j # i => commits'[j] = commits[j]
    BY <1>0, <2>1, <2>3, ChangedAt DEF AhTypes
  <2>6. AhTypes'
    BY <1>0, <2>2, <2>3, <2>4, <2>5 DEF AhTypes
  <2>7. ASSUME adState = "ready", ~unsure, NEW j \in DOMAIN commits
        PROVE  SendsRows(commits[j])'
    <3>1. commits[i].rows = devices /\ SendsRows(commits[j])
      BY <1>0, <2>1, <2>7 DEF HashTells, SendsRows
    <3>2. stored' \in {stored, devices} /\ (answer = "ok" => stored' = devices)
      BY <2>4, <3>1
    <3>. QED  BY <2>1, <2>2, <2>3, <2>5, <3>1, <3>2 DEF SendsRows
  <2>8. Len(commits) # 0
    BY <1>0, <2>1
  <2>9. HashTells'
    BY <1>0, <2>2, <2>5, <2>7, <2>8 DEF HashTells
  <2>. QED  BY <2>6, <2>9 DEF AhInv
<1>12. CASE AH!Committed
  <2>1. PICK i \in DOMAIN commits :
          commits[i].answer = "ok" /\ commits' = Removed(commits, i)
    BY <1>12 DEF AH!Committed, AH!RemoveAt, Removed
  <2>2. /\ savedHash' = devices
        /\ UNCHANGED <<stored, adState, devices, tableForms, confirmSave, pasted, unsure>>
    BY <1>12 DEF AH!Committed
  <2>3. commits' \in Seq(AhCommits) /\ \E f : Thins(commits', commits, f)
    BY <1>0, <2>1, RemovedThins DEF AhTypes
  <2>4. \A j \in DOMAIN commits' : \E k \in DOMAIN commits : commits'[j] = commits[k]
    BY <2>3 DEF Thins
  <2>5. AhTypes'
    BY <1>0, <2>2, <2>3 DEF AhTypes
  <2>6. adState = "ready"
    BY <1>0, <2>1 DEF HashTells, AhTypes
  <2>7. ~unsure => stored = devices
    BY <1>0, <2>1, <2>6 DEF HashTells, SendsRows
  <2>8. ASSUME ~unsure, NEW j \in DOMAIN commits' PROVE SendsRows(commits[j])'
    <3>1. PICK k \in DOMAIN commits : commits'[j] = commits[k]
      BY <2>4
    <3>2. SendsRows(commits[k])
      BY <1>0, <2>6, <2>8 DEF HashTells
    <3>. QED  BY <2>2, <3>1, <3>2 DEF SendsRows
  <2>9. HashTells'
    BY <1>0, <2>2, <2>6, <2>7, <2>8 DEF HashTells
  <2>. QED  BY <2>5, <2>9 DEF AhInv
<1>13. CASE AH!CommitFailed
  <2>1. PICK i \in DOMAIN commits : commits' = Removed(commits, i)
    BY <1>13 DEF AH!CommitFailed, AH!RemoveAt, Removed
  <2>2. /\ unsure' = TRUE
        /\ UNCHANGED <<stored, adState, devices, tableForms, savedHash, confirmSave, pasted>>
    BY <1>13 DEF AH!CommitFailed
  <2>3. commits' \in Seq(AhCommits)
    BY <1>0, <2>1, RemovedThins DEF AhTypes
  <2>4. adState = "ready"
    BY <1>0, <2>1 DEF HashTells, AhTypes
  <2>. QED  BY <1>0, <2>2, <2>3, <2>4 DEF AhInv, AhTypes, HashTells
<1>14. CASE AH!LeavePage
  <2>1. /\ commits = << >> /\ adState' = "left" /\ devices' = << >> /\ confirmSave' = FALSE
        /\ pasted' = FALSE /\ unsure' = FALSE /\ UNCHANGED <<stored, commits>>
    BY <1>14 DEF AH!LeavePage
  <2>. QED  BY <1>0, <1>1, <1>n, <2>1 DEF AhInv, AhTypes, HashTells
<1>15. CASE UNCHANGED ahVars
  BY <1>0, <1>15 DEF ahVars, AhInv, AhTypes, HashTells, SendsRows
<1>. QED
  BY <1>3, <1>4, <1>5, <1>6, <1>7, <1>8, <1>9, <1>s, <1>10, <1>11, <1>12, <1>13, <1>14, <1>15
  DEF AH!Next

LEMMA AhInit == AH!Init => AhInv
<1>. SUFFICES ASSUME AH!Init
              PROVE  AhInv
  OBVIOUS
<1>1. stored \in Seq(AH!Rows)
  <2>1. PICK n \in 0 .. MaxRows : stored \in [1 .. n -> AH!Rows]
    BY DEF AH!Init, AH!Lists
  <2>. QED  BY <2>1, SeqDef
<1>2. << >> \in Seq(AH!Rows) /\ << >> \in Seq(AhCommits) /\ Len(<< >>) = 0
  BY EmptySeq
<1>. QED  BY <1>1, <1>2 DEF AH!Init, AhInv, AhTypes, HashTells

LEMMA AhSaved ==
  ASSUME AhInv
  PROVE  AH!SavedAsShown
<1>1. devices # AH!NoHash
  <2>1. <<"noRows">>[1] = "noRows" /\ 1 \in DOMAIN <<"noRows">>
    OBVIOUS
  <2>2. "noRows" \notin AH!Rows
    BY ClientPagesAssumption DEF AH!Rows, AH!Empty
  <2>3. \A i \in DOMAIN devices : devices[i] \in AH!Rows
    BY ElementOfSeq DEF AhInv, AhTypes
  <2>. QED  BY <2>1, <2>2, <2>3 DEF AH!NoHash
<1>2. commits = << >> => Len(commits) = 0
  BY EmptySeq
<1>. QED  BY <1>1, <1>2 DEF AhInv, HashTells, AH!SavedAsShown, AH!DataHasChanged

-----------------------------------------------------------------------------
(* CloudProxyPage: what is on its way will tell what the server does. *)

ClRequest ==
  [kind : {"navStatus", "status", "start", "stop", "active"},
   answer : {"none", "failed", "running", "stopped"}]

ClTypes ==
  /\ cpsRequests \in Seq(ClRequest)
  /\ proxyRunning \in BOOLEAN /\ cps \in BOOLEAN /\ cpsBox \in BOOLEAN
  /\ cbEnabled \in BOOLEAN /\ cloudProxyRunning \in BOOLEAN
  /\ cpsOvertaken \in BOOLEAN /\ cpsFailed \in BOOLEAN

(* Nothing is asked; the state is; the proxy is stopped; it is started; it was. *)
AllTell ==
  /\ cpsRequests = << >> /\ cbEnabled
  /\ cps = proxyRunning /\ cpsBox = proxyRunning /\ cloudProxyRunning = proxyRunning
Asking(n) ==
  /\ cpsRequests[n].kind = "status" /\ cbEnabled /\ cps /\ cpsBox
  /\ \A i \in 1 .. n - 1 : cpsRequests[i].kind = "navStatus"
  /\ \A i \in 1 .. n : /\ cpsRequests[i].answer = "running" => proxyRunning
                       /\ cpsRequests[i].answer = "stopped" => ~proxyRunning
Stopping(n) ==
  /\ cpsRequests[n].kind = "stop" /\ ~cbEnabled /\ (~cps => ~cpsBox)
  /\ \A i \in 1 .. n - 1 : cpsRequests[i].kind \in {"navStatus", "status", "active"}
  /\ cpsRequests[n].answer \in {"running", "stopped"} => ~proxyRunning
Starting(n) ==
  /\ n = 1 /\ cpsRequests[n].kind = "start" /\ ~cbEnabled /\ ~cps /\ cpsBox
  /\ cpsRequests[n].answer \in {"running", "stopped"} => proxyRunning
Activating(n) ==
  n = 1 /\ cpsRequests[n].kind = "active" /\ cbEnabled /\ ~cps /\ cpsBox /\ proxyRunning

Tells ==
  (~cpsOvertaken /\ ~cpsFailed) =>
    \/ AllTell
    \/ \E n \in Nat \ {0} :
         Len(cpsRequests) = n /\ (Asking(n) \/ Stopping(n) \/ Starting(n) \/ Activating(n))

ClInv == ClTypes /\ Tells

(* An answer, taken in its order when it is not said otherwise. *)
LEMMA ClAnswer ==
  ASSUME ClInv, NEW i \in DOMAIN cpsRequests, NEW kinds, NEW answers,
         NEW next \in Seq(ClRequest), CL!Answered(i, kinds, answers, next)
  PROVE  /\ cpsRequests' \in Seq(ClRequest) /\ cpsOvertaken' \in BOOLEAN
         /\ cpsRequests[i] \in ClRequest
         /\ cpsRequests[i].kind \in kinds /\ cpsRequests[i].answer \in answers
         /\ ~cpsOvertaken' =>
              /\ ~cpsOvertaken /\ i = 1 /\ Len(cpsRequests) \in Nat \ {0}
              /\ Len(cpsRequests) = 1 => cpsRequests' = next
              /\ next = << >> =>
                   /\ Len(cpsRequests') = Len(cpsRequests) - 1
                   /\ \A j \in 1 .. Len(cpsRequests) - 1 : cpsRequests'[j] = cpsRequests[j + 1]
<1>0. cpsRequests \in Seq(ClRequest)
  BY DEF ClInv, ClTypes
<1>1. /\ cpsRequests' = Removed(cpsRequests, i) \o next
      /\ cpsRequests[i].kind \in kinds /\ cpsRequests[i].answer \in answers
      /\ cpsOvertaken' = (cpsOvertaken \/ i # 1)
  BY DEF CL!Answered, Removed
<1>2. cpsRequests[i] \in ClRequest /\ Removed(cpsRequests, i) \in Seq(ClRequest)
  BY <1>0, ElementOfSeq, RemovedAt
<1>3. cpsRequests' \in Seq(ClRequest)
  BY <1>1, <1>2, ConcatProperties
<1>4. ASSUME ~cpsOvertaken'
      PROVE  ~cpsOvertaken /\ i = 1
  BY <1>1, <1>4
<1>5. /\ Len(cpsRequests) \in Nat \ {0}
      /\ Len(Removed(cpsRequests, i)) = Len(cpsRequests) - 1
      /\ \A j \in 1 .. Len(cpsRequests) - 1 :
           Removed(cpsRequests, i)[j] = IF j < i THEN cpsRequests[j] ELSE cpsRequests[j + 1]
  BY <1>0, RemovedAt
<1>6. Len(cpsRequests) = 1 => cpsRequests' = next
  <2>1. ASSUME Len(cpsRequests) = 1
        PROVE  Removed(cpsRequests, i) = << >>
    BY <1>2, <1>5, <2>1, EmptySeq
  <2>. QED  BY <1>1, <2>1, ConcatEmptySeq
<1>7. next = << >> => cpsRequests' = Removed(cpsRequests, i)
  BY <1>1, <1>2, ConcatEmptySeq
<1>8. cpsOvertaken' \in BOOLEAN
  BY <1>1
<1>. QED  BY <1>1, <1>2, <1>3, <1>4, <1>5, <1>6, <1>7, <1>8

LEMMA ClServed ==
  ASSUME ClInv, CL!Serve
  PROVE  ClInv'
<1>0. ClTypes /\ Tells
  BY DEF ClInv
<1>1. UNCHANGED <<cps, cpsBox, cbEnabled, cloudProxyRunning, cpsOvertaken, cpsFailed>>
  BY DEF CL!Serve
<1>2. PICK i \in DOMAIN cpsRequests, ok \in BOOLEAN :
        /\ cpsRequests' = [cpsRequests EXCEPT ![i].answer =
             IF ~ok THEN "failed" ELSE IF proxyRunning THEN "running" ELSE "stopped"]
        /\ proxyRunning' = IF ok /\ cpsRequests[i].kind \in {"start", "stop"}
                           THEN cpsRequests[i].kind = "start" ELSE proxyRunning
  BY DEF CL!Serve
<1>. DEFINE answer == IF ~ok THEN "failed" ELSE IF proxyRunning THEN "running" ELSE "stopped"
            r == [cpsRequests[i] EXCEPT !.answer = answer]
<1>3. cpsRequests[i] \in ClRequest
  BY <1>0, ElementOfSeq DEF ClTypes
<1>4. r \in ClRequest /\ r.kind = cpsRequests[i].kind /\ r.answer = answer
  BY <1>3 DEF ClRequest
<1>5. cpsRequests' = [cpsRequests EXCEPT ![i] = r]
  BY <1>2, <1>3 DEF ClRequest
<1>. HIDE DEF r
<1>6. /\ cpsRequests' \in Seq(ClRequest) /\ Len(cpsRequests') = Len(cpsRequests)
      /\ DOMAIN cpsRequests = 1 .. Len(cpsRequests) /\ cpsRequests'[i] = r
      /\ \A j \in DOMAIN cpsRequests : j # i => cpsRequests'[j] = cpsRequests[j]
  BY <1>0, <1>4, <1>5, ChangedAt, LenProperties DEF ClTypes
<1>7. \A j \in DOMAIN cpsRequests :
        /\ cpsRequests'[j].kind = cpsRequests[j].kind
        /\ j # i => cpsRequests'[j].answer = cpsRequests[j].answer
  BY <1>4, <1>6
<1>8. proxyRunning' \in BOOLEAN
  BY <1>0, <1>2 DEF ClTypes
<1>9. ClTypes'
  BY <1>0, <1>1, <1>6, <1>8 DEF ClTypes
<1>10. ASSUME ~cpsOvertaken', ~cpsFailed'
       PROVE  \E n \in Nat \ {0} :
                /\ Len(cpsRequests') = n
                /\ Asking(n)' \/ Stopping(n)' \/ Starting(n)' \/ Activating(n)'
  <2>1. cpsRequests # << >>
    BY <1>0, EmptySeq DEF ClTypes
  <2>2. PICK n \in Nat \ {0} :
          /\ Len(cpsRequests) = n
          /\ Asking(n) \/ Stopping(n) \/ Starting(n) \/ Activating(n)
    BY <1>0, <1>1, <1>10, <2>1 DEF Tells, AllTell
  <2>3. i \in 1 .. n /\ n \in 1 .. n /\ DOMAIN cpsRequests = 1 .. n /\ Len(cpsRequests') = n
    BY <1>6, <2>2
  <2>4. CASE Asking(n)
    <3>1. cpsRequests[i].kind \notin {"start", "stop"}
      BY <2>3, <2>4 DEF Asking
    <3>2. proxyRunning' = proxyRunning
      BY <1>2, <3>1
    <3>3. /\ r.answer = "running" => proxyRunning
          /\ r.answer = "stopped" => ~proxyRunning
      BY <1>4
    <3>4. \A j \in 1 .. n : /\ cpsRequests'[j].answer = "running" => proxyRunning
                            /\ cpsRequests'[j].answer = "stopped" => ~proxyRunning
      BY <1>6, <1>7, <2>3, <2>4, <3>3 DEF Asking
    <3>5. \A j \in 1 .. n - 1 : cpsRequests'[j].kind = "navStatus"
      BY <1>7, <2>3, <2>4 DEF Asking
    <3>6. cpsRequests'[n].kind = "status"
      BY <1>7, <2>3, <2>4 DEF Asking
    <3>7. Asking(n)'
      BY <1>1, <2>4, <3>2, <3>4, <3>5, <3>6 DEF Asking
    <3>. QED  BY <2>3, <3>7
  <2>5. CASE Stopping(n)
    <3>1. cpsRequests'[n].kind = "stop" /\ cpsRequests[n].kind = "stop"
      BY <1>7, <2>3, <2>5 DEF Stopping
    <3>2. \A j \in 1 .. n - 1 : cpsRequests'[j].kind \in {"navStatus", "status", "active"}
      BY <1>7, <2>3, <2>5 DEF Stopping
    <3>3. ASSUME cpsRequests'[n].answer \in {"running", "stopped"}
          PROVE  ~proxyRunning'
      <4>1. CASE i = n
        <5>1. ok
          BY <1>4, <1>6, <3>3, <4>1
        <5>. QED  BY <1>2, <3>1, <4>1, <5>1
      <4>2. CASE i # n
        <5>1. cpsRequests[i].kind \notin {"start", "stop"}
          BY <2>3, <2>5, <4>2 DEF Stopping
        <5>2. proxyRunning' = proxyRunning
          BY <1>2, <5>1
        <5>. QED  BY <1>7, <2>3, <2>5, <3>3, <4>2, <5>2 DEF Stopping
      <4>. QED  BY <4>1, <4>2
    <3>4. Stopping(n)'
      BY <1>1, <2>5, <3>1, <3>2, <3>3 DEF Stopping
    <3>. QED  BY <2>3, <3>4
  <2>6. CASE Starting(n)
    <3>1. i = 1 /\ n = 1 /\ cpsRequests[1].kind = "start" /\ cpsRequests'[1].kind = "start"
      BY <1>7, <2>3, <2>6 DEF Starting
    <3>2. ASSUME cpsRequests'[1].answer \in {"running", "stopped"}
          PROVE  proxyRunning'
      <4>1. ok
        BY <1>4, <1>6, <3>1, <3>2
      <4>. QED  BY <1>2, <3>1, <4>1
    <3>3. Starting(n)'
      BY <1>1, <2>6, <3>1, <3>2 DEF Starting
    <3>. QED  BY <2>3, <3>3
  <2>7. CASE Activating(n)
    <3>1. i = 1 /\ n = 1 /\ cpsRequests[1].kind = "active" /\ cpsRequests'[1].kind = "active"
      BY <1>7, <2>3, <2>7 DEF Activating
    <3>2. proxyRunning' = proxyRunning
      BY <1>2, <3>1
    <3>3. Activating(n)'
      BY <1>1, <2>7, <3>1, <3>2 DEF Activating
    <3>. QED  BY <2>3, <3>3
  <2>. QED  BY <2>2, <2>4, <2>5, <2>6, <2>7
<1>11. Tells'
  BY <1>10 DEF Tells
<1>. QED  BY <1>9, <1>11 DEF ClInv

(* What is left when the first of several was answered: the state is asked or the proxy *)
(* is stopped as before.                                                                 *)
LEMMA ClRest ==
  ASSUME ClInv, ~cpsOvertaken, ~cpsFailed, Len(cpsRequests) \in Nat \ {0},
         Len(cpsRequests) # 1, Len(cpsRequests') = Len(cpsRequests) - 1,
         \A j \in 1 .. Len(cpsRequests) - 1 : cpsRequests'[j] = cpsRequests[j + 1],
         UNCHANGED <<proxyRunning, cbEnabled>>,
         \/ cpsRequests[1].kind = "navStatus" /\ UNCHANGED <<cps, cpsBox>>
         \/ /\ cpsRequests[1].kind \in {"status", "active"}
            /\ (cps \/ ~cpsBox) => (cps' \/ ~cpsBox')
  PROVE  Tells'
<1>0. ClTypes /\ Tells
  BY DEF ClInv
<1>1. cpsRequests # << >>
  BY <1>0, EmptySeq DEF ClTypes
<1>2. PICK n \in Nat \ {0} :
        /\ Len(cpsRequests) = n /\ n # 1
        /\ Asking(n) \/ Stopping(n)
  BY <1>0, <1>1 DEF Tells, AllTell, Starting, Activating
<1>3. /\ n - 1 \in Nat \ {0} /\ Len(cpsRequests') = n - 1 /\ cpsRequests'[n - 1] = cpsRequests[n]
      /\ \A j \in 1 .. n - 1 : j + 1 \in 1 .. n /\ cpsRequests'[j] = cpsRequests[j + 1]
      /\ \A j \in 1 .. (n - 1) - 1 : j \in 1 .. n - 1 /\ j + 1 \in 1 .. n - 1
  <2>1. /\ n - 1 \in 1 .. n - 1 /\ (n - 1) + 1 = n
        /\ \A j \in 1 .. n - 1 : j + 1 \in 1 .. n
        /\ \A j \in 1 .. (n - 1) - 1 : j \in 1 .. n - 1 /\ j + 1 \in 1 .. n - 1
    BY <1>2
  <2>2. \A j \in 1 .. n - 1 : cpsRequests'[j] = cpsRequests[j + 1]
    BY <1>2
  <2>3. cpsRequests'[n - 1] = cpsRequests[n]
    BY <2>1, <2>2
  <2>. QED  BY <1>2, <2>1, <2>2, <2>3
<1>4. CASE Asking(n)
  <2>1. cpsRequests[1].kind = "navStatus"
    BY <1>2, <1>4 DEF Asking
  <2>2. /\ cpsRequests'[n - 1].kind = "status"
        /\ \A j \in 1 .. (n - 1) - 1 : cpsRequests'[j].kind = "navStatus"
    BY <1>3, <1>4 DEF Asking
  <2>3. \A j \in 1 .. n - 1 : /\ cpsRequests'[j].answer = "running" => proxyRunning
                              /\ cpsRequests'[j].answer = "stopped" => ~proxyRunning
    BY <1>3, <1>4 DEF Asking
  <2>4. Asking(n - 1)'
    BY <1>4, <2>1, <2>2, <2>3 DEF Asking
  <2>. QED  BY <1>3, <2>4 DEF Tells
<1>5. CASE Stopping(n)
  <2>1. ~cps' => ~cpsBox'
    BY <1>0, <1>5 DEF Stopping, ClTypes
  <2>2. /\ cpsRequests'[n - 1].kind = "stop"
        /\ cpsRequests'[n - 1].answer \in {"running", "stopped"} => ~proxyRunning
        /\ \A j \in 1 .. (n - 1) - 1 :
             cpsRequests'[j].kind \in {"navStatus", "status", "active"}
    BY <1>3, <1>5 DEF Stopping
  <2>3. Stopping(n - 1)'
    BY <1>5, <2>1, <2>2 DEF Stopping
  <2>. QED  BY <1>3, <2>3 DEF Tells
<1>. QED  BY <1>2, <1>4, <1>5

LEMMA ClAnswered ==
  ASSUME ClInv,
         CL!StatusKnown \/ CL!NavStatusKnown \/ CL!Stopped \/ CL!Started \/ CL!TransportKnown
           \/ CL!Failed
  PROVE  ClInv'
<1>0. ClTypes /\ Tells
  BY DEF ClInv
<1>1. << >> \in Seq(ClRequest) /\ <<CL!Ask("active")>> \in Seq(ClRequest)
  BY DEF CL!Ask, ClRequest
<1>2. ASSUME ~cpsOvertaken, ~cpsFailed, cpsRequests # << >>
      PROVE  \E n \in Nat \ {0} :
               /\ Len(cpsRequests) = n
               /\ Asking(n) \/ Stopping(n) \/ Starting(n) \/ Activating(n)
  BY <1>0, <1>2 DEF Tells, AllTell
<1>3. CASE CL!StatusKnown
  <2>1. PICK i \in DOMAIN cpsRequests :
          /\ CL!Answered(i, {"status"}, CL!Good, << >>)
          /\ CL!Shown(cpsRequests[i].answer = "running")
    BY <1>3 DEF CL!StatusKnown
  <2>2. UNCHANGED <<proxyRunning, cbEnabled, cpsFailed>>
    BY <1>3 DEF CL!StatusKnown
  <2>3. PICK running \in BOOLEAN :
          /\ running <=> cpsRequests[i].answer = "running"
          /\ cps' = running /\ cloudProxyRunning' = running
          /\ cpsBox' = IF running # cps THEN running ELSE cpsBox
    BY <2>1 DEF CL!Shown
  <2>4. /\ cpsRequests' \in Seq(ClRequest) /\ cpsOvertaken' \in BOOLEAN
        /\ cpsRequests[i].kind \in {"status"} /\ cpsRequests[i].answer \in CL!Good
        /\ ~cpsOvertaken' =>
             /\ ~cpsOvertaken /\ i = 1 /\ Len(cpsRequests) \in Nat \ {0}
             /\ Len(cpsRequests) = 1 => cpsRequests' = << >>
             /\ Len(cpsRequests') = Len(cpsRequests) - 1
             /\ \A j \in 1 .. Len(cpsRequests) - 1 : cpsRequests'[j] = cpsRequests[j + 1]
    BY <1>1, <2>1, ClAnswer
  <2>5. ClTypes'
    BY <1>0, <2>2, <2>3, <2>4 DEF ClTypes
  <2>6. ASSUME ~cpsOvertaken', ~cpsFailed'
        PROVE  Tells'
    <3>1. /\ ~cpsOvertaken /\ ~cpsFailed /\ cpsRequests # << >>
          /\ i = 1 /\ Len(cpsRequests) \in Nat \ {0}
      BY <1>0, <2>2, <2>4, <2>6, EmptySeq DEF ClTypes
    <3>2. CASE Len(cpsRequests) = 1
      <4>1. Asking(1)
        BY <1>2, <2>4, <3>1, <3>2 DEF Asking, Stopping, Starting, Activating
      <4>2. running = proxyRunning
        BY <1>0, <2>3, <2>4, <3>1, <4>1 DEF Asking, CL!Good, ClTypes
      <4>3. AllTell'
        BY <1>0, <2>2, <2>3, <2>4, <2>6, <3>2, <4>1, <4>2 DEF Asking, AllTell, ClTypes
      <4>. QED  BY <4>3 DEF Tells
    <3>3. CASE Len(cpsRequests) # 1
      <4>1. (cps \/ ~cpsBox) => (cps' \/ ~cpsBox')
        BY <1>0, <2>3 DEF ClTypes
      <4>. QED  BY <2>2, <2>4, <2>6, <3>1, <3>3, <4>1, ClRest
    <3>. QED  BY <3>2, <3>3
  <2>. QED  BY <2>5, <2>6 DEF ClInv, Tells
<1>4. CASE CL!NavStatusKnown
  <2>1. PICK i \in DOMAIN cpsRequests : CL!Answered(i, {"navStatus"}, CL!Good, << >>)
    BY <1>4 DEF CL!NavStatusKnown
  <2>2. UNCHANGED <<proxyRunning, cps, cpsBox, cbEnabled, cpsFailed>>
        /\ cloudProxyRunning' \in BOOLEAN
    BY <1>4 DEF CL!NavStatusKnown
  <2>3. /\ cpsRequests' \in Seq(ClRequest) /\ cpsOvertaken' \in BOOLEAN
        /\ cpsRequests[i].kind \in {"navStatus"}
        /\ ~cpsOvertaken' =>
             /\ ~cpsOvertaken /\ i = 1 /\ Len(cpsRequests) \in Nat \ {0}
             /\ Len(cpsRequests') = Len(cpsRequests) - 1
             /\ \A j \in 1 .. Len(cpsRequests) - 1 : cpsRequests'[j] = cpsRequests[j + 1]
    BY <1>1, <2>1, ClAnswer
  <2>4. ClTypes'
    BY <1>0, <2>2, <2>3 DEF ClTypes
  <2>5. ASSUME ~cpsOvertaken', ~cpsFailed'
        PROVE  Tells'
    <3>1. /\ ~cpsOvertaken /\ ~cpsFailed /\ cpsRequests # << >>
          /\ i = 1 /\ Len(cpsRequests) \in Nat \ {0}
      BY <1>0, <2>2, <2>3, <2>5, EmptySeq DEF ClTypes
    <3>2. Len(cpsRequests) # 1
      BY <1>2, <2>3, <3>1 DEF Asking, Stopping, Starting, Activating
    <3>. QED  BY <2>2, <2>3, <2>5, <3>1, <3>2, ClRest
  <2>. QED  BY <2>4, <2>5 DEF ClInv, Tells
<1>5. CASE CL!Stopped
  <2>1. PICK i \in DOMAIN cpsRequests : CL!Answered(i, {"stop"}, CL!Good, << >>)
    BY <1>5 DEF CL!Stopped
  <2>2. /\ cps' = FALSE /\ cloudProxyRunning' = FALSE /\ cbEnabled' = TRUE
        /\ cpsBox' = IF FALSE # cps THEN FALSE ELSE cpsBox
        /\ UNCHANGED <<proxyRunning, cpsFailed>>
    BY <1>5 DEF CL!Stopped, CL!Shown
  <2>3. /\ cpsRequests' \in Seq(ClRequest) /\ cpsOvertaken' \in BOOLEAN
        /\ cpsRequests[i].kind \in {"stop"} /\ cpsRequests[i].answer \in CL!Good
        /\ ~cpsOvertaken' =>
             /\ ~cpsOvertaken /\ i = 1 /\ Len(cpsRequests) \in Nat \ {0}
             /\ Len(cpsRequests) = 1 => cpsRequests' = << >>
    BY <1>1, <2>1, ClAnswer
  <2>4. ClTypes'
    BY <1>0, <2>2, <2>3 DEF ClTypes
  <2>5. ASSUME ~cpsOvertaken', ~cpsFailed'
        PROVE  Tells'
    <3>1. /\ ~cpsOvertaken /\ ~cpsFailed /\ cpsRequests # << >>
          /\ i = 1 /\ Len(cpsRequests) \in Nat \ {0}
      BY <1>0, <2>2, <2>3, <2>5, EmptySeq DEF ClTypes
    <3>2. Stopping(1) /\ Len(cpsRequests) = 1
      <4>1. PICK n \in Nat \ {0} :
              /\ Len(cpsRequests) = n
              /\ Asking(n) \/ Stopping(n) \/ Starting(n) \/ Activating(n)
        BY <1>2, <3>1
      <4>2. n = 1
        <5>1. n # 1 => 1 \in 1 .. n - 1
          OBVIOUS
        <5>. QED  BY <2>3, <3>1, <4>1, <5>1 DEF Asking, Stopping, Starting, Activating
      <4>. QED  BY <2>3, <3>1, <4>1, <4>2 DEF Asking, Stopping, Starting, Activating
    <3>3. ~cpsBox' /\ ~proxyRunning /\ proxyRunning \in BOOLEAN /\ cpsBox' \in BOOLEAN
      BY <1>0, <2>2, <2>3, <2>4, <3>1, <3>2 DEF Stopping, CL!Good, ClTypes
    <3>4. AllTell'
      BY <2>2, <2>3, <2>5, <3>2, <3>3 DEF AllTell
    <3>. QED  BY <3>4 DEF Tells
  <2>. QED  BY <2>4, <2>5 DEF ClInv, Tells
<1>6. CASE CL!Started
  <2>1. PICK i \in DOMAIN cpsRequests :
          CL!Answered(i, {"start"}, CL!Good, <<CL!Ask("active")>>)
    BY <1>6 DEF CL!Started
  <2>2. /\ UNCHANGED <<proxyRunning, cps, cpsBox, cloudProxyRunning, cpsFailed>>
        /\ cbEnabled' = TRUE
    BY <1>6 DEF CL!Started
  <2>3. /\ cpsRequests' \in Seq(ClRequest) /\ cpsOvertaken' \in BOOLEAN
        /\ cpsRequests[i].kind \in {"start"} /\ cpsRequests[i].answer \in CL!Good
        /\ ~cpsOvertaken' =>
             /\ ~cpsOvertaken /\ i = 1 /\ Len(cpsRequests) \in Nat \ {0}
             /\ Len(cpsRequests) = 1 => cpsRequests' = <<CL!Ask("active")>>
    BY <1>1, <2>1, ClAnswer
  <2>4. ClTypes'
    BY <1>0, <2>2, <2>3 DEF ClTypes
  <2>5. ASSUME ~cpsOvertaken', ~cpsFailed'
        PROVE  Tells'
    <3>1. /\ ~cpsOvertaken /\ ~cpsFailed /\ cpsRequests # << >>
          /\ i = 1 /\ Len(cpsRequests) \in Nat \ {0}
      BY <1>0, <2>2, <2>3, <2>5, EmptySeq DEF ClTypes
    <3>2. Starting(1) /\ Len(cpsRequests) = 1
      <4>1. PICK n \in Nat \ {0} :
              /\ Len(cpsRequests) = n
              /\ Asking(n) \/ Stopping(n) \/ Starting(n) \/ Activating(n)
        BY <1>2, <3>1
      <4>2. n = 1
        <5>1. n # 1 => 1 \in 1 .. n - 1
          OBVIOUS
        <5>. QED  BY <2>3, <3>1, <4>1, <5>1 DEF Asking, Stopping, Starting, Activating
      <4>. QED  BY <2>3, <3>1, <4>1, <4>2 DEF Asking, Stopping, Starting, Activating
    <3>3. /\ cpsRequests' = <<CL!Ask("active")>> /\ Len(cpsRequests') = 1
          /\ cpsRequests'[1].kind = "active"
      BY <2>3, <2>5, <3>2 DEF CL!Ask
    <3>4. Activating(1)'
      BY <2>2, <2>3, <3>1, <3>2, <3>3 DEF Starting, Activating, CL!Good
    <3>. QED  BY <3>3, <3>4 DEF Tells
  <2>. QED  BY <2>4, <2>5 DEF ClInv, Tells
<1>7. CASE CL!TransportKnown
  <2>1. PICK i \in DOMAIN cpsRequests : CL!Answered(i, {"active"}, CL!Good, << >>)
    BY <1>7 DEF CL!TransportKnown
  <2>2. /\ cps' = TRUE /\ cloudProxyRunning' = TRUE
        /\ cpsBox' = IF TRUE # cps THEN TRUE ELSE cpsBox
        /\ UNCHANGED <<proxyRunning, cbEnabled, cpsFailed>>
    BY <1>7 DEF CL!TransportKnown, CL!Shown
  <2>3. /\ cpsRequests' \in Seq(ClRequest) /\ cpsOvertaken' \in BOOLEAN
        /\ cpsRequests[i].kind \in {"active"}
        /\ ~cpsOvertaken' =>
             /\ ~cpsOvertaken /\ i = 1 /\ Len(cpsRequests) \in Nat \ {0}
             /\ Len(cpsRequests) = 1 => cpsRequests' = << >>
             /\ Len(cpsRequests') = Len(cpsRequests) - 1
             /\ \A j \in 1 .. Len(cpsRequests) - 1 : cpsRequests'[j] = cpsRequests[j + 1]
    BY <1>1, <2>1, ClAnswer
  <2>4. ClTypes'
    BY <1>0, <2>2, <2>3 DEF ClTypes
  <2>5. ASSUME ~cpsOvertaken', ~cpsFailed'
        PROVE  Tells'
    <3>1. /\ ~cpsOvertaken /\ ~cpsFailed /\ cpsRequests # << >>
          /\ i = 1 /\ Len(cpsRequests) \in Nat \ {0}
      BY <1>0, <2>2, <2>3, <2>5, EmptySeq DEF ClTypes
    <3>2. CASE Len(cpsRequests) = 1
      <4>1. Activating(1)
        BY <1>2, <2>3, <3>1, <3>2 DEF Asking, Stopping, Starting, Activating
      <4>2. cpsBox' = TRUE /\ proxyRunning = TRUE /\ cbEnabled = TRUE
        BY <1>0, <2>2, <4>1 DEF Activating, ClTypes
      <4>3. AllTell'
        BY <2>2, <2>3, <2>5, <3>2, <4>2 DEF AllTell
      <4>. QED  BY <4>3 DEF Tells
    <3>3. CASE Len(cpsRequests) # 1
      <4>1. cps'
        BY <2>2
      <4>. QED  BY <2>2, <2>3, <2>5, <3>1, <3>3, <4>1, ClRest
    <3>. QED  BY <3>2, <3>3
  <2>. QED  BY <2>4, <2>5 DEF ClInv, Tells
<1>8. CASE CL!Failed
  <2>1. PICK i \in DOMAIN cpsRequests :
          /\ CL!Answered(i, {"status", "navStatus", "start", "stop", "active"}, {"failed"}, << >>)
          /\ cbEnabled' = (cbEnabled \/ cpsRequests[i].kind \in {"start", "stop"})
    BY <1>8 DEF CL!Failed
  <2>2. cpsFailed' = TRUE /\ UNCHANGED <<proxyRunning, cps, cpsBox, cloudProxyRunning>>
    BY <1>8 DEF CL!Failed
  <2>3. cpsRequests' \in Seq(ClRequest) /\ cpsOvertaken' \in BOOLEAN /\ cbEnabled' \in BOOLEAN
    BY <1>1, <2>1, ClAnswer
  <2>4. ClTypes' /\ Tells'
    BY <1>0, <2>2, <2>3 DEF ClTypes, Tells
  <2>. QED  BY <2>4 DEF ClInv
<1>. QED  BY <1>3, <1>4, <1>5, <1>6, <1>7, <1>8

LEMMA ClClicked ==
  ASSUME ClInv, CL!SetCloudProxyStatus
  PROVE  ClInv'
<1>0. ClTypes /\ Tells
  BY DEF ClInv
<1>1. /\ cbEnabled /\ cbEnabled' = FALSE /\ cpsBox' = ~cpsBox
      /\ cpsRequests' = Append(cpsRequests, CL!Ask(IF cpsBox' THEN "start" ELSE "stop"))
      /\ UNCHANGED <<proxyRunning, cps, cloudProxyRunning, cpsOvertaken, cpsFailed>>
  BY DEF CL!SetCloudProxyStatus
<1>. DEFINE r == CL!Ask(IF cpsBox' THEN "start" ELSE "stop")
<1>2. /\ r \in ClRequest /\ r.answer = "none"
      /\ r.kind = IF cpsBox' THEN "start" ELSE "stop"
  BY DEF CL!Ask, ClRequest
<1>3. cpsRequests' = Append(cpsRequests, r)
  BY <1>1
<1>. HIDE DEF r
<1>4. /\ cpsRequests' \in Seq(ClRequest) /\ Len(cpsRequests) \in Nat
      /\ Len(cpsRequests') = Len(cpsRequests) + 1
      /\ \A j \in 1 .. Len(cpsRequests) : cpsRequests'[j] = cpsRequests[j]
      /\ cpsRequests'[Len(cpsRequests) + 1] = r
  BY <1>0, <1>2, <1>3, AppendAt DEF ClTypes
<1>5. ClTypes'
  BY <1>0, <1>1, <1>4 DEF ClTypes
<1>6. ASSUME ~cpsOvertaken', ~cpsFailed'
      PROVE  \E n \in Nat \ {0} :
               Len(cpsRequests') = n /\ (Stopping(n)' \/ Starting(n)')
  <2>1. CASE cpsRequests = << >>
    <3>1. AllTell /\ Len(cpsRequests) = 0
      BY <1>0, <1>1, <1>6, <2>1 DEF Tells
    <3>2. Len(cpsRequests') = 1 /\ cpsRequests'[1] = r
      BY <1>4, <3>1
    <3>3. CASE cpsBox'
      <4>1. Starting(1)'
        BY <1>0, <1>1, <1>2, <3>1, <3>2, <3>3 DEF AllTell, Starting, ClTypes
      <4>. QED  BY <3>2, <4>1
    <3>4. CASE ~cpsBox'
      <4>1. Stopping(1)'
        BY <1>0, <1>1, <1>2, <3>1, <3>2, <3>4 DEF AllTell, Stopping, ClTypes
      <4>. QED  BY <3>2, <4>1
    <3>. QED  BY <3>3, <3>4
  <2>2. CASE cpsRequests # << >>
    <3>1. PICK n \in Nat \ {0} : Len(cpsRequests) = n /\ (Asking(n) \/ Activating(n))
      BY <1>0, <1>1, <1>6, <2>2 DEF Tells, AllTell, Stopping, Starting
    <3>2. cpsBox /\ ~cpsBox'
      BY <1>0, <1>1, <3>1 DEF Asking, Activating, ClTypes
    <3>3. \A j \in 1 .. n : cpsRequests[j].kind \in {"navStatus", "status", "active"}
      <4>1. \A j \in 1 .. n : j \in 1 .. n - 1 \/ j = n
        BY <3>1
      <4>. QED  BY <3>1, <4>1 DEF Asking, Activating
    <3>4. /\ Len(cpsRequests') = n + 1 /\ cpsRequests'[n + 1] = r
          /\ \A j \in 1 .. (n + 1) - 1 :
               cpsRequests'[j].kind \in {"navStatus", "status", "active"}
      BY <1>4, <3>1, <3>3
    <3>5. Stopping(n + 1)'
      BY <1>1, <1>2, <3>2, <3>4 DEF Stopping
    <3>. QED  BY <3>4, <3>5
  <2>. QED  BY <2>1, <2>2
<1>7. Tells'
  BY <1>6 DEF Tells
<1>. QED  BY <1>5, <1>7 DEF ClInv

LEMMA ClStep ==
  ASSUME ClInv, CL!Next \/ UNCHANGED clVars
  PROVE  ClInv'
<1>0. ClTypes /\ Tells
  BY DEF ClInv
<1>1. CASE CL!SetCloudProxyStatus
  BY <1>1, ClClicked
<1>2. CASE CL!Serve
  BY <1>2, ClServed
<1>3. CASE CL!StatusKnown \/ CL!NavStatusKnown \/ CL!Stopped \/ CL!Started \/ CL!TransportKnown
             \/ CL!Failed
  BY <1>3, ClAnswered
<1>4. CASE CL!Reopen
  <2>1. /\ cps' = TRUE /\ cpsBox' = TRUE /\ cbEnabled' = TRUE
        /\ cpsRequests' = <<CL!Ask("status")>>
        /\ cpsOvertaken' = FALSE /\ cpsFailed' = FALSE
        /\ UNCHANGED <<proxyRunning, cloudProxyRunning>>
    BY <1>4 DEF CL!Reopen
  <2>2. CL!Ask("status") \in ClRequest
    BY DEF CL!Ask, ClRequest
  <2>3. /\ cpsRequests' \in Seq(ClRequest) /\ Len(cpsRequests') = 1
        /\ cpsRequests'[1].kind = "status" /\ cpsRequests'[1].answer = "none"
    BY <2>1, <2>2 DEF CL!Ask
  <2>4. ClTypes'
    BY <1>0, <2>1, <2>3 DEF ClTypes
  <2>5. Asking(1)'
    BY <2>1, <2>3 DEF Asking
  <2>. QED  BY <2>3, <2>4, <2>5 DEF ClInv, Tells
<1>5. CASE UNCHANGED clVars
  BY <1>0, <1>5
  DEF clVars, ClInv, ClTypes, Tells, AllTell, Asking, Stopping, Starting, Activating
<1>. QED  BY <1>1, <1>2, <1>3, <1>4, <1>5 DEF CL!Next

LEMMA ClInit == CL!Init => ClInv
<1>. SUFFICES ASSUME CL!Init
              PROVE  ClInv
  OBVIOUS
<1>1. /\ CL!Ask("navStatus") \in ClRequest /\ CL!Ask("status") \in ClRequest
  BY DEF CL!Ask, ClRequest
<1>2. /\ cpsRequests \in Seq(ClRequest) /\ Len(cpsRequests) = 2
      /\ cpsRequests[1].kind = "navStatus" /\ cpsRequests[1].answer = "none"
      /\ cpsRequests[2].kind = "status" /\ cpsRequests[2].answer = "none"
  BY <1>1 DEF CL!Init, CL!Ask
<1>3. ClTypes
  BY <1>2 DEF CL!Init, ClTypes
<1>4. Asking(2)
  BY <1>2 DEF CL!Init, Asking
<1>. QED  BY <1>2, <1>3, <1>4 DEF ClInv, Tells

LEMMA ClBoxTells ==
  ASSUME ClInv
  PROVE  CL!BoxTellsRunning
<1>1. \A n \in Nat \ {0} : Len(cpsRequests) = n => cpsRequests # << >>
  BY EmptySeq DEF ClInv, ClTypes
<1>. QED  BY <1>1 DEF ClInv, Tells, AllTell, CL!BoxTellsRunning

-----------------------------------------------------------------------------
(* Reporting: the box has what was reported last, in its own form. *)

RtTypes == showMessageInError \in BOOLEAN /\ showMessageFromMessage \in BOOLEAN

HasDismissed == last = <<"dismissed">> /\ e = RT!NoError /\ message = RT!NoText /\ isHTML = FALSE
HasText(kind, text) ==
  last = <<kind, text>> /\ e = RT!NoError /\ message = text /\ rtStyle = kind /\ isHTML = FALSE
HasError(err) ==
  /\ last = <<"error", err>> /\ e = err /\ message = RT!NoText
  /\ isHTML = (err.body = "page") /\ raised = (err.body = "null")
  /\ err.status = 400 => validationErrors = IF err.body # "null" THEN err.body ELSE "none"

RtInv ==
  /\ RtTypes
  /\ \/ HasDismissed
     \/ \E kind \in {"success", "warning"}, text \in RT!Texts : HasText(kind, text)
     \/ \E err \in RT!Errors : HasError(err)

LEMMA RtStep ==
  ASSUME RtInv, RT!Next \/ UNCHANGED rtVars
  PROVE  RtInv'
<1>1. CASE RT!ErrorMessage
  <2>1. PICK err \in RT!Errors : RT!ShowError(err) /\ last' = <<"error", err>>
    BY <1>1 DEF RT!ErrorMessage
  <2>2. HasError(err)'
    BY <2>1 DEF RT!ShowError, RT!ClearMessage, HasError
  <2>3. RtTypes'
    BY <2>1 DEF RT!ShowError, RtInv, RtTypes
  <2>4. RT!Errors' = RT!Errors
    BY DEF RT!Errors
  <2>. QED  BY <2>2, <2>3, <2>4 DEF RtInv
<1>2. ASSUME NEW kind \in {"success", "warning"}, RT!TextMessage(kind)
      PROVE  RtInv'
  <2>1. PICK text \in RT!Texts :
          RT!ClearMessage(RT!NoError, text, FALSE) /\ last' = <<kind, text>>
    BY <1>2 DEF RT!TextMessage
  <2>2. HasText(kind, text)'
    BY <1>2, <2>1 DEF RT!TextMessage, RT!ClearMessage, HasText
  <2>3. RtTypes'
    BY <1>2 DEF RT!TextMessage, RtInv, RtTypes
  <2>. QED  BY <2>2, <2>3 DEF RtInv
<1>3. CASE RT!Dismiss
  BY <1>3 DEF RT!Dismiss, RT!ClearMessage, RtInv, RtTypes, HasDismissed
<1>4. CASE UNCHANGED rtVars
  BY <1>4 DEF rtVars, RtInv, RtTypes, HasDismissed, HasText, HasError
<1>. QED
  BY <1>1, <1>2, <1>3, <1>4 DEF RT!Next, RT!SuccessMessage, RT!WarningMessage

LEMMA RtInit == RT!Init => RtInv
BY DEF RT!Init, RtInv, RtTypes, HasDismissed

LEMMA RtShows ==
  ASSUME RtInv
  PROVE  RT!ShowsTheLast
<1>1. CASE HasDismissed
  <2>1. RT!Parts = {}
    BY <1>1 DEF HasDismissed, RT!Parts, RT!BoxShown
  <2>. QED  BY <1>1, <2>1 DEF HasDismissed, RT!ShowsTheLast
<1>2. CASE \E kind \in {"success", "warning"}, text \in RT!Texts : HasText(kind, text)
  <2>1. PICK kind \in {"success", "warning"}, text \in RT!Texts : HasText(kind, text)
    BY <1>2
  <2>2. text # RT!NoText
    BY DEF RT!Texts, RT!NoText
  <2>3. RT!Parts = {<<kind, text>>}
    BY <2>1, <2>2 DEF HasText, RT!Parts, RT!BoxShown, RT!NoError
  <2>. QED  BY <2>1, <2>3 DEF HasText, RT!ShowsTheLast
<1>3. CASE \E err \in RT!Errors : HasError(err)
  <2>1. PICK err \in RT!Errors : HasError(err)
    BY <1>3
  <2>2. /\ err # RT!NoError
        /\ err.body \in {"event", "text", "object", "null", "page"}
        /\ err.status = 400 => err.body # "page"
    BY DEF RT!Errors, RT!NoError
  <2>3. CASE err.body = "page"
    <3>1. RT!Parts = {<<"page", err>>}
      BY <2>1, <2>3 DEF HasError, RT!Parts
    <3>. QED  BY <2>1, <2>2, <2>3, <3>1 DEF HasError, RT!ShowsTheLast
  <2>4. CASE err.body # "page" /\ err.status = 400
    <3>1. RT!Parts = {<<"validation", validationErrors>>}
      BY <2>1, <2>2, <2>4 DEF HasError, RT!Parts, RT!BoxShown
    <3>2. /\ last[1] = "error" /\ last[2] = err /\ message = RT!NoText
          /\ isHTML = (err.body = "page")
          /\ validationErrors = IF raised THEN "none" ELSE err.body
      BY <2>1, <2>4 DEF HasError
    <3>3. RT!Parts # {} /\ \A p \in RT!Parts : p[1] \in {"error"} => p[2] = err.body
      BY <3>1
    <3>4. RT!Parts = {<<"validation", IF raised THEN "none" ELSE err.body>>}
      BY <3>1, <3>2
    <3>. QED  BY <3>2, <3>3, <3>4 DEF RT!ShowsTheLast
  <2>5. CASE err.body # "page" /\ err.status # 400
    <3>1. RT!Parts = (IF showMessageInError THEN {<<"error", err.body>>} ELSE {}) \cup
                     (IF showMessageFromMessage THEN {<<"details", err>>} ELSE {}) \cup
                     (IF ~showMessageInError /\ ~showMessageFromMessage
                      THEN {<<"see logs">>} ELSE {})
      BY <2>1, <2>2, <2>5 DEF HasError, RT!Parts, RT!BoxShown
    <3>2. RT!Parts # {}
      <4>1. CASE showMessageInError
        BY <3>1, <4>1
      <4>2. CASE ~showMessageInError /\ showMessageFromMessage
        BY <3>1, <4>2
      <4>3. CASE ~showMessageInError /\ ~showMessageFromMessage
        BY <3>1, <4>3
      <4>. QED  BY <4>1, <4>2, <4>3
    <3>3. ASSUME NEW p \in RT!Parts, p[1] \in {"error"}
          PROVE  p[2] = err.body
      <4>1. p \in {<<"error", err.body>>} \/ p \in {<<"details", err>>} \/ p \in {<<"see logs">>}
        BY <3>1, <3>3
      <4>2. CASE p \in {<<"error", err.body>>}
        BY <4>2
      <4>3. CASE p \in {<<"details", err>>}
        <5>1. p[1] = "details"
          BY <4>3
        <5>. QED  BY <3>3, <5>1
      <4>4. CASE p \in {<<"see logs">>}
        <5>1. p = <<"see logs">>
          BY <4>4
        <5>2. p[1] = "see logs"
          BY <5>1
        <5>. QED  BY <3>3, <5>2
      <4>. QED  BY <4>1, <4>2, <4>3, <4>4
    <3>. QED  BY <2>1, <2>2, <2>5, <3>2, <3>3 DEF HasError, RT!ShowsTheLast
  <2>. QED  BY <2>3, <2>4, <2>5
<1>. QED  BY <1>1, <1>2, <1>3 DEF RtInv

-----------------------------------------------------------------------------
(* RecordingControl: the recordings of a list, in the slots of their dates. *)

(* Of a finite set of numbers there is one sequence in their order: its first is the least, *)
(* and the others follow as they do without it.                                             *)
Sorted(q, n, S) ==
  /\ q \in [1 .. n -> S]
  /\ \A x \in S : \E i \in 1 .. n : q[i] = x
  /\ \A i, j \in 1 .. n : i < j => q[i] < q[j]

LEMMA SortedIsThere ==
  ASSUME NEW S, S \subseteq Nat, IsFiniteSet(S)
  PROVE  \E q : Sorted(q, Cardinality(S), S)
<1>. DEFINE T == {n \in Nat : \A R \in SUBSET Nat :
                     IsFiniteSet(R) /\ Cardinality(R) = n => \E q : Sorted(q, n, R)}
<1>1. 0 \in T
  <2>. SUFFICES ASSUME NEW R \in SUBSET Nat, IsFiniteSet(R), Cardinality(R) = 0
                PROVE  \E q : Sorted(q, 0, R)
    OBVIOUS
  <2>1. R = {}
    BY OneMoreOrLess
  <2>2. Sorted([i \in 1 .. 0 |-> 0], 0, R)
    BY <2>1 DEF Sorted
  <2>. QED  BY <2>2
<1>2. ASSUME NEW n \in Nat, n \in T PROVE n + 1 \in T
  <2>. SUFFICES ASSUME NEW R \in SUBSET Nat, IsFiniteSet(R), Cardinality(R) = n + 1
                PROVE  \E q : Sorted(q, n + 1, R)
    OBVIOUS
  <2>1. R # {}
    BY FS_EmptySet
  <2>2. PICK m \in R : \A y \in R : m <= y
    BY <2>1, LeastOf
  <2>. DEFINE P == R \ {m}
  <2>3. IsFiniteSet(P) /\ Cardinality(P) = n /\ P \in SUBSET Nat
    BY FS_RemoveElement, OneMoreOrLess
  <2>4. PICK p : Sorted(p, n, P)
    <3>. HIDE DEF P
    <3>. QED  BY <1>2, <2>3
  <2>. DEFINE q == [i \in 1 .. n + 1 |-> IF i = 1 THEN m ELSE p[i - 1]]
  <2>5. \A i \in 2 .. n + 1 : i - 1 \in 1 .. n /\ i \in 1 .. n + 1 /\ i # 1
    OBVIOUS
  <2>6. /\ q[1] = m /\ DOMAIN q = 1 .. n + 1
        /\ \A i \in 2 .. n + 1 : q[i] = p[i - 1] /\ q[i] \in R /\ m < q[i]
    <3>1. q[1] = m
      OBVIOUS
    <3>2. ASSUME NEW i \in 2 .. n + 1 PROVE q[i] = p[i - 1] /\ q[i] \in R /\ m < q[i]
      <4>1. q[i] = p[i - 1]
        BY <2>5
      <4>2. p[i - 1] \in P
        BY <2>4, <2>5 DEF Sorted
      <4>. HIDE DEF q
      <4>3. p[i - 1] \in R /\ p[i - 1] # m /\ m <= p[i - 1] /\ m \in Nat /\ p[i - 1] \in Nat
        BY <2>2, <4>2
      <4>. QED  BY <4>1, <4>3
    <3>. QED  BY <3>1, <3>2
  <2>. HIDE DEF q
  <2>7. q \in [1 .. n + 1 -> R]
    <3>1. ASSUME NEW i \in 1 .. n + 1 PROVE q[i] \in R
      <4>1. i = 1 \/ i \in 2 .. n + 1
        OBVIOUS
      <4>. QED  BY <2>2, <2>6, <4>1
    <3>2. q = [i \in 1 .. n + 1 |-> q[i]]
      BY DEF q
    <3>. QED  BY <3>1, <3>2
  <2>8. ASSUME NEW x \in R PROVE \E i \in 1 .. n + 1 : q[i] = x
    <3>1. CASE x = m
      BY <2>6, <3>1
    <3>2. CASE x # m
      <4>1. PICK i \in 1 .. n : p[i] = x
        BY <2>4, <3>2 DEF Sorted
      <4>2. i + 1 \in 2 .. n + 1 /\ i + 1 \in 1 .. n + 1 /\ (i + 1) - 1 = i
        OBVIOUS
      <4>3. q[i + 1] = x
        BY <2>6, <4>1, <4>2
      <4>. QED  BY <4>2, <4>3
    <3>. QED  BY <3>1, <3>2
  <2>9. ASSUME NEW i \in 1 .. n + 1, NEW j \in 1 .. n + 1, i < j PROVE q[i] < q[j]
    <3>1. j \in 2 .. n + 1
      BY <2>9
    <3>2. CASE i = 1
      BY <2>6, <3>1, <3>2
    <3>3. CASE i # 1
      <4>1. i \in 2 .. n + 1 /\ i - 1 < j - 1
        BY <2>9, <3>3
      <4>2. p[i - 1] < p[j - 1]
        BY <2>4, <2>5, <3>1, <4>1 DEF Sorted
      <4>. QED  BY <2>6, <3>1, <4>1, <4>2
    <3>. QED  BY <3>2, <3>3
  <2>10. Sorted(q, n + 1, R)
    BY <2>7, <2>8, <2>9 DEF Sorted
  <2>. QED  BY <2>10
<1>3. Cardinality(S) \in T
  <2>. HIDE DEF T
  <2>. QED  BY <1>1, <1>2, UpTo, FS_CardinalityType
<1>. QED  BY <1>3

(* What the module has of its own of the libraries. *)
LEMMA OfTheLibraries ==
  /\ \A S : RC!Cardinality(S) = Cardinality(S)
  /\ \A S : RC!IsFiniteSet(S) <=> IsFiniteSet(S)
  /\ \A s, i : RC!RemoveAt(s, i) = Removed(s, i)
BY DEF RC!Cardinality, Cardinality, RC!IsFiniteSet, IsFiniteSet, RC!RemoveAt, Removed

(* Times are numbers. *)
LEMMA TimesAreNumbers ==
  /\ RC!Epochs \subseteq Nat
  /\ \A s \in RcStreams : TimesOf[s] \subseteq RC!Epochs
BY ClientPagesAssumption DEF RC!Epochs

(* The recordings of a list, in the order of their times. *)
LEMMA ListedInOrder ==
  ASSUME NEW es, es \subseteq RC!Epochs, IsFiniteSet(es)
  PROVE  /\ RC!MotionEvents(es) \in Seq(RC!Epochs)
         /\ Len(RC!MotionEvents(es)) \in Nat
         /\ DOMAIN RC!MotionEvents(es) = 1 .. Len(RC!MotionEvents(es))
         /\ \A x : x \in es <=>
              \E i \in 1 .. Len(RC!MotionEvents(es)) : RC!MotionEvents(es)[i] = x
         /\ \A i, j \in 1 .. Len(RC!MotionEvents(es)) :
              i < j => RC!MotionEvents(es)[i] < RC!MotionEvents(es)[j]
<1>. DEFINE n == Cardinality(es)
            Right(q) == RC!Range(q) = es /\ \A i, j \in DOMAIN q : i < j => q[i] < q[j]
            m == RC!MotionEvents(es)
<1>1. n \in Nat /\ RC!Epochs \subseteq Nat
  BY FS_CardinalityType, TimesAreNumbers
<1>2. PICK p : Sorted(p, n, es)
  BY <1>1, SortedIsThere
<1>3. m = CHOOSE q \in [1 .. n -> es] : Right(q)
  BY OfTheLibraries DEF RC!MotionEvents
<1>. HIDE DEF n, m
<1>4. p \in [1 .. n -> es] /\ Right(p)
  <2>1. p \in [1 .. n -> es] /\ DOMAIN p = 1 .. n
    BY <1>2 DEF Sorted
  <2>2. RC!Range(p) = {p[i] : i \in 1 .. n}
    BY <2>1 DEF RC!Range
  <2>3. \A x \in es : x \in {p[i] : i \in 1 .. n}
    BY <1>2 DEF Sorted
  <2>4. \A i \in 1 .. n : p[i] \in es
    BY <2>1
  <2>5. RC!Range(p) = es
    BY <2>2, <2>3, <2>4
  <2>. QED  BY <1>2, <2>1, <2>5 DEF Sorted
<1>5. m \in [1 .. n -> es] /\ Right(m)
  <2>. HIDE DEF Right
  <2>. QED  BY <1>3, <1>4, Zenon
<1>6. m \in Seq(es) /\ m \in Seq(RC!Epochs) /\ Len(m) = n /\ DOMAIN m = 1 .. n
  <2>1. DOMAIN m = 1 .. n /\ m \in [1 .. n -> RC!Epochs]
    BY <1>5
  <2>2. m \in Seq(RC!Epochs) /\ m \in Seq(es)
    BY <1>1, <1>5, <2>1
  <2>. QED  BY <1>1, <2>1, <2>2, LenProperties
<1>7. \A x : x \in es <=> \E i \in 1 .. n : m[i] = x
  <2>1. es = {m[i] : i \in 1 .. n}
    BY <1>5, <1>6 DEF RC!Range
  <2>. QED  BY <2>1
<1>8. \A i, j \in 1 .. n : i < j => m[i] < m[j]
  BY <1>5, <1>6
<1>9. /\ m \in Seq(RC!Epochs) /\ Len(m) \in Nat /\ DOMAIN m = 1 .. Len(m)
      /\ \A x : x \in es <=> \E i \in 1 .. Len(m) : m[i] = x
      /\ \A i, j \in 1 .. Len(m) : i < j => m[i] < m[j]
  BY <1>1, <1>6, <1>7, <1>8
<1>. QED  BY <1>9 DEF m

(* A recording more: it is in a slot of its date, the last, and nothing else has changed. *)
EndsBy(slots, elt) == slots # << >> => slots[Len(slots)].date <= RC!Day(elt)

LEMMA DatesOfTimes ==
  /\ \A x \in RC!Epochs : RC!Day(x) \in Nat
  /\ \A x, y \in RC!Epochs : x < y => RC!Day(x) <= RC!Day(y)
<1>0. PerDay \in Nat \ {0}
  BY ClientPagesAssumption
<1>9. \A x \in RC!Epochs : x \in Nat
  BY TimesAreNumbers
<1>1. ASSUME NEW x \in RC!Epochs
      PROVE  RC!Day(x) \in Int /\ RC!Day(x) * PerDay <= x /\ 0 <= RC!Day(x)
  <2>0. x \in Nat
    BY <1>9
  <2>1. x \in Int /\ 0 * PerDay <= x /\ 0 \in Int
    BY <1>0, <2>0
  <2>2. /\ x \div PerDay \in Int /\ PerDay * (x \div PerDay) <= x
    BY <1>0, <2>1, QuotientIsBetween
  <2>3. 0 <= x \div PerDay
    BY <1>0, <2>1, QuotientAtLeast
  <2>. DEFINE q == x \div PerDay
  <2>4. q \in Int /\ PerDay * q <= x /\ 0 <= q /\ RC!Day(x) = q
    BY <2>2, <2>3 DEF RC!Day
  <2>. HIDE DEF q
  <2>5. q * PerDay = PerDay * q
    BY <1>0, <2>4
  <2>. QED  BY <2>4, <2>5
<1>2. ASSUME NEW x \in RC!Epochs, NEW y \in RC!Epochs, x < y PROVE RC!Day(x) <= RC!Day(y)
  <2>1. RC!Day(x) * PerDay <= y /\ RC!Day(x) \in Int
    <3>. DEFINE z == RC!Day(x) * PerDay
    <3>1. z <= x /\ z \in Int /\ RC!Day(x) \in Int
      <4>1. RC!Day(x) \in Int /\ RC!Day(x) * PerDay <= x
        BY <1>1
      <4>. QED  BY <1>0, <4>1
    <3>2. x \in Int /\ y \in Int
      <4>1. x \in Nat /\ y \in Nat
        BY <1>9
      <4>. QED  BY <4>1
    <3>. HIDE DEF z
    <3>3. z <= y
      BY <1>2, <3>1, <3>2
    <3>. QED  BY <3>1, <3>3 DEF z
  <2>2. y \in Int
    <3>1. y \in Nat
      BY <1>9
    <3>. QED  BY <3>1
  <2>3. RC!Day(x) <= y \div PerDay
    BY <1>0, <2>1, <2>2, QuotientAtLeast
  <2>. QED  BY <2>3 DEF RC!Day
<1>. QED  BY <1>1, <1>2

LEMMA SlottedKeeps ==
  ASSUME NEW slots \in Seq(RC!RcSlot), RC!InOrder(slots), NEW elt \in RC!Epochs, EndsBy(slots, elt)
  PROVE  /\ RC!Slotted(slots, elt) \in Seq(RC!RcSlot) /\ RC!InOrder(RC!Slotted(slots, elt))
         /\ RC!Slotted(slots, elt) # << >>
         /\ RC!Slotted(slots, elt)[Len(RC!Slotted(slots, elt))].date <= RC!Day(elt)
         /\ \A x : RC!InSlots(RC!Slotted(slots, elt), x) <=> RC!InSlots(slots, x) \/ x = elt
<1>. DEFINE n == Len(slots)
            t == RC!Slotted(slots, elt)
<1>0. n \in Nat /\ DOMAIN slots = 1 .. n /\ \A i \in 1 .. n : slots[i] \in RC!RcSlot
  BY LenProperties
<1>1. /\ \A i, j \in 1 .. n : i < j => slots[i].date < slots[j].date
      /\ \A i \in 1 .. n : /\ slots[i].events # << >>
                           /\ \A x \in RC!Range(slots[i].events) : RC!OfSlot(x, slots[i].date)
  BY <1>0 DEF RC!InOrder
<1>2. RC!Day(elt) \in Nat
  BY DatesOfTimes
<1>5. n # 0 => RC!Last(slots) = slots[n] /\ slots[n].date <= RC!Day(elt)
  BY <1>0, EmptySeq DEF RC!Last, EndsBy
<1>3. CASE n # 0 /\ RC!DayAndMonth(slots[n].date) = RC!DayAndMonth(RC!Day(elt))
  <2>. DEFINE old == slots[n]
              evs == Append(old.events, elt)
              slot == [old EXCEPT !.events = evs]
  <2>1. n \in 1 .. n /\ old \in RC!RcSlot /\ old.events \in Seq(RC!Epochs) /\ old.date \in Nat
    BY <1>0, <1>3 DEF RC!RcSlot
  <2>2. t = [slots EXCEPT ![n] = slot]
    <3>1. slots # << >>
      BY <1>3, EmptySeq
    <3>2. t = [slots EXCEPT ![Len(slots)].events = Append(@, elt)]
      BY <1>3, <1>5, <3>1 DEF RC!Slotted, RC!InLastSlot
    <3>. QED  BY <3>2
  <2>3. /\ evs \in Seq(RC!Epochs) /\ Len(old.events) \in Nat
        /\ DOMAIN old.events = 1 .. Len(old.events)
        /\ Len(evs) = Len(old.events) + 1
        /\ DOMAIN evs = 1 .. Len(old.events) + 1
        /\ \A i \in 1 .. Len(old.events) : evs[i] = old.events[i]
        /\ evs[Len(old.events) + 1] = elt
    <3>. HIDE DEF old
    <3>. QED  BY <2>1, AppendAt
  <2>4. slot.date = old.date /\ slot.events = evs /\ slot \in RC!RcSlot
    <3>. HIDE DEF evs, old
    <3>. QED  BY <2>1, <2>3 DEF RC!RcSlot
  <2>5. \A x : x \in RC!Range(evs) <=> x \in RC!Range(old.events) \/ x = elt
    <3>. HIDE DEF old, evs
    <3>1. RC!Range(evs) = {evs[i] : i \in 1 .. Len(old.events) + 1}
          /\ RC!Range(old.events) = {old.events[i] : i \in 1 .. Len(old.events)}
      BY <2>3 DEF RC!Range
    <3>2. ASSUME NEW x \in RC!Range(evs) PROVE x \in RC!Range(old.events) \/ x = elt
      <4>1. PICK i \in 1 .. Len(old.events) + 1 : x = evs[i]
        BY <3>1, <3>2
      <4>2. CASE i = Len(old.events) + 1
        BY <2>3, <4>1, <4>2
      <4>3. CASE i # Len(old.events) + 1
        <5>1. i \in 1 .. Len(old.events)
          BY <2>3, <4>3
        <5>. QED  BY <2>3, <3>1, <4>1, <5>1
      <4>. QED  BY <4>2, <4>3
    <3>3. ASSUME NEW x \in RC!Range(old.events) PROVE x \in RC!Range(evs)
      <4>1. PICK i \in 1 .. Len(old.events) : x = old.events[i]
        BY <3>1, <3>3
      <4>2. i \in 1 .. Len(old.events) + 1
        BY <2>3
      <4>. QED  BY <2>3, <3>1, <4>1, <4>2
    <3>4. elt \in RC!Range(evs)
      <4>1. Len(old.events) + 1 \in 1 .. Len(old.events) + 1
        BY <2>3
      <4>. QED  BY <2>3, <3>1, <4>1
    <3>. QED  BY <3>2, <3>3, <3>4
  <2>6. evs # << >>
    <3>. HIDE DEF evs, old
    <3>. QED  BY <2>3, EmptySeq
  <2>7. /\ t \in Seq(RC!RcSlot) /\ Len(t) = n /\ DOMAIN t = 1 .. n /\ t[n] = slot
        /\ \A j \in 1 .. n : j # n => t[j] = slots[j]
    <3>. HIDE DEF slot, t
    <3>. QED  BY <1>0, <2>1, <2>2, <2>4, ChangedAt
  <2>. HIDE DEF slot, t, evs
  <2>8. \A i \in 1 .. n : t[i].date = slots[i].date
    BY <2>4, <2>7
  <2>9. RC!InOrder(t)
    <3>1. \A i, j \in DOMAIN t : i < j => t[i].date < t[j].date
      BY <1>1, <2>7, <2>8
    <3>2. ASSUME NEW i \in DOMAIN t
          PROVE  /\ t[i].events # << >>
                 /\ \A x \in RC!Range(t[i].events) : RC!OfSlot(x, t[i].date)
      <4>1. CASE i = n
        <5>1. t[i].events = evs /\ t[i].date = old.date
          BY <2>4, <2>7, <4>1
        <5>2. \A x \in RC!Range(old.events) : RC!OfSlot(x, old.date)
          BY <1>1, <2>1
        <5>3. RC!OfSlot(elt, old.date)
          BY <1>2, <1>3, <1>5, <2>1 DEF RC!OfSlot
        <5>. QED  BY <2>5, <2>6, <5>1, <5>2, <5>3
      <4>2. CASE i # n
        BY <1>1, <2>7, <3>2, <4>2
      <4>. QED  BY <4>1, <4>2
    <3>. QED  BY <3>1, <3>2 DEF RC!InOrder
  <2>10. ASSUME NEW x
         PROVE  RC!InSlots(t, x) <=> RC!InSlots(slots, x) \/ x = elt
    <3>1. ASSUME RC!InSlots(t, x) PROVE RC!InSlots(slots, x) \/ x = elt
      <4>1. PICK i \in 1 .. n : x \in RC!Range(t[i].events)
        BY <2>7, <3>1 DEF RC!InSlots
      <4>2. x \in RC!Range(slots[i].events) \/ x = elt
        BY <2>4, <2>5, <2>7, <4>1
      <4>. QED  BY <1>0, <4>2 DEF RC!InSlots
    <3>2. ASSUME RC!InSlots(slots, x) PROVE RC!InSlots(t, x)
      <4>1. PICK i \in 1 .. n : x \in RC!Range(slots[i].events)
        BY <1>0, <3>2 DEF RC!InSlots
      <4>2. x \in RC!Range(t[i].events)
        BY <2>4, <2>5, <2>7, <4>1
      <4>. QED  BY <2>7, <4>2 DEF RC!InSlots
    <3>3. RC!InSlots(t, elt)
      BY <2>1, <2>4, <2>5, <2>7 DEF RC!InSlots
    <3>. QED  BY <3>1, <3>2, <3>3
  <2>11. t # << >> /\ t[Len(t)].date <= RC!Day(elt)
    BY <1>3, <1>5, <2>4, <2>7, EmptySeq
  <2>. QED  BY <2>7, <2>9, <2>10, <2>11 DEF t
<1>4. CASE ~(n # 0 /\ RC!DayAndMonth(slots[n].date) = RC!DayAndMonth(RC!Day(elt)))
  <2>. DEFINE slot == [date |-> RC!Day(elt), events |-> <<elt>>]
  <2>1. t = Append(slots, slot)
    <3>1. ~RC!InLastSlot(slots, elt)
      BY <1>4, <1>5, EmptySeq DEF RC!InLastSlot
    <3>. QED  BY <3>1 DEF RC!Slotted
  <2>2. slot \in RC!RcSlot /\ slot.date = RC!Day(elt) /\ slot.events = <<elt>>
    BY <1>2 DEF RC!RcSlot
  <2>3. <<elt>> # << >> /\ RC!Range(<<elt>>) = {elt}
    BY DEF RC!Range
  <2>. HIDE DEF slot, t
  <2>4. /\ t \in Seq(RC!RcSlot) /\ Len(t) = n + 1 /\ DOMAIN t = 1 .. n + 1
        /\ \A i \in 1 .. n : t[i] = slots[i]
        /\ t[n + 1] = slot
    BY <2>1, <2>2, AppendAt
  <2>5. \A i \in 1 .. n : slots[i].date < RC!Day(elt)
    <3>. SUFFICES ASSUME NEW i \in 1 .. n PROVE slots[i].date < RC!Day(elt)
      OBVIOUS
    <3>1. n # 0 /\ n \in 1 .. n
      BY <1>0
    <3>2. slots # << >>
      BY <3>1, EmptySeq
    <3>3. slots[n].date <= RC!Day(elt) /\ slots[n].date # RC!Day(elt)
      BY <1>4, <3>1, <3>2 DEF EndsBy
    <3>4. slots[n].date \in Nat /\ slots[i].date \in Nat
      BY <1>0, <3>1 DEF RC!RcSlot
    <3>5. i = n \/ slots[i].date < slots[n].date
      <4>1. i = n \/ i < n
        <5>1. n \in Nat
          BY <1>0
        <5>. HIDE DEF n
        <5>. QED  BY <5>1
      <4>. QED  BY <1>1, <3>1, <4>1
    <3>. QED  BY <1>2, <3>3, <3>4, <3>5
  <2>6. RC!InOrder(t)
    <3>1. ASSUME NEW i \in DOMAIN t, NEW j \in DOMAIN t, i < j
          PROVE  t[i].date < t[j].date
      <4>1. i \in 1 .. n
        BY <1>0, <2>4, <3>1
      <4>2. CASE j = n + 1
        BY <2>2, <2>4, <2>5, <4>1, <4>2
      <4>3. CASE j # n + 1
        <5>1. j \in 1 .. n
          BY <1>0, <2>4, <3>1, <4>3
        <5>. QED  BY <1>1, <2>4, <3>1, <4>1, <5>1
      <4>. QED  BY <4>2, <4>3
    <3>2. ASSUME NEW i \in DOMAIN t
          PROVE  /\ t[i].events # << >>
                 /\ \A x \in RC!Range(t[i].events) : RC!OfSlot(x, t[i].date)
      <4>1. CASE i = n + 1
        <5>1. t[i].events = <<elt>> /\ t[i].date = RC!Day(elt)
          BY <2>2, <2>4, <4>1
        <5>2. RC!OfSlot(elt, RC!Day(elt))
          BY <1>2 DEF RC!OfSlot
        <5>3. \A x \in {elt} : RC!OfSlot(x, RC!Day(elt))
          BY <5>2
        <5>. QED  BY <2>3, <5>1, <5>3
      <4>2. CASE i # n + 1
        <5>1. i \in 1 .. n
          BY <1>0, <2>4, <3>2, <4>2
        <5>. QED  BY <1>1, <2>4, <5>1
      <4>. QED  BY <4>1, <4>2
    <3>. QED  BY <3>1, <3>2 DEF RC!InOrder
  <2>7. ASSUME NEW x
        PROVE  RC!InSlots(t, x) <=> RC!InSlots(slots, x) \/ x = elt
    <3>1. ASSUME RC!InSlots(t, x) PROVE RC!InSlots(slots, x) \/ x = elt
      <4>1. PICK i \in 1 .. n + 1 : x \in RC!Range(t[i].events)
        BY <2>4, <3>1 DEF RC!InSlots
      <4>2. CASE i = n + 1
        BY <2>2, <2>3, <2>4, <4>1, <4>2
      <4>3. CASE i # n + 1
        <5>1. i \in 1 .. n
          BY <1>0, <4>3
        <5>. QED  BY <1>0, <2>4, <4>1, <5>1 DEF RC!InSlots
      <4>. QED  BY <4>2, <4>3
    <3>2. ASSUME RC!InSlots(slots, x) PROVE RC!InSlots(t, x)
      <4>1. PICK i \in 1 .. n : x \in RC!Range(slots[i].events)
        BY <1>0, <3>2 DEF RC!InSlots
      <4>2. i \in 1 .. n + 1
        BY <1>0
      <4>. QED  BY <2>4, <4>1, <4>2 DEF RC!InSlots
    <3>3. RC!InSlots(t, elt)
      <4>1. n + 1 \in 1 .. n + 1
        BY <1>0
      <4>. QED  BY <2>2, <2>3, <2>4, <4>1 DEF RC!InSlots
    <3>. QED  BY <3>1, <3>2, <3>3
  <2>8. t # << >> /\ t[Len(t)].date <= RC!Day(elt)
    BY <1>0, <1>2, <2>2, <2>4, EmptySeq
  <2>. QED  BY <2>4, <2>6, <2>7, <2>8 DEF t
<1>. QED  BY <1>3, <1>4

(* The slots of a list: the recursive function that makes them is there, and what it makes *)
(* of the first n recordings holds these, and no others.                                    *)
TimesInOrder(evs) ==
  /\ evs \in Seq(RC!Epochs)
  /\ \A i, j \in 1 .. Len(evs) : i < j => evs[i] < evs[j]

SlotsOfFirst(slots, evs, n) ==
  /\ slots \in Seq(RC!RcSlot) /\ RC!InOrder(slots)
  /\ n = 0 => slots = << >>
  /\ n # 0 => slots # << >> /\ slots[Len(slots)].date <= RC!Day(evs[n])
  /\ \A x : RC!InSlots(slots, x) <=> \E i \in 1 .. n : evs[i] = x

LEMMA NoSlots ==
  ASSUME NEW evs
  PROVE  SlotsOfFirst(<< >>, evs, 0)
<1>1. << >> \in Seq(RC!RcSlot) /\ DOMAIN << >> = {}
  BY EmptySeq, LenProperties
<1>2. RC!InOrder(<< >>) /\ \A x : ~RC!InSlots(<< >>, x)
  BY <1>1 DEF RC!InOrder, RC!InSlots
<1>3. \A x : ~\E i \in 1 .. 0 : evs[i] = x
  OBVIOUS
<1>. QED  BY <1>1, <1>2, <1>3 DEF SlotsOfFirst

LEMMA OneMoreSlotted ==
  ASSUME NEW evs, TimesInOrder(evs), NEW n \in 0 .. Len(evs) - 1, NEW slots,
         SlotsOfFirst(slots, evs, n)
  PROVE  SlotsOfFirst(RC!Slotted(slots, evs[n + 1]), evs, n + 1)
<1>. DEFINE elt == evs[n + 1]
            t == RC!Slotted(slots, elt)
<1>0. /\ Len(evs) \in Nat /\ n \in Nat /\ n + 1 \in 1 .. Len(evs) /\ elt \in RC!Epochs
      /\ n # 0 => n \in 1 .. Len(evs) /\ evs[n] \in RC!Epochs
  <2>1. Len(evs) \in Nat /\ evs \in Seq(RC!Epochs) /\ \A i \in 1 .. Len(evs) : evs[i] \in RC!Epochs
    BY LenProperties DEF TimesInOrder
  <2>2. n \in Nat /\ n + 1 \in 1 .. Len(evs) /\ (n # 0 => n \in 1 .. Len(evs))
    BY <2>1
  <2>. QED  BY <2>1, <2>2
<1>1. slots \in Seq(RC!RcSlot) /\ RC!InOrder(slots)
  BY DEF SlotsOfFirst
<1>2. EndsBy(slots, elt)
  <2>1. CASE n = 0
    BY <2>1 DEF SlotsOfFirst, EndsBy
  <2>2. CASE n # 0
    <3>1. slots[Len(slots)].date <= RC!Day(evs[n]) /\ slots[Len(slots)].date \in Nat
      <4>1. slots \in Seq(RC!RcSlot) /\ slots # << >>
            /\ slots[Len(slots)].date <= RC!Day(evs[n])
        BY <2>2 DEF SlotsOfFirst
      <4>2. Len(slots) \in DOMAIN slots
        BY <4>1, LenProperties, EmptySeq
      <4>3. slots[Len(slots)] \in RC!RcSlot
        BY <4>1, <4>2, LenProperties
      <4>. QED  BY <4>1, <4>3 DEF RC!RcSlot
    <3>2. evs[n] < elt
      <4>1. n < n + 1
        BY <1>0
      <4>. QED  BY <1>0, <2>2, <4>1 DEF TimesInOrder
    <3>3. RC!Day(evs[n]) <= RC!Day(elt)
      <4>. HIDE DEF elt
      <4>. QED  BY <1>0, <2>2, <3>2, DatesOfTimes
    <3>4. RC!Day(evs[n]) \in Nat /\ RC!Day(elt) \in Nat
      BY <1>0, <2>2, DatesOfTimes
    <3>. QED  BY <3>1, <3>3, <3>4 DEF EndsBy
  <2>. QED  BY <2>1, <2>2
<1>3. /\ t \in Seq(RC!RcSlot) /\ RC!InOrder(t) /\ t # << >>
      /\ t[Len(t)].date <= RC!Day(elt)
      /\ \A x : RC!InSlots(t, x) <=> RC!InSlots(slots, x) \/ x = elt
  <2>. HIDE DEF elt
  <2>. QED  BY <1>0, <1>1, <1>2, SlottedKeeps
<1>4. \A i : i \in 1 .. n + 1 <=> i \in 1 .. n \/ i = n + 1
  BY <1>0
<1>5. ASSUME NEW x
      PROVE  RC!InSlots(t, x) <=> \E i \in 1 .. n + 1 : evs[i] = x
  <2>1. RC!InSlots(slots, x) <=> \E i \in 1 .. n : evs[i] = x
    BY DEF SlotsOfFirst
  <2>2. RC!InSlots(t, x) <=> RC!InSlots(slots, x) \/ x = elt
    BY <1>3
  <2>. HIDE DEF t
  <2>. QED  BY <1>4, <2>1, <2>2
<1>6. n + 1 # 0
  BY <1>0
<1>. HIDE DEF t
<1>7. SlotsOfFirst(t, evs, n + 1)
  BY <1>3, <1>5, <1>6 DEF SlotsOfFirst
<1>. QED  BY <1>7 DEF t

LEMMA SlotsAreThere ==
  ASSUME NEW evs, TimesInOrder(evs)
  PROVE  \E g : g = [n \in 0 .. Len(evs) |->
                       IF n = 0 THEN << >> ELSE RC!Slotted(g[n - 1], evs[n])]
<1>. DEFINE L == Len(evs)
            Made(k, g) ==
              g[0] = << >> /\ \A n \in 1 .. k : g[n] = RC!Slotted(g[n - 1], evs[n])
            T == {k \in Nat : k <= L => \E g : DOMAIN g = 0 .. L /\ g = [n \in 0 .. L |-> g[n]]
                                                 /\ Made(k, g)}
<1>0. L \in Nat
  BY LenProperties DEF TimesInOrder
<1>. HIDE DEF L
<1>1. 0 \in T
  <2>. DEFINE g == [n \in 0 .. L |-> << >>]
  <2>1. DOMAIN g = 0 .. L /\ g = [n \in 0 .. L |-> g[n]] /\ Made(0, g)
    BY <1>0
  <2>. HIDE DEF Made, g
  <2>2. \E h : DOMAIN h = 0 .. L /\ h = [n \in 0 .. L |-> h[n]] /\ Made(0, h)
    BY <2>1
  <2>. QED  BY <2>2
<1>2. ASSUME NEW k \in Nat, k \in T PROVE k + 1 \in T
  <2>. SUFFICES ASSUME k + 1 <= L
                PROVE  \E g : DOMAIN g = 0 .. L /\ g = [n \in 0 .. L |-> g[n]] /\ Made(k + 1, g)
    OBVIOUS
  <2>1. PICK g : DOMAIN g = 0 .. L /\ g = [n \in 0 .. L |-> g[n]] /\ Made(k, g)
    <3>1. k <= L
      BY <1>0
    <3>. HIDE DEF Made
    <3>. QED  BY <1>2, <3>1
  <2>. DEFINE s == RC!Slotted(g[k], evs[k + 1])
              h == [n \in 0 .. L |-> IF n = k + 1 THEN s ELSE g[n]]
  <2>. HIDE DEF s
  <2>2. DOMAIN h = 0 .. L /\ h = [n \in 0 .. L |-> h[n]]
    OBVIOUS
  <2>3. h[k + 1] = s /\ \A n \in 0 .. k : h[n] = g[n]
    BY <1>0
  <2>. HIDE DEF h
  <2>4. h[0] = << >>
    <3>1. 0 \in 0 .. k
      BY <1>2
    <3>. QED  BY <2>1, <2>3, <3>1
  <2>5. ASSUME NEW n \in 1 .. k + 1 PROVE h[n] = RC!Slotted(h[n - 1], evs[n])
    <3>1. CASE n = k + 1
      <4>1. n - 1 = k /\ k \in 0 .. k
        BY <3>1
      <4>. QED  BY <2>3, <3>1, <4>1 DEF s
    <3>2. CASE n # k + 1
      <4>1. n \in 1 .. k /\ n \in 0 .. k /\ n - 1 \in 0 .. k
        BY <3>2
      <4>. QED  BY <2>1, <2>3, <4>1
    <3>. QED  BY <3>1, <3>2
  <2>6. Made(k + 1, h)
    BY <2>4, <2>5
  <2>. HIDE DEF Made
  <2>. QED  BY <2>2, <2>6
<1>3. L \in T
  <2>. HIDE DEF T
  <2>. QED  BY <1>0, <1>1, <1>2, UpTo
<1>4. PICK g : DOMAIN g = 0 .. L /\ g = [n \in 0 .. L |-> g[n]] /\ Made(L, g)
  <2>1. L <= L
    BY <1>0
  <2>. HIDE DEF Made
  <2>. QED  BY <1>3, <2>1
<1>5. ASSUME NEW n \in 0 .. L
      PROVE  g[n] = IF n = 0 THEN << >> ELSE RC!Slotted(g[n - 1], evs[n])
  <2>1. n = 0 \/ n \in 1 .. L
    BY <1>0
  <2>. QED  BY <1>4, <2>1
<1>. DEFINE f == [n \in 0 .. L |-> IF n = 0 THEN << >> ELSE RC!Slotted(g[n - 1], evs[n])]
<1>6. \A n \in 0 .. L : f[n] = g[n]
  BY <1>5
<1>7. f = [n \in 0 .. L |-> g[n]]
  BY <1>6
<1>8. g = f
  <2>. HIDE DEF f
  <2>. QED  BY <1>4, <1>7, Zenon
<1>. QED  BY <1>8 DEF L

LEMMA SlotsOfList ==
  ASSUME NEW evs, TimesInOrder(evs)
  PROVE  SlotsOfFirst(RC!CreateDateSlots(evs), evs, Len(evs))
<1>. DEFINE L == Len(evs)
            f == RC!DateSlots(evs)
<1>0. L \in Nat
  BY LenProperties DEF TimesInOrder
<1>1. f = CHOOSE g : g = [n \in 0 .. L |-> IF n = 0 THEN << >>
                                           ELSE RC!Slotted(g[n - 1], evs[n])]
  BY Zenon DEF RC!DateSlots
<1>. HIDE DEF f
<1>2. f = [n \in 0 .. L |-> IF n = 0 THEN << >> ELSE RC!Slotted(f[n - 1], evs[n])]
  BY <1>1, SlotsAreThere, Zenon
<1>3. \A n \in 0 .. L : f[n] = IF n = 0 THEN << >> ELSE RC!Slotted(f[n - 1], evs[n])
  BY <1>2, Zenon
<1>. HIDE DEF L
<1>. DEFINE T == {n \in Nat : n <= L => SlotsOfFirst(f[n], evs, n)}
<1>4. 0 \in T
  <2>1. 0 \in 0 .. L
    BY <1>0
  <2>2. f[0] = << >>
    BY <1>3, <2>1
  <2>3. SlotsOfFirst(f[0], evs, 0)
    BY <2>2, NoSlots
  <2>. QED  BY <2>3
<1>5. ASSUME NEW n \in Nat, n \in T PROVE n + 1 \in T
  <2>. SUFFICES ASSUME n + 1 <= L PROVE SlotsOfFirst(f[n + 1], evs, n + 1)
    OBVIOUS
  <2>1. n <= L /\ n \in 0 .. L - 1 /\ n + 1 \in 0 .. L /\ n + 1 # 0 /\ (n + 1) - 1 = n
    BY <1>0
  <2>2. SlotsOfFirst(f[n], evs, n)
    BY <1>5, <2>1
  <2>3. f[n + 1] = RC!Slotted(f[n], evs[n + 1])
    BY <1>3, <2>1
  <2>4. SlotsOfFirst(RC!Slotted(f[n], evs[n + 1]), evs, n + 1)
    <3>1. n \in 0 .. Len(evs) - 1
      BY <2>1 DEF L
    <3>. QED  BY <2>2, <3>1, OneMoreSlotted
  <2>. QED  BY <2>3, <2>4
<1>6. L \in T
  <2>. HIDE DEF T
  <2>. QED  BY <1>0, <1>4, <1>5, UpTo
<1>7. SlotsOfFirst(f[L], evs, L)
  <2>1. L <= L
    BY <1>0
  <2>. QED  BY <1>6, <2>1
<1>8. RC!CreateDateSlots(evs) = f[L]
  BY DEF RC!CreateDateSlots, f, L
<1>. QED  BY <1>7, <1>8 DEF L

(* A list that comes: its slots are in order, and hold what the server had. *)
LEMMA SlotsOfAnswer ==
  ASSUME NEW es, es \subseteq RC!Epochs, IsFiniteSet(es)
  PROVE  LET slots == RC!CreateDateSlots(RC!MotionEvents(es))
         IN  /\ slots \in Seq(RC!RcSlot) /\ RC!InOrder(slots)
             /\ \A x : RC!InSlots(slots, x) <=> x \in es
<1>. DEFINE evs == RC!MotionEvents(es)
            slots == RC!CreateDateSlots(evs)
<1>1. /\ evs \in Seq(RC!Epochs)
      /\ \A x : x \in es <=> \E i \in 1 .. Len(evs) : evs[i] = x
      /\ \A i, j \in 1 .. Len(evs) : i < j => evs[i] < evs[j]
  BY ListedInOrder
<1>. HIDE DEF evs
<1>2. TimesInOrder(evs)
  BY <1>1 DEF TimesInOrder
<1>3. SlotsOfFirst(slots, evs, Len(evs))
  BY <1>2, SlotsOfList
<1>. HIDE DEF slots
<1>4. /\ slots \in Seq(RC!RcSlot) /\ RC!InOrder(slots)
      /\ \A x : RC!InSlots(slots, x) <=> x \in es
  BY <1>1, <1>3 DEF SlotsOfFirst
<1>. QED  BY <1>4 DEF slots, evs

(* The recordings page. *)
LEMMA RcInit == RC!Init => RC!IInv
<1>. SUFFICES ASSUME RC!Init PROVE RC!IInv
  OBVIOUS
<1>1. << >> \in Seq(RC!RcSlot) /\ DOMAIN << >> = {}
  BY EmptySeq, LenProperties
<1>2. \A s \in RcStreams : RC!IsFiniteSet(recordings[s])
  <2>1. RC!IsFiniteSet({})
    BY OfTheLibraries, FS_EmptySet
  <2>. QED  BY <2>1 DEF RC!Init
<1>3. RC!RcTypes
  <2>1. stream \in RcStreams /\ listing \in Seq(RcStreams) /\ dateSlots \in Seq(RC!RcSlot)
    BY <1>1 DEF RC!Init
  <2>2. recordings \in [RcStreams -> SUBSET RC!Epochs]
    BY DEF RC!Init
  <2>3. deleting # << >> => deleting[1] \in RcStreams
    BY DEF RC!Init
  <2>. QED  BY <1>2, <2>1, <2>2, <2>3 DEF RC!RcTypes
<1>4. RC!InOrder(dateSlots)
  BY <1>1 DEF RC!Init, RC!InOrder
<1>5. RC!InTime
  BY DEF RC!Init, RC!InTime
<1>6. RC!SlotsAreListed
  <2>1. <<stream>> # << >>
    OBVIOUS
  <2>. QED  BY <2>1 DEF RC!Init, RC!SlotsAreListed
<1>. QED  BY <1>3, <1>4, <1>5, <1>6 DEF RC!IInv

(* A list is asked for: if none was, it is the only one, and nothing is played until it *)
(* comes.                                                                               *)
LEMMA RcAsked ==
  ASSUME RC!IInv, NEW s \in RcStreams, RC!SetupRecording(s), stream' = s,
         UNCHANGED <<dateSlots, motionEvents, manifest, deleting, recordings>>
  PROVE  RC!IInv'
<1>1. /\ listing \in Seq(RcStreams) /\ dateSlots \in Seq(RC!RcSlot)
      /\ recordings \in [RcStreams -> SUBSET RC!Epochs]
      /\ \A r \in RcStreams : RC!IsFiniteSet(recordings[r])
      /\ deleting # << >> => deleting[1] \in RcStreams
  BY DEF RC!IInv, RC!RcTypes
<1>2. listing' \in Seq(RcStreams) /\ listing' # << >> /\ (listing = << >> => listing' = <<s>>)
  <2>1. listing' = Append(listing, s)
    BY DEF RC!SetupRecording
  <2>2. listing' \in Seq(RcStreams) /\ Len(listing') = Len(listing) + 1 /\ Len(listing) \in Nat
    BY <1>1, <2>1, AppendAt
  <2>3. listing' # << >>
    BY <2>2, EmptySeq
  <2>4. ASSUME listing = << >> PROVE listing' = <<s>>
    BY <2>1, <2>4
  <2>. QED  BY <2>2, <2>3, <2>4
<1>3. RC!RcTypes'
  <2>1. \A r \in RcStreams : RC!IsFiniteSet(recordings'[r])
    BY <1>1
  <2>2. (deleting # << >> => deleting[1] \in RcStreams)'
    BY <1>1
  <2>. QED  BY <1>1, <1>2, <2>1, <2>2 DEF RC!RcTypes, RC!RcSlot
<1>4. RC!InOrder(dateSlots)'
  BY DEF RC!IInv, RC!InOrder, RC!OfSlot, RC!Day, RC!DayAndMonth, RC!Range
<1>5. RC!InTime'
  BY <1>2 DEF RC!SetupRecording, RC!InTime
<1>6. RC!SlotsAreListed'
  BY <1>2 DEF RC!SlotsAreListed
<1>. QED  BY <1>3, <1>4, <1>5, <1>6 DEF RC!IInv

(* The slots and what they are of stay, and so does what was found of them. *)
LEMMA RcStays ==
  ASSUME RC!IInv, UNCHANGED <<stream, listing, dateSlots, overtaken, reload, recordings>>,
         deleting' # << >> => deleting'[1] \in RcStreams, RC!InTime'
  PROVE  RC!IInv'
<1>1. RC!RcTypes'
  <2>1. /\ stream \in RcStreams /\ listing \in Seq(RcStreams) /\ dateSlots \in Seq(RC!RcSlot)
        /\ recordings \in [RcStreams -> SUBSET RC!Epochs]
        /\ \A r \in RcStreams : RC!IsFiniteSet(recordings[r])
    BY DEF RC!IInv, RC!RcTypes
  <2>2. \A r \in RcStreams : RC!IsFiniteSet(recordings'[r])
    BY <2>1
  <2>3. (deleting # << >> => deleting[1] \in RcStreams)'
    OBVIOUS
  <2>. QED  BY <2>1, <2>2, <2>3 DEF RC!RcTypes, RC!RcSlot
<1>2. RC!InOrder(dateSlots)'
  BY DEF RC!IInv, RC!InOrder, RC!OfSlot, RC!Day, RC!DayAndMonth, RC!Range
<1>3. RC!SlotsAreListed'
  BY DEF RC!IInv, RC!SlotsAreListed, RC!InSlots, RC!Range
<1>. QED  BY <1>1, <1>2, <1>3 DEF RC!IInv

(* An answer is that to the stream's list, if no list was overtaken. *)
LEMMA RcListed ==
  ASSUME RC!IInv, RC!ListDone
  PROVE  RC!IInv'
<1>. DEFINE Slots(i) == RC!CreateDateSlots(RC!MotionEvents(recordings[listing[i]]))
<1>1. /\ stream \in RcStreams /\ listing \in Seq(RcStreams) /\ dateSlots \in Seq(RC!RcSlot)
      /\ recordings \in [RcStreams -> SUBSET RC!Epochs]
      /\ \A r \in RcStreams : RC!IsFiniteSet(recordings[r])
      /\ deleting # << >> => deleting[1] \in RcStreams
  BY DEF RC!IInv, RC!RcTypes
<1>2. PICK i \in DOMAIN listing : listing' = RC!RemoveAt(listing, i) /\ dateSlots' = Slots(i)
  BY DEF RC!ListDone
<1>3. UNCHANGED <<stream, confirmDelete, deleting, reload, rcDownloading, recordings, overtaken>>
  BY DEF RC!ListDone, RC!buttons
<1>4. \/ dateSlots' # << >> /\ RC!SetSelectorsAndVideoSource(RC!Last(dateSlots').events)
      \/ dateSlots' = << >> /\ UNCHANGED <<motionEvents, manifest, visible>>
  BY DEF RC!ListDone
<1>5. listing' \in Seq(RcStreams) /\ (Len(listing) <= 1 => i = 1 /\ listing' = << >>)
  BY <1>1, <1>2, RemovedAt, OnlyGoes, OfTheLibraries
<1>6. listing[i] \in RcStreams
  BY <1>1, <1>2, LenProperties
<1>7. /\ dateSlots' \in Seq(RC!RcSlot) /\ RC!InOrder(dateSlots')
      /\ \A x : RC!InSlots(dateSlots', x) <=> x \in recordings[listing[i]]
  <2>. DEFINE es == recordings[listing[i]]
  <2>1. es \subseteq RC!Epochs /\ IsFiniteSet(es)
    BY <1>1, <1>6, OfTheLibraries
  <2>2. dateSlots' = RC!CreateDateSlots(RC!MotionEvents(es))
    BY <1>2
  <2>. HIDE DEF es
  <2>3. /\ dateSlots' \in Seq(RC!RcSlot) /\ RC!InOrder(dateSlots')
        /\ \A x : RC!InSlots(dateSlots', x) <=> x \in es
    BY <2>1, <2>2, SlotsOfAnswer
  <2>. QED  BY <2>3 DEF es
<1>8. RC!RcTypes'
  <2>1. \A r \in RcStreams : RC!IsFiniteSet(recordings'[r])
    BY <1>1, <1>3
  <2>2. (deleting # << >> => deleting[1] \in RcStreams)'
    BY <1>1, <1>3
  <2>. QED  BY <1>1, <1>3, <1>5, <1>7, <2>1, <2>2 DEF RC!RcTypes, RC!RcSlot
<1>9. RC!InOrder(dateSlots)'
  BY <1>7 DEF RC!InOrder, RC!OfSlot, RC!Day, RC!DayAndMonth, RC!Range
<1>10. ~overtaken => listing = <<stream>> /\ ~visible
  <2>1. Len(listing) # 0
    BY <1>1, <1>2, LenProperties
  <2>2. listing # << >>
    BY <2>1, EmptySeq
  <2>. QED  BY <2>2 DEF RC!IInv, RC!InTime
<1>11. ~overtaken => i = 1 /\ listing' = << >> /\ listing[i] = stream
  <2>. SUFFICES ASSUME ~overtaken PROVE i = 1 /\ listing' = << >> /\ listing[i] = stream
    OBVIOUS
  <2>1. listing = <<stream>>
    BY <1>10
  <2>2. Len(<<stream>>) = 1
    OBVIOUS
  <2>3. Len(listing) <= 1
    BY <2>1, <2>2
  <2>. QED  BY <1>5, <2>1, <2>3
<1>12. RC!InTime'
  <2>. SUFFICES ASSUME ~overtaken'
                PROVE  /\ listing' # << >> => listing' = <<stream'>> /\ ~visible'
                       /\ visible' =>
                            \E k \in DOMAIN dateSlots' :
                              /\ motionEvents' = dateSlots'[k].events
                              /\ manifest'[1] = stream'
                              /\ manifest'[2] \in RC!Range(motionEvents')
    BY DEF RC!InTime, RC!Range
  <2>1. listing' = << >> /\ ~visible
    BY <1>3, <1>10, <1>11
  <2>2. CASE dateSlots' = << >> /\ UNCHANGED <<motionEvents, manifest, visible>>
    BY <2>1, <2>2
  <2>3. CASE dateSlots' # << >> /\ RC!SetSelectorsAndVideoSource(RC!Last(dateSlots').events)
    <3>. DEFINE k == Len(dateSlots')
                evs == dateSlots'[k].events
    <3>1. k \in DOMAIN dateSlots' /\ evs # << >> /\ evs \in Seq(RC!Epochs)
      <4>1. k \in Nat /\ k # 0 /\ DOMAIN dateSlots' = 1 .. k
            /\ \A j \in 1 .. k : dateSlots'[j] \in RC!RcSlot
        BY <1>7, <2>3, LenProperties, EmptySeq
      <4>2. k \in DOMAIN dateSlots'
        BY <4>1
      <4>. QED  BY <1>7, <4>1, <4>2 DEF RC!InOrder, RC!RcSlot
    <3>2. motionEvents' = evs /\ manifest' = <<stream, RC!Last(evs)>>
      BY <2>3 DEF RC!SetSelectorsAndVideoSource, RC!Last
    <3>. HIDE DEF evs
    <3>3. RC!Last(evs) \in RC!Range(evs)
      <4>1. Len(evs) \in DOMAIN evs
        BY <3>1, LenProperties, EmptySeq
      <4>. QED  BY <4>1 DEF RC!Last, RC!Range
    <3>4. manifest'[1] = stream' /\ manifest'[2] \in RC!Range(motionEvents')
      BY <1>3, <3>2, <3>3
    <3>. QED  BY <2>1, <3>1, <3>2, <3>4 DEF evs
  <2>. QED  BY <1>4, <2>2, <2>3
<1>13. RC!SlotsAreListed'
  <2>. SUFFICES ASSUME ~overtaken',
                       NEW x \in RC!Epochs, RC!InSlots(dateSlots', x)
                PROVE  /\ x \in recordings'[stream']
                       /\ \A y \in recordings'[stream'] : y < x => RC!InSlots(dateSlots', y)
    BY DEF RC!SlotsAreListed, RC!InSlots, RC!Range
  <2>1. \A y : RC!InSlots(dateSlots', y) <=> y \in recordings'[stream']
    BY <1>3, <1>7, <1>11
  <2>. QED  BY <2>1
<1>. QED  BY <1>8, <1>9, <1>12, <1>13 DEF RC!IInv

LEMMA RcStep ==
  ASSUME RC!IInv, RC!Next \/ UNCHANGED rcVars
  PROVE  RC!IInv'
<1>0. /\ stream \in RcStreams /\ listing \in Seq(RcStreams) /\ dateSlots \in Seq(RC!RcSlot)
      /\ recordings \in [RcStreams -> SUBSET RC!Epochs]
      /\ \A r \in RcStreams : RC!IsFiniteSet(recordings[r])
      /\ deleting # << >> => deleting[1] \in RcStreams
  BY DEF RC!IInv, RC!RcTypes
<1>00. /\ RC!InOrder(dateSlots) /\ RC!InTime /\ RC!SlotsAreListed
  BY DEF RC!IInv
<1>1. CASE RC!Navigate
  <2>1. PICK s \in RcStreams : stream' = s /\ RC!SetupRecording(s)
    BY <1>1 DEF RC!Navigate
  <2>2. UNCHANGED <<dateSlots, motionEvents, manifest, deleting, recordings>>
    BY <1>1 DEF RC!Navigate, RC!listed, RC!buttons
  <2>. QED  BY <2>1, <2>2, RcAsked
<1>2. CASE RC!ListDone
  BY <1>2, RcListed
<1>3. CASE RC!ListFailed
  <2>1. PICK i \in DOMAIN listing : listing' = RC!RemoveAt(listing, i)
    BY <1>3 DEF RC!ListFailed
  <2>2. overtaken' /\ UNCHANGED <<stream, dateSlots, deleting, recordings>>
    BY <1>3 DEF RC!ListFailed, RC!listed, RC!buttons
  <2>3. listing' \in Seq(RcStreams)
    BY <1>0, <2>1, RemovedAt, OfTheLibraries
  <2>4. RC!RcTypes'
    <3>1. \A r \in RcStreams : RC!IsFiniteSet(recordings'[r])
      BY <1>0, <2>2
    <3>2. (deleting # << >> => deleting[1] \in RcStreams)'
      BY <1>0, <2>2
    <3>. QED  BY <1>0, <2>2, <2>3, <3>1, <3>2 DEF RC!RcTypes, RC!RcSlot
  <2>5. RC!InOrder(dateSlots)'
    BY <1>00, <2>2 DEF RC!InOrder, RC!OfSlot, RC!Day, RC!DayAndMonth, RC!Range
  <2>6. RC!InTime' /\ RC!SlotsAreListed'
    BY <2>2 DEF RC!InTime, RC!SlotsAreListed
  <2>. QED  BY <2>4, <2>5, <2>6 DEF RC!IInv
<1>4. CASE RC!SetDateSlot
  <2>1. PICK i \in DOMAIN dateSlots : RC!SetSelectorsAndVideoSource(dateSlots[i].events)
    BY <1>4 DEF RC!SetDateSlot
  <2>2. /\ visible
        /\ UNCHANGED <<stream, listing, dateSlots, noVideo, confirmDelete, deleting, reload,
                       recordings, overtaken>>
    BY <1>4 DEF RC!SetDateSlot, RC!buttons
  <2>. DEFINE evs == dateSlots[i].events
  <2>3. evs # << >> /\ evs \in Seq(RC!Epochs)
    <3>1. dateSlots[i] \in RC!RcSlot
      BY <1>0, <2>1, LenProperties
    <3>. QED  BY <1>00, <3>1 DEF RC!InOrder, RC!RcSlot
  <2>4. motionEvents' = evs /\ manifest' = <<stream, RC!Last(evs)>>
    BY <2>1 DEF RC!SetSelectorsAndVideoSource
  <2>5. RC!Last(evs) \in RC!Range(evs)
    <3>. HIDE DEF evs
    <3>1. Len(evs) \in DOMAIN evs
      BY <2>3, LenProperties, EmptySeq
    <3>. QED  BY <3>1 DEF RC!Last, RC!Range
  <2>6. \E k \in DOMAIN dateSlots' :
          /\ motionEvents' = dateSlots'[k].events /\ manifest'[1] = stream'
          /\ manifest'[2] \in RC!Range(motionEvents')
    BY <2>2, <2>4, <2>5
  <2>7. ~overtaken' => listing' = << >>
    BY <1>00, <2>2 DEF RC!InTime
  <2>8. RC!InTime'
    BY <2>6, <2>7 DEF RC!InTime, RC!Range
  <2>. QED  BY <1>0, <2>2, <2>8, RcStays
<1>5. CASE RC!ShowMotionEvent
  <2>1. PICK x \in RC!Range(motionEvents) : manifest' = <<stream, x>>
    BY <1>5 DEF RC!ShowMotionEvent
  <2>2. /\ visible
        /\ UNCHANGED <<stream, listing, dateSlots, motionEvents, visible, noVideo, confirmDelete,
                       deleting, reload, recordings, overtaken>>
    BY <1>5 DEF RC!ShowMotionEvent, RC!buttons
  <2>3. manifest'[1] = stream' /\ manifest'[2] \in RC!Range(motionEvents')
    BY <2>1, <2>2
  <2>4. RC!InTime'
    BY <1>00, <2>2, <2>3 DEF RC!InTime, RC!Range
  <2>. QED  BY <1>0, <2>2, <2>4, RcStays
<1>6. CASE RC!NewRecording
  <2>1. PICK s \in RcStreams, x \in RC!Epochs :
          /\ \A r \in recordings[s] : r < x
          /\ recordings' = [recordings EXCEPT ![s] = @ \cup {x}]
    BY <1>6, TimesAreNumbers DEF RC!NewRecording
  <2>2. UNCHANGED <<stream, listing, dateSlots, motionEvents, manifest, visible, noVideo,
                    confirmDelete, deleting, reload, overtaken>>
    BY <1>6 DEF RC!NewRecording, RC!listed, RC!buttons
  <2>3. recordings' \in [RcStreams -> SUBSET RC!Epochs]
    BY <1>0, <2>1
  <2>4. \A r \in RcStreams : RC!IsFiniteSet(recordings'[r])
    <3>. SUFFICES ASSUME NEW r \in RcStreams PROVE IsFiniteSet(recordings'[r])
      BY OfTheLibraries
    <3>1. IsFiniteSet(recordings[r]) /\ IsFiniteSet(recordings[r] \cup {x})
      BY <1>0, FS_AddElement, OfTheLibraries
    <3>2. recordings'[r] = recordings[r] \/ recordings'[r] = recordings[r] \cup {x}
      BY <1>0, <2>1
    <3>. QED  BY <3>1, <3>2
  <2>5. RC!RcTypes'
    <3>1. (deleting # << >> => deleting[1] \in RcStreams)'
      BY <1>0, <2>2
    <3>. QED  BY <1>0, <2>2, <2>3, <2>4, <3>1 DEF RC!RcTypes, RC!RcSlot
  <2>6. RC!InOrder(dateSlots)'
    BY <1>00, <2>2 DEF RC!InOrder, RC!OfSlot, RC!Day, RC!DayAndMonth, RC!Range
  <2>7. RC!InTime'
    BY <1>00, <2>2 DEF RC!InTime, RC!Range
  <2>8. RC!SlotsAreListed'
    <3>. SUFFICES ASSUME ~overtaken', listing' = << >>, ~reload',
                         NEW f \in RC!Epochs, RC!InSlots(dateSlots', f)
                  PROVE  /\ f \in recordings'[stream']
                         /\ \A y \in recordings'[stream'] : y < f => RC!InSlots(dateSlots', y)
      BY DEF RC!SlotsAreListed, RC!InSlots, RC!Range
    <3>1. /\ f \in recordings[stream]
          /\ \A y \in recordings[stream] : y < f => RC!InSlots(dateSlots, y)
      <4>1. RC!InSlots(dateSlots, f)
        BY <2>2
      <4>2. ~overtaken /\ listing = << >> /\ ~reload
        BY <2>2
      <4>. QED  BY <1>00, <4>1, <4>2 DEF RC!SlotsAreListed
    <3>2. \A y : y \in recordings'[stream] <=>
                   y \in recordings[stream] \/ (s = stream /\ y = x)
      BY <1>0, <2>1
    <3>3. s = stream => ~(x < f)
      <4>. SUFFICES ASSUME s = stream PROVE ~(x < f)
        OBVIOUS
      <4>1. f < x
        BY <2>1, <3>1
      <4>2. f \in Nat /\ x \in Nat
        BY TimesAreNumbers
      <4>. QED  BY <4>1, <4>2
    <3>4. dateSlots' = dateSlots /\ stream' = stream
      BY <2>2
    <3>. QED  BY <3>1, <3>2, <3>3, <3>4
  <2>. QED  BY <2>5, <2>6, <2>7, <2>8 DEF RC!IInv
<1>7. CASE RC!AskDelete \/ RC!Download \/ UNCHANGED rcVars
  <2>1. UNCHANGED <<stream, listing, dateSlots, motionEvents, manifest, visible, deleting,
                    reload, recordings, overtaken>>
    BY <1>7 DEF RC!AskDelete, RC!Download, RC!listed, rcVars
  <2>2. RC!InTime'
    BY <1>00, <2>1 DEF RC!InTime, RC!Range
  <2>. QED  BY <1>0, <2>1, <2>2, RcStays
<1>8. CASE RC!DeleteRecording
  <2>1. deleting' = <<stream, manifest[2]>>
        /\ UNCHANGED <<stream, listing, dateSlots, motionEvents, manifest, visible, reload,
                       recordings, overtaken>>
    BY <1>8 DEF RC!DeleteRecording, RC!listed
  <2>2. RC!InTime'
    BY <1>00, <2>1 DEF RC!InTime, RC!Range
  <2>. QED  BY <1>0, <2>1, <2>2, RcStays
<1>9. CASE RC!DeleteDone
  <2>1. deleting' = << >> /\ UNCHANGED <<stream, listing, dateSlots, motionEvents, manifest,
                                         visible, overtaken>>
    BY <1>9 DEF RC!DeleteDone, RC!listed
  <2>2. RC!InTime'
    BY <1>00, <2>1 DEF RC!InTime, RC!Range
  <2>3. CASE UNCHANGED <<recordings, reload>>
    BY <1>0, <2>1, <2>2, <2>3, RcStays
  <2>4. CASE /\ recordings' = [recordings EXCEPT ![deleting[1]] = @ \ {deleting[2]}]
             /\ reload' = TRUE
    <3>1. deleting[1] \in RcStreams
      BY <1>0, <1>9 DEF RC!DeleteDone
    <3>2. recordings' \in [RcStreams -> SUBSET RC!Epochs]
      BY <1>0, <2>4, <3>1
    <3>3. \A r \in RcStreams : RC!IsFiniteSet(recordings'[r])
      <4>. SUFFICES ASSUME NEW r \in RcStreams PROVE IsFiniteSet(recordings'[r])
        BY OfTheLibraries
      <4>1. IsFiniteSet(recordings[r]) /\ recordings'[r] \subseteq recordings[r]
        BY <1>0, <2>4, OfTheLibraries
      <4>. QED  BY <4>1, FS_Subset
    <3>4. RC!RcTypes'
      <4>1. (deleting # << >> => deleting[1] \in RcStreams)'
        BY <2>1
      <4>. QED  BY <1>0, <2>1, <3>2, <3>3, <4>1 DEF RC!RcTypes, RC!RcSlot
    <3>5. RC!InOrder(dateSlots)'
      BY <1>00, <2>1 DEF RC!InOrder, RC!OfSlot, RC!Day, RC!DayAndMonth, RC!Range
    <3>6. RC!SlotsAreListed'
      BY <2>4 DEF RC!SlotsAreListed
    <3>. QED  BY <2>2, <3>4, <3>5, <3>6 DEF RC!IInv
  <2>. QED  BY <1>9, <2>3, <2>4 DEF RC!DeleteDone
<1>10. CASE RC!Reload
  <2>1. RC!SetupRecording(stream) /\ stream' = stream
        /\ UNCHANGED <<dateSlots, motionEvents, manifest, deleting, recordings>>
    BY <1>10 DEF RC!Reload, RC!listed
  <2>. QED  BY <1>0, <2>1, RcAsked
<1>. QED
  BY <1>1, <1>2, <1>3, <1>4, <1>5, <1>6, <1>7, <1>8, <1>9, <1>10 DEF RC!Next

LEMMA RcHolds ==
  ASSUME RC!IInv
  PROVE  RC!SlotsHoldAll /\ RC!PlaysItsStream
<1>0. dateSlots \in Seq(RC!RcSlot) /\ RC!InOrder(dateSlots) /\ RC!InTime /\ RC!SlotsAreListed
  BY DEF RC!IInv, RC!RcTypes
<1>1. ASSUME NEW i \in DOMAIN dateSlots, NEW j \in DOMAIN dateSlots,
             dateSlots[i].date = dateSlots[j].date
      PROVE  i = j
  <2>1. /\ i \in Int /\ j \in Int /\ dateSlots[i] \in RC!RcSlot /\ dateSlots[j] \in RC!RcSlot
    BY <1>0, LenProperties
  <2>2. dateSlots[i].date \in Nat /\ dateSlots[j].date \in Nat
    BY <2>1 DEF RC!RcSlot
  <2>3. ~(i < j) /\ ~(j < i)
    BY <1>0, <1>1, <2>2 DEF RC!InOrder
  <2>. QED  BY <2>1, <2>3
<1>2. \A i \in DOMAIN dateSlots :
        /\ dateSlots[i].events # << >>
        /\ \A x \in RC!Range(dateSlots[i].events) : RC!OfSlot(x, dateSlots[i].date)
  BY <1>0 DEF RC!InOrder
<1>3. ASSUME ~overtaken, listing = << >>, ~reload, NEW x \in RC!Epochs, NEW f \in RC!Epochs,
             x < f, \E i \in DOMAIN dateSlots : f \in RC!Range(dateSlots[i].events),
             x \in recordings[stream]
      PROVE  \E i \in DOMAIN dateSlots : x \in RC!Range(dateSlots[i].events)
  BY <1>0, <1>3 DEF RC!SlotsAreListed, RC!InSlots
<1>4. RC!SlotsHoldAll
  BY <1>1, <1>2, <1>3 DEF RC!SlotsHoldAll
<1>5. RC!PlaysItsStream
  BY <1>0 DEF RC!InTime, RC!PlaysItsStream
<1>. QED  BY <1>4, <1>5

-----------------------------------------------------------------------------
(* VideoZoom: the picture within its limits, and the finger that moves it. *)

(* What the limits do to an offset. *)
LEMMA WithinViewPort ==
  ASSUME NEW o \in Int, NEW sc \in Nat \ {0}, NEW w \in Nat
  PROVE  /\ VZ!FixWithinViewPort(o, sc, w) \in Int
         /\ VZ!FixWithinViewPort(o, sc, w) <= 0
         /\ VZ!FixWithinViewPort(o, sc, w) + w * sc >= w
         /\ w * (1 - sc) <= o /\ o <= 0 => VZ!FixWithinViewPort(o, sc, w) = o
<1>. DEFINE lower == w * (1 - sc)
<1>1. lower \in Int /\ lower <= 0 /\ lower + w * sc = w
  <2>1. w * (sc - 1) \in Nat
    OBVIOUS
  <2>2. w * (1 - sc) = -(w * (sc - 1)) /\ w * (sc - 1) = w * sc - w
    OBVIOUS
  <2>. QED  BY <2>1, <2>2
<1>2. VZ!FixWithinViewPort(o, sc, w) =
        LET upper == IF o > 0 THEN 0 ELSE o IN IF upper < lower THEN lower ELSE upper
  BY DEF VZ!FixWithinViewPort
<1>3. w * sc \in Int
  OBVIOUS
<1>. HIDE DEF lower
<1>4. \/ VZ!FixWithinViewPort(o, sc, w) = lower
      \/ VZ!FixWithinViewPort(o, sc, w) \in Int /\ VZ!FixWithinViewPort(o, sc, w) <= 0
           /\ lower <= VZ!FixWithinViewPort(o, sc, w)
  BY <1>1, <1>2
<1>5. lower <= o /\ o <= 0 => VZ!FixWithinViewPort(o, sc, w) = o
  BY <1>1, <1>2
<1>. QED  BY <1>1, <1>3, <1>4, <1>5 DEF lower

LEMMA AbsIs ==
  ASSUME NEW n \in Int
  PROVE  VZ!Abs(n) \in Nat /\ (n >= 0 => VZ!Abs(n) = n) /\ (n <= 0 => VZ!Abs(n) = -n)
BY DEF VZ!Abs

(* A picture that is within its limits is moved by no more than was asked. *)
LEMMA MovedByAtMost ==
  ASSUME NEW o \in Int, NEW sc \in Nat \ {0}, NEW w \in Nat, NEW d \in Int,
         o <= 0, o + w * sc >= w
  PROVE  VZ!Abs(VZ!FixWithinViewPort(o + d, sc, w) - o) <= VZ!Abs(d)
<1>. DEFINE lower == w * (1 - sc)
            new_o == VZ!FixWithinViewPort(o + d, sc, w)
<1>1. lower \in Int /\ lower <= o
  <2>1. w * (1 - sc) = w - w * sc /\ w * sc \in Int
    OBVIOUS
  <2>. QED  BY <2>1
<1>2. new_o = LET upper == IF o + d > 0 THEN 0 ELSE o + d
              IN  IF upper < lower THEN lower ELSE upper
  BY DEF VZ!FixWithinViewPort
<1>. HIDE DEF lower, new_o
<1>3. \/ d >= 0 /\ 0 <= new_o - o /\ new_o - o <= d /\ new_o \in Int
      \/ d <= 0 /\ new_o - o <= 0 /\ d <= new_o - o /\ new_o \in Int
  BY <1>1, <1>2
<1>4. VZ!Abs(new_o - o) <= VZ!Abs(d)
  <2>1. new_o - o \in Int
    BY <1>3
  <2>. QED  BY <1>3, <2>1, AbsIs
<1>. QED  BY <1>4 DEF new_o

(* The number of a set, which the module has of its own. *)
LEMMA NumberOf == \A S : VZ!Cardinality(S) = Cardinality(S)
BY DEF VZ!Cardinality, Cardinality

(* How many fingers touch. *)
LEMMA TouchesOf ==
  ASSUME NEW f, DOMAIN f \subseteq Fingers
  PROVE  /\ IsFiniteSet(DOMAIN f) /\ VZ!Touches(f) \in Nat
         /\ \A i \in DOMAIN f : VZ!Touches(f) >= 1
         /\ VZ!Touches(f) = 1 => \A i, j \in DOMAIN f : i = j
         /\ VZ!Touches(f) = 2 =>
              VZ!First(f) \in DOMAIN f /\ VZ!Second(f) \in DOMAIN f
<1>. DEFINE D == DOMAIN f
<1>1. IsFiniteSet(D)
  BY ClientPagesAssumption, FS_Subset
<1>2. Cardinality(D) \in Nat
  BY <1>1, FS_CardinalityType
<1>3. ASSUME NEW i \in D
      PROVE  /\ Cardinality(D \ {i}) = Cardinality(D) - 1 /\ Cardinality(D) >= 1
             /\ IsFiniteSet(D \ {i})
  <2>1. /\ IsFiniteSet(D \ {i})
        /\ Cardinality(D \ {i}) = IF i \in D THEN Cardinality(D) - 1 ELSE Cardinality(D)
    BY <1>1, FS_RemoveElement
  <2>2. Cardinality(D \ {i}) \in Nat
    BY <2>1, FS_CardinalityType
  <2>. QED  BY <1>2, <2>1, <2>2
<1>4. ASSUME Cardinality(D) = 1, NEW i \in D, NEW j \in D
      PROVE  i = j
  <2>1. Cardinality(D \ {i}) = 0 /\ IsFiniteSet(D \ {i})
    BY <1>3, <1>4
  <2>2. D \ {i} = {}
    BY <2>1, FS_EmptySet
  <2>. QED  BY <2>2
<1>5. ASSUME Cardinality(D) = 2
      PROVE  VZ!First(f) \in D /\ VZ!Second(f) \in D
  <2>1. D # {}
    BY <1>5, FS_EmptySet
  <2>2. VZ!First(f) \in D
    BY <2>1 DEF VZ!First
  <2>3. Cardinality(D \ {VZ!First(f)}) = 1
    BY <1>3, <1>5, <2>2
  <2>4. D \ {VZ!First(f)} # {}
    BY <2>3, FS_EmptySet
  <2>5. \E i \in D : i # VZ!First(f)
    BY <2>4
  <2>6. VZ!Second(f) \in D
    BY <2>5 DEF VZ!Second
  <2>. QED  BY <2>2, <2>6
<1>6. VZ!Touches(f) = Cardinality(D)
  BY NumberOf DEF VZ!Touches
<1>. HIDE DEF D
<1>7. /\ IsFiniteSet(D) /\ VZ!Touches(f) \in Nat
      /\ \A i \in D : VZ!Touches(f) >= 1
      /\ VZ!Touches(f) = 1 => \A i, j \in D : i = j
      /\ VZ!Touches(f) = 2 => VZ!First(f) \in D /\ VZ!Second(f) \in D
  BY <1>1, <1>2, <1>3, <1>4, <1>5, <1>6
<1>. QED  BY <1>7 DEF D

LEMMA MiddleAndDistance ==
  ASSUME NEW f, DOMAIN f \subseteq Fingers, f \in [DOMAIN f -> Int],
         VZ!Touches(f) = 2
  PROVE  VZ!Distance(f) \in Int /\ VZ!Middle(f) \in Int
<1>1. VZ!First(f) \in DOMAIN f /\ VZ!Second(f) \in DOMAIN f
  BY TouchesOf
<1>2. f[VZ!First(f)] \in Int /\ f[VZ!Second(f)] \in Int
  BY <1>1
<1>3. VZ!Distance(f) \in Int
  BY <1>2, AbsIs DEF VZ!Distance
<1>4. VZ!Middle(f) \in Int
  BY <1>2 DEF VZ!Middle
<1>. QED  BY <1>3, <1>4

LEMMA ScaleWithinLimits ==
  ASSUME NEW s \in Int
  PROVE  VZ!SetScaleWithinLimits(s) \in 1 .. MaxScale
BY ClientPagesAssumption DEF VZ!SetScaleWithinLimits

(* What is measured is a container, with a width; what was not measured has none. *)
LEMMA ContainersHaveWidth ==
  /\ \A c \in Containers : c.left \in Int /\ c.width \in Nat \ {0}
  /\ VZ!NotMeasured.width = 0 /\ VZ!NotMeasured.left = 0
  /\ \A c \in Containers \cup {VZ!NotMeasured} : c.width \in Nat
BY ClientPagesAssumption DEF VZ!NotMeasured

(* Within the limits of width w. *)
Limited(o, w, sc) == o <= 0 /\ w * (1 - sc) <= o

LEMMA LimitsCover ==
  ASSUME NEW o \in Int, NEW w \in Nat, NEW sc \in Nat \ {0}
  PROVE  /\ Limited(o, w, sc) <=> o <= 0 /\ o + w * sc >= w
         /\ Limited(o, w, sc) /\ sc = 1 => o = 0
<1>1. w * (1 - sc) = w - w * sc /\ w * sc \in Int
  OBVIOUS
<1>2. sc = 1 => w * (1 - sc) = 0
  OBVIOUS
<1>. QED  BY <1>1, <1>2 DEF Limited

(* Zooming, and moving, leave the picture within its limits. *)
LEMMA ZoomedWithin ==
  ASSUME NEW s \in Int, NEW m \in Int, NEW w \in Nat, scale \in 1 .. MaxScale, offset \in Int,
         VZ!ZoomTo(s, m, w)
  PROVE  scale' \in 1 .. MaxScale /\ offset' \in Int /\ Limited(offset', w, scale')
<1>1. scale' \in 1 .. MaxScale
  BY ScaleWithinLimits DEF VZ!ZoomTo
<1>2. VZ!DeltaOffset(scale, scale', m) \in Int
  <2>1. (m - offset) * scale' \in Int /\ scale \in Nat \ {0}
    BY <1>1, ClientPagesAssumption
  <2>2. ((m - offset) * scale') \div scale \in Int
    BY <2>1, QuotientIsBetween
  <2>. QED  BY <2>2 DEF VZ!DeltaOffset
<1>3. offset' = VZ!FixWithinViewPort(offset - VZ!DeltaOffset(scale, scale', m), scale', w)
  BY DEF VZ!ZoomTo
<1>4. offset - VZ!DeltaOffset(scale, scale', m) \in Int /\ scale' \in Nat \ {0}
  BY <1>1, <1>2, ClientPagesAssumption
<1>5. offset' \in Int /\ offset' <= 0 /\ offset' + w * scale' >= w
  BY <1>3, <1>4, WithinViewPort
<1>. QED  BY <1>1, <1>4, <1>5, LimitsCover

LEMMA PannedWithin ==
  ASSUME NEW d \in Int, scale \in 1 .. MaxScale, offset \in Int, measured \in Containers,
         VZ!PanBy(d)
  PROVE  offset' \in Int /\ Limited(offset', measured.width, scale)
<1>1. offset + d \in Int /\ scale \in Nat \ {0} /\ measured.width \in Nat
  BY ClientPagesAssumption, ContainersHaveWidth
<1>2. offset' = VZ!FixWithinViewPort(offset + d, scale, measured.width)
  BY DEF VZ!PanBy
<1>3. offset' \in Int /\ offset' <= 0 /\ offset' + measured.width * scale >= measured.width
  BY <1>1, <1>2, WithinViewPort
<1>. QED  BY <1>1, <1>3, LimitsCover

(* What a step may do to the picture. *)
Shown == /\ scale' \in 1 .. MaxScale /\ offset' \in Int
         /\ measured' \in Containers \cup {VZ!NotMeasured}
         /\ VZ!WithinLimits'

LEMMA ShownIs ==
  ASSUME scale' \in 1 .. MaxScale, offset' \in Int,
         measured' \in Containers \/ (measured' = VZ!NotMeasured /\ scale' = 1),
         Limited(offset', measured'.width, scale')
  PROVE  Shown
BY DEF Shown, VZ!WithinLimits, Limited

LEMMA ZoomShows ==
  ASSUME NEW s, NEW p \in Int, VZ!ZoomTypes, VZ!WithinLimits,
         VZ!Zoom(s, p), measured' \in Containers => s \in Int
  PROVE  /\ measured' \in Containers
         /\ measured' = IF scale = 1 THEN container ELSE measured
         /\ Shown
<1>1. measured' = IF scale = 1 THEN container ELSE measured
  BY DEF VZ!Zoom
<1>2. measured' \in Containers
  BY <1>1 DEF VZ!ZoomTypes, VZ!WithinLimits
<1>3. /\ p - measured'.left \in Int /\ measured'.width \in Nat
      /\ scale \in 1 .. MaxScale /\ offset \in Int
  BY <1>2, ContainersHaveWidth DEF VZ!ZoomTypes
<1>4. VZ!ZoomTo(s, p - measured'.left, measured'.width)
  BY DEF VZ!Zoom
<1>5. scale' \in 1 .. MaxScale /\ offset' \in Int /\ Limited(offset', measured'.width, scale')
  BY <1>2, <1>3, <1>4, ZoomedWithin
<1>. QED  BY <1>1, <1>2, <1>5, ShownIs

LEMMA ResetShows ==
  ASSUME VZ!Reset, container \in Containers
  PROVE  Shown /\ scale' = 1 /\ offset' = 0
<1>1. scale' = 1 /\ offset' = 0 /\ measured' = container
  BY DEF VZ!Reset
<1>2. 1 \in 1 .. MaxScale /\ 0 \in Int /\ container.width \in Nat
  BY ClientPagesAssumption, ContainersHaveWidth
<1>3. Limited(0, container.width, 1)
  BY <1>2 DEF Limited
<1>. QED  BY <1>1, <1>2, <1>3, ShownIs

LEMMA ZoomInit == VZ!Init => VZ!IInv
<1>. SUFFICES ASSUME VZ!Init PROVE VZ!IInv
  OBVIOUS
<1>1. DOMAIN fingers = {} /\ fingers \in [DOMAIN fingers -> Int]
  <2>1. fingers = << >>
    BY DEF VZ!Init
  <2>2. DOMAIN << >> = {}
    BY EmptySeq, LenProperties
  <2>. QED  BY <2>1, <2>2
<1>2. VZ!Touches(fingers) = 0
  <2>1. Cardinality({}) = 0
    BY FS_EmptySet
  <2>. QED  BY <1>1, <2>1, NumberOf DEF VZ!Touches
<1>3. VZ!ZoomTypes
  <2>1. 1 \in 1 .. MaxScale
    BY ClientPagesAssumption
  <2>2. DOMAIN fingers \subseteq Fingers
    BY <1>1
  <2>3. device \in {"mouse", "touch"} /\ tapTimer \in BOOLEAN /\ container \in Containers
    BY DEF VZ!Init
  <2>4. /\ scale \in 1 .. MaxScale /\ offset \in Int
        /\ measured \in Containers \cup {VZ!NotMeasured} /\ pointer \in Int
        /\ currentTouches \in Nat /\ panStart \in Int /\ touchStartDist \in Int
    BY <2>1 DEF VZ!Init
  <2>. QED  BY <1>1, <2>2, <2>3, <2>4 DEF VZ!ZoomTypes
<1>4. VZ!WithinLimits
  <2>1. scale = 1 /\ offset = 0 /\ measured.width = 0
    BY ContainersHaveWidth DEF VZ!Init
  <2>2. 0 * (1 - 1) = 0
    OBVIOUS
  <2>. QED  BY <2>1, <2>2 DEF VZ!WithinLimits
<1>5. VZ!PansFromFinger
  BY <1>2 DEF VZ!Init, VZ!PansFromFinger
<1>. QED  BY <1>3, <1>4, <1>5 DEF VZ!IInv

LEMMA ZoomStep ==
  ASSUME VZ!IInv, VZ!Next \/ UNCHANGED vzVars
  PROVE  VZ!IInv'
<1>. DEFINE D == DOMAIN fingers
<1>0. /\ container \in Containers /\ MaxScale \in Nat \ {0}
      /\ measured \in Containers \cup {VZ!NotMeasured} /\ pointer \in Int
      /\ device \in {"mouse", "touch"} /\ tapTimer \in BOOLEAN
      /\ scale \in 1 .. MaxScale /\ offset \in Int
      /\ D \subseteq Fingers /\ fingers \in [D -> Int]
      /\ currentTouches \in Nat /\ panStart \in Int /\ touchStartDist \in Int
      /\ VZ!ZoomTypes
  BY ClientPagesAssumption DEF VZ!IInv, VZ!ZoomTypes
<1>p. VZ!Positions \subseteq Int
  BY <1>0, ContainersHaveWidth DEF VZ!Positions
<1>1. /\ VZ!WithinLimits
      /\ scale # 1 => measured \in Containers
      /\ Limited(offset, measured.width, scale)
  BY DEF VZ!IInv, VZ!WithinLimits, Limited
<1>2. /\ IsFiniteSet(D) /\ VZ!Touches(fingers) \in Nat
      /\ \A i \in D : VZ!Touches(fingers) >= 1
      /\ VZ!Touches(fingers) = 1 => \A i, j \in D : i = j
      /\ VZ!Touches(fingers) = Cardinality(D)
  BY <1>0, TouchesOf, NumberOf DEF VZ!Touches
<1>3. device = "touch" =>
        /\ currentTouches = 0 \/ VZ!Touches(fingers) <= currentTouches
        /\ currentTouches = 1 /\ scale # 1 => \A i \in D : fingers[i] = panStart
  BY DEF VZ!IInv, VZ!PansFromFinger
<1>v. ASSUME UNCHANGED <<scale, offset, measured>>
      PROVE  Shown
  BY <1>0, <1>1, <1>v DEF Shown, VZ!WithinLimits
<1>4. CASE VZ!MouseWheel
  <2>1. PICK p \in VZ!Positions, turned \in {2 * scale, scale \div 2} :
          VZ!Zoom(turned, p) /\ pointer' = p
    BY <1>4 DEF VZ!MouseWheel
  <2>2. turned \in Int /\ p \in Int
    BY <1>0, <1>p, <2>1
  <2>3. Shown
    BY <1>0, <1>1, <2>1, <2>2, ZoomShows
  <2>4. device = "mouse" /\ UNCHANGED <<device, container, fingers, currentTouches, panStart,
                                        touchStartDist, tapTimer>>
    BY <1>4 DEF VZ!MouseWheel, VZ!gesture
  <2>. QED
    BY <1>0, <2>1, <2>2, <2>3, <2>4 DEF Shown, VZ!IInv, VZ!ZoomTypes, VZ!PansFromFinger
<1>5. CASE VZ!MouseDown
  <2>1. PICK f \in Fingers, p \in VZ!Positions : fingers' = [i \in {f} |-> p] /\ panStart' = p
    BY <1>5 DEF VZ!MouseDown
  <2>2. /\ DOMAIN fingers' \subseteq Fingers
        /\ fingers' \in [DOMAIN fingers' -> Int] /\ panStart' \in Int
    BY <1>p, <2>1
  <2>3. device = "mouse" /\ UNCHANGED <<device, container, scale, offset, measured, pointer,
                                        currentTouches, touchStartDist, tapTimer>>
    BY <1>5 DEF VZ!MouseDown, VZ!view
  <2>. QED
    BY <1>0, <1>v, <2>2, <2>3 DEF Shown, VZ!IInv, VZ!ZoomTypes, VZ!PansFromFinger
<1>6. CASE VZ!MouseMove
  <2>1. PICK p \in VZ!Positions :
          /\ fingers' = [i \in DOMAIN fingers |-> p]
          /\ IF scale # 1 THEN VZ!PanBy(p - panStart) /\ panStart' = p
             ELSE UNCHANGED <<offset, panStart>>
    BY <1>6 DEF VZ!MouseMove
  <2>2. device = "mouse" /\ UNCHANGED <<device, container, scale, measured, pointer,
                                        currentTouches, touchStartDist, tapTimer>>
    BY <1>6 DEF VZ!MouseMove
  <2>3. panStart' \in Int /\ p - panStart \in Int
    BY <1>0, <1>p, <2>1
  <2>4. Shown
    <3>1. CASE scale # 1
      <4>1. offset' \in Int /\ Limited(offset', measured.width, scale)
        BY <1>0, <1>1, <2>1, <2>3, <3>1, PannedWithin
      <4>. QED  BY <1>0, <1>1, <2>2, <3>1, <4>1, ShownIs
    <3>2. CASE scale = 1
      BY <1>v, <2>1, <2>2, <3>2
    <3>. QED  BY <3>1, <3>2
  <2>5. DOMAIN fingers' \subseteq Fingers /\ fingers' \in [DOMAIN fingers' -> Int]
    BY <1>0, <1>p, <2>1
  <2>. QED
    BY <1>0, <2>2, <2>3, <2>4, <2>5 DEF Shown, VZ!IInv, VZ!ZoomTypes, VZ!PansFromFinger
<1>n. DOMAIN << >> = {}
  BY EmptySeq, LenProperties
<1>7. CASE VZ!MouseUp
  <2>1. fingers' = << >>
    BY <1>7 DEF VZ!MouseUp
  <2>2. DOMAIN fingers' \subseteq Fingers /\ fingers' \in [DOMAIN fingers' -> Int]
    BY <1>n, <2>1
  <2>3. device = "mouse" /\ UNCHANGED <<device, container, scale, offset, measured, pointer,
                                        currentTouches, panStart, touchStartDist, tapTimer>>
    BY <1>7 DEF VZ!MouseUp, VZ!view
  <2>. QED
    BY <1>0, <1>v, <2>2, <2>3 DEF Shown, VZ!IInv, VZ!ZoomTypes, VZ!PansFromFinger
<1>8. CASE VZ!TouchStart
  <2>. DEFINE Now(f, p) == [i \in D \cup {f} |-> IF i = f THEN p ELSE fingers[i]]
  <2>1. PICK f \in Fingers \ D, p \in VZ!Positions :
          /\ fingers' = Now(f, p)
          /\ currentTouches' = VZ!Touches(Now(f, p))
          /\ touchStartDist' = IF VZ!Touches(Now(f, p)) = 2 THEN VZ!Distance(Now(f, p))
                               ELSE touchStartDist
          /\ panStart' = IF VZ!Touches(Now(f, p)) = 1 THEN p ELSE panStart
          /\ tapTimer' = IF VZ!Touches(Now(f, p)) = 1 THEN ~tapTimer ELSE tapTimer
          /\ IF \/ VZ!Touches(Now(f, p)) = 2 /\ scale = 1
                \/ VZ!Touches(Now(f, p)) = 1 /\ tapTimer
             THEN VZ!Reset ELSE UNCHANGED VZ!view
    BY <1>8 DEF VZ!TouchStart
  <2>. DEFINE now == Now(f, p)
  <2>2. DOMAIN now = D \cup {f} /\ now \in [D \cup {f} -> Int] /\ now[f] = p
    BY <1>0, <1>p
  <2>3. DOMAIN now \subseteq Fingers /\ now \in [DOMAIN now -> Int]
    BY <1>0, <2>2
  <2>4. /\ fingers' = now /\ currentTouches' = VZ!Touches(now)
        /\ touchStartDist' = (IF VZ!Touches(now) = 2 THEN VZ!Distance(now) ELSE touchStartDist)
        /\ panStart' = (IF VZ!Touches(now) = 1 THEN p ELSE panStart)
        /\ VZ!Reset \/ UNCHANGED <<scale, offset, measured>>
    BY <2>1 DEF VZ!view
  <2>5. tapTimer' \in BOOLEAN
    BY <1>0, <2>1
  <2>6. device = "touch" /\ UNCHANGED <<device, container, pointer>>
    BY <1>8 DEF VZ!TouchStart
  <2>. HIDE DEF now, Now
  <2>7. /\ VZ!Touches(now) \in Nat
        /\ VZ!Touches(now) = 1 => \A i, j \in DOMAIN now : i = j
    BY <2>3, TouchesOf
  <2>8. currentTouches' \in Nat /\ panStart' \in Int
    BY <1>0, <1>p, <2>4, <2>7
  <2>9. touchStartDist' \in Int
    <3>1. CASE VZ!Touches(now) = 2
      BY <2>3, <2>4, <3>1, MiddleAndDistance
    <3>2. CASE VZ!Touches(now) # 2
      BY <1>0, <2>4, <3>2
    <3>. QED  BY <3>1, <3>2
  <2>10. Shown
    BY <1>0, <1>v, <2>4, ResetShows
  <2>11. VZ!ZoomTypes'
    BY <1>0, <2>3, <2>4, <2>5, <2>6, <2>8, <2>9, <2>10 DEF Shown, VZ!ZoomTypes
  <2>12. VZ!PansFromFinger'
    <3>1. ASSUME currentTouches' = 1, NEW i \in DOMAIN now
          PROVE  now[i] = panStart'
      <4>1. i = f
        BY <2>2, <2>4, <2>7, <3>1
      <4>. QED  BY <2>2, <2>4, <3>1, <4>1
    <3>2. VZ!Touches(fingers') = VZ!Touches(now)
      BY <2>4
    <3>. QED  BY <2>4, <2>7, <3>1, <3>2 DEF VZ!PansFromFinger
  <2>. QED  BY <2>10, <2>11, <2>12 DEF Shown, VZ!IInv
<1>9. CASE VZ!TouchMove
  <2>. DEFINE Now(f, p) == [fingers EXCEPT ![f] = p]
              To(g) == scale + ((VZ!Distance(g) - touchStartDist) * 5) \div measured'.width
  <2>1. PICK f \in D, p \in VZ!Positions :
          /\ fingers' = Now(f, p)
          /\ IF VZ!Touches(Now(f, p)) = 2 /\ currentTouches = 2
             THEN /\ VZ!Zoom(To(Now(f, p)), VZ!Middle(Now(f, p)))
                  /\ touchStartDist' = VZ!Distance(Now(f, p)) /\ UNCHANGED panStart
             ELSE IF VZ!Touches(Now(f, p)) = 1 /\ currentTouches = 1 /\ scale # 1
             THEN /\ VZ!PanBy(p - panStart) /\ panStart' = p
                  /\ UNCHANGED <<scale, measured, touchStartDist>>
             ELSE UNCHANGED <<VZ!view, panStart, touchStartDist>>
    BY <1>9 DEF VZ!TouchMove
  <2>. DEFINE now == Now(f, p)
  <2>2. DOMAIN now = D /\ now \in [D -> Int] /\ now[f] = p /\ p \in Int
    BY <1>0, <1>p
  <2>3. VZ!Touches(now) = VZ!Touches(fingers)
    BY <2>2 DEF VZ!Touches
  <2>4. /\ fingers' = now
        /\ \/ /\ VZ!Touches(now) = 2 /\ currentTouches = 2
              /\ VZ!Zoom(To(now), VZ!Middle(now))
              /\ touchStartDist' = VZ!Distance(now) /\ panStart' = panStart
           \/ /\ VZ!Touches(now) = 1 /\ currentTouches = 1 /\ scale # 1
              /\ VZ!PanBy(p - panStart) /\ panStart' = p
              /\ UNCHANGED <<scale, measured, touchStartDist>>
           \/ /\ ~(VZ!Touches(now) = 1 /\ currentTouches = 1 /\ scale # 1)
              /\ UNCHANGED <<scale, offset, measured, panStart, touchStartDist>>
    BY <2>1 DEF VZ!view
  <2>5. device = "touch" /\ UNCHANGED <<device, container, pointer, currentTouches, tapTimer>>
    BY <1>9 DEF VZ!TouchMove
  <2>. HIDE DEF now, Now, To
  <2>6. Shown /\ panStart' \in Int /\ touchStartDist' \in Int
    <3>1. CASE /\ VZ!Touches(now) = 2 /\ currentTouches = 2
               /\ VZ!Zoom(To(now), VZ!Middle(now))
               /\ touchStartDist' = VZ!Distance(now) /\ panStart' = panStart
      <4>1. VZ!Distance(now) \in Int /\ VZ!Middle(now) \in Int
        BY <1>0, <2>2, <3>1, MiddleAndDistance
      <4>2. ASSUME measured' \in Containers PROVE To(now) \in Int
        <5>. DEFINE w == measured'.width
        <5>1. w \in Nat \ {0}
          BY <4>2, ContainersHaveWidth
        <5>. HIDE DEF w
        <5>2. (VZ!Distance(now) - touchStartDist) * 5 \in Int
          BY <1>0, <4>1
        <5>3. ((VZ!Distance(now) - touchStartDist) * 5) \div w \in Int
          BY <5>1, <5>2, QuotientIsBetween
        <5>4. scale + ((VZ!Distance(now) - touchStartDist) * 5) \div w \in Int
          BY <1>0, <5>3
        <5>. QED  BY <5>4 DEF To, w
      <4>3. Shown
        BY <1>0, <1>1, <3>1, <4>1, <4>2, ZoomShows
      <4>. QED  BY <1>0, <3>1, <4>1, <4>3
    <3>2. CASE /\ VZ!Touches(now) = 1 /\ currentTouches = 1 /\ scale # 1
               /\ VZ!PanBy(p - panStart) /\ panStart' = p
               /\ UNCHANGED <<scale, measured, touchStartDist>>
      <4>1. p - panStart \in Int
        BY <1>0, <2>2
      <4>2. offset' \in Int /\ Limited(offset', measured.width, scale)
        BY <1>0, <1>1, <3>2, <4>1, PannedWithin
      <4>3. Shown
        BY <1>0, <1>1, <3>2, <4>2, ShownIs
      <4>. QED  BY <1>0, <2>2, <3>2, <4>3
    <3>3. CASE UNCHANGED <<scale, offset, measured, panStart, touchStartDist>>
      BY <1>0, <1>v, <3>3
    <3>. QED  BY <2>4, <3>1, <3>2, <3>3
  <2>7. VZ!ZoomTypes'
    BY <1>0, <2>2, <2>4, <2>5, <2>6 DEF Shown, VZ!ZoomTypes
  <2>8. VZ!PansFromFinger'
    <3>1. ASSUME currentTouches = 1, scale' # 1, NEW i \in D
          PROVE  now[i] = panStart'
      <4>1. VZ!Touches(now) = 1 /\ i = f
        BY <1>2, <1>3, <2>3, <2>5, <3>1
      <4>2. panStart' = p
        BY <2>4, <3>1, <4>1
      <4>. QED  BY <2>2, <4>1, <4>2
    <3>2. VZ!Touches(fingers') = VZ!Touches(fingers)
      BY <2>3, <2>4
    <3>. QED  BY <1>3, <2>2, <2>4, <2>5, <3>1, <3>2 DEF VZ!PansFromFinger
  <2>. QED  BY <2>6, <2>7, <2>8 DEF Shown, VZ!IInv
<1>10. CASE VZ!TouchEnd
  <2>1. PICK f \in D :
          /\ fingers' = [i \in D \ {f} |-> fingers[i]]
          /\ currentTouches' = IF VZ!Touches(fingers) = 1 THEN 0 ELSE currentTouches
    BY <1>10 DEF VZ!TouchEnd
  <2>2. /\ DOMAIN fingers' = D \ {f} /\ fingers' \in [D \ {f} -> Int]
        /\ \A i \in D \ {f} : fingers'[i] = fingers[i]
    BY <1>0, <2>1
  <2>3. VZ!Touches(fingers') = VZ!Touches(fingers) - 1
    <3>1. Cardinality(D \ {f}) = Cardinality(D) - 1
      BY <1>2, OneMoreOrLess
    <3>2. VZ!Touches(fingers') = Cardinality(DOMAIN fingers')
      BY NumberOf DEF VZ!Touches
    <3>. QED  BY <1>2, <2>2, <3>1, <3>2
  <2>4. device = "touch" /\ UNCHANGED <<device, container, scale, offset, measured, pointer,
                                        panStart, touchStartDist, tapTimer>>
    BY <1>10 DEF VZ!TouchEnd, VZ!view
  <2>5. VZ!ZoomTypes' /\ VZ!WithinLimits'
    <3>1. DOMAIN fingers' \subseteq Fingers /\ fingers' \in [DOMAIN fingers' -> Int]
      BY <1>0, <2>2
    <3>2. currentTouches' \in Nat
      BY <1>0, <2>1
    <3>. QED
      BY <1>0, <1>v, <2>4, <3>1, <3>2 DEF Shown, VZ!ZoomTypes
  <2>6. VZ!PansFromFinger'
    <3>1. CASE currentTouches' = 0
      BY <3>1 DEF VZ!PansFromFinger
    <3>2. CASE currentTouches' # 0
      <4>1. currentTouches' = currentTouches /\ VZ!Touches(fingers) # 1
        BY <2>1, <3>2
      <4>2. VZ!Touches(fingers') <= currentTouches' /\ currentTouches' # 1
        BY <1>0, <1>2, <1>3, <2>3, <2>4, <3>2, <4>1
      <4>. QED  BY <2>4, <4>2 DEF VZ!PansFromFinger
    <3>. QED  BY <3>1, <3>2
  <2>. QED  BY <2>5, <2>6 DEF VZ!IInv
<1>11. CASE VZ!TapTimeout
  <2>1. /\ UNCHANGED <<device, container, scale, offset, measured, pointer, fingers,
                       currentTouches, panStart, touchStartDist>>
        /\ tapTimer' \in BOOLEAN
    BY <1>11 DEF VZ!TapTimeout, VZ!view
  <2>2. VZ!Touches(fingers)' = VZ!Touches(fingers)
    BY <2>1 DEF VZ!Touches
  <2>. QED
    BY <1>0, <1>v, <1>3, <2>1, <2>2 DEF Shown, VZ!IInv, VZ!ZoomTypes, VZ!PansFromFinger
<1>12. CASE VZ!Resize \/ UNCHANGED vzVars
  <2>1. /\ UNCHANGED <<device, scale, offset, measured, pointer, fingers, currentTouches,
                       panStart, touchStartDist, tapTimer>>
        /\ container' \in Containers
    BY <1>0, <1>12 DEF VZ!Resize, VZ!view, VZ!gesture, vzVars
  <2>2. VZ!Touches(fingers)' = VZ!Touches(fingers)
    BY <2>1 DEF VZ!Touches
  <2>. QED
    BY <1>0, <1>v, <1>3, <2>1, <2>2 DEF Shown, VZ!IInv, VZ!ZoomTypes, VZ!PansFromFinger
<1>13. CASE VZ!ResetView
  <2>1. /\ UNCHANGED <<device, container, pointer, fingers, currentTouches, panStart,
                       touchStartDist, tapTimer>>
        /\ VZ!Reset
    BY <1>13 DEF VZ!ResetView, VZ!gesture
  <2>2. VZ!Touches(fingers)' = VZ!Touches(fingers)
    BY <2>1 DEF VZ!Touches
  <2>3. Shown /\ scale' = 1
    BY <1>0, <2>1, ResetShows
  <2>. QED
    BY <1>0, <1>3, <2>1, <2>2, <2>3 DEF Shown, VZ!IInv, VZ!ZoomTypes, VZ!PansFromFinger
<1>14. CASE VZ!OrientationChange
  <2>1. /\ VZ!Reset /\ UNCHANGED <<device, container, pointer>>
        /\ fingers' = << >> \/ fingers' = fingers
        /\ currentTouches' = 0 /\ panStart' = 0 /\ touchStartDist' = 0 /\ tapTimer' = FALSE
    BY <1>14 DEF VZ!OrientationChange
  <2>2. DOMAIN fingers' \subseteq Fingers /\ fingers' \in [DOMAIN fingers' -> Int]
    <3>1. CASE fingers' = << >>
      BY <1>n, <3>1
    <3>2. CASE fingers' = fingers
      BY <1>0, <3>2
    <3>. QED  BY <2>1, <3>1, <3>2
  <2>3. Shown
    BY <1>0, <2>1, ResetShows
  <2>4. VZ!PansFromFinger'
    BY <2>1 DEF VZ!PansFromFinger
  <2>5. VZ!ZoomTypes'
    <3>1. /\ currentTouches' \in Nat /\ panStart' \in Int /\ touchStartDist' \in Int
          /\ device' \in {"mouse", "touch"} /\ container' \in Containers /\ pointer' \in Int
      BY <1>0, <2>1
    <3>2. tapTimer' \in BOOLEAN
      BY <2>1
    <3>. QED  BY <2>2, <2>3, <3>1, <3>2 DEF Shown, VZ!ZoomTypes
  <2>. QED
    BY <2>3, <2>4, <2>5 DEF Shown, VZ!IInv
<1>. QED
  BY <1>4, <1>5, <1>6, <1>7, <1>8, <1>9, <1>10, <1>11, <1>12, <1>13, <1>14 DEF VZ!Next

LEMMA PictureCovers ==
  ASSUME VZ!IInv
  PROVE  VZ!CoversViewPort
<1>1. /\ offset \in Int /\ scale \in Nat \ {0} /\ measured.width \in Nat
      /\ container.width \in Nat
  BY ContainersHaveWidth, ClientPagesAssumption DEF VZ!IInv, VZ!ZoomTypes
<1>2. Limited(offset, measured.width, scale)
  BY DEF VZ!IInv, VZ!WithinLimits, Limited
<1>3. /\ offset <= 0 /\ offset + measured.width * scale >= measured.width
      /\ scale = 1 => offset = 0
  BY <1>1, <1>2, LimitsCover
<1>. QED  BY <1>3 DEF VZ!CoversViewPort

(* The wheel that magnifies never meets a limit: the mouse is over the picture, and what  *)
(* grows there covers the viewport.                                                        *)
LEMMA NeedsNoLimit ==
  ASSUME NEW w \in Nat, NEW m \in 0 .. w, NEW o \in Int, NEW s \in Nat \ {0},
         NEW t \in Nat \ {0}, s < t, o <= 0, o + w * s >= w
  PROVE  LET q == ((m - o) * t) \div s
         IN  q \in Int /\ m - q <= 0 /\ w * (1 - t) <= m - q
<1>. DEFINE x == (m - o) * t
            q == x \div s
            most == m + w * (t - 1)
<1>1. x \in Int /\ most \in Int
  OBVIOUS
<1>2. m * s <= x
  <2>1. m - o \in Nat /\ m \in Nat /\ m <= m - o
    OBVIOUS
  <2>2. m * s <= m * t /\ m * t <= (m - o) * t
    BY <2>1
  <2>3. m * s \in Int /\ m * t \in Int
    OBVIOUS
  <2>. QED  BY <1>1, <2>2, <2>3
<1>3. x <= most * s
  <2>. DEFINE top == m + w * (s - 1)
  <2>1. w * (s - 1) = w * s - w /\ w * s \in Int
    OBVIOUS
  <2>2. m - o <= top /\ top \in Int
    BY <2>1
  <2>3. x <= top * t
    <3>1. (top - (m - o)) * t = top * t - x
      OBVIOUS
    <3>2. top - (m - o) \in Nat
      BY <2>2
    <3>. HIDE DEF top, x
    <3>3. (top - (m - o)) * t \in Nat
      BY <3>2
    <3>. QED  BY <1>1, <2>2, <3>1, <3>3
  <2>4. most * s - top * t = (w - m) * (t - s)
    OBVIOUS
  <2>5. (w - m) * (t - s) \in Nat
    <3>1. w - m \in Nat /\ t - s \in Nat
      OBVIOUS
    <3>. QED  BY <3>1
  <2>. HIDE DEF top, x, most
  <2>6. top * t \in Int /\ most * s \in Int
    BY <1>1, <2>2
  <2>. QED  BY <1>1, <2>3, <2>4, <2>5, <2>6
<1>4. m <= q
  <2>. HIDE DEF x
  <2>. QED  BY <1>1, <1>2, QuotientAtLeast
<1>5. q <= most /\ q \in Int
  <2>. HIDE DEF x, most
  <2>. QED  BY <1>1, <1>3, QuotientAtMost
<1>6. w * (1 - t) = -(w * (t - 1)) /\ w * (t - 1) \in Int
  OBVIOUS
<1>. HIDE DEF q, x
<1>7. q \in Int /\ m - q <= 0 /\ w * (1 - t) <= m - q
  BY <1>4, <1>5, <1>6
<1>. QED  BY <1>7 DEF q, x

(* The zoom about a point of the viewport keeps that point where it is.                  *)
LEMMA ZoomKeepsPoint ==
  ASSUME VZ!IInv, NEW s, NEW m \in 0 .. measured'.width, VZ!ZoomTo(s, m, measured'.width),
         measured' \in Containers, scale = 1 \/ measured' = measured,
         scale' \in 1 .. MaxScale, scale' > scale
  PROVE  (m - offset) * scale' - (m - offset') * scale \in 0 .. scale - 1
<1>. DEFINE w == measured'.width
<1>0. /\ MaxScale \in Nat \ {0} /\ w \in Nat \ {0} /\ measured.width \in Nat
      /\ scale \in Nat \ {0} /\ offset \in Int
  BY ClientPagesAssumption, ContainersHaveWidth DEF VZ!IInv, VZ!ZoomTypes
<1>1. offset <= 0 /\ offset + w * scale >= w
  <2>1. Limited(offset, measured.width, scale)
    BY DEF VZ!IInv, VZ!WithinLimits, Limited
  <2>2. /\ offset <= 0 /\ offset + measured.width * scale >= measured.width
        /\ scale = 1 => offset = 0
    BY <1>0, <2>1, LimitsCover
  <2>3. CASE scale = 1
    BY <1>0, <2>2, <2>3
  <2>4. CASE measured' = measured
    BY <2>2, <2>4
  <2>. QED  BY <2>3, <2>4
<1>2. /\ m \in 0 .. w
      /\ offset' = VZ!FixWithinViewPort(offset - VZ!DeltaOffset(scale, scale', m), scale', w)
  BY DEF VZ!ZoomTo
<1>. HIDE DEF w
<1>. DEFINE q == ((m - offset) * scale') \div scale
<1>6. scale \in Nat \ {0} /\ scale' \in Nat \ {0} /\ scale < scale' /\ w \in Nat
      /\ m \in Int
  BY <1>0, <1>2
<1>7. q \in Int /\ m - q <= 0 /\ w * (1 - scale') <= m - q
  BY <1>0, <1>1, <1>2, <1>6, NeedsNoLimit
<1>8. offset - VZ!DeltaOffset(scale, scale', m) = m - q
  <2>1. VZ!DeltaOffset(scale, scale', m) = q - (m - offset)
    BY DEF VZ!DeltaOffset
  <2>. HIDE DEF q
  <2>. QED  BY <1>0, <1>6, <1>7, <2>1
<1>9. offset' = m - q
  <2>1. offset' = VZ!FixWithinViewPort(m - q, scale', w)
    BY <1>2, <1>8
  <2>. HIDE DEF q
  <2>2. m - q \in Int
    BY <1>6, <1>7
  <2>. QED  BY <1>6, <1>7, <2>1, <2>2, WithinViewPort
<1>10. scale * q <= (m - offset) * scale' /\ (m - offset) * scale' < scale * q + scale
  <2>1. (m - offset) * scale' \in Int
    BY <1>0, <1>6
  <2>. QED  BY <1>6, <2>1, QuotientIsBetween
<1>11. (m - offset) * scale' - (m - offset') * scale \in 0 .. scale - 1
  <2>. DEFINE x == (m - offset) * scale'
  <2>1. x \in Int
    BY <1>0, <1>6
  <2>. HIDE DEF q, x
  <2>2. m - offset' = q /\ q * scale = scale * q /\ scale * q \in Int
    BY <1>0, <1>6, <1>7, <1>9
  <2>3. scale * q <= x /\ x < scale * q + scale
    BY <1>10 DEF x
  <2>4. x - q * scale \in 0 .. scale - 1
    BY <1>6, <2>1, <2>2, <2>3
  <2>. QED  BY <2>2, <2>4 DEF x
<1>. QED  BY <1>11

LEMMA ZoomKeepsFocus ==
  ASSUME VZ!IInv, VZ!Next \/ UNCHANGED vzVars
  PROVE  VZ!KeepsFocus
<1>. DEFINE m == VZ!Focus' - container.left
<1>. SUFFICES ASSUME scale' > scale, measured' = container, m \in 0 .. container.width
              PROVE  (m - offset) * scale' - (m - offset') * scale \in 0 .. scale - 1
  BY DEF VZ!KeepsFocus
<1>0. /\ MaxScale \in Nat \ {0} /\ scale \in 1 .. MaxScale /\ container \in Containers
      /\ container.left \in Int
      /\ DOMAIN fingers \subseteq Fingers /\ fingers \in [DOMAIN fingers -> Int]
      /\ VZ!ZoomTypes
  BY ClientPagesAssumption, ContainersHaveWidth DEF VZ!IInv, VZ!ZoomTypes
<1>1. scale' # scale /\ scale' # 1
  <2>1. scale' \in 1 .. MaxScale
    BY ZoomStep DEF VZ!IInv, VZ!ZoomTypes
  <2>. QED  BY <1>0, <2>1
<1>2. scale' \in 1 .. MaxScale
  BY ZoomStep DEF VZ!IInv, VZ!ZoomTypes
<1>3. ASSUME NEW s, NEW p, VZ!Zoom(s, p), VZ!Focus' = p
      PROVE  (m - offset) * scale' - (m - offset') * scale \in 0 .. scale - 1
  <2>1. measured' = (IF scale = 1 THEN container ELSE measured) /\ m = p - measured'.left
        /\ VZ!ZoomTo(s, p - measured'.left, measured'.width)
    BY <1>3 DEF VZ!Zoom
  <2>2. /\ m \in 0 .. measured'.width /\ VZ!ZoomTo(s, m, measured'.width)
        /\ scale = 1 \/ measured' = measured
    BY <2>1
  <2>. HIDE DEF m
  <2>. QED  BY <1>0, <1>2, <2>2, ZoomKeepsPoint
<1>4. CASE VZ!MouseWheel
  <2>1. PICK p \in VZ!Positions, turned \in {2 * scale, scale \div 2} :
          VZ!Zoom(turned, p) /\ pointer' = p
    BY <1>4 DEF VZ!MouseWheel
  <2>2. VZ!Focus' = p
    BY <1>4, <2>1 DEF VZ!MouseWheel, VZ!Focus
  <2>. QED  BY <1>3, <2>1, <2>2
<1>5. CASE VZ!TouchMove
  <2>1. PICK s, g : VZ!Zoom(s, VZ!Middle(g)) /\ fingers' = g
    <3>1. PICK f \in DOMAIN fingers, p \in VZ!Positions :
            LET now == [fingers EXCEPT ![f] = p]
            IN  /\ fingers' = now
                /\ \/ VZ!Zoom(scale + ((VZ!Distance(now) - touchStartDist) * 5)
                                  \div measured'.width,
                              VZ!Middle(now))
                   \/ scale' = scale
      BY <1>5 DEF VZ!TouchMove, VZ!view
    <3>. QED  BY <1>1, <3>1
  <2>2. VZ!Focus' = VZ!Middle(g)
    <3>1. device' # "mouse"
      BY <1>5 DEF VZ!TouchMove
    <3>2. VZ!Focus' = VZ!Middle(fingers')
      BY <3>1 DEF VZ!Focus, VZ!Middle, VZ!First, VZ!Second
    <3>. QED  BY <2>1, <3>2
  <2>. QED  BY <1>3, <2>1, <2>2
<1>6. ~VZ!MouseDown /\ ~VZ!MouseMove /\ ~VZ!MouseUp
  BY <1>1 DEF VZ!MouseDown, VZ!MouseMove, VZ!MouseUp, VZ!view
<1>7. ~VZ!TouchStart /\ ~VZ!TouchEnd /\ ~VZ!TapTimeout
  BY <1>1 DEF VZ!TouchStart, VZ!TouchEnd, VZ!TapTimeout, VZ!view, VZ!Reset
<1>8. ~VZ!Resize /\ ~VZ!ResetView /\ ~VZ!OrientationChange /\ ~UNCHANGED vzVars
  BY <1>1 DEF VZ!Resize, VZ!ResetView, VZ!OrientationChange, VZ!view, VZ!Reset, vzVars
<1>. HIDE DEF m
<1>. QED  BY <1>4, <1>5, <1>6, <1>7, <1>8 DEF VZ!Next

LEMMA MovesWithFinger ==
  ASSUME VZ!IInv, VZ!Next \/ UNCHANGED vzVars
  PROVE  VZ!FollowsFinger
<1>. DEFINE D == DOMAIN fingers
<1>. SUFFICES ASSUME device = "touch", scale' = scale, DOMAIN fingers' = D,
                     VZ!Touches(fingers) = 1, NEW i \in D
              PROVE  VZ!Abs(offset' - offset) <= VZ!Abs(fingers'[i] - fingers[i])
  BY DEF VZ!FollowsFinger
<1>0. /\ MaxScale \in Nat \ {0} /\ VZ!Positions \subseteq Int
      /\ measured.width \in Nat /\ measured \in Containers \cup {VZ!NotMeasured}
      /\ scale \in 1 .. MaxScale /\ scale \in Nat \ {0} /\ offset \in Int
      /\ D \subseteq Fingers /\ fingers \in [D -> Int]
  BY ClientPagesAssumption, ContainersHaveWidth DEF VZ!IInv, VZ!ZoomTypes, VZ!Positions
<1>1. currentTouches = 1 /\ scale # 1 => fingers[i] = panStart
  BY DEF VZ!IInv, VZ!PansFromFinger
<1>2. /\ \A j \in D : j = i
      /\ offset <= 0 /\ offset + measured.width * scale >= measured.width
      /\ scale = 1 => offset = 0
  <2>1. Limited(offset, measured.width, scale)
    BY DEF VZ!IInv, VZ!WithinLimits, Limited
  <2>. QED  BY <1>0, <2>1, LimitsCover, TouchesOf
<1>3. ASSUME offset' = offset, fingers'[i] \in Int
      PROVE  VZ!Abs(offset' - offset) <= VZ!Abs(fingers'[i] - fingers[i])
  <2>1. fingers[i] \in Int
    BY <1>0
  <2>2. offset' - offset = 0 /\ fingers'[i] - fingers[i] \in Int
    BY <1>0, <1>3, <2>1
  <2>3. VZ!Abs(0) = 0 /\ VZ!Abs(fingers'[i] - fingers[i]) \in Nat
    BY <2>2, AbsIs
  <2>. QED  BY <2>2, <2>3
<1>4. CASE VZ!TouchMove
  <2>. DEFINE Now(f, p) == [fingers EXCEPT ![f] = p]
  <2>1. PICK f \in D, p \in VZ!Positions :
          /\ fingers' = Now(f, p)
          /\ \/ VZ!Touches(Now(f, p)) = 2
             \/ currentTouches = 1 /\ scale # 1 /\ VZ!PanBy(p - panStart)
             \/ offset' = offset
    BY <1>4 DEF VZ!TouchMove, VZ!view
  <2>. DEFINE now == Now(f, p)
  <2>2. DOMAIN now = D /\ now[f] = p /\ i = f /\ p \in Int
    BY <1>0, <1>2
  <2>3. VZ!Touches(now) = 1
    BY <2>2 DEF VZ!Touches
  <2>4. /\ fingers' = now
        /\ \/ currentTouches = 1 /\ scale # 1 /\ VZ!PanBy(p - panStart)
           \/ offset' = offset
    BY <2>1, <2>3
  <2>. HIDE DEF now, Now
  <2>5. fingers'[i] = p /\ p \in Int /\ fingers[i] \in Int
    BY <1>0, <2>2, <2>4
  <2>6. CASE currentTouches = 1 /\ scale # 1 /\ VZ!PanBy(p - panStart)
    <3>1. fingers[i] = panStart
      BY <1>1, <2>6
    <3>2. offset' = VZ!FixWithinViewPort(offset + (p - panStart), scale, measured.width)
      BY <2>6 DEF VZ!PanBy
    <3>3. p - panStart \in Int
      BY <2>5, <3>1
    <3>. QED  BY <1>0, <1>2, <2>5, <3>1, <3>2, <3>3, MovedByAtMost
  <2>. QED  BY <1>3, <2>4, <2>5, <2>6
<1>5. ASSUME UNCHANGED <<offset, fingers>>
      PROVE  VZ!Abs(offset' - offset) <= VZ!Abs(fingers'[i] - fingers[i])
  <2>1. fingers'[i] \in Int
    BY <1>0, <1>5
  <2>. QED  BY <1>3, <1>5, <2>1
<1>6. CASE VZ!TapTimeout \/ VZ!Resize \/ UNCHANGED vzVars
  BY <1>5, <1>6 DEF VZ!TapTimeout, VZ!Resize, VZ!view, VZ!gesture, vzVars
<1>7. CASE VZ!ResetView \/ VZ!OrientationChange
  <2>1. scale' = 1 /\ offset' = 0 /\ fingers' = fingers
    BY <1>7 DEF VZ!ResetView, VZ!OrientationChange, VZ!Reset, VZ!gesture
  <2>. QED  BY <1>2, <1>5, <2>1
<1>8. ~VZ!TouchStart
  <2>. SUFFICES ASSUME VZ!TouchStart PROVE FALSE
    OBVIOUS
  <2>1. PICK f \in Fingers \ D : D \cup {f} = DOMAIN fingers'
    <3>1. PICK f \in Fingers \ D, p \in VZ!Positions :
            fingers' = [j \in D \cup {f} |-> IF j = f THEN p ELSE fingers[j]]
      BY DEF VZ!TouchStart
    <3>. QED  BY <3>1
  <2>. QED  BY <2>1
<1>9. ~VZ!TouchEnd
  <2>. SUFFICES ASSUME VZ!TouchEnd PROVE FALSE
    OBVIOUS
  <2>1. PICK f \in D : fingers' = [j \in D \ {f} |-> fingers[j]]
    BY DEF VZ!TouchEnd
  <2>. QED  BY <2>1
<1>10. ~VZ!MouseWheel /\ ~VZ!MouseDown /\ ~VZ!MouseMove /\ ~VZ!MouseUp
  BY DEF VZ!MouseWheel, VZ!MouseDown, VZ!MouseMove, VZ!MouseUp
<1>. QED
  BY <1>4, <1>6, <1>7, <1>8, <1>9, <1>10 DEF VZ!Next

-----------------------------------------------------------------------------
(* VideoSizing: the picture and what the page leaves it. *)

(* A style is that of what there is, so only VideoSizing's own step can change it. *)
LEMMA SizingStep ==
  ASSUME VS!IInv, VS!Next \/ UNCHANGED vsVars
  PROVE  VS!IInv'
<1>1. CASE VS!Setup
  BY <1>1 DEF VS!Setup, VS!SetVideoSize, VS!IInv
<1>2. CASE VS!ChangeSize
  BY <1>2 DEF VS!ChangeSize, VS!SetVideoSize, VS!IInv
<1>3. CASE VS!Resize
  BY <1>3 DEF VS!Resize, VS!SetVideoSize, VS!IInv
<1>4. CASE VS!PictureComes
  BY <1>4 DEF VS!PictureComes, VS!IInv
<1>5. CASE VS!PlayEventHandler
  <2>1. CASE picture = 0
    BY <1>5, <2>1 DEF VS!PlayEventHandler, VS!IInv
  <2>2. CASE picture # 0
    BY <1>5, <2>2 DEF VS!PlayEventHandler, VS!SetVideoSize, VS!IInv
  <2>. QED  BY <2>1, <2>2
<1>6. CASE UNCHANGED vsVars
  BY <1>6 DEF vsVars, VS!IInv
<1>. QED
  BY <1>1, <1>2, <1>3, <1>4, <1>5, <1>6 DEF VS!Next, VS!Play, VS!BackupTimer

LEMMA SizingInit == VS!Init => VS!IInv
BY DEF VS!Init, VS!IInv

(* By the width: a column is no wider than its share, and the picture in it as high as the *)
(* comparison found.                                                                       *)
LEMMA FitsByWidth ==
  ASSUME NEW w \in Nat, NEW a \in Nat \ {0}, NEW s \in 1 .. 100, NEW less \in Nat,
         NEW room \in Int, NEW most \in Int, most <= w, w - less <= most,
         most * a * s <= room * 100
  PROVE  /\ (w - less) * s <= w * s
         /\ ((w - less) * s * a) \div 100 <= room
<1>1. (w - less) * s <= w * s
  <2>1. w * s - (w - less) * s = less * s /\ less * s \in Nat
    OBVIOUS
  <2>2. w * s \in Int /\ (w - less) * s \in Int
    OBVIOUS
  <2>. QED  BY <2>1, <2>2
<1>2. (w - less) * s * a <= most * a * s
  <2>1. most * a * s - (w - less) * s * a = (most - (w - less)) * (a * s)
    OBVIOUS
  <2>2. most - (w - less) \in Nat /\ a * s \in Nat
    OBVIOUS
  <2>3. (most - (w - less)) * (a * s) \in Nat
    BY <2>2
  <2>4. most * a * s \in Int /\ (w - less) * s * a \in Int
    OBVIOUS
  <2>. QED  BY <2>1, <2>3, <2>4
<1>3. (w - less) * s * a \in Int /\ most * a * s \in Int
  OBVIOUS
<1>4. (w - less) * s * a <= room * 100
  BY <1>2, <1>3
<1>5. ((w - less) * s * a) \div 100 <= room
  <2>1. 100 \in Nat \ {0}
    OBVIOUS
  <2>. QED  BY <1>3, <1>4, <2>1, QuotientAtMost
<1>. QED  BY <1>1, <1>5

(* By the height: the width that goes with it is within what it was compared with. *)
LEMMA FitsByHeight ==
  ASSUME NEW h \in Int, NEW a \in Nat \ {0}, NEW share \in Int, h * 10000 <= share * a
  PROVE  (h * 10000) \div a <= share
<1>1. h * 10000 \in Int
  OBVIOUS
<1>. QED  BY <1>1, QuotientAtMost

LEMMA ShareIsSize ==
  ASSUME NEW w \in Nat, NEW s \in 1 .. 100
  PROVE  VS!AdjustVideoSizeForScreen(w, s) \in 1 .. 100
BY DEF VS!AdjustVideoSizeForScreen

(* The picture is all in view: either way of sizing it leaves the other length room. *)
LEMMA PictureIsInView ==
  ASSUME VS!IInv
  PROVE  VS!PictureFits
<1>. SUFFICES ASSUME picture # 0, aspectRatio = picture, ~(isRecording /\ window.width < 686)
              PROVE  /\ VS!ShownWidth <= window.width
                          * (IF isRecording \/ window.phone THEN 100
                             ELSE VS!AdjustVideoSizeForScreen(window.width, size))
                     /\ VS!ShownHeight <= 100 * (window.height -
                          (IF window.phone THEN 28
                           ELSE 28 + (IF isRecording THEN 220 ELSE 150)))
  BY DEF VS!PictureFits, VS!BordersEtc, VS!RecordingTitleAndControls,
         VS!NavbarTitleAndControls
<1>. DEFINE w == window.width
            h == window.height
            a == picture
            s == VS!AdjustVideoSizeForScreen(w, size)
<1>1. w \in Nat /\ h \in Nat /\ window.phone \in BOOLEAN
  BY ClientPagesAssumption DEF VS!IInv
<1>2. a \in Nat \ {0}
  BY ClientPagesAssumption DEF VS!IInv
<1>3. s \in 1 .. 100
  <2>1. size \in 1 .. 100
    BY ClientPagesAssumption DEF VS!IInv
  <2>. QED  BY <1>1, <2>1, ShareIsSize
<1>4. style = IF isRecording THEN VS!RecordingSize(window, a)
              ELSE VS!LiveAndMultiSize(window, a, s)
  BY DEF VS!IInv, VS!StyleOf
<1>5. ASSUME NEW less \in Int, NEW of \in Int, style = VS!ByWidth(less, of)
      PROVE  /\ VS!ShownWidth = (w - less) * of
             /\ VS!ShownHeight = ((w - less) * of * a) \div 100
  BY <1>5 DEF VS!ByWidth, VS!ShownWidth, VS!ShownHeight
<1>6. ASSUME NEW less \in Int, style = VS!ByHeight(less)
      PROVE  /\ VS!ShownWidth = ((h - less) * 10000) \div a
             /\ VS!ShownHeight = (h - less) * 100
  BY <1>6 DEF VS!ByHeight, VS!ShownWidth, VS!ShownHeight
<1>. HIDE DEF w, h, a, s
<1>7. CASE isRecording /\ window.phone
  <2>1. CASE (h - 28) * 100 > (w - 28) * a
    <3>1. style = VS!ByWidth(408, 100)
      BY <1>4, <1>7, <2>1 DEF w, h, VS!RecordingSize, VS!BordersEtc,
         VS!RecordingSelectionForm
    <3>2. /\ w - 28 \in Int /\ w - 28 <= w /\ w - 408 <= w - 28
          /\ 100 * (h - 28) \in Int /\ 100 \in 1 .. 100 /\ 408 \in Nat
      BY <1>1
    <3>3. (w - 28) * a * 100 <= 100 * (h - 28) * 100
      <4>1. (w - 28) * a \in Int
        BY <1>1, <1>2
      <4>. QED  BY <1>1, <2>1, <4>1
    <3>4. (w - 408) * 100 <= w * 100 /\ ((w - 408) * 100 * a) \div 100 <= 100 * (h - 28)
      BY <1>1, <1>2, <3>2, <3>3, FitsByWidth
    <3>. QED  BY <1>5, <1>7, <3>1, <3>4 DEF w, h
  <2>2. CASE ~((h - 28) * 100 > (w - 28) * a)
    <3>1. style = VS!ByHeight(28)
      BY <1>4, <1>7, <2>2 DEF w, h, VS!RecordingSize, VS!BordersEtc
    <3>2. (h - 28) * 10000 <= w * 100 * a
      <4>1. (w - 28) * a \in Int /\ (w - 28) * a = w * a - 28 * a /\ w * 100 * a = 100 * (w * a)
            /\ w * a \in Int
        BY <1>1, <1>2
      <4>. QED  BY <1>1, <1>2, <2>2, <4>1
    <3>3. ((h - 28) * 10000) \div a <= w * 100
      <4>1. h - 28 \in Int /\ w * 100 \in Int
        BY <1>1
      <4>. QED  BY <1>2, <3>2, <4>1, FitsByHeight
    <3>. QED  BY <1>1, <1>6, <1>7, <3>1, <3>3 DEF w, h
  <2>. QED  BY <2>1, <2>2
<1>8. CASE isRecording /\ ~window.phone
  <2>1. CASE (h - 28 - 220) * 100 > (w - 380 - 28) * a
    <3>1. style = VS!ByWidth(408, 100)
      <4>1. w >= 686
        BY <1>1, <1>8 DEF w
      <4>. QED
        BY <1>4, <1>8, <2>1, <4>1 DEF w, h, VS!RecordingSize, VS!BordersEtc,
           VS!RecordingSelectionForm, VS!RecordingTitleAndControls
    <3>2. /\ w - 408 \in Int /\ w - 408 <= w /\ w - 408 <= w - 408 /\ w - 380 - 28 = w - 408
          /\ 100 * (h - 248) \in Int /\ 100 \in 1 .. 100 /\ 408 \in Nat
      BY <1>1
    <3>3. (w - 408) * a * 100 <= 100 * (h - 248) * 100
      <4>1. (w - 408) * a \in Int /\ (h - 28 - 220) * 100 > (w - 408) * a
        BY <1>1, <1>2, <2>1, <3>2
      <4>. QED  BY <1>1, <4>1
    <3>4. (w - 408) * 100 <= w * 100 /\ ((w - 408) * 100 * a) \div 100 <= 100 * (h - 248)
      BY <1>1, <1>2, <3>2, <3>3, FitsByWidth
    <3>. QED  BY <1>1, <1>5, <1>8, <3>1, <3>4 DEF w, h
  <2>2. CASE ~((h - 28 - 220) * 100 > (w - 380 - 28) * a)
    <3>1. style = VS!ByHeight(248)
      BY <1>4, <1>8, <2>2 DEF w, h, VS!RecordingSize, VS!BordersEtc,
         VS!RecordingSelectionForm, VS!RecordingTitleAndControls
    <3>2. (h - 248) * 10000 <= w * 100 * a
      <4>1. w * a \in Int /\ w * 100 * a = 100 * (w * a) /\ (w - 380 - 28) * a = w * a - 408 * a
        BY <1>1, <1>2
      <4>. QED  BY <1>1, <1>2, <2>2, <4>1
    <3>3. ((h - 248) * 10000) \div a <= w * 100
      <4>1. h - 248 \in Int /\ w * 100 \in Int
        BY <1>1
      <4>. QED  BY <1>2, <3>2, <4>1, FitsByHeight
    <3>. QED  BY <1>1, <1>6, <1>8, <3>1, <3>3 DEF w, h
  <2>. QED  BY <2>1, <2>2
<1>9. CASE ~isRecording /\ window.phone
  <2>1. CASE (h - 28) * 100 > w * a
    <3>1. style = VS!ByWidth(28, s)
      BY <1>4, <1>9, <2>1 DEF w, h, VS!LiveAndMultiSize, VS!BordersEtc
    <3>2. /\ w \in Int /\ w <= w /\ w - 28 <= w /\ 100 * (h - 28) \in Int /\ 28 \in Nat
      BY <1>1
    <3>3. w * a * s <= 100 * (h - 28) * 100
      <4>1. w * a \in Nat
        BY <1>1, <1>2
      <4>2. (w * a) * s <= (w * a) * 100
        BY <1>3, <4>1
      <4>3. (w * a) * s \in Int
        BY <1>3, <4>1
      <4>. QED  BY <1>1, <2>1, <4>1, <4>2, <4>3
    <3>4. (w - 28) * s <= w * s /\ ((w - 28) * s * a) \div 100 <= 100 * (h - 28)
      BY <1>1, <1>2, <1>3, <3>2, <3>3, FitsByWidth
    <3>5. (w - 28) * s <= w * 100
      <4>1. w * s <= w * 100 /\ w * s \in Int /\ (w - 28) * s \in Int
        BY <1>1, <1>3
      <4>. QED  BY <1>1, <3>4, <4>1
    <3>6. s \in Int /\ 28 \in Int
      BY <1>3
    <3>. QED  BY <1>5, <1>9, <3>1, <3>4, <3>5, <3>6 DEF w, h
  <2>2. CASE ~((h - 28) * 100 > w * a)
    <3>1. style = VS!ByHeight(28)
      BY <1>4, <1>9, <2>2 DEF w, h, VS!LiveAndMultiSize, VS!BordersEtc
    <3>2. (h - 28) * 10000 <= w * 100 * a
      <4>1. w * a \in Int /\ w * 100 * a = 100 * (w * a)
        BY <1>1, <1>2
      <4>. QED  BY <1>1, <2>2, <4>1
    <3>3. ((h - 28) * 10000) \div a <= w * 100
      <4>1. h - 28 \in Int /\ w * 100 \in Int
        BY <1>1
      <4>. QED  BY <1>2, <3>2, <4>1, FitsByHeight
    <3>. QED  BY <1>1, <1>6, <1>9, <3>1, <3>3 DEF w, h
  <2>. QED  BY <2>1, <2>2
<1>10. CASE ~isRecording /\ ~window.phone
  <2>1. CASE (h - 28 - 150) * 10000 > w * a * s
    <3>1. style = VS!ByWidth(28, s)
      BY <1>4, <1>10, <2>1 DEF w, h, VS!LiveAndMultiSize, VS!BordersEtc,
         VS!NavbarTitleAndControls
    <3>2. /\ w \in Int /\ w <= w /\ w - 28 <= w /\ 100 * (h - 178) \in Int /\ 28 \in Nat
      BY <1>1
    <3>3. w * a * s <= 100 * (h - 178) * 100
      <4>1. w * a * s \in Int
        BY <1>1, <1>2, <1>3
      <4>. QED  BY <1>1, <2>1, <4>1
    <3>4. (w - 28) * s <= w * s /\ ((w - 28) * s * a) \div 100 <= 100 * (h - 178)
      BY <1>1, <1>2, <1>3, <3>2, <3>3, FitsByWidth
    <3>5. s \in Int /\ 28 \in Int
      BY <1>3
    <3>. QED  BY <1>5, <1>10, <3>1, <3>4, <3>5 DEF w, h, s
  <2>2. CASE ~((h - 28 - 150) * 10000 > w * a * s)
    <3>1. style = VS!ByHeight(178)
      BY <1>4, <1>10, <2>2 DEF w, h, VS!LiveAndMultiSize, VS!BordersEtc,
         VS!NavbarTitleAndControls
    <3>2. (h - 178) * 10000 <= w * s * a
      <4>1. w * a * s = w * s * a /\ w * s * a \in Int
        BY <1>1, <1>2, <1>3
      <4>. QED  BY <1>1, <2>2, <4>1
    <3>3. ((h - 178) * 10000) \div a <= w * s
      <4>1. h - 178 \in Int /\ w * s \in Int
        BY <1>1, <1>3
      <4>. QED  BY <1>2, <3>2, <4>1, FitsByHeight
    <3>. QED  BY <1>1, <1>6, <1>10, <3>1, <3>3 DEF w, h, s
  <2>. QED  BY <2>1, <2>2
<1>. QED  BY <1>1, <1>7, <1>8, <1>9, <1>10 DEF VS!IInv

-----------------------------------------------------------------------------
(* The parts together. *)

(* A part that does not move stays as it is, and so does what was proved of it. *)
PartsInv ==
  /\ PlayerInv /\ PtzInv /\ FormsInv /\ NavInv /\ AdInv
  /\ MvInv /\ CpInv /\ WfInv /\ AhInv /\ ClInv /\ RtInv

(* What is laid out: slots, picture and its size. *)
PlacesInv == RC!IInv /\ VZ!IInv /\ VS!IInv

LEMMA PartsMoveAlone ==
  ASSUME PartNext \/ UNCHANGED pagesVars
  PROVE  /\ RC!Next \/ UNCHANGED rcVars
         /\ VZ!Next \/ UNCHANGED vzVars
         /\ VS!Next \/ UNCHANGED vsVars
         /\ RP!Next \/ UNCHANGED rpVars
         /\ PZ!Next \/ UNCHANGED pzVars
         /\ GU!Next \/ UNCHANGED guVars
         /\ NB!Next \/ UNCHANGED nbVars
         /\ AD!Next \/ UNCHANGED adVars
         /\ MV!Next \/ UNCHANGED mvVars
         /\ CP!Next \/ UNCHANGED cpVars
         /\ WF!Next \/ UNCHANGED wfVars
         /\ AH!Next \/ UNCHANGED ahVars
         /\ CL!Next \/ UNCHANGED clVars
         /\ RT!Next \/ UNCHANGED rtVars
BY Zenon DEF PartNext, pagesVars

LEMMA PartsStep ==
  ASSUME PartsInv, PartNext \/ UNCHANGED pagesVars
  PROVE  PartsInv'
BY PartsMoveAlone, PlayerStep, PtzStep, FormsStep, NavStep, AdStep, MvStep, CpStep, WfStep,
   AhStep, ClStep, RtStep DEF PartsInv

LEMMA PartsStart == PartInit => PartsInv
BY PlayerInit, PtzInit, FormsInit, NavInit, AdInit, MvInit, CpInit, WfInit, AhInit, ClInit,
   RtInit DEF PartInit, PartsInv

(* The pages do what the user did, in whatever order it came: the sound and the speed of   *)
(* the player, the movements and the views of a camera, the passwords, the one account,   *)
(* the options and what a guest is kept from, for any cameras, accounts and tabs.          *)
THEOREM AsAsked == PartSpec => []DoesAsAsked
<1>1. PartInit => PartsInv
  BY PartsStart
<1>2. PartsInv /\ [PartNext]_pagesVars => PartsInv'
  BY PartsStep
<1>3. PartsInv => DoesAsAsked
  BY NothingMoves, FormsTell, AdTells, NavCaches
  DEF PartsInv, PlayerInv, NavInv, PtzInv, DoesAsAsked
<1>. QED  BY <1>1, <1>2, <1>3, PTL DEF PartSpec

(* A page whose answers have come shows what the server has, whatever was clicked, sent   *)
(* and answered before, for any cameras, streams, settings, access points and devices; but *)
(* for what each property of the conjunction excepts: answers that crossed, a last answer  *)
(* that was an error, a stream chosen before its video was set up, rows that were pasted,  *)
(* changed during a save or not known to be saved.                                         *)
THEOREM ShowsAsIs == PartSpec => []ShowsWhatIs
<1>1. PartInit => PartsInv
  BY PartsStart
<1>2. PartsInv /\ [PartNext]_pagesVars => PartsInv'
  BY PartsStep
<1>3. PartsInv => ShowsWhatIs
  BY MvShows, CpKnows, WfNames, AhSaved, ClBoxTells, FormsTell, RtShows
  DEF PartsInv, ShowsWhatIs
<1>. QED  BY <1>1, <1>2, <1>3, PTL DEF PartSpec

LEMMA PlacesStart == PartInit => PlacesInv
BY RcInit, ZoomInit, SizingInit DEF PartInit, PlacesInv

LEMMA PlacesStep ==
  ASSUME PlacesInv, PartNext \/ UNCHANGED pagesVars
  PROVE  /\ PlacesInv'
         /\ VZ!KeepsFocus /\ VZ!FollowsFinger
BY PartsMoveAlone, RcStep, ZoomStep, SizingStep, ZoomKeepsFocus, MovesWithFinger DEF PlacesInv

(* Every recording is in the slot of its date, or with those of the same day of an earlier *)
(* year, in the order of time, and the one that is played among them; the picture covers   *)
(* the container it is measured by, stays under the finger, under the mouse and between    *)
(* two fingers, and fits the window: for any streams, times and lengths of a day and of a  *)
(* year, any containers that change at any time, any scale, any number of fingers, any     *)
(* windows and ratios.                                                                      *)
THEOREM LaidOut == PartSpec => AllInPlace
<1>1. PartInit => PlacesInv
  BY PlacesStart
<1>2. PlacesInv /\ [PartNext]_pagesVars => PlacesInv'
  BY PlacesStep
<1>3. PlacesInv => /\ RC!SlotsHoldAll /\ RC!PlaysItsStream /\ RC!IInv
                   /\ VZ!CoversViewPort /\ VZ!IInv /\ VS!PictureFits /\ VS!IInv
  BY RcHolds, PictureCovers, PictureIsInView DEF PlacesInv
<1>4. PlacesInv /\ [PartNext]_pagesVars =>
        [VZ!KeepsFocus]_(VZ!vzVars) /\ [VZ!FollowsFinger]_(VZ!vzVars)
  BY PlacesStep
<1>. QED
  BY <1>1, <1>2, <1>3, <1>4, PTL
  DEF PartSpec, AllInPlace, VZ!FocusStays, VZ!PictureFollowsFinger

=============================================================================
