-------------------------- MODULE RecordingControl --------------------------
(***************************************************************************)
(* The recordings page: the recordings of one stream in slots, one for a   *)
(* day of the year, the one that is played, its deletion and its download  *)
(* (client/src/app/recording-control, motion/motion.service.ts).           *)
(***************************************************************************)
EXTENDS Naturals, Sequences, FiniteSets, SequencesExt

CONSTANTS
  RcStreams,     \* the streams recorded, each of a camera of its own
  TimesOf,       \* of each stream, the times of its recordings
  PerDay,        \* so many of them to a day
  DaysInYear,    \* 365, but for the leap years
  MaxRequests    \* a bound of the model: lists asked for and not answered

VARIABLES
  stream,        \* the stream of the page
  listing,       \* the streams of the lists asked for and not answered
  dateSlots,     \* [date, events]: the date is that of the first recording
  motionEvents,  \* the recordings of the day chosen
  manifest,      \* the recording chosen: its stream and time, or none
  visible, noVideo,
  confirmDelete, deleting, reload, rcDownloading,
  recordings,    \* what the server has of each stream
  overtaken      \* a list was asked for before the last had come, or has failed

rcVars == <<stream, listing, dateSlots, motionEvents, manifest, visible, noVideo,
            confirmDelete, deleting, reload, rcDownloading, recordings, overtaken>>

listed == <<dateSlots, motionEvents, manifest>>
buttons == <<confirmDelete, deleting, reload, rcDownloading>>

Epochs == UNION {TimesOf[s] : s \in RcStreams}
Day(e) == e \div PerDay

\* What is compared of two days: the first six letters of a date have no year.
DayAndMonth(day) == day % DaysInYear
NoManifest == << >>

\* getMotionEvents: in the order of their times.
MotionEvents(es) ==
  CHOOSE q \in [1 .. Cardinality(es) -> es] :
    Range(q) = es /\ \A i, j \in DOMAIN q : i < j => q[i] < q[j]

InLastSlot(slots, e) ==
  slots # << >> /\ DayAndMonth(Last(slots).date) = DayAndMonth(Day(e))

\* Mutant: of a day, only the first.
SlottedFirst(slots, e) ==
  IF InLastSlot(slots, e) THEN slots
  ELSE Append(slots, [date |-> Day(e), events |-> <<e>>])

\* A new slot where the day and the month are not those of the slot before.
Slotted(slots, e) ==
  IF InLastSlot(slots, e)
  THEN [slots EXCEPT ![Len(slots)].events = Append(@, e)]
  ELSE Append(slots, [date |-> Day(e), events |-> <<e>>])

\* The slots of the first n of the recordings, and of all.
DateSlots(events) ==
  LET slots[n \in 0 .. Len(events)] ==
        IF n = 0 THEN << >> ELSE Slotted(slots[n - 1], events[n])
  IN  slots
CreateDateSlots(events) == DateSlots(events)[Len(events)]

-----------------------------------------------------------------------------
(* The list *)

\* setSelectorsAndVideoSource: the latest of the day.
SetSelectorsAndVideoSource(events) ==
  /\ motionEvents' = events
  /\ manifest' = <<stream, Last(events)>>
  /\ visible' = TRUE

SetupRecording(s) ==
  /\ Len(listing) < MaxRequests
  /\ listing' = Append(listing, s)
  /\ overtaken' = (listing # << >>)
  /\ visible' = FALSE /\ noVideo' = FALSE

\* Mutant: going to another stream does not ask for its recordings.
NavigateSilently ==
  /\ \E s \in RcStreams \ {stream} : stream' = s
  /\ UNCHANGED <<listing, listed, visible, noVideo, buttons, recordings, overtaken>>

\* The route's parameter, set by the menu.
Navigate ==
  /\ \E s \in RcStreams \ {stream} : stream' = s /\ SetupRecording(s)
  /\ UNCHANGED <<listed, buttons, recordings>>

\* An answer is taken whatever stream the page has by now.
ListDone ==
  /\ \E i \in DOMAIN listing :
       /\ listing' = RemoveAt(listing, i)
       /\ dateSlots' = CreateDateSlots(MotionEvents(recordings[listing[i]]))
  /\ IF dateSlots' # << >>
     THEN SetSelectorsAndVideoSource(Last(dateSlots').events) /\ UNCHANGED noVideo
     ELSE noVideo' = TRUE /\ UNCHANGED <<motionEvents, manifest, visible>>
  /\ UNCHANGED <<stream, buttons, recordings, overtaken>>

ListFailed ==
  /\ \E i \in DOMAIN listing : listing' = RemoveAt(listing, i)
  /\ overtaken' = TRUE
  /\ UNCHANGED <<stream, listed, visible, noVideo, buttons, recordings>>

\* The date picker offers the dates of the slots (dateFilter).
SetDateSlot ==
  /\ visible
  /\ \E i \in DOMAIN dateSlots : SetSelectorsAndVideoSource(dateSlots[i].events)
  /\ UNCHANGED <<stream, listing, dateSlots, noVideo, buttons, recordings, overtaken>>

ShowMotionEvent ==
  /\ visible
  /\ \E e \in Range(motionEvents) : manifest' = <<stream, e>>
  /\ UNCHANGED <<stream, listing, dateSlots, motionEvents, visible, noVideo, buttons,
                 recordings, overtaken>>

\* The server records.
NewRecording ==
  /\ \E s \in RcStreams : \E e \in TimesOf[s] :
       /\ \A r \in recordings[s] : r < e
       /\ recordings' = [recordings EXCEPT ![s] = @ \cup {e}]
  /\ UNCHANGED <<stream, listing, listed, visible, noVideo, buttons, overtaken>>

-----------------------------------------------------------------------------
(* Deletion and download *)

AskDelete ==
  /\ visible /\ ~rcDownloading /\ confirmDelete' = ~confirmDelete
  /\ UNCHANGED <<stream, listing, listed, visible, noVideo, deleting, reload,
                 rcDownloading, recordings, overtaken>>

\* Of the stream of the page, by the name of the recording chosen.
DeleteRecording ==
  /\ visible /\ confirmDelete /\ ~rcDownloading /\ deleting = << >>
  /\ confirmDelete' = FALSE
  /\ deleting' = <<stream, manifest[2]>>
  /\ UNCHANGED <<stream, listing, listed, visible, noVideo, reload, rcDownloading,
                 recordings, overtaken>>

DeleteDone ==
  /\ deleting # << >>
  /\ deleting' = << >>
  /\ \/ /\ recordings' = [recordings EXCEPT ![deleting[1]] = @ \ {deleting[2]}]
        /\ reload' = TRUE
     \/ UNCHANGED <<recordings, reload>>
  /\ UNCHANGED <<stream, listing, listed, visible, noVideo, confirmDelete,
                 rcDownloading, overtaken>>

\* Two seconds after.
Reload ==
  /\ reload /\ reload' = FALSE
  /\ SetupRecording(stream)
  /\ UNCHANGED <<stream, listed, confirmDelete, deleting, rcDownloading, recordings>>

\* downloadRecording; an error without a body leaves downloading set.
Download ==
  /\ \/ visible /\ ~confirmDelete /\ ~rcDownloading /\ rcDownloading' = TRUE
     \/ rcDownloading /\ rcDownloading' = FALSE
  /\ UNCHANGED <<stream, listing, listed, visible, noVideo, confirmDelete, deleting,
                 reload, recordings, overtaken>>

-----------------------------------------------------------------------------

Init ==
  /\ stream \in RcStreams
  /\ listing = <<stream>>
  /\ dateSlots = << >> /\ motionEvents = << >> /\ manifest = NoManifest
  /\ visible = FALSE /\ noVideo = FALSE
  /\ confirmDelete = FALSE /\ deleting = << >> /\ reload = FALSE
  /\ rcDownloading = FALSE
  /\ recordings = [s \in RcStreams |-> {}]
  /\ overtaken = FALSE

Next ==
  \/ Navigate \/ ListDone \/ ListFailed \/ SetDateSlot \/ ShowMotionEvent
  \/ NewRecording \/ AskDelete \/ DeleteRecording \/ DeleteDone \/ Reload
  \/ Download

-----------------------------------------------------------------------------

\* A recording of a slot: of its date, or of the same day of a later year.
OfSlot(e, date) == Day(e) >= date /\ DayAndMonth(Day(e)) = DayAndMonth(date)

\* Every recording of a list can be reached, by the date picker that looks for a slot by its
\* date: no two slots have the same, and a recording is in the slot of its date, but for
\* one of the same day and month of a later year with no other day's between, which shares
\* the slot of the earlier year.  A list that has come, and that no other overtook and no
\* error replaced (overtaken), leaves none out that is earlier than one it has.
SlotsHoldAll ==
  /\ \A i, j \in DOMAIN dateSlots : dateSlots[i].date = dateSlots[j].date => i = j
  /\ \A i \in DOMAIN dateSlots :
       /\ dateSlots[i].events # << >>
       /\ \A e \in Range(dateSlots[i].events) : OfSlot(e, dateSlots[i].date)
  /\ ~overtaken /\ listing = << >> /\ ~reload /\ deleting = << >> =>
       \A e \in Epochs : \A f \in Epochs :
         (e < f /\ \E i \in DOMAIN dateSlots : f \in Range(dateSlots[i].events)
            /\ e \in recordings[stream]) =>
           \E i \in DOMAIN dateSlots : e \in Range(dateSlots[i].events)

\* What is played, and would be deleted, is a recording that was listed for the stream
\* of the page, if every list came before the next was asked for.
PlaysItsStream ==
  (visible /\ ~overtaken /\ listing = << >>) =>
    /\ manifest[1] = stream
    /\ \E i \in DOMAIN dateSlots : manifest[2] \in Range(dateSlots[i].events)

-----------------------------------------------------------------------------
\* Why they hold.  Slots are in the order of their dates and have recordings of them.
RcSlot == [date : Nat, events : Seq(Epochs)]
InOrder(slots) ==
  /\ \A i, j \in DOMAIN slots : i < j => slots[i].date < slots[j].date
  /\ \A i \in DOMAIN slots :
       /\ slots[i].events # << >>
       /\ \A e \in Range(slots[i].events) : OfSlot(e, slots[i].date)
InSlots(slots, e) == \E i \in DOMAIN slots : e \in Range(slots[i].events)

RcTypes ==
  /\ stream \in RcStreams /\ listing \in Seq(RcStreams) /\ dateSlots \in Seq(RcSlot)
  /\ recordings \in [RcStreams -> SUBSET Epochs]
  /\ \A s \in RcStreams : IsFiniteSet(recordings[s])
  /\ deleting # << >> => deleting[1] \in RcStreams

\* Until a list is overtaken, the one that is awaited is the stream's, and nothing is
\* played meanwhile; what is played is of the list that was shown last.
InTime ==
  ~overtaken =>
    /\ listing # << >> => listing = <<stream>> /\ ~visible
    /\ visible =>
         \E i \in DOMAIN dateSlots :
           /\ motionEvents = dateSlots[i].events
           /\ manifest[1] = stream /\ manifest[2] \in Range(motionEvents)

\* Since the list came, the server has only got later recordings.
SlotsAreListed ==
  ~overtaken /\ listing = << >> /\ ~reload =>
    \A f \in Epochs : InSlots(dateSlots, f) =>
      /\ f \in recordings[stream]
      /\ \A e \in recordings[stream] : e < f => InSlots(dateSlots, e)

IInv == RcTypes /\ InOrder(dateSlots) /\ InTime /\ SlotsAreListed

=============================================================================
