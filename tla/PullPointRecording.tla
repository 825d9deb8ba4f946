------------------------- MODULE PullPointRecording -------------------------
(***************************************************************************)
(* Recordings triggered by the pull point events of one camera: the        *)
(* event handler with its sixty second java.util.Timer                     *)
(* (PullPointHandlerContainer.groovy) and the recording service that it    *)
(* asks to start and to end (RecordingService).                            *)
(*                                                                         *)
(* The events come on the subscription's one thread; each timer runs its   *)
(* task on a thread of its own; the field "timer" is shared with no lock.  *)
(* A timer is the number of the "new Timer()" that made it.                *)
(*                                                                         *)
(* Time passes in ticks, between which threads take any number of steps in *)
(* any order: a tick waits for them to be done, but not for an answer of   *)
(* the recording service, nor for the ffmpeg the service waits for.        *)
(* sendRequest returns when the service has answered: the model has no     *)
(* answer that takes longer than its timeout.                              *)
(***************************************************************************)
EXTENDS Integers

CONSTANTS
  RecordingOverrun,  \* recordingOverrun, the sixty seconds, in ticks
  MaxTimers,         \* bound of the model: the number of timers made
  MaxRecordings      \* bound of the model: the number of ffmpegs started

ASSUME PullPointRecordingAssumption ==
  /\ {MaxTimers, MaxRecordings} \subseteq Nat
  /\ RecordingOverrun \in Nat \ {0}

VARIABLES
  timer,     \* the field, 0 for null
  made,      \* number of timers made
  timers,    \* the state of each timer
  left,      \* the ticks each timer has left
  event,     \* where the subscription's thread is in startTimer
  task,      \* where each timer's task is
  overtaken, \* history: a task came to the field while a start was on its way
  \* the variables of the recording service
  recording_procs, launched, ffmpeg, limit, pc, proc

serviceVars == <<recording_procs, launched, ffmpeg, limit, pc, proc>>
triggerVars == <<timer, made, timers, left, event, task, overtaken>>
vars == <<triggerVars, serviceVars>>

Timers == 1 .. MaxTimers
EventThread == 0

(* Each poster waits for its answer, so its requests have a handler each. *)
Service == INSTANCE RecordingService WITH Requests <- Timers \union {EventThread}

Answered(q) == pc[Service!Handler(q)] = "idle"

Init ==
  /\ timer = 0
  /\ made = 0
  /\ timers = [i \in Timers |-> "none"]
  /\ left = [i \in Timers |-> 0]
  /\ event = "idle"
  /\ task = [i \in Timers |-> "idle"]
  /\ overtaken = FALSE
  /\ Service!Init

(* The request to start has been decided on, and is not answered yet. *)
Starting == event = "posting" \/ (event = "posted" /\ ~Answered(EventThread))

-----------------------------------------------------------------------------
(* startTimer, on the topic's positive value. *)

StartTimer ==
  /\ event = "idle"
  /\ event' = IF timer = 0 THEN "creating" ELSE "cancelling"
  /\ UNCHANGED <<timer, made, timers, left, task, overtaken, serviceVars>>

NewTimer(from, to) ==
  /\ event = from
  /\ made < MaxTimers
  /\ made' = made + 1
  /\ timer' = made + 1
  /\ timers' = [timers EXCEPT ![made + 1] = "new"]
  /\ event' = to
  /\ UNCHANGED <<left, task, overtaken, serviceVars>>

Create == NewTimer("creating", "scheduling")

ScheduleOnTooLate(from, to) ==  \* mutant: the delay is a tick too long
  /\ event = from
  /\ IF timer # 0 /\ timers[timer] = "new"
     THEN /\ timers' = [timers EXCEPT ![timer] = "scheduled"]
          /\ left' = [left EXCEPT ![timer] = RecordingOverrun + 1]
          /\ event' = to
          /\ overtaken' = FALSE
     ELSE /\ event' = "idle"
          /\ UNCHANGED <<timers, left, overtaken>>
  /\ UNCHANGED <<timer, made, task, serviceVars>>

ScheduleOnAnyway(from, to) ==  \* mutant: the exception is taken and the start posted
  /\ event = from
  /\ IF timer # 0 /\ timers[timer] = "new"
     THEN /\ timers' = [timers EXCEPT ![timer] = "scheduled"]
          /\ left' = [left EXCEPT ![timer] = RecordingOverrun]
          /\ event' = to
          /\ overtaken' = FALSE
     ELSE /\ event' = to
          /\ UNCHANGED <<timers, left, overtaken>>
  /\ UNCHANGED <<timer, made, task, serviceVars>>

(***************************************************************************)
(* On a field that is null by now, or a timer that is cancelled, schedule  *)
(* throws: startPullMessages takes the exception and subscribes anew.      *)
(***************************************************************************)
ScheduleOn(from, to) ==
  /\ event = from
  /\ IF timer # 0 /\ timers[timer] = "new"
     THEN /\ timers' = [timers EXCEPT ![timer] = "scheduled"]
          /\ left' = [left EXCEPT ![timer] = RecordingOverrun]
          /\ event' = to
          /\ overtaken' = FALSE
     ELSE /\ event' = "idle"
          /\ UNCHANGED <<timers, left, overtaken>>
  /\ UNCHANGED <<timer, made, task, serviceVars>>

Schedule == ScheduleOn("scheduling", "posting")

PostStart ==
  /\ event = "posting"
  /\ Service!Post(EventThread, "start_recording")
  /\ event' = "posted"
  /\ UNCHANGED <<timer, made, timers, left, task, overtaken>>

StartAnswered ==
  /\ event = "posted"
  /\ Answered(EventThread)
  /\ event' = "idle"
  /\ UNCHANGED <<timer, made, timers, left, task, overtaken, serviceVars>>

(* The null pointer of a field cleared by now ends it likewise. *)
CancelOld ==
  /\ event = "cancelling"
  /\ IF timer = 0
     THEN /\ event' = "idle"
          /\ UNCHANGED timers
     ELSE /\ event' = "replacing"
          /\ timers' = [timers EXCEPT ![timer] = "cancelled"]
  /\ UNCHANGED <<timer, made, left, task, overtaken, serviceVars>>

Replace == NewTimer("replacing", "rescheduling")

Reschedule == ScheduleOn("rescheduling", "idle")

(* The monitor is stopped; the timer is not. *)
Terminate ==
  /\ event = "idle"
  /\ event' = "terminated"
  /\ UNCHANGED <<timer, made, timers, left, task, overtaken, serviceVars>>

-----------------------------------------------------------------------------
(* PullPointEventTimerTask.run *)

TimerFires(i) ==
  /\ timers[i] = "scheduled"
  /\ left[i] = 0
  /\ timers' = [timers EXCEPT ![i] = "fired"]
  /\ task' = [task EXCEPT ![i] = "cancelling"]
  /\ UNCHANGED <<timer, made, left, event, overtaken, serviceVars>>

(* It cancels whatever timer the field has; null throws and ends the task. *)
CancelTimer(i) ==
  /\ task[i] = "cancelling"
  /\ IF timer = 0
     THEN /\ task' = [task EXCEPT ![i] = "idle"]
          /\ UNCHANGED <<timers, overtaken>>
     ELSE /\ task' = [task EXCEPT ![i] = "clearing"]
          /\ timers' = [timers EXCEPT ![timer] = "cancelled"]
          /\ overtaken' = (overtaken \/ Starting)
  /\ UNCHANGED <<timer, made, left, event, serviceVars>>

ClearTimerNever(i) ==  \* mutant: the cancelled timer stays in the field
  /\ task[i] = "clearing"
  /\ task' = [task EXCEPT ![i] = "posting"]
  /\ UNCHANGED <<timer, made, timers, left, event, overtaken, serviceVars>>

ClearTimer(i) ==
  /\ task[i] = "clearing"
  /\ timer' = 0
  /\ task' = [task EXCEPT ![i] = "posting"]
  /\ overtaken' = (overtaken \/ Starting)
  /\ UNCHANGED <<made, timers, left, event, serviceVars>>

PostEnd(i) ==
  /\ task[i] = "posting"
  /\ Service!Post(i, "end_recording")
  /\ task' = [task EXCEPT ![i] = "posted"]
  /\ UNCHANGED <<timer, made, timers, left, event, overtaken>>

EndAnswered(i) ==
  /\ task[i] = "posted"
  /\ Answered(i)
  /\ task' = [task EXCEPT ![i] = "idle"]
  /\ UNCHANGED <<timer, made, timers, left, event, overtaken, serviceVars>>

-----------------------------------------------------------------------------
AtRest ==
  /\ event \in {"idle", "posted", "terminated"}
  /\ \A i \in Timers : task[i] \in {"idle", "posted"}
  /\ \A t \in Service!Threads : pc[t] \in {"idle", "waiting"}

Tick ==
  /\ AtRest
  /\ \E i \in Timers : timers[i] = "scheduled"
  /\ \A i \in Timers : timers[i] = "scheduled" => left[i] > 0
  /\ left' = [i \in Timers |-> IF timers[i] = "scheduled" THEN left[i] - 1 ELSE left[i]]
  /\ UNCHANGED <<timer, made, timers, event, task, overtaken, serviceVars>>

Event ==
  StartTimer \/ Create \/ Schedule \/ PostStart \/ StartAnswered
    \/ CancelOld \/ Replace \/ Reschedule \/ Terminate

Task(i) ==
  TimerFires(i) \/ CancelTimer(i) \/ ClearTimer(i) \/ PostEnd(i) \/ EndAnswered(i)

Next ==
  \/ Event
  \/ \E i \in Timers : Task(i)
  \/ Tick
  \/ Service!Serve /\ UNCHANGED triggerVars

Spec == Init /\ [][Next]_vars
-----------------------------------------------------------------------------
(* Properties. *)

(* Every variable has its type. *)
TypeOK ==
  /\ made \in 0 .. MaxTimers
  /\ timer \in 0 .. made
  /\ timers \in [Timers -> {"none", "new", "scheduled", "fired", "cancelled"}]
  /\ left \in [Timers -> 0 .. RecordingOverrun]
  /\ event \in {"idle", "creating", "scheduling", "posting", "posted",
                "cancelling", "replacing", "rescheduling", "terminated"}
  /\ task \in [Timers -> {"idle", "cancelling", "clearing", "posting", "posted"}]
  /\ overtaken \in BOOLEAN
  /\ Service!TypeOK

(***************************************************************************)
(* A timer exists once it is made, the field has the newest one if any, a  *)
(* start makes one for an empty field, and a task runs when its timer has  *)
(* fired.                                                                  *)
(***************************************************************************)
TimersMade ==
  /\ timer \in {0, made}
  /\ event = "creating" => timer = 0
  /\ \A i \in Timers : timers[i] = "none" <=> i > made
  /\ \A i \in Timers : task[i] # "idle" => timers[i] \in {"fired", "cancelled"}

(***************************************************************************)
(* A timer in the field that does not run is in somebody's hands: the      *)
(* event thread is about to schedule it or to replace it, or a task is     *)
(* about to cancel it or to clear the field.                               *)
(***************************************************************************)
DeadTimerIsHeld ==
  timer # 0 =>
    CASE timers[timer] = "new" -> event \in {"scheduling", "rescheduling"}
      [] timers[timer] = "fired" -> task[timer] = "cancelling"
      [] timers[timer] = "cancelled" -> \/ event = "replacing"
                                        \/ \E i \in Timers : task[i] = "clearing"
      [] OTHER -> TRUE

(* Each poster waits for the answer to its own kind of request. *)
OwnRequests ==
  /\ ~Answered(EventThread) =>
       /\ event = "posted"
       /\ pc[Service!Handler(EventThread)] \in {"start_recording", "launching", "launched", "stored"}
  /\ \A i \in Timers : ~Answered(i) =>
       /\ task[i] = "posted"
       /\ pc[Service!Handler(i)] \in {"end_recording", "finishing", "waiting"}

FieldRuns == timer # 0 /\ timers[timer] = "scheduled"

(* A start on its way has its timer in the field, with time left. *)
StartIsTimed == Starting /\ ~overtaken => FieldRuns /\ left[timer] > 0

(* Task i is going to ask for the end of the recording, or has asked. *)
Ending(i) ==
  \/ task[i] = "cancelling" /\ timer # 0
  \/ task[i] \in {"clearing", "posting"}
  \/ ~Answered(i)

Replacing ==
  \/ event = "replacing"
  \/ event = "rescheduling" /\ timer # 0 /\ timers[timer] = "new"

(* A recording underway has its timer, or somebody replaces it or ends it. *)
RecordingIsHeld ==
  recording_procs # 0 /\ ~overtaken =>
    FieldRuns \/ Replacing \/ \E i \in Timers : Ending(i)

(* The inductive invariant: that of the handler, and that of the service. *)
IInv ==
  /\ TypeOK
  /\ TimersMade
  /\ DeadTimerIsHeld
  /\ OwnRequests
  /\ StartIsTimed
  /\ RecordingIsHeld
  /\ Service!IInv

Quiet == event \in {"idle", "terminated"} /\ \A i \in Timers : task[i] = "idle"

(***************************************************************************)
(* The field is never left with a timer that will not fire: when           *)
(* startTimer and the tasks have come to rest, exceptions included, it is  *)
(* null or its timer runs.  (A timer that did not would leave the camera   *)
(* recording after its last event, and terminate does not touch it.)       *)
(***************************************************************************)
NoDeadTimer == Quiet /\ timer # 0 => timers[timer] = "scheduled"

(***************************************************************************)
(* No recording is left to its fifteen minute limit: when all is at rest   *)
(* and the service has an entry, the field's timer runs that will end it.  *)
(* Excepted (overtaken) is a recording whose start was still on its way    *)
(* when another timer's task cancelled the new timer or cleared the field: *)
(* if that task's end is served first, the recording has no timer.         *)
(***************************************************************************)
RecordingIsTimed == Quiet /\ recording_procs # 0 /\ ~overtaken => FieldRuns
=============================================================================
