---------------------- MODULE RecordingTriggersProofs ----------------------
(***************************************************************************)
(* What holds of the two triggers from outside, pull point events and FTP  *)
(* uploads (at the end).                                                   *)
(*                                                                         *)
(* What holds of the recordings that pull point events trigger, for any    *)
(* overrun and any number of timers and recordings.  What the recording    *)
(* service guarantees on its own holds here, because the handler does      *)
(* nothing to it but post requests: the service's theorem is used as it    *)
(* stands, with a request for each timer and one for the event thread.     *)
(***************************************************************************)
EXTENDS PullPointRecording, FtpRecording, TLAPS

ServiceProofs ==
  INSTANCE RecordingServiceProofs WITH Requests <- Timers \union {EventThread}

-----------------------------------------------------------------------------
(***************************************************************************)
(* The instance that has the theorems is the instance of the model.        *)
(***************************************************************************)
LEMMA SameService ==
  /\ Service!Init <=> ServiceProofs!Init
  /\ \A q \in Timers \union {EventThread} :
       \A command \in {"start_recording", "end_recording"} :
         Service!Post(q, command) <=> ServiceProofs!Post(q, command)
  /\ Service!Serve <=> ServiceProofs!Serve
  /\ Service!IInv <=> ServiceProofs!IInv
<1>1. Service!Init <=> ServiceProofs!Init
  BY DEF Service!Init, ServiceProofs!Init, Service!Handler, ServiceProofs!Handler,
         Service!Limit, ServiceProofs!Limit, Service!Threads,
         ServiceProofs!Threads, Service!Recordings, ServiceProofs!Recordings
<1>2. \A q, command : Service!Post(q, command) <=> ServiceProofs!Post(q, command)
  BY DEF Service!Post, ServiceProofs!Post, Service!Goes, ServiceProofs!Goes,
         Service!Handler, ServiceProofs!Handler
<1>3. Service!Serve <=> ServiceProofs!Serve
  BY DEF Service!Serve, ServiceProofs!Serve, Service!Handles, ServiceProofs!Handles,
         Service!CheckNotUnderway, ServiceProofs!CheckNotUnderway,
         Service!Launch, ServiceProofs!Launch, Service!Store,
         ServiceProofs!Store, Service!StartLimit, ServiceProofs!StartLimit,
         Service!CheckUnderway, ServiceProofs!CheckUnderway,
         Service!LimitFires, ServiceProofs!LimitFires, Service!FfmpegExits,
         ServiceProofs!FfmpegExits, Service!Interrupt,
         ServiceProofs!Interrupt, Service!Pop, ServiceProofs!Pop,
         Service!Goes, ServiceProofs!Goes, Service!Handler,
         ServiceProofs!Handler, Service!Limit, ServiceProofs!Limit,
         Service!Threads, ServiceProofs!Threads, Service!Recordings,
         ServiceProofs!Recordings
<1>4. Service!IInv <=> ServiceProofs!IInv
  BY DEF Service!IInv, ServiceProofs!IInv, Service!TypeOK, ServiceProofs!TypeOK,
         Service!LaunchedOnce, ServiceProofs!LaunchedOnce,
         Service!EntryHasLimit, ServiceProofs!EntryHasLimit,
         Service!Bringing, ServiceProofs!Bringing, Service!Clearing,
         ServiceProofs!Clearing, Service!Steps, ServiceProofs!Steps,
         Service!Handler, ServiceProofs!Handler, Service!Limit,
         ServiceProofs!Limit, Service!Threads, ServiceProofs!Threads,
         Service!Recordings, ServiceProofs!Recordings
<1>. QED  BY <1>1, <1>2, <1>3, <1>4

(* A step of the handler is one of the service, or none that it sees. *)
LEMMA StepOfService ==
  ASSUME [Next]_vars
  PROVE  [ServiceProofs!Next]_(ServiceProofs!vars)
<1>1. ASSUME NEW q \in Timers \union {EventThread},
             NEW command \in {"start_recording", "end_recording"},
             Service!Post(q, command)
      PROVE  ServiceProofs!Next
  BY <1>1, SameService DEF ServiceProofs!Next
<1>2. ASSUME Service!Serve PROVE ServiceProofs!Next
  BY <1>2, SameService DEF ServiceProofs!Next
<1>3. ASSUME UNCHANGED serviceVars PROVE UNCHANGED ServiceProofs!vars
  BY <1>3 DEF serviceVars, ServiceProofs!vars
<1>4. CASE Service!Serve
  BY <1>2, <1>4
<1>5. ASSUME NEW i \in Timers, PostEnd(i) PROVE ServiceProofs!Next
  BY <1>1, <1>5 DEF PostEnd
<1>6. CASE PostStart
  BY <1>1, <1>6 DEF PostStart
<1>7. CASE \/ StartTimer \/ Create \/ Schedule \/ StartAnswered
           \/ CancelOld \/ Replace \/ Reschedule \/ Terminate \/ Tick
           \/ \E i \in Timers :
                TimerFires(i) \/ CancelTimer(i) \/ ClearTimer(i) \/ EndAnswered(i)
           \/ UNCHANGED vars
  <2>1. UNCHANGED serviceVars
    BY <1>7 DEF StartTimer, Create, NewTimer, Schedule, ScheduleOn, StartAnswered,
                CancelOld, Replace, Reschedule, Terminate, Tick, TimerFires,
                CancelTimer, ClearTimer, EndAnswered, vars
  <2>. QED  BY <1>3, <2>1
<1>. QED  BY <1>4, <1>5, <1>6, <1>7 DEF Next, Event, Task

(***************************************************************************)
(* Under the handler the service behaves as it does under any requests.    *)
(***************************************************************************)
THEOREM ServiceAsSpecified == Spec => ServiceProofs!Spec
<1>1. Init => ServiceProofs!Init
  BY SameService DEF Init
<1>2. [Next]_vars => [ServiceProofs!Next]_(ServiceProofs!vars)
  BY StepOfService
<1>. QED  BY <1>1, <1>2, PTL DEF Spec, ServiceProofs!Spec

(* So its invariant holds, and no camera is locked out by pull point events. *)
THEOREM ServiceInvariance == Spec => []Service!IInv
<1>1. MaxRecordings \in Nat
  BY PullPointRecordingAssumption
<1>2. ServiceProofs!Spec => []ServiceProofs!IInv
  BY <1>1, ServiceProofs!Invariance
<1>3. ServiceProofs!IInv <=> Service!IInv
  BY SameService
<1>. QED  BY <1>2, <1>3, ServiceAsSpecified, PTL

-----------------------------------------------------------------------------
(* The handler's own invariant. *)

(* The part of it that is not the service's. *)
HandlerInv ==
  /\ made \in 0 .. MaxTimers
  /\ timer \in 0 .. made
  /\ timers \in [Timers -> {"none", "new", "scheduled", "fired", "cancelled"}]
  /\ left \in [Timers -> 0 .. RecordingOverrun]
  /\ event \in {"idle", "creating", "scheduling", "posting", "posted",
                "cancelling", "replacing", "rescheduling", "terminated"}
  /\ task \in [Timers -> {"idle", "cancelling", "clearing", "posting", "posted"}]
  /\ TimersMade
  /\ DeadTimerIsHeld

(* The timer in the field is one that has been made. *)
LEMMA FieldMade ==
  ASSUME HandlerInv
  PROVE  /\ made \in Nat /\ timer \in Nat
         /\ timer # 0 => timer \in Timers /\ timer = made /\ timers[timer] # "none"
BY PullPointRecordingAssumption DEF HandlerInv, TimersMade, Timers

LEMMA InitHandler == Init => HandlerInv
BY PullPointRecordingAssumption
   DEF Init, HandlerInv, TimersMade, DeadTimerIsHeld, Timers

(* A new timer is in the field, and the event thread goes on to schedule it. *)
LEMMA NewTimerInv ==
  ASSUME HandlerInv, Create \/ Replace
  PROVE  HandlerInv'
<1>1. /\ made < MaxTimers /\ made' = made + 1 /\ timer' = made + 1
      /\ timers' = [timers EXCEPT ![made + 1] = "new"]
      /\ event' \in {"scheduling", "rescheduling"}
      /\ UNCHANGED <<left, task>>
  BY DEF Create, Replace, NewTimer
<1>2. made + 1 \in Timers /\ made \in Nat /\ MaxTimers \in Nat
  BY <1>1, FieldMade, PullPointRecordingAssumption DEF Timers, HandlerInv
<1>3. TimersMade'
  BY <1>1, <1>2 DEF HandlerInv, TimersMade, Timers
<1>4. DeadTimerIsHeld'
  BY <1>1, <1>2 DEF HandlerInv, DeadTimerIsHeld
<1>. QED  BY <1>1, <1>2, <1>3, <1>4 DEF HandlerInv

(* Scheduling the timer in the field, or the exception of doing so. *)
LEMMA ScheduleInv ==
  ASSUME HandlerInv, Schedule \/ Reschedule
  PROVE  HandlerInv'
<1>1. /\ event \in {"scheduling", "rescheduling"} /\ event' \in {"posting", "idle"}
      /\ UNCHANGED <<timer, made, task>>
      /\ IF timer # 0 /\ timers[timer] = "new"
         THEN /\ timers' = [timers EXCEPT ![timer] = "scheduled"]
              /\ left' = [left EXCEPT ![timer] = RecordingOverrun]
         ELSE UNCHANGED <<timers, left>>
  BY DEF Schedule, Reschedule, ScheduleOn
<1>2. RecordingOverrun \in 0 .. RecordingOverrun
  BY PullPointRecordingAssumption
<1>3. TimersMade'
  BY <1>1, FieldMade DEF HandlerInv, TimersMade
<1>4. DeadTimerIsHeld'
  BY <1>1, FieldMade DEF HandlerInv, DeadTimerIsHeld
<1>. QED  BY <1>1, <1>2, <1>3, <1>4, FieldMade DEF HandlerInv

(***************************************************************************)
(* The timer in the field is cancelled, by the event thread, which goes on *)
(* to replace it, or by a task, which goes on to clear the field.          *)
(***************************************************************************)
LEMMA CancelInv ==
  ASSUME HandlerInv, CancelOld \/ \E i \in Timers : CancelTimer(i)
  PROVE  HandlerInv'
<1>1. /\ UNCHANGED <<timer, made, left>>
      /\ timers' = IF timer = 0 THEN timers ELSE [timers EXCEPT ![timer] = "cancelled"]
  BY DEF CancelOld, CancelTimer
<1>2. TimersMade'
  <2>1. \A j \in Timers : task'[j] # "idle" => task[j] # "idle"
    BY DEF CancelOld, CancelTimer, HandlerInv
  <2>2. \A j \in Timers : \/ timers'[j] = timers[j]
                          \/ timers'[j] = "cancelled" /\ timers[j] # "none"
    BY <1>1, FieldMade DEF HandlerInv
  <2>3. event' = "creating" => event = "creating"
    BY DEF CancelOld, CancelTimer
  <2>. QED  BY <1>1, <2>1, <2>2, <2>3 DEF HandlerInv, TimersMade
<1>3. CASE CancelOld
  <2>1. event' \in {"idle", "replacing"} /\ (timer # 0 => event' = "replacing") /\ task' = task
    BY <1>3 DEF CancelOld
  <2>2. DeadTimerIsHeld'
    BY <1>1, <2>1, FieldMade DEF HandlerInv, DeadTimerIsHeld
  <2>. QED  BY <1>1, <1>2, <2>1, <2>2, FieldMade DEF HandlerInv
<1>4. ASSUME NEW i \in Timers, CancelTimer(i) PROVE HandlerInv'
  <2>1. /\ event' = event
        /\ task' = [task EXCEPT ![i] = IF timer = 0 THEN "idle" ELSE "clearing"]
    BY <1>4 DEF CancelTimer
  <2>2. timer # 0 => task'[i] = "clearing" /\ timers'[timer] = "cancelled"
    BY <1>1, <2>1, FieldMade DEF HandlerInv
  <2>3. DeadTimerIsHeld'
    BY <1>1, <2>2 DEF DeadTimerIsHeld
  <2>. QED  BY <1>1, <1>2, <2>1, <2>3, FieldMade DEF HandlerInv
<1>. QED  BY <1>3, <1>4

(* A timer fires, and its task starts. *)
LEMMA TimerFiresInv ==
  ASSUME HandlerInv, NEW i \in Timers, TimerFires(i)
  PROVE  HandlerInv'
<1>1. /\ timers[i] = "scheduled" /\ timers' = [timers EXCEPT ![i] = "fired"]
      /\ task' = [task EXCEPT ![i] = "cancelling"]
      /\ UNCHANGED <<timer, made, left, event>>
  BY DEF TimerFires
<1>2. TimersMade'
  BY <1>1 DEF HandlerInv, TimersMade
<1>3. DeadTimerIsHeld'
  <2>1. task[i] = "idle"
    BY <1>1 DEF HandlerInv, TimersMade
  <2>. QED  BY <1>1, <2>1, FieldMade DEF HandlerInv, DeadTimerIsHeld
<1>. QED  BY <1>1, <1>2, <1>3 DEF HandlerInv

(* A task clears the field, or goes on about its request. *)
LEMMA TaskInv ==
  ASSUME HandlerInv, NEW i \in Timers, ClearTimer(i) \/ PostEnd(i) \/ EndAnswered(i)
  PROVE  HandlerInv'
<1>1. /\ UNCHANGED <<made, timers, left, event>>
      /\ task[i] \in {"clearing", "posting", "posted"}
      /\ \/ timer' = 0
         \/ timer' = timer /\ task[i] \in {"posting", "posted"}
      /\ \E to \in {"posting", "posted", "idle"} : task' = [task EXCEPT ![i] = to]
  BY DEF ClearTimer, PostEnd, EndAnswered
<1>2. TimersMade'
  BY <1>1 DEF HandlerInv, TimersMade
<1>3. DeadTimerIsHeld'
  BY <1>1, FieldMade DEF HandlerInv, DeadTimerIsHeld
<1>. QED  BY <1>1, <1>2, <1>3, FieldMade DEF HandlerInv

(* The other steps of the event thread leave the timers alone. *)
LEMMA EventInv ==
  ASSUME HandlerInv, StartTimer \/ PostStart \/ StartAnswered \/ Terminate
  PROVE  HandlerInv'
<1>1. /\ UNCHANGED <<timer, made, timers, left, task>>
      /\ event \in {"idle", "posting", "posted"}
      /\ event' \in {"idle", "creating", "cancelling", "posted", "terminated"}
      /\ event' = "creating" => timer = 0
  BY DEF StartTimer, PostStart, StartAnswered, Terminate
<1>. QED  BY <1>1 DEF HandlerInv, TimersMade, DeadTimerIsHeld

(* Time passes for the timers that have some left. *)
LEMMA TickInv ==
  ASSUME HandlerInv, Tick
  PROVE  HandlerInv'
<1>1. left' \in [Timers -> 0 .. RecordingOverrun]
  BY PullPointRecordingAssumption DEF Tick, HandlerInv
<1>. QED  BY <1>1 DEF Tick, HandlerInv, TimersMade, DeadTimerIsHeld

-----------------------------------------------------------------------------
(* Handler and service: a recording has its timer, or is about to end.       *)

TimedInv ==
  /\ overtaken \in BOOLEAN
  /\ OwnRequests
  /\ StartIsTimed
  /\ RecordingIsHeld

(* The handlers of two requests are two threads, and no limit's. *)
LEMMA HandlersApart ==
  /\ \A p, q : Service!Handler(p) = Service!Handler(q) => p = q
  /\ \A q, r : Service!Handler(q) # Service!Limit(r)
  /\ \A q \in Timers \union {EventThread} : Service!Handler(q) \in Service!Threads
  /\ EventThread \notin Timers
BY PullPointRecordingAssumption
   DEF Service!Handler, Service!Limit, Service!Threads, Timers, EventThread

LEMMA InitTimed == Init => TimedInv
BY HandlersApart
   DEF Init, Service!Init, TimedInv, OwnRequests, StartIsTimed, RecordingIsHeld, Starting, Answered

(* The event thread looks at the field, or is done: no timer is touched. *)
LEMMA EventTimed ==
  ASSUME HandlerInv, TimedInv, StartTimer \/ StartAnswered \/ Terminate
  PROVE  TimedInv'
<1>1. /\ UNCHANGED <<timer, made, timers, left, task, overtaken, serviceVars>>
      /\ event \in {"idle", "posted"} /\ Answered(EventThread)
      /\ event' \in {"idle", "creating", "cancelling", "terminated"}
  BY DEF StartTimer, StartAnswered, Terminate, TimedInv, OwnRequests
<1>. QED  BY <1>1 DEF TimedInv, OwnRequests, StartIsTimed, RecordingIsHeld, Starting, Answered,
                      FieldRuns, Replacing, Ending, serviceVars

(* A new timer in the field is to be scheduled. *)
LEMMA NewTimerTimed ==
  ASSUME HandlerInv, TimedInv, Create \/ Replace
  PROVE  TimedInv'
<1>1. /\ made < MaxTimers /\ timer' = made + 1
      /\ timers' = [timers EXCEPT ![made + 1] = "new"]
      /\ \/ event = "creating" /\ event' = "scheduling"
         \/ event = "replacing" /\ event' = "rescheduling"
      /\ UNCHANGED <<left, task, overtaken, serviceVars>>
  BY DEF Create, Replace, NewTimer
<1>2. made + 1 \in Timers /\ made \in Nat
  BY <1>1, FieldMade, PullPointRecordingAssumption DEF Timers, HandlerInv
<1>3. timer' # 0 /\ timers'[timer'] = "new"
  BY <1>1, <1>2 DEF HandlerInv
<1>4. OwnRequests' /\ StartIsTimed'
  BY <1>1 DEF TimedInv, OwnRequests, StartIsTimed, Starting, Answered, serviceVars
<1>5. CASE event = "replacing"
  BY <1>1, <1>3, <1>4, <1>5 DEF TimedInv, RecordingIsHeld, Replacing
<1>6. CASE event = "creating"
  <2>1. \A i \in Timers : Ending(i) => Ending(i)'
    BY <1>1, <1>3 DEF Ending, Answered, serviceVars
  <2>2. ~FieldRuns /\ ~Replacing
    BY <1>6 DEF HandlerInv, TimersMade, FieldRuns, Replacing
  <2>. QED  BY <1>1, <1>4, <2>1, <2>2 DEF TimedInv, RecordingIsHeld, serviceVars
<1>. QED  BY <1>1, <1>5, <1>6

(***************************************************************************)
(* The field's timer is scheduled and all is well from here, or it is no   *)
(* longer new: then it is gone or cancelled, and did not hold a recording. *)
(***************************************************************************)
LEMMA ScheduleTimed ==
  ASSUME HandlerInv, TimedInv, Schedule \/ Reschedule
  PROVE  TimedInv'
<1>1. /\ event \in {"scheduling", "rescheduling"}
      /\ event' \in {"posting", "idle"}
      /\ UNCHANGED <<timer, made, task, serviceVars>>
  BY DEF Schedule, Reschedule, ScheduleOn
<1>2. OwnRequests'
  BY <1>1 DEF TimedInv, OwnRequests, Answered, serviceVars
<1>3. CASE timer # 0 /\ timers[timer] = "new"
  <2>1. FieldRuns' /\ left'[timer'] > 0 /\ overtaken' = FALSE
    BY <1>1, <1>3, FieldMade, PullPointRecordingAssumption
       DEF HandlerInv, Schedule, Reschedule, ScheduleOn, FieldRuns
  <2>. QED  BY <1>2, <2>1 DEF TimedInv, StartIsTimed, RecordingIsHeld
<1>4. CASE ~(timer # 0 /\ timers[timer] = "new")
  <2>1. event' = "idle" /\ UNCHANGED <<timers, left, overtaken>>
    BY <1>4 DEF Schedule, Reschedule, ScheduleOn
  <2>2. StartIsTimed'
    BY <2>1 DEF StartIsTimed, Starting
  <2>3. RecordingIsHeld'
    BY <1>1, <1>4, <2>1
       DEF TimedInv, RecordingIsHeld, Replacing, FieldRuns, Ending, Answered, serviceVars
  <2>. QED  BY <1>2, <2>1, <2>2, <2>3 DEF TimedInv
<1>. QED  BY <1>3, <1>4

(* The old timer is cancelled by the thread that goes on to replace it. *)
LEMMA CancelOldTimed ==
  ASSUME HandlerInv, TimedInv, CancelOld
  PROVE  TimedInv'
<1>1. /\ event = "cancelling" /\ event' = IF timer = 0 THEN "idle" ELSE "replacing"
      /\ UNCHANGED <<timer, made, left, task, overtaken, serviceVars>>
      /\ timer = 0 => timers' = timers
  BY DEF CancelOld
<1>2. OwnRequests' /\ StartIsTimed'
  BY <1>1 DEF TimedInv, OwnRequests, StartIsTimed, Starting, Answered, serviceVars
<1>3. RecordingIsHeld'
  BY <1>1 DEF TimedInv, RecordingIsHeld, Replacing, FieldRuns, Ending, Answered, serviceVars
<1>. QED  BY <1>1, <1>2, <1>3 DEF TimedInv

(* A timer fires only when it has no time left; its task will end all. *)
LEMMA TimerFiresTimed ==
  ASSUME HandlerInv, TimedInv, NEW i \in Timers, TimerFires(i)
  PROVE  TimedInv'
<1>1. /\ timers[i] = "scheduled" /\ left[i] = 0 /\ task[i] = "idle"
      /\ timers' = [timers EXCEPT ![i] = "fired"]
      /\ task' = [task EXCEPT ![i] = "cancelling"]
      /\ UNCHANGED <<timer, made, left, event, overtaken, serviceVars>>
  BY DEF TimerFires, HandlerInv, TimersMade
<1>2. OwnRequests'
  BY <1>1 DEF TimedInv, OwnRequests, Answered, serviceVars, HandlerInv
<1>3. StartIsTimed'
  BY <1>1 DEF TimedInv, StartIsTimed, Starting, Answered, serviceVars, FieldRuns, HandlerInv
<1>4. \A j \in Timers : Ending(j) => Ending(j)'
  BY <1>1 DEF Ending, Answered, serviceVars, HandlerInv
<1>5. timer = i => Ending(i)'
  BY <1>1 DEF Ending, HandlerInv, Timers
<1>6. RecordingIsHeld'
  BY <1>1, <1>4, <1>5, FieldMade DEF TimedInv, RecordingIsHeld, Replacing, FieldRuns, serviceVars, HandlerInv
<1>. QED  BY <1>1, <1>2, <1>3, <1>6 DEF TimedInv

(* A task that takes the timer from a start on its way is noted. *)
LEMMA CancelTimed ==
  ASSUME HandlerInv, TimedInv, NEW i \in Timers, CancelTimer(i)
  PROVE  TimedInv'
<1>1. /\ task[i] = "cancelling"
      /\ UNCHANGED <<timer, made, left, event, serviceVars>>
  BY DEF CancelTimer
<1>2. Answered(i)
  BY <1>1 DEF TimedInv, OwnRequests
<1>3. CASE timer = 0
  <2>1. task' = [task EXCEPT ![i] = "idle"] /\ UNCHANGED <<timers, overtaken>>
    BY <1>3 DEF CancelTimer
  <2>2. OwnRequests' /\ StartIsTimed'
    BY <1>1, <1>2, <2>1 DEF TimedInv, OwnRequests, StartIsTimed, Starting, Answered, serviceVars,
                     FieldRuns, HandlerInv
  <2>3. \A j \in Timers : Ending(j) => Ending(j)'
    BY <1>1, <1>2, <1>3, <2>1 DEF Ending, Answered, serviceVars, HandlerInv
  <2>4. RecordingIsHeld'
    BY <1>1, <2>1, <2>3 DEF TimedInv, RecordingIsHeld, Replacing, FieldRuns, serviceVars
  <2>. QED  BY <2>1, <2>2, <2>4 DEF TimedInv
<1>4. CASE timer # 0
  <2>1. task' = [task EXCEPT ![i] = "clearing"] /\ overtaken' = (overtaken \/ Starting)
    BY <1>4 DEF CancelTimer
  <2>2. OwnRequests'
    BY <1>1, <1>2, <2>1 DEF TimedInv, OwnRequests, Answered, serviceVars, HandlerInv
  <2>3. StartIsTimed'
    BY <1>1, <2>1 DEF StartIsTimed, Starting, Answered, serviceVars
  <2>4. Ending(i)'
    BY <2>1 DEF Ending, HandlerInv
  <2>. QED  BY <2>1, <2>2, <2>3, <2>4 DEF TimedInv, RecordingIsHeld
<1>. QED  BY <1>3, <1>4

(* So is one that clears the field; the task goes on to ask for the end. *)
LEMMA ClearTimed ==
  ASSUME HandlerInv, TimedInv, NEW i \in Timers, ClearTimer(i)
  PROVE  TimedInv'
<1>1. /\ task[i] = "clearing" /\ task' = [task EXCEPT ![i] = "posting"]
      /\ overtaken' = (overtaken \/ Starting)
      /\ UNCHANGED <<made, timers, left, event, serviceVars>>
  BY DEF ClearTimer
<1>2. OwnRequests'
  BY <1>1 DEF TimedInv, OwnRequests, Answered, serviceVars, HandlerInv
<1>3. StartIsTimed'
  BY <1>1 DEF StartIsTimed, Starting, Answered, serviceVars
<1>4. Ending(i)'
  BY <1>1 DEF Ending, HandlerInv
<1>. QED  BY <1>1, <1>2, <1>3, <1>4 DEF TimedInv, RecordingIsHeld

(* A task whose request is answered ends; the answer has been served. *)
LEMMA EndAnsweredTimed ==
  ASSUME HandlerInv, TimedInv, NEW i \in Timers, EndAnswered(i)
  PROVE  TimedInv'
<1>1. /\ task[i] = "posted" /\ Answered(i) /\ task' = [task EXCEPT ![i] = "idle"]
      /\ UNCHANGED <<timer, made, timers, left, event, overtaken, serviceVars>>
  BY DEF EndAnswered
<1>2. OwnRequests' /\ StartIsTimed'
  BY <1>1 DEF TimedInv, OwnRequests, StartIsTimed, Starting, Answered, serviceVars, FieldRuns, HandlerInv
<1>3. \A j \in Timers : Ending(j) => Ending(j)'
  BY <1>1 DEF Ending, Answered, serviceVars, HandlerInv
<1>4. RecordingIsHeld'
  BY <1>1, <1>3 DEF TimedInv, RecordingIsHeld, Replacing, FieldRuns, serviceVars
<1>. QED  BY <1>1, <1>2, <1>4 DEF TimedInv

(* No time passes while a start is on its way. *)
LEMMA TickTimed ==
  ASSUME HandlerInv, TimedInv, Tick
  PROVE  TimedInv'
<1>1. /\ UNCHANGED <<timer, made, timers, event, task, overtaken, serviceVars>>
      /\ event # "posting"
      /\ pc[Service!Handler(EventThread)] \in {"idle", "waiting"}
  BY HandlersApart DEF Tick, AtRest
<1>2. ~Starting
  BY <1>1 DEF Starting, TimedInv, OwnRequests, Answered
<1>. QED  BY <1>1, <1>2 DEF TimedInv, OwnRequests, StartIsTimed, RecordingIsHeld, Starting, Answered,
                      FieldRuns, Replacing, Ending, serviceVars

(* The requests: a start whose timer is in the field, an end of a task. *)
LEMMA PostTimed ==
  ASSUME HandlerInv, TimedInv, Service!IInv, PostStart \/ \E i \in Timers : PostEnd(i)
  PROVE  TimedInv'
<1>1. UNCHANGED <<timer, made, timers, left, overtaken, recording_procs>>
  BY DEF PostStart, PostEnd, Service!Post
<1>2. pc \in [Service!Threads -> Service!Steps]
  BY DEF Service!IInv, Service!TypeOK
<1>3. CASE PostStart
  <2>1. /\ event = "posting" /\ event' = "posted" /\ task' = task
        /\ pc' = [pc EXCEPT ![Service!Handler(EventThread)] = "start_recording"]
    BY <1>3 DEF PostStart, Service!Post, Service!Goes
  <2>2. \A i \in Timers : pc'[Service!Handler(i)] = pc[Service!Handler(i)]
    BY <1>2, <2>1, HandlersApart
  <2>3. OwnRequests'
    BY <1>2, <2>1, <2>2, HandlersApart DEF TimedInv, OwnRequests, Answered
  <2>4. StartIsTimed'
    BY <1>1, <2>1 DEF TimedInv, StartIsTimed, Starting, FieldRuns
  <2>5. RecordingIsHeld'
    BY <1>1, <2>1, <2>2 DEF TimedInv, RecordingIsHeld, FieldRuns, Replacing, Ending, Answered
  <2>. QED  BY <1>1, <2>3, <2>4, <2>5 DEF TimedInv
<1>4. ASSUME NEW i \in Timers, PostEnd(i) PROVE TimedInv'
  <2>1. /\ task[i] = "posting" /\ task' = [task EXCEPT ![i] = "posted"] /\ event' = event
        /\ pc' = [pc EXCEPT ![Service!Handler(i)] = "end_recording"]
    BY <1>4 DEF PostEnd, Service!Post, Service!Goes
  <2>2. /\ pc'[Service!Handler(i)] = "end_recording"
        /\ \A j \in Timers \union {EventThread} :
             j # i => pc'[Service!Handler(j)] = pc[Service!Handler(j)]
    BY <1>2, <2>1, HandlersApart
  <2>3. OwnRequests'
    BY <2>1, <2>2, HandlersApart DEF TimedInv, OwnRequests, Answered, HandlerInv
  <2>4. StartIsTimed'
    BY <1>1, <2>1, <2>2, HandlersApart DEF TimedInv, StartIsTimed, Starting, FieldRuns, Answered
  <2>5. \A j \in Timers : Ending(j) => Ending(j)'
    BY <1>1, <2>1, <2>2 DEF Ending, Answered, HandlerInv
  <2>6. RecordingIsHeld'
    BY <1>1, <2>1, <2>5 DEF TimedInv, RecordingIsHeld, FieldRuns, Replacing
  <2>. QED  BY <1>1, <2>3, <2>4, <2>6 DEF TimedInv
<1>. QED  BY <1>3, <1>4

(***************************************************************************)
(* The service: only the event thread's request brings an entry, and when  *)
(* a task's request is answered there is none.                             *)
(***************************************************************************)
LEMMA ServeTimed ==
  ASSUME HandlerInv, TimedInv, Service!IInv, Service!Serve, UNCHANGED triggerVars
  PROVE  TimedInv'
<1>1. UNCHANGED <<timer, made, timers, left, event, task, overtaken>>
  BY DEF triggerVars
<1>2. pc \in [Service!Threads -> Service!Steps]
  BY DEF Service!IInv, Service!TypeOK
<1>. DEFINE H(q) == Service!Handler(q)
            Asked == Timers \union {EventThread}
            Safe ==
              /\ \A q \in Asked : \/ pc'[H(q)] = pc[H(q)]
                                  \/ /\ pc[H(q)] \in {"start_recording", "launching", "launched", "stored"}
                                     /\ pc'[H(q)] \in {"idle", "launching", "launched", "stored"}
                                  \/ /\ pc[H(q)] \in {"end_recording", "finishing", "waiting"}
                                     /\ \/ pc'[H(q)] \in {"finishing", "waiting"}
                                        \/ pc'[H(q)] = "idle" /\ recording_procs' = 0
              /\ \/ recording_procs' \in {0, recording_procs}
                 \/ \E q \in Asked : pc[H(q)] = "launched"
<1>3. Safe
  <2>1. ASSUME NEW q \in Asked, Service!Handles(q) PROVE Safe
    <3>1. /\ pc[H(q)] \in {"start_recording", "launching", "launched", "stored", "end_recording"}
          /\ pc[H(q)] = "end_recording" =>
               \/ pc'[H(q)] = "finishing"
               \/ pc'[H(q)] = "idle" /\ recording_procs' = 0
          /\ pc[H(q)] # "end_recording" => pc'[H(q)] \in {"idle", "launching", "launched", "stored"}
          /\ recording_procs' = recording_procs \/ pc[H(q)] = "launched"
      BY <1>2, <2>1, HandlersApart
         DEF Service!Handles, Service!CheckNotUnderway, Service!Launch, Service!Store,
             Service!StartLimit, Service!CheckUnderway, Service!Goes
    <3>2. \A p \in Asked : p # q => pc'[H(p)] = pc[H(p)]
      BY <1>2, <2>1, HandlersApart
         DEF Service!Handles, Service!CheckNotUnderway, Service!Launch, Service!Store,
             Service!StartLimit, Service!CheckUnderway, Service!Goes
    <3>. QED  BY <3>1, <3>2
  <2>2. ASSUME NEW r \in Service!Recordings, Service!LimitFires(r) \/ Service!FfmpegExits(r)
        PROVE  Safe
    BY <1>2, <2>2, HandlersApart DEF Service!LimitFires, Service!FfmpegExits, Service!Goes
  <2>3. ASSUME NEW t \in Service!Threads, Service!Interrupt(t) \/ Service!Pop(t) PROVE Safe
    <3>1. /\ pc[t] \in {"finishing", "waiting"}
          /\ \E to \in {"idle", "waiting"} : pc' = [pc EXCEPT ![t] = to] /\ (to = "idle" => recording_procs' = 0)
          /\ recording_procs' \in {0, recording_procs}
      BY <2>3 DEF Service!Interrupt, Service!Pop, Service!Goes
    <3>. QED  BY <1>2, <3>1, HandlersApart
  <2>. QED  BY <2>1, <2>2, <2>3 DEF Service!Serve
<1>4. OwnRequests'
  BY <1>1, <1>3, HandlersApart DEF TimedInv, OwnRequests, Answered
<1>5. Starting' => Starting
  BY <1>1, <1>3, HandlersApart DEF Starting, Answered
<1>6. StartIsTimed'
  BY <1>1, <1>5 DEF TimedInv, StartIsTimed, FieldRuns
<1>7. RecordingIsHeld'
  <2>. SUFFICES ASSUME recording_procs' # 0, ~overtaken
                PROVE  FieldRuns \/ Replacing \/ \E i \in Timers : Ending(i)'
    BY <1>1 DEF RecordingIsHeld, FieldRuns, Replacing
  <2>1. CASE recording_procs' = recording_procs
    <3>1. \A i \in Timers : Ending(i) => Ending(i)'
      BY <1>1, <1>3, <2>1 DEF Ending, Answered, TimedInv, OwnRequests
    <3>. QED  BY <2>1, <3>1 DEF TimedInv, RecordingIsHeld
  <2>2. CASE recording_procs' # recording_procs
    <3>1. PICK q \in Asked : pc[H(q)] = "launched"
      BY <1>3, <2>2
    <3>2. Starting
      BY <3>1 DEF TimedInv, OwnRequests, Starting, Answered
    <3>. QED  BY <3>2 DEF TimedInv, StartIsTimed
  <2>. QED  BY <2>1, <2>2
<1>. QED  BY <1>1, <1>4, <1>6, <1>7 DEF TimedInv

(***************************************************************************)
(* The inductive invariant holds for any overrun and any number of timers  *)
(* and recordings, in whatever order the event thread, the timers' tasks   *)
(* and the service's threads take their steps.                             *)
(***************************************************************************)
THEOREM Invariance == Spec => []IInv
<1>1. HandlerInv /\ [Next]_vars => HandlerInv'
  <2>. SUFFICES ASSUME HandlerInv, [Next]_vars PROVE HandlerInv'
    OBVIOUS
  <2>1. ASSUME Event PROVE HandlerInv'
    BY <2>1, NewTimerInv, ScheduleInv, CancelInv, EventInv DEF Event
  <2>2. ASSUME NEW i \in Timers, Task(i) PROVE HandlerInv'
    BY <2>2, TimerFiresInv, CancelInv, TaskInv DEF Task
  <2>3. CASE UNCHANGED triggerVars
    BY <2>3 DEF triggerVars, HandlerInv, TimersMade, DeadTimerIsHeld
  <2>. QED  BY <2>1, <2>2, <2>3, TickInv DEF Next, vars
<1>2. HandlerInv /\ TimedInv /\ Service!IInv /\ [Next]_vars => TimedInv'
  <2>. SUFFICES ASSUME HandlerInv, TimedInv, Service!IInv, [Next]_vars PROVE TimedInv'
    OBVIOUS
  <2>1. ASSUME Event PROVE TimedInv'
    BY <2>1, EventTimed, NewTimerTimed, ScheduleTimed, CancelOldTimed, PostTimed DEF Event
  <2>2. ASSUME NEW i \in Timers, Task(i) PROVE TimedInv'
    BY <2>2, TimerFiresTimed, CancelTimed, ClearTimed, PostTimed, EndAnsweredTimed DEF Task
  <2>3. CASE UNCHANGED vars
    BY <2>3 DEF vars, triggerVars, serviceVars, TimedInv, OwnRequests, StartIsTimed, RecordingIsHeld,
                Starting, Answered, FieldRuns, Replacing, Ending
  <2>. QED  BY <2>1, <2>2, <2>3, TickTimed, ServeTimed DEF Next
<1>3. HandlerInv /\ TimedInv /\ Service!IInv => IInv
  BY DEF HandlerInv, TimedInv, IInv, TypeOK, Service!IInv
<1>. QED  BY <1>1, <1>2, <1>3, InitHandler, InitTimed, ServiceInvariance, PTL DEF Spec

(* Every variable of the handler and of the service keeps its type. *)
THEOREM TypeCorrect == Spec => []TypeOK
BY Invariance, PTL DEF IInv

(***************************************************************************)
(* When the event thread and the tasks have come to rest, a timer left in  *)
(* the field runs, however they met and whatever exceptions ended them.    *)
(***************************************************************************)
THEOREM FieldIsAlive == Spec => []NoDeadTimer
<1>1. IInv => NoDeadTimer
  <2>. SUFFICES ASSUME IInv, Quiet, timer # 0 PROVE timers[timer] = "scheduled"
    BY DEF NoDeadTimer
  <2>1. timer \in Timers /\ timers[timer] # "none"
    BY PullPointRecordingAssumption DEF IInv, TypeOK, TimersMade, Timers
  <2>. QED  BY <2>1 DEF IInv, TypeOK, DeadTimerIsHeld, Quiet
<1>. QED  BY <1>1, Invariance, PTL

(***************************************************************************)
(* When all is at rest a recording underway has the timer that will end    *)
(* it, unless a task came to the field while its start was on its way.     *)
(***************************************************************************)
THEOREM RecordingsAreTimed == Spec => []RecordingIsTimed
<1>1. IInv => RecordingIsTimed
  <2>. SUFFICES ASSUME IInv, Quiet, recording_procs # 0, ~overtaken PROVE FieldRuns
    BY DEF RecordingIsTimed
  <2>1. \A i \in Timers : ~Ending(i)
    BY DEF IInv, OwnRequests, Quiet, Ending
  <2>2. ~Replacing
    BY DEF Quiet, Replacing
  <2>. QED  BY <2>1, <2>2 DEF IInv, RecordingIsHeld
<1>. QED  BY <1>1, Invariance, PTL

(* No camera is locked out of recording by what its pull point events do. *)
THEOREM EntriesAreLimited == Spec => []Service!EntryHasLimit
<1>1. IInv => Service!EntryHasLimit
  BY DEF IInv, Service!IInv
<1>. QED  BY <1>1, Invariance, PTL

-----------------------------------------------------------------------------
(* FTP uploads: what holds for any number of connections and recordings, by  *)
(* the inductive invariant FtpInv.                                           *)

(* Nothing is recorded at first, and no window runs. *)
LEMMA FtpInitInv == FtpInit => FtpInv
  BY FtpRecordingAssumption
  DEF FtpInit, FtpInv, FtpTypeOK, EntryHasWindow, RecordingHasWindow, FtpRecordings

(* A connection's thread that looks at the entry changes nothing else. *)
LEMMA ReceiveInv == ASSUME NEW u \in Uploads, FtpInv, Receive(u)
                    PROVE  FtpInv'
  BY DEF Receive, Goes, FtpInv, FtpTypeOK, EntryHasWindow, RecordingHasWindow, FtpRecordings

(* A reset only adds to the windows that run, and to none not launched. *)
LEMMA ResetInv == ASSUME NEW u \in Uploads, FtpInv, Reset(u)
                  PROVE  FtpInv'
<1>1. CASE processDict = 0
  BY <1>1 DEF Reset, Goes, FtpInv, FtpTypeOK, EntryHasWindow, RecordingHasWindow, FtpRecordings
<1>2. CASE processDict # 0
  <2>1. processDict \in 1 .. ftpLaunched
    BY <1>2 DEF FtpInv, FtpTypeOK
  <2>2. window' = window \union {processDict}
    BY <1>2 DEF Reset, ResetTimer
  <2>3. FtpTypeOK'
    BY <2>1, <2>2 DEF Reset, Goes, FtpInv, FtpTypeOK
  <2>4. \A v \in Uploads : upload[v] = "launched" => upload'[v] = "launched"
    BY DEF Reset, Goes, FtpInv, FtpTypeOK
  <2>5. EntryHasWindow' /\ RecordingHasWindow'
    BY <2>2, <2>4 DEF Reset, FtpInv, EntryHasWindow, RecordingHasWindow
  <2> QED
    BY <2>3, <2>5 DEF Reset, FtpInv
<1> QED
  BY <1>1, <1>2

(* A recording that is launched is in its connection's hands. *)
LEMMA LaunchInv == ASSUME NEW u \in Uploads, FtpInv, Launch(u)
                   PROVE  FtpInv'
<1>1. ftpLaunched + 1 \in FtpRecordings /\ ftpLaunched' = ftpLaunched + 1
  BY FtpRecordingAssumption DEF Launch, FtpInv, FtpTypeOK, FtpRecordings
<1>2. FtpTypeOK'
  BY <1>1 DEF Launch, Goes, FtpInv, FtpTypeOK, FtpRecordings
<1>3. \A r \in FtpRecordings : r > ftpLaunched' => ftpFfmpeg'[r] = "none" /\ finishing'[r] = 0
  BY <1>1 DEF Launch, FtpInv, FtpTypeOK, FtpRecordings
<1>4. EntryHasWindow'
  BY DEF Launch, FtpInv, EntryHasWindow
<1>5. RecordingHasWindow'
  <2> SUFFICES ASSUME NEW r \in FtpRecordings, ftpFfmpeg'[r] = "running"
               PROVE  \/ r \in window'
                      \/ \E v \in Uploads : upload'[v] = "launched" /\ subproc'[v] = r
    BY DEF RecordingHasWindow
  <2>1. CASE r = ftpLaunched + 1
    <3>1. upload'[u] = "launched" /\ subproc'[u] = r
      BY <2>1 DEF Launch, Goes, FtpInv, FtpTypeOK
    <3> QED
      BY <3>1
  <2>2. CASE r # ftpLaunched + 1
    <3>1. ftpFfmpeg[r] = "running"
      BY <2>2 DEF Launch, FtpInv, FtpTypeOK
    <3>2. \A v \in Uploads : upload[v] = "launched" => v # u
      BY DEF Launch
    <3> QED
      BY <3>1, <3>2 DEF Launch, Goes, FtpInv, FtpTypeOK, RecordingHasWindow
  <2> QED
    BY <2>1, <2>2
<1> QED
  BY <1>2, <1>3, <1>4, <1>5 DEF FtpInv

(* The entry that is stored has its window running. *)
LEMMA StartFtpTimerInv == ASSUME NEW u \in Uploads, FtpInv, StartFtpTimer(u)
                       PROVE  FtpInv'
<1>1. subproc[u] \in 1 .. ftpLaunched
  BY DEF StartFtpTimer, FtpInv, FtpTypeOK
<1>2. FtpTypeOK'
  BY <1>1 DEF StartFtpTimer, Goes, FtpInv, FtpTypeOK, FtpRecordings
<1>3. EntryHasWindow'
  BY DEF StartFtpTimer, EntryHasWindow
<1>4. RecordingHasWindow'
  <2> SUFFICES ASSUME NEW r \in FtpRecordings, ftpFfmpeg[r] = "running", r \notin window',
                      NEW v \in Uploads, upload[v] = "launched", subproc[v] = r
               PROVE  upload'[v] = "launched" /\ subproc'[v] = r
    BY DEF StartFtpTimer, FtpInv, RecordingHasWindow
  <2>1. v # u
    BY DEF StartFtpTimer
  <2> QED
    BY <2>1 DEF StartFtpTimer, Goes, FtpInv, FtpTypeOK
<1> QED
  BY <1>2, <1>3, <1>4 DEF StartFtpTimer, FtpInv

(* At the end of a window its thread is there to take the entry. *)
LEMMA WindowEndsInv == ASSUME NEW r \in FtpRecordings, FtpInv, WindowEnds(r)
                       PROVE  FtpInv'
<1>1. finishing[r] \in 0 .. MaxFinishing /\ finishing'[r] = finishing[r] + 1
  BY DEF WindowEnds, FtpInv, FtpTypeOK
<1>2. FtpTypeOK'
  BY <1>1, FtpRecordingAssumption DEF WindowEnds, FtpInv, FtpTypeOK, FtpRecordings
<1>3. \A s \in FtpRecordings : s > ftpLaunched' => ftpFfmpeg'[s] = "none" /\ finishing'[s] = 0
  BY DEF WindowEnds, FtpInv, FtpTypeOK, FtpRecordings
<1>4. EntryHasWindow'
  BY <1>1 DEF WindowEnds, FtpInv, FtpTypeOK, EntryHasWindow, FtpRecordings
<1>5. RecordingHasWindow'
  BY DEF WindowEnds, FtpInv, FtpTypeOK, RecordingHasWindow
<1> QED
  BY <1>2, <1>3, <1>4, <1>5 DEF FtpInv

(* An ffmpeg that exits records no more. *)
LEMMA FfmpegExitsInv == ASSUME NEW r \in FtpRecordings, FtpInv, FfmpegExits(r)
                        PROVE  FtpInv'
  BY DEF FfmpegExits, FtpInv, FtpTypeOK, EntryHasWindow, RecordingHasWindow, FtpRecordings

(* The thread that has taken the entry leaves none to account for. *)
LEMMA PopInv == ASSUME NEW r \in FtpRecordings, FtpInv, Pop(r)
                PROVE  FtpInv'
<1>1. finishing[r] \in 1 .. MaxFinishing /\ finishing'[r] = finishing[r] - 1
  BY FtpRecordingAssumption DEF Pop, FtpInv, FtpTypeOK
<1>2. FtpTypeOK'
  BY <1>1, FtpRecordingAssumption DEF Pop, FtpInv, FtpTypeOK, FtpRecordings
<1> QED
  BY <1>2 DEF Pop, FtpInv, FtpTypeOK, EntryHasWindow, RecordingHasWindow, FtpRecordings

(* The inductive invariant holds throughout. *)
THEOREM FtpInvariance == FtpSpec => []FtpInv
<1>1. FtpInit => FtpInv
  BY FtpInitInv
<1>2. FtpInv /\ [FtpNext]_ftpVars => FtpInv'
  <2> SUFFICES ASSUME FtpInv, [FtpNext]_ftpVars PROVE FtpInv'
    OBVIOUS
  <2>1. ASSUME NEW u \in Uploads, Receive(u) \/ Reset(u) \/ Launch(u) \/ StartFtpTimer(u)
        PROVE  FtpInv'
    BY <2>1, ReceiveInv, ResetInv, LaunchInv, StartFtpTimerInv
  <2>2. ASSUME NEW r \in FtpRecordings, WindowEnds(r) \/ FfmpegExits(r) \/ Pop(r)
        PROVE  FtpInv'
    BY <2>2, WindowEndsInv, FfmpegExitsInv, PopInv
  <2>3. CASE UNCHANGED ftpVars
    BY <2>3 DEF ftpVars, FtpInv, FtpTypeOK, EntryHasWindow, RecordingHasWindow
  <2> QED
    BY <2>1, <2>2, <2>3 DEF FtpNext
<1> QED
  BY <1>1, <1>2, PTL DEF FtpSpec

(***************************************************************************)
(* No camera is locked out of FTP recording: its entry always has a window *)
(* running or a thread at work to take it away.                            *)
(***************************************************************************)
THEOREM FtpEntriesGo == FtpSpec => []EntryHasWindow
<1>1. FtpInv => EntryHasWindow
  BY DEF FtpInv
<1> QED
  BY <1>1, FtpInvariance, PTL

(***************************************************************************)
(* No ffmpeg is forgotten: one that records has a window running that ends *)
(* it, even when its entry has been taken by another recording's thread.   *)
(***************************************************************************)
THEOREM FtpRecordingsEnd == FtpSpec => []RecordingHasWindow
<1>1. FtpInv => RecordingHasWindow
  BY DEF FtpInv
<1> QED
  BY <1>1, FtpInvariance, PTL
=============================================================================
