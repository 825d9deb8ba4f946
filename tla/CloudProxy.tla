----------------------------- MODULE CloudProxy -----------------------------
(***************************************************************************)
(* The cloud proxy of the NVR (CloudAMQProxy.java, CloudProxyService,      *)
(* CloudProxyRestartTask, CloudSessionTimerTask): the user starts and      *)
(* stops it; while it is wanted it logs in to the Cloud's message broker,  *)
(* and starts over when no heartbeat has come for twenty seconds.          *)
(*                                                                         *)
(* Nothing is locked.  Requests, the restart task, the session timers'     *)
(* threads, the bodies of start() and the sessions' listeners all call     *)
(* stop(), restart() and resetCloudProxySessionTimeout(); a thread that    *)
(* has called one goes on from where "after" says.  A start that creates   *)
(* its executors is numbered, and its body, its connection and its         *)
(* CloudInputProcess go by that number.  What is relayed between the Cloud *)
(* and the web server is left out, but for its failing.                    *)
(***************************************************************************)
EXTENDS Integers, FiniteSets

CONSTANTS
  Requests,      \* HTTP requests that may be at work at a time
  Timers,        \* threads of session timers that may be at work at a time
  Settings,      \* the settings to begin with: see SettingType
  MaxStarts,     \* bound of the model: starts that create their executors,
  MaxTasks,      \* bound of the model: tasks of start() in the queue
  MaxHeartbeats  \* bound of the model: heartbeats received

(* What is to happen - requests, restarts of the network, the Cloud's *)
(* messages - and the bound on the starts there are with it.          *)
SettingType ==
  [sources : SUBSET {"start", "stop", "restart", "heartbeat", "relay"}, starts : 1 .. MaxStarts]

ASSUME CloudProxyAssumption ==
  /\ Settings \subseteq SettingType
  /\ {MaxStarts, MaxTasks} \subseteq Nat \ {0}
  /\ MaxHeartbeats \in Nat

VARIABLES
  setting,      \* the setting chosen
  userSelectedRunning,
  running,
  tasks,        \* tasks in startActiveMQClientExecutor's queue
  starting,     \* the start its thread is creating executors for, 0 if none
  started,      \* number of starts that created their executors
  shut,         \* the starts whose executors were shut down
  connection,   \* the field, 0 for null
  session,      \* the connection that the field session was made on, 0 for null
  cip,          \* the field, 0 for null
  open,         \* the connections that are open
  listening,    \* the CloudInputProcesses with a consumer, and its connection
  armed,        \* the timer in the field cloudProxySessionTimer is to fire
  strays,       \* timers that are to fire and are no longer in the field
  heartbeats,   \* number of heartbeats received
  pc,           \* where each thread is
  after,        \* where each goes on after stop() or a reset of the timer
  crossed       \* the last userStart was made in the midst of a userStop

wanted == <<setting, userSelectedRunning>>
queue == <<tasks, starting, started>>
timer == <<armed, strays>>
cloud == <<connection, session, cip, open, listening, heartbeats>>
vars == <<setting, userSelectedRunning, running, queue, shut, cloud, timer, pc, after, crossed>>

Starts == 1 .. MaxStarts

Request(r) == <<"request", r>>
RestartTask == <<"restart", 0>>
TimerTask(m) == <<"timer", m>>
Body(s) == <<"body", s>>
Listener(s) == <<"listener", s>>

Bodies == {Body(s) : s \in Starts}
Threads ==
  {Request(r) : r \in Requests} \union {RestartTask} \union {TimerTask(m) : m \in Timers}
    \union Bodies \union {Listener(s) : s \in Starts}

Init ==
  /\ setting \in Settings
  /\ userSelectedRunning = FALSE
  /\ running = FALSE
  /\ tasks = 0
  /\ starting = 0
  /\ started = 0
  /\ shut = {}
  /\ connection = 0
  /\ session = 0
  /\ cip = 0
  /\ open = {}
  /\ listening = {}
  /\ armed = FALSE
  /\ strays = 0
  /\ heartbeats = 0
  /\ pc = [t \in Threads |-> "idle"]
  /\ after = [t \in Threads |-> "idle"]
  /\ crossed = FALSE

Goes(t, to) == pc' = [pc EXCEPT ![t] = to]

(* It returns from stop() or the reset it has called. *)
Returns(t) ==
  /\ Goes(t, after[t])
  /\ after' = [after EXCEPT ![t] = "idle"]

Calls(t, operation, then) ==
  /\ Goes(t, operation)
  /\ after' = [after EXCEPT ![t] = then]

-----------------------------------------------------------------------------
(* userStart and userStop, for CloudProxyService and its restart task *)

StopPcs == {"stop", "unarming", "marking", "shutting", "closing"}

(* A request is in the midst of a userStop. *)
UserStopping == \E r \in Requests : pc[Request(r)] \in StopPcs

UserStart(t) ==
  /\ userSelectedRunning' = TRUE
  /\ crossed' = UserStopping
  /\ Goes(t, "start")
  /\ UNCHANGED <<setting, running, queue, shut, cloud, timer, after>>

UserStop(t, then) ==
  /\ userSelectedRunning' = FALSE
  /\ Calls(t, "stop", then)
  /\ UNCHANGED <<setting, running, queue, shut, cloud, timer, crossed>>

RequestStart(r) ==
  "start" \in setting.sources /\ pc[Request(r)] = "idle" /\ UserStart(Request(r))

RequestStop(r) ==
  "stop" \in setting.sources /\ pc[Request(r)] = "idle" /\ UserStop(Request(r), "idle")

(* Two seconds after a restart was asked for, stop; three later, start. *)
RestartStops ==
  "restart" \in setting.sources /\ pc[RestartTask] = "idle" /\ UserStop(RestartTask, "waiting")

RestartStarts == pc[RestartTask] = "waiting" /\ UserStart(RestartTask)

-----------------------------------------------------------------------------
(* start() *)

Start(t) ==
  /\ pc[t] = "start"
  /\ IF userSelectedRunning
     THEN tasks < MaxTasks /\ tasks' = tasks + 1
     ELSE UNCHANGED tasks
  /\ Goes(t, "idle")
  /\ UNCHANGED <<wanted, running, starting, started, shut, cloud,
                 timer, after, crossed>>

(* The queue's one thread takes a task. *)
TakeTask ==
  /\ tasks > 0
  /\ starting = 0
  /\ tasks' = tasks - 1
  /\ IF running
     THEN UNCHANGED <<starting, started>>
     ELSE /\ started < setting.starts
          /\ started' = started + 1
          /\ starting' = started + 1
  /\ UNCHANGED <<wanted, running, shut, cloud, timer, pc, after, crossed>>

(* An executor that a stop has shut down by now takes no body. *)
Execute ==
  /\ starting # 0
  /\ starting' = 0
  /\ Goes(Body(starting), IF starting \in shut THEN "idle" ELSE "queued")
  /\ UNCHANGED <<wanted, running, tasks, started, shut, cloud, timer,
                 after, crossed>>

Begin(s) ==
  /\ pc[Body(s)] = "queued"
  /\ running' = TRUE
  /\ Goes(Body(s), "connecting")
  /\ UNCHANGED <<wanted, queue, shut, cloud, timer, after, crossed>>

GetConnection(s) ==
  /\ pc[Body(s)] = "connecting"
  /\ connection' = s
  /\ open' = open \union {s}
  /\ Goes(Body(s), "opening")
  /\ UNCHANGED <<wanted, running, queue, shut, session, cip, listening, heartbeats,
                 timer, after, crossed>>

(* A thread that was interrupted, or a connection closed, gets an exception. *)
OpenSession(s) ==
  /\ pc[Body(s)] = "opening"
  /\ s \notin shut
  /\ connection \in open
  /\ session' = connection
  /\ Goes(Body(s), "login")
  /\ UNCHANGED <<wanted, running, queue, shut, connection, cip, open, listening,
                 heartbeats, timer, after, crossed>>

(* The catch, for the two steps above. *)
CannotConnectNoFinally(s) ==  \* mutant: the timer is set by a login only
  /\ pc[Body(s)] \in {"connecting", "opening"}
  /\ Calls(Body(s), "stop", "idle")
  /\ UNCHANGED <<wanted, running, queue, shut, cloud, timer, crossed>>

CannotConnect(s) ==
  /\ pc[Body(s)] \in {"connecting", "opening"}
  /\ Calls(Body(s), "stop", "finally")
  /\ UNCHANGED <<wanted, running, queue, shut, cloud, timer, crossed>>

ProductKeyAccepted(s) ==
  /\ pc[Body(s)] = "login"
  /\ s \notin shut
  /\ session \in open
  /\ cip' = s
  /\ listening' = listening \union {<<s, session>>}
  /\ Goes(Body(s), "finally")
  /\ UNCHANGED <<wanted, running, queue, shut, connection, session, open,
                 heartbeats, timer, after, crossed>>

(* Not accepted, or not answered within a second. *)
ProductKeyRefused(s) ==
  /\ pc[Body(s)] = "login"
  /\ Calls(Body(s), "reset", "finally")
  /\ UNCHANGED <<wanted, running, queue, shut, cloud, timer, crossed>>

(* The browsers cannot be told: restart(). *)
LoginFails(s) ==
  /\ pc[Body(s)] = "login"
  /\ Calls(Body(s), "stop", "restart")
  /\ UNCHANGED <<wanted, running, queue, shut, cloud, timer, crossed>>

Finally(s) ==
  /\ pc[Body(s)] = "finally"
  /\ Calls(Body(s), "reset", "idle")
  /\ UNCHANGED <<wanted, running, queue, shut, cloud, timer, crossed>>

-----------------------------------------------------------------------------
(* stop() *)

Stop(t) ==
  /\ pc[t] = "stop"
  /\ IF running
     THEN Goes(t, "unarming") /\ UNCHANGED after
     ELSE Returns(t)
  /\ UNCHANGED <<wanted, running, queue, shut, cloud, timer, crossed>>

StopTimer(t) ==
  /\ pc[t] = "unarming"
  /\ armed' = FALSE
  /\ Goes(t, "marking")
  /\ UNCHANGED <<wanted, running, queue, shut, cloud, strays, after, crossed>>

MarkStoppedNot(t) ==  \* mutant: it is still taken for running
  /\ pc[t] = "marking"
  /\ Goes(t, "shutting")
  /\ UNCHANGED <<wanted, running, queue, shut, cloud, timer, after, crossed>>

MarkStopped(t) ==
  /\ pc[t] = "marking"
  /\ running' = FALSE
  /\ Goes(t, "shutting")
  /\ UNCHANGED <<wanted, queue, shut, cloud, timer, after, crossed>>

(* The executor is the newest start's.  A body it has not run yet is lost. *)
ShutDown(t) ==
  /\ pc[t] = "shutting"
  /\ shut' = shut \union {started}
  /\ pc' = [u \in Threads |->
              IF u = t THEN "closing"
              ELSE IF u = Body(started) /\ pc[u] = "queued" THEN "idle"
              ELSE pc[u]]
  /\ UNCHANGED <<wanted, running, queue, cloud, timer, after, crossed>>

CloseConnection(t) ==
  /\ pc[t] = "closing"
  /\ listening' =
       {l \in listening : l[1] # cip /\ l[2] \notin {connection, session}}
  /\ open' = open \ {connection}
  /\ Returns(t)
  /\ UNCHANGED <<wanted, running, queue, shut, connection, session, cip,
                 heartbeats, timer, crossed>>

-----------------------------------------------------------------------------
(* restart(), and the timer that calls it *)

RestartUninterrupted(t) ==  \* mutant: a start that is under way is left to it
  /\ pc[t] = "restart"
  /\ Goes(t, IF userSelectedRunning /\ shut = {} THEN "sleeping"
             ELSE IF t \in Bodies THEN "finally" ELSE "idle")
  /\ UNCHANGED <<wanted, running, queue, shut, cloud, timer, after, crossed>>

(* stop() has returned.  A body whose own executor it has shut down is *)
(* interrupted: its sleep throws, and it does not start.               *)
Restart(t) ==
  /\ pc[t] = "restart"
  /\ Goes(t, IF userSelectedRunning /\ t \notin {Body(s) : s \in shut} THEN "sleeping"
             ELSE IF t \in Bodies THEN "finally" ELSE "idle")
  /\ UNCHANGED <<wanted, running, queue, shut, cloud, timer, after, crossed>>

(* The two seconds are over. *)
Sleep(t) ==
  /\ pc[t] = "sleeping"
  /\ IF userSelectedRunning
     THEN tasks < MaxTasks /\ tasks' = tasks + 1
     ELSE UNCHANGED tasks
  /\ Goes(t, IF t \in Bodies THEN "finally" ELSE "idle")
  /\ UNCHANGED <<wanted, running, starting, started, shut, cloud,
                 timer, after, crossed>>

(* Twenty seconds without a heartbeat, for a timer that was not cancelled. *)
TimerFires(m) ==
  /\ pc[TimerTask(m)] = "idle"
  /\ \/ armed /\ armed' = FALSE /\ UNCHANGED strays
     \/ strays > 0 /\ strays' = strays - 1 /\ UNCHANGED armed
  /\ Calls(TimerTask(m), "stop", "restart")
  /\ UNCHANGED <<wanted, running, queue, shut, cloud, crossed>>

(* resetCloudProxySessionTimeout: the timer in the field is cancelled... *)
CancelTimer(t) ==
  /\ pc[t] = "reset"
  /\ armed' = FALSE
  /\ Goes(t, "arming")
  /\ UNCHANGED <<wanted, running, queue, shut, cloud, strays, after, crossed>>

(* ... and replaced, with whatever timer another thread has put there since. *)
StartTimer(t) ==
  /\ pc[t] = "arming"
  /\ armed' = TRUE
  /\ strays' = IF armed THEN strays + 1 ELSE strays
  /\ Returns(t)
  /\ UNCHANGED <<wanted, running, queue, shut, cloud, crossed>>

-----------------------------------------------------------------------------
(* CloudInputProcess.onMessage *)

Hears(s) == \E c \in open : <<s, c>> \in listening

Heartbeat(s) ==
  /\ "heartbeat" \in setting.sources
  /\ Hears(s)
  /\ pc[Listener(s)] = "idle"
  /\ heartbeats < MaxHeartbeats
  /\ heartbeats' = heartbeats + 1
  /\ Calls(Listener(s), "reset", "idle")
  /\ UNCHANGED <<wanted, running, queue, shut, connection, session, cip,
                 open, listening, timer, crossed>>

(* A request that cannot be passed on to the web server: restart(). *)
RelayFails(s) ==
  /\ "relay" \in setting.sources
  /\ Hears(s)
  /\ pc[Listener(s)] = "idle"
  /\ Calls(Listener(s), "stop", "restart")
  /\ UNCHANGED <<wanted, running, queue, shut, cloud, timer, crossed>>

-----------------------------------------------------------------------------
GoesOn(t) ==
  \/ Start(t)
  \/ Stop(t) \/ StopTimer(t) \/ MarkStopped(t) \/ ShutDown(t) \/ CloseConnection(t)
  \/ Restart(t) \/ Sleep(t)
  \/ CancelTimer(t) \/ StartTimer(t)

Runs(s) ==
  \/ Begin(s) \/ GetConnection(s) \/ OpenSession(s) \/ CannotConnect(s)
  \/ ProductKeyAccepted(s) \/ ProductKeyRefused(s) \/ LoginFails(s)
  \/ Finally(s)

Next ==
  \/ \E r \in Requests : RequestStart(r) \/ RequestStop(r)
  \/ RestartStops \/ RestartStarts
  \/ TakeTask \/ Execute
  \/ \E m \in Timers : TimerFires(m)
  \/ \E s \in Starts : Runs(s) \/ Heartbeat(s) \/ RelayFails(s)
  \/ \E t \in Threads : GoesOn(t)

Spec == Init /\ [][Next]_vars

(***************************************************************************)
(* Threads go on, timers fire, and the calls a body makes of the broker    *)
(* return or throw.  No request need come and no Cloud be heard of.        *)
(***************************************************************************)
Fairness ==
  /\ WF_vars(RestartStarts)
  /\ WF_vars(TakeTask)
  /\ WF_vars(Execute)
  /\ \A m \in Timers : WF_vars(TimerFires(m))
  /\ \A s \in Starts : WF_vars(Runs(s))
  /\ \A t \in Threads : WF_vars(GoesOn(t))

FairSpec == Spec /\ Fairness
-----------------------------------------------------------------------------
(* Properties. *)

(* Every variable has its type. *)
TypeOK ==
  /\ setting \in Settings
  /\ userSelectedRunning \in BOOLEAN
  /\ running \in BOOLEAN
  /\ tasks \in 0 .. MaxTasks
  /\ started \in 0 .. MaxStarts
  /\ starting \in {0, started}
  /\ shut \subseteq 0 .. started
  /\ connection \in 0 .. MaxStarts
  /\ session \in 0 .. MaxStarts
  /\ cip \in 0 .. MaxStarts
  /\ open \subseteq Starts
  /\ listening \subseteq Starts \X Starts
  /\ armed \in BOOLEAN
  /\ strays \in Nat
  /\ heartbeats \in 0 .. MaxHeartbeats
  /\ pc \in [Threads -> StopPcs \union
       {"idle", "waiting", "start", "queued", "connecting", "opening", "login", "finally",
        "restart", "sleeping", "reset", "arming"}]
  /\ after \in [Threads -> {"idle", "waiting", "finally", "restart"}]
  /\ crossed \in BOOLEAN

(* Thread t will call start() or set the timer, if the proxy is wanted. *)
WillStart(t) ==
  \/ pc[t] \in {"waiting", "start", "queued", "connecting", "opening", "login", "finally",
                "restart", "sleeping", "reset", "arming"}
  \/ pc[t] \in StopPcs /\ after[t] # "idle"

(* Start that is being made will have its body executed. *)
WillExecute == starting # 0 /\ starting \notin shut

Promised ==
  armed \/ strays > 0 \/ tasks > 0 \/ WillExecute \/ \E t \in Threads : WillStart(t)

(***************************************************************************)
(* A proxy that is wanted is never forgotten.  However requests, restarts, *)
(* heartbeats, timers and the bodies of starts overlap, there is a timer   *)
(* to start it over, or a task or a thread that will start it or a timer - *)
(* unless the start that asked for it crossed a stop.                      *)
(***************************************************************************)
NeverForgotten == userSelectedRunning /\ ~crossed => Promised

(* Only a request's stop is followed by nothing. *)
StopsGoOn ==
  \A t \in Threads :
    pc[t] \in StopPcs /\ after[t] = "idle" => t \in {Request(r) : r \in Requests}

(* What a request has begun to stop is not wanted, or its start crossed the stop. *)
StopIsKnown == UserStopping => ~userSelectedRunning \/ crossed

(* Thread t will set the timer or clear "running". *)
WillSettle(t) ==
  \/ pc[t] \in {"stop", "unarming", "marking", "reset", "arming"}
  \/ t \in Bodies /\ pc[t] \notin {"idle", "queued"}

(* The task that finds the proxy running may leave it to the timer. *)
RunningIsTimed ==
  running => armed \/ strays > 0 \/ \E t \in Threads : WillSettle(t)

(* A start's body is idle until its executor is made, and is no request. *)
BodiesAreStarted ==
  \A s \in Starts :
    /\ s > started \/ s = starting => pc[Body(s)] = "idle"
    /\ pc[Body(s)] # "start"

(* The inductive invariant. *)
IInv ==
  TypeOK /\ StopsGoOn /\ BodiesAreStarted /\ StopIsKnown /\ RunningIsTimed /\ NeverForgotten

(* It tries again, for as long as it is wanted. *)
KeepsTrying ==
  []<>(~userSelectedRunning \/ crossed \/ started = setting.starts)

-----------------------------------------------------------------------------
(* For TLC: one start with all that can happen around it, or two starts with *)
(* what the user does.                                                       *)
Cases ==
  {[sources |-> {"start", "stop", "restart", "heartbeat", "relay"}, starts |-> 1],
   [sources |-> {"start", "stop"}, starts |-> 2]}
=============================================================================
