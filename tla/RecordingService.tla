-------------------------- MODULE RecordingService --------------------------
(***************************************************************************)
(* The HTTP side of the camera recordings service, for one camera          *)
(* (camera-recordings-service.py, HttpHandler): motion or a pull point     *)
(* event asks it to start and to end an ffmpeg that records the delayed    *)
(* stream of the media server.                                             *)
(*                                                                         *)
(* ThreadingHTTPServer handles each POST on a thread of its own, and each  *)
(* fifteen minute limit is a timer thread; they share recording_procs with *)
(* no lock.  A recording is the number of the Popen call that started it.  *)
(***************************************************************************)
EXTENDS Integers

CONSTANTS
  Requests,      \* the POST handlers that may be at work at a time
  MaxRecordings  \* bound of the model: the number of ffmpegs started

ASSUME RecordingServiceAssumption == MaxRecordings \in Nat

VARIABLES
  recording_procs,  \* the recording of the camera's entry, 0 if it has none
  launched,         \* number of ffmpegs started
  ffmpeg,           \* what each ffmpeg is doing
  limit,            \* the fifteen minute timer of each recording
  pc,               \* where each thread is
  proc              \* the subprocess in each thread's hands

vars == <<recording_procs, launched, ffmpeg, limit, pc, proc>>

Recordings == 1 .. MaxRecordings
Handler(q) == <<"request", q>>
Limit(r) == <<"limit", r>>
Threads == {Handler(q) : q \in Requests} \union {Limit(r) : r \in Recordings}

Init ==
  /\ recording_procs = 0
  /\ launched = 0
  /\ ffmpeg = [r \in Recordings |-> "none"]
  /\ limit = [r \in Recordings |-> "off"]
  /\ pc = [t \in Threads |-> "idle"]
  /\ proc = [t \in Threads |-> 0]

Goes(t, to) == pc' = [pc EXCEPT ![t] = to]

Post(q, command) ==
  /\ pc[Handler(q)] = "idle"
  /\ Goes(Handler(q), command)
  /\ UNCHANGED <<recording_procs, launched, ffmpeg, limit, proc>>

-----------------------------------------------------------------------------
(* start_recording *)

(* With an entry, the answer is 400, "Recording already underway". *)
CheckNotUnderway(q) ==
  /\ pc[Handler(q)] = "start_recording"
  /\ Goes(Handler(q), IF recording_procs = 0 THEN "launching" ELSE "idle")
  /\ UNCHANGED <<recording_procs, launched, ffmpeg, limit, proc>>

Launch(q) ==
  /\ pc[Handler(q)] = "launching"
  /\ launched < MaxRecordings
  /\ launched' = launched + 1
  /\ ffmpeg' = [ffmpeg EXCEPT ![launched + 1] = "running"]
  /\ proc' = [proc EXCEPT ![Handler(q)] = launched + 1]
  /\ Goes(Handler(q), "launched")
  /\ UNCHANGED <<recording_procs, limit>>

Store(q) ==
  /\ pc[Handler(q)] = "launched"
  /\ recording_procs' = proc[Handler(q)]
  /\ Goes(Handler(q), "stored")
  /\ UNCHANGED <<launched, ffmpeg, limit, proc>>

StartLimitNever(q) ==  \* mutant: the timer is made and not started
  /\ pc[Handler(q)] = "stored"
  /\ Goes(Handler(q), "idle")
  /\ UNCHANGED <<recording_procs, launched, ffmpeg, limit, proc>>

StartLimit(q) ==
  /\ pc[Handler(q)] = "stored"
  /\ limit' = [limit EXCEPT ![proc[Handler(q)]] = "armed"]
  /\ Goes(Handler(q), "idle")
  /\ UNCHANGED <<recording_procs, launched, ffmpeg, proc>>

-----------------------------------------------------------------------------
(* end_recording, and the end of the fifteen minutes *)

(* With no entry, the answer is 400, "No recording process exists". *)
CheckUnderway(q) ==
  /\ pc[Handler(q)] = "end_recording"
  /\ Goes(Handler(q), IF recording_procs = 0 THEN "idle" ELSE "finishing")
  /\ UNCHANGED <<recording_procs, launched, ffmpeg, limit, proc>>

(* Nothing cancels the timer when the recording ends before. *)
LimitFires(r) ==
  /\ limit[r] = "armed"
  /\ limit' = [limit EXCEPT ![r] = "fired"]
  /\ Goes(Limit(r), "finishing")
  /\ UNCHANGED <<recording_procs, launched, ffmpeg, proc>>

(***************************************************************************)
(* finish_recording, up to the wait: it interrupts the process the entry   *)
(* has by then, and does nothing if there is none.  (The entry may go      *)
(* between the lookup and the read, too: a KeyError, to the same effect.)  *)
(***************************************************************************)
Interrupt(t) ==
  /\ pc[t] = "finishing"
  /\ IF recording_procs = 0
     THEN /\ Goes(t, "idle")
          /\ UNCHANGED <<ffmpeg, proc>>
     ELSE /\ Goes(t, "waiting")
          /\ proc' = [proc EXCEPT ![t] = recording_procs]
          /\ ffmpeg' = [ffmpeg EXCEPT ![recording_procs] =
                          IF @ = "running" THEN "interrupted" ELSE @]
  /\ UNCHANGED <<recording_procs, launched, limit>>

(* On the interrupt; after its hour (-t 01:00:00); or with its source. *)
FfmpegExits(r) ==
  /\ ffmpeg[r] \in {"running", "interrupted"}
  /\ ffmpeg' = [ffmpeg EXCEPT ![r] = "exited"]
  /\ UNCHANGED <<recording_procs, launched, limit, pc, proc>>

PopNever(t) ==  \* mutant: the entry stays
  /\ pc[t] = "waiting"
  /\ ffmpeg[proc[t]] = "exited"
  /\ Goes(t, "idle")
  /\ UNCHANGED <<recording_procs, launched, ffmpeg, limit, proc>>

(* The pop takes the entry, whosever it is; a KeyError ends the thread. *)
Pop(t) ==
  /\ pc[t] = "waiting"
  /\ ffmpeg[proc[t]] = "exited"
  /\ recording_procs' = 0
  /\ Goes(t, "idle")
  /\ UNCHANGED <<launched, ffmpeg, limit, proc>>

-----------------------------------------------------------------------------
Handles(q) ==
  \/ CheckNotUnderway(q)
  \/ Launch(q)
  \/ Store(q)
  \/ StartLimit(q)
  \/ CheckUnderway(q)

(* What the service does of itself. *)
Serve ==
  \/ \E q \in Requests : Handles(q)
  \/ \E r \in Recordings : LimitFires(r) \/ FfmpegExits(r)
  \/ \E t \in Threads : Interrupt(t) \/ Pop(t)

Next ==
  \/ \E q \in Requests, command \in {"start_recording", "end_recording"} : Post(q, command)
  \/ Serve

Spec == Init /\ [][Next]_vars

(* Threads go on, timers fire, and an interrupted ffmpeg exits. *)
Fairness ==
  /\ \A q \in Requests : WF_vars(CheckNotUnderway(q)) /\ WF_vars(Store(q))
                         /\ WF_vars(StartLimit(q)) /\ WF_vars(CheckUnderway(q))
  /\ \A r \in Recordings : /\ WF_vars(LimitFires(r))
                           /\ WF_vars(ffmpeg[r] = "interrupted" /\ FfmpegExits(r))
  /\ \A t \in Threads : WF_vars(Interrupt(t)) /\ WF_vars(Pop(t))

FairSpec == Spec /\ Fairness
-----------------------------------------------------------------------------
(* Properties. *)

Steps == {"idle", "start_recording", "launching", "launched", "stored",
          "end_recording", "finishing", "waiting"}

(* Every variable has its type. *)
TypeOK ==
  /\ launched \in 0 .. MaxRecordings
  /\ recording_procs \in 0 .. launched
  /\ ffmpeg \in [Recordings -> {"none", "running", "interrupted", "exited"}]
  /\ limit \in [Recordings -> {"off", "armed", "fired"}]
  /\ pc \in [Threads -> Steps]
  /\ proc \in [Threads -> 0 .. launched]

(* Thread t has recording r and is yet to store it, or to start its limit. *)
Bringing(t, r) == proc[t] = r /\ pc[t] \in {"launched", "stored"}

(* The limit's thread of recording r is going to take the camera's entry. *)
Clearing(r) == pc[Limit(r)] = "finishing" \/ (pc[Limit(r)] = "waiting" /\ proc[Limit(r)] = r)

(***************************************************************************)
(* No camera is locked out.  However the requests and the limits overlap,  *)
(* the recording an entry names has its fifteen minute limit before it:    *)
(* its timer is about to be started, or runs, or its thread is at work     *)
(* to take this very entry.  An end_recording that never comes leaves the  *)
(* camera's "already underway" for fifteen minutes and not for good.       *)
(***************************************************************************)
EntryHasLimit ==
  recording_procs # 0 =>
    \/ limit[recording_procs] = "armed"
    \/ \E q \in Requests : Bringing(Handler(q), recording_procs)
    \/ Clearing(recording_procs)

(* The camera's entry goes, with no end_recording asked for. *)
EntryIsReleased == recording_procs # 0 ~> recording_procs = 0

(* A recording is launched, stored and limited by one thread, in that order. *)
LaunchedOnce ==
  /\ \A r \in Recordings : ffmpeg[r] = "none" <=> r > launched
  /\ \A r \in Recordings : limit[r] # "off" =>
       /\ r <= launched
       /\ \A q \in Requests : ~Bringing(Handler(q), r)
  /\ \A r \in Recordings : limit[r] # "fired" => pc[Limit(r)] = "idle"
  /\ \A r \in Recordings : pc[Limit(r)] \in {"idle", "finishing", "waiting"}
  /\ \A q \in Requests : pc[Handler(q)] \in {"launched", "stored"} => proc[Handler(q)] # 0
  /\ \A t \in Threads : pc[t] = "waiting" => proc[t] # 0
  /\ \A p, q \in Requests : \A r \in Recordings :
       Bringing(Handler(p), r) /\ Bringing(Handler(q), r) => p = q

IInv == TypeOK /\ LaunchedOnce /\ EntryHasLimit

(***************************************************************************)
(* "Limit the max recording time to 15 minutes"                            *)
(* (camera-recordings-service.py:221): what the end of the fifteen minutes *)
(* of a recording interrupts is that recording.                            *)
(***************************************************************************)
LimitEndsItsOwn ==
  [][\A r, s \in Recordings :
       (/\ pc[Limit(r)] = "finishing" /\ pc'[Limit(r)] = "waiting"
        /\ ffmpeg[s] = "running" /\ ffmpeg'[s] = "interrupted") => s = r]_vars
=============================================================================
