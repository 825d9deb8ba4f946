---------------------------- MODULE FtpRecording ----------------------------
(***************************************************************************)
(* The FTP side of the camera recordings service, for one camera           *)
(* (camera-recordings-service.py, FTPAndVideoFileProcessor): an uploaded   *)
(* picture starts an ffmpeg, or extends the recording under way by another *)
(* retrigger window.                                                       *)
(*                                                                         *)
(* Each FTP connection is served by a thread of its own, and each window   *)
(* that ends runs finish_recording on a timer's thread; they share         *)
(* processDict with no lock.  A recording is the number of the Popen call  *)
(* that started it; its ResettableTimer goes by the same number.           *)
(***************************************************************************)
EXTENDS Integers

CONSTANTS
  Uploads,       \* FTP connections that may be uploading at a time
  MaxFtpRecordings, \* bound of the model: the number of ffmpegs started
  MaxFinishing   \* bound of the model: the threads that wait for one ffmpeg

ASSUME FtpRecordingAssumption ==
  /\ MaxFtpRecordings \in Nat
  /\ MaxFinishing \in Nat \ {0}

VARIABLES
  processDict,  \* the recording whose timer is the camera's entry, 0 if none
  ftpLaunched,     \* number of ffmpegs started
  ftpFfmpeg,       \* what each ffmpeg is doing
  window,       \* the recordings whose retrigger window is running
  finishing,    \* of each recording: the threads in finish_recording's wait
  upload,       \* where each connection's thread is
  subproc       \* the recording each connection's thread is starting

ftpVars == <<processDict, ftpLaunched, ftpFfmpeg, window, finishing, upload, subproc>>

FtpRecordings == 1 .. MaxFtpRecordings

FtpInit ==
  /\ processDict = 0
  /\ ftpLaunched = 0
  /\ ftpFfmpeg = [r \in FtpRecordings |-> "none"]
  /\ window = {}
  /\ finishing = [r \in FtpRecordings |-> 0]
  /\ upload = [u \in Uploads |-> "idle"]
  /\ subproc = [u \in Uploads |-> 0]

Goes(u, to) == upload' = [upload EXCEPT ![u] = to]

-----------------------------------------------------------------------------
(* trigger_recording_from_ftp_file, for a picture *)

Receive(u) ==
  /\ upload[u] = "idle"
  /\ Goes(u, IF processDict = 0 THEN "launching" ELSE "resetting")
  /\ UNCHANGED <<processDict, ftpLaunched, ftpFfmpeg, window, finishing, subproc>>

(* ResettableTimer.reset: the timer that runs is cancelled, a new one started. *)
ResetTimer(r) == window' = window \union {r}

(* The entry may have gone since: the KeyError is logged, and that is all. *)
Reset(u) ==
  /\ upload[u] = "resetting"
  /\ IF processDict = 0 THEN UNCHANGED window ELSE ResetTimer(processDict)
  /\ Goes(u, "idle")
  /\ UNCHANGED <<processDict, ftpLaunched, ftpFfmpeg, finishing, subproc>>

Launch(u) ==
  /\ upload[u] = "launching"
  /\ ftpLaunched < MaxFtpRecordings
  /\ ftpLaunched' = ftpLaunched + 1
  /\ ftpFfmpeg' = [ftpFfmpeg EXCEPT ![ftpLaunched + 1] = "running"]
  /\ subproc' = [subproc EXCEPT ![u] = ftpLaunched + 1]
  /\ Goes(u, "launched")
  /\ UNCHANGED <<processDict, window, finishing>>

StartFtpTimerNever(u) ==  \* mutant: the timer is made and not started
  /\ upload[u] = "launched"
  /\ processDict' = subproc[u]
  /\ Goes(u, "idle")
  /\ UNCHANGED <<ftpLaunched, ftpFfmpeg, window, finishing, subproc>>

(* No window is short enough to end between the two statements. *)
StartFtpTimer(u) ==
  /\ upload[u] = "launched"
  /\ window' = window \union {subproc[u]}
  /\ processDict' = subproc[u]
  /\ Goes(u, "idle")
  /\ UNCHANGED <<ftpLaunched, ftpFfmpeg, finishing, subproc>>

-----------------------------------------------------------------------------
(* finish_recording, on the timer's thread *)

WindowEnds(r) ==
  /\ r \in window
  /\ finishing[r] < MaxFinishing
  /\ window' = window \ {r}
  /\ ftpFfmpeg' = [ftpFfmpeg EXCEPT ![r] = IF @ = "running" THEN "interrupted" ELSE @]
  /\ finishing' = [finishing EXCEPT ![r] = @ + 1]
  /\ UNCHANGED <<processDict, ftpLaunched, upload, subproc>>

(* On the interrupt; after its hour (-t 01:00:00); or with its source. *)
FfmpegExits(r) ==
  /\ ftpFfmpeg[r] \in {"running", "interrupted"}
  /\ ftpFfmpeg' = [ftpFfmpeg EXCEPT ![r] = "exited"]
  /\ UNCHANGED <<processDict, ftpLaunched, window, finishing, upload, subproc>>

PopNever(r) ==  \* mutant: the entry stays
  /\ finishing[r] > 0
  /\ ftpFfmpeg[r] = "exited"
  /\ finishing' = [finishing EXCEPT ![r] = @ - 1]
  /\ UNCHANGED <<processDict, ftpLaunched, ftpFfmpeg, window, upload, subproc>>

(* The pop takes the camera's entry, whosever it is; KeyError if there is none. *)
Pop(r) ==
  /\ finishing[r] > 0
  /\ ftpFfmpeg[r] = "exited"
  /\ processDict' = 0
  /\ finishing' = [finishing EXCEPT ![r] = @ - 1]
  /\ UNCHANGED <<ftpLaunched, ftpFfmpeg, window, upload, subproc>>

-----------------------------------------------------------------------------
FtpNext ==
  \/ \E u \in Uploads : Receive(u) \/ Reset(u) \/ Launch(u) \/ StartFtpTimer(u)
  \/ \E r \in FtpRecordings : WindowEnds(r) \/ FfmpegExits(r) \/ Pop(r)

FtpSpec == FtpInit /\ [][FtpNext]_ftpVars

(***************************************************************************)
(* Threads go on, a window that is not reset ends (one that is reset for   *)
(* ever need not: the property below assumes the uploads to stop), and an  *)
(* interrupted ffmpeg exits.                                               *)
(***************************************************************************)
FtpFairness ==
  /\ \A u \in Uploads : WF_ftpVars(Reset(u)) /\ WF_ftpVars(StartFtpTimer(u))
  /\ \A r \in FtpRecordings : /\ WF_ftpVars(WindowEnds(r))
                              /\ WF_ftpVars(ftpFfmpeg[r] = "interrupted" /\ FfmpegExits(r))
                              /\ WF_ftpVars(Pop(r))

FtpFairSpec == FtpSpec /\ FtpFairness
-----------------------------------------------------------------------------
(* Properties. *)

(* Every variable has its type. *)
FtpTypeOK ==
  /\ ftpLaunched \in 0 .. MaxFtpRecordings
  /\ processDict \in 0 .. ftpLaunched
  /\ ftpFfmpeg \in [FtpRecordings -> {"none", "running", "interrupted", "exited"}]
  /\ window \subseteq 1 .. ftpLaunched
  /\ finishing \in [FtpRecordings -> 0 .. MaxFinishing]
  /\ upload \in [Uploads -> {"idle", "resetting", "launching", "launched"}]
  /\ subproc \in [Uploads -> 0 .. ftpLaunched]
  /\ \A u \in Uploads : upload[u] = "launched" => subproc[u] # 0

(***************************************************************************)
(* No camera is locked out: however uploads and the ends of windows        *)
(* overlap, the recording an entry names has a window running or a thread  *)
(* at work to take the entry away.                                         *)
(***************************************************************************)
EntryHasWindow ==
  processDict # 0 => processDict \in window \/ finishing[processDict] > 0

(***************************************************************************)
(* No ffmpeg is forgotten: one that records is going to be interrupted by  *)
(* its own window's end, even if its entry was taken by another's.         *)
(***************************************************************************)
RecordingHasWindow ==
  \A r \in FtpRecordings : ftpFfmpeg[r] = "running" =>
    r \in window \/ \E u \in Uploads : upload[u] = "launched" /\ subproc[u] = r

(* The inductive invariant: a recording was launched before it has anything. *)
FtpInv ==
  /\ FtpTypeOK
  /\ \A r \in FtpRecordings : r > ftpLaunched => ftpFfmpeg[r] = "none" /\ finishing[r] = 0
  /\ EntryHasWindow
  /\ RecordingHasWindow

(* When the uploads stop, the camera's recordings stop and its entry goes. *)
RecordingEnds ==
  <>[](\A u \in Uploads : upload[u] = "idle")
    => <>[](processDict = 0 /\ \A r \in FtpRecordings : ftpFfmpeg[r] # "running")
=============================================================================
