----------------------- MODULE RecordingServiceProofs -----------------------
(***************************************************************************)
(* What holds of the recording service for any number of requests at a     *)
(* time and of recordings, by the inductive invariant IInv.                *)
(***************************************************************************)
EXTENDS RecordingService, TLAPS

(* The threads of requests and of limits are told apart. *)
LEMMA ThreadsDiffer ==
  /\ \A q \in Requests : Handler(q) \in Threads
  /\ \A r \in Recordings : Limit(r) \in Threads
  /\ \A q \in Requests, r \in Recordings : Handler(q) # Limit(r)
  /\ \A p, q \in Requests : Handler(p) = Handler(q) => p = q
  /\ \A r, s \in Recordings : Limit(r) = Limit(s) => r = s
  /\ \A t \in Threads : (\E q \in Requests : t = Handler(q)) \/ (\E r \in Recordings : t = Limit(r))
  BY DEF Threads, Handler, Limit

(* Nothing is recorded at first, and no thread is at work. *)
LEMMA InitInv == Init => IInv
<1>1. Init => TypeOK
  BY RecordingServiceAssumption DEF Init, TypeOK, Steps, Recordings
<1>2. Init => LaunchedOnce
  BY ThreadsDiffer DEF Init, LaunchedOnce, Bringing, Recordings
<1> QED
  BY <1>1, <1>2 DEF Init, IInv, EntryHasLimit

(* The recording an entry names has been launched. *)
LEMMA EntryLaunched == ASSUME IInv, recording_procs # 0
                       PROVE  recording_procs \in 1 .. launched /\ recording_procs \in Recordings
  BY RecordingServiceAssumption DEF IInv, TypeOK, Recordings

(* So has the recording in the hands of a request's thread. *)
LEMMA HeldLaunched == ASSUME IInv, NEW q \in Requests, pc[Handler(q)] \in {"launched", "stored"}
                      PROVE  /\ proc[Handler(q)] \in 1 .. launched
                             /\ proc[Handler(q)] \in Recordings
                             /\ Bringing(Handler(q), proc[Handler(q)])
<1>1. proc[Handler(q)] \in 0 .. launched
  BY ThreadsDiffer DEF IInv, TypeOK
<1>2. proc[Handler(q)] # 0
  BY DEF IInv, LaunchedOnce
<1>3. launched \in 0 .. MaxRecordings
  BY DEF IInv, TypeOK
<1> QED
  BY <1>1, <1>2, <1>3, RecordingServiceAssumption DEF Recordings, Bringing

(* A thread that looks, or is given a command, changes nothing but its place. *)
LEMMA LookInv == ASSUME NEW q \in Requests, IInv,
                        \/ \E command \in {"start_recording", "end_recording"} : Post(q, command)
                        \/ CheckNotUnderway(q)
                        \/ CheckUnderway(q)
                 PROVE  IInv'
<1>1. PICK to \in {"start_recording", "end_recording", "launching", "finishing", "idle"} :
        Goes(Handler(q), to)
  BY DEF Post, CheckNotUnderway, CheckUnderway
<1>2. UNCHANGED <<recording_procs, launched, ffmpeg, limit, proc>>
  BY DEF Post, CheckNotUnderway, CheckUnderway
<1>3. pc[Handler(q)] \notin {"launched", "stored"}
  BY DEF Post, CheckNotUnderway, CheckUnderway
<1>4. TypeOK'
  BY <1>1, <1>2 DEF Goes, IInv, TypeOK, Steps
<1>5. /\ \A r \in Recordings : pc'[Limit(r)] = pc[Limit(r)]
      /\ \A p \in Requests, r \in Recordings : Bringing(Handler(p), r)' <=> Bringing(Handler(p), r)
  BY <1>1, <1>2, <1>3, ThreadsDiffer DEF Goes, Bringing, IInv, TypeOK
<1>6. LaunchedOnce'
  BY <1>1, <1>2, <1>5, ThreadsDiffer DEF Goes, IInv, TypeOK, LaunchedOnce
<1>7. EntryHasLimit'
  <2>1. \A r \in Recordings : Clearing(r)' <=> Clearing(r)
    BY <1>2, <1>5 DEF Clearing
  <2> QED
    BY <1>2, <1>5, <2>1, EntryLaunched DEF IInv, EntryHasLimit
<1> QED
  BY <1>4, <1>6, <1>7 DEF IInv

(* A recording that is launched is in one request's hands, and new. *)
LEMMA LaunchInv == ASSUME NEW q \in Requests, IInv, Launch(q)
                   PROVE  IInv'
<1>1. launched' = launched + 1 /\ launched' \in Recordings
  BY RecordingServiceAssumption DEF Launch, IInv, TypeOK, Recordings
<1>2. TypeOK'
  BY <1>1, ThreadsDiffer DEF Launch, Goes, IInv, TypeOK, Steps, Recordings
<1>3. /\ pc'[Handler(q)] = "launched" /\ proc'[Handler(q)] = launched'
      /\ \A t \in Threads : t # Handler(q) => pc'[t] = pc[t] /\ proc'[t] = proc[t]
  BY <1>1, ThreadsDiffer DEF Launch, Goes, IInv, TypeOK
<1>4. LaunchedOnce'
  <2>1. \A r \in Recordings : ffmpeg'[r] = "none" <=> r > launched'
    BY <1>1 DEF Launch, IInv, TypeOK, LaunchedOnce, Recordings
  <2>2. \A p \in Requests : \A r \in Recordings :
          Bringing(Handler(p), r)' => r <= launched' /\ (p # q => r <= launched)
    BY <1>1, <1>3, ThreadsDiffer DEF Bringing, IInv, TypeOK, Recordings
  <2>3. \A r \in Recordings : Bringing(Handler(q), r)' <=> r = launched'
    BY <1>3 DEF Bringing
  <2>4. \A p \in Requests : \A r \in Recordings : p # q =>
          (Bringing(Handler(p), r)' <=> Bringing(Handler(p), r))
    BY <1>3, ThreadsDiffer DEF Bringing
  <2>5. \A r \in Recordings : limit'[r] # "off" =>
          r <= launched' /\ \A p \in Requests : ~Bringing(Handler(p), r)'
    BY <1>1, <2>3, <2>4 DEF Launch, IInv, TypeOK, LaunchedOnce, Recordings
  <2>6. \A p1, p2 \in Requests : \A r \in Recordings :
          Bringing(Handler(p1), r)' /\ Bringing(Handler(p2), r)' => p1 = p2
    BY <1>1, <2>2, <2>3, <2>4 DEF IInv, TypeOK, LaunchedOnce, Recordings
  <2>7. /\ \A r \in Recordings : limit'[r] # "fired" => pc'[Limit(r)] = "idle"
        /\ \A r \in Recordings : pc'[Limit(r)] \in {"idle", "finishing", "waiting"}
    BY <1>3, ThreadsDiffer DEF Launch, IInv, LaunchedOnce
  <2>8. /\ \A p \in Requests : pc'[Handler(p)] \in {"launched", "stored"} => proc'[Handler(p)] # 0
        /\ \A t \in Threads : pc'[t] = "waiting" => proc'[t] # 0
    BY <1>1, <1>3, ThreadsDiffer DEF IInv, TypeOK, LaunchedOnce, Recordings
  <2> QED
    BY <2>1, <2>5, <2>6, <2>7, <2>8 DEF LaunchedOnce
<1>5. EntryHasLimit'
  <2>1. \A r \in Recordings : Clearing(r)' <=> Clearing(r)
    BY <1>3, ThreadsDiffer DEF Clearing
  <2>2. \A p \in Requests, r \in Recordings : Bringing(Handler(p), r) => Bringing(Handler(p), r)'
    BY <1>3, ThreadsDiffer DEF Launch, Bringing
  <2> QED
    BY <2>1, <2>2, EntryLaunched DEF Launch, IInv, EntryHasLimit
<1> QED
  BY <1>2, <1>4, <1>5 DEF IInv

(* What is stored is in its request's hands until its limit is started. *)
LEMMA StoreInv == ASSUME NEW q \in Requests, IInv, Store(q)
                  PROVE  IInv'
<1>1. proc[Handler(q)] \in 1 .. launched
  BY HeldLaunched DEF Store
<1>2. TypeOK'
  <2>1. recording_procs' \in 0 .. launched'
    BY <1>1 DEF Store
  <2>2. pc' \in [Threads -> Steps]
    BY DEF Store, Goes, IInv, TypeOK, Steps
  <2> QED
    BY <2>1, <2>2 DEF Store, IInv, TypeOK
<1>3. /\ pc'[Handler(q)] = "stored"
      /\ \A t \in Threads : t # Handler(q) => pc'[t] = pc[t]
  BY ThreadsDiffer DEF Store, Goes, IInv, TypeOK
<1>4. \A p \in Requests, r \in Recordings : Bringing(Handler(p), r)' <=> Bringing(Handler(p), r)
  BY <1>3, ThreadsDiffer DEF Store, Bringing
<1>5. LaunchedOnce'
  <2>1. \A p \in Requests : pc'[Handler(p)] \in {"launched", "stored"} => proc'[Handler(p)] # 0
    BY <1>1, <1>3, ThreadsDiffer DEF Store, IInv, LaunchedOnce
  <2>2. /\ \A r \in Recordings : pc'[Limit(r)] = pc[Limit(r)]
        /\ \A t \in Threads : pc'[t] = "waiting" => proc'[t] # 0
    BY <1>3, ThreadsDiffer DEF Store, IInv, LaunchedOnce
  <2> QED
    BY <1>4, <2>1, <2>2 DEF Store, IInv, LaunchedOnce
<1>6. EntryHasLimit'
  <2>1. proc' = proc /\ recording_procs' = proc[Handler(q)]
    BY DEF Store
  <2> QED
    BY <1>3, <2>1 DEF EntryHasLimit, Bringing
<1> QED
  BY <1>2, <1>5, <1>6 DEF IInv

(* The limit's timer takes over from the request. *)
LEMMA StartLimitInv == ASSUME NEW q \in Requests, IInv, StartLimit(q)
                       PROVE  IInv'
<1>1. proc[Handler(q)] \in 1 .. launched /\ proc[Handler(q)] \in Recordings
  BY HeldLaunched DEF StartLimit
<1>2. TypeOK'
  BY <1>1 DEF StartLimit, Goes, IInv, TypeOK, Steps
<1>3. /\ pc'[Handler(q)] = "idle"
      /\ \A t \in Threads : t # Handler(q) => pc'[t] = pc[t]
  BY ThreadsDiffer DEF StartLimit, Goes, IInv, TypeOK
<1>4. /\ \A r \in Recordings : ~Bringing(Handler(q), r)'
      /\ \A p \in Requests, r \in Recordings : p # q =>
           (Bringing(Handler(p), r)' <=> Bringing(Handler(p), r))
  BY <1>3, ThreadsDiffer DEF StartLimit, Bringing
<1>5. Bringing(Handler(q), proc[Handler(q)])
  BY DEF StartLimit, Bringing
<1>6. limit[proc[Handler(q)]] = "off"
  BY <1>1, <1>5 DEF IInv, LaunchedOnce
<1>7. LaunchedOnce'
  <2>1. \A r \in Recordings : pc'[Limit(r)] = pc[Limit(r)]
    BY <1>3, ThreadsDiffer
  <2>2. limit[proc[Handler(q)]] # "fired"
    BY <1>6
  <2>3. \A r \in Recordings : limit'[r] # "fired" => pc'[Limit(r)] = "idle"
    BY <2>1, <2>2 DEF StartLimit, IInv, TypeOK, LaunchedOnce
  <2>4. \A p \in Requests : p # q => ~Bringing(Handler(p), proc[Handler(q)])
    BY <1>1, <1>5 DEF IInv, LaunchedOnce
  <2>5. \A r \in Recordings : limit'[r] # "off" =>
          r <= launched' /\ \A p \in Requests : ~Bringing(Handler(p), r)'
    <3> SUFFICES ASSUME NEW r \in Recordings, limit'[r] # "off"
                 PROVE  r <= launched /\ \A p \in Requests : ~Bringing(Handler(p), r)'
      BY DEF StartLimit
    <3>1. CASE r = proc[Handler(q)]
      BY <1>1, <1>4, <2>4, <3>1
    <3>2. CASE r # proc[Handler(q)]
      <4>1. limit[r] # "off"
        BY <3>2 DEF StartLimit, IInv, TypeOK
      <4> QED
        BY <1>4, <4>1 DEF IInv, LaunchedOnce
    <3> QED
      BY <3>1, <3>2
  <2>6. /\ \A p \in Requests : pc'[Handler(p)] \in {"launched", "stored"} => proc'[Handler(p)] # 0
        /\ \A t \in Threads : pc'[t] = "waiting" => proc'[t] # 0
    BY <1>3, ThreadsDiffer DEF StartLimit, IInv, LaunchedOnce
  <2>7. \A p1, p2 \in Requests : \A r \in Recordings :
          Bringing(Handler(p1), r)' /\ Bringing(Handler(p2), r)' => p1 = p2
    BY <1>4 DEF IInv, LaunchedOnce
  <2> QED
    BY <2>1, <2>3, <2>5, <2>6, <2>7 DEF StartLimit, IInv, LaunchedOnce
<1>8. EntryHasLimit'
  <2> SUFFICES ASSUME recording_procs # 0, limit'[recording_procs] # "armed"
               PROVE  \/ \E p \in Requests : Bringing(Handler(p), recording_procs)'
                      \/ Clearing(recording_procs)'
    BY DEF StartLimit, EntryHasLimit
  <2>1. recording_procs \in Recordings
    BY RecordingServiceAssumption DEF IInv, TypeOK, Recordings
  <2>2. limit[recording_procs] # "armed" /\ recording_procs # proc[Handler(q)]
    BY <1>1, <2>1 DEF StartLimit, IInv, TypeOK
  <2>3. Clearing(recording_procs)' <=> Clearing(recording_procs)
    BY <1>3, <2>1, ThreadsDiffer DEF StartLimit, Clearing
  <2>4. ~Bringing(Handler(q), recording_procs)
    BY <2>2 DEF Bringing
  <2>5. Clearing(recording_procs) \/ \E p \in Requests : Bringing(Handler(p), recording_procs)
    BY <2>2 DEF IInv, EntryHasLimit, StartLimit
  <2>6. \A p \in Requests : Bringing(Handler(p), recording_procs)
          => Bringing(Handler(p), recording_procs)'
    BY <1>4, <2>1, <2>4 DEF StartLimit, Bringing
  <2> QED
    BY <2>3, <2>5, <2>6
<1> QED
  BY <1>2, <1>7, <1>8 DEF IInv

(* A limit that fires is at work to take its recording's entry. *)
LEMMA LimitFiresInv == ASSUME NEW r \in Recordings, IInv, LimitFires(r)
                       PROVE  IInv'
<1>1. TypeOK'
  BY DEF LimitFires, Goes, IInv, TypeOK, Steps
<1>2. /\ pc'[Limit(r)] = "finishing"
      /\ \A t \in Threads : t # Limit(r) => pc'[t] = pc[t]
  BY ThreadsDiffer DEF LimitFires, Goes, IInv, TypeOK
<1>3. \A p \in Requests, s \in Recordings : Bringing(Handler(p), s)' <=> Bringing(Handler(p), s)
  BY <1>2, ThreadsDiffer DEF LimitFires, Bringing
<1>4. LaunchedOnce'
  BY <1>2, <1>3, ThreadsDiffer DEF LimitFires, IInv, TypeOK, LaunchedOnce
<1>5. EntryHasLimit'
  <2> SUFFICES ASSUME recording_procs # 0, recording_procs # r
               PROVE  \/ limit'[recording_procs] = "armed"
                      \/ \E q \in Requests : Bringing(Handler(q), recording_procs)'
                      \/ Clearing(recording_procs)'
    BY <1>2 DEF LimitFires, EntryHasLimit, Clearing
  <2>1. recording_procs \in Recordings
    BY RecordingServiceAssumption DEF IInv, TypeOK, Recordings
  <2> QED
    BY <1>2, <1>3, <2>1, ThreadsDiffer
    DEF LimitFires, IInv, TypeOK, EntryHasLimit, Clearing
<1> QED
  BY <1>1, <1>4, <1>5 DEF IInv

(* A limit's thread goes on to wait for its own entry, or it has none left. *)
LEMMA InterruptInv == ASSUME NEW t \in Threads, IInv, Interrupt(t)
                      PROVE  IInv'
<1>1. CASE recording_procs = 0
  <2>1. TypeOK'
    BY <1>1 DEF Interrupt, Goes, IInv, TypeOK, Steps
  <2>2. /\ pc'[t] = "idle" /\ proc' = proc
        /\ \A u \in Threads : u # t => pc'[u] = pc[u]
    BY <1>1 DEF Interrupt, Goes, IInv, TypeOK
  <2>3. \A q \in Requests, r \in Recordings :
          Bringing(Handler(q), r)' <=> Bringing(Handler(q), r)
    BY <2>2, ThreadsDiffer DEF Interrupt, Bringing
  <2>4. LaunchedOnce'
    BY <1>1, <2>2, <2>3, ThreadsDiffer DEF Interrupt, IInv, LaunchedOnce
  <2> QED
    BY <1>1, <2>1, <2>4 DEF Interrupt, IInv, EntryHasLimit
<1>2. CASE recording_procs # 0
  <2>1. recording_procs \in 1 .. launched /\ recording_procs \in Recordings
    BY <1>2, RecordingServiceAssumption DEF IInv, TypeOK, Recordings
  <2>2. TypeOK'
    BY <1>2, <2>1 DEF Interrupt, Goes, IInv, TypeOK, Steps
  <2>3. /\ pc'[t] = "waiting" /\ proc'[t] = recording_procs
        /\ \A u \in Threads : u # t => pc'[u] = pc[u] /\ proc'[u] = proc[u]
    BY <1>2, <2>1 DEF Interrupt, Goes, IInv, TypeOK
  <2>4. \A q \in Requests, r \in Recordings :
          Bringing(Handler(q), r)' <=> Bringing(Handler(q), r)
    BY <2>3, ThreadsDiffer DEF Interrupt, Bringing
  <2>5. \A r \in Recordings : ffmpeg'[r] = "none" <=> ffmpeg[r] = "none"
    BY <1>2, <2>1 DEF Interrupt, IInv, TypeOK
  <2>6. LaunchedOnce'
    BY <2>1, <2>3, <2>4, <2>5, ThreadsDiffer DEF Interrupt, IInv, TypeOK, LaunchedOnce
  <2>7. Clearing(recording_procs) => Clearing(recording_procs)'
    BY <2>1, <2>3, ThreadsDiffer DEF Interrupt, Clearing
  <2>8. EntryHasLimit'
    BY <2>1, <2>4, <2>7 DEF Interrupt, IInv, EntryHasLimit
  <2> QED
    BY <2>2, <2>6, <2>8 DEF IInv
<1> QED
  BY <1>1, <1>2

(* An ffmpeg that exits was launched before. *)
LEMMA FfmpegExitsInv == ASSUME NEW r \in Recordings, IInv, FfmpegExits(r)
                        PROVE  IInv'
  BY DEF FfmpegExits, IInv, TypeOK, LaunchedOnce, EntryHasLimit, Bringing, Clearing

(* The thread that has taken the entry leaves none to account for. *)
LEMMA PopInv == ASSUME NEW t \in Threads, IInv, Pop(t)
                PROVE  IInv'
<1>1. TypeOK'
  BY DEF Pop, Goes, IInv, TypeOK, Steps
<1>2. /\ pc'[t] = "idle" /\ proc' = proc
      /\ \A u \in Threads : u # t => pc'[u] = pc[u]
  BY DEF Pop, Goes, IInv, TypeOK
<1>3. \A q \in Requests, r \in Recordings :
        Bringing(Handler(q), r)' <=> Bringing(Handler(q), r)
  BY <1>2, ThreadsDiffer DEF Pop, Bringing
<1>4. LaunchedOnce'
  BY <1>2, <1>3, ThreadsDiffer DEF Pop, IInv, LaunchedOnce
<1> QED
  BY <1>1, <1>4 DEF Pop, IInv, EntryHasLimit

(* The inductive invariant holds throughout. *)
THEOREM Invariance == Spec => []IInv
<1>1. Init => IInv
  BY InitInv
<1>2. IInv /\ [Next]_vars => IInv'
  <2> SUFFICES ASSUME IInv, [Next]_vars PROVE IInv'
    OBVIOUS
  <2>1. ASSUME NEW q \in Requests, NEW command \in {"start_recording", "end_recording"},
               Post(q, command)
        PROVE  IInv'
    BY <2>1, LookInv
  <2>2. ASSUME NEW q \in Requests, Handles(q)
        PROVE  IInv'
    BY <2>2, LookInv, LaunchInv, StoreInv, StartLimitInv DEF Handles
  <2>3. ASSUME NEW r \in Recordings, LimitFires(r) \/ FfmpegExits(r)
        PROVE  IInv'
    BY <2>3, LimitFiresInv, FfmpegExitsInv
  <2>4. ASSUME NEW t \in Threads, Interrupt(t) \/ Pop(t)
        PROVE  IInv'
    BY <2>4, InterruptInv, PopInv
  <2>5. CASE UNCHANGED vars
    BY <2>5 DEF vars, IInv, TypeOK, LaunchedOnce, EntryHasLimit, Bringing, Clearing
  <2> QED
    BY <2>1, <2>2, <2>3, <2>4, <2>5 DEF Next, Serve
<1> QED
  BY <1>1, <1>2, PTL DEF Spec

(***************************************************************************)
(* No camera is locked out of recording: the recording its entry names     *)
(* always has its fifteen minute limit before it, or a thread at work to   *)
(* take the entry away.                                                    *)
(***************************************************************************)
THEOREM EntriesAreLimited == Spec => []EntryHasLimit
<1>1. IInv => EntryHasLimit
  BY DEF IInv
<1> QED
  BY <1>1, Invariance, PTL
=============================================================================
