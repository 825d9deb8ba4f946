-------------------------- MODULE CloudProxyProofs --------------------------
(***************************************************************************)
(* The proof that a cloud proxy that is wanted is never forgotten, for any *)
(* number of requests, timers, starts and heartbeats.                      *)
(***************************************************************************)
EXTENDS CloudProxy, TLAPS

USE DEF Goes, Calls, Returns, StopPcs, wanted, queue, cloud, timer

(* Threads of one kind are none of another. *)
LEMMA ThreadKinds ==
  /\ \A r \in Requests : Request(r) \in Threads /\ Request(r) \notin Bodies
  /\ RestartTask \in Threads /\ RestartTask \notin Bodies
  /\ \A m \in Timers : TimerTask(m) \in Threads /\ TimerTask(m) \notin Bodies
  /\ \A s \in Starts : Body(s) \in Threads /\ Body(s) \in Bodies
  /\ \A s \in Starts : Listener(s) \in Threads /\ Listener(s) \notin Bodies
  /\ \A r \in Requests :
       /\ \A m \in Timers : Request(r) # TimerTask(m)
       /\ \A s \in Starts : Request(r) # Listener(s)
  /\ \A s, u \in Starts : Body(s) = Body(u) => s = u
BY DEF Threads, Bodies, Request, RestartTask, TimerTask, Body, Listener

(* Every step keeps the types. *)
LEMMA TypeStep ==
  TypeOK /\ [Next]_vars => TypeOK'
<1> SUFFICES ASSUME TypeOK, [Next]_vars PROVE TypeOK'
  OBVIOUS
<1> USE ThreadKinds, CloudProxyAssumption DEF TypeOK, Starts, UserStopping, SettingType
<1>1. ASSUME NEW r \in Requests, RequestStart(r) PROVE TypeOK'
  BY <1>1 DEF RequestStart, UserStart, Request
<1>2. ASSUME NEW r \in Requests, RequestStop(r) PROVE TypeOK'
  BY <1>2 DEF RequestStop, UserStop, Request
<1>3. ASSUME RestartStops PROVE TypeOK'
  BY <1>3 DEF RestartStops, UserStop
<1>4. ASSUME RestartStarts PROVE TypeOK'
  BY <1>4 DEF RestartStarts, UserStart
<1>5. ASSUME TakeTask PROVE TypeOK'
  BY <1>5 DEF TakeTask
<1>6. ASSUME Execute PROVE TypeOK'
  BY <1>6 DEF Execute
<1>7. ASSUME NEW m \in Timers, TimerFires(m) PROVE TypeOK'
  <2>1. CASE armed /\ armed' = FALSE /\ UNCHANGED strays
    BY <1>7, <2>1 DEF TimerFires
  <2>2. CASE strays > 0 /\ strays' = strays - 1 /\ UNCHANGED armed
    BY <1>7, <2>2 DEF TimerFires
  <2> QED
    BY <1>7, <2>1, <2>2 DEF TimerFires
<1>8. ASSUME NEW s \in Starts, Begin(s) PROVE TypeOK'
  BY <1>8 DEF Begin
<1>9. ASSUME NEW s \in Starts, GetConnection(s) PROVE TypeOK'
  BY <1>9 DEF GetConnection
<1>10. ASSUME NEW s \in Starts, OpenSession(s) PROVE TypeOK'
  BY <1>10 DEF OpenSession
<1>11. ASSUME NEW s \in Starts, CannotConnect(s) PROVE TypeOK'
  BY <1>11 DEF CannotConnect
<1>12. ASSUME NEW s \in Starts, ProductKeyAccepted(s) PROVE TypeOK'
  BY <1>12 DEF ProductKeyAccepted
<1>13. ASSUME NEW s \in Starts, ProductKeyRefused(s) PROVE TypeOK'
  BY <1>13 DEF ProductKeyRefused
<1>14. ASSUME NEW s \in Starts, LoginFails(s) PROVE TypeOK'
  BY <1>14 DEF LoginFails
<1>15. ASSUME NEW s \in Starts, Finally(s) PROVE TypeOK'
  BY <1>15 DEF Finally
<1>16. ASSUME NEW s \in Starts, Heartbeat(s) PROVE TypeOK'
  BY <1>16 DEF Heartbeat
<1>17. ASSUME NEW s \in Starts, RelayFails(s) PROVE TypeOK'
  BY <1>17 DEF RelayFails
<1>18. ASSUME NEW t \in Threads, Start(t) PROVE TypeOK'
  BY <1>18 DEF Start
<1>19. ASSUME NEW t \in Threads, Stop(t) PROVE TypeOK'
  BY <1>19 DEF Stop
<1>20. ASSUME NEW t \in Threads, StopTimer(t) PROVE TypeOK'
  BY <1>20 DEF StopTimer
<1>21. ASSUME NEW t \in Threads, MarkStopped(t) PROVE TypeOK'
  BY <1>21 DEF MarkStopped
<1>22. ASSUME NEW t \in Threads, ShutDown(t) PROVE TypeOK'
  BY <1>22 DEF ShutDown
<1>23. ASSUME NEW t \in Threads, CloseConnection(t) PROVE TypeOK'
  BY <1>23 DEF CloseConnection
<1>24. ASSUME NEW t \in Threads, Restart(t) PROVE TypeOK'
  BY <1>24 DEF Restart
<1>25. ASSUME NEW t \in Threads, Sleep(t) PROVE TypeOK'
  BY <1>25 DEF Sleep
<1>26. ASSUME NEW t \in Threads, CancelTimer(t) PROVE TypeOK'
  BY <1>26 DEF CancelTimer
<1>27. ASSUME NEW t \in Threads, StartTimer(t) PROVE TypeOK'
  BY <1>27 DEF StartTimer
<1>28. ASSUME UNCHANGED vars PROVE TypeOK'
  BY <1>28 DEF vars
<1> QED
  BY <1>1, <1>2, <1>3, <1>4, <1>5, <1>6, <1>7, <1>8, <1>9, <1>10, <1>11, <1>12, <1>13, <1>14, <1>15, <1>16, <1>17, <1>18, <1>19, <1>20, <1>21, <1>22, <1>23, <1>24, <1>25, <1>26, <1>27, <1>28 DEF Next, Runs, GoesOn

(* Only a request's stop is followed by nothing. *)
LEMMA StopsGoOnStep ==
  TypeOK /\ StopsGoOn /\ [Next]_vars => StopsGoOn'
<1> SUFFICES ASSUME TypeOK, StopsGoOn, [Next]_vars PROVE StopsGoOn'
  OBVIOUS
<1> USE ThreadKinds DEF StopsGoOn, TypeOK
<1>1. ASSUME NEW r \in Requests, RequestStart(r) PROVE StopsGoOn'
  BY <1>1 DEF RequestStart, UserStart, Request
<1>2. ASSUME NEW r \in Requests, RequestStop(r) PROVE StopsGoOn'
  BY <1>2 DEF RequestStop, UserStop, Request
<1>3. ASSUME RestartStops PROVE StopsGoOn'
  BY <1>3 DEF RestartStops, UserStop
<1>4. ASSUME RestartStarts PROVE StopsGoOn'
  BY <1>4 DEF RestartStarts, UserStart
<1>5. ASSUME TakeTask PROVE StopsGoOn'
  BY <1>5 DEF TakeTask
<1>6. ASSUME Execute PROVE StopsGoOn'
  BY <1>6 DEF Execute
<1>7. ASSUME NEW m \in Timers, TimerFires(m) PROVE StopsGoOn'
  BY <1>7 DEF TimerFires
<1>8. ASSUME NEW s \in Starts, Begin(s) PROVE StopsGoOn'
  BY <1>8 DEF Begin
<1>9. ASSUME NEW s \in Starts, GetConnection(s) PROVE StopsGoOn'
  BY <1>9 DEF GetConnection
<1>10. ASSUME NEW s \in Starts, OpenSession(s) PROVE StopsGoOn'
  BY <1>10 DEF OpenSession
<1>11. ASSUME NEW s \in Starts, CannotConnect(s) PROVE StopsGoOn'
  BY <1>11 DEF CannotConnect
<1>12. ASSUME NEW s \in Starts, ProductKeyAccepted(s) PROVE StopsGoOn'
  BY <1>12 DEF ProductKeyAccepted
<1>13. ASSUME NEW s \in Starts, ProductKeyRefused(s) PROVE StopsGoOn'
  BY <1>13 DEF ProductKeyRefused
<1>14. ASSUME NEW s \in Starts, LoginFails(s) PROVE StopsGoOn'
  BY <1>14 DEF LoginFails
<1>15. ASSUME NEW s \in Starts, Finally(s) PROVE StopsGoOn'
  BY <1>15 DEF Finally
<1>16. ASSUME NEW s \in Starts, Heartbeat(s) PROVE StopsGoOn'
  BY <1>16 DEF Heartbeat
<1>17. ASSUME NEW s \in Starts, RelayFails(s) PROVE StopsGoOn'
  BY <1>17 DEF RelayFails
<1>18. ASSUME NEW t \in Threads, Start(t) PROVE StopsGoOn'
  BY <1>18 DEF Start
<1>19. ASSUME NEW t \in Threads, Stop(t) PROVE StopsGoOn'
  BY <1>19 DEF Stop
<1>20. ASSUME NEW t \in Threads, StopTimer(t) PROVE StopsGoOn'
  BY <1>20 DEF StopTimer
<1>21. ASSUME NEW t \in Threads, MarkStopped(t) PROVE StopsGoOn'
  BY <1>21 DEF MarkStopped
<1>22. ASSUME NEW t \in Threads, ShutDown(t) PROVE StopsGoOn'
  BY <1>22 DEF ShutDown
<1>23. ASSUME NEW t \in Threads, CloseConnection(t) PROVE StopsGoOn'
  BY <1>23 DEF CloseConnection
<1>24. ASSUME NEW t \in Threads, Restart(t) PROVE StopsGoOn'
  BY <1>24 DEF Restart
<1>25. ASSUME NEW t \in Threads, Sleep(t) PROVE StopsGoOn'
  BY <1>25 DEF Sleep
<1>26. ASSUME NEW t \in Threads, CancelTimer(t) PROVE StopsGoOn'
  BY <1>26 DEF CancelTimer
<1>27. ASSUME NEW t \in Threads, StartTimer(t) PROVE StopsGoOn'
  BY <1>27 DEF StartTimer
<1>28. ASSUME UNCHANGED vars PROVE StopsGoOn'
  BY <1>28 DEF vars
<1> QED
  BY <1>1, <1>2, <1>3, <1>4, <1>5, <1>6, <1>7, <1>8, <1>9, <1>10, <1>11, <1>12, <1>13, <1>14, <1>15, <1>16, <1>17, <1>18, <1>19, <1>20, <1>21, <1>22, <1>23, <1>24, <1>25, <1>26, <1>27, <1>28 DEF Next, Runs, GoesOn

(* A body does not run before its executor has been made. *)
LEMMA BodiesAreStartedStep ==
  TypeOK /\ BodiesAreStarted /\ [Next]_vars => BodiesAreStarted'
<1> SUFFICES ASSUME TypeOK, BodiesAreStarted, [Next]_vars PROVE BodiesAreStarted'
  OBVIOUS
<1> USE ThreadKinds DEF BodiesAreStarted, TypeOK, Starts
<1>1. ASSUME NEW r \in Requests, RequestStart(r) PROVE BodiesAreStarted'
  BY <1>1 DEF RequestStart, UserStart, Request
<1>2. ASSUME NEW r \in Requests, RequestStop(r) PROVE BodiesAreStarted'
  BY <1>2 DEF RequestStop, UserStop, Request
<1>3. ASSUME RestartStops PROVE BodiesAreStarted'
  BY <1>3 DEF RestartStops, UserStop
<1>4. ASSUME RestartStarts PROVE BodiesAreStarted'
  BY <1>4 DEF RestartStarts, UserStart
<1>5. ASSUME TakeTask PROVE BodiesAreStarted'
  BY <1>5 DEF TakeTask
<1>6. ASSUME Execute PROVE BodiesAreStarted'
  BY <1>6 DEF Execute
<1>7. ASSUME NEW m \in Timers, TimerFires(m) PROVE BodiesAreStarted'
  BY <1>7 DEF TimerFires
<1>8. ASSUME NEW s \in Starts, Begin(s) PROVE BodiesAreStarted'
  BY <1>8 DEF Begin
<1>9. ASSUME NEW s \in Starts, GetConnection(s) PROVE BodiesAreStarted'
  BY <1>9 DEF GetConnection
<1>10. ASSUME NEW s \in Starts, OpenSession(s) PROVE BodiesAreStarted'
  BY <1>10 DEF OpenSession
<1>11. ASSUME NEW s \in Starts, CannotConnect(s) PROVE BodiesAreStarted'
  BY <1>11 DEF CannotConnect
<1>12. ASSUME NEW s \in Starts, ProductKeyAccepted(s) PROVE BodiesAreStarted'
  BY <1>12 DEF ProductKeyAccepted
<1>13. ASSUME NEW s \in Starts, ProductKeyRefused(s) PROVE BodiesAreStarted'
  BY <1>13 DEF ProductKeyRefused
<1>14. ASSUME NEW s \in Starts, LoginFails(s) PROVE BodiesAreStarted'
  BY <1>14 DEF LoginFails
<1>15. ASSUME NEW s \in Starts, Finally(s) PROVE BodiesAreStarted'
  BY <1>15 DEF Finally
<1>16. ASSUME NEW s \in Starts, Heartbeat(s) PROVE BodiesAreStarted'
  BY <1>16 DEF Heartbeat
<1>17. ASSUME NEW s \in Starts, RelayFails(s) PROVE BodiesAreStarted'
  BY <1>17 DEF RelayFails
<1>18. ASSUME NEW t \in Threads, Start(t) PROVE BodiesAreStarted'
  BY <1>18 DEF Start
<1>19. ASSUME NEW t \in Threads, Stop(t) PROVE BodiesAreStarted'
  BY <1>19 DEF Stop
<1>20. ASSUME NEW t \in Threads, StopTimer(t) PROVE BodiesAreStarted'
  BY <1>20 DEF StopTimer
<1>21. ASSUME NEW t \in Threads, MarkStopped(t) PROVE BodiesAreStarted'
  BY <1>21 DEF MarkStopped
<1>22. ASSUME NEW t \in Threads, ShutDown(t) PROVE BodiesAreStarted'
  BY <1>22 DEF ShutDown
<1>23. ASSUME NEW t \in Threads, CloseConnection(t) PROVE BodiesAreStarted'
  BY <1>23 DEF CloseConnection
<1>24. ASSUME NEW t \in Threads, Restart(t) PROVE BodiesAreStarted'
  BY <1>24 DEF Restart
<1>25. ASSUME NEW t \in Threads, Sleep(t) PROVE BodiesAreStarted'
  BY <1>25 DEF Sleep
<1>26. ASSUME NEW t \in Threads, CancelTimer(t) PROVE BodiesAreStarted'
  BY <1>26 DEF CancelTimer
<1>27. ASSUME NEW t \in Threads, StartTimer(t) PROVE BodiesAreStarted'
  BY <1>27 DEF StartTimer
<1>28. ASSUME UNCHANGED vars PROVE BodiesAreStarted'
  BY <1>28 DEF vars
<1> QED
  BY <1>1, <1>2, <1>3, <1>4, <1>5, <1>6, <1>7, <1>8, <1>9, <1>10, <1>11, <1>12, <1>13, <1>14, <1>15, <1>16, <1>17, <1>18, <1>19, <1>20, <1>21, <1>22, <1>23, <1>24, <1>25, <1>26, <1>27, <1>28 DEF Next, Runs, GoesOn

(* A start made in the midst of a request's stop has crossed it. *)
LEMMA StopIsKnownStep ==
  TypeOK /\ StopIsKnown /\ [Next]_vars => StopIsKnown'
<1> SUFFICES ASSUME TypeOK, StopIsKnown, [Next]_vars PROVE StopIsKnown'
  OBVIOUS
<1> USE ThreadKinds DEF StopIsKnown, UserStopping, TypeOK
<1>1. ASSUME NEW r \in Requests, RequestStart(r) PROVE StopIsKnown'
  BY <1>1 DEF RequestStart, UserStart, Request
<1>2. ASSUME NEW r \in Requests, RequestStop(r) PROVE StopIsKnown'
  BY <1>2 DEF RequestStop, UserStop, Request
<1>3. ASSUME RestartStops PROVE StopIsKnown'
  BY <1>3 DEF RestartStops, UserStop
<1>4. ASSUME RestartStarts PROVE StopIsKnown'
  BY <1>4 DEF RestartStarts, UserStart
<1>5. ASSUME TakeTask PROVE StopIsKnown'
  BY <1>5 DEF TakeTask
<1>6. ASSUME Execute PROVE StopIsKnown'
  BY <1>6 DEF Execute
<1>7. ASSUME NEW m \in Timers, TimerFires(m) PROVE StopIsKnown'
  BY <1>7 DEF TimerFires
<1>8. ASSUME NEW s \in Starts, Begin(s) PROVE StopIsKnown'
  BY <1>8 DEF Begin
<1>9. ASSUME NEW s \in Starts, GetConnection(s) PROVE StopIsKnown'
  BY <1>9 DEF GetConnection
<1>10. ASSUME NEW s \in Starts, OpenSession(s) PROVE StopIsKnown'
  BY <1>10 DEF OpenSession
<1>11. ASSUME NEW s \in Starts, CannotConnect(s) PROVE StopIsKnown'
  BY <1>11 DEF CannotConnect
<1>12. ASSUME NEW s \in Starts, ProductKeyAccepted(s) PROVE StopIsKnown'
  BY <1>12 DEF ProductKeyAccepted
<1>13. ASSUME NEW s \in Starts, ProductKeyRefused(s) PROVE StopIsKnown'
  BY <1>13 DEF ProductKeyRefused
<1>14. ASSUME NEW s \in Starts, LoginFails(s) PROVE StopIsKnown'
  BY <1>14 DEF LoginFails
<1>15. ASSUME NEW s \in Starts, Finally(s) PROVE StopIsKnown'
  BY <1>15 DEF Finally
<1>16. ASSUME NEW s \in Starts, Heartbeat(s) PROVE StopIsKnown'
  BY <1>16 DEF Heartbeat
<1>17. ASSUME NEW s \in Starts, RelayFails(s) PROVE StopIsKnown'
  BY <1>17 DEF RelayFails
<1>18. ASSUME NEW t \in Threads, Start(t) PROVE StopIsKnown'
  BY <1>18 DEF Start
<1>19. ASSUME NEW t \in Threads, Stop(t) PROVE StopIsKnown'
  BY <1>19 DEF Stop
<1>20. ASSUME NEW t \in Threads, StopTimer(t) PROVE StopIsKnown'
  BY <1>20 DEF StopTimer
<1>21. ASSUME NEW t \in Threads, MarkStopped(t) PROVE StopIsKnown'
  BY <1>21 DEF MarkStopped
<1>22. ASSUME NEW t \in Threads, ShutDown(t) PROVE StopIsKnown'
  BY <1>22 DEF ShutDown
<1>23. ASSUME NEW t \in Threads, CloseConnection(t) PROVE StopIsKnown'
  BY <1>23 DEF CloseConnection
<1>24. ASSUME NEW t \in Threads, Restart(t) PROVE StopIsKnown'
  BY <1>24 DEF Restart
<1>25. ASSUME NEW t \in Threads, Sleep(t) PROVE StopIsKnown'
  BY <1>25 DEF Sleep
<1>26. ASSUME NEW t \in Threads, CancelTimer(t) PROVE StopIsKnown'
  BY <1>26 DEF CancelTimer
<1>27. ASSUME NEW t \in Threads, StartTimer(t) PROVE StopIsKnown'
  BY <1>27 DEF StartTimer
<1>28. ASSUME UNCHANGED vars PROVE StopIsKnown'
  BY <1>28 DEF vars
<1> QED
  BY <1>1, <1>2, <1>3, <1>4, <1>5, <1>6, <1>7, <1>8, <1>9, <1>10, <1>11, <1>12, <1>13, <1>14, <1>15, <1>16, <1>17, <1>18, <1>19, <1>20, <1>21, <1>22, <1>23, <1>24, <1>25, <1>26, <1>27, <1>28 DEF Next, Runs, GoesOn

(* While it is running there is a timer, or a thread that will set one or stop it. *)
LEMMA RunningIsTimedStep ==
  TypeOK /\ StopsGoOn /\ BodiesAreStarted /\ RunningIsTimed /\ [Next]_vars => RunningIsTimed'
<1> SUFFICES ASSUME TypeOK, StopsGoOn, BodiesAreStarted, RunningIsTimed, [Next]_vars PROVE RunningIsTimed'
  OBVIOUS
<1> USE ThreadKinds DEF RunningIsTimed, WillSettle, StopsGoOn, TypeOK
<1>1. ASSUME NEW r \in Requests, RequestStart(r) PROVE RunningIsTimed'
  BY <1>1 DEF RequestStart, UserStart, Request
<1>2. ASSUME NEW r \in Requests, RequestStop(r) PROVE RunningIsTimed'
  BY <1>2 DEF RequestStop, UserStop, Request
<1>3. ASSUME RestartStops PROVE RunningIsTimed'
  BY <1>3 DEF RestartStops, UserStop
<1>4. ASSUME RestartStarts PROVE RunningIsTimed'
  BY <1>4 DEF RestartStarts, UserStart
<1>5. ASSUME TakeTask PROVE RunningIsTimed'
  BY <1>5 DEF TakeTask
<1>6. ASSUME Execute PROVE RunningIsTimed'
  <2>1. starting \in Starts /\ pc[Body(starting)] = "idle"
    BY <1>6 DEF Execute, Starts, BodiesAreStarted
  <2> QED
    BY <1>6, <2>1 DEF Execute
<1>7. ASSUME NEW m \in Timers, TimerFires(m) PROVE RunningIsTimed'
  BY <1>7 DEF TimerFires
<1>8. ASSUME NEW s \in Starts, Begin(s) PROVE RunningIsTimed'
  BY <1>8 DEF Begin
<1>9. ASSUME NEW s \in Starts, GetConnection(s) PROVE RunningIsTimed'
  BY <1>9 DEF GetConnection
<1>10. ASSUME NEW s \in Starts, OpenSession(s) PROVE RunningIsTimed'
  BY <1>10 DEF OpenSession
<1>11. ASSUME NEW s \in Starts, CannotConnect(s) PROVE RunningIsTimed'
  BY <1>11 DEF CannotConnect
<1>12. ASSUME NEW s \in Starts, ProductKeyAccepted(s) PROVE RunningIsTimed'
  BY <1>12 DEF ProductKeyAccepted
<1>13. ASSUME NEW s \in Starts, ProductKeyRefused(s) PROVE RunningIsTimed'
  BY <1>13 DEF ProductKeyRefused
<1>14. ASSUME NEW s \in Starts, LoginFails(s) PROVE RunningIsTimed'
  BY <1>14 DEF LoginFails
<1>15. ASSUME NEW s \in Starts, Finally(s) PROVE RunningIsTimed'
  BY <1>15 DEF Finally
<1>16. ASSUME NEW s \in Starts, Heartbeat(s) PROVE RunningIsTimed'
  BY <1>16 DEF Heartbeat
<1>17. ASSUME NEW s \in Starts, RelayFails(s) PROVE RunningIsTimed'
  BY <1>17 DEF RelayFails
<1>18. ASSUME NEW t \in Threads, Start(t) PROVE RunningIsTimed'
  <2>1. t \notin Bodies
    BY <1>18 DEF Start, BodiesAreStarted, Bodies
  <2> QED
    BY <1>18, <2>1 DEF Start
<1>19. ASSUME NEW t \in Threads, Stop(t) PROVE RunningIsTimed'
  BY <1>19 DEF Stop
<1>20. ASSUME NEW t \in Threads, StopTimer(t) PROVE RunningIsTimed'
  BY <1>20 DEF StopTimer
<1>21. ASSUME NEW t \in Threads, MarkStopped(t) PROVE RunningIsTimed'
  BY <1>21 DEF MarkStopped
<1>22. ASSUME NEW t \in Threads, ShutDown(t) PROVE RunningIsTimed'
  BY <1>22 DEF ShutDown
<1>23. ASSUME NEW t \in Threads, CloseConnection(t) PROVE RunningIsTimed'
  BY <1>23 DEF CloseConnection
<1>24. ASSUME NEW t \in Threads, Restart(t) PROVE RunningIsTimed'
  BY <1>24 DEF Restart
<1>25. ASSUME NEW t \in Threads, Sleep(t) PROVE RunningIsTimed'
  BY <1>25 DEF Sleep
<1>26. ASSUME NEW t \in Threads, CancelTimer(t) PROVE RunningIsTimed'
  BY <1>26 DEF CancelTimer
<1>27. ASSUME NEW t \in Threads, StartTimer(t) PROVE RunningIsTimed'
  BY <1>27 DEF StartTimer
<1>28. ASSUME UNCHANGED vars PROVE RunningIsTimed'
  BY <1>28 DEF vars
<1> QED
  BY <1>1, <1>2, <1>3, <1>4, <1>5, <1>6, <1>7, <1>8, <1>9, <1>10, <1>11, <1>12, <1>13, <1>14, <1>15, <1>16, <1>17, <1>18, <1>19, <1>20, <1>21, <1>22, <1>23, <1>24, <1>25, <1>26, <1>27, <1>28 DEF Next, Runs, GoesOn

(* No step breaks the last promise to start a proxy that is wanted. *)
LEMMA NeverForgottenStep ==
  IInv /\ [Next]_vars => NeverForgotten'
<1> SUFFICES ASSUME IInv, [Next]_vars PROVE NeverForgotten'
  OBVIOUS
<1> USE ThreadKinds DEF NeverForgotten, Promised, WillStart, WillExecute, TypeOK, StopsGoOn, IInv
<1>1. ASSUME NEW r \in Requests, RequestStart(r) PROVE NeverForgotten'
  BY <1>1 DEF RequestStart, UserStart, Request
<1>2. ASSUME NEW r \in Requests, RequestStop(r) PROVE NeverForgotten'
  BY <1>2 DEF RequestStop, UserStop, Request
<1>3. ASSUME RestartStops PROVE NeverForgotten'
  BY <1>3 DEF RestartStops, UserStop
<1>4. ASSUME RestartStarts PROVE NeverForgotten'
  BY <1>4 DEF RestartStarts, UserStart
<1>5. ASSUME TakeTask PROVE NeverForgotten'
  <2>1. CASE running /\ userSelectedRunning /\ ~crossed
    <3>1. CASE armed \/ strays > 0
      BY <1>5, <2>1, <3>1 DEF TakeTask
    <3>2. CASE \E t \in Threads : WillSettle(t)
      <4>1. PICK t \in Threads : WillSettle(t)
        BY <3>2
      <4>2. \A r \in Requests : pc[Request(r)] \notin StopPcs
        BY <2>1 DEF StopIsKnown, UserStopping
      <4>3. WillStart(t)
        BY <4>1, <4>2 DEF WillSettle, BodiesAreStarted, Bodies
      <4> QED
        BY <1>5, <2>1, <4>3 DEF TakeTask
    <3> QED
      BY <2>1, <3>1, <3>2 DEF RunningIsTimed
  <2>2. CASE ~running
    BY <1>5, <2>2 DEF TakeTask
  <2> QED
    BY <1>5, <2>1, <2>2 DEF TakeTask
<1>6. ASSUME Execute PROVE NeverForgotten'
  <2>1. starting \in Starts /\ pc[Body(starting)] = "idle"
    BY <1>6 DEF Execute, Starts, BodiesAreStarted
  <2> QED
    BY <1>6, <2>1 DEF Execute
<1>7. ASSUME NEW m \in Timers, TimerFires(m) PROVE NeverForgotten'
  BY <1>7 DEF TimerFires
<1>8. ASSUME NEW s \in Starts, Begin(s) PROVE NeverForgotten'
  BY <1>8 DEF Begin
<1>9. ASSUME NEW s \in Starts, GetConnection(s) PROVE NeverForgotten'
  BY <1>9 DEF GetConnection
<1>10. ASSUME NEW s \in Starts, OpenSession(s) PROVE NeverForgotten'
  BY <1>10 DEF OpenSession
<1>11. ASSUME NEW s \in Starts, CannotConnect(s) PROVE NeverForgotten'
  BY <1>11 DEF CannotConnect
<1>12. ASSUME NEW s \in Starts, ProductKeyAccepted(s) PROVE NeverForgotten'
  BY <1>12 DEF ProductKeyAccepted
<1>13. ASSUME NEW s \in Starts, ProductKeyRefused(s) PROVE NeverForgotten'
  BY <1>13 DEF ProductKeyRefused
<1>14. ASSUME NEW s \in Starts, LoginFails(s) PROVE NeverForgotten'
  BY <1>14 DEF LoginFails
<1>15. ASSUME NEW s \in Starts, Finally(s) PROVE NeverForgotten'
  BY <1>15 DEF Finally
<1>16. ASSUME NEW s \in Starts, Heartbeat(s) PROVE NeverForgotten'
  BY <1>16 DEF Heartbeat
<1>17. ASSUME NEW s \in Starts, RelayFails(s) PROVE NeverForgotten'
  BY <1>17 DEF RelayFails
<1>18. ASSUME NEW t \in Threads, Start(t) PROVE NeverForgotten'
  BY <1>18 DEF Start
<1>19. ASSUME NEW t \in Threads, Stop(t) PROVE NeverForgotten'
  BY <1>19 DEF Stop
<1>20. ASSUME NEW t \in Threads, StopTimer(t) PROVE NeverForgotten'
  <2>1. CASE userSelectedRunning /\ ~crossed
    <3>1. \A r \in Requests : pc[Request(r)] \notin StopPcs
      BY <2>1 DEF StopIsKnown, UserStopping
    <3>2. after[t] # "idle"
      BY <1>20, <3>1 DEF StopTimer
    <3> QED
      BY <1>20, <2>1, <3>2 DEF StopTimer
  <2> QED
    BY <1>20, <2>1 DEF StopTimer
<1>21. ASSUME NEW t \in Threads, MarkStopped(t) PROVE NeverForgotten'
  BY <1>21 DEF MarkStopped
<1>22. ASSUME NEW t \in Threads, ShutDown(t) PROVE NeverForgotten'
  <2>1. CASE userSelectedRunning /\ ~crossed
    <3>1. \A r \in Requests : pc[Request(r)] \notin StopPcs
      BY <2>1 DEF StopIsKnown, UserStopping
    <3>2. after[t] # "idle"
      BY <1>22, <3>1 DEF ShutDown
    <3> QED
      BY <1>22, <2>1, <3>2 DEF ShutDown
  <2> QED
    BY <1>22, <2>1 DEF ShutDown
<1>23. ASSUME NEW t \in Threads, CloseConnection(t) PROVE NeverForgotten'
  BY <1>23 DEF CloseConnection
<1>24. ASSUME NEW t \in Threads, Restart(t) PROVE NeverForgotten'
  <2>1. CASE userSelectedRunning
    <3>1. \A s : t = Body(s) => t \in Bodies
      BY DEF Threads, Bodies, Request, RestartTask, TimerTask, Body, Listener
    <3>2. pc'[t] \in {"sleeping", "finally"}
      BY <1>24, <2>1, <3>1 DEF Restart
    <3> QED
      BY <1>24, <3>2 DEF Restart
  <2>2. CASE ~userSelectedRunning
    BY <1>24, <2>2 DEF Restart
  <2> QED
    BY <2>1, <2>2
<1>25. ASSUME NEW t \in Threads, Sleep(t) PROVE NeverForgotten'
  BY <1>25 DEF Sleep
<1>26. ASSUME NEW t \in Threads, CancelTimer(t) PROVE NeverForgotten'
  BY <1>26 DEF CancelTimer
<1>27. ASSUME NEW t \in Threads, StartTimer(t) PROVE NeverForgotten'
  BY <1>27 DEF StartTimer
<1>28. ASSUME UNCHANGED vars PROVE NeverForgotten'
  BY <1>28 DEF vars
<1> QED
  BY <1>1, <1>2, <1>3, <1>4, <1>5, <1>6, <1>7, <1>8, <1>9, <1>10, <1>11, <1>12, <1>13, <1>14, <1>15, <1>16, <1>17, <1>18, <1>19, <1>20, <1>21, <1>22, <1>23, <1>24, <1>25, <1>26, <1>27, <1>28 DEF Next, Runs, GoesOn

(* The inductive invariant holds. *)
THEOREM Invariance == Spec => []IInv
<1>1. Init => IInv
  <2> SUFFICES ASSUME Init PROVE IInv
    OBVIOUS
  <2>1. TypeOK
    <3>1. MaxStarts \in Nat /\ MaxTasks \in Nat /\ MaxHeartbeats \in Nat
      BY CloudProxyAssumption
    <3>2. /\ tasks \in 0 .. MaxTasks /\ started \in 0 .. MaxStarts
          /\ starting \in {0, started} /\ strays \in Nat
          /\ heartbeats \in 0 .. MaxHeartbeats
          /\ {connection, session, cip} \subseteq 0 .. MaxStarts
      BY <3>1 DEF Init
    <3>3. /\ userSelectedRunning \in BOOLEAN /\ running \in BOOLEAN
          /\ armed \in BOOLEAN /\ crossed \in BOOLEAN
      BY DEF Init
    <3>4. /\ shut \subseteq 0 .. started /\ open \subseteq Starts
          /\ listening \subseteq Starts \X Starts
      BY DEF Init
    <3>5. setting \in Settings
      BY DEF Init
    <3> QED
      BY <3>2, <3>3, <3>4, <3>5 DEF Init, TypeOK
  <2>2. StopsGoOn /\ BodiesAreStarted /\ StopIsKnown
    BY ThreadKinds
    DEF Init, StopsGoOn, BodiesAreStarted, StopIsKnown, UserStopping
  <2>3. RunningIsTimed /\ NeverForgotten
    BY DEF Init, RunningIsTimed, NeverForgotten
  <2> QED
    BY <2>1, <2>2, <2>3 DEF IInv
<1>2. IInv /\ [Next]_vars => IInv'
  BY TypeStep, StopsGoOnStep, BodiesAreStartedStep, StopIsKnownStep, RunningIsTimedStep,
     NeverForgottenStep
  DEF IInv
<1> QED
  BY <1>1, <1>2, PTL DEF Spec

(* What is wanted is never forgotten (restart, CloudAMQProxy.java:163-174). *)
THEOREM NotForgotten == Spec => []NeverForgotten
BY Invariance, PTL DEF IInv
=============================================================================
