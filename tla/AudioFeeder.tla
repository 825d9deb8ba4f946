---------------------------- MODULE AudioFeeder ----------------------------
(***************************************************************************)
(* The worker that feeds the browser's AudioDecoder from the audio         *)
(* websocket of a live stream (client/src/app/video/audio-feeder.worker.ts)*)
(* As VideoFeeder, but an error of the decoder leaves it closed: every     *)
(* message then throws, before resetTimeout.                               *)
(***************************************************************************)
EXTENDS Naturals

VARIABLES
  afWs,         \* "none", "open", "closing", "closed", or "never": no AudioDecoder
  afDecoder,    \* "unconfigured", "configured", "closed"
  afStarted,
  afTimeout,    \* seconds until timedOut is called; 0: not armed
  afQuiet,      \* seconds since the last message, up to six
  afNoRestart,
  afPosted      \* what the page was last sent

afVars == <<afWs, afDecoder, afStarted, afTimeout, afQuiet, afNoRestart, afPosted>>

FirstTimeout == 6
Timeout == 3

Init ==
  /\ afWs = "none"
  /\ afDecoder = "unconfigured"
  /\ afStarted = FALSE
  /\ afTimeout = 0
  /\ afQuiet = 0
  /\ afNoRestart = FALSE
  /\ afPosted = "nothing"

\* Mutant: a timeout is set by the messages only.
SetUpWSConnectionUntimed ==
  /\ afWs = "none"
  /\ afWs' = "open"
  /\ UNCHANGED <<afTimeout, afDecoder, afStarted, afQuiet, afNoRestart, afPosted>>

SetUpWSConnection ==
  /\ afWs = "none"
  /\ afWs' = "open"
  /\ afTimeout' = FirstTimeout
  /\ UNCHANGED <<afDecoder, afStarted, afQuiet, afNoRestart, afPosted>>

NotSupported ==
  /\ afWs = "none"
  /\ afWs' = "never"
  /\ afPosted' = "warning"
  /\ UNCHANGED <<afDecoder, afStarted, afTimeout, afQuiet, afNoRestart>>

\* Mutant: the timeout is reset first.
MessageResetsFirst ==
  /\ afWs = "open"
  /\ afQuiet' = 0
  /\ afTimeout' = Timeout
  /\ IF afDecoder = "closed"
     THEN UNCHANGED <<afDecoder, afStarted, afPosted>>
     ELSE /\ afDecoder' = "configured"
          /\ afStarted' = TRUE
          /\ afPosted' = IF afStarted THEN "audio" ELSE afPosted
  /\ UNCHANGED <<afWs, afNoRestart>>

\* onmessage.  configure() and decode() throw on a closed decoder, and what is
\* after them is not run.
Message ==
  /\ afWs = "open"
  /\ afQuiet' = 0
  /\ IF afDecoder = "closed"
     THEN UNCHANGED <<afDecoder, afStarted, afTimeout, afPosted>>
     ELSE /\ afDecoder' = "configured"
          /\ afStarted' = TRUE
          /\ afTimeout' = Timeout
          /\ afPosted' = IF afStarted THEN "audio" ELSE afPosted
  /\ UNCHANGED <<afWs, afNoRestart>>

\* The decoder closes itself and its error is logged.
DecoderError ==
  /\ afDecoder = "configured"
  /\ afDecoder' = "closed"
  /\ UNCHANGED <<afWs, afStarted, afTimeout, afQuiet, afNoRestart, afPosted>>

CloseWs == IF afWs = "open" THEN "closing" ELSE afWs

\* A second passes; timedOut closes the websocket, then the decoder.
Second ==
  /\ afTimeout > 0 \/ (afWs = "open" /\ afQuiet < FirstTimeout)
  /\ afQuiet' = IF afQuiet < FirstTimeout THEN afQuiet + 1 ELSE afQuiet
  /\ afTimeout' = IF afTimeout > 0 THEN afTimeout - 1 ELSE 0
  /\ IF afTimeout = 1
     THEN afWs' = CloseWs /\ afDecoder' = "closed"
     ELSE UNCHANGED <<afWs, afDecoder>>
  /\ UNCHANGED <<afStarted, afNoRestart, afPosted>>

\* close(): the decoder first; if that throws, the websocket stays as it is.
Close ==
  /\ afWs \notin {"none", "never"}
  /\ afNoRestart' = TRUE
  /\ afDecoder' = "closed"
  /\ afWs' = IF afDecoder = "closed" THEN afWs ELSE CloseWs
  /\ UNCHANGED <<afStarted, afTimeout, afQuiet, afPosted>>

OnError ==
  /\ afWs = "open"
  /\ afWs' = "closing"
  /\ afPosted' = "warning"
  /\ UNCHANGED <<afDecoder, afStarted, afTimeout, afQuiet, afNoRestart>>

OnClose ==
  /\ afWs \in {"open", "closing"}
  /\ afWs' = "closed"
  /\ afPosted' = IF afNoRestart THEN "closed" ELSE afPosted
  /\ UNCHANGED <<afDecoder, afStarted, afTimeout, afQuiet, afNoRestart>>

Next ==
  \/ SetUpWSConnection \/ NotSupported \/ Message \/ DecoderError
  \/ Second \/ Close \/ OnError \/ OnClose

Fairness == WF_afVars(Second) /\ WF_afVars(afWs = "closing" /\ OnClose)

Spec == Init /\ [][Next]_afVars /\ Fairness

-----------------------------------------------------------------------------
(***************************************************************************)
(* A dead decoder does not keep its websocket: closed by an error of its   *)
(* own, by a timeout or by the page's close, and whatever the server goes  *)
(* on sending, the websocket is closed in the end (a closed decoder stays  *)
(* closed).                                                                *)
(***************************************************************************)
DeadAudioIsDropped == []<>(afDecoder = "closed" => afWs = "closed")

(***************************************************************************)
(* An audio feed that is sent nothing for six seconds is not left open.    *)
(***************************************************************************)
SilentAudioIsDropped == (afQuiet >= FirstTimeout) => (afWs # "open")

(***************************************************************************)
(* The argument for it: an open websocket has a timeout, which comes due   *)
(* within six seconds of the last message, though not every message resets *)
(* it.                                                                     *)
(***************************************************************************)
TimeoutIsArmed ==
  /\ afWs \in {"none", "never", "open", "closing", "closed"}
  /\ afTimeout \in 0 .. FirstTimeout /\ afQuiet \in 0 .. FirstTimeout
  /\ afWs = "none" => afTimeout = 0 /\ afQuiet = 0
  /\ afWs = "open" => afTimeout > 0 /\ afQuiet + afTimeout <= FirstTimeout
=============================================================================
