--------------------------- MODULE CloudProxyPage ---------------------------
(***************************************************************************)
(* The box that starts and stops the cloud proxy                           *)
(* (client/src/app/cloud-proxy, client/src/app/nav,                        *)
(* client/src/app/shared/utils.service.ts).  The server is that of         *)
(* CloudProxy, seen from here as a flag that is read and set.  A click     *)
(* turns the box at once, and the box follows cps only when cps changes.   *)
(***************************************************************************)
EXTENDS Naturals, Sequences

CONSTANT CpsMaxRequests  \* bound: requests on their way

VARIABLES
  proxyRunning,      \* at the server
  cps,               \* what the page takes the state to be
  cpsBox,            \* the box is checked
  cbEnabled,
  cloudProxyRunning, \* UtilsService's: the menu's warning goes by it
  cpsRequests,       \* [kind, answer], in the order they were sent
  cpsOvertaken,      \* an answer came before that of an earlier request
  cpsFailed

cpsVars == <<proxyRunning, cps, cpsBox, cbEnabled, cloudProxyRunning, cpsRequests,
             cpsOvertaken, cpsFailed>>

Ask(kind) == [kind |-> kind, answer |-> "none"]

\* NavComponent asks for the state, and so does the page when it is opened.
Init ==
  /\ proxyRunning \in BOOLEAN
  /\ cps = TRUE /\ cpsBox = TRUE /\ cbEnabled = TRUE
  /\ cloudProxyRunning = FALSE
  /\ cpsRequests = <<Ask("navStatus"), Ask("status")>>
  /\ cpsOvertaken = FALSE /\ cpsFailed = FALSE

\* setCloudProxyStatus: start or stop, by what the click made of the box.
SetCloudProxyStatus ==
  /\ cbEnabled /\ cbEnabled' = FALSE
  /\ cpsBox' = ~cpsBox
  /\ Len(cpsRequests) < CpsMaxRequests
  /\ cpsRequests' = Append(cpsRequests, Ask(IF cpsBox' THEN "start" ELSE "stop"))
  /\ UNCHANGED <<proxyRunning, cps, cloudProxyRunning, cpsOvertaken, cpsFailed>>

Serve ==
  /\ \E i \in DOMAIN cpsRequests, ok \in BOOLEAN :
       LET kind == cpsRequests[i].kind IN
       /\ cpsRequests[i].answer = "none"
       /\ cpsRequests' = [cpsRequests EXCEPT ![i].answer =
            IF ~ok THEN "failed" ELSE IF proxyRunning THEN "running" ELSE "stopped"]
       /\ proxyRunning' = IF ok /\ kind \in {"start", "stop"} THEN kind = "start"
                          ELSE proxyRunning
  /\ UNCHANGED <<cps, cpsBox, cbEnabled, cloudProxyRunning, cpsOvertaken, cpsFailed>>

Answered(i, kinds, answers, next) ==
  /\ cpsRequests[i].kind \in kinds /\ cpsRequests[i].answer \in answers
  /\ cpsRequests' = SubSeq(cpsRequests, 1, i - 1) \o SubSeq(cpsRequests, i + 1, Len(cpsRequests)) \o next
  /\ cpsOvertaken' = (cpsOvertaken \/ i # 1)
Good == {"running", "stopped"}
Shown(running) ==
  /\ cps' = running /\ cloudProxyRunning' = running
  /\ cpsBox' = IF running # cps THEN running ELSE cpsBox

StatusKnown ==
  /\ \E i \in DOMAIN cpsRequests :
       /\ Answered(i, {"status"}, Good, <<>>)
       /\ Shown(cpsRequests[i].answer = "running")
  /\ UNCHANGED <<proxyRunning, cbEnabled, cpsFailed>>

NavStatusKnown ==
  /\ \E i \in DOMAIN cpsRequests :
       /\ Answered(i, {"navStatus"}, Good, <<>>)
       /\ cloudProxyRunning' = (cpsRequests[i].answer = "running")
  /\ UNCHANGED <<proxyRunning, cps, cpsBox, cbEnabled, cpsFailed>>

Stopped ==
  /\ \E i \in DOMAIN cpsRequests : Answered(i, {"stop"}, Good, <<>>)
  /\ Shown(FALSE) /\ cbEnabled' = TRUE
  /\ UNCHANGED <<proxyRunning, cpsFailed>>

\* The box may be clicked again before cps tells that the proxy runs.
Started ==
  /\ \E i \in DOMAIN cpsRequests : Answered(i, {"start"}, Good, <<Ask("active")>>)
  /\ cbEnabled' = TRUE
  /\ UNCHANGED <<proxyRunning, cps, cpsBox, cloudProxyRunning, cpsFailed>>

\* Mutant: cps is left as it was.
TransportKnownOnly ==
  /\ \E i \in DOMAIN cpsRequests : Answered(i, {"active"}, Good, <<>>)
  /\ UNCHANGED <<proxyRunning, cps, cpsBox, cbEnabled, cloudProxyRunning, cpsFailed>>

\* isTransportActive: whatever has become of the proxy since it was started.
TransportKnown ==
  /\ \E i \in DOMAIN cpsRequests : Answered(i, {"active"}, Good, <<>>)
  /\ Shown(TRUE)
  /\ UNCHANGED <<proxyRunning, cbEnabled, cpsFailed>>

\* Nothing handles the error of isTransportActive.
Failed ==
  /\ \E i \in DOMAIN cpsRequests :
       /\ Answered(i, {"status", "navStatus", "start", "stop", "active"}, {"failed"}, <<>>)
       /\ cbEnabled' = (cbEnabled \/ cpsRequests[i].kind \in {"start", "stop"})
  /\ cpsFailed' = TRUE
  /\ UNCHANGED <<proxyRunning, cps, cpsBox, cloudProxyRunning>>

\* The page is left, with nothing on its way, and opened again.
Reopen ==
  /\ cpsRequests = <<>>
  /\ cps' = TRUE /\ cpsBox' = TRUE /\ cbEnabled' = TRUE
  /\ cpsRequests' = <<Ask("status")>>
  /\ cpsOvertaken' = FALSE /\ cpsFailed' = FALSE
  /\ UNCHANGED <<proxyRunning, cloudProxyRunning>>

Next ==
  \/ SetCloudProxyStatus \/ Serve \/ StatusKnown \/ NavStatusKnown \/ Stopped
  \/ Started \/ TransportKnown \/ Failed \/ Reopen

-----------------------------------------------------------------------------

\* When everything was answered, in order and without an error, the page, its box and
\* the menu tell what the server does, whatever was clicked before the answers came.
BoxTellsRunning ==
  (cpsRequests = <<>> /\ ~cpsOvertaken /\ ~cpsFailed) =>
    cps = proxyRunning /\ cpsBox = proxyRunning /\ cloudProxyRunning = proxyRunning

=============================================================================
