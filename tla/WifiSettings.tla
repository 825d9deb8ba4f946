---------------------------- MODULE WifiSettings ----------------------------
(***************************************************************************)
(* The page that switches the NVR's Wi-Fi on and off and connects it to an *)
(* access point (client/src/app/wifi-settings,                             *)
(* client/src/app/shared/wifi-utils.service.ts).  The NVR itself, reached  *)
(* through its Ethernet connection, is external: a Wi-Fi that is off is    *)
(* connected to nothing, and one that comes on to any access point.        *)
(***************************************************************************)
EXTENDS Naturals, Sequences

CONSTANTS
  AccessPoints,
  MaxCalls      \* bound: calls on their way

VARIABLES
  nvrWifi,      \* the NVR: its Wi-Fi is on
  nvrAp,        \* the NVR: the access point it is connected to, or NoAp
  ethernet,     \* ethernetConnectionStatus is ETHERNET_IN_USE
  wifiEnabled,
  box,          \* the check box
  listed,       \* there is a wifiList to choose from
  accessPoint,  \* currentWifiConnection.accessPoint
  choice,       \* the selector's value
  needPassword,
  connecting,
  calls,        \* on their way, and the timer: [kind, arg, answer]
  doubtful      \* answers crossed or failed, or the choice changed meanwhile

wsVars == <<nvrWifi, nvrAp, ethernet, wifiEnabled, box, listed, accessPoint, choice,
            needPassword, connecting, calls, doubtful>>

NoAp == "none"
Call(kind, arg) == [kind |-> kind, arg |-> arg, answer |-> "none"]

\* ngOnInit asks for the state of the Wi-Fi; of the Ethernet, WithEthernet.
Init ==
  /\ nvrWifi \in BOOLEAN
  /\ nvrAp \in IF nvrWifi THEN AccessPoints ELSE {NoAp}
  /\ ethernet = FALSE
  /\ wifiEnabled = FALSE /\ box = FALSE /\ listed = FALSE
  /\ accessPoint = NoAp /\ choice = NoAp
  /\ needPassword = FALSE /\ connecting = FALSE
  /\ calls = <<Call("check", NoAp)>>
  /\ doubtful = FALSE

\* The NVR has an Ethernet connection, and the page came through it.
WithEthernet ==
  /\ ~ethernet /\ ethernet' = TRUE
  /\ UNCHANGED <<nvrWifi, nvrAp, wifiEnabled, box, listed, accessPoint, choice,
                 needPassword, connecting, calls, doubtful>>

Calls(kind, arg) == Len(calls) < MaxCalls /\ calls' = Append(calls, Call(kind, arg))

SetWifiStatus ==
  /\ ethernet
  /\ box' = ~box
  /\ Calls(IF box THEN "off" ELSE "on", NoAp)
  /\ UNCHANGED <<nvrWifi, nvrAp, ethernet, wifiEnabled, listed, accessPoint, choice,
                 needPassword, connecting, doubtful>>

OnSelectorChange ==
  /\ ethernet /\ wifiEnabled /\ listed
  /\ choice' \in AccessPoints \ {choice}
  /\ needPassword' = FALSE
  /\ doubtful' = (doubtful \/ connecting)
  /\ UNCHANGED <<nvrWifi, nvrAp, ethernet, wifiEnabled, box, listed, accessPoint,
                 connecting, calls>>

CancelPasswordEntry ==
  /\ needPassword /\ needPassword' = FALSE
  /\ choice' = accessPoint
  /\ doubtful' = (doubtful \/ connecting)
  /\ UNCHANGED <<nvrWifi, nvrAp, ethernet, wifiEnabled, box, listed, accessPoint,
                 connecting, calls>>

\* Mutant: the access point is taken as connected when the button is pressed.
ConnectAtOnce ==
  /\ wifiEnabled /\ accessPoint # choice /\ ~connecting
  /\ connecting' = TRUE /\ accessPoint' = choice
  /\ Calls("connect", choice)
  /\ UNCHANGED <<nvrWifi, nvrAp, ethernet, wifiEnabled, box, listed, choice,
                 needPassword, doubtful>>

Connect ==
  /\ wifiEnabled /\ accessPoint # choice /\ ~connecting
  /\ connecting' = TRUE
  /\ Calls("connect", choice)
  /\ UNCHANGED <<nvrWifi, nvrAp, ethernet, wifiEnabled, box, listed, accessPoint, choice,
                 needPassword, doubtful>>

\* The NVR does what it is asked, and answers what it then is, or fails: to connect, for
\* want of a password ("secret") as well, and then it stays where it was or loses that.
Served(kind, ok) ==
  CASE kind \in {"on", "off"} /\ ok ->
         /\ nvrWifi' = (kind = "on")
         /\ nvrAp' \in IF kind = "off" THEN {NoAp}
                       ELSE IF nvrWifi THEN {nvrAp} ELSE AccessPoints
    [] kind = "connect" /\ ~ok -> nvrWifi' = nvrWifi /\ nvrAp' \in {nvrAp, NoAp}
    [] OTHER -> UNCHANGED <<nvrWifi, nvrAp>>

Serve ==
  /\ \E i \in DOMAIN calls, answer \in {"ok", "secret", "error"} :
       LET c == calls[i] IN
       /\ c.kind # "timer" /\ c.answer = "none"
       /\ answer = "secret" => c.kind = "connect"
       /\ IF c.kind = "connect" /\ answer = "ok"
          THEN nvrWifi /\ nvrAp' = c.arg /\ nvrWifi' = nvrWifi
          ELSE Served(c.kind, answer = "ok")
       /\ calls' = [calls EXCEPT ![i].answer = answer, ![i].arg =
            CASE c.kind = "check"   -> IF nvrWifi THEN "on" ELSE "off"
              [] c.kind = "current" -> nvrAp
              [] OTHER              -> c.arg]
       /\ doubtful' = (doubtful \/ (c.kind = "connect" /\ answer # "ok" /\ nvrAp' # nvrAp))
  /\ UNCHANGED <<ethernet, wifiEnabled, box, listed, accessPoint, choice, needPassword,
                 connecting>>

Alone == Len(calls) = 1
Answer(i, kinds, answers, next) ==
  /\ calls[i].kind \in kinds /\ calls[i].answer \in answers
  /\ calls' = SubSeq(calls, 1, i - 1) \o SubSeq(calls, i + 1, Len(calls)) \o next
LookUp(on) == IF on THEN <<Call("scan", NoAp)>> ELSE <<>>

\* The check box follows wifiEnabled only when that changes.
StatusKnown ==
  /\ \E i \in DOMAIN calls :
       /\ Answer(i, {"check"}, {"ok"}, LookUp(calls[i].arg = "on"))
       /\ wifiEnabled' = (calls[i].arg = "on")
       /\ box' = IF wifiEnabled' # wifiEnabled THEN wifiEnabled' ELSE box
  /\ doubtful' = (doubtful \/ ~Alone)
  /\ UNCHANGED <<nvrWifi, nvrAp, ethernet, listed, accessPoint, choice, needPassword, connecting>>

\* Ten seconds are given to the Wi-Fi to connect.
StatusSet ==
  /\ \E i \in DOMAIN calls :
       LET on == calls[i].kind = "on" IN
       /\ Answer(i, {"on", "off"}, {"ok"}, IF on THEN <<Call("timer", NoAp)>> ELSE <<>>)
       /\ wifiEnabled' = on
       /\ box' = IF wifiEnabled' # wifiEnabled THEN wifiEnabled' ELSE box
       /\ listed' = (listed /\ on)
  /\ doubtful' = (doubtful \/ ~Alone)
  /\ UNCHANGED <<nvrWifi, nvrAp, ethernet, accessPoint, choice, needPassword, connecting>>

\* getLocalWifiDetails.
TimerFires ==
  /\ \E i \in DOMAIN calls : Answer(i, {"timer"}, {"none"}, LookUp(wifiEnabled))
  /\ doubtful' = (doubtful \/ ~Alone)
  /\ UNCHANGED <<nvrWifi, nvrAp, ethernet, wifiEnabled, box, listed, accessPoint, choice,
                 needPassword, connecting>>

\* showWifi: asked for with nothing else on its way, the answer will leave no doubt.
Scanned ==
  /\ \E i \in DOMAIN calls : Answer(i, {"scan"}, {"ok"}, <<Call("current", NoAp)>>)
  /\ listed' = TRUE
  /\ doubtful' = ~Alone
  /\ UNCHANGED <<nvrWifi, nvrAp, ethernet, wifiEnabled, box, accessPoint, choice,
                 needPassword, connecting>>

ShowWifi ==
  /\ \E i \in DOMAIN calls :
       /\ Answer(i, {"current"}, {"ok"}, <<>>)
       /\ accessPoint' = calls[i].arg /\ choice' = calls[i].arg
  /\ doubtful' = (doubtful \/ ~Alone)
  /\ UNCHANGED <<nvrWifi, nvrAp, ethernet, wifiEnabled, box, listed, needPassword, connecting>>

Connected ==
  /\ \E i \in DOMAIN calls : Answer(i, {"connect"}, {"ok"}, <<>>)
  /\ accessPoint' = choice
  /\ connecting' = FALSE /\ needPassword' = FALSE
  /\ doubtful' = (doubtful \/ ~Alone)
  /\ UNCHANGED <<nvrWifi, nvrAp, ethernet, wifiEnabled, box, listed, choice>>

\* An access point whose password the NVR lacks: the page asks for it.
NotConnected ==
  /\ \E i \in DOMAIN calls :
       /\ Answer(i, {"connect"}, {"secret", "error"}, <<>>)
       /\ needPassword' = (needPassword \/ calls[i].answer = "secret")
  /\ connecting' = FALSE
  /\ doubtful' = (doubtful \/ ~Alone)
  /\ UNCHANGED <<nvrWifi, nvrAp, ethernet, wifiEnabled, box, listed, accessPoint, choice>>

Failed ==
  /\ \E i \in DOMAIN calls :
       /\ Answer(i, {"check", "on", "off", "scan", "current"}, {"error"}, <<>>)
       /\ box' = IF calls[i].kind \in {"on", "off"} THEN TRUE ELSE box
  /\ doubtful' = TRUE
  /\ UNCHANGED <<nvrWifi, nvrAp, ethernet, wifiEnabled, listed, accessPoint, choice,
                 needPassword, connecting>>

Next ==
  \/ WithEthernet \/ SetWifiStatus \/ OnSelectorChange \/ CancelPasswordEntry \/ Connect
  \/ Serve \/ StatusKnown \/ StatusSet \/ TimerFires \/ Scanned \/ ShowWifi
  \/ Connected \/ NotConnected \/ Failed

-----------------------------------------------------------------------------

\* With nothing on its way, the access point that the page takes for the current one (it
\* cannot be connected to again, and a cancelled password goes back to it) is the one that
\* the NVR is connected to, after any switching and connecting.  Excepted (doubtful) is
\* what follows answers that came while another was on its way, an error (also one of a
\* connecting that took place nevertheless), or a choice made while the NVR was connecting.
NamedAsConnected ==
  (calls = <<>> /\ wifiEnabled /\ ~doubtful) => accessPoint = nvrAp

=============================================================================
