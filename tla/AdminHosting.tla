----------------------------- MODULE AdminHosting -----------------------------
(***************************************************************************)
(* The hosting of a device's own web pages: the page of the client that    *)
(* asks for it and opens a tab                                             *)
(* (client/src/app/camera-admin-page-hosting) and the proxy of the         *)
(* recorder that carries the tab's connections to the device               *)
(* (proxies/CamWebadminHostProxy.java).  The proxy hosts one device at a   *)
(* time and knows a connection by nothing but when it came.                *)
(***************************************************************************)
EXTENDS Naturals, Sequences, FiniteSets, SequencesExt

CONSTANTS
  Users,          \* each at a page of the client
  Devices,
  MaxHostingCalls, MaxConnections   \* bounds: requests, and connections, at a time

VARIABLES
  shown,       \* of each user: the page is shown
  address,     \* and the device that it is for
  tab,         \* and the device whose answer opened the tab
  strayTab,    \* there is a tab that nothing will close
  hostCalls,   \* on their way, in the order they were sent: [user, kind, device, answer]
  hosted,      \* the access details of the proxy: [user, device], or NoHost
  connections, \* [user, to, stage]: "read" has its details, "listed" is to be closed
  overtaken,   \* a request was served or answered before an earlier one of the same user
  listedLate   \* a connection was listed with details that were gone

ahgVars == <<shown, address, tab, strayTab, hostCalls, hosted, connections, overtaken,
             listedLate>>

NoDevice == "none"
NoHost == [user |-> NoDevice, device |-> NoDevice]

Init ==
  /\ shown = [u \in Users |-> FALSE]
  /\ address = [u \in Users |-> NoDevice] /\ tab = [u \in Users |-> NoDevice]
  /\ strayTab = FALSE /\ hostCalls = <<>> /\ hosted = NoHost /\ connections = {}
  /\ overtaken = FALSE /\ listedLate = FALSE

HostCall(u, kind, d) == [user |-> u, kind |-> kind, device |-> d, answer |-> "none"]

\* The route names a device: the hosting that there is, is closed, and that of the
\* device asked for.  Of a device that is not known, the last one of the page is.
Route ==
  /\ \E u \in Users, d \in Devices, known \in BOOLEAN :
       LET now == IF known THEN d ELSE address[u] IN
       /\ address' = [address EXCEPT ![u] = now]
       /\ shown' = [shown EXCEPT ![u] = TRUE]
       /\ hostCalls' = hostCalls \o <<HostCall(u, "close", NoDevice)>> \o
            (IF now = NoDevice THEN <<>> ELSE <<HostCall(u, "get", now)>>)
  /\ Len(hostCalls') <= MaxHostingCalls
  /\ UNCHANGED <<tab, strayTab, hosted, connections, overtaken, listedLate>>

\* A tab that is closed ends its connections.
Left(u) == {c \in connections : c.user # u}

ClosePage(u) ==
  /\ shown' = [shown EXCEPT ![u] = FALSE]
  /\ address' = [address EXCEPT ![u] = NoDevice] /\ tab' = [tab EXCEPT ![u] = NoDevice]
  /\ connections' = Left(u)

\* ngOnDestroy: the hosting stays as it is.
LeavePage ==
  /\ \E u \in Users :
       /\ shown[u]
       /\ ClosePage(u)
  /\ UNCHANGED <<strayTab, hostCalls, hosted, overtaken, listedLate>>

\* What is left of s when only the indices in kept are.
LeftOf(s, kept) ==
  {[k \in DOMAIN f |-> s[f[k]]] :
     f \in {g \in UNION {[1 .. n -> kept] : n \in 0 .. Len(s)} :
             /\ \A k, l \in DOMAIN g : k < l => g[k] < g[l]
             /\ \A i \in kept : \E k \in DOMAIN g : g[k] = i}}

\* The window is closed or loaded again: closeClient too; no answer is waited for.
Unload ==
  /\ \E u \in Users :
       /\ shown[u]
       /\ ClosePage(u)
       /\ \E left \in LeftOf(hostCalls, {i \in DOMAIN hostCalls :
                           hostCalls[i].user # u \/ hostCalls[i].answer = "none"}) :
            hostCalls' = Append(left, HostCall(u, "close", NoDevice))
  /\ Len(hostCalls') <= MaxHostingCalls
  /\ UNCHANGED <<strayTab, hosted, overtaken, listedLate>>

\* Mutant: the connections of the hosting that is closed are left.
CloseDetailsOnly(cs) == cs

\* closeClientConnection: what is listed is closed.
CloseClients(cs) == {c \in cs : c.stage # "listed"}

Overtakes(i) ==
  LET r == hostCalls[i] IN
  overtaken' = \/ overtaken
               \/ /\ r.kind = "get"
                  /\ \E j \in 1 .. i - 1 :
                       /\ hostCalls[j].user = r.user /\ hostCalls[j].kind = "get"
                       /\ r.answer = "none" => hostCalls[j].answer = "none"

\* Requests are served in any order.
ServeHosting ==
  /\ \E i \in DOMAIN hostCalls :
       LET r == hostCalls[i] IN
       /\ r.answer = "none"
       /\ Overtakes(i)
       /\ IF r.kind = "close"
          THEN /\ hosted' = NoHost
               /\ connections' = CloseClients(connections)
               /\ hostCalls' = RemoveAt(hostCalls, i)
          ELSE /\ hosted' = IF hosted = NoHost THEN [user |-> r.user, device |-> r.device]
                            ELSE hosted
               /\ hostCalls' = [hostCalls EXCEPT ![i].answer =
                                  IF hosted = NoHost THEN "ok" ELSE "in use"]
               /\ UNCHANGED connections
  /\ UNCHANGED <<shown, address, tab, strayTab, listedLate>>

\* Mutant: the tab that there is stays.
TabOfKept(u, d) == IF tab[u] = NoDevice THEN d ELSE tab[u]

\* The tab that there is, is closed.
TabOf(u, d) == d

\* A page that has been left opens its tab nevertheless.
Answered ==
  /\ \E i \in DOMAIN hostCalls :
       LET r == hostCalls[i] IN
       /\ r.answer # "none"
       /\ Overtakes(i)
       /\ IF r.answer = "in use" THEN UNCHANGED <<tab, strayTab, connections>>
          ELSE IF shown[r.user]
          THEN /\ tab' = [tab EXCEPT ![r.user] = TabOf(r.user, r.device)]
               /\ connections' = Left(r.user)
               /\ UNCHANGED strayTab
          ELSE /\ strayTab' = TRUE
               /\ UNCHANGED <<tab, connections>>
       /\ hostCalls' = RemoveAt(hostCalls, i)
  /\ UNCHANGED <<shown, address, hosted, listedLate>>

\* handleClientRequest: the first read finds the details, if there are any.
Connect ==
  /\ Cardinality(connections) < MaxConnections /\ hosted # NoHost
  /\ \E u \in Users :
       /\ tab[u] # NoDevice
       /\ connections' = connections \cup
            {[user |-> u, to |-> hosted, stage |-> "read"]}
  /\ UNCHANGED <<shown, address, tab, strayTab, hostCalls, hosted, overtaken, listedLate>>

\* addClient, of the details that were found.
AddClient ==
  /\ \E c \in connections :
       /\ c.stage = "read"
       /\ connections' = (connections \ {c}) \cup {[c EXCEPT !.stage = "listed"]}
       /\ listedLate' = (listedLate \/ c.to # hosted)
  /\ UNCHANGED <<shown, address, tab, strayTab, hostCalls, hosted, overtaken>>

Disconnect ==
  /\ \E c \in connections : connections' = connections \ {c}
  /\ UNCHANGED <<shown, address, tab, strayTab, hostCalls, hosted, overtaken, listedLate>>

Next ==
  \/ Route \/ LeavePage \/ Unload \/ ServeHosting \/ Answered
  \/ Connect \/ AddClient \/ Disconnect

-----------------------------------------------------------------------------

Hosts == [user : Users, device : Devices]
TypeOK ==
  /\ shown \in [Users -> BOOLEAN]
  /\ address \in [Users -> Devices \cup {NoDevice}] /\ tab \in [Users -> Devices \cup {NoDevice}]
  /\ strayTab \in BOOLEAN /\ overtaken \in BOOLEAN /\ listedLate \in BOOLEAN
  /\ hostCalls \in Seq([user : Users, kind : {"close"}, device : {NoDevice}, answer : {"none"}]
                        \cup [user : Users, kind : {"get"}, device : Devices,
                              answer : {"none", "ok", "in use"}])
  /\ hosted \in Hosts \cup {NoHost}
  /\ connections \subseteq [user : Users, to : Hosts, stage : {"read", "listed"}]

\* When nothing is on its way, the user who has the hosting has the tab of the device
\* that is hosted or none, however the requests overtook each other and whoever else
\* asked, unless the user's own requests for it overtook each other.
HostingAgrees ==
  (hostCalls = <<>> /\ ~overtaken /\ hosted # NoHost)
    => tab[hosted.user] \in {NoDevice, hosted.device}

\* A connection that is listed is carried to the device that is hosted: closing the
\* hosting has ended all others, unless one was listed after it.
ClosedWithHosting ==
  ~listedLate => \A c \in connections : c.stage = "listed" => c.to = hosted

\* The requests for hosting of a user are served in the order they were sent.
Asks(i) == hostCalls[i].kind = "get"
ServedInOrder ==
  ~overtaken => \A i, j \in DOMAIN hostCalls :
    (i < j /\ Asks(i) /\ Asks(j) /\ hostCalls[i].user = hostCalls[j].user
       /\ hostCalls[j].answer # "none") => hostCalls[i].answer # "none"

\* The last answer on its way to the user who has the hosting is of the device that is
\* hosted; or there is none, and what the user has is its tab, or no tab.
Granted(i, u) == hostCalls[i].user = u /\ hostCalls[i].answer = "ok"
LastIsHosted ==
  ~overtaken /\ hosted # NoHost =>
    \/ \E i \in DOMAIN hostCalls :
         /\ Granted(i, hosted.user) /\ hostCalls[i].device = hosted.device
         /\ \A j \in DOMAIN hostCalls : Granted(j, hosted.user) => j <= i
    \/ /\ \A j \in DOMAIN hostCalls : ~Granted(j, hosted.user)
       /\ tab[hosted.user] \in {NoDevice, hosted.device}

NoTabUnshown == \A u \in Users : ~shown[u] => tab[u] = NoDevice

\* The inductive invariant.
IInv == TypeOK /\ ServedInOrder /\ LastIsHosted /\ NoTabUnshown /\ ClosedWithHosting
=============================================================================
