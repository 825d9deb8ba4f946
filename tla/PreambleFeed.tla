---------------------------- MODULE PreambleFeed ----------------------------
(***************************************************************************)
(* What the bucket brigade promises the clients that read a recording      *)
(* stream, with no ring, no GOP cache and no channels: packets are         *)
(* published one after the other, a client joins at the start of the       *)
(* current group of pictures, and from there on takes the packets in       *)
(* order.  A client may be marked as lagging; only then may it be made to  *)
(* skip packets, and never to go back.                                     *)
(***************************************************************************)
EXTENDS Integers, Sequences

CONSTANT Clients

VARIABLES
  published,  \* number of the newest packet published
  gopStart,   \* the packet the current group of pictures starts with
  lagging,    \* clients that have been too slow
  cursor,     \* of each client that has joined: the next packet due to it
  delivered   \* what each client has taken

vars == <<published, gopStart, lagging, cursor, delivered>>

NotJoined == 0  \* packets that are published are numbered from 1

Init ==
  /\ published = 0
  /\ gopStart = 1
  /\ lagging = {}
  /\ cursor = [c \in Clients |-> NotJoined]
  /\ delivered = [c \in Clients |-> << >>]

(* Publish one packet; it may start a group, and clients may fall behind. *)
Publish ==
  /\ published' = published + 1
  /\ gopStart' \in {gopStart, published + 1}
  /\ \E slow \in SUBSET {c \in Clients : cursor[c] # NotJoined} :
       lagging' = lagging \union slow
  /\ UNCHANGED <<cursor, delivered>>

Join(c) ==
  /\ cursor[c] = NotJoined
  /\ cursor' = [cursor EXCEPT ![c] = gopStart]
  /\ UNCHANGED <<published, gopStart, lagging, delivered>>

Take(c) ==
  /\ cursor[c] # NotJoined
  /\ \E p \in cursor[c] .. published :
       /\ c \notin lagging => p = cursor[c]
       /\ delivered' = [delivered EXCEPT ![c] = Append(@, p)]
       /\ cursor' = [cursor EXCEPT ![c] = p + 1]
  /\ UNCHANGED <<published, gopStart, lagging>>

Next == Publish \/ \E c \in Clients : Join(c) \/ Take(c)

Spec == Init /\ [][Next]_vars
=============================================================================
