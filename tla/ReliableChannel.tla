-------------------------- MODULE ReliableChannel --------------------------
(***************************************************************************)
(* What nMessage::Send with ack promises of one connection between a       *)
(* server and a client (src/src/network/nNetwork.cpp): while it lasts,     *)
(* every message is delivered once, in any order, before the sender stops  *)
(* waiting for it.  Neither ids nor copies nor acknowledgements exist here.*)
(***************************************************************************)
EXTENDS Integers, Sequences

CONSTANTS
  Server, Client,  \* the two ends
  Message          \* the messages they may send

Host == {Server, Client}
Peer(h) == IF h = Server THEN Client ELSE Server

VARIABLES
  open,       \* this end has not disconnected
  submitted,  \* messages handed to the channel
  waiting,    \* messages the sender still answers for
  delivered   \* messages handled at this end, in order

vars == <<open, submitted, waiting, delivered>>

Init ==
  /\ open = [h \in Host |-> TRUE]
  /\ submitted = [h \in Host |-> {}]
  /\ waiting = [h \in Host |-> {}]
  /\ delivered = [h \in Host |-> <<>>]

Submit(h) ==
  /\ open[h]
  /\ \E n \in Message \ submitted[h] :
       /\ submitted' = [submitted EXCEPT ![h] = @ \cup {n}]
       /\ waiting' = [waiting EXCEPT ![h] = @ \cup {n}]
  /\ UNCHANGED <<open, delivered>>

Got(g) == {delivered[g][i] : i \in 1 .. Len(delivered[g])}

Deliver(g) ==
  /\ open[g]
  /\ \E n \in submitted[Peer(g)] \ Got(g) :
       delivered' = [delivered EXCEPT ![g] = Append(@, n)]
  /\ UNCHANGED <<open, submitted, waiting>>

Settle(h) ==
  /\ open[h]
  /\ \E done \in SUBSET (waiting[h] \cap Got(Peer(h))) :
       waiting' = [waiting EXCEPT ![h] = @ \ done]
  /\ UNCHANGED <<open, submitted, delivered>>

Disconnect(h) ==
  /\ open[h]
  /\ open' = [open EXCEPT ![h] = FALSE]
  /\ waiting' = [waiting EXCEPT ![h] = {}]
  /\ UNCHANGED <<submitted, delivered>>

Next == \E h \in Host : Submit(h) \/ Deliver(h) \/ Settle(h) \/ Disconnect(h)

Spec == Init /\ [][Next]_vars
=============================================================================
