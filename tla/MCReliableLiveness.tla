------------------------- MODULE MCReliableLiveness -------------------------
(* Liveness of ReliableMessaging on two kinds of network: any, of which    *)
(* nothing is assumed, and one that is merely lossy.                       *)
EXTENDS MCReliableMessaging

VARIABLE lossy  \* the network of this behaviour is merely lossy

lvars == <<vars, lossy>>

(* On the lossy network what is sent again and again arrives before        *)
(* killTimeout, and nobody disconnects.                                    *)
InTime == \E h \in Host :
  Create(h) \/ CreateDestroyer(h) \/ Send(h) \/ Receive(h) \/ Lose(h)

Step == (IF lossy THEN InTime ELSE Next) /\ UNCHANGED lossy

If(case, A) == case /\ A /\ UNCHANGED lossy

(* SyncAll sends the destroy message when none is unacknowledged; other    *)
(* calls may send it before.                                               *)
SyncDestroyer(h) ==
  /\ destroyAcks[h] = {}
  /\ \E n \in destroyer[h] : SendDestroyer(h, n)

(* Fairness of the code alone: the frame loop calls sn_SendPlanned for     *)
(* ever, the bandwidth control lets it send again and again, time passes.  *)
(* Nothing is assumed of the network.                                      *)
LocalFairness == \A h \in Host :
  /\ WF_lvars(If(~lossy, \E n \in send_queue[h] : Execute(h, n) \/ Overflow(h, n)))
  /\ WF_lvars(If(~lossy, SyncDestroyer(h)))
  /\ \A n \in Messages(h) :
       /\ WF_lvars(If(~lossy, TimePasses(h, n)))
       /\ WF_lvars(If(~lossy, Resend(h, n) \/ KillTimeout(h, n)))

(* A network that is merely lossy: what is sent again and again arrives    *)
(* again and again, and sn_SendPlanned does not find the acknowledgements  *)
(* overflowed for ever.                                                    *)
NetworkFairness == \A h \in Host :
  /\ WF_lvars(If(lossy, \E n \in send_queue[h] : Execute(h, n)))
  /\ WF_lvars(If(lossy, SyncDestroyer(h)))
  /\ \A a \in SUBSET Messages(Peer(h)) : WF_lvars(If(lossy, ExecuteAck(h, a)))
  /\ SF_lvars(If(lossy, SendAcks(h)))
  /\ \A n \in Messages(h) : WF_lvars(If(lossy, Resend(h, n)))
  /\ \A n \in Messages(Peer(h)) : SF_lvars(If(lossy, ReceiveMessage(h, n)))
  /\ \A n \in Messages(h) :
       SF_lvars(If(lossy, \E a \in ackWire[Peer(h)] : n \in a /\ ReceiveAck(h, a)))

LiveSpec ==
  /\ Init /\ lossy \in BOOLEAN
  /\ [][Step]_lvars
  /\ LocalFairness /\ NetworkFairness

(* Every reliable message is acknowledged, or the connection is closed, on *)
(* any network: the resend and kill timers alone see to it.                *)
EventuallySettled == \A h \in Host : \A n \in Messages(h) :
  n \in submitted[h] ~> ~open[h] \/ n \notin Unacknowledged(h)

(* On a network that delivers at last, every message is handled and its    *)
(* sender learns it: full send windows at both ends do not block for ever  *)
(* the acknowledgements that would open them, though these wait behind the *)
(* same limit, and a lost acknowledgement is given again.                  *)
EventuallyAcknowledged == \A h \in Host : \A n \in Messages(h) :
  lossy /\ n \in submitted[h] ~>
    /\ n \in RangeOf(handled[Peer(h)])
    /\ n \notin Unacknowledged(h)
=============================================================================
