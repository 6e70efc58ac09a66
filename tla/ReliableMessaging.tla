------------------------- MODULE ReliableMessaging -------------------------
(***************************************************************************)
(* Reliable messages over UDP, src/src/network/nNetwork.cpp.               *)
(*                                                                         *)
(* One connection between the server and one client, after the login.      *)
(* Each end keeps the messages it has not sent yet (send_queue), the ones  *)
(* it has sent and must see acknowledged (sn_pendingAcks), the newest id   *)
(* and the last ACKBACK ids it received (highest_ack, lastacks), and the   *)
(* acknowledgements it owes (ackMess).  The network loses, duplicates,     *)
(* delays and reorders datagrams.  Destroy messages, which collect the ids *)
(* of deleted objects (src/src/network/nNetObject.cpp), go past the queue  *)
(* and its limit.                                                          *)
(*                                                                         *)
(* A message is named by its creation number n, counted by its sender over *)
(* all its messages; what travels and what the code compares is the        *)
(* unsigned short MessageID(n).                                            *)
(***************************************************************************)
EXTENDS MessageIds, FiniteSets, Sequences

CONSTANTS
  Server, Client,      \* the two ends of the connection
  AckBack,             \* ACKBACK (1000): length of the ring lastacks
  MaxNoAck,            \* sn_maxNoAck (100): unacknowledged messages allowed
  AckWords,            \* ids in ackMess beyond which it is queued (100)
  TimeoutPacketLimit,  \* resends without an ack before a kill (20)
  Start,               \* Start[h]: messages h created before the connection
  MaxMissing,          \* bound: entries of earlier connections of the
                       \* slot that were counted off after these ended
  Limit,               \* bound: number of the last message h creates
  Lag,                 \* network: ids created during the life of a message
  AckLag,              \* network: ids created until its last ack has gone
  Gap                  \* network: ids created between two received messages

Host == {Server, Client}
Peer(h) == IF h = Server THEN Client ELSE Server

ASSUME HostAssumption == Server # Client
ASSUME NumberAssumption ==
  /\ AckBack \in Nat \ {0}
  /\ MaxNoAck \in Nat \ {0}
  /\ AckWords \in Nat
  /\ TimeoutPacketLimit \in Nat
  /\ Lag \in Nat /\ AckLag \in Nat /\ Gap \in Nat
ASSUME BoundAssumption ==
  /\ Start \in [Host -> Nat \ {0}]
  /\ MaxMissing \in Nat
  /\ Limit \in [Host -> Nat]

VARIABLES
  open,         \* sn_Connections[peer].socket is set
  created,      \* messages created so far: MessageID(created) is current_id
  send_queue,   \* reliable messages waiting in the priority queue
  destroyer,    \* destroyers[peer]: the destroy message that still collects
  pendingAcks,  \* sn_pendingAcks: sent, waiting for the acknowledgement
  destroyAcks,  \* its entries of class nWaitForAckDestroy
  old,          \* messages that have waited longer than killTimeout
  timeouts,     \* resends since the last acknowledgement
  ackPending,   \* counter of unacknowledged messages
  highest_ack,  \* newest id received, 0 at first
  lastacks,     \* the ring of the last ids received, oldest first
  ackMess,      \* acknowledgements collected for the next ack message
  ackQueue,     \* ack messages that overflowed into the send queue
  wire,         \* wire[h]: messages of h in flight
  ackWire,      \* ackWire[h]: ack messages of h in flight
  farewell,     \* farewell[h]: a logout or login_deny of h is in flight
  submitted,    \* history: reliable messages handed to Send
  handled       \* history: messages handled, in order

queueVars == <<created, submitted>>
waitVars  == <<send_queue, destroyer, pendingAcks, destroyAcks>>
sendVars  == <<waitVars, old, timeouts, ackPending>>
recvVars  == <<highest_ack, lastacks, ackMess, ackQueue, handled>>
netVars   == <<wire, ackWire, farewell>>
vars      == <<open, queueVars, sendVars, recvVars, netVars>>

-----------------------------------------------------------------------------
(* The test whether a received message is new.                             *)

RangeOf(s) == {s[i] : i \in 1..Len(s)}

RememberedNever(g, n) == FALSE
Remembered(g, n) == \E m \in RangeOf(lastacks[g]) : MessageID(m) = MessageID(n)

IsNew(g, n) == SurelyNew(MessageID(n), highest_ack[g]) \/ ~Remembered(g, n)

(* The ring overwrites its oldest entry.                                   *)
Push(ring, n) ==
  IF Len(ring) < AckBack THEN Append(ring, n) ELSE Append(Tail(ring), n)

-----------------------------------------------------------------------------
(* What the network is assumed to do.  The code puts no limit on how long  *)
(* a datagram lives; its 16 bit ids and its finite memory of received ids  *)
(* work when fewer than Lag ids are used while a message waits or travels, *)
(* fewer than AckLag until its acknowledgements are gone, fewer than Gap   *)
(* between two messages that arrive, and when no id comes round while the  *)
(* ring still holds it.                                                    *)

(* What the sender has not seen acknowledged.                              *)
Unacknowledged(h) == send_queue[h] \cup destroyer[h] \cup pendingAcks[h]

Live(h) == Unacknowledged(h) \cup wire[h]

OwedAcks(g) == RangeOf(ackMess[g]) \cup UNION (ackQueue[g] \cup ackWire[g])

(* The message behind highest_ack: no received message is newer.           *)
IsNewest(h, k) ==
  LET got == RangeOf(handled[Peer(h)]) \cup {Start[h]}
  IN  k \in got /\ \A m \in got : m <= k

NetworkKeepsUp(h) ==
  LET c == created[h] + 1 IN
  /\ \A n \in Live(h) : c - n < Lag
  /\ \A m \in OwedAcks(Peer(h)) : c - m < AckLag
  /\ \A m \in RangeOf(lastacks[Peer(h)]) : c - m < Cycle
  /\ \A k \in RangeOf(handled[Peer(h)]) \cup {Start[h]} :
        IsNewest(h, k) => c - k < Gap

(* When the network keeps up these limits make the ids work.  With 65536   *)
(* ids, a window of 10000, a ring of 1000 and 16 reserved ids they allow,  *)
(* for example, Lag = 500, AckLag = 65000, Gap = 9000 and a client that    *)
(* sent less than 900 messages before it connects.                         *)
WideWindow ==
  /\ 1 <= Lag /\ 1 <= Gap
  /\ Lag <= AckLag /\ AckLag <= Cycle
  /\ 2 * Lag <= AckBack + 1
  /\ Lag + Reserved + NewWindow <= IdSpace
  /\ Gap + Reserved + 1 <= NewWindow
  /\ Start[Client] + Gap + Reserved <= NewWindow

-----------------------------------------------------------------------------
(* The login is over: the client has received login_accept, whose id its   *)
(* highest_ack remembers; the server has seen no id of the client.  The    *)
(* login does not set ackPending, which is too small if an entry that Close*)
(* left was deleted since (DropClosed).                                    *)

Init ==
  /\ open = [h \in Host |-> TRUE]
  /\ created = Start
  /\ send_queue = [h \in Host |-> {}]
  /\ destroyer = [h \in Host |-> {}]
  /\ pendingAcks = [h \in Host |-> {}]
  /\ destroyAcks = [h \in Host |-> {}]
  /\ old = [h \in Host |-> {}]
  /\ timeouts = [h \in Host |-> 0]
  /\ ackPending \in [Host -> -MaxMissing .. 0]
  /\ highest_ack = [h \in Host |-> IF h = Client THEN MessageID(Start[Server]) ELSE 0]
  /\ lastacks = [h \in Host |-> IF h = Client THEN <<Start[Server]>> ELSE <<>>]
  /\ ackMess = [h \in Host |-> <<>>]
  /\ ackQueue = [h \in Host |-> {}]
  /\ wire = [h \in Host |-> {}]
  /\ ackWire = [h \in Host |-> {}]
  /\ farewell = [h \in Host |-> FALSE]
  /\ submitted = [h \in Host |-> {}]
  /\ handled = [h \in Host |-> <<>>]

-----------------------------------------------------------------------------
(* Sending.                                                                *)

(* nMessage::nMessage and nMessage::Send with ack: the message gets its id *)
(* when it is created, long before it is sent.                             *)
Create(h) ==
  /\ open[h] /\ created[h] < Limit[h] /\ NetworkKeepsUp(h)
  /\ created' = [created EXCEPT ![h] = @ + 1]
  /\ send_queue' = [send_queue EXCEPT ![h] = @ \cup {created'[h]}]
  /\ submitted' = [submitted EXCEPT ![h] = @ \cup {created'[h]}]
  /\ UNCHANGED <<open, destroyer, pendingAcks, destroyAcks, old, timeouts,
                 ackPending, recvVars, netVars>>

(* ~nNetObject: the first deleted object the peer knows of creates the     *)
(* destroy message, with its id; later ones write theirs into it.          *)
CreateDestroyer(h) ==
  /\ open[h] /\ created[h] < Limit[h] /\ NetworkKeepsUp(h)
  /\ destroyer[h] = {}
  /\ created' = [created EXCEPT ![h] = @ + 1]
  /\ destroyer' = [destroyer EXCEPT ![h] = {created'[h]}]
  /\ submitted' = [submitted EXCEPT ![h] = @ \cup {created'[h]}]
  /\ UNCHANGED <<open, send_queue, pendingAcks, destroyAcks, old, timeouts,
                 ackPending, recvVars, netVars>>

(* The id goes to another peer, or to a message that wants no ack.         *)
SkipID(h) ==
  /\ created[h] < Limit[h] /\ NetworkKeepsUp(h)
  /\ created' = [created EXCEPT ![h] = @ + 1]
  /\ UNCHANGED <<open, submitted, sendVars, recvVars, netVars>>

(* sn_DisconnectUserNoWarn: nothing is awaited any more, the receive       *)
(* memory is reset, the peer is told by messages that are not acknowledged.*)
(* The logout callback of the objects still sends the destroy message, into*)
(* the buffer that is cleared next: its entry in sn_pendingAcks stays, and *)
(* nConnectionInfo::Clear does not count it.                               *)
Close(h) ==
  /\ open' = [open EXCEPT ![h] = FALSE]
  /\ send_queue' = [send_queue EXCEPT ![h] = {}]
  /\ destroyer' = [destroyer EXCEPT ![h] = {}]
  /\ pendingAcks' = [pendingAcks EXCEPT ![h] = destroyer[h]]
  /\ destroyAcks' = [destroyAcks EXCEPT ![h] = destroyer[h]]
  /\ old' = [old EXCEPT ![h] = {}]
  /\ ackPending' = [ackPending EXCEPT ![h] = 0]
  /\ highest_ack' = [highest_ack EXCEPT ![h] = 0]
  /\ lastacks' = [lastacks EXCEPT ![h] = <<>>]
  /\ ackMess' = [ackMess EXCEPT ![h] = <<>>]
  /\ ackQueue' = [ackQueue EXCEPT ![h] = {}]
  /\ farewell' = [farewell EXCEPT ![h] = TRUE]
  /\ UNCHANGED <<created, submitted, handled, wire, ackWire>>

(* sn_SendPlanned1 takes a message off the queue while ackPending allows:  *)
(* planned_send::execute, nMessage::SendImmediately, nWaitForAck.  A       *)
(* message that waited too long ends the connection instead.               *)
CanExecuteOneMore(h) == open[h] /\ ackPending[h] <= MaxNoAck
CanExecute(h) == open[h] /\ ackPending[h] < MaxNoAck

Execute(h, n) ==
  /\ CanExecute(h) /\ n \in send_queue[h] \ old[h]
  /\ send_queue' = [send_queue EXCEPT ![h] = @ \ {n}]
  /\ pendingAcks' = [pendingAcks EXCEPT ![h] = @ \cup {n}]
  /\ ackPending' = [ackPending EXCEPT ![h] = @ + 1]
  /\ wire' = [wire EXCEPT ![h] = @ \cup {n}]
  /\ UNCHANGED <<open, queueVars, destroyer, destroyAcks, old, timeouts, recvVars,
                 ackWire, farewell>>

(* sn_SendDestroyer: the destroy message goes at once, past the queue and  *)
(* whatever ackPending says.                                               *)
SendDestroyer(h, n) ==
  /\ open[h] /\ n \in destroyer[h]
  /\ destroyer' = [destroyer EXCEPT ![h] = @ \ {n}]
  /\ pendingAcks' = [pendingAcks EXCEPT ![h] = @ \cup {n}]
  /\ destroyAcks' = [destroyAcks EXCEPT ![h] = @ \cup {n}]
  /\ ackPending' = [ackPending EXCEPT ![h] = @ + 1]
  /\ wire' = [wire EXCEPT ![h] = @ \cup {n}]
  /\ UNCHANGED <<open, queueVars, send_queue, old, timeouts, recvVars, ackWire, farewell>>

Overflow(h, n) ==
  /\ CanExecute(h) /\ n \in send_queue[h] \cap old[h]
  /\ Close(h)
  /\ UNCHANGED timeouts

(* An ack message that was too long waits in the same queue, behind the    *)
(* same limit.                                                             *)
ExecuteAck(h, a) ==
  /\ CanExecute(h) /\ a \in ackQueue[h]
  /\ ackQueue' = [ackQueue EXCEPT ![h] = @ \ {a}]
  /\ ackWire' = [ackWire EXCEPT ![h] = @ \cup {a}]
  /\ UNCHANGED <<open, queueVars, sendVars, highest_ack, lastacks, ackMess,
                 handled, wire, farewell>>

(* sn_SendPlanned sends the collected acknowledgements past the queue.     *)
SendAcks(h) ==
  /\ open[h] /\ ackMess[h] # <<>>
  /\ ackMess' = [ackMess EXCEPT ![h] = <<>>]
  /\ ackWire' = [ackWire EXCEPT ![h] = @ \cup {RangeOf(ackMess[h])}]
  /\ UNCHANGED <<open, queueVars, sendVars, highest_ack, lastacks, ackQueue,
                 handled, wire, farewell>>

(* A message has waited longer than killTimeout.                           *)
TimePasses(h, n) ==
  /\ n \in (send_queue[h] \cup pendingAcks[h]) \ old[h]
  /\ old' = [old EXCEPT ![h] = @ \cup {n}]
  /\ UNCHANGED <<open, queueVars, waitVars, timeouts, ackPending, recvVars, netVars>>

(* nWaitForAck::Resend, one overdue entry: it counts the timeout, then     *)
(* kills the connection or sends the message again.  The int timeouts is   *)
(* capped at the first value that kills.                                   *)
MaxTimeouts == TimeoutPacketLimit + 1

CountNoTimeout(h) == UNCHANGED timeouts

CountTimeout(h) ==
  timeouts' = [timeouts EXCEPT ![h] = IF @ < MaxTimeouts THEN @ + 1 ELSE @]

TotalTimeout(h, n) == n \in old[h] /\ timeouts'[h] > TimeoutPacketLimit

Resend(h, n) ==
  /\ open[h] /\ n \in pendingAcks[h]
  /\ CountTimeout(h)
  /\ ~TotalTimeout(h, n)
  /\ wire' = [wire EXCEPT ![h] = @ \cup {n}]
  /\ UNCHANGED <<open, queueVars, waitVars, old, ackPending, recvVars, ackWire, farewell>>

KillTimeout(h, n) ==
  /\ open[h] /\ n \in pendingAcks[h]
  /\ CountTimeout(h)
  /\ TotalTimeout(h, n)
  /\ Close(h)

(* Without a socket the entry that Close left is forgotten, and counted    *)
(* off; a total timeout disconnects nobody then, and the entry stays.      *)
DropClosed(h, n) ==
  /\ ~open[h] /\ n \in pendingAcks[h]
  /\ CountTimeout(h)
  /\ ~TotalTimeout(h, n)
  /\ pendingAcks' = [pendingAcks EXCEPT ![h] = @ \ {n}]
  /\ destroyAcks' = [destroyAcks EXCEPT ![h] = @ \ {n}]
  /\ old' = [old EXCEPT ![h] = @ \ {n}]
  /\ ackPending' = [ackPending EXCEPT ![h] = @ - 1]
  /\ UNCHANGED <<open, queueVars, send_queue, destroyer, recvVars, netVars>>

KillClosed(h, n) ==
  /\ ~open[h] /\ n \in pendingAcks[h]
  /\ CountTimeout(h)
  /\ TotalTimeout(h, n)
  /\ UNCHANGED <<open, queueVars, waitVars, old, ackPending, recvVars, netVars>>

(* A kick, a logout or an error in a handler ends the connection.          *)
Disconnect(h) == open[h] /\ Close(h) /\ UNCHANGED timeouts

-----------------------------------------------------------------------------
(* Receiving.                                                              *)

(* rec_peer appends an acknowledgement for every copy, old or new; more    *)
(* than AckWords of them are put into the send queue.                      *)
AckOnlyNew(g, n) ==
  /\ ackMess' = [ackMess EXCEPT ![g] = IF IsNew(g, n) THEN Append(@, n) ELSE @]
  /\ UNCHANGED ackQueue

AddAck(g, n) ==
  LET acks == Append(ackMess[g], n) IN
  IF Len(acks) > AckWords
  THEN /\ ackMess' = [ackMess EXCEPT ![g] = <<>>]
       /\ ackQueue' = [ackQueue EXCEPT ![g] = @ \cup {RangeOf(acks)}]
  ELSE /\ ackMess' = [ackMess EXCEPT ![g] = acks]
       /\ UNCHANGED ackQueue

Handle(g, n) ==
  IF IsNew(g, n)
  THEN /\ lastacks' = [lastacks EXCEPT ![g] = Push(@, n)]
       /\ handled' = [handled EXCEPT ![g] = Append(@, n)]
  ELSE UNCHANGED <<lastacks, handled>>

ReceiveMessage(g, n) ==
  /\ open[g] /\ n \in wire[Peer(g)]
  /\ highest_ack' = IF SurelyNew(MessageID(n), highest_ack[g])
                    THEN [highest_ack EXCEPT ![g] = MessageID(n)]
                    ELSE highest_ack
  /\ AddAck(g, n)
  /\ Handle(g, n)
  /\ UNCHANGED <<open, queueVars, sendVars, netVars>>

(* ack_handler and nWaitForAck::Ackt: every entry with an id of the        *)
(* message is forgotten, and only then is timeouts reset.                  *)
AckedUpTo(h, a) ==
  {n \in pendingAcks[h] : \E m \in a : MessageID(n) <= MessageID(m)}

Acknowledged(h, a) ==
  {n \in pendingAcks[h] : \E m \in a : MessageID(m) = MessageID(n)}

ReceiveAck(h, a) ==
  LET acked == Acknowledged(h, a) IN
  /\ open[h] /\ a \in ackWire[Peer(h)]
  /\ pendingAcks' = [pendingAcks EXCEPT ![h] = @ \ acked]
  /\ destroyAcks' = [destroyAcks EXCEPT ![h] = @ \ acked]
  /\ old' = [old EXCEPT ![h] = @ \ acked]
  /\ ackPending' = [ackPending EXCEPT ![h] = @ - Cardinality(acked)]
  /\ timeouts' = IF acked = {} THEN timeouts ELSE [timeouts EXCEPT ![h] = 0]
  /\ UNCHANGED <<open, queueVars, send_queue, destroyer, recvVars, netVars>>

(* login_deny_handler at the client, logout_handler at the server.         *)
ReceiveFarewell(g) ==
  /\ open[g] /\ farewell[Peer(g)]
  /\ Close(g)
  /\ UNCHANGED timeouts

(* The network drops what it carries.                                      *)
Lose(h) ==
  /\ \/ \E n \in wire[h] : wire' = [wire EXCEPT ![h] = @ \ {n}] /\ UNCHANGED <<ackWire, farewell>>
     \/ \E a \in ackWire[h] : ackWire' = [ackWire EXCEPT ![h] = @ \ {a}] /\ UNCHANGED <<wire, farewell>>
     \/ farewell[h] /\ farewell' = [farewell EXCEPT ![h] = FALSE] /\ UNCHANGED <<wire, ackWire>>
  /\ UNCHANGED <<open, queueVars, sendVars, recvVars>>

-----------------------------------------------------------------------------
Tick(h) == \E n \in send_queue[h] \cup pendingAcks[h] : TimePasses(h, n)

Send(h) ==
  \/ \E n \in send_queue[h] : Execute(h, n) \/ Overflow(h, n)
  \/ \E n \in destroyer[h] : SendDestroyer(h, n)
  \/ \E a \in ackQueue[h] : ExecuteAck(h, a)
  \/ SendAcks(h)
  \/ \E n \in pendingAcks[h] :
       Resend(h, n) \/ KillTimeout(h, n) \/ DropClosed(h, n) \/ KillClosed(h, n)

Receive(h) ==
  \/ \E n \in wire[Peer(h)] : ReceiveMessage(h, n)
  \/ \E a \in ackWire[Peer(h)] : ReceiveAck(h, a)
  \/ ReceiveFarewell(h)

Next == \E h \in Host :
  \/ Create(h) \/ CreateDestroyer(h) \/ SkipID(h)
  \/ Send(h) \/ Receive(h) \/ Disconnect(h) \/ Lose(h) \/ Tick(h)

Spec == Init /\ [][Next]_vars

Messages(h) == Start[h] + 1 .. Limit[h]

-----------------------------------------------------------------------------
(* Properties.                                                             *)

(* Every variable keeps its shape, and the counters stay in range.         *)
TypeOK ==
  /\ open \in [Host -> BOOLEAN]
  /\ created \in [Host -> Nat]
  /\ send_queue \in [Host -> SUBSET Nat]
  /\ destroyer \in [Host -> SUBSET Nat]
  /\ pendingAcks \in [Host -> SUBSET Nat]
  /\ destroyAcks \in [Host -> SUBSET Nat]
  /\ old \in [Host -> SUBSET Nat]
  /\ timeouts \in [Host -> 0 .. MaxTimeouts]
  /\ ackPending \in [Host -> Int]
  /\ highest_ack \in [Host -> 0 .. IdSpace - 1]
  /\ lastacks \in [Host -> Seq(Nat)]
  /\ ackMess \in [Host -> Seq(Nat)]
  /\ ackQueue \in [Host -> SUBSET SUBSET Nat]
  /\ wire \in [Host -> SUBSET Nat]
  /\ ackWire \in [Host -> SUBSET SUBSET Nat]
  /\ farewell \in [Host -> BOOLEAN]
  /\ submitted \in [Host -> SUBSET Nat]
  /\ handled \in [Host -> Seq(Nat)]

(* While a connection lasts the counter that throttles sn_SendPlanned1     *)
(* misses no more entries of sn_pendingAcks than it may have missed at     *)
(* first, and counts none too many, through sends, destroy messages and    *)
(* acknowledgements that come twice; and no more than sn_maxNoAck entries  *)
(* wait, but for those it misses: only destroy messages, which             *)
(* sn_SendDestroyer sends without asking the counter, come on top of them. *)
AckWindow == \A h \in Host : open[h] =>
  LET missing == Cardinality(pendingAcks[h]) - ackPending[h] IN
  /\ missing \in 0 .. MaxMissing
  /\ Cardinality(pendingAcks[h] \ destroyAcks[h]) <= MaxNoAck + missing

(* No message is handled twice, however often it is sent and delivered.    *)
HandledAtMostOnce == \A g \in Host :
  \A i, j \in 1 .. Len(handled[g]) : handled[g][i] = handled[g][j] => i = j

(* A message that the sender of an open connection no longer waits for was *)
(* handled: no acknowledgement is given for a message taken for an old     *)
(* one, and none is matched to another message with the same id.           *)
NothingLost == \A h \in Host : open[h] =>
  submitted[h] \subseteq Unacknowledged(h) \cup RangeOf(handled[Peer(h)])

(* A message with an id ahead of highest_ack has not been handled before:  *)
(* the comment in rec_peer, "it is surely new".                            *)
SurelyNewIsNew == \A g \in Host : open[g] => \A n \in wire[Peer(g)] :
  SurelyNew(MessageID(n), highest_ack[g]) => n \notin RangeOf(handled[g])

(* The channel an application sees: one that loses, repeats and invents    *)
(* nothing while both ends stay.                                           *)
Message == UNION {Messages(h) : h \in Host}

Channel == INSTANCE ReliableChannel WITH
  waiting <- [h \in Host |-> IF open[h] THEN Unacknowledged(h) ELSE {}],
  delivered <- handled

ChannelSpec == Channel!Spec
=============================================================================
