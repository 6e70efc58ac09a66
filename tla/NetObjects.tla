----------------------------- MODULE NetObjects -----------------------------
(***************************************************************************)
(* The replicated objects of src/src/network/nNetObject.cpp: server and    *)
(* clients keep a table of objects by id and run the same code to send     *)
(* creation, sync and destroy messages for them.  The server makes most    *)
(* objects; clients make those of their players, with ids that the server  *)
(* has reserved for them.                                                  *)
(*                                                                         *)
(* Messages with an acknowledgement arrive once and in any order, as       *)
(* ReliableChannel says; other syncs may be lost.  An object is its        *)
(* creation number, which the messages do not carry: a message acts on     *)
(* the object that has the id when it arrives.                             *)
(***************************************************************************)
EXTENDS Integers, Sequences, FiniteSets, Functions

CONSTANTS
  Server, Client,
  Id,           \* ids of objects
  NoNode,       \* owner of an id that was freed but is not to be used yet
  MaxMade,      \* bound: objects that are made in any behaviour
  Budgets       \* bounds of a behaviour: objects made, changes of each, logins
                \* of each client; acks: do syncs wait for acknowledgement

Node == {Server} \cup Client
Link == ({Server} \X Client) \cup (Client \X {Server})
Object == 1 .. MaxMade
None == 0

ASSUME NodeAssumption == Server \notin Client /\ NoNode \notin Node
ASSUME BoundAssumption ==
  /\ MaxMade \in Nat \ {0}
  /\ Budgets \subseteq [made : Object, change : Nat, logins : [Client -> Nat],
                      acks : SUBSET BOOLEAN \ {{}}]

VARIABLES
  object,     \* sn_netObjects: object[n][i], or None
  content,    \* content[n][i]: what n has read of its object: number and version
  knows,      \* knowsAbout: knows[<<n, p>>][i] of the object n has there
  zombie,     \* ids of objects destroyed on order that n still keeps
  owner,      \* sn_netObjectsOwner of the server
  reserved,   \* ids a client may use
  mine,       \* createdLocally: mine[n], objects n made or took over
  destroyer,  \* destroyers: destroyer[<<n, p>>], ids not yet sent
  doomed,     \* sn_Destroyed of each node: destroy orders to be executed
  local,      \* sn_LocallyDestroyedIDs of each node
  net,        \* messages not handled yet
  acks,       \* messages handled whose sender does not know it yet
  connected, ready,
  maker,      \* history: maker[o], the node that made o, for all made
  had,        \* history: had[n]: objects n has had since it logged in
  ended,      \* history: objects ended or left by their maker
  accused,    \* history: clients that were called a Cheater
  budget      \* one of Budgets, of which the logins count down

tables == <<object, content, knows, zombie, owner, reserved, mine>>
orders == <<destroyer, doomed, local>>
wires  == <<net, acks>>
others == <<connected, ready, budget, accused>>
story  == <<maker, had, ended>>
vars   == <<tables, orders, wires, others, story>>

Nothing == [obj |-> None, version |-> 0]
Unknown == [exists |-> FALSE, ack |-> TRUE, req |-> FALSE, pending |-> 0]
Reset   == [Unknown EXCEPT !.req = TRUE]

Init ==
  /\ object = [n \in Node |-> [i \in Id |-> None]]
  /\ content = [n \in Node |-> [i \in Id |-> Nothing]]
  /\ knows = [l \in Link |-> [i \in Id |-> Unknown]]
  /\ zombie = [n \in Node |-> {}]
  /\ owner = [i \in Id |-> Server]
  /\ reserved = [c \in Client |-> {}]
  /\ mine = [n \in Node |-> {}]
  /\ destroyer = [l \in Link |-> {}]
  /\ doomed = [n \in Node |-> {}]
  /\ local = [n \in Node |-> {}]
  /\ net = {} /\ acks = {}
  /\ connected = {} /\ ready = {}
  /\ maker = <<>> /\ had = [n \in Node |-> {}] /\ ended = {}
  /\ accused = {}
  /\ budget \in Budgets

-----------------------------------------------------------------------------
(* Helpers.                                                                *)

Up(n) == n = Server \/ n \in connected
Peers(n) == {p \in Node : <<n, p>> \in Link}

(* nNetObject::Owner of the object at the server.                          *)
OwnerOf(i) ==
  LET o == object[Server][i] IN
  IF i \in zombie[Server] \/ o \in mine[Server] THEN Server ELSE maker[o]

(* sn_DoDestroy has nothing to do: it runs at the end of sn_Receive.       *)
Settled(n) == \A d \in doomed[n] : object[n][d.id] = None

(* Freed ids wait for a thousand others, and the free ones are used in     *)
(* turn: the last object that had the id is forgotten everywhere when it   *)
(* is used again, but for syncs that were overtaken.                       *)
Fresh(i) ==
  /\ \A n \in Node : object[n][i] = None /\ \A d \in doomed[n] : d.id # i
  /\ \A m \in net \cup acks : m.ack => i \notin m.ids
  /\ \A l \in Link : i \notin destroyer[l]

Free(i) == owner[i] = Server /\ object[Server][i] = None /\ Fresh(i)

(* RequestSync(user, ack) for the users of a set.                          *)
Requested(k, ack) == [k EXCEPT !.req = TRUE, !.ack = @ \/ ack]
RequestSync(n, i, users, ack) ==
  [l \in Link |-> IF l[1] = n /\ l[2] \in users
                  THEN [knows[l] EXCEPT ![i] = Requested(@, ack)]
                  ELSE knows[l]]

Message(type, n, p, ids, o, v, ack) ==
  [type |-> type, from |-> n, to |-> p, ids |-> ids, obj |-> o, version |-> v, ack |-> ack]
DestroyMessage(n, p, ids) == Message("destroy", n, p, ids, None, 0, TRUE)

(* destroyersCount: destroy messages that are not acknowledged.            *)
Destroying(n, p) == {m \in net \cup acks : m.type = "destroy" /\ m.from = n /\ m.to = p}

(* A message is handled, and will be acknowledged if it asks for that.     *)
Handled(m) ==
  /\ net' = net \ {m}
  /\ acks' = IF m.ack THEN acks \cup {m} ELSE acks

InformedKnown(n, i) ==
  {p \in Peers(n) : (n = Server \/ object[n][i] \in mine[n]) /\ knows[<<n, p>>][i].exists}

(* Whom the destructor of object i at n informs: the server all who know   *)
(* of it, a client the server of its own.                                  *)
Informed(n, i) ==
  {p \in Peers(n) :
     /\ n = Server \/ object[n][i] \in mine[n]
     /\ knows[<<n, p>>][i].exists \/ knows[<<n, p>>][i].pending > 0}

(* ~nNetObject of the objects in ids.                                      *)
Destruct(n, ids) ==
  /\ object' = [object EXCEPT ![n] = [i \in Id |-> IF i \in ids THEN None ELSE @[i]]]
  /\ content' = [content EXCEPT ![n] = [i \in Id |-> IF i \in ids THEN Nothing ELSE @[i]]]
  /\ zombie' = [zombie EXCEPT ![n] = @ \ ids]
  /\ owner' = IF n = Server THEN [i \in Id |-> IF i \in ids THEN NoNode ELSE owner[i]] ELSE owner
  /\ local' = IF n = Server THEN local
              ELSE [local EXCEPT ![n] = @ \cup {i \in ids : Informed(n, i) # {}}]

Destroyed(n, ids) ==
  [l \in Link |-> IF l[1] = n THEN destroyer[l] \cup {i \in ids : l[2] \in Informed(n, i)}
                  ELSE destroyer[l]]

Forgotten(n, ids) ==
  [l \in Link |-> IF l[1] = n THEN [i \in Id |-> IF i \in ids THEN Unknown ELSE knows[l][i]]
                  ELSE knows[l]]

-----------------------------------------------------------------------------
(* Objects come and go.                                                    *)

(* The server reserves an id for a client.                                 *)
Reserve(c, i) ==
  /\ c \in connected /\ Free(i) /\ Settled(Server)
  /\ owner' = [owner EXCEPT ![i] = c]
  /\ reserved' = [reserved EXCEPT ![c] = @ \cup {i}]
  /\ UNCHANGED <<object, content, knows, zombie, mine, orders, wires, others, story>>

(* next_free_server_nokill takes ids from sn_freedIDs.                     *)
Recycle(i) ==
  /\ owner[i] = NoNode
  /\ owner' = [owner EXCEPT ![i] = Server]
  /\ UNCHANGED <<object, content, knows, zombie, reserved, mine, orders, wires, others, story>>

(* nNetObject::GetID, by the first RequestSync.                            *)
MakeObject(n, i) ==
  LET o == Len(maker) + 1 IN
  /\ Up(n) /\ Settled(n) /\ o <= budget.made
  /\ IF n = Server THEN Free(i) /\ UNCHANGED reserved
     ELSE i \in reserved[n] /\ reserved' = [reserved EXCEPT ![n] = @ \ {i}]
  /\ object' = [object EXCEPT ![n][i] = o]
  /\ content' = [content EXCEPT ![n][i] = [obj |-> o, version |-> 0]]
  /\ knows' = [l \in Link |-> IF l[1] = n THEN [knows[l] EXCEPT ![i] = Reset] ELSE knows[l]]
  /\ maker' = Append(maker, n)
  /\ had' = [had EXCEPT ![n] = @ \cup {o}]
  /\ mine' = [mine EXCEPT ![n] = @ \cup {o}]
  /\ UNCHANGED <<zombie, owner, orders, wires, others, ended>>

Own(n, i) == object[n][i] \in mine[n] /\ i \notin zombie[n]

Changed(r) == [r EXCEPT !.version = @ + 1]

(* The game changes an object of its own and calls RequestSync.            *)
Change(n, i) ==
  /\ Up(n) /\ Settled(n) /\ Own(n, i) /\ content[n][i].version < budget.change
  /\ content' = [content EXCEPT ![n][i] = Changed(@)]
  /\ \E ack \in budget.acks : knows' = RequestSync(n, i, Peers(n), ack)
  /\ UNCHANGED <<object, zombie, owner, reserved, mine, orders, wires, others, story>>

DestroyObject(n, i) ==
  /\ Up(n) /\ Settled(n) /\ Own(n, i)
  /\ Destruct(n, {i})
  /\ destroyer' = Destroyed(n, {i})
  /\ knows' = Forgotten(n, {i})
  /\ ended' = IF maker[object[n][i]] = n THEN ended \cup {object[n][i]} ELSE ended
  /\ UNCHANGED <<reserved, mine, doomed, wires, others, maker, had>>

(* nNetObject::ClearAllDeleted, when grid and objects are deleted.         *)
ClearAllDeleted(n) ==
  LET dead == Destroyed(n, zombie[n])
      sent == {l \in Link : l[1] = n /\ Up(l[2]) /\ dead[l] # {}}
  IN
  /\ Up(n) /\ Settled(n) /\ zombie[n] # {}
  /\ Destruct(n, zombie[n])
  /\ knows' = Forgotten(n, zombie[n])
  /\ net' = net \cup {DestroyMessage(l[1], l[2], dead[l]) : l \in sent}
  /\ destroyer' = [l \in Link |-> IF l \in sent THEN {} ELSE dead[l]]
  /\ UNCHANGED <<reserved, mine, doomed, acks, others, story>>

-----------------------------------------------------------------------------
(* nNetObject::SyncAll.                                                    *)

MaySend(n, p) == Up(n) /\ Up(p) /\ Settled(n) /\ (p \in ready \/ (n \in connected /\ p = Server))

SendDestroyer(n, p) ==
  /\ MaySend(n, p) /\ destroyer[<<n, p>>] # {}
  /\ net' = net \cup {DestroyMessage(n, p, destroyer[<<n, p>>])}
  /\ destroyer' = [destroyer EXCEPT ![<<n, p>>] = {}]
  /\ UNCHANGED <<tables, doomed, local, acks, others, story>>

(* An object that is asked for by any user is in sn_SyncRequestedObject.   *)
Listed(n, i) == object[n][i] # None /\ \E p \in Peers(n) : Up(p) /\ knows[<<n, p>>][i].req

(* No creation is sent while a destroy message is not acknowledged.        *)
NoDestroyPending(n, p, i) == i \notin destroyer[<<n, p>>] /\ Destroying(n, p) = {}

SendCreation(n, p, i) ==
  LET k == knows[<<n, p>>][i] IN
  /\ MaySend(n, p) /\ Listed(n, i)
  /\ ~k.exists /\ k.pending = 0
  /\ NoDestroyPending(n, p, i)
  /\ net' = net \cup
       {Message("create", n, p, {i}, content[n][i].obj, content[n][i].version, TRUE)}
  /\ knows' = [knows EXCEPT ![<<n, p>>][i] = [k EXCEPT !.req = FALSE, !.pending = 1]]
  /\ UNCHANGED <<object, content, zombie, owner, reserved, mine, orders, acks, others, story>>

(* Only syncs with an acknowledgement are waited for.                      *)
Synced(k) ==
  [k EXCEPT !.req = FALSE, !.ack = FALSE, !.pending = IF k.ack THEN @ + 1 ELSE @]

SendSync(n, p, i) ==
  LET k == knows[<<n, p>>][i] IN
  /\ MaySend(n, p) /\ Listed(n, i)
  /\ k.exists /\ k.req /\ k.pending <= 1
  /\ net' = net \cup
       {Message("sync", n, p, {i}, content[n][i].obj, content[n][i].version, k.ack)}
  /\ knows' = [knows EXCEPT ![<<n, p>>][i] = Synced(k)]
  /\ UNCHANGED <<object, content, zombie, owner, reserved, mine, orders, acks, others, story>>

(* A sync that does not wait for an acknowledgement.                       *)
Lose(m) ==
  /\ m \in net /\ ~m.ack
  /\ net' = net \ {m}
  /\ UNCHANGED <<tables, orders, acks, others, story>>

-----------------------------------------------------------------------------
KnowsAgain(c, ids) ==
  [l \in Link |-> [i \in Id |-> IF l[1] = Server /\ i \in ids THEN Requested(knows[l][i], TRUE)
                                ELSE knows[l][i]]]

(* A client leaves: the handlers of its connection, and what it leaves     *)
(* behind (ClearKnows, login_callback).                                    *)

(* DoBroadcastExistence after the knowledge of user c was reset.           *)
BroadcastExistence(c, ids) ==
  [l \in Link |->
     CASE l = <<Server, c>> -> [i \in Id |-> IF i \in ids THEN Reset ELSE Unknown]
       [] l[1] = Server /\ l[2] # c ->
            [i \in Id |-> IF i \in ids /\ l[2] \in connected /\ ~knows[l][i].exists
                          THEN Requested(knows[l][i], TRUE)
                          ELSE IF object[Server][i] # None /\ i \notin ids THEN Unknown
                          ELSE knows[l][i]]
       [] l = <<c, Server>> -> [i \in Id |-> Unknown]
       [] OTHER -> knows[l]]

Present == {i \in Id : object[Server][i] # None}
OwnedBy(c) == {i \in Present : OwnerOf(i) = c}

Without(links, c) == {m \in links : c \notin {m.from, m.to}}

LeaveServer(c) ==
  LET gone == OwnedBy(c)
      dead == Destroyed(Server, gone)
      none == [i \in Id |-> None]
  IN
  /\ connected' = connected \ {c} /\ ready' = ready \ {c}
  /\ object' = [object EXCEPT ![c] = none,
                              ![Server] = [i \in Id |-> IF i \in gone THEN None ELSE @[i]]]
  /\ content' = [content EXCEPT ![c] = [i \in Id |-> Nothing],
                                ![Server] = [i \in Id |-> IF i \in gone THEN Nothing ELSE @[i]]]
  /\ zombie' = [zombie EXCEPT ![c] = {}]
  /\ owner' = [i \in Id |-> IF i \in gone THEN NoNode ELSE IF owner[i] = c THEN Server ELSE owner[i]]
  /\ reserved' = [reserved EXCEPT ![c] = {}]
  /\ knows' = BroadcastExistence(c, Present \ gone)
  /\ destroyer' = [l \in Link |-> IF c \in {l[1], l[2]} THEN {} ELSE dead[l]]
  /\ mine' = [mine EXCEPT ![c] = {}]
  /\ local' = [local EXCEPT ![c] = {}]
  /\ net' = Without(net, c) /\ acks' = Without(acks, c)
  /\ had' = [had EXCEPT ![c] = {}]
  /\ ended' = ended \cup {o \in DOMAIN maker : maker[o] = c}
  /\ UNCHANGED <<budget, maker>>

Logout(c) ==
  /\ c \in connected /\ LeaveServer(c)
  /\ doomed' = [doomed EXCEPT ![c] = {}]
  /\ UNCHANGED accused

(* Cheater: the server disconnects the client.  The order that caused it   *)
(* is not executed again.                                                  *)
Cheater(c, ordered) ==
  /\ LeaveServer(c)
  /\ doomed' = [doomed EXCEPT ![c] = {}, ![Server] = @ \ ordered]
  /\ accused' = accused \cup {c}

Login(c) ==
  /\ c \notin connected /\ budget.logins[c] > 0
  /\ connected' = connected \cup {c}
  /\ budget' = [budget EXCEPT !.logins[c] = @ - 1]
  /\ knows' = BroadcastExistence(c, Present)
  /\ UNCHANGED <<object, content, zombie, owner, reserved, mine, orders, wires, ready, accused,
                 story>>

ReadyEarly(c) ==
  /\ c \in Client \ ready
  /\ ready' = ready \cup {c}
  /\ UNCHANGED <<tables, orders, wires, connected, accused, budget, story>>

(* ready_handler                                                           *)
Ready(c) ==
  /\ c \in connected \ ready
  /\ ready' = ready \cup {c}
  /\ UNCHANGED <<tables, orders, wires, connected, accused, budget, story>>

-----------------------------------------------------------------------------
IntroducedToAll(n, p, i) ==
  [l \in Link |->
     IF l[1] # n THEN knows[l]
     ELSE [knows[l] EXCEPT ![i] = IF n = Server THEN Reset ELSE Unknown]]

(* The handlers of the messages.                                           *)

(* What a node knows of its peers when it gets object i from p: the server *)
(* asks for it on behalf of the others.                                    *)
Introduced(n, p, i) ==
  [l \in Link |->
     IF l[1] # n THEN knows[l]
     ELSE [knows[l] EXCEPT ![i] =
       IF l[2] = p THEN [Unknown EXCEPT !.exists = TRUE]
       ELSE IF n = Server THEN Reset ELSE Unknown]]

(* nNOInitialisator::Init.  ClearDeleted makes room for the new object.    *)
(* InitAfterCreation means to remove the id from local, but runs before    *)
(* Register sets the id: it removes 0, which is no id.                     *)
ReceiveCreate(m) ==
  LET n == m.to
      i == CHOOSE i \in m.ids : TRUE
      taken == object[n][i] # None /\ i \notin zombie[n]
  IN
  /\ m \in net /\ m.type = "create" /\ Settled(n)
  /\ IF n = Server /\ owner[i] # m.from
     THEN Cheater(m.from, {})
     ELSE /\ Handled(m)
          /\ IF taken
             THEN UNCHANGED <<tables, had>>
             ELSE /\ object' = [object EXCEPT ![n][i] = m.obj]
                  /\ content' = [content EXCEPT ![n][i] = [obj |-> m.obj, version |-> m.version]]
                  /\ knows' = Introduced(n, m.from, i)
                  /\ zombie' = [zombie EXCEPT ![n] = @ \ {i}]
                  /\ had' = [had EXCEPT ![n] = @ \cup {m.obj}]
                  /\ UNCHANGED <<owner, reserved, mine>>
          /\ UNCHANGED <<orders, others, maker, ended>>

SyncIsLater(m, read) == m.version > read.version
SyncIsAny(m, read) == TRUE

(* SyncIsNew: the message is newer than the last that was read.            *)
SyncIsNew(m, read) ==
  m.obj > read.obj \/ (m.obj = read.obj /\ m.version > read.version)

(* net_sync_handler                                                        *)
ReceiveSync(m) ==
  LET n == m.to
      i == CHOOSE i \in m.ids : TRUE
  IN
  /\ m \in net /\ m.type = "sync" /\ Settled(n)
  /\ IF n = Server /\ object[n][i] # None /\ OwnerOf(i) # m.from
     THEN Cheater(m.from, {})
     ELSE /\ Handled(m)
          /\ IF object[n][i] # None /\ SyncIsNew(m, content[n][i])
             THEN /\ content' = [content EXCEPT ![n][i] = [obj |-> m.obj, version |-> m.version]]
                  /\ knows' = IF n = Server
                              THEN RequestSync(n, i, Client \ {m.from}, TRUE)
                              ELSE knows
             ELSE UNCHANGED <<content, knows>>
          /\ UNCHANGED <<object, zombie, owner, reserved, mine, orders, others, story>>

(* ePlayerNetID::ActionOnDelete: the server keeps the last player of a     *)
(* client as a spectator and tells the others.                             *)
TakeOver(ids) ==
  /\ mine' = [mine EXCEPT ![Server] = @ \cup {object[Server][i] : i \in ids}]
  /\ content' = [content EXCEPT ![Server] =
       [i \in Id |-> IF i \in ids THEN Changed(@[i]) ELSE @[i]]]
  /\ knows' = [l \in Link |->
       IF l[1] = Server
       THEN [i \in Id |-> IF i \in ids THEN Requested(knows[l][i], TRUE) ELSE knows[l][i]]
       ELSE knows[l]]

(* net_destroy_handler                                                     *)
ReceiveDestroy(m) ==
  LET n == m.to
      news == m.ids \ local[n]
      players == {i \in news : n = Server /\ object[n][i] # None /\ i \notin zombie[n]}
  IN
  /\ m \in net /\ m.type = "destroy" /\ Settled(n)
  /\ \E kept \in SUBSET players :
       /\ TakeOver(kept)
       /\ doomed' = [doomed EXCEPT ![n] =
            @ \cup {[id |-> i, from |-> m.from] : i \in news \ kept}]
  /\ local' = [local EXCEPT ![n] = @ \ m.ids]
  /\ Handled(m)
  /\ UNCHANGED <<object, zombie, owner, reserved, destroyer, others, story>>

(* sn_DoDestroy, for one order.  A client takes orders only from Server.   *)
DoDestroy(n, d) ==
  LET i == d.id IN
  /\ d \in doomed[n] /\ object[n][i] # None
  /\ IF i \notin local[n] /\ n = Server /\ OwnerOf(i) # d.from
     THEN IF d.from \in connected THEN Cheater(d.from, {d})
          ELSE doomed' = [doomed EXCEPT ![n] = @ \ {d}]
               /\ UNCHANGED <<tables, destroyer, local, wires, others, story>>
     ELSE /\ doomed' = [doomed EXCEPT ![n] = @ \ {d}]
          /\ local' = [local EXCEPT ![n] = @ \ {i}]
          /\ IF i \in local[n] THEN UNCHANGED <<zombie, owner>>
             ELSE /\ zombie' = [zombie EXCEPT ![n] = @ \cup {i}]
                  /\ owner' = IF n = Server THEN [owner EXCEPT ![i] = Server] ELSE owner
          /\ UNCHANGED <<object, content, knows, reserved, mine, destroyer, wires, others, story>>

(* An order lives longer than a message is repeated.                       *)
ExpireDestroy(n, d) ==
  /\ d \in doomed[n] /\ object[n][d.id] = None
  /\ \A m \in net : ~(m.to = n /\ m.from = d.from /\ m.ack /\ d.id \in m.ids)
  /\ doomed' = [doomed EXCEPT ![n] = @ \ {d}]
  /\ local' = [local EXCEPT ![n] = @ \ {d.id}]
  /\ UNCHANGED <<tables, destroyer, wires, others, story>>

(* The peer has the object, as it says, and one message less is underway.  *)
Acknowledged(k) == [k EXCEPT !.exists = TRUE, !.pending = IF @ > 0 THEN @ - 1 ELSE @]

AckWithoutExtra(m) ==
  /\ m \in acks /\ Settled(m.from)
  /\ acks' = acks \ {m}
  /\ UNCHANGED <<tables, orders, net, others, story>>

(* nWaitForAckSync::AckExtraAction acts on the object that has the id now. *)
ReceiveAck(m) ==
  LET l == <<m.from, m.to>> IN
  /\ m \in acks /\ Settled(m.from)
  /\ acks' = acks \ {m}
  /\ knows' = [knows EXCEPT ![l] = [i \in Id |->
       IF m.type = "destroy" \/ i \notin m.ids \/ object[m.from][i] = None THEN @[i]
       ELSE Acknowledged(@[i])]]
  /\ UNCHANGED <<object, content, zombie, owner, reserved, mine, orders, net, others, story>>

-----------------------------------------------------------------------------

Receive(m) == ReceiveCreate(m) \/ ReceiveSync(m) \/ ReceiveDestroy(m)

Execute == \E n \in Node : \E d \in doomed[n] : DoDestroy(n, d) \/ ExpireDestroy(n, d)

Next ==
  \/ \E c \in Client : Logout(c) \/ Login(c) \/ Ready(c)
  \/ \E i \in Id : Recycle(i)
  \/ \E c \in Client, i \in Id : Reserve(c, i)
  \/ \E n \in Node, i \in Id : MakeObject(n, i) \/ Change(n, i) \/ DestroyObject(n, i)
  \/ \E n \in Node : ClearAllDeleted(n)
  \/ \E l \in Link : SendDestroyer(l[1], l[2])
  \/ \E l \in Link, i \in Id : SendCreation(l[1], l[2], i) \/ SendSync(l[1], l[2], i)
  \/ \E m \in net : Lose(m) \/ Receive(m)
  \/ \E m \in acks : ReceiveAck(m)
  \/ Execute

Spec == Init /\ [][Next]_vars

-----------------------------------------------------------------------------
(* Properties.                                                             *)

Knowledge == [exists : BOOLEAN, ack : BOOLEAN, req : BOOLEAN, pending : Nat]

(* The types of the variables, and what the tables say of one object.      *)
TypeOK ==
  /\ object \in [Node -> [Id -> Object \cup {None}]]
  /\ content \in [Node -> [Id -> [obj : Object \cup {None}, version : Nat]]]
  /\ knows \in [Link -> [Id -> Knowledge]]
  /\ zombie \in [Node -> SUBSET Id]
  /\ owner \in [Id -> Node \cup {NoNode}]
  /\ reserved \in [Client -> SUBSET Id]
  /\ mine \in [Node -> SUBSET Object]
  /\ destroyer \in [Link -> SUBSET Id] /\ local \in [Node -> SUBSET Id]
  /\ doomed \in [Node -> SUBSET [id : Id, from : Node]]
  /\ ready \subseteq connected /\ connected \subseteq Client
  /\ accused \subseteq Client

(* No node shows under an object what was sent of another one that had the *)
(* same id before.                                                         *)
RightContent == \A n \in Node, i \in Id : content[n][i].obj = object[n][i]

(* A node that sends only changes of an object, as it takes the peer to    *)
(* know the object, is right: the peer has it or had it.                   *)
ExistsMeansThere ==
  \A l \in Link, i \in Id :
    Up(l[1]) /\ Up(l[2]) /\ knows[l][i].exists /\ object[l[1]][i] # None =>
      object[l[1]][i] \in had[l[2]]

(* A destroy order for id i is on its way from n to p.                     *)
Ordered(n, p, i) ==
  \/ i \in destroyer[<<n, p>>]
  \/ \E m \in net : m.type = "destroy" /\ m.from = n /\ m.to = p /\ i \in m.ids
  \/ \E d \in doomed[p] : d.id = i /\ d.from = n

(* The copy of an object that the server has deleted is not forgotten: a   *)
(* destroy order is on its way to every client that still shows it, and to *)
(* every one that the creation has not reached yet.                        *)
NoOrphan ==
  \A c \in connected, i \in Id, o \in Object :
    LET shown  == object[c][i] = o /\ i \notin zombie[c] /\ o \notin mine[c]
        coming == \E m \in net : m.type = "create" /\ m.to = c /\ i \in m.ids /\ m.obj = o
    IN (shown \/ coming) /\ object[Server][i] # o => Ordered(Server, c, i)

(* The server answers for every object that a client has destroyed, before *)
(* the client has another one with its id: the next order for the id is    *)
(* the one not to be executed (sn_WasDeletedLocally).  Otherwise the       *)
(* client would keep a later object with that id when it is destroyed.     *)
LocalAnswered ==
  \A c \in connected : \A i \in local[c] :
    /\ object[c][i] = None
    /\ \/ Ordered(c, Server, i)
       \/ object[Server][i] # None /\ knows[<<Server, c>>][i].exists
       \/ Ordered(Server, c, i)

(* Only what was sent by someone who cheats disconnects a client.  All     *)
(* clients here run the same code as the server.                           *)
NoFalseAccusation == accused = {}

(* The copies are what ReplicatedObjects promises.                         *)
CopyOf(n, o) ==
  IF \E i \in Id \ zombie[n] : object[n][i] = o THEN "here"
  ELSE IF o \in had[n] THEN "gone" ELSE "never"
VersionOf(n, o) ==
  LET at == {i \in Id \ zombie[n] : object[n][i] = o} IN
  IF at = {} THEN 0 ELSE content[n][CHOOSE i \in at : TRUE].version

Makers   == [o \in Object |-> IF o \in DOMAIN maker THEN maker[o] ELSE NoNode]
Copies   == [n \in Node |-> [o \in Object |-> CopyOf(n, o)]]
Versions == [n \in Node |-> [o \in Object |-> VersionOf(n, o)]]

Replicas ==
  INSTANCE ReplicatedObjects WITH maker <- Makers, copy <- Copies, version <- Versions

(* Objects appear, change and vanish on other nodes only as they did where *)
(* they come from, never run ahead or back, and never return.              *)
Replication == Replicas!Spec

(* SyncAll runs in every frame, and so do sn_Receive and sn_DoDestroy.     *)
Fairness ==
  /\ WF_vars(\E m \in net : Receive(m))
  /\ WF_vars(\E m \in acks : ReceiveAck(m))
  /\ WF_vars(Execute)
  /\ \A l \in Link : WF_vars(SendDestroyer(l[1], l[2]))
  /\ \A l \in Link, i \in Id :
       WF_vars(SendCreation(l[1], l[2], i)) /\ WF_vars(SendSync(l[1], l[2], i))

FairSpec == Spec /\ Fairness

(* What n shows of an object that stays, with its last change, is in the   *)
(* end what the peers show who have not ended it themselves, if the syncs  *)
(* wait for acknowledgements.                                              *)
Shows(n, p, i) ==
  /\ p \in ready \/ (p = Server /\ n \in connected)
  /\ object[n][i] # None /\ i \notin zombie[n]
  /\ n = Server \/ object[n][i] \in mine[n]
Same(n, p, i) ==
  \/ content[p][i] = content[n][i]
  \/ n = Server /\ object[n][i] \in had[p] /\ object[p][i] # object[n][i]
  \/ object[n][i] \in mine[n] \cap mine[p]
EventuallyShown ==
  \A l \in Link, i \in Id :
    <>[](budget.acks = {TRUE} /\ Shows(l[1], l[2], i)) => <>[]Same(l[1], l[2], i)

(* What has ended at the server ends at every client that stays.           *)
EventuallyGone ==
  \A c \in Client, i \in Id :
    <>[](c \in ready /\ object[Server][i] = None) =>
      <>[](object[c][i] # None => i \in zombie[c] \/ object[c][i] \in mine[c])
=============================================================================
