------------------------- MODULE ReplicationProofs --------------------------
(***************************************************************************)
(* The copies of objects on server and clients are what ReplicatedObjects  *)
(* promises, for any clients, ids and bounds: every step of NetObjects is  *)
(* a step of it, or changes no copy.                                       *)
(***************************************************************************)
EXTENDS NetObjectProofs

-----------------------------------------------------------------------------
(* What the refinement rests on.                                           *)

(* Who may change or destroy an object, and how new a copy is.  What the   *)
(* server calls its own it made, or its maker ended it.                    *)
OwnOrEnded == \A o \in mine[Server] : maker[o] = Server \/ o \in ended

(* A client's own object that it still has was not ended.                  *)
OwnIsAlive == \A c \in Client, i \in Id : object[c][i] \in mine[c] => object[c][i] \notin ended

(* What a client made it still has, unless it was ended.                   *)
AliveIsThere ==
  \A o \in 1 .. Len(maker) : maker[o] \in Client /\ o \notin ended =>
    /\ o \in mine[maker[o]]
    /\ \E i \in Id \ zombie[maker[o]] : object[maker[o]][i] = o

(* A message is not newer than the object at its sender.                   *)
SentIsNotNewer ==
  \A m \in net : m.type # "destroy" =>
    \A i \in m.ids :
      object[m.from][i] = m.obj => m.version <= content[m.from][i].version

(* The server's copy is not newer than what the client has of its own.     *)
CopyIsNotNewer ==
  \A c \in Client, i \in Id :
    object[c][i] \in mine[c] /\ object[Server][i] = object[c][i] =>
      content[Server][i].version <= content[c][i].version

(* The server orders only the end of what it had and has no more.          *)
OrderedIsGone ==
  \A c \in Client, i \in Id :
    Ordered(Server, c, i) =>
      /\ object[Server][i] = None
      /\ \A n \in Node : object[n][i] # None => object[n][i] \in had[Server]
      /\ \A m \in Sent : m.type = "create" /\ i \in m.ids => m.obj \in had[Server]

EndInv ==
  /\ ended \subseteq 1 .. Len(maker)
  /\ OwnOrEnded /\ OwnIsAlive /\ AliveIsThere
  /\ SentIsNotNewer /\ CopyIsNotNewer /\ OrderedIsGone

-----------------------------------------------------------------------------
(* What follows from the invariants.                                       *)

(* An object has one id; what is under an id is one object, and so are the *)
(* creations; orders to the server are its maker's.                        *)
LEMMA SameObject ==
  ASSUME OrderInv
  PROVE  /\ \A n, p \in Node, i, j \in Id :
              object[n][i] = object[p][j] /\ object[n][i] # None => i = j
         /\ \A n, p \in Node, i \in Id :
              object[n][i] # None /\ object[p][i] # None => object[n][i] = object[p][i]
         /\ \A m \in Sent, n \in Node, i \in Id :
              m.type = "create" /\ i \in m.ids /\ object[n][i] # None => m.obj = object[n][i]
         /\ \A c \in Client, n \in Node, i \in Id :
              Ordered(c, Server, i) /\ object[n][i] # None =>
                maker[object[n][i]] = c /\ object[c][i] \notin mine[c]
<1>1. PICK cur \in [Id -> 0 .. Len(maker)] : Last(cur) /\ Distinct(cur) /\ OrdersAreFor(cur)
  BY DEF OrderInv, LastOrders
<1>2. \A n \in Node, i \in Id : object[n][i] # None => object[n][i] = cur[i]
  BY <1>1 DEF Last
<1>3. \A n, p \in Node, i, j \in Id :
        object[n][i] = object[p][j] /\ object[n][i] # None => i = j
  BY <1>1, <1>2 DEF Distinct
<1>4. \A m \in Sent, n \in Node, i \in Id :
        m.type = "create" /\ i \in m.ids /\ object[n][i] # None => m.obj = object[n][i]
  <2> SUFFICES ASSUME NEW m \in Sent, NEW n \in Node, NEW i \in Id, m.type = "create",
                      i \in m.ids, object[n][i] # None
               PROVE  m.obj = object[n][i]
    OBVIOUS
  <2>1. m.ack
    BY DEF OrderInv, NetInv, WiresOK, WireOK
  <2> QED BY <1>1, <1>2, <2>1 DEF Last
<1>5. \A c \in Client, n \in Node, i \in Id :
        Ordered(c, Server, i) /\ object[n][i] # None =>
          maker[object[n][i]] = c /\ object[c][i] \notin mine[c]
  BY <1>1, <1>2 DEF OrdersAreFor
<1> QED BY <1>2, <1>3, <1>4, <1>5

(* Objects in the tables were made, and their node had them.               *)
LEMMA ObjectsMade ==
  ASSUME OrderInv
  PROVE  /\ \A n \in Node, i \in Id :
              /\ object[n][i] \in Object \cup {None}
              /\ object[n][i] # None => object[n][i] \in had[n]
              /\ object[n][i] \in mine[n] => object[n][i] # None
         /\ \A n \in Node : had[n] \subseteq 1 .. Len(maker) /\ mine[n] \subseteq had[n]
         /\ \A c \in Client : \A o \in mine[c] : maker[o] = c
         /\ None \notin 1 .. Len(maker)
         /\ Server \in Node /\ Server \notin Client /\ \A c \in Client : c \in Node
         /\ Len(maker) \in Nat /\ 1 .. Len(maker) \subseteq Object
<1>1. TypeOK /\ HistoryOK /\ HadAll /\ HadKnown
  BY DEF OrderInv, Orderly, NetInv
<1>2. Len(maker) \in Nat /\ 1 .. Len(maker) \subseteq Object
  BY <1>1, BoundAssumption DEF HistoryOK, Object
<1>3. \A n \in Node : had[n] \subseteq 1 .. Len(maker) /\ mine[n] \subseteq had[n]
  BY <1>1 DEF HadKnown
<1>4. None \notin 1 .. Len(maker)
  BY <1>2 DEF None
<1>5. \A n \in Node, i \in Id :
        /\ object[n][i] \in Object \cup {None}
        /\ object[n][i] # None => object[n][i] \in had[n]
        /\ object[n][i] \in mine[n] => object[n][i] # None
  BY <1>1, <1>3, <1>4 DEF TypeOK, HadAll
<1> QED BY <1>1, <1>2, <1>3, <1>4, <1>5, NodeAssumption DEF HadKnown, Node

(* The maker of an object orders its end when it has ended it.             *)
LEMMA OrderedIsEnded ==
  ASSUME OrderInv, EndInv, NEW c \in Client, NEW n \in Node, NEW i \in Id,
         Ordered(c, Server, i), object[n][i] # None
  PROVE  object[n][i] \in ended /\ maker[object[n][i]] = c
<1> DEFINE o == object[n][i]
<1>1. maker[o] = c /\ object[c][i] \notin mine[c]
  BY SameObject
<1>2. o \in 1 .. Len(maker)
  BY ObjectsMade
<1>3. ASSUME o \notin ended PROVE FALSE
  <2>1. o \in mine[c] /\ \E j \in Id \ zombie[c] : object[c][j] = o
    BY <1>1, <1>2, <1>3 DEF EndInv, AliveIsThere
  <2>2. PICK j \in Id : object[c][j] = o
    BY <2>1
  <2>3. j = i
    BY <2>2, SameObject, ObjectsMade
  <2> QED BY <1>1, <2>1, <2>2, <2>3
<1> QED BY <1>1, <1>3

(* What a client is to destroy is not its own.                             *)
LEMMA ZombieIsNotOwn ==
  ASSUME OrderInv, EndInv, NEW c \in Client, NEW i \in zombie[c]
  PROVE  i \in Id /\ object[c][i] # None /\ object[c][i] \notin mine[c]
<1> DEFINE o == object[c][i]
<1>1. i \in Id /\ c \in Node /\ o # None
  BY ObjectsMade DEF OrderInv, NetInv, TypeOK, ZombiesAreThere
<1>2. ASSUME o \in mine[c] PROVE FALSE
  <2>1. maker[o] = c /\ o \in 1 .. Len(maker) /\ o \notin ended
    BY <1>1, <1>2, ObjectsMade DEF EndInv, OwnIsAlive
  <2>2. PICK j \in Id \ zombie[c] : object[c][j] = o
    BY <2>1 DEF EndInv, AliveIsThere
  <2>3. j = i
    BY <1>1, <2>2, SameObject
  <2> QED BY <2>2, <2>3
<1> QED BY <1>1, <1>2

-----------------------------------------------------------------------------
(* Steps that make no object: what each of them shows.                     *)

(* A node gets no object that it had before, and no older content.         *)
Renewed ==
  \A n \in Node, i \in Id :
    \/ object'[n][i] \in {None, object[n][i]}
    \/ object'[n][i] \notin had[n]

Grown ==
  \A n \in Node, i \in Id :
    object[n][i] # None /\ object'[n][i] = object[n][i] =>
      content[n][i].version <= content'[n][i].version

(* What is sent is the object as its sender has it.                        *)
SaidNow ==
  \A m \in net' : m \in net \/ m.type = "destroy" \/
    \A i \in m.ids :
      object[m.from][i] = m.obj /\ m.version = content[m.from][i].version

(* The server orders the end of what it had, and has no more.              *)
NewOrders ==
  \A c \in Client, i \in Id :
    Ordered(Server, c, i)' =>
      Ordered(Server, c, i) \/ (object[Server][i] # None /\ object'[Server][i] = None)

(* The server's copy of a client's own object is not newer.                *)
StillNotNewer ==
  \A c \in Client, i \in Id :
    object[c][i] \in mine[c] /\ object'[Server][i] = object[c][i] =>
      content'[Server][i].version <= content[c][i].version

(* A client keeps what is its own.                                         *)
OwnStays ==
  \A c \in Client, i \in Id :
    object[c][i] \in mine[c] /\ i \notin zombie[c] =>
      object'[c][i] = object[c][i] /\ i \notin zombie'[c]

LEMMA OrderedStaysGone ==
  ASSUME OrderInv, WiresOK', OrderedIsGone, Follows, Renewed, NewOrders, had[Server] \subseteq had'[Server]
  PROVE  OrderedIsGone'
<1> SUFFICES ASSUME NEW c \in Client, NEW i \in Id, Ordered(Server, c, i)'
             PROVE  /\ object'[Server][i] = None
                    /\ \A n \in Node : object'[n][i] # None => object'[n][i] \in had'[Server]
                    /\ \A m \in Sent' : m.type = "create" /\ i \in m.ids => m.obj \in had'[Server]
  BY DEF OrderedIsGone
<1>1. Ordered(Server, c, i) \/ (object[Server][i] # None /\ object'[Server][i] = None)
  BY DEF NewOrders
<1>2. /\ \A n \in Node : object[n][i] # None => object[n][i] \in had[Server]
      /\ \A m \in Sent : m.type = "create" /\ i \in m.ids => m.obj \in had[Server]
  <2>1. CASE Ordered(Server, c, i)
    BY <2>1 DEF OrderedIsGone
  <2>2. CASE object[Server][i] # None
    <3>1. Server \in Node /\ object[Server][i] \in had[Server]
      BY <2>2, ObjectsMade
    <3>2. \A n \in Node : object[n][i] # None => object[n][i] = object[Server][i]
      BY <2>2, <3>1, SameObject
    <3>3. \A m \in Sent : m.type = "create" /\ i \in m.ids => m.obj = object[Server][i]
      BY <2>2, <3>1, SameObject
    <3> QED BY <3>1, <3>2, <3>3
  <2> QED BY <1>1, <2>1, <2>2
<1>3. \A n \in Node : object'[n][i] # None => object'[n][i] \in had[Server]
  <2> SUFFICES ASSUME NEW n \in Node, object'[n][i] # None
               PROVE  object'[n][i] \in had[Server]
    OBVIOUS
  <2>1. CASE object'[n][i] = object[n][i]
    BY <1>2, <2>1
  <2>2. CASE object'[n][i] # object[n][i]
    <3>1. PICK m \in net : m.type = "create" /\ i \in m.ids /\ m.obj = object'[n][i]
      BY <2>2 DEF Follows, ObjectsFollow
    <3> QED BY <1>2, <3>1 DEF Sent
  <2> QED BY <2>1, <2>2
<1>4. object'[Server][i] = None
  <2>1. CASE Ordered(Server, c, i)
    <3>1. object[Server][i] = None
      BY <2>1 DEF OrderedIsGone
    <3> QED BY <1>3, <3>1, ObjectsMade DEF Renewed
  <2> QED BY <1>1, <2>1
<1>5. ASSUME NEW m \in Sent', m.type = "create", i \in m.ids
      PROVE  m.obj \in had[Server]
  <2>1. CASE m \in Sent
    BY <1>2, <1>5, <2>1
  <2>2. CASE FromNode(m)
    <3>1. object[m.from][i] # None /\ m.obj = content[m.from][i].obj
      BY <1>5, <2>2 DEF FromNode
    <3>2. m.from \in Node
      <4>1. WireOK(m)
        BY DEF WiresOK, WireOK, Wire
      <4> QED BY <4>1 DEF WireOK, Wire
    <3>3. content[m.from][i].obj = object[m.from][i]
      BY <3>2 DEF OrderInv, NetInv, RightContent
    <3> QED BY <1>2, <3>1, <3>2, <3>3
  <2> QED BY <1>5, <2>1, <2>2 DEF Follows, MessagesFollow
<1> QED BY <1>3, <1>4, <1>5

LEMMA SentStaysNotNewer ==
  ASSUME OrderInv, WiresOK', TypeOK', SentIsNotNewer, Renewed, Grown, SaidNow
  PROVE  SentIsNotNewer'
<1> SUFFICES ASSUME NEW m \in net', m.type # "destroy", NEW i \in m.ids,
                    object'[m.from][i] = m.obj
             PROVE  m.version <= content'[m.from][i].version
  BY DEF SentIsNotNewer
<1>1. /\ m.from \in Node /\ i \in Id /\ m.obj # None /\ m.version \in Nat
  <2>1. WireOK(m)
    BY DEF WiresOK, WireOK, Wire, Sent
  <2>2. m \in Wire /\ m.obj \in Object
    BY <2>1 DEF WireOK
  <2> QED BY <2>2 DEF Wire, Object, None
<1>2. \/ m \in net /\ m.obj \in had[m.from]
      \/ object[m.from][i] = m.obj /\ m.version = content[m.from][i].version
  BY DEF SaidNow, OrderInv, NetInv, HadAll, Sent
<1>3. object[m.from][i] = m.obj
  BY <1>1, <1>2 DEF Renewed
<1>4. m.version <= content[m.from][i].version
  <2>1. content[m.from][i].version \in Nat
    BY <1>1 DEF OrderInv, NetInv, TypeOK
  <2> QED BY <1>1, <1>2, <1>3, <2>1 DEF SentIsNotNewer
<1>5. content[m.from][i].version <= content'[m.from][i].version
  BY <1>1, <1>3 DEF Grown
<1>6. content[m.from][i].version \in Nat /\ content'[m.from][i].version \in Nat
  BY <1>1 DEF OrderInv, NetInv, TypeOK
<1> QED BY <1>1, <1>4, <1>5, <1>6

LEMMA CopyStaysNotNewer ==
  ASSUME OrderInv, TypeOK', Renewed, Grown, StillNotNewer,
         \A c \in Client : mine'[c] \subseteq mine[c]
  PROVE  CopyIsNotNewer'
<1> SUFFICES ASSUME NEW c \in Client, NEW i \in Id, object'[c][i] \in mine'[c],
                    object'[Server][i] = object'[c][i]
             PROVE  content'[Server][i].version <= content'[c][i].version
  BY DEF CopyIsNotNewer
<1>1. object'[c][i] \in mine[c] /\ object'[c][i] # None /\ object'[c][i] \in had[c] /\ c \in Node
  BY ObjectsMade
<1>2. object'[c][i] = object[c][i]
  BY <1>1 DEF Renewed
<1>3. content'[Server][i].version <= content[c][i].version
  BY <1>1, <1>2 DEF StillNotNewer
<1>4. content[c][i].version <= content'[c][i].version
  BY <1>1, <1>2 DEF Grown
<1>5. /\ content'[Server][i].version \in Nat /\ content[c][i].version \in Nat
      /\ content'[c][i].version \in Nat
  BY <1>1, ObjectsMade DEF OrderInv, NetInv, TypeOK
<1> QED BY <1>3, <1>4, <1>5

(* What no step but the end of an object changes.                          *)
LEMMA SameEnds ==
  ASSUME OrderInv, EndInv, Renewed, OwnStays, UNCHANGED <<maker, ended>>,
         \A c \in Client : mine'[c] = mine[c],
         mine'[Server] \subseteq mine[Server] \cup ended
  PROVE  ended' \subseteq 1 .. Len(maker') /\ OwnOrEnded' /\ OwnIsAlive' /\ AliveIsThere'
<1>1. OwnOrEnded'
  BY DEF EndInv, OwnOrEnded
<1>2. OwnIsAlive'
  <2> SUFFICES ASSUME NEW c \in Client, NEW i \in Id, object'[c][i] \in mine[c]
               PROVE  object'[c][i] \notin ended
    BY DEF OwnIsAlive
  <2>1. object'[c][i] # None /\ object'[c][i] \in had[c] /\ c \in Node
    BY ObjectsMade
  <2>2. object'[c][i] = object[c][i]
    BY <2>1 DEF Renewed
  <2> QED BY <2>2 DEF EndInv, OwnIsAlive
<1>3. AliveIsThere'
  <2> SUFFICES ASSUME NEW o \in 1 .. Len(maker), maker[o] \in Client, o \notin ended
               PROVE  /\ o \in mine[maker[o]]
                      /\ \E i \in Id \ zombie'[maker[o]] : object'[maker[o]][i] = o
    BY DEF AliveIsThere
  <2>1. PICK i \in Id \ zombie[maker[o]] : o \in mine[maker[o]] /\ object[maker[o]][i] = o
    BY DEF EndInv, AliveIsThere
  <2> QED BY <2>1 DEF OwnStays
<1> QED BY <1>1, <1>2, <1>3 DEF EndInv

LEMMA EndStays ==
  ASSUME OrderInv, OrderInv', EndInv, Kept, Renewed, Grown, SaidNow, NewOrders, StillNotNewer,
         OwnStays, UNCHANGED <<maker, ended>>, had[Server] \subseteq had'[Server],
         \A c \in Client : mine'[c] = mine[c],
         mine'[Server] \subseteq mine[Server] \cup ended
  PROVE  EndInv'
<1>1. OrderedIsGone'
  BY OrderedStaysGone DEF Kept, Typed, EndInv
<1>2. SentIsNotNewer' /\ CopyIsNotNewer'
  BY SentStaysNotNewer, CopyStaysNotNewer DEF EndInv, Kept, Typed
<1> QED BY <1>1, <1>2, SameEnds DEF EndInv

(* Tables and history are the same, and nothing is said or ordered.        *)
LEMMA StillEnds ==
  ASSUME OrderInv, OrderInv', EndInv, Kept,
         UNCHANGED <<object, content, zombie, mine, maker, had, ended>>, SaidNow, NewOrders
  PROVE  EndInv'
<1>1. Renewed /\ OwnStays
  BY DEF Renewed, OwnStays
<1>2. Grown
  <2> SUFFICES ASSUME NEW n \in Node, NEW i \in Id
               PROVE  content[n][i].version <= content[n][i].version
    BY DEF Grown
  <2>1. content[n][i].version \in Nat
    BY DEF OrderInv, NetInv, TypeOK
  <2> QED BY <2>1
<1>3. StillNotNewer
  BY DEF StillNotNewer, EndInv, CopyIsNotNewer
<1> QED BY <1>1, <1>2, <1>3, EndStays

LEMMA NothingSaid ==
  ASSUME net' \subseteq net
  PROVE  SaidNow
BY DEF SaidNow

LEMMA NothingOrdered ==
  ASSUME \A m \in net' : m.type = "destroy" => m \in net,
         \A l \in Link : destroyer'[l] \subseteq destroyer[l],
         \A n \in Node : doomed'[n] \subseteq doomed[n]
  PROVE  NewOrders
<1> SUFFICES ASSUME NEW c \in Client, NEW i \in Id, Ordered(Server, c, i)'
             PROVE  Ordered(Server, c, i)
  BY DEF NewOrders
<1>1. c \in Node /\ <<Server, c>> \in Link
  BY Links
<1> QED BY <1>1 DEF Ordered

LEMMA QuietEnds ==
  ASSUME OrderInv, OrderInv', EndInv,
         \/ \E c \in Client : Login(c) \/ Ready(c) \/ \E i \in Id : Reserve(c, i)
         \/ \E i \in Id : Recycle(i)
         \/ \E m \in net : Lose(m)
         \/ \E m \in acks : ReceiveAck(m)
         \/ \E n \in Node : \E d \in doomed[n] : ExpireDestroy(n, d)
  PROVE  /\ EndInv'
         /\ UNCHANGED <<object, content, zombie, maker, had, ended>>
<1>1. UNCHANGED <<object, content, zombie, mine, maker, had, ended, destroyer>> /\ net' \subseteq net
  BY DEF Login, Ready, Reserve, Recycle, Lose, ReceiveAck, ExpireDestroy,
         tables, orders, wires, others, story
<1>2. \A n \in Node : doomed'[n] \subseteq doomed[n]
  <2>1. CASE doomed' = doomed
    BY <2>1
  <2>2. CASE \E n \in Node : \E d \in doomed[n] : ExpireDestroy(n, d)
    <3>1. PICK n \in Node : \E d \in doomed[n] : doomed' = [doomed EXCEPT ![n] = @ \ {d}]
      BY <2>2 DEF ExpireDestroy
    <3> QED BY <3>1 DEF OrderInv, NetInv, TypeOK
  <2> QED BY <2>1, <2>2 DEF Login, Ready, Reserve, Recycle, Lose, ReceiveAck,
         tables, orders, wires, others, story
<1>3. SaidNow /\ NewOrders
  BY <1>1, <1>2, NothingSaid, NothingOrdered
<1>4. Kept
  BY LoginKeeps, ReadyKeeps, ReserveKeeps, RecycleKeeps, LoseKeeps, ReceiveAckKeeps,
     ExpireDestroyKeeps DEF OrderInv
<1> QED BY <1>1, <1>3, <1>4, StillEnds

LEMMA SendObjectEnds ==
  ASSUME OrderInv, OrderInv', EndInv, NEW l \in Link, NEW i \in Id,
         SendCreation(l[1], l[2], i) \/ SendSync(l[1], l[2], i)
  PROVE  /\ EndInv'
         /\ UNCHANGED <<object, content, zombie, maker, had, ended>>
<1>1. <<l[1], l[2]>> \in Link /\ l[1] \in Node
  BY Links
<1>2. UNCHANGED <<object, content, zombie, mine, maker, had, ended, destroyer, doomed>>
  BY DEF SendCreation, SendSync, orders, story
<1>3. PICK type \in {"create", "sync"}, ack \in BOOLEAN :
        net' = net \cup {Message(type, l[1], l[2], {i}, content[l[1]][i].obj,
                                 content[l[1]][i].version, ack)}
  <2>1. CASE SendCreation(l[1], l[2], i)
    BY <2>1 DEF SendCreation
  <2>2. CASE SendSync(l[1], l[2], i)
    <3>1. knows[<<l[1], l[2]>>][i].ack \in BOOLEAN
      BY <1>1 DEF OrderInv, NetInv, TypeOK, Knowledge
    <3> QED BY <2>2, <3>1 DEF SendSync
  <2> QED BY <2>1, <2>2
<1>4. content[l[1]][i].obj = object[l[1]][i]
  BY <1>1 DEF OrderInv, NetInv, RightContent
<1>5. SaidNow
  BY <1>3, <1>4 DEF SaidNow, Message
<1>6. NewOrders
  <2>1. \A m \in net' : m.type = "destroy" => m \in net
    BY <1>3 DEF Message
  <2> QED BY <1>2, <2>1, NothingOrdered
<1>7. Kept
  BY <1>1, SendCreationKeeps, SendSyncKeeps DEF OrderInv
<1> QED BY <1>2, <1>5, <1>6, <1>7, StillEnds

LEMMA SendDestroyerEnds ==
  ASSUME OrderInv, OrderInv', EndInv, NEW l \in Link, SendDestroyer(l[1], l[2])
  PROVE  /\ EndInv'
         /\ UNCHANGED <<object, content, zombie, maker, had, ended>>
<1>1. <<l[1], l[2]>> \in Link
  BY Links
<1>2. /\ UNCHANGED <<object, content, zombie, mine, maker, had, ended, doomed>>
      /\ net' = net \cup {DestroyMessage(l[1], l[2], destroyer[<<l[1], l[2]>>])}
      /\ destroyer' = [destroyer EXCEPT ![<<l[1], l[2]>>] = {}]
  BY DEF SendDestroyer, tables, story
<1>3. SaidNow
  BY <1>2 DEF SaidNow, DestroyMessage, Message
<1>4. NewOrders
  <2> SUFFICES ASSUME NEW c \in Client, NEW i \in Id, Ordered(Server, c, i)'
               PROVE  Ordered(Server, c, i)
    BY DEF NewOrders
  <2>1. <<Server, c>> \in Link
    BY Links
  <2>2. CASE i \in destroyer'[<<Server, c>>]
    BY <1>1, <1>2, <2>1, <2>2 DEF OrderInv, NetInv, TypeOK, Ordered
  <2>3. ASSUME NEW m \in net', m.type = "destroy", m.from = Server, m.to = c, i \in m.ids
        PROVE  Ordered(Server, c, i)
    <3>1. CASE m \in net
      BY <2>3, <3>1 DEF Ordered
    <3>2. CASE m = DestroyMessage(l[1], l[2], destroyer[<<l[1], l[2]>>])
      <4>1. l[1] = Server /\ l[2] = c /\ i \in destroyer[<<l[1], l[2]>>]
        BY <2>3, <3>2 DEF DestroyMessage, Message
      <4> QED BY <4>1 DEF Ordered
    <3> QED BY <1>2, <3>1, <3>2
  <2> QED BY <1>2, <2>2, <2>3 DEF Ordered
<1>5. Kept
  BY <1>1, SendDestroyerKeeps DEF OrderInv
<1> QED BY <1>2, <1>3, <1>4, <1>5, StillEnds

(* The content of some objects of a node grows.                            *)
LEMMA GrownEnds ==
  ASSUME OrderInv, OrderInv', EndInv, Kept,
         UNCHANGED <<object, zombie, maker, had, ended>>,
         \A c \in Client : mine'[c] = mine[c],
         mine'[Server] \subseteq mine[Server] \cup ended,
         Grown, SaidNow, NewOrders, StillNotNewer
  PROVE  EndInv'
<1>1. Renewed /\ OwnStays
  BY DEF Renewed, OwnStays
<1> QED BY <1>1, EndStays

(* What a client has of its own the server does not change.                *)
LEMMA OwnIsLeft ==
  ASSUME OrderInv, NEW c \in Client, NEW i \in Id, object[c][i] \in mine[c],
         object[Server][i] = object[c][i]
  PROVE  c \in connected /\ object[Server][i] \notin mine[Server] /\ ~Ordered(Server, c, i)
<1>1. object[c][i] # None /\ object[c][i] \in had[Server]
  BY ObjectsMade
<1>2. c \in connected
  BY <1>1 DEF OrderInv, Orderly, GoneIsGone
<1> QED BY <1>1, <1>2 DEF OrderInv, Orderly, MakerRules

LEMMA ChangeEffect ==
  ASSUME OrderInv, NEW n \in Node, NEW i \in Id, Change(n, i)
  PROVE  /\ UNCHANGED <<object, zombie, mine, maker, had, ended, net, destroyer, doomed>>
         /\ object[n][i] \in mine[n] /\ i \notin zombie[n] /\ object[n][i] # None
         /\ \A p \in Node, j \in Id :
              /\ content'[p][j].obj = content[p][j].obj
              /\ content'[p][j].version =
                   IF p = n /\ j = i THEN content[p][j].version + 1 ELSE content[p][j].version
<1>1. /\ UNCHANGED <<object, zombie, mine, maker, had, ended, net, destroyer, doomed>>
      /\ object[n][i] \in mine[n] /\ i \notin zombie[n]
      /\ content' = [content EXCEPT ![n][i] = Changed(@)]
  BY DEF Change, Own, orders, wires, story
<1>2. content \in [Node -> [Id -> [obj : Object \cup {None}, version : Nat]]]
  BY DEF OrderInv, NetInv, TypeOK
<1>3. \A p \in Node, j \in Id :
        /\ content'[p][j].obj = content[p][j].obj
        /\ content'[p][j].version =
             IF p = n /\ j = i THEN content[p][j].version + 1 ELSE content[p][j].version
  BY <1>1, <1>2 DEF Changed
<1> QED BY <1>1, <1>3, ObjectsMade

LEMMA ChangeEnds ==
  ASSUME OrderInv, OrderInv', EndInv, NEW n \in Node, NEW i \in Id, Change(n, i)
  PROVE  EndInv'
<1>1. /\ UNCHANGED <<object, zombie, mine, maker, had, ended, net, destroyer, doomed>>
      /\ object[n][i] \in mine[n]
      /\ \A p \in Node, j \in Id :
           content'[p][j].version =
             IF p = n /\ j = i THEN content[p][j].version + 1 ELSE content[p][j].version
  BY ChangeEffect
<1>2. \A p \in Node, j \in Id : content[p][j].version \in Nat
  BY DEF OrderInv, NetInv, TypeOK
<1>3. Grown
  BY <1>1, <1>2 DEF Grown
<1>4. StillNotNewer
  <2> SUFFICES ASSUME NEW c \in Client, NEW j \in Id, object[c][j] \in mine[c],
                      object[Server][j] = object[c][j]
               PROVE  content'[Server][j].version <= content[c][j].version
    BY <1>1 DEF StillNotNewer
  <2>1. ~(n = Server /\ j = i)
    BY <1>1, OwnIsLeft
  <2>2. content'[Server][j].version = content[Server][j].version
    BY <1>1, <2>1, ObjectsMade
  <2> QED BY <2>2 DEF EndInv, CopyIsNotNewer
<1>5. SaidNow /\ NewOrders
  BY <1>1, NothingSaid, NothingOrdered
<1>6. Kept
  BY ChangeKeeps DEF OrderInv
<1> QED BY <1>1, <1>3, <1>4, <1>5, <1>6, GrownEnds

(* Read is what a sync does to the content it is for.                      *)
Read(m, n, i) == object[n][i] # None /\ SyncIsNew(m, content[n][i])

LEMMA ReceiveSyncEffect ==
  ASSUME OrderInv, NEW m \in net, ReceiveSync(m), ~(m.to = Server /\ Cheater(m.from, {}))
  PROVE  /\ UNCHANGED <<object, zombie, mine, maker, had, ended, destroyer, doomed>>
         /\ net' \subseteq net
         /\ m.type = "sync" /\ m.from \in Node /\ m.to \in Node /\ <<m.from, m.to>> \in Link
         /\ m.obj \in had[m.from] /\ m.version \in Nat
         /\ \E i \in Id :
              /\ m.ids = {i}
              /\ m.to = Server /\ object[Server][i] # None => OwnerOf(i) = m.from
              /\ \A p \in Node, j \in Id :
                   content'[p][j] = IF p = m.to /\ j = i /\ Read(m, m.to, i)
                                    THEN [obj |-> m.obj, version |-> m.version]
                                    ELSE content[p][j]
<1>1. /\ m \in Sent /\ WireOK(m) /\ m.type = "sync"
  BY DEF ReceiveSync, OrderInv, NetInv, WiresOK, Sent
<1>2. /\ m \in Wire /\ <<m.from, m.to>> \in Link /\ \E i \in Id : m.ids = {i}
  BY <1>1 DEF WireOK
<1>3. m.from \in Node /\ m.to \in Node /\ m.version \in Nat
  BY <1>2 DEF Wire
<1>4. m.obj \in had[m.from]
  BY <1>1 DEF OrderInv, NetInv, HadAll
<1>5. PICK i \in Id : m.ids = {i}
  BY <1>2
<1>6. (CHOOSE j \in m.ids : TRUE) = i
  BY <1>5
<1> DEFINE n == m.to
<1>7. /\ ~(n = Server /\ object[n][i] # None /\ OwnerOf(i) # m.from)
      /\ Handled(m)
      /\ IF object[n][i] # None /\ SyncIsNew(m, content[n][i])
         THEN content' = [content EXCEPT ![n][i] = [obj |-> m.obj, version |-> m.version]]
         ELSE content' = content
      /\ UNCHANGED <<object, zombie, mine, orders, story>>
  BY <1>6 DEF ReceiveSync
<1>8. content \in [Node -> [Id -> [obj : Object \cup {None}, version : Nat]]]
  BY DEF OrderInv, NetInv, TypeOK
<1>9. \A p \in Node, j \in Id :
        content'[p][j] = IF p = m.to /\ j = i /\ Read(m, m.to, i)
                         THEN [obj |-> m.obj, version |-> m.version]
                         ELSE content[p][j]
  BY <1>3, <1>7, <1>8 DEF Read
<1>10. UNCHANGED <<object, zombie, mine, maker, had, ended, destroyer, doomed>> /\ net' \subseteq net
  BY <1>7 DEF orders, story, Handled
<1> QED BY <1>1, <1>2, <1>3, <1>4, <1>5, <1>7, <1>9, <1>10

(* A sync that is read brings a later version of the object that is there, *)
(* which its sender has, if anything, in a still later one.                *)
LEMMA SyncIsLate ==
  ASSUME OrderInv, OrderInv', EndInv, NEW m \in net, ReceiveSync(m),
         ~(m.to = Server /\ Cheater(m.from, {})),
         NEW i \in Id, m.ids = {i}, Read(m, m.to, i)
  PROVE  /\ m.obj = object[m.to][i] /\ m.version > content[m.to][i].version
         /\ \A j \in Id : object[m.from][j] = m.obj => m.version <= content[m.from][j].version
         /\ m.to = Server =>
              /\ i \notin zombie[Server] /\ m.obj \notin mine[Server] /\ maker[m.obj] = m.from
<1>1. /\ UNCHANGED object /\ m.type = "sync" /\ m.from \in Node /\ m.to \in Node
      /\ m.to = Server /\ object[Server][i] # None => OwnerOf(i) = m.from
      /\ content'[m.to][i] = [obj |-> m.obj, version |-> m.version]
      /\ <<m.from, m.to>> \in Link /\ m.version \in Nat
  BY ReceiveSyncEffect
<1>2. m.obj = object[m.to][i] /\ content[m.to][i].obj = object[m.to][i]
  BY <1>1 DEF OrderInv, NetInv, RightContent
<1>3. m.obj # None
  BY <1>2 DEF Read
<1>4. m.version > content[m.to][i].version
  <2>1. content[m.to][i].version \in Nat /\ m.obj \in Int
    BY <1>1, <1>2, <1>3, ObjectsMade DEF OrderInv, NetInv, TypeOK, Object
  <2> QED BY <1>2, <2>1 DEF Read, SyncIsNew
<1>5. ASSUME NEW j \in Id, object[m.from][j] = m.obj PROVE m.version <= content[m.from][j].version
  <2>1. j = i
    BY <1>1, <1>2, <1>3, <1>5, SameObject
  <2> QED BY <1>1, <1>5, <2>1 DEF EndInv, SentIsNotNewer
<1>6. ASSUME m.to = Server
      PROVE  i \notin zombie[Server] /\ m.obj \notin mine[Server] /\ maker[m.obj] = m.from
  <2>1. m.from # Server
    BY <1>1, <1>6, Links
  <2> QED BY <1>1, <1>2, <1>3, <1>6, <2>1 DEF OwnerOf
<1> QED BY <1>2, <1>4, <1>5, <1>6

LEMMA ReceiveSyncEnds ==
  ASSUME OrderInv, OrderInv', EndInv, NEW m \in net, ReceiveSync(m),
         ~(m.to = Server /\ Cheater(m.from, {}))
  PROVE  EndInv'
<1>1. /\ UNCHANGED <<object, zombie, mine, maker, had, ended, destroyer, doomed>>
      /\ net' \subseteq net /\ m.from \in Node /\ m.to \in Node /\ <<m.from, m.to>> \in Link
      /\ m.version \in Nat
  BY ReceiveSyncEffect
<1>2. PICK i \in Id :
        /\ m.ids = {i}
        /\ \A p \in Node, j \in Id :
             content'[p][j] = IF p = m.to /\ j = i /\ Read(m, m.to, i)
                              THEN [obj |-> m.obj, version |-> m.version]
                              ELSE content[p][j]
  BY ReceiveSyncEffect
<1>3. Read(m, m.to, i) =>
        /\ m.obj = object[m.to][i] /\ m.version > content[m.to][i].version
        /\ \A j \in Id : object[m.from][j] = m.obj => m.version <= content[m.from][j].version
        /\ m.to = Server => maker[m.obj] = m.from
  BY <1>2, SyncIsLate
<1>4. Grown
  <2> SUFFICES ASSUME NEW p \in Node, NEW j \in Id
               PROVE  content[p][j].version <= content'[p][j].version
    BY DEF Grown
  <2>1. content[p][j].version \in Nat
    BY DEF OrderInv, NetInv, TypeOK
  <2>2. CASE p = m.to /\ j = i /\ Read(m, m.to, i)
    <3>1. content'[p][j].version = m.version
      BY <1>2, <2>2
    <3> QED BY <1>1, <1>3, <2>1, <2>2, <3>1
  <2>3. CASE ~(p = m.to /\ j = i /\ Read(m, m.to, i))
    <3>1. content'[p][j] = content[p][j]
      BY <1>2, <2>3
    <3> QED BY <2>1, <3>1
  <2> QED BY <2>2, <2>3
<1>5. StillNotNewer
  <2> SUFFICES ASSUME NEW c \in Client, NEW j \in Id, object[c][j] \in mine[c],
                      object[Server][j] = object[c][j]
               PROVE  content'[Server][j].version <= content[c][j].version
    BY <1>1 DEF StillNotNewer
  <2>1. CASE m.to = Server /\ j = i /\ Read(m, m.to, i)
    <3>1. m.obj = object[c][j] /\ maker[m.obj] = m.from
      BY <1>3, <2>1
    <3>2. m.from = c
      BY <3>1, ObjectsMade
    <3>3. content'[Server][j].version = m.version
      BY <1>2, <2>1, ObjectsMade
    <3> QED BY <1>3, <2>1, <3>1, <3>2, <3>3
  <2>2. CASE ~(m.to = Server /\ j = i /\ Read(m, m.to, i))
    <3>1. content'[Server][j] = content[Server][j]
      BY <1>2, <2>2, ObjectsMade
    <3> QED BY <3>1 DEF EndInv, CopyIsNotNewer
  <2> QED BY <2>1, <2>2
<1>6. SaidNow /\ NewOrders
  BY <1>1, NothingSaid, NothingOrdered
<1>7. Kept
  BY ReceiveSyncKeeps DEF OrderInv
<1> QED BY <1>1, <1>4, <1>5, <1>6, <1>7, GrownEnds

(* A player that the server takes over was ended by its client.            *)
ReceiveDestroyKept(m, kept) ==
  /\ UNCHANGED <<object, zombie, maker, had, ended, destroyer>> /\ net' \subseteq net
  /\ \A c \in Client : mine'[c] = mine[c]
  /\ \A o \in mine'[Server] : o \in mine[Server] \/ \E i \in kept : o = object[Server][i]
  /\ \A p \in Node, j \in Id :
       content'[p][j].version =
         IF p = Server /\ j \in kept THEN content[p][j].version + 1 ELSE content[p][j].version
  /\ \A p \in Node : \A d \in doomed'[p] :
       d \in doomed[p] \/ (p = m.to /\ d.id \in m.ids /\ d.from = m.from)
  /\ \A i \in kept :
       /\ m.to = Server /\ i \in Id /\ i \notin zombie[Server] /\ object[Server][i] # None
       /\ m.from \in Client /\ Ordered(m.from, Server, i)
  /\ m.type = "destroy" /\ m.from \in Node /\ m.to \in Node

LEMMA ReceiveDestroyEffect ==
  ASSUME NetInv, NEW m \in net, ReceiveDestroy(m)
  PROVE  \E kept \in SUBSET Id : ReceiveDestroyKept(m, kept)
<1> USE DEF NetInv
<1> DEFINE n == m.to
           news == m.ids \ local[n]
           players == {i \in news : n = Server /\ object[n][i] # None /\ i \notin zombie[n]}
<1>1. /\ UNCHANGED <<object, zombie, destroyer, maker, had, ended>>
      /\ Handled(m) /\ m.type = "destroy"
  BY DEF ReceiveDestroy, others, story
<1>2. /\ WireOK(m) /\ n \in Node /\ m.from \in Node /\ m.ids \in SUBSET Id
      /\ <<m.from, n>> \in Link
  BY <1>1 DEF WiresOK, WireOK, Wire, Sent
<1>3. PICK kept \in SUBSET players :
        /\ TakeOver(kept)
        /\ doomed' = [doomed EXCEPT ![n] =
             @ \cup {[id |-> i, from |-> m.from] : i \in news \ kept}]
  BY DEF ReceiveDestroy
<1>4. kept \in SUBSET Id
  BY <1>2, <1>3
<1>5. ASSUME NEW i \in kept
      PROVE  /\ n = Server /\ i \in Id /\ i \notin zombie[Server] /\ object[Server][i] # None
             /\ m.from \in Client /\ Ordered(m.from, Server, i)
  <2>1. n = Server /\ i \in m.ids /\ object[Server][i] # None /\ i \notin zombie[Server]
    BY <1>3, <1>5
  <2>2. m.from \in Client
    BY <1>2, <2>1, Links DEF Node
  <2> QED BY <1>1, <1>4, <2>1, <2>2 DEF Ordered
<1>6. Server \in Node /\ \A c \in Client : c \in Node /\ c # Server
  BY Links
<1>7. /\ \A c \in Client : mine'[c] = mine[c]
      /\ \A o \in mine'[Server] : o \in mine[Server] \/ \E i \in kept : o = object[Server][i]
  <2>1. mine' = [mine EXCEPT ![Server] = @ \cup {object[Server][i] : i \in kept}]
    BY <1>3 DEF TakeOver
  <2>2. mine \in [Node -> SUBSET Object]
    BY DEF TypeOK
  <2>3. mine'[Server] = mine[Server] \cup {object[Server][i] : i \in kept}
    BY ONLY <1>6, <2>1, <2>2
  <2> QED BY ONLY <1>6, <2>1, <2>2, <2>3
<1>8. \A p \in Node, j \in Id :
        content'[p][j].version =
          IF p = Server /\ j \in kept THEN content[p][j].version + 1 ELSE content[p][j].version
  <2>1. content' = [content EXCEPT ![Server] =
          [i \in Id |-> IF i \in kept THEN Changed(@[i]) ELSE @[i]]]
    BY <1>3 DEF TakeOver
  <2>2. content \in [Node -> [Id -> [obj : Object \cup {None}, version : Nat]]]
    BY DEF TypeOK
  <2>3. \A p \in Node, j \in Id :
          content'[p][j] = IF p = Server /\ j \in kept THEN Changed(content[p][j])
                           ELSE content[p][j]
    BY <1>6, <2>1, <2>2
  <2>4. \A p \in Node, j \in Id : Changed(content[p][j]).version = content[p][j].version + 1
    BY <2>2 DEF Changed
  <2> QED BY <2>3, <2>4
<1>9. ASSUME NEW p \in Node, NEW d \in doomed'[p]
      PROVE  d \in doomed[p] \/ (p = n /\ d.id \in m.ids /\ d.from = m.from)
  BY <1>2, <1>3 DEF TypeOK
<1>10. net' \subseteq net
  BY <1>1 DEF Handled
<1> HIDE DEF news, players
<1> QED BY <1>1, <1>2, <1>4, <1>5, <1>7, <1>8, <1>9, <1>10 DEF ReceiveDestroyKept

LEMMA KeptIsEnded ==
  ASSUME OrderInv, EndInv, NEW m \in net, NEW kept, ReceiveDestroyKept(m, kept), NEW i \in kept
  PROVE  /\ object[Server][i] \in ended
         /\ \A c \in Client : object[c][i] = object[Server][i] => object[c][i] \notin mine[c]
<1>1. /\ i \in Id /\ object[Server][i] # None
      /\ m.from \in Client /\ Ordered(m.from, Server, i)
  BY DEF ReceiveDestroyKept
<1>2. object[Server][i] \in ended /\ maker[object[Server][i]] = m.from
  BY <1>1, OrderedIsEnded, ObjectsMade
<1> QED BY <1>1, <1>2 DEF EndInv, OwnIsAlive

LEMMA ReceiveDestroyEnds ==
  ASSUME OrderInv, OrderInv', EndInv, NEW m \in net, ReceiveDestroy(m)
  PROVE  EndInv'
<1>1. PICK kept \in SUBSET Id : ReceiveDestroyKept(m, kept)
  BY ReceiveDestroyEffect DEF OrderInv
<1>2. /\ UNCHANGED <<object, zombie, maker, had, ended, destroyer>> /\ net' \subseteq net
      /\ \A c \in Client : mine'[c] = mine[c]
      /\ \A p \in Node, j \in Id :
           content'[p][j].version =
             IF p = Server /\ j \in kept THEN content[p][j].version + 1 ELSE content[p][j].version
  BY <1>1 DEF ReceiveDestroyKept
<1>3. ASSUME NEW o \in mine'[Server] PROVE o \in mine[Server] \cup ended
  <2>1. o \in mine[Server] \/ \E i \in kept : o = object[Server][i]
    BY <1>1, <1>3 DEF ReceiveDestroyKept
  <2> QED BY <1>1, <2>1, KeptIsEnded
<1>4. \A p \in Node, j \in Id : content[p][j].version \in Nat
  BY DEF OrderInv, NetInv, TypeOK
<1>5. Grown
  BY <1>2, <1>4 DEF Grown
<1>6. StillNotNewer
  <2> SUFFICES ASSUME NEW c \in Client, NEW j \in Id, object[c][j] \in mine[c],
                      object[Server][j] = object[c][j]
               PROVE  content'[Server][j].version <= content[c][j].version
    BY <1>2 DEF StillNotNewer
  <2>1. j \notin kept
    BY <1>1, KeptIsEnded
  <2>2. content'[Server][j].version = content[Server][j].version
    BY <1>2, <2>1, ObjectsMade
  <2> QED BY <2>2 DEF EndInv, CopyIsNotNewer
<1>7. NewOrders
  <2> SUFFICES ASSUME NEW c \in Client, NEW i \in Id, Ordered(Server, c, i)'
               PROVE  Ordered(Server, c, i)
    BY DEF NewOrders
  <2>1. c \in Node
    BY Links
  <2>2. \A d \in doomed'[c] : d \in doomed[c] \/ (c = m.to /\ d.id \in m.ids /\ d.from = m.from)
    BY <1>1, <2>1 DEF ReceiveDestroyKept
  <2>3. m.type = "destroy"
    BY <1>1 DEF ReceiveDestroyKept
  <2> QED BY <1>2, <2>2, <2>3 DEF Ordered
<1>8. SaidNow
  BY <1>2, NothingSaid
<1>9. Kept
  BY ReceiveDestroyKeeps DEF OrderInv
<1> QED BY <1>2, <1>3, <1>5, <1>6, <1>7, <1>8, <1>9, GrownEnds

(* An object arrives where it never was.                                   *)
ReceivedCopy(m, i) ==
  /\ i \in Id /\ m.ids = {i} /\ Creation(m, i) /\ Arrived(m, i) /\ ended' = ended
  /\ m.version \in Nat
  /\ \A p \in Node, j \in Id :
       content'[p][j] = IF p = m.to /\ j = i THEN [obj |-> m.obj, version |-> m.version]
                        ELSE content[p][j]

LEMMA ReceiveCreateEffect ==
  ASSUME OrderInv, NEW m \in net, ReceiveCreate(m), ~(m.to = Server /\ Cheater(m.from, {}))
  PROVE  \E i \in Id : ReceivedCopy(m, i)
<1>1. PICK cur : OrderAt(cur)
  BY DEF OrderInv, LastOrders, OrderAt
<1>2. m.type = "create" /\ WireOK(m)
  BY DEF ReceiveCreate, OrderInv, NetInv, WiresOK, Sent
<1>3. PICK i \in Id : m.ids = {i}
  BY <1>2 DEF WireOK
<1>4. Creation(m, i) /\ m.ack
  BY <1>1, <1>2, <1>3, CreationIs
<1>5. Arrived(m, i)
  BY <1>1, <1>3, <1>4, CreationArrives
<1>6. (CHOOSE j \in m.ids : TRUE) = i
  BY <1>3
<1>7. object[m.to][i] = None
  BY <1>4 DEF Creation
<1>8. /\ content' = [content EXCEPT ![m.to][i] = [obj |-> m.obj, version |-> m.version]]
      /\ ended' = ended
  BY <1>6, <1>7 DEF ReceiveCreate
<1>9. content \in [Node -> [Id -> [obj : Object \cup {None}, version : Nat]]]
  BY DEF OrderInv, NetInv, TypeOK
<1>10. m.to \in Node /\ m.version \in Nat
  BY <1>2 DEF WireOK, Wire
<1>11. \A p \in Node, j \in Id :
         content'[p][j] = IF p = m.to /\ j = i THEN [obj |-> m.obj, version |-> m.version]
                          ELSE content[p][j]
  BY <1>8, <1>9, <1>10
<1> QED BY <1>3, <1>4, <1>5, <1>8, <1>10, <1>11 DEF ReceivedCopy

LEMMA ReceiveCreateEnds ==
  ASSUME OrderInv, OrderInv', EndInv, NEW m \in net, ReceiveCreate(m),
         ~(m.to = Server /\ Cheater(m.from, {}))
  PROVE  EndInv'
<1>1. PICK i \in Id : ReceivedCopy(m, i)
  BY ReceiveCreateEffect
<1>2. /\ m.ids = {i} /\ m.type = "create" /\ m.from \in Node /\ m.to \in Node
      /\ m.obj \notin had[m.to] /\ object[m.to][i] = None /\ m.version \in Nat
      /\ (m.to = Server <=> m.from # Server) /\ (m.from # Server => maker[m.obj] = m.from)
  BY <1>1 DEF ReceivedCopy, Creation
<1>3. /\ UNCHANGED <<mine, destroyer, doomed, maker, zombie, ended>>
      /\ net' \subseteq net /\ had[Server] \subseteq had'[Server]
      /\ \A p \in Node, j \in Id :
           object'[p][j] = IF p = m.to /\ j = i THEN m.obj ELSE object[p][j]
  BY <1>1, ObjectsMade DEF ReceivedCopy, Arrived
<1>4. \A p \in Node, j \in Id :
        content'[p][j] = IF p = m.to /\ j = i THEN [obj |-> m.obj, version |-> m.version]
                         ELSE content[p][j]
  BY <1>1 DEF ReceivedCopy
<1>5. Renewed
  BY <1>2, <1>3 DEF Renewed
<1>6. Grown
  <2> SUFFICES ASSUME NEW p \in Node, NEW j \in Id, object[p][j] # None
               PROVE  content[p][j].version <= content'[p][j].version
    BY DEF Grown
  <2>1. content'[p][j] = content[p][j]
    BY <1>2, <1>4
  <2>2. content[p][j].version \in Nat
    BY DEF OrderInv, NetInv, TypeOK
  <2> QED BY <2>1, <2>2
<1>7. StillNotNewer
  <2> SUFFICES ASSUME NEW c \in Client, NEW j \in Id, object[c][j] \in mine[c],
                      object'[Server][j] = object[c][j]
               PROVE  content'[Server][j].version <= content[c][j].version
    BY DEF StillNotNewer
  <2>1. CASE m.to = Server /\ j = i
    <3>1. m.obj = object[c][j]
      BY <1>3, <2>1, ObjectsMade
    <3>2. m.from = c
      BY <1>2, <2>1, <3>1, ObjectsMade
    <3>3. m.version <= content[c][j].version
      BY <1>2, <2>1, <3>1, <3>2 DEF EndInv, SentIsNotNewer
    <3>4. content'[Server][j].version = m.version
      BY <1>4, <2>1, ObjectsMade
    <3> QED BY <3>3, <3>4
  <2>2. CASE ~(m.to = Server /\ j = i)
    <3>1. content'[Server][j] = content[Server][j] /\ object'[Server][j] = object[Server][j]
      BY <1>3, <1>4, <2>2, ObjectsMade
    <3> QED BY <3>1 DEF EndInv, CopyIsNotNewer
  <2> QED BY <2>1, <2>2
<1>8. OwnStays
  <2> SUFFICES ASSUME NEW c \in Client, NEW j \in Id, object[c][j] \in mine[c]
               PROVE  object'[c][j] = object[c][j]
    BY <1>3 DEF OwnStays
  <2>1. c \in Node /\ object[c][j] # None
    BY ObjectsMade
  <2> QED BY <1>2, <1>3, <2>1
<1>9. SaidNow /\ NewOrders
  BY <1>3, NothingSaid, NothingOrdered
<1>10. Kept
  BY ReceiveCreateKeeps DEF OrderInv
<1> QED BY <1>3, <1>5, <1>6, <1>7, <1>8, <1>9, <1>10, EndStays

(* An order is executed, or there was nothing to do.                       *)
LEMMA DoDestroyEffect ==
  ASSUME OrderInv, NEW n \in Node, NEW d \in doomed[n], DoDestroy(n, d),
         ~(d.from \in connected /\ Cheater(d.from, {d}))
  PROVE  /\ UNCHANGED <<object, content, mine, maker, had, ended, destroyer, net>>
         /\ \A p \in Node : doomed'[p] \subseteq doomed[p]
         /\ d.id \in Id /\ object[n][d.id] # None /\ <<d.from, n>> \in Link
         /\ Ordered(d.from, n, d.id)
         /\ \/ zombie' = zombie
            \/ \A p \in Node : zombie'[p] = IF p = n THEN zombie[p] \cup {d.id} ELSE zombie[p]
<1>1. d.id \in Id /\ <<d.from, n>> \in Link
  BY DEF OrderInv, NetInv, TypeOK, OrdersOnLinks
<1>2. object[n][d.id] # None /\ Ordered(d.from, n, d.id)
  BY DEF DoDestroy, Ordered
<1>3. /\ UNCHANGED <<object, content, mine, maker, had, ended, destroyer, net>>
      /\ doomed' = [doomed EXCEPT ![n] = @ \ {d}]
      /\ zombie' = zombie \/ zombie' = [zombie EXCEPT ![n] = @ \cup {d.id}]
  BY DEF DoDestroy, tables, wires, story
<1>4. /\ doomed \in [Node -> SUBSET [id : Id, from : Node]]
      /\ zombie \in [Node -> SUBSET Id]
  BY DEF OrderInv, NetInv, TypeOK
<1>5. \A p \in Node : doomed'[p] \subseteq doomed[p]
  BY <1>3, <1>4
<1>6. \/ zombie' = zombie
      \/ \A p \in Node : zombie'[p] = IF p = n THEN zombie[p] \cup {d.id} ELSE zombie[p]
  BY <1>3, <1>4
<1> QED BY <1>1, <1>2, <1>3, <1>5, <1>6

(* A client is not ordered to destroy what is its own.                     *)
LEMMA OrderedIsNotOwn ==
  ASSUME OrderInv, NEW c \in Client, NEW i \in Id, object[c][i] # None, Ordered(Server, c, i)
  PROVE  object[c][i] \notin mine[c]
<1>1. c \in connected
  BY DEF OrderInv, Orderly, GoneIsGone
<1> QED BY <1>1 DEF OrderInv, Orderly, MakerRules

LEMMA DoDestroyEnds ==
  ASSUME OrderInv, OrderInv', EndInv, NEW n \in Node, NEW d \in doomed[n], DoDestroy(n, d),
         ~(d.from \in connected /\ Cheater(d.from, {d}))
  PROVE  EndInv'
<1>1. /\ UNCHANGED <<object, content, mine, maker, had, ended, destroyer, net>>
      /\ \A p \in Node : doomed'[p] \subseteq doomed[p]
      /\ d.id \in Id /\ object[n][d.id] # None /\ <<d.from, n>> \in Link
      /\ Ordered(d.from, n, d.id)
      /\ \/ zombie' = zombie
         \/ \A p \in Node : zombie'[p] = IF p = n THEN zombie[p] \cup {d.id} ELSE zombie[p]
  BY DoDestroyEffect
<1>2. Renewed
  BY <1>1 DEF Renewed
<1>3. Grown
  <2> SUFFICES ASSUME NEW p \in Node, NEW j \in Id
               PROVE  content[p][j].version <= content[p][j].version
    BY <1>1 DEF Grown
  <2>1. content[p][j].version \in Nat
    BY DEF OrderInv, NetInv, TypeOK
  <2> QED BY <2>1
<1>4. StillNotNewer
  BY <1>1 DEF StillNotNewer, EndInv, CopyIsNotNewer
<1>5. OwnStays
  <2> SUFFICES ASSUME NEW c \in Client, NEW j \in Id, object[c][j] \in mine[c], j \notin zombie[c]
               PROVE  j \notin zombie'[c]
    BY <1>1 DEF OwnStays
  <2>1. ~(c = n /\ j = d.id)
    <3> SUFFICES ASSUME c = n, j = d.id PROVE FALSE
      OBVIOUS
    <3>1. object[c][j] # None
      BY <1>1
    <3>2. d.from = Server
      BY <1>1, Links
    <3>3. Ordered(Server, c, j)
      BY <1>1, <3>2 DEF Ordered
    <3> QED BY <3>1, <3>3, OrderedIsNotOwn
  <2>2. c \in Node
    BY Links
  <2>3. zombie' = zombie \/ zombie'[c] = IF c = n THEN zombie[c] \cup {d.id} ELSE zombie[c]
    BY <1>1, <2>2
  <2> QED BY <2>1, <2>3
<1>6. SaidNow /\ NewOrders
  BY <1>1, NothingSaid, NothingOrdered
<1>7. Kept
  BY DoDestroyKeeps DEF OrderInv
<1> QED BY <1>1, <1>2, <1>3, <1>4, <1>5, <1>6, <1>7, EndStays

(* What the destructor does to the content.                                *)
LEMMA DestructedContent ==
  ASSUME NetInv, NEW n \in Node, NEW ids \in SUBSET Id, Destruct(n, ids)
  PROVE  \A p \in Node, j \in Id :
           content'[p][j] = IF p = n /\ j \in ids THEN Nothing ELSE content[p][j]
<1>1. Destructed(n, ids)
  BY DestructTyped DEF NetInv
<1> QED BY <1>1 DEF Destructed

LEMMA DeletedIsNotNewer ==
  ASSUME OrderInv, EndInv, NEW n \in Node, NEW ids \in SUBSET Id, Deleted(n, ids),
         \A i \in ids : object[n][i] # None,
         \A p \in Node, j \in Id :
           content'[p][j] = IF p = n /\ j \in ids THEN Nothing ELSE content[p][j]
  PROVE  Renewed /\ Grown /\ SaidNow /\ NewOrders /\ StillNotNewer
<1>1. /\ \A p \in Node, i \in Id :
           object'[p][i] = IF p = n /\ i \in ids THEN None ELSE object[p][i]
      /\ \A l \in Link, i \in Id :
           Ordered(l[1], l[2], i)' =>
             \/ Ordered(l[1], l[2], i)
             \/ l[1] = n /\ i \in ids
      /\ \A m \in net' : m \in net \/ m.type = "destroy"
  BY DEF Deleted
<1>2. Renewed
  BY <1>1 DEF Renewed
<1>3. Grown
  <2> SUFFICES ASSUME NEW p \in Node, NEW j \in Id, object[p][j] # None,
                      object'[p][j] = object[p][j]
               PROVE  content[p][j].version <= content'[p][j].version
    BY DEF Grown
  <2>1. content'[p][j] = content[p][j]
    BY <1>1
  <2>2. content[p][j].version \in Nat
    BY DEF OrderInv, NetInv, TypeOK
  <2> QED BY <2>1, <2>2
<1>4. SaidNow
  BY <1>1 DEF SaidNow
<1>5. NewOrders
  <2> SUFFICES ASSUME NEW c \in Client, NEW i \in Id, Ordered(Server, c, i)'
               PROVE  Ordered(Server, c, i) \/ (object[Server][i] # None /\ object'[Server][i] = None)
    BY DEF NewOrders
  <2>1. <<Server, c>> \in Link /\ <<Server, c>>[1] = Server /\ <<Server, c>>[2] = c /\ Server \in Node
    BY Links, ObjectsMade
  <2>2. Ordered(Server, c, i) \/ (Server = n /\ i \in ids)
    BY <1>1, <2>1
  <2> QED BY <1>1, <2>1, <2>2
<1>6. StillNotNewer
  <2> SUFFICES ASSUME NEW c \in Client, NEW j \in Id, object[c][j] \in mine[c],
                      object'[Server][j] = object[c][j]
               PROVE  content'[Server][j].version <= content[c][j].version
    BY DEF StillNotNewer
  <2>1. object[c][j] # None /\ Server \in Node
    BY ObjectsMade
  <2>2. content'[Server][j] = content[Server][j] /\ object'[Server][j] = object[Server][j]
    BY <1>1, <2>1
  <2> QED BY <2>2 DEF EndInv, CopyIsNotNewer
<1> QED BY <1>2, <1>3, <1>4, <1>5, <1>6

LEMMA ClearAllDeletedEnds ==
  ASSUME OrderInv, OrderInv', EndInv, NEW n \in Node, ClearAllDeleted(n)
  PROVE  EndInv'
<1>1. /\ Deleted(n, zombie[n]) /\ zombie[n] \in SUBSET Id
      /\ \A i \in zombie[n] : object[n][i] # None
  BY ClearAllDeletedDeletes DEF OrderInv
<1>2. Destruct(n, zombie[n]) /\ ended' = ended
  BY DEF ClearAllDeleted, story
<1>3. Renewed /\ Grown /\ SaidNow /\ NewOrders /\ StillNotNewer
  BY <1>1, <1>2, DestructedContent, DeletedIsNotNewer DEF OrderInv
<1>4. OwnStays
  <2> SUFFICES ASSUME NEW c \in Client, NEW i \in Id, i \notin zombie[c]
               PROVE  object'[c][i] = object[c][i] /\ i \notin zombie'[c]
    BY DEF OwnStays
  <2> QED BY <1>1, ObjectsMade DEF Deleted
<1>5. UNCHANGED <<mine, maker, had>>
  BY <1>1 DEF Deleted
<1>6. Kept
  BY ClearAllDeletedKeeps DEF OrderInv
<1> QED BY <1>2, <1>3, <1>4, <1>5, <1>6, EndStays

LEMMA DestroyObjectEnds ==
  ASSUME OrderInv, OrderInv', EndInv, NEW n \in Node, NEW i \in Id, DestroyObject(n, i)
  PROVE  EndInv'
<1>1. PICK ids : ids = {i}
  OBVIOUS
<1>2. /\ Deleted(n, ids) /\ ids \in SUBSET Id /\ object[n][i] \in mine[n] /\ object[n][i] # None
  BY <1>1, DestroyObjectDeletes DEF OrderInv
<1>3. /\ Destruct(n, ids)
      /\ ended' = IF maker[object[n][i]] = n THEN ended \cup {object[n][i]} ELSE ended
  BY <1>1 DEF DestroyObject
<1>4. Renewed /\ Grown /\ SaidNow /\ NewOrders /\ StillNotNewer
  <2>1. \A j \in ids : object[n][j] # None
    BY <1>1, <1>2
  <2> QED BY <1>2, <1>3, <2>1, DestructedContent, DeletedIsNotNewer DEF OrderInv
<1>5. UNCHANGED <<mine, maker, had>>
  BY <1>2 DEF Deleted
<1>6. /\ \A p \in Node, j \in Id :
           /\ object'[p][j] = IF p = n /\ j = i THEN None ELSE object[p][j]
           /\ j \in zombie'[p] => j \in zombie[p]
  BY <1>1, <1>2 DEF Deleted
<1>7. Kept
  BY DestroyObjectKeeps DEF OrderInv
<1>8. OrderedIsGone'
  BY <1>4, <1>5, <1>7, OrderedStaysGone DEF Kept, Typed, EndInv
<1>9. SentIsNotNewer' /\ CopyIsNotNewer'
  BY <1>4, <1>5, <1>7, SentStaysNotNewer, CopyStaysNotNewer DEF EndInv, Kept, Typed
<1>10. ended' \subseteq 1 .. Len(maker') /\ OwnOrEnded'
  <2>1. object[n][i] \in 1 .. Len(maker)
    BY <1>2, ObjectsMade
  <2> QED BY <1>3, <1>5, <2>1 DEF EndInv, OwnOrEnded
<1>11. OwnIsAlive'
  <2> SUFFICES ASSUME NEW c \in Client, NEW j \in Id, object'[c][j] \in mine[c]
               PROVE  object'[c][j] \notin ended'
    BY <1>5 DEF OwnIsAlive
  <2>1. c \in Node /\ object'[c][j] # None
    BY <1>5, ObjectsMade
  <2>2. ~(c = n /\ j = i) /\ object'[c][j] = object[c][j]
    BY <1>6, <2>1
  <2>3. object[c][j] \notin ended /\ maker[object[c][j]] = c
    BY <2>2, ObjectsMade DEF EndInv, OwnIsAlive
  <2>4. object[c][j] = object[n][i] => c # n
    BY <1>2, <2>1, <2>2, SameObject
  <2> QED BY <1>3, <2>2, <2>3, <2>4
<1>12. AliveIsThere'
  <2> SUFFICES ASSUME NEW o \in 1 .. Len(maker), maker[o] \in Client, o \notin ended'
               PROVE  /\ o \in mine[maker[o]]
                      /\ \E j \in Id \ zombie'[maker[o]] : object'[maker[o]][j] = o
    BY <1>5 DEF AliveIsThere
  <2>1. o \notin ended /\ maker[o] \in Node
    BY <1>3, ObjectsMade
  <2>2. PICK j \in Id \ zombie[maker[o]] : o \in mine[maker[o]] /\ object[maker[o]][j] = o
    BY <2>1 DEF EndInv, AliveIsThere
  <2>3. ~(maker[o] = n /\ j = i)
    BY <1>3, <2>2
  <2>4. object'[maker[o]][j] = o /\ j \notin zombie'[maker[o]]
    BY <1>6, <2>1, <2>2, <2>3
  <2> QED BY <2>2, <2>4
<1> QED BY <1>8, <1>9, <1>10, <1>11, <1>12 DEF EndInv

LEMMA LeaveServerEnds ==
  ASSUME OrderInv, OrderInv', EndInv, NEW c \in Client, LeaveServer(c), Kept,
         \A n \in Node : doomed'[n] \subseteq doomed[n]
  PROVE  EndInv'
<1> DEFINE gone == OwnedBy(c)
<1>1. /\ net' = Without(net, c) /\ mine' = [mine EXCEPT ![c] = {}]
      /\ destroyer' = [l \in Link |-> IF c \in {l[1], l[2]} THEN {} ELSE Destroyed(Server, gone)[l]]
      /\ ended' = ended \cup {o \in DOMAIN maker : maker[o] = c}
      /\ maker' = maker
  BY DEF LeaveServer
<1>2. LeftBehind(c, gone)
  BY LeaveServerTables DEF OrderInv
<1>3. \A i \in gone : i \in Id /\ object[Server][i] # None
  BY OwnedByClient DEF OrderInv
<1>4. c \in Node /\ c # Server /\ Server \in Node
  BY Links
<1>5. /\ \A j \in Id : object'[c][j] = None
      /\ \A p \in Node, j \in Id : object'[p][j] \in {None, object[p][j]}
      /\ \A p \in Client, j \in Id : p # c => object'[p][j] = object[p][j]
      /\ \A p \in Client : p # c => zombie'[p] = zombie[p]
      /\ \A p \in Node, j \in Id : object'[p][j] # None => content'[p][j] = content[p][j]
      /\ \A i \in gone : object'[Server][i] = None
      /\ had'[Server] = had[Server]
  BY <1>2, <1>3, <1>4, ObjectsMade DEF LeftBehind
<1>6. mine'[c] = {} /\ \A p \in Node : p # c => mine'[p] = mine[p]
  BY <1>1, <1>4 DEF OrderInv, NetInv, TypeOK
<1>7. net' \subseteq net
  BY <1>1 DEF Without
<1>8. \A l \in Link, i \in Id :
        i \in destroyer'[l] => i \in destroyer[l] \/ (l[1] = Server /\ i \in gone)
  <2>1. gone \in SUBSET Id /\ TypeOK
    BY <1>3 DEF OrderInv, NetInv
  <2>2. \A l \in Link, i \in Id :
          i \in Destroyed(Server, gone)[l] => i \in destroyer[l] \/ (l[1] = Server /\ i \in gone)
    BY <1>4, <2>1, ForgottenIs
  <2> QED BY <1>1, <2>2
<1> HIDE DEF gone
<1>9. Renewed
  BY <1>5 DEF Renewed
<1>10. Grown
  <2> SUFFICES ASSUME NEW p \in Node, NEW j \in Id, object[p][j] # None,
                      object'[p][j] = object[p][j]
               PROVE  content[p][j].version <= content'[p][j].version
    BY DEF Grown
  <2>1. content'[p][j] = content[p][j]
    BY <1>5
  <2>2. content[p][j].version \in Nat
    BY DEF OrderInv, NetInv, TypeOK
  <2> QED BY <2>1, <2>2
<1>11. StillNotNewer
  <2> SUFFICES ASSUME NEW p \in Client, NEW j \in Id, object[p][j] \in mine[p],
                      object'[Server][j] = object[p][j]
               PROVE  content'[Server][j].version <= content[p][j].version
    BY DEF StillNotNewer
  <2>1. object[p][j] # None
    BY ObjectsMade
  <2>2. content'[Server][j] = content[Server][j] /\ object'[Server][j] = object[Server][j]
    BY <1>4, <1>5, <2>1
  <2> QED BY <2>2 DEF EndInv, CopyIsNotNewer
<1>12. NewOrders
  <2> SUFFICES ASSUME NEW p \in Client, NEW i \in Id, Ordered(Server, p, i)'
               PROVE  Ordered(Server, p, i) \/ (object[Server][i] # None /\ object'[Server][i] = None)
    BY DEF NewOrders
  <2>1. <<Server, p>> \in Link /\ p \in Node
    BY Links
  <2>2. i \in destroyer'[<<Server, p>>] => i \in destroyer[<<Server, p>>] \/ i \in gone
    BY <1>8, <2>1
  <2>3. Ordered(Server, p, i) \/ i \in gone
    BY <1>7, <2>1, <2>2 DEF Ordered
  <2> QED BY <1>3, <1>5, <2>3
<1>13. SaidNow
  BY <1>7, NothingSaid
<1>14. OrderedIsGone'
  BY <1>5, <1>9, <1>12, OrderedStaysGone DEF Kept, Typed, EndInv
<1>15. SentIsNotNewer' /\ CopyIsNotNewer'
  <2>1. \A p \in Client : mine'[p] \subseteq mine[p]
    BY <1>6, ObjectsMade
  <2> QED BY <1>9, <1>10, <1>11, <1>13, <2>1, SentStaysNotNewer, CopyStaysNotNewer
             DEF EndInv, Kept, Typed
<1>16. ended' \subseteq 1 .. Len(maker') /\ OwnOrEnded'
  <2>1. DOMAIN maker = 1 .. Len(maker)
    BY DEF OrderInv, NetInv, HistoryOK
  <2> QED BY <1>1, <1>4, <1>6, <2>1 DEF EndInv, OwnOrEnded
<1>17. OwnIsAlive'
  <2> SUFFICES ASSUME NEW p \in Client, NEW j \in Id, object'[p][j] \in mine'[p]
               PROVE  object'[p][j] \notin ended'
    BY DEF OwnIsAlive
  <2>1. p # c /\ object'[p][j] = object[p][j] /\ object[p][j] \in mine[p]
    BY <1>5, <1>6, ObjectsMade
  <2>2. object[p][j] \notin ended /\ maker[object[p][j]] = p
    BY <2>1, ObjectsMade DEF EndInv, OwnIsAlive
  <2> QED BY <1>1, <2>1, <2>2
<1>18. AliveIsThere'
  <2> SUFFICES ASSUME NEW o \in 1 .. Len(maker), maker[o] \in Client, o \notin ended'
               PROVE  /\ o \in mine'[maker[o]]
                      /\ \E j \in Id \ zombie'[maker[o]] : object'[maker[o]][j] = o
    BY <1>1 DEF AliveIsThere
  <2>1. o \in DOMAIN maker
    BY DEF OrderInv, NetInv, HistoryOK
  <2>2. o \notin ended /\ maker[o] # c
    BY <1>1, <2>1
  <2>3. PICK j \in Id \ zombie[maker[o]] : o \in mine[maker[o]] /\ object[maker[o]][j] = o
    BY <2>2 DEF EndInv, AliveIsThere
  <2> QED BY <1>5, <1>6, <2>2, <2>3, ObjectsMade
<1> QED BY <1>14, <1>15, <1>16, <1>17, <1>18 DEF EndInv

(* A new object is its maker's, and nobody was told of it.                 *)
LEMMA MakeObjectContent ==
  ASSUME OrderInv, NEW n \in Node, NEW i \in Id, MakeObject(n, i), NEW o, o = Len(maker) + 1
  PROVE  /\ Unborn(n, i, o) /\ Born(n, i, o) /\ ended' = ended
         /\ \A p \in Node, j \in Id :
              content'[p][j] = IF p = n /\ j = i THEN [obj |-> o, version |-> 0]
                               ELSE content[p][j]
<1>1. PICK cur : OrderAt(cur)
  BY DEF OrderInv, LastOrders, OrderAt
<1>2. Unborn(n, i, o) /\ Born(n, i, o)
  BY <1>1, NextIsUnborn, NextIsBorn
<1>3. content' = [content EXCEPT ![n][i] = [obj |-> o, version |-> 0]] /\ ended' = ended
  BY DEF MakeObject
<1>4. content \in [Node -> [Id -> [obj : Object \cup {None}, version : Nat]]]
  BY DEF OrderInv, NetInv, TypeOK
<1>5. \A p \in Node, j \in Id :
        content'[p][j] = IF p = n /\ j = i THEN [obj |-> o, version |-> 0] ELSE content[p][j]
  BY <1>3, <1>4
<1> QED BY <1>2, <1>3, <1>5

LEMMA MakeObjectEnds ==
  ASSUME OrderInv, OrderInv', EndInv, NEW n \in Node, NEW i \in Id, MakeObject(n, i)
  PROVE  EndInv'
<1>0. PICK o : o = Len(maker) + 1
  OBVIOUS
<1>1. /\ Unborn(n, i, o) /\ Born(n, i, o) /\ ended' = ended
      /\ \A p \in Node, j \in Id :
           content'[p][j] = IF p = n /\ j = i THEN [obj |-> o, version |-> 0]
                            ELSE content[p][j]
  BY <1>0, MakeObjectContent
<1>2. /\ UNCHANGED <<zombie, destroyer, doomed, net, acks>>
      /\ \A p \in Node, j \in Id : object'[p][j] = IF p = n /\ j = i THEN o ELSE object[p][j]
      /\ \A p \in Node : /\ had'[p] = IF p = n THEN had[p] \cup {o} ELSE had[p]
                         /\ mine'[p] = IF p = n THEN mine[p] \cup {o} ELSE mine[p]
      /\ Len(maker) \in Nat /\ o = Len(maker) + 1 /\ Len(maker') = o
      /\ maker'[o] = n /\ \A x \in 1 .. Len(maker) : maker'[x] = maker[x]
  BY <1>1 DEF Born
<1>3. /\ \A p \in Node : o \notin had[p] /\ o \notin mine[p] /\ object[p][i] = None
      /\ \A p \in Node, j \in Id : object[p][j] # o
      /\ \A l \in Link : ~Ordered(l[1], l[2], i)
      /\ o # None
  BY <1>1 DEF Unborn
<1>4. o \notin 1 .. Len(maker) /\ o \notin ended /\ 1 .. Len(maker') = 1 .. Len(maker) \cup {o}
  BY <1>2 DEF EndInv
<1>m. ASSUME NEW p \in Node, NEW x PROVE x \in mine'[p] <=> x \in mine[p] \/ (p = n /\ x = o)
  <2>1. mine'[p] = IF p = n THEN mine[p] \cup {o} ELSE mine[p]
    BY <1>2
  <2> QED BY ONLY <2>1
<1>5. ended' \subseteq 1 .. Len(maker') /\ OwnOrEnded'
  <2>1. ended' \subseteq 1 .. Len(maker')
    BY <1>1, <1>4 DEF EndInv
  <2>2. ASSUME NEW x \in mine'[Server] PROVE maker'[x] = Server \/ x \in ended
    <3>1. Server \in Node /\ mine[Server] \subseteq 1 .. Len(maker)
      BY ObjectsMade
    <3>2. CASE x \in mine[Server]
      BY <1>2, <3>1, <3>2 DEF EndInv, OwnOrEnded
    <3>3. CASE x \notin mine[Server]
      BY <1>2, <1>m, <2>2, <3>1, <3>3
    <3> QED BY <3>2, <3>3
  <2> QED BY <1>1, <2>1, <2>2 DEF OwnOrEnded
<1>6. OwnIsAlive'
  <2> SUFFICES ASSUME NEW c \in Client, NEW j \in Id, object'[c][j] \in mine'[c]
               PROVE  object'[c][j] \notin ended
    BY <1>1 DEF OwnIsAlive
  <2>1. c \in Node
    BY Links
  <2>2. CASE c = n /\ j = i
    BY <1>2, <1>4, <2>1, <2>2
  <2>3. CASE ~(c = n /\ j = i)
    <3>1. object'[c][j] = object[c][j] /\ object[c][j] # o
      BY <1>2, <1>3, <2>1, <2>3
    <3>2. object[c][j] \in mine[c]
      BY <1>m, <2>1, <3>1
    <3> QED BY <3>1, <3>2 DEF EndInv, OwnIsAlive
  <2> QED BY <2>2, <2>3
<1>7. AliveIsThere'
  <2> SUFFICES ASSUME NEW x \in 1 .. Len(maker'), maker'[x] \in Client, x \notin ended
               PROVE  /\ x \in mine'[maker'[x]]
                      /\ \E j \in Id \ zombie[maker'[x]] : object'[maker'[x]][j] = x
    BY <1>1, <1>2 DEF AliveIsThere
  <2>1. CASE x = o
    <3>1. i \notin zombie[n]
      BY <1>3 DEF OrderInv, NetInv, ZombiesAreThere
    <3> QED BY <1>2, <2>1, <3>1
  <2>2. CASE x # o
    <3>1. x \in 1 .. Len(maker) /\ maker'[x] = maker[x] /\ maker[x] \in Node
      BY <1>2, <1>4, <2>2, Links
    <3>2. PICK j \in Id \ zombie[maker[x]] : x \in mine[maker[x]] /\ object[maker[x]][j] = x
      BY <3>1 DEF EndInv, AliveIsThere
    <3>3. x # None
      BY <3>1, ObjectsMade
    <3>4. object'[maker[x]][j] = x
      BY <1>2, <1>3, <3>1, <3>2, <3>3
    <3>5. x \in mine'[maker[x]]
      BY <1>2, <3>1, <3>2
    <3> QED BY <3>1, <3>2, <3>4, <3>5
  <2> QED BY <2>1, <2>2
<1>8. SentIsNotNewer'
  <2> SUFFICES ASSUME NEW m \in net, m.type # "destroy", NEW k \in m.ids,
                      object'[m.from][k] = m.obj
               PROVE  m.version <= content'[m.from][k].version
    BY <1>2 DEF SentIsNotNewer
  <2>1. m \in Wire /\ m.obj \in had[m.from]
    BY DEF OrderInv, NetInv, WiresOK, WireOK, HadAll, Sent
  <2>2. m.from \in Node /\ k \in Id
    BY <2>1 DEF Wire
  <2>3. ~(m.from = n /\ k = i)
    BY <1>2, <1>3, <2>1, <2>2
  <2>4. object[m.from][k] = m.obj /\ content'[m.from][k] = content[m.from][k]
    BY <1>1, <1>2, <2>2, <2>3
  <2> QED BY <2>4 DEF EndInv, SentIsNotNewer
<1>9. CopyIsNotNewer'
  <2> SUFFICES ASSUME NEW c \in Client, NEW j \in Id, object'[c][j] \in mine'[c],
                      object'[Server][j] = object'[c][j]
               PROVE  content'[Server][j].version <= content'[c][j].version
    BY DEF CopyIsNotNewer
  <2>1. c \in Node /\ Server \in Node /\ c # Server
    BY Links
  <2>2. object'[c][j] # None
    <3>1. CASE c = n /\ j = i
      BY <1>2, <1>3, <2>1, <3>1
    <3>2. CASE ~(c = n /\ j = i)
      <4>1. object'[c][j] = object[c][j] /\ object[c][j] # o
        BY <1>2, <1>3, <2>1, <3>2
      <4>2. object[c][j] \in mine[c]
        BY <1>m, <2>1, <4>1
      <4> QED BY <2>1, <4>1, <4>2, ObjectsMade
    <3> QED BY <3>1, <3>2
  <2>3. j # i
    BY <1>2, <1>3, <2>1, <2>2
  <2>4. /\ object'[c][j] = object[c][j] /\ object'[Server][j] = object[Server][j]
        /\ content'[c][j] = content[c][j] /\ content'[Server][j] = content[Server][j]
    BY <1>1, <1>2, <2>1, <2>3
  <2>5. object[c][j] \in mine[c]
    BY <1>m, <1>3, <2>1, <2>4
  <2> QED BY <2>4, <2>5 DEF EndInv, CopyIsNotNewer
<1>10. OrderedIsGone'
  <2> SUFFICES ASSUME NEW c \in Client, NEW j \in Id, Ordered(Server, c, j)'
               PROVE  /\ object'[Server][j] = None
                      /\ \A p \in Node : object'[p][j] # None => object'[p][j] \in had'[Server]
                      /\ \A m \in Sent' : m.type = "create" /\ j \in m.ids => m.obj \in had'[Server]
    BY DEF OrderedIsGone
  <2>1. Server \in Node /\ <<Server, c>> \in Link /\ had[Server] \subseteq had'[Server]
    BY <1>2, Links
  <2>2. Ordered(Server, c, j)
    BY <1>2 DEF Ordered
  <2>3. j # i
    <3>1. ~Ordered(<<Server, c>>[1], <<Server, c>>[2], i)
      BY <1>3, <2>1
    <3> QED BY <2>2, <3>1
  <2>4. \A p \in Node : object'[p][j] = object[p][j]
    BY <1>2, <2>3
  <2>5. Sent' = Sent
    BY <1>2 DEF Sent
  <2> QED BY <2>1, <2>2, <2>4, <2>5 DEF EndInv, OrderedIsGone
<1> QED BY <1>5, <1>6, <1>7, <1>8, <1>9, <1>10 DEF EndInv

LEMMA InitEndInv ==
  ASSUME Init
  PROVE  EndInv
<1> USE DEF Init
<1>1. net = {} /\ ended = {} /\ Len(maker) = 0 /\ \A n \in Node : mine[n] = {} /\ doomed[n] = {}
  OBVIOUS
<1>2. \A c \in Client : c \in Node /\ <<Server, c>> \in Link
  BY Links
<1>3. OwnOrEnded /\ OwnIsAlive /\ SentIsNotNewer /\ CopyIsNotNewer
  BY ONLY <1>1, <1>2, Links DEF OwnOrEnded, OwnIsAlive, SentIsNotNewer, CopyIsNotNewer
<1>a. AliveIsThere
  BY ONLY <1>1 DEF AliveIsThere
<1>4. \A c \in Client, i \in Id : ~Ordered(Server, c, i)
  <2>1. \A c \in Client : destroyer[<<Server, c>>] = {}
    BY <1>2
  <2> QED BY ONLY <1>1, <1>2, <2>1 DEF Ordered
<1>5. OrderedIsGone
  BY <1>4 DEF OrderedIsGone
<1> QED BY <1>1, <1>3, <1>a, <1>5 DEF EndInv

LEMMA CheaterEnds ==
  ASSUME OrderInv, OrderInv', EndInv, NEW c \in Client, NEW ordered, Cheater(c, ordered)
  PROVE  EndInv'
<1>1. LeaveServer(c) /\ doomed' = [doomed EXCEPT ![c] = {}, ![Server] = @ \ ordered]
  BY DEF Cheater
<1>2. Kept
  BY CheaterKeeps DEF OrderInv
<1>3. \A n \in Node : doomed'[n] \subseteq doomed[n]
  BY <1>1 DEF OrderInv, NetInv, TypeOK
<1> QED BY <1>1, <1>2, <1>3, LeaveServerEnds

(* Who is called a Cheater is a client.                                    *)
LEMMA CheatersAreClients ==
  ASSUME OrderInv
  PROVE  /\ \A m \in net : m.to = Server => m.from \in Client
         /\ \A n \in Node : \A d \in doomed[n] : d.from \in connected => d.from \in Client
<1>1. ASSUME NEW m \in net, m.to = Server PROVE m.from \in Client
  <2>1. <<m.from, Server>> \in Link
    BY <1>1 DEF OrderInv, NetInv, WiresOK, WireOK, Sent
  <2> QED BY <2>1, Links DEF Node
<1> QED BY <1>1 DEF OrderInv, NetInv, TypeOK

LEMMA NextEndInv ==
  ASSUME OrderInv, EndInv, [Next]_vars
  PROVE  EndInv'
<1>0. OrderInv'
  BY NextOrderInv
<1>1. ASSUME NEW c \in Client, Logout(c) PROVE EndInv'
  <2>1. LeaveServer(c) /\ doomed' = [doomed EXCEPT ![c] = {}]
    BY <1>1 DEF Logout
  <2>2. Kept
    BY <1>1, LogoutKeeps DEF OrderInv
  <2>3. \A n \in Node : doomed'[n] \subseteq doomed[n]
    BY <2>1 DEF OrderInv, NetInv, TypeOK
  <2> QED BY <1>0, <2>1, <2>2, <2>3, LeaveServerEnds
<1>2. ASSUME \/ \E c \in Client : Login(c) \/ Ready(c) \/ \E i \in Id : Reserve(c, i)
             \/ \E i \in Id : Recycle(i)
             \/ \E m \in net : Lose(m)
             \/ \E m \in acks : ReceiveAck(m)
             \/ \E n \in Node : \E d \in doomed[n] : ExpireDestroy(n, d)
      PROVE  EndInv'
  BY <1>0, <1>2, QuietEnds
<1>3. ASSUME NEW n \in Node, NEW i \in Id, MakeObject(n, i) \/ Change(n, i) \/ DestroyObject(n, i)
      PROVE  EndInv'
  BY <1>0, <1>3, MakeObjectEnds, ChangeEnds, DestroyObjectEnds
<1>4. ASSUME NEW n \in Node, ClearAllDeleted(n) PROVE EndInv'
  BY <1>0, <1>4, ClearAllDeletedEnds
<1>5. ASSUME NEW l \in Link, SendDestroyer(l[1], l[2]) PROVE EndInv'
  BY <1>0, <1>5, SendDestroyerEnds
<1>6. ASSUME NEW l \in Link, NEW i \in Id, SendCreation(l[1], l[2], i) \/ SendSync(l[1], l[2], i)
      PROVE  EndInv'
  BY <1>0, <1>6, SendObjectEnds
<1>7. ASSUME NEW m \in net, ReceiveCreate(m) \/ ReceiveSync(m) PROVE EndInv'
  <2>1. CASE m.to = Server /\ Cheater(m.from, {})
    <3>1. PICK none : none = {}
      OBVIOUS
    <3>2. m.from \in Client /\ Cheater(m.from, none)
      BY <2>1, <3>1, CheatersAreClients
    <3> QED BY <1>0, <3>2, CheaterEnds
  <2>2. CASE ~(m.to = Server /\ Cheater(m.from, {}))
    BY <1>0, <1>7, <2>2, ReceiveCreateEnds, ReceiveSyncEnds
  <2> QED BY <2>1, <2>2
<1>8. ASSUME NEW m \in net, ReceiveDestroy(m) PROVE EndInv'
  BY <1>0, <1>8, ReceiveDestroyEnds
<1>9. ASSUME NEW n \in Node, NEW d \in doomed[n], DoDestroy(n, d) PROVE EndInv'
  <2>1. CASE d.from \in connected /\ Cheater(d.from, {d})
    <3>1. PICK ordered : ordered = {d}
      OBVIOUS
    <3>2. d.from \in Client /\ Cheater(d.from, ordered)
      BY <2>1, <3>1, CheatersAreClients
    <3> QED BY <1>0, <3>2, CheaterEnds
  <2>2. CASE ~(d.from \in connected /\ Cheater(d.from, {d}))
    BY <1>0, <1>9, <2>2, DoDestroyEnds
  <2> QED BY <2>1, <2>2
<1>10. ASSUME UNCHANGED vars PROVE EndInv'
  <2>1. UNCHANGED <<object, content, zombie, mine, destroyer, doomed, net, acks, maker, had, ended>>
    BY <1>10 DEF vars, tables, orders, wires, others, story
  <2>2. Sent' = Sent /\ \A c \in Client, i \in Id : Ordered(Server, c, i)' = Ordered(Server, c, i)
    BY <2>1 DEF Sent, Ordered
  <2> QED BY <2>1, <2>2 DEF EndInv, OwnOrEnded, OwnIsAlive, AliveIsThere, SentIsNotNewer,
                            CopyIsNotNewer, OrderedIsGone
<1> QED BY <1>1, <1>2, <1>3, <1>4, <1>5, <1>6, <1>7, <1>8, <1>9, <1>10 DEF Next, Execute, Receive

(* The inductive invariant of the ends of objects: who may end or change   *)
(* one, and how new the copies and the messages are.                       *)
THEOREM EndInvHolds == Spec => [](OrderInv /\ EndInv)
<1>1. Init => EndInv
  BY InitEndInv
<1>2. OrderInv /\ EndInv /\ [Next]_vars => EndInv'
  BY NextEndInv
<1> QED BY <1>1, <1>2, OrderInvHolds, PTL DEF Spec

-----------------------------------------------------------------------------
(* What the copies are that ReplicatedObjects speaks of.                   *)

At(n, i, o) == i \notin zombie[n] /\ object[n][i] = o

CopiesOK ==
  /\ Makers \in [Object -> Node \cup {NoNode}]
  /\ Copies \in [Node -> [Object -> {"never", "here", "gone"}]]
  /\ Versions \in [Node -> [Object -> Nat]]
  /\ \A o \in Object :
       /\ o \in 1 .. Len(maker) => Makers[o] = maker[o] /\ maker[o] \in Node
       /\ o \notin 1 .. Len(maker) => Makers[o] = NoNode
  /\ \A n \in Node, o \in Object :
       /\ Copies[n][o] = "here" <=> \E i \in Id : At(n, i, o)
       /\ Copies[n][o] = "never" <=> o \notin had[n]
       /\ \A i \in Id : At(n, i, o) => Versions[n][o] = content[n][i].version
       /\ Copies[n][o] # "here" => Versions[n][o] = 0

LEMMA CopyIs ==
  ASSUME OrderInv, NEW n \in Node, NEW o \in Object
  PROVE  /\ CopyOf(n, o) \in {"never", "here", "gone"}
         /\ CopyOf(n, o) = "here" <=> \E i \in Id : At(n, i, o)
         /\ CopyOf(n, o) = "never" <=> o \notin had[n]
         /\ VersionOf(n, o) \in Nat
         /\ \A i \in Id : At(n, i, o) => VersionOf(n, o) = content[n][i].version
         /\ CopyOf(n, o) # "here" => VersionOf(n, o) = 0
<1> DEFINE at == {i \in Id \ zombie[n] : object[n][i] = o}
<1>1. o # None
  BY DEF Object, None
<1>2. \A i \in Id : i \in at <=> At(n, i, o)
  BY DEF At
<1>3. CASE at = {}
  <2>1. ~\E i \in Id : At(n, i, o)
    BY <1>2, <1>3
  <2>2. CopyOf(n, o) = IF o \in had[n] THEN "gone" ELSE "never"
    BY <1>3 DEF CopyOf
  <2>3. VersionOf(n, o) = 0
    BY <1>3 DEF VersionOf
  <2> HIDE DEF at
  <2> QED BY <2>1, <2>2, <2>3
<1>4. CASE at # {}
  <2>1. PICK i \in Id : at = {i}
    <3>1. PICK i \in at : TRUE
      BY <1>4
    <3>2. \A j \in at : j = i
      BY <1>1, <3>1, SameObject
    <3> QED BY <3>1, <3>2
  <2>2. At(n, i, o) /\ \A j \in Id : At(n, j, o) => j = i
    <3> HIDE DEF at
    <3> QED BY <1>2, <2>1
  <2>3. CopyOf(n, o) = "here"
    BY <1>4 DEF CopyOf
  <2>4. VersionOf(n, o) = content[n][i].version
    <3>1. (CHOOSE j \in at : TRUE) = i
      BY <2>1
    <3> QED BY <1>4, <3>1 DEF VersionOf
  <2>5. o \in had[n] /\ content[n][i].version \in Nat
    BY <1>1, <2>2, ObjectsMade DEF At, OrderInv, NetInv, TypeOK
  <2> HIDE DEF at
  <2> QED BY <2>2, <2>3, <2>4, <2>5
<1> QED BY <1>3, <1>4

LEMMA CopiesAre ==
  OrderInv => CopiesOK
<1> SUFFICES ASSUME OrderInv PROVE CopiesOK
  OBVIOUS
<1>1. DOMAIN maker = 1 .. Len(maker) /\ \A o \in 1 .. Len(maker) : maker[o] \in Node
  BY DEF OrderInv, NetInv, HistoryOK
<1>2. /\ Makers \in [Object -> Node \cup {NoNode}]
      /\ \A o \in Object :
           /\ o \in 1 .. Len(maker) => Makers[o] = maker[o] /\ maker[o] \in Node
           /\ o \notin 1 .. Len(maker) => Makers[o] = NoNode
  BY <1>1 DEF Makers
<1>3. /\ Copies \in [Node -> [Object -> {"never", "here", "gone"}]]
      /\ \A n \in Node, o \in Object : Copies[n][o] = CopyOf(n, o)
  BY CopyIs DEF Copies
<1>4. /\ Versions \in [Node -> [Object -> Nat]]
      /\ \A n \in Node, o \in Object : Versions[n][o] = VersionOf(n, o)
  BY CopyIs DEF Versions
<1>5. ASSUME NEW n \in Node, NEW o \in Object
      PROVE  /\ Copies[n][o] = "here" <=> \E i \in Id : At(n, i, o)
             /\ Copies[n][o] = "never" <=> o \notin had[n]
             /\ \A i \in Id : At(n, i, o) => Versions[n][o] = content[n][i].version
             /\ Copies[n][o] # "here" => Versions[n][o] = 0
  <2>1. Copies[n][o] = CopyOf(n, o) /\ Versions[n][o] = VersionOf(n, o)
    BY <1>3, <1>4
  <2> QED BY <2>1, CopyIs
<1> QED BY <1>2, <1>3, <1>4, <1>5 DEF CopiesOK

LEMMA CopiesAreNext ==
  ASSUME OrderInv'
  PROVE  CopiesOK'
BY CopiesAre, PTL

(* A step does not touch the copy of o at n.                               *)
Untouched(n, o) ==
  /\ \A i \in Id : At(n, i, o)' <=> At(n, i, o)
  /\ \A i \in Id : At(n, i, o) => content'[n][i].version = content[n][i].version
  /\ o \in had'[n] <=> o \in had[n]

LEMMA UntouchedIs ==
  ASSUME CopiesOK, CopiesOK', NEW n \in Node, NEW o \in Object, Untouched(n, o)
  PROVE  Copies'[n][o] = Copies[n][o] /\ Versions'[n][o] = Versions[n][o]
<1>1. /\ Copies[n][o] \in {"never", "here", "gone"} /\ Copies'[n][o] \in {"never", "here", "gone"}
      /\ Copies[n][o] = "here" <=> Copies'[n][o] = "here"
      /\ Copies[n][o] = "never" <=> Copies'[n][o] = "never"
  BY DEF CopiesOK, Untouched
<1>2. CASE Copies[n][o] = "here"
  <2>1. PICK i \in Id : At(n, i, o)
    BY <1>2 DEF CopiesOK
  <2>2. Versions[n][o] = content[n][i].version
    BY <2>1 DEF CopiesOK
  <2>3. At(n, i, o)' /\ content'[n][i].version = content[n][i].version
    BY <2>1 DEF Untouched
  <2>4. Versions'[n][o] = content'[n][i].version
    BY <2>3 DEF CopiesOK
  <2> QED BY <1>1, <2>2, <2>3, <2>4
<1>3. CASE Copies[n][o] # "here"
  BY <1>1, <1>3 DEF CopiesOK
<1> QED BY <1>2, <1>3

(* Steps of ReplicatedObjects, copy by copy.                               *)

LEMMA SameNodes ==
  Replicas!Node = Node
BY DEF Replicas!Node, Node

LEMMA SameMakers ==
  ASSUME UNCHANGED maker
  PROVE  Makers' = Makers
BY DEF Makers

LEMMA OneChange ==
  ASSUME NEW S, NEW f \in [Node -> [Object -> S]], NEW g \in [Node -> [Object -> S]],
         NEW n \in Node, NEW o \in Object, NEW v \in S,
         \A p \in Node, x \in Object : g[p][x] = IF p = n /\ x = o THEN v ELSE f[p][x]
  PROVE  g = [f EXCEPT ![n][o] = v]
<1> DEFINE h == [f EXCEPT ![n][o] = v]
<1>1. h \in [Node -> [Object -> S]]
  OBVIOUS
<1>2. \A p \in Node, x \in Object : h[p][x] = g[p][x]
  OBVIOUS
<1> HIDE DEF h
<1>3. \A p \in Node : h[p] = g[p]
  BY <1>1, <1>2
<1>4. h = g
  BY <1>1, <1>3
<1> QED BY <1>4 DEF h

LEMMA RowChange ==
  ASSUME NEW S, NEW f \in [Node -> [Object -> S]], NEW g \in [Node -> [Object -> S]],
         NEW n \in Node, NEW r \in [Object -> S],
         \A x \in Object : g[n][x] = r[x],
         \A p \in Node, x \in Object : p # n => g[p][x] = f[p][x]
  PROVE  g = [f EXCEPT ![n] = r]
<1>1. \A p \in Node : g[p] \in [Object -> S] /\ f[p] \in [Object -> S]
  OBVIOUS
<1>2. g[n] = r
  BY <1>1
<1>3. \A p \in Node : p # n => g[p] = f[p]
  BY <1>1
<1> QED BY <1>2, <1>3

LEMMA Stutters ==
  ASSUME CopiesOK, CopiesOK', UNCHANGED <<maker, ended>>,
         \A n \in Node, o \in Object : Untouched(n, o)
  PROVE  UNCHANGED Replicas!vars
<1>1. \A n \in Node, o \in Object : Copies'[n][o] = Copies[n][o] /\ Versions'[n][o] = Versions[n][o]
  BY UntouchedIs
<1>2. /\ Copies \in [Node -> [Object -> {"never", "here", "gone"}]]
      /\ Copies' \in [Node -> [Object -> {"never", "here", "gone"}]]
      /\ Versions \in [Node -> [Object -> Nat]]
      /\ Versions' \in [Node -> [Object -> Nat]]
  BY DEF CopiesOK
<1>3. \A n \in Node : Copies'[n] = Copies[n] /\ Versions'[n] = Versions[n]
  BY <1>1, <1>2
<1>4. Copies' = Copies /\ Versions' = Versions
  BY <1>2, <1>3
<1> QED BY <1>4, SameMakers DEF Replicas!vars

(* The copy of o at n is another one, and no other copy is touched.        *)
OnlyTouched(n, o) ==
  \A p \in Node, x \in Object : (p = n /\ x = o) \/ Untouched(p, x)

LEMMA OnlyTouchedIs ==
  ASSUME CopiesOK, CopiesOK', NEW n \in Node, NEW o \in Object, OnlyTouched(n, o)
  PROVE  /\ Copies' = [Copies EXCEPT ![n][o] = Copies'[n][o]]
         /\ Versions' = [Versions EXCEPT ![n][o] = Versions'[n][o]]
<1>1. \A p \in Node, x \in Object : (p = n /\ x = o) \/
        (Copies'[p][x] = Copies[p][x] /\ Versions'[p][x] = Versions[p][x])
  BY UntouchedIs DEF OnlyTouched
<1> DEFINE C == {"never", "here", "gone"}
           c == Copies'[n][o]
           v == Versions'[n][o]
<1>2. /\ Copies \in [Node -> [Object -> C]] /\ Copies' \in [Node -> [Object -> C]]
      /\ Versions \in [Node -> [Object -> Nat]] /\ Versions' \in [Node -> [Object -> Nat]]
  BY DEF CopiesOK
<1>3. c \in C /\ v \in Nat
  BY <1>2
<1>4. \A p \in Node, x \in Object : Copies'[p][x] = IF p = n /\ x = o THEN c ELSE Copies[p][x]
  BY <1>1
<1>5. \A p \in Node, x \in Object : Versions'[p][x] = IF p = n /\ x = o THEN v ELSE Versions[p][x]
  BY <1>1
<1> HIDE DEF C, c, v
<1>6. Copies' = [Copies EXCEPT ![n][o] = c]
  BY <1>2, <1>3, <1>4, OneChange
<1>7. Versions' = [Versions EXCEPT ![n][o] = v]
  BY <1>2, <1>3, <1>5, OneChange
<1> QED BY <1>6, <1>7 DEF c, v

LEMMA SameVersion ==
  ASSUME CopiesOK, NEW n \in Node, NEW o \in Object, NEW v, v = Versions[n][o]
  PROVE  [Versions EXCEPT ![n][o] = v] = Versions
<1>1. Versions \in [Node -> [Object -> Nat]] /\ v \in Nat
  BY DEF CopiesOK
<1>2. \A p \in Node, x \in Object :
        Versions[p][x] = IF p = n /\ x = o THEN v ELSE Versions[p][x]
  OBVIOUS
<1> QED BY <1>1, <1>2, OneChange

LEMMA SameCopy ==
  ASSUME CopiesOK, NEW n \in Node, NEW o \in Object, NEW v, v = Copies[n][o]
  PROVE  [Copies EXCEPT ![n][o] = v] = Copies
<1> DEFINE C == {"never", "here", "gone"}
<1>1. Copies \in [Node -> [Object -> C]] /\ v \in C
  BY DEF CopiesOK
<1>2. \A p \in Node, x \in Object :
        Copies[p][x] = IF p = n /\ x = o THEN v ELSE Copies[p][x]
  OBVIOUS
<1> HIDE DEF C
<1> QED BY <1>1, <1>2, OneChange

(* The steps.                                                              *)

LEMMA MakeObjectMakes ==
  ASSUME OrderInv, OrderInv', EndInv, NEW n \in Node, NEW i \in Id, MakeObject(n, i)
  PROVE  Replicas!Next
<1>0. PICK o : o = Len(maker) + 1
  OBVIOUS
<1>1. /\ Unborn(n, i, o) /\ Born(n, i, o) /\ ended' = ended
      /\ \A p \in Node, j \in Id :
           content'[p][j] = IF p = n /\ j = i THEN [obj |-> o, version |-> 0]
                            ELSE content[p][j]
  BY <1>0, MakeObjectContent
<1>2. CopiesOK /\ CopiesOK'
  BY CopiesAre, CopiesAreNext
<1>3. /\ zombie' = zombie
      /\ \A p \in Node, j \in Id : object'[p][j] = IF p = n /\ j = i THEN o ELSE object[p][j]
      /\ \A p \in Node : had'[p] = IF p = n THEN had[p] \cup {o} ELSE had[p]
      /\ Len(maker) \in Nat /\ o = Len(maker) + 1 /\ Len(maker') = o
      /\ maker'[o] = n /\ \A x \in 1 .. Len(maker) : maker'[x] = maker[x]
  BY <1>1 DEF Born
<1>4. /\ o \in Object /\ o # None
      /\ \A p \in Node : o \notin had[p] /\ object[p][i] = None
      /\ \A p \in Node, j \in Id : object[p][j] # o
  BY <1>1 DEF Unborn
<1>5. i \notin zombie[n]
  BY <1>4 DEF OrderInv, NetInv, ZombiesAreThere
<1>6. OnlyTouched(n, o)
  <2> SUFFICES ASSUME NEW p \in Node, NEW x \in Object, ~(p = n /\ x = o)
               PROVE  Untouched(p, x)
    BY DEF OnlyTouched
  <2>1. x # None
    BY DEF Object, None
  <2>2. ASSUME NEW j \in Id PROVE At(p, j, x)' <=> At(p, j, x)
    <3>1. CASE p = n /\ j = i
      BY <1>3, <1>4, <2>1, <3>1 DEF At
    <3>2. CASE ~(p = n /\ j = i)
      BY <1>3, <3>2 DEF At
    <3> QED BY <3>1, <3>2
  <2>3. ASSUME NEW j \in Id, At(p, j, x) PROVE content'[p][j].version = content[p][j].version
    <3>1. ~(p = n /\ j = i)
      BY <1>4, <2>1, <2>3 DEF At
    <3> QED BY <1>1, <3>1
  <2>4. x \in had'[p] <=> x \in had[p]
    <3>1. had'[p] = IF p = n THEN had[p] \cup {o} ELSE had[p]
      BY <1>3
    <3> QED BY <3>1
  <2> QED BY <2>2, <2>3, <2>4 DEF Untouched
<1>7. At(n, i, o)' /\ content'[n][i].version = 0
  BY <1>1, <1>3, <1>5 DEF At
<1>8. Copies'[n][o] = "here" /\ Versions'[n][o] = 0
  BY <1>2, <1>4, <1>7 DEF CopiesOK
<1>9. Copies[n][o] # "here" /\ Versions[n][o] = 0
  BY <1>2, <1>4 DEF CopiesOK, At
<1>10. Copies' = [Copies EXCEPT ![n][o] = "here"] /\ Versions' = Versions
  <2>1. /\ Copies' = [Copies EXCEPT ![n][o] = Copies'[n][o]]
        /\ Versions' = [Versions EXCEPT ![n][o] = Versions'[n][o]]
    BY <1>2, <1>4, <1>6, OnlyTouchedIs
  <2>2. PICK v : v = Versions'[n][o]
    OBVIOUS
  <2>3. [Versions EXCEPT ![n][o] = v] = Versions
    BY <1>2, <1>4, <1>8, <1>9, <2>2, SameVersion
  <2> QED BY <1>8, <2>1, <2>2, <2>3
<1>11. Makers[o] = NoNode /\ Makers' = [Makers EXCEPT ![o] = n]
  <2>1. o \notin 1 .. Len(maker) /\ \A x \in Object : x \in 1 .. Len(maker') <=> x \in 1 .. Len(maker) \/ x = o
    BY <1>3
  <2>2. Makers[o] = NoNode
    BY <1>2, <1>4, <2>1 DEF CopiesOK
  <2>3. ASSUME NEW x \in Object PROVE Makers'[x] = IF x = o THEN n ELSE Makers[x]
    <3>1. CASE x = o
      BY <1>2, <1>3, <1>4, <2>1, <3>1 DEF CopiesOK
    <3>2. CASE x # o /\ x \in 1 .. Len(maker)
      <4>1. x \in 1 .. Len(maker') /\ maker'[x] = maker[x]
        BY <1>3, <2>1, <3>2
      <4>2. Makers'[x] = maker'[x] /\ Makers[x] = maker[x]
        BY <1>2, <3>2, <4>1 DEF CopiesOK
      <4> QED BY <3>2, <4>1, <4>2
    <3>3. CASE x # o /\ x \notin 1 .. Len(maker)
      BY <1>2, <1>3, <2>1, <3>3 DEF CopiesOK
    <3> QED BY <3>1, <3>2, <3>3
  <2>4. Makers \in [Object -> Node \cup {NoNode}] /\ Makers' \in [Object -> Node \cup {NoNode}]
    BY <1>2 DEF CopiesOK
  <2> QED BY <1>4, <2>2, <2>3, <2>4
<1>12. Replicas!Make(n, o)
  BY <1>1, <1>10, <1>11 DEF Replicas!Make
<1> QED BY <1>4, <1>12, SameNodes DEF Replicas!Next

(* Where a message about an object comes from is where copies come from.   *)
LEMMA SenderIsSource ==
  ASSUME OrderInv, CopiesOK, NEW m, <<m.from, m.to>> \in Link, m.obj \in 1 .. Len(maker),
         m.to = Server => maker[m.obj] = m.from
  PROVE  Replicas!Source(m.to, m.obj) = m.from
<1>1. m.to # Server => m.from = Server
  BY Links
<1>2. m.obj \in Object
  BY ObjectsMade
<1>3. Makers[m.obj] = maker[m.obj]
  BY <1>2 DEF CopiesOK
<1> QED BY <1>1, <1>3 DEF Replicas!Source

(* A creation is of the object with its id.                                *)
LEMMA CreationHasId ==
  ASSUME OrderInv, NEW m \in net, m.type = "create", NEW i \in Id, m.ids = {i}
  PROVE  \A n \in Node, j \in Id : object[n][j] = m.obj => j = i
<1>1. PICK cur : OrderAt(cur)
  BY DEF OrderInv, LastOrders, OrderAt
<1>0. Creation(m, i) /\ m.obj = cur[i]
  BY <1>1, CreationIs
<1>2. m.obj = cur[i] /\ m.obj \in Object
  BY <1>0 DEF Creation
<1>3. m.obj # None
  BY <1>2 DEF Object, None
<1> QED BY <1>1, <1>2, <1>3 DEF OrderAt, Last, Distinct

LEMMA CreateAppears ==
  ASSUME OrderInv, OrderInv', EndInv, NEW m \in net, ReceiveCreate(m),
         ~(m.to = Server /\ Cheater(m.from, {}))
  PROVE  Replicas!Next
<1>1. PICK i \in Id : ReceivedCopy(m, i)
  BY ReceiveCreateEffect
<1>2. PICK n, o : n = m.to /\ o = m.obj
  OBVIOUS
<1>3. /\ m.ids = {i} /\ m.type = "create" /\ m.from \in Node /\ n \in Node /\ o \in Object
      /\ o \in had[m.from] /\ o \notin had[n] /\ object[n][i] = None /\ i \notin zombie[n]
      /\ m.version \in Nat /\ <<m.from, n>> \in Link
      /\ (n = Server <=> m.from # Server) /\ (m.from # Server => maker[o] = m.from)
  BY <1>1, <1>2 DEF ReceivedCopy, Creation
<1>4. /\ UNCHANGED <<maker, zombie, ended>>
      /\ \A p \in Node, j \in Id : object'[p][j] = IF p = n /\ j = i THEN o ELSE object[p][j]
      /\ \A p \in Node : had'[p] = IF p = n THEN had[p] \cup {o} ELSE had[p]
      /\ \A p \in Node, j \in Id :
           content'[p][j] = IF p = n /\ j = i THEN [obj |-> o, version |-> m.version]
                            ELSE content[p][j]
  BY <1>1, <1>2 DEF ReceivedCopy, Arrived
<1>5. CopiesOK /\ CopiesOK'
  BY CopiesAre, CopiesAreNext
<1>6. \A x \in Object : x # None
  BY DEF Object, None
<1>7. ASSUME NEW p \in Node, NEW x \in Object, ~(p = n /\ x = o)
      PROVE  Untouched(p, x)
  <2>1. ASSUME NEW j \in Id PROVE At(p, j, x)' <=> At(p, j, x)
    <3>1. CASE p = n /\ j = i
      BY <1>3, <1>4, <1>6, <1>7, <3>1 DEF At
    <3>2. CASE ~(p = n /\ j = i)
      BY <1>4, <3>2 DEF At
    <3> QED BY <3>1, <3>2
  <2>2. ASSUME NEW j \in Id, At(p, j, x) PROVE content'[p][j].version = content[p][j].version
    <3>1. ~(p = n /\ j = i)
      BY <1>3, <1>6, <2>2 DEF At
    <3> QED BY <1>4, <3>1
  <2>3. x \in had'[p] <=> x \in had[p]
    <3>1. had'[p] = IF p = n THEN had[p] \cup {o} ELSE had[p]
      BY <1>4
    <3> QED BY <1>7, <3>1
  <2> QED BY <2>1, <2>2, <2>3 DEF Untouched
<1>8. Copies'[n][o] = "here" /\ Versions'[n][o] = m.version
  <2>1. At(n, i, o)' /\ content'[n][i].version = m.version
    BY <1>3, <1>4 DEF At
  <2> QED BY <1>3, <1>5, <2>1 DEF CopiesOK
<1>9. Copies[n][o] = "never" /\ Copies[m.from][o] # "never"
  BY <1>3, <1>5 DEF CopiesOK
<1>10. o \in 1 .. Len(maker) /\ Makers[o] = maker[o] /\ maker[o] \in Node /\ NoNode \notin Node
  <2>1. o \in 1 .. Len(maker)
    BY <1>3, ObjectsMade
  <2> QED BY <1>3, <1>5, <2>1, NodeAssumption DEF CopiesOK
<1>11. Replicas!Source(n, o) = m.from
  BY <1>2, <1>3, <1>5, <1>10, SenderIsSource
<1>12. Replicas!Replica(n, o)
  <2>1. CASE n = Server
    BY <1>3, <1>10, <2>1 DEF Replicas!Replica
  <2>2. CASE n # Server
    <3>1. n \in Client /\ mine[n] \subseteq had[n]
      BY <1>3, <2>2, ObjectsMade DEF Node
    <3>2. ~(maker[o] = n /\ o \notin ended)
      BY <1>3, <1>10, <3>1 DEF EndInv, AliveIsThere
    <3> QED BY <1>10, <2>2, <3>2 DEF Replicas!Replica
  <2> QED BY <2>1, <2>2
<1>13. Replicas!NotAhead(n, o)
  <2>1. ASSUME Copies[m.from][o] = "here" PROVE m.version <= Versions[m.from][o]
    <3>1. PICK j \in Id : At(m.from, j, o)
      BY <1>3, <1>5, <2>1 DEF CopiesOK
    <3>2. j = i
      BY <1>2, <1>3, <3>1, CreationHasId DEF At
    <3>3. m.version <= content[m.from][i].version
      BY <1>2, <1>3, <3>1, <3>2 DEF At, EndInv, SentIsNotNewer
    <3>4. Versions[m.from][o] = content[m.from][i].version
      BY <1>3, <1>5, <3>1, <3>2 DEF CopiesOK
    <3> QED BY <3>3, <3>4
  <2> QED BY <1>8, <1>11, <2>1 DEF Replicas!NotAhead
<1>14. /\ Copies' = [Copies EXCEPT ![n][o] = "here"]
       /\ Versions' = [Versions EXCEPT ![n][o] = Versions'[n][o]]
  <2>1. OnlyTouched(n, o)
    BY <1>7 DEF OnlyTouched
  <2>2. /\ Copies' = [Copies EXCEPT ![n][o] = Copies'[n][o]]
        /\ Versions' = [Versions EXCEPT ![n][o] = Versions'[n][o]]
    BY <1>3, <1>5, <2>1, OnlyTouchedIs
  <2> QED BY <1>8, <2>2
<1>15. Replicas!VersionOnly(n, o)
  BY <1>3, <1>8, <1>14 DEF Replicas!VersionOnly
<1>16. Makers[o] # NoNode /\ Makers' = Makers
  BY <1>4, <1>10, SameMakers
<1>17. Replicas!Appear(n, o)
  BY <1>4, <1>9, <1>11, <1>12, <1>13, <1>14, <1>15, <1>16 DEF Replicas!Appear
<1> QED BY <1>3, <1>17, SameNodes DEF Replicas!Next

(* What a client has that the server sends it anew is not its own.         *)
LEMMA UpdatedIsReplica ==
  ASSUME OrderInv, OrderInv', EndInv, NEW m \in net, ReceiveSync(m),
         ~(m.to = Server /\ Cheater(m.from, {})),
         NEW i \in Id, m.ids = {i}, Read(m, m.to, i)
  PROVE  m.obj \in 1 .. Len(maker) /\ (m.to = maker[m.obj] => m.to # Server /\ m.obj \in ended)
<1>1. /\ m.from \in Node /\ m.to \in Node /\ <<m.from, m.to>> \in Link
      /\ m.obj \in had[m.from] /\ m.version \in Nat
  BY ReceiveSyncEffect
<1>2. /\ m.obj = object[m.to][i] /\ m.version > content[m.to][i].version
      /\ \A j \in Id : object[m.from][j] = m.obj => m.version <= content[m.from][j].version
      /\ m.to = Server => maker[m.obj] = m.from
  BY SyncIsLate
<1>3. m.obj \in 1 .. Len(maker)
  BY <1>1, ObjectsMade
<1>4. ASSUME m.to = maker[m.obj] PROVE m.to # Server
  BY <1>1, <1>2, <1>4, Links
<1>5. ASSUME m.to = maker[m.obj], m.obj \notin ended PROVE FALSE
  <2>1. PICK c : c = m.to
    OBVIOUS
  <2>2. c \in Client /\ m.from = Server /\ Server \in Node /\ c \in Node
    BY <1>1, <1>4, <1>5, <2>1, Links DEF Node
  <2>3. object[c][i] \in mine[c] /\ object[c][i] = m.obj
    BY <1>2, <1>3, <1>5, <2>1, <2>2 DEF EndInv, AliveIsThere
  <2>4. c \in connected
    BY <2>2, <2>3, ObjectsMade DEF OrderInv, Orderly, GoneIsGone
  <2>5. object[Server][i] = object[c][i]
    BY <1>1, <2>2, <2>3, <2>4 DEF OrderInv, Orderly, MakerRules
  <2>6. content[Server][i].version <= content[c][i].version
    BY <2>2, <2>3, <2>5 DEF EndInv, CopyIsNotNewer
  <2>7. m.version <= content[Server][i].version /\ m.version > content[c][i].version
    BY <1>2, <2>1, <2>2, <2>3, <2>5
  <2>8. content[Server][i].version \in Nat /\ content[c][i].version \in Nat
    BY <2>2 DEF OrderInv, NetInv, TypeOK
  <2> QED BY <1>1, <2>6, <2>7, <2>8
<1> QED BY <1>3, <1>4, <1>5

LEMMA SyncUpdates ==
  ASSUME OrderInv, OrderInv', EndInv, NEW m \in net, ReceiveSync(m),
         ~(m.to = Server /\ Cheater(m.from, {}))
  PROVE  [Replicas!Next]_(Replicas!vars)
<1>1. /\ UNCHANGED <<object, zombie, maker, had, ended>>
      /\ m.from \in Node /\ m.to \in Node /\ <<m.from, m.to>> \in Link /\ m.version \in Nat
  BY ReceiveSyncEffect
<1>2. PICK i \in Id :
        /\ m.ids = {i}
        /\ \A p \in Node, j \in Id :
             content'[p][j] = IF p = m.to /\ j = i /\ Read(m, m.to, i)
                              THEN [obj |-> m.obj, version |-> m.version]
                              ELSE content[p][j]
  BY ReceiveSyncEffect
<1>3. CopiesOK /\ CopiesOK'
  BY CopiesAre, CopiesAreNext
<1>4. \A p \in Node, x \in Object, j \in Id : At(p, j, x)' <=> At(p, j, x)
  BY <1>1 DEF At
<1>5. CASE ~(Read(m, m.to, i) /\ i \notin zombie[m.to])
  <2>1. ASSUME NEW p \in Node, NEW x \in Object PROVE Untouched(p, x)
    <3>1. ASSUME NEW j \in Id, At(p, j, x) PROVE content'[p][j].version = content[p][j].version
      <4>1. ~(p = m.to /\ j = i /\ Read(m, m.to, i))
        BY <1>5, <3>1 DEF At
      <4> QED BY <1>2, <4>1
    <3> QED BY <1>1, <1>4, <3>1 DEF Untouched
  <2> QED BY <1>1, <1>3, <2>1, Stutters
<1>6. CASE Read(m, m.to, i) /\ i \notin zombie[m.to]
  <2>1. PICK n, o : n = m.to /\ o = m.obj
    OBVIOUS
  <2>2. /\ o = object[n][i] /\ m.version > content[n][i].version
        /\ \A j \in Id : object[m.from][j] = o => m.version <= content[m.from][j].version
        /\ n = Server => maker[o] = m.from
    BY <1>2, <1>6, <2>1, SyncIsLate
  <2>3. o \in 1 .. Len(maker) /\ (n = maker[o] => n # Server /\ o \in ended)
    BY <1>2, <1>6, <2>1, UpdatedIsReplica
  <2>4. o \in Object /\ n \in Node /\ Makers[o] = maker[o]
    <3>1. o \in Object /\ n \in Node
      BY <1>1, <2>1, <2>3, ObjectsMade
    <3> QED BY <1>3, <2>3, <3>1 DEF CopiesOK
  <2>5. At(n, i, o) /\ content'[n][i].version = m.version
    BY <1>1, <1>2, <1>6, <2>1, <2>2 DEF At
  <2>6. ASSUME NEW p \in Node, NEW x \in Object, ~(p = n /\ x = o)
        PROVE  Untouched(p, x)
    <3>1. ASSUME NEW j \in Id, At(p, j, x) PROVE content'[p][j].version = content[p][j].version
      <4>1. ~(p = m.to /\ j = i)
        BY <2>1, <2>2, <2>6, <3>1 DEF At
      <4> QED BY <1>2, <4>1
    <3> QED BY <1>1, <1>4, <3>1 DEF Untouched
  <2>7. Copies[n][o] = "here" /\ Versions[n][o] = content[n][i].version
    BY <1>3, <2>4, <2>5 DEF CopiesOK
  <2>8. Copies'[n][o] = "here" /\ Versions'[n][o] = m.version
    <3>1. At(n, i, o)'
      BY <1>4, <2>4, <2>5
    <3> QED BY <1>3, <2>4, <2>5, <3>1 DEF CopiesOK
  <2>9. Copies' = Copies /\ Versions' = [Versions EXCEPT ![n][o] = Versions'[n][o]]
    <3>1. OnlyTouched(n, o)
      BY <2>6 DEF OnlyTouched
    <3>2. /\ Copies' = [Copies EXCEPT ![n][o] = Copies'[n][o]]
          /\ Versions' = [Versions EXCEPT ![n][o] = Versions'[n][o]]
      BY <1>3, <2>4, <3>1, OnlyTouchedIs
    <3>3. PICK v : v = Copies'[n][o]
      OBVIOUS
    <3>4. [Copies EXCEPT ![n][o] = v] = Copies
      BY <1>3, <2>4, <2>7, <2>8, <3>3, SameCopy
    <3> QED BY <3>2, <3>3, <3>4
  <2>10. Replicas!Source(n, o) = m.from
    BY <1>1, <1>3, <2>1, <2>2, <2>3, SenderIsSource
  <2>11. Replicas!NotAhead(n, o)
    <3>1. ASSUME Copies[m.from][o] = "here" PROVE m.version <= Versions[m.from][o]
      <4>1. PICK j \in Id : At(m.from, j, o)
        BY <1>1, <1>3, <2>4, <3>1 DEF CopiesOK
      <4>2. Versions[m.from][o] = content[m.from][j].version
        BY <1>1, <1>3, <2>4, <4>1 DEF CopiesOK
      <4> QED BY <2>2, <4>1, <4>2 DEF At
    <3> QED BY <2>8, <2>10, <3>1 DEF Replicas!NotAhead
  <2>12. Replicas!Replica(n, o) /\ Replicas!VersionOnly(n, o)
    BY <1>1, <2>3, <2>4, <2>8, <2>9 DEF Replicas!Replica, Replicas!VersionOnly
  <2>13. Replicas!Update(n, o)
    <3>1. Makers' = Makers /\ ended' = ended
      BY <1>1, SameMakers
    <3>2. Versions'[n][o] > Versions[n][o]
      BY <2>2, <2>7, <2>8
    <3> QED BY <2>7, <2>9, <2>11, <2>12, <3>1, <3>2 DEF Replicas!Update
  <2> QED BY <2>4, <2>13, SameNodes DEF Replicas!Next
<1> QED BY <1>5, <1>6

(* Only the versions of some copies of a node change.                      *)
LEMMA VersionsGrow ==
  ASSUME OrderInv, OrderInv', NEW n \in Node, NEW ids \in SUBSET Id,
         UNCHANGED <<object, zombie, maker, had, ended>>,
         \A i \in ids : i \notin zombie[n] /\ object[n][i] # None,
         \A i \in ids : maker[object[n][i]] = n \/ (n = Server /\ object[n][i] \in ended),
         \A p \in Node, j \in Id :
           content'[p][j].version =
             IF p = n /\ j \in ids THEN content[p][j].version + 1 ELSE content[p][j].version
  PROVE  Replicas!Next
<1> DEFINE objs == {object[n][i] : i \in ids}
<1>1. CopiesOK /\ CopiesOK'
  BY CopiesAre, CopiesAreNext
<1>2. \A o \in objs : o \in Object /\ \E i \in ids : At(n, i, o)
  BY ObjectsMade DEF At
<1>3. \A p \in Node, x \in Object, j \in Id : At(p, j, x)' <=> At(p, j, x)
  BY DEF At
<1>4. ASSUME NEW x \in Object, NEW j \in Id, At(n, j, x) PROVE x \in objs <=> j \in ids
  <2>1. j \in ids => x \in objs
    BY <1>4 DEF At
  <2>2. ASSUME x \in objs PROVE j \in ids
    <3>1. PICK i \in ids : At(n, i, x)
      BY <1>2, <2>2
    <3>2. x # None
      BY DEF Object, None
    <3>3. i = j
      BY <1>4, <3>1, <3>2, SameObject DEF At
    <3> QED BY <3>3
  <2> QED BY <2>1, <2>2
<1>5. \A x \in objs : Copies[n][x] = "here" /\ (n = Makers[x] \/ (n = Server /\ x \in ended))
  <2> SUFFICES ASSUME NEW i \in ids
               PROVE  /\ Copies[n][object[n][i]] = "here"
                      /\ n = Makers[object[n][i]] \/ (n = Server /\ object[n][i] \in ended)
    OBVIOUS
  <2>1. object[n][i] \in Object /\ object[n][i] \in 1 .. Len(maker) /\ At(n, i, object[n][i])
    BY ObjectsMade DEF At
  <2> QED BY <1>1, <2>1 DEF CopiesOK
<1>6. \A p \in Node, x \in Object :
        /\ Copies'[p][x] = Copies[p][x]
        /\ Versions'[p][x] = IF p = n /\ x \in objs THEN Versions[p][x] + 1 ELSE Versions[p][x]
  <2> SUFFICES ASSUME NEW p \in Node, NEW x \in Object
               PROVE  /\ Copies'[p][x] = Copies[p][x]
                      /\ Versions'[p][x] = IF p = n /\ x \in objs THEN Versions[p][x] + 1
                                           ELSE Versions[p][x]
    OBVIOUS
  <2>1. CASE p = n /\ x \in objs
    <3>1. PICK i \in ids : At(n, i, x)
      BY <1>2, <2>1
    <3>2. At(n, i, x)'
      BY <1>3, <3>1
    <3>3. Versions[n][x] = content[n][i].version /\ Copies[n][x] = "here"
      BY <1>1, <3>1 DEF CopiesOK
    <3>4. Versions'[n][x] = content'[n][i].version /\ Copies'[n][x] = "here"
      BY <1>1, <3>2 DEF CopiesOK
    <3>5. content'[n][i].version = content[n][i].version + 1
      BY <3>1
    <3> QED BY <2>1, <3>3, <3>4, <3>5
  <2>2. CASE ~(p = n /\ x \in objs)
    <3>1. ASSUME NEW j \in Id, At(p, j, x) PROVE content'[p][j].version = content[p][j].version
      <4>1. ~(p = n /\ j \in ids)
        BY <1>4, <2>2, <3>1
      <4> QED BY <4>1
    <3>2. Untouched(p, x)
      BY <1>3, <3>1 DEF Untouched
    <3>3. Copies'[p][x] = Copies[p][x] /\ Versions'[p][x] = Versions[p][x]
      BY <1>1, <3>2, UntouchedIs
    <3> QED BY <2>2, <3>3
  <2> QED BY <2>1, <2>2
<1> HIDE DEF objs
<1> DEFINE C == {"never", "here", "gone"}
           r == [x \in Object |-> IF x \in objs THEN Versions[n][x] + 1 ELSE Versions[n][x]]
<1>7. /\ Copies \in [Node -> [Object -> C]] /\ Copies' \in [Node -> [Object -> C]]
      /\ Versions \in [Node -> [Object -> Nat]] /\ Versions' \in [Node -> [Object -> Nat]]
  BY <1>1 DEF CopiesOK
<1>8. Copies' = Copies
  <2>1. \A p \in Node : Copies'[p] = Copies[p]
    BY <1>6, <1>7
  <2> QED BY <1>7, <2>1
<1>9. Versions' = [Versions EXCEPT ![n] = [x \in Object |-> IF x \in objs THEN @[x] + 1 ELSE @[x]]]
  <2>1. r \in [Object -> Nat] /\ \A x \in Object : Versions'[n][x] = r[x]
    BY <1>6, <1>7
  <2>2. \A p \in Node, x \in Object : p # n => Versions'[p][x] = Versions[p][x]
    BY <1>6
  <2>3. Versions' = [Versions EXCEPT ![n] = r]
    <3> HIDE DEF r
    <3> QED BY <1>7, <2>1, <2>2, RowChange
  <2> QED BY <1>7, <2>3
<1>10. Replicas!Change(n, objs)
  BY <1>5, <1>8, <1>9, SameMakers DEF Replicas!Change
<1>11. objs \in SUBSET Object
  BY <1>2
<1> QED BY <1>10, <1>11, SameNodes DEF Replicas!Next

LEMMA ChangeChanges ==
  ASSUME OrderInv, OrderInv', EndInv, NEW n \in Node, NEW i \in Id, Change(n, i)
  PROVE  Replicas!Next
<1>1. PICK ids : ids = {i}
  OBVIOUS
<1>2. /\ UNCHANGED <<object, zombie, maker, had, ended>>
      /\ object[n][i] \in mine[n] /\ i \notin zombie[n] /\ object[n][i] # None
      /\ \A p \in Node, j \in Id :
           content'[p][j].version =
             IF p = n /\ j \in ids THEN content[p][j].version + 1 ELSE content[p][j].version
  BY <1>1, ChangeEffect
<1>3. maker[object[n][i]] = n \/ (n = Server /\ object[n][i] \in ended)
  BY <1>2, ObjectsMade DEF EndInv, OwnOrEnded, Node
<1>4. /\ ids \in SUBSET Id
      /\ \A j \in ids : j \notin zombie[n] /\ object[n][j] # None
      /\ \A j \in ids : maker[object[n][j]] = n \/ (n = Server /\ object[n][j] \in ended)
  BY <1>1, <1>2, <1>3
<1> QED BY <1>2, <1>4, VersionsGrow

LEMMA DestroyChanges ==
  ASSUME OrderInv, OrderInv', EndInv, NEW m \in net, ReceiveDestroy(m)
  PROVE  Replicas!Next
<1>1. PICK kept \in SUBSET Id : ReceiveDestroyKept(m, kept)
  BY ReceiveDestroyEffect DEF OrderInv
<1>2. \A i \in kept : object[Server][i] \in ended
  BY <1>1, KeptIsEnded
<1>3. Server \in Node
  BY Links
<1> QED BY <1>1, <1>2, <1>3, VersionsGrow DEF ReceiveDestroyKept

(* One copy ends.                                                          *)
LEMMA OneVanishes ==
  ASSUME OrderInv, OrderInv', NEW n \in Node, NEW o \in Object, UNCHANGED <<maker, had>>,
         \E i \in Id : At(n, i, o),
         \A p \in Node, x \in Object, j \in Id : At(p, j, x)' <=> At(p, j, x) /\ ~(p = n /\ x = o),
         \A p \in Node, x \in Object, j \in Id :
           At(p, j, x) /\ ~(p = n /\ x = o) => content'[p][j].version = content[p][j].version,
         Replicas!MayVanish(n, o),
         ended' = IF Makers[o] = n THEN ended \cup {o} ELSE ended
  PROVE  Replicas!Next
<1>1. CopiesOK /\ CopiesOK'
  BY CopiesAre, CopiesAreNext
<1>2. Copies[n][o] = "here" /\ o \in had[n]
  BY <1>1 DEF CopiesOK
<1>3. Copies'[n][o] = "gone" /\ Versions'[n][o] = 0
  <2>1. Copies'[n][o] # "here"
    BY <1>1 DEF CopiesOK
  <2>2. Copies'[n][o] # "never"
    BY <1>1, <1>2 DEF CopiesOK
  <2> QED BY <1>1, <2>1, <2>2 DEF CopiesOK
<1>4. \A p \in Node, x \in Object : ~(p = n /\ x = o) =>
        Copies'[p][x] = Copies[p][x] /\ Versions'[p][x] = Versions[p][x]
  <2> SUFFICES ASSUME NEW p \in Node, NEW x \in Object, ~(p = n /\ x = o)
               PROVE  Copies'[p][x] = Copies[p][x] /\ Versions'[p][x] = Versions[p][x]
    OBVIOUS
  <2>1. Untouched(p, x)
    BY DEF Untouched
  <2> QED BY <1>1, <2>1, UntouchedIs
<1> DEFINE C == {"never", "here", "gone"}
           gone == {o}
           c == [x \in Object |-> IF x \in gone THEN "gone" ELSE Copies[n][x]]
           v == [x \in Object |-> IF x \in gone THEN 0 ELSE Versions[n][x]]
<1>5. /\ Copies \in [Node -> [Object -> C]] /\ Copies' \in [Node -> [Object -> C]]
      /\ Versions \in [Node -> [Object -> Nat]] /\ Versions' \in [Node -> [Object -> Nat]]
  BY <1>1 DEF CopiesOK
<1>6. Copies' = [Copies EXCEPT ![n] = [x \in Object |-> IF x \in gone THEN "gone" ELSE @[x]]]
  <2>1. c \in [Object -> C] /\ \A x \in Object : Copies'[n][x] = c[x]
    BY <1>3, <1>4, <1>5
  <2>2. \A p \in Node, x \in Object : p # n => Copies'[p][x] = Copies[p][x]
    BY <1>4
  <2>3. Copies' = [Copies EXCEPT ![n] = c]
    <3> HIDE DEF c, C
    <3> QED BY <1>5, <2>1, <2>2, RowChange
  <2> QED BY <1>5, <2>3
<1>7. Versions' = [Versions EXCEPT ![n] = [x \in Object |-> IF x \in gone THEN 0 ELSE @[x]]]
  <2>1. v \in [Object -> Nat] /\ \A x \in Object : Versions'[n][x] = v[x]
    BY <1>3, <1>4, <1>5
  <2>2. \A p \in Node, x \in Object : p # n => Versions'[p][x] = Versions[p][x]
    BY <1>4
  <2>3. Versions' = [Versions EXCEPT ![n] = v]
    <3> HIDE DEF v
    <3> QED BY <1>5, <2>1, <2>2, RowChange
  <2> QED BY <1>5, <2>3
<1>8. ended' = ended \cup {x \in gone : Makers[x] = n}
  OBVIOUS
<1>9. gone \in SUBSET {x \in Object : Copies[n][x] = "here" /\ Replicas!MayVanish(n, x)}
  BY <1>2
<1> HIDE DEF gone
<1>10. Replicas!Vanish(n)
  BY <1>6, <1>7, <1>8, <1>9, SameMakers DEF Replicas!Vanish
<1> QED BY <1>10, SameNodes DEF Replicas!Next

LEMMA DestroyObjectVanishes ==
  ASSUME OrderInv, OrderInv', EndInv, NEW n \in Node, NEW i \in Id, DestroyObject(n, i)
  PROVE  Replicas!Next
<1>1. PICK ids : ids = {i}
  OBVIOUS
<1>2. /\ Deleted(n, ids) /\ ids \in SUBSET Id /\ object[n][i] \in mine[n] /\ object[n][i] # None
  BY <1>1, DestroyObjectDeletes DEF OrderInv
<1>3. /\ Destruct(n, ids) /\ i \notin zombie[n]
      /\ ended' = IF maker[object[n][i]] = n THEN ended \cup {object[n][i]} ELSE ended
  BY <1>1 DEF DestroyObject, Own
<1>4. PICK o : o = object[n][i]
  OBVIOUS
<1>5. /\ UNCHANGED <<maker, had>>
      /\ \A p \in Node, j \in Id :
           /\ object'[p][j] = IF p = n /\ j = i THEN None ELSE object[p][j]
           /\ j \in zombie'[p] <=> j \in zombie[p] /\ ~(p = n /\ j = i)
  BY <1>1, <1>2 DEF Deleted
<1>6. \A p \in Node, j \in Id :
        content'[p][j] = IF p = n /\ j = i THEN Nothing ELSE content[p][j]
  BY <1>1, <1>2, <1>3, DestructedContent DEF OrderInv
<1>7. o \in Object /\ o \in 1 .. Len(maker) /\ \A x \in Object : x # None
  BY <1>2, <1>4, ObjectsMade DEF Object, None
<1>8. Makers[o] = maker[o]
  BY <1>7, CopiesAre DEF CopiesOK
<1>9. At(n, i, o) /\ \A j \in Id : object[n][j] = o <=> j = i
  BY <1>2, <1>3, <1>4, SameObject DEF At
<1>10. ASSUME NEW p \in Node, NEW x \in Object, NEW j \in Id
       PROVE  /\ At(p, j, x)' <=> At(p, j, x) /\ ~(p = n /\ x = o)
              /\ At(p, j, x) /\ ~(p = n /\ x = o) => content'[p][j].version = content[p][j].version
  <2>1. CASE p = n /\ j = i
    BY <1>4, <1>5, <1>7, <2>1 DEF At
  <2>2. CASE ~(p = n /\ j = i)
    <3>1. object'[p][j] = object[p][j] /\ (j \in zombie'[p] <=> j \in zombie[p])
          /\ content'[p][j] = content[p][j]
      BY <1>5, <1>6, <2>2
    <3>2. p = n => object[p][j] # o
      BY <1>9, <2>2
    <3> QED BY <3>1, <3>2 DEF At
  <2> QED BY <2>1, <2>2
<1>11. Replicas!MayVanish(n, o)
  <2>1. CASE n = Server
    BY <1>2, <1>4, <1>8, <2>1 DEF EndInv, OwnOrEnded, Replicas!MayVanish, Replicas!Replica
  <2>2. CASE n # Server
    <3>1. n \in Client
      BY <2>2 DEF Node
    <3>2. maker[o] = n /\ o \notin ended
      BY <1>2, <1>4, <3>1, ObjectsMade DEF EndInv, OwnIsAlive
    <3> QED BY <1>8, <3>2 DEF Replicas!MayVanish, Replicas!Replica
  <2> QED BY <2>1, <2>2
<1>12. ended' = IF Makers[o] = n THEN ended \cup {o} ELSE ended
  BY <1>3, <1>4, <1>8
<1>13. \E j \in Id : At(n, j, o)
  BY <1>9
<1>14. /\ \A p \in Node, x \in Object, j \in Id : At(p, j, x)' <=> At(p, j, x) /\ ~(p = n /\ x = o)
       /\ \A p \in Node, x \in Object, j \in Id :
            At(p, j, x) /\ ~(p = n /\ x = o) => content'[p][j].version = content[p][j].version
  BY <1>10
<1>15. UNCHANGED <<maker, had>>
  BY <1>5
<1> QED BY <1>7, <1>11, <1>12, <1>13, <1>14, <1>15, OneVanishes

(* What a client is ordered to destroy the server has no more.             *)
LEMMA OrderedMayVanish ==
  ASSUME OrderInv, EndInv, NEW s \in Node, NEW n \in Node, NEW i \in Id, <<s, n>> \in Link,
         Ordered(s, n, i), object[n][i] # None
  PROVE  /\ Replicas!MayVanish(n, object[n][i])
         /\ maker[object[n][i]] = n => object[n][i] \in ended
<1>1. PICK o : o = object[n][i]
  OBVIOUS
<1>2. o \in Object /\ o \in 1 .. Len(maker) /\ o \in had[n]
  BY <1>1, ObjectsMade
<1>3. CASE n = Server
  <2>1. s \in Client
    BY <1>3, Links DEF Node
  <2>2. Ordered(s, Server, i)
    BY <1>3
  <2>3. o \in ended
    BY <1>1, <1>3, <2>1, <2>2, OrderedIsEnded
  <2> QED BY <1>1, <1>3, <2>3 DEF Replicas!MayVanish
<1>4. CASE n # Server
  <2>1. n \in Client /\ s = Server /\ Server \in Node
    BY <1>4, Links DEF Node
  <2>2. Ordered(Server, n, i)
    BY <2>1
  <2>3. o \notin mine[n]
    BY <1>1, <2>1, <2>2, OrderedIsNotOwn
  <2>4. object[Server][i] = None /\ o \in had[Server]
    BY <1>1, <2>1, <2>2 DEF EndInv, OrderedIsGone
  <2>5. \A j \in Id : object[Server][j] # o
    BY <1>1, <2>1, <2>4, SameObject
  <2>6. Copies[Server][o] = "gone"
    <3>1. CopiesOK
      BY CopiesAre
    <3>2. Copies[Server][o] \in {"never", "here", "gone"}
      BY <1>2, <2>1, <3>1 DEF CopiesOK
    <3>3. ~\E j \in Id : At(Server, j, o)
      BY <2>5 DEF At
    <3>4. Copies[Server][o] # "here" /\ Copies[Server][o] # "never"
      BY <1>2, <2>1, <2>4, <3>1, <3>3 DEF CopiesOK
    <3> QED BY <3>2, <3>4
  <2>7. maker[o] = n => o \in ended
    BY <1>2, <2>1, <2>3 DEF EndInv, AliveIsThere
  <2> QED BY <1>1, <1>4, <2>6, <2>7 DEF Replicas!MayVanish
<1> QED BY <1>3, <1>4

LEMMA DoDestroyVanishes ==
  ASSUME OrderInv, OrderInv', EndInv, NEW n \in Node, NEW d \in doomed[n], DoDestroy(n, d),
         ~(d.from \in connected /\ Cheater(d.from, {d}))
  PROVE  [Replicas!Next]_(Replicas!vars)
<1>1. PICK i, s : i = d.id /\ s = d.from
  OBVIOUS
<1>2. /\ UNCHANGED <<object, content, maker, had, ended>>
      /\ i \in Id /\ object[n][i] # None /\ <<s, n>> \in Link
      /\ Ordered(s, n, i)
      /\ \/ zombie' = zombie
         \/ \A p \in Node : zombie'[p] = IF p = n THEN zombie[p] \cup {i} ELSE zombie[p]
  BY <1>1, DoDestroyEffect
<1>3. CASE zombie' = zombie \/ i \in zombie[n]
  <2>1. \A p \in Node, j \in Id : j \in zombie'[p] <=> j \in zombie[p]
    BY <1>2, <1>3
  <2>2. \A p \in Node, x \in Object : Untouched(p, x)
    BY <1>2, <2>1 DEF Untouched, At
  <2> QED BY <1>2, <2>2, CopiesAre, CopiesAreNext, Stutters
<1>4. CASE zombie' # zombie /\ i \notin zombie[n]
  <2>1. PICK o : o = object[n][i]
    OBVIOUS
  <2>2. o \in Object /\ o \in 1 .. Len(maker) /\ s \in Node
    BY <1>2, <2>1, ObjectsMade, Links
  <2>3. Replicas!MayVanish(n, o) /\ (maker[o] = n => o \in ended)
    BY <1>2, <2>1, <2>2, OrderedMayVanish
  <2>4. At(n, i, o) /\ \A j \in Id : object[n][j] = o <=> j = i
    BY <1>2, <1>4, <2>1, SameObject DEF At
  <2>5. \A p \in Node, j \in Id : j \in zombie'[p] <=> j \in zombie[p] \/ (p = n /\ j = i)
    BY <1>2, <1>4
  <2>6. ASSUME NEW p \in Node, NEW x \in Object, NEW j \in Id
        PROVE  At(p, j, x)' <=> At(p, j, x) /\ ~(p = n /\ x = o)
    BY <1>2, <2>4, <2>5 DEF At
  <2>7. Makers[o] = maker[o]
    BY <2>2, CopiesAre DEF CopiesOK
  <2>8. ended' = IF Makers[o] = n THEN ended \cup {o} ELSE ended
    BY <1>2, <2>3, <2>7
  <2>9. Replicas!Next
    BY <1>2, <2>2, <2>3, <2>4, <2>6, <2>8, OneVanishes
  <2> QED BY <2>9
<1> QED BY <1>3, <1>4

(* Two rows of a table are other ones.                                     *)
LEMMA TwoRows ==
  ASSUME NEW S, NEW f \in [Node -> [Object -> S]], NEW g \in [Node -> [Object -> S]],
         NEW c \in Node, NEW s \in Node, c # s, NEW gone, NEW v \in S, NEW w \in S,
         \A x \in Object : g[c][x] = v,
         \A x \in gone : g[s][x] = w,
         \A p \in Node, x \in Object : p # c /\ ~(p = s /\ x \in gone) => g[p][x] = f[p][x]
  PROVE  g = [f EXCEPT ![c] = [x \in Object |-> v],
                       ![s] = [x \in Object |-> IF x \in gone THEN w ELSE @[x]]]
<1>1. \A p \in Node : g[p] \in [Object -> S] /\ f[p] \in [Object -> S]
  OBVIOUS
<1>2. g[c] = [x \in Object |-> v]
  BY <1>1
<1>3. g[s] = [x \in Object |-> IF x \in gone THEN w ELSE f[s][x]]
  <2> DEFINE r == [x \in Object |-> IF x \in gone THEN w ELSE f[s][x]]
  <2>1. r \in [Object -> S] /\ \A x \in Object : g[s][x] = r[x]
    BY <1>1
  <2> HIDE DEF r
  <2>2. g[s] = r
    BY <1>1, <2>1
  <2> QED BY <2>2 DEF r
<1>4. \A p \in Node : p # c /\ p # s => g[p] = f[p]
  BY <1>1
<1> QED BY <1>2, <1>3, <1>4

LEMMA LeaveServerLeaves ==
  ASSUME OrderInv, OrderInv', NEW c \in Client, LeaveServer(c)
  PROVE  Replicas!Next
<1> DEFINE ids == OwnedBy(c)
           gone == {object[Server][i] : i \in ids}
           own == {o \in Object : Makers[o] = c}
<1>1. LeftBehind(c, ids)
  BY LeaveServerTables DEF OrderInv
<1>2. c \in Node /\ c # Server /\ Server \in Node
  BY Links
<1>3. /\ UNCHANGED maker /\ ended' = ended \cup {o \in DOMAIN maker : maker[o] = c}
  BY DEF LeaveServer
<1>4. CopiesOK /\ CopiesOK'
  BY CopiesAre, CopiesAreNext
<1>5. ASSUME NEW i \in ids
      PROVE  /\ i \in Id /\ At(Server, i, object[Server][i]) /\ object[Server][i] \in Object
             /\ object[Server][i] \in 1 .. Len(maker) /\ maker[object[Server][i]] = c
  <2>1. i \in Id /\ object[Server][i] # None /\ i \notin zombie[Server] /\ OwnerOf(i) = c
    BY OwnedByClient DEF OrderInv, OwnedBy
  <2>2. maker[object[Server][i]] = c
    BY <1>2, <2>1 DEF OwnerOf
  <2> QED BY <2>1, <2>2, ObjectsMade DEF At
<1>6. gone \in SUBSET {o \in own : Copies[Server][o] = "here"}
  <2>1. ASSUME NEW i \in ids
        PROVE  object[Server][i] \in {o \in own : Copies[Server][o] = "here"}
    <3>1. PICK o : o = object[Server][i]
      OBVIOUS
    <3>2. i \in Id /\ At(Server, i, o) /\ o \in Object /\ o \in 1 .. Len(maker) /\ maker[o] = c
      BY <1>5, <3>1
    <3>3. Makers[o] = c
      BY <1>4, <3>2 DEF CopiesOK
    <3>4. Copies[Server][o] = "here"
      BY <1>2, <1>4, <3>2 DEF CopiesOK
    <3> QED BY <3>1, <3>2, <3>3, <3>4
  <2> HIDE DEF ids, own
  <2> QED BY <2>1
<1>7. \A i \in Id, x \in Object : At(Server, i, x) => (x \in gone <=> i \in ids)
  <2> SUFFICES ASSUME NEW i \in Id, NEW x \in Object, At(Server, i, x)
               PROVE  x \in gone <=> i \in ids
    OBVIOUS
  <2>1. i \in ids => x \in gone
    BY DEF At
  <2>2. ASSUME x \in gone PROVE i \in ids
    <3>1. PICK j \in ids : x = object[Server][j]
      BY <2>2
    <3>2. j \in Id /\ x # None
      BY <1>5 DEF Object, None
    <3>3. i = j
      BY <1>2, <3>1, <3>2, SameObject DEF At
    <3> QED BY <3>3
  <2> QED BY <2>1, <2>2
<1>8. ended' = ended \cup own
  <2>1. DOMAIN maker = 1 .. Len(maker) /\ 1 .. Len(maker) \subseteq Object
    BY ObjectsMade DEF OrderInv, NetInv, HistoryOK
  <2>2. \A o \in Object : o \in 1 .. Len(maker) => Makers[o] = maker[o]
    BY <1>4 DEF CopiesOK
  <2>3. \A o \in Object : o \notin 1 .. Len(maker) => Makers[o] # c
    BY <1>2, <1>4, NodeAssumption DEF CopiesOK
  <2>4. {o \in DOMAIN maker : maker[o] = c} = own
    BY <2>1, <2>2, <2>3
  <2> QED BY <1>3, <2>4
<1> HIDE DEF ids, gone, own
<1>9. \A x \in Object : Copies'[c][x] = "never" /\ Versions'[c][x] = 0
  <2> SUFFICES ASSUME NEW x \in Object
               PROVE  Copies'[c][x] = "never" /\ Versions'[c][x] = 0
    OBVIOUS
  <2>1. x \notin had'[c]
    BY <1>1, <1>2 DEF LeftBehind
  <2>2. Copies'[c][x] = "never"
    BY <1>2, <1>4, <2>1 DEF CopiesOK
  <2> QED BY <1>2, <1>4, <2>2 DEF CopiesOK
<1>10. \A p \in Node, x \in Object : p # c /\ ~(p = Server /\ x \in gone) =>
         Copies'[p][x] = Copies[p][x] /\ Versions'[p][x] = Versions[p][x]
  <2> SUFFICES ASSUME NEW p \in Node, NEW x \in Object, p # c, ~(p = Server /\ x \in gone)
               PROVE  Untouched(p, x)
    BY <1>4, UntouchedIs
  <2>1. /\ zombie'[p] = zombie[p] /\ had'[p] = had[p]
        /\ \A j \in Id : ~(p = Server /\ j \in ids) =>
             object'[p][j] = object[p][j] /\ content'[p][j] = content[p][j]
        /\ \A j \in Id : (p = Server /\ j \in ids) => object'[p][j] = None
    BY <1>1 DEF LeftBehind
  <2>2. x # None
    BY DEF Object, None
  <2>3. ASSUME NEW j \in Id
        PROVE  /\ At(p, j, x)' <=> At(p, j, x)
               /\ At(p, j, x) => content'[p][j].version = content[p][j].version
    <3>1. CASE p = Server /\ j \in ids
      <4>1. ~At(p, j, x)
        BY <1>7, <3>1
      <4>2. ~At(p, j, x)'
        BY <2>1, <2>2, <3>1 DEF At
      <4> QED BY <4>1, <4>2
    <3>2. CASE ~(p = Server /\ j \in ids)
      BY <2>1, <3>2 DEF At
    <3> QED BY <3>1, <3>2
  <2> QED BY <2>1, <2>3 DEF Untouched
<1>11. \A x \in gone : x \in Object /\ Copies'[Server][x] = "gone" /\ Versions'[Server][x] = 0
  <2> SUFFICES ASSUME NEW x \in gone
               PROVE  x \in Object /\ Copies'[Server][x] = "gone" /\ Versions'[Server][x] = 0
    OBVIOUS
  <2>1. x \in Object /\ Copies[Server][x] = "here" /\ x # None
    BY <1>6 DEF own, Object, None
  <2>2. x \in had'[Server]
    <3>1. x \in had[Server]
      BY <1>2, <1>4, <2>1 DEF CopiesOK
    <3> QED BY <1>1, <1>2, <3>1 DEF LeftBehind
  <2>3. ASSUME NEW j \in Id, At(Server, j, x)' PROVE FALSE
    <3>1. /\ zombie'[Server] = zombie[Server]
          /\ object'[Server][j] = IF j \in ids THEN None ELSE object[Server][j]
      BY <1>1, <1>2 DEF LeftBehind
    <3>2. At(Server, j, x) /\ j \notin ids
      BY <2>1, <2>3, <3>1 DEF At
    <3> QED BY <1>7, <2>1, <3>2
  <2>4. Copies'[Server][x] # "here" /\ Copies'[Server][x] # "never"
    BY <1>2, <1>4, <2>1, <2>2, <2>3 DEF CopiesOK
  <2> QED BY <1>2, <1>4, <2>1, <2>4 DEF CopiesOK
<1> DEFINE C == {"never", "here", "gone"}
<1>12. /\ Copies \in [Node -> [Object -> C]] /\ Copies' \in [Node -> [Object -> C]]
       /\ Versions \in [Node -> [Object -> Nat]] /\ Versions' \in [Node -> [Object -> Nat]]
  BY <1>4 DEF CopiesOK
<1>13. Copies' = [Copies EXCEPT
         ![c] = [o \in Object |-> "never"],
         ![Server] = [o \in Object |-> IF o \in gone THEN "gone" ELSE @[o]]]
  BY <1>2, <1>9, <1>10, <1>11, <1>12, TwoRows
<1>14. Versions' = [Versions EXCEPT
         ![c] = [o \in Object |-> 0],
         ![Server] = [o \in Object |-> IF o \in gone THEN 0 ELSE @[o]]]
  BY <1>2, <1>9, <1>10, <1>11, <1>12, TwoRows
<1>15. Replicas!Leave(c)
  <2>1. gone \in SUBSET {o \in {o \in Object : Makers[o] = c} : Copies[Server][o] = "here"}
    BY <1>6 DEF own
  <2>2. ended' = ended \cup {o \in Object : Makers[o] = c}
    BY <1>8 DEF own
  <2> QED BY <1>3, <1>13, <1>14, <2>1, <2>2, SameMakers DEF Replicas!Leave
<1> QED BY <1>15 DEF Replicas!Next

LEMMA CheaterLeaves ==
  ASSUME OrderInv, OrderInv', NEW c \in Client, NEW ordered, Cheater(c, ordered)
  PROVE  Replicas!Next
BY LeaveServerLeaves DEF Cheater

(* What is deleted at the end of a round was gone before.                  *)
LEMMA ClearAllDeletedStutters ==
  ASSUME OrderInv, OrderInv', EndInv, NEW n \in Node, ClearAllDeleted(n)
  PROVE  UNCHANGED Replicas!vars
<1>1. Deleted(n, zombie[n]) /\ zombie[n] \in SUBSET Id
  BY ClearAllDeletedDeletes DEF OrderInv
<1>2. Destruct(n, zombie[n]) /\ ended' = ended
  BY DEF ClearAllDeleted, story
<1>3. \A p \in Node, j \in Id :
        content'[p][j] = IF p = n /\ j \in zombie[n] THEN Nothing ELSE content[p][j]
  BY <1>1, <1>2, DestructedContent DEF OrderInv
<1>4. /\ UNCHANGED <<maker, had>>
      /\ \A p \in Node, j \in Id :
           /\ object'[p][j] = IF p = n /\ j \in zombie[n] THEN None ELSE object[p][j]
           /\ j \in zombie'[p] <=> j \in zombie[p] /\ ~(p = n /\ j \in zombie[n])
  BY <1>1 DEF Deleted
<1>5. ASSUME NEW p \in Node, NEW x \in Object PROVE Untouched(p, x)
  <2>1. x # None
    BY DEF Object, None
  <2>2. ASSUME NEW j \in Id
        PROVE  /\ At(p, j, x)' <=> At(p, j, x)
               /\ At(p, j, x) => content'[p][j].version = content[p][j].version
    <3>1. CASE p = n /\ j \in zombie[n]
      BY <1>4, <2>1, <3>1 DEF At
    <3>2. CASE ~(p = n /\ j \in zombie[n])
      BY <1>3, <1>4, <3>2 DEF At
    <3> QED BY <3>1, <3>2
  <2> QED BY <1>4, <2>2 DEF Untouched
<1> QED BY <1>2, <1>4, <1>5, CopiesAre, CopiesAreNext, Stutters

LEMMA QuietStutters ==
  ASSUME OrderInv, OrderInv', UNCHANGED <<object, content, zombie, maker, had, ended>>
  PROVE  UNCHANGED Replicas!vars
<1>1. \A p \in Node, x \in Object : Untouched(p, x)
  BY DEF Untouched, At
<1> QED BY <1>1, CopiesAre, CopiesAreNext, Stutters

LEMMA ReplicationStep ==
  ASSUME OrderInv, EndInv, [Next]_vars
  PROVE  [Replicas!Next]_(Replicas!vars)
<1>0. OrderInv'
  BY NextOrderInv
<1>1. ASSUME NEW c \in Client, Logout(c) PROVE Replicas!Next
  BY <1>0, <1>1, LeaveServerLeaves DEF Logout
<1>2. ASSUME \/ \E c \in Client : Login(c) \/ Ready(c) \/ \E i \in Id : Reserve(c, i)
             \/ \E i \in Id : Recycle(i)
             \/ \E m \in net : Lose(m)
             \/ \E m \in acks : ReceiveAck(m)
             \/ \E n \in Node : \E d \in doomed[n] : ExpireDestroy(n, d)
      PROVE  UNCHANGED Replicas!vars
  BY <1>0, <1>2, QuietEnds, QuietStutters
<1>3. ASSUME NEW n \in Node, NEW i \in Id, MakeObject(n, i) \/ Change(n, i) \/ DestroyObject(n, i)
      PROVE  Replicas!Next
  BY <1>0, <1>3, MakeObjectMakes, ChangeChanges, DestroyObjectVanishes
<1>4. ASSUME NEW n \in Node, ClearAllDeleted(n) PROVE UNCHANGED Replicas!vars
  BY <1>0, <1>4, ClearAllDeletedStutters
<1>5. ASSUME NEW l \in Link, SendDestroyer(l[1], l[2]) PROVE UNCHANGED Replicas!vars
  BY <1>0, <1>5, SendDestroyerEnds, QuietStutters
<1>6. ASSUME NEW l \in Link, NEW i \in Id, SendCreation(l[1], l[2], i) \/ SendSync(l[1], l[2], i)
      PROVE  UNCHANGED Replicas!vars
  BY <1>0, <1>6, SendObjectEnds, QuietStutters
<1>7. ASSUME NEW m \in net, ReceiveCreate(m) \/ ReceiveSync(m)
      PROVE  [Replicas!Next]_(Replicas!vars)
  <2>1. CASE m.to = Server /\ Cheater(m.from, {})
    <3>1. PICK none : none = {}
      OBVIOUS
    <3>2. m.from \in Client /\ Cheater(m.from, none)
      BY <2>1, <3>1, CheatersAreClients
    <3> QED BY <1>0, <3>2, CheaterLeaves
  <2>2. CASE ~(m.to = Server /\ Cheater(m.from, {}))
    BY <1>0, <1>7, <2>2, CreateAppears, SyncUpdates
  <2> QED BY <2>1, <2>2
<1>8. ASSUME NEW m \in net, ReceiveDestroy(m) PROVE Replicas!Next
  BY <1>0, <1>8, DestroyChanges
<1>9. ASSUME NEW n \in Node, NEW d \in doomed[n], DoDestroy(n, d)
      PROVE  [Replicas!Next]_(Replicas!vars)
  <2>1. CASE d.from \in connected /\ Cheater(d.from, {d})
    <3>1. PICK ordered : ordered = {d}
      OBVIOUS
    <3>2. d.from \in Client /\ Cheater(d.from, ordered)
      BY <2>1, <3>1, CheatersAreClients
    <3> QED BY <1>0, <3>2, CheaterLeaves
  <2>2. CASE ~(d.from \in connected /\ Cheater(d.from, {d}))
    BY <1>0, <1>9, <2>2, DoDestroyVanishes
  <2> QED BY <2>1, <2>2
<1>10. ASSUME UNCHANGED vars PROVE UNCHANGED Replicas!vars
  <2>1. UNCHANGED <<object, content, zombie, maker, had, ended>>
    BY <1>10 DEF vars, tables, story
  <2> QED BY <1>0, <2>1, QuietStutters
<1> QED BY <1>1, <1>2, <1>3, <1>4, <1>5, <1>6, <1>7, <1>8, <1>9, <1>10 DEF Next, Execute, Receive

LEMMA InitReplicas ==
  ASSUME Init
  PROVE  Replicas!Init
<1> USE DEF Init
<1>1. Makers = [o \in Object |-> NoNode] /\ ended = {}
  BY DEF Makers
<1>2. \A n \in Node, o \in Object : CopyOf(n, o) = "never" /\ VersionOf(n, o) = 0
  <2> SUFFICES ASSUME NEW n \in Node, NEW o \in Object
               PROVE  CopyOf(n, o) = "never" /\ VersionOf(n, o) = 0
    OBVIOUS
  <2>1. o # None
    BY DEF Object, None
  <2>2. {i \in Id \ zombie[n] : object[n][i] = o} = {} /\ o \notin had[n]
    BY <2>1
  <2> QED BY <2>2 DEF CopyOf, VersionOf
<1>3. /\ Copies = [n \in Node |-> [o \in Object |-> "never"]]
      /\ Versions = [n \in Node |-> [o \in Object |-> 0]]
  BY <1>2 DEF Copies, Versions
<1> QED BY <1>1, <1>3, SameNodes DEF Replicas!Init

(* nNetObject keeps its promise: an object appears on another node only    *)
(* after it was made and vanishes only after it ended where it came from,  *)
(* no copy comes back, and none is ahead of its source.                    *)
THEOREM ReplicationCorrect == Spec => Replication
<1>1. Init => Replicas!Init
  BY InitReplicas
<1>2. OrderInv /\ EndInv /\ [Next]_vars => [Replicas!Next]_(Replicas!vars)
  BY ReplicationStep
<1> QED BY <1>1, <1>2, EndInvHolds, PTL DEF Spec, Replication, Replicas!Spec
=============================================================================
