-------------------------- MODULE NetObjectProofs ---------------------------
(* Proofs about the replicated objects, for any clients, ids and bounds.   *)
EXTENDS NetObjects, TLAPS

-----------------------------------------------------------------------------
(* What the properties rest on.                                            *)

Made == DOMAIN maker
Sent == net \cup acks

HistoryOK ==
  /\ maker \in Seq(Node) /\ Len(maker) <= MaxMade
  /\ had \in [Node -> SUBSET Object]
  /\ budget \in [made : Object, change : Nat, logins : [Client -> Nat],
                 acks : SUBSET BOOLEAN \ {{}}]

(* A message goes from client to server or back.  Creations and syncs are  *)
(* about one object, and all but some syncs are acknowledged.              *)
Wire == [type : {"create", "sync", "destroy"}, from : Node, to : Node, ids : SUBSET Id,
         obj : Object \cup {None}, version : Nat, ack : BOOLEAN]

WireOK(m) ==
  /\ m \in Wire /\ <<m.from, m.to>> \in Link
  /\ m.type # "sync" => m.ack
  /\ m.type # "destroy" => m.obj \in Object /\ \E i \in Id : m.ids = {i}

WiresOK == (\A m \in Sent : WireOK(m)) /\ \A m \in acks : m.ack

OrdersOnLinks == \A n \in Node : \A d \in doomed[n] : <<d.from, n>> \in Link

(* All copies under an id are of the last object that was made with it,    *)
(* and so are all messages that are repeated until they are acknowledged.  *)
(* Syncs that are not may be of older objects.                             *)
Last(cur) ==
  /\ \A n \in Node, i \in Id : object[n][i] \in {None, cur[i]}
  /\ \A m \in Sent : m.type # "destroy" =>
       \A i \in m.ids : m.obj <= cur[i] /\ (m.ack => m.obj = cur[i])

OneGeneration == \E cur \in [Id -> 0 .. Len(maker)] : Last(cur)

(* What is to be destroyed is still in the table.                          *)
ZombiesAreThere == \A n \in Node : \A i \in zombie[n] : object[n][i] # None

(* An id that a client may use is its own, and forgotten everywhere.       *)
ReservedAreFresh == \A c \in Client : \A i \in reserved[c] : owner[i] = c /\ Fresh(i)

(* Who has an object, or has sent, got or handled a message about it, had  *)
(* that object.                                                            *)
HadAll ==
  /\ \A n \in Node, i \in Id : object[n][i] # None => object[n][i] \in had[n]
  /\ \A m \in Sent : m.type # "destroy" =>
       /\ m.obj \in had[m.from]
       /\ m.type = "sync" \/ m \in acks => m.obj \in had[m.to]

NetInv ==
  /\ TypeOK /\ HistoryOK /\ WiresOK /\ OrdersOnLinks
  /\ OneGeneration /\ RightContent
  /\ ZombiesAreThere /\ ReservedAreFresh /\ HadAll
  /\ ExistsMeansThere

(* What a step that makes no object leaves alone, or takes from before.    *)

FromNode(m) ==
  IF m.type = "destroy"
  THEN \A i \in m.ids : i \in destroyer[<<m.from, m.to>>] \/ object[m.from][i] # None
  ELSE /\ m \notin acks'
       /\ \A i \in m.ids :
            /\ object[m.from][i] # None /\ m.obj = content[m.from][i].obj
            /\ m.type = "sync" =>
                 Up(m.from) /\ Up(m.to) /\ knows[<<m.from, m.to>>][i].exists

(* Messages are of objects that their sender has, and orders of objects    *)
(* that somebody had.                                                      *)
MessagesFollow ==
  /\ \A m \in Sent' : m \in Sent \/ FromNode(m)
  /\ \A m \in acks' :
       m \in acks \/ (m \in net /\ (m.type = "create" => m.obj \in had'[m.to]))

OrdersFollow ==
  /\ \A l \in Link : \A i \in destroyer'[l] : i \in destroyer[l] \/ object[l[1]][i] # None
  /\ \A n \in Node : \A d \in doomed'[n] :
       \/ d \in doomed[n]
       \/ \E m \in net : m.ack /\ d.id \in m.ids /\ d.from = m.from /\ n = m.to

(* Objects are kept, given up, or come with a creation.                    *)
ObjectsFollow ==
  /\ maker' = maker
  /\ \A n \in Node, i \in Id :
       \/ object'[n][i] \in {None, object[n][i]}
       \/ /\ object'[n][i] \in had'[n]
          /\ \E m \in net : /\ m.type = "create" /\ i \in m.ids
                            /\ m.obj = object'[n][i]

IdsFollow ==
  \A c \in Client : \A i \in reserved'[c] : owner'[i] = c /\ (i \in reserved[c] \/ Free(i))

(* Only a client that leaves forgets what it had.                          *)
Gone(n) ==
  /\ n \in Client \ connected'
  /\ \A i \in Id : object'[n][i] = None
  /\ \A m \in Sent' : n \notin {m.from, m.to}

HadFollows == \A n \in Node : had[n] \subseteq had'[n] \/ Gone(n)

(* Who is taken to know of an object was so before, or had the object.     *)
KnowsFollows ==
  \A l \in Link, i \in Id :
    Up(l[1])' /\ Up(l[2])' /\ knows'[l][i].exists /\ object'[l[1]][i] # None =>
      \/ object'[l[1]][i] \in had'[l[2]]
      \/ /\ Up(l[1]) /\ Up(l[2]) /\ knows[l][i].exists
         /\ object'[l[1]][i] = object[l[1]][i]

Follows ==
  /\ MessagesFollow /\ OrdersFollow /\ ObjectsFollow
  /\ IdsFollow /\ HadFollows /\ KnowsFollows

-----------------------------------------------------------------------------
(* The operators.                                                          *)

LEMMA Links ==
  /\ \A l \in Link : /\ l[1] \in Node /\ l[2] \in Node /\ l[1] # l[2] /\ l = <<l[1], l[2]>>
                     /\ l[1] = Server <=> l[2] # Server
  /\ \A n, p : <<n, p>> \in Link =>
       n \in Node /\ p \in Node /\ n # p /\ <<n, p>>[1] = n /\ <<n, p>>[2] = p
  /\ \A c \in Client : c \in Node /\ c # Server /\ <<Server, c>> \in Link /\ <<c, Server>> \in Link
  /\ Server \in Node
<1> QED BY NodeAssumption, SMT DEF Link, Node

LEMMA KnowledgeOf ==
  /\ Unknown \in Knowledge /\ Reset \in Knowledge
  /\ Unknown.exists = FALSE /\ Reset.exists = FALSE
  /\ Unknown.pending = 0 /\ Reset.pending = 0
  /\ \A k \in Knowledge, ack \in BOOLEAN :
       /\ Requested(k, ack) \in Knowledge
       /\ Requested(k, ack).exists = k.exists /\ Requested(k, ack).pending = k.pending
  /\ LET known == [Unknown EXCEPT !.exists = TRUE] IN known \in Knowledge /\ known.exists
<1>1. \A k \in Knowledge, ack \in BOOLEAN :
        /\ Requested(k, ack) \in Knowledge
       /\ Requested(k, ack).exists = k.exists /\ Requested(k, ack).pending = k.pending
  BY DEF Requested, Knowledge
<1> QED BY <1>1, Zenon DEF Unknown, Reset, Knowledge

LEMMA SentAndAcknowledged ==
  \A k \in Knowledge :
    /\ Synced(k) \in Knowledge /\ Synced(k).exists = k.exists
    /\ Acknowledged(k) \in Knowledge /\ Acknowledged(k).exists
    /\ k.ack \in BOOLEAN
<1> SUFFICES ASSUME NEW k \in Knowledge
             PROVE  /\ Synced(k) \in Knowledge /\ Synced(k).exists = k.exists
                    /\ Acknowledged(k) \in Knowledge /\ Acknowledged(k).exists
                    /\ k.ack \in BOOLEAN
  OBVIOUS
<1>1. \A j \in Nat :
        /\ [k EXCEPT !.req = FALSE, !.ack = FALSE, !.pending = j] \in Knowledge
        /\ [k EXCEPT !.req = FALSE, !.ack = FALSE, !.pending = j].exists = k.exists
        /\ [k EXCEPT !.exists = TRUE, !.pending = j] \in Knowledge
        /\ [k EXCEPT !.exists = TRUE, !.pending = j].exists
  BY DEF Knowledge
<1>2. k.pending \in Nat /\ k.ack \in BOOLEAN
  BY DEF Knowledge
<1>3. PICK j \in Nat : j = IF k.ack THEN k.pending + 1 ELSE k.pending
  BY <1>2
<1>4. Synced(k) = [k EXCEPT !.req = FALSE, !.ack = FALSE, !.pending = j]
  BY <1>3 DEF Synced
<1>5. PICK q \in Nat : q = IF k.pending > 0 THEN k.pending - 1 ELSE k.pending
  BY <1>2
<1>6. Acknowledged(k) = [k EXCEPT !.exists = TRUE, !.pending = q]
  BY <1>5 DEF Acknowledged
<1> QED BY <1>1, <1>2, <1>4, <1>6

-----------------------------------------------------------------------------
(* Types.                                                                  *)

Typed == TypeOK /\ HistoryOK /\ WiresOK

LEMMA RequestSyncTyped ==
  ASSUME TypeOK, NEW n \in Node, NEW i \in Id, NEW users, NEW ack, ack \in BOOLEAN
  PROVE  /\ RequestSync(n, i, users, ack) \in [Link -> [Id -> Knowledge]]
         /\ \A l \in Link, j \in Id :
              /\ RequestSync(n, i, users, ack)[l][j].exists = knows[l][j].exists
              /\ RequestSync(n, i, users, ack)[l][j].pending = knows[l][j].pending
<1> DEFINE R == RequestSync(n, i, users, ack)
<1>1. ASSUME NEW l \in Link
      PROVE  /\ R[l] \in [Id -> Knowledge]
             /\ \A j \in Id : /\ R[l][j].exists = knows[l][j].exists
                              /\ R[l][j].pending = knows[l][j].pending
  <2>1. knows[l] \in [Id -> Knowledge]
    BY DEF TypeOK
  <2>2. R[l] = IF l[1] = n /\ l[2] \in users THEN [knows[l] EXCEPT ![i] = Requested(knows[l][i], ack)]
                                               ELSE knows[l]
    BY DEF RequestSync
  <2>3. /\ Requested(knows[l][i], ack) \in Knowledge
        /\ Requested(knows[l][i], ack).exists = knows[l][i].exists
        /\ Requested(knows[l][i], ack).pending = knows[l][i].pending
    BY <2>1, KnowledgeOf
  <2> HIDE DEF R
  <2> QED BY <2>1, <2>2, <2>3
<1> QED BY <1>1 DEF RequestSync

(* The tables without some objects of a node.                              *)
Destructed(n, ids) ==
  /\ \A m \in Node, i \in Id :
       /\ object'[m][i] = IF m = n /\ i \in ids THEN None ELSE object[m][i]
       /\ content'[m][i] = IF m = n /\ i \in ids THEN Nothing ELSE content[m][i]
  /\ \A m \in Node : zombie'[m] = IF m = n THEN zombie[m] \ ids ELSE zombie[m]
  /\ \A i \in Id : owner'[i] = IF n = Server /\ i \in ids THEN NoNode ELSE owner[i]

LEMMA DestructTyped ==
  ASSUME TypeOK, NEW n \in Node, NEW ids \in SUBSET Id, Destruct(n, ids)
  PROVE  /\ object' \in [Node -> [Id -> Object \cup {None}]]
         /\ content' \in [Node -> [Id -> [obj : Object \cup {None}, version : Nat]]]
         /\ zombie' \in [Node -> SUBSET Id]
         /\ owner' \in [Id -> Node \cup {NoNode}]
         /\ local' \in [Node -> SUBSET Id]
         /\ Destructed(n, ids)
<1>1. Nothing \in [obj : Object \cup {None}, version : Nat]
  BY DEF Nothing
<1>2. /\ object' \in [Node -> [Id -> Object \cup {None}]]
      /\ \A m \in Node, i \in Id :
           object'[m][i] = IF m = n /\ i \in ids THEN None ELSE object[m][i]
  BY DEF TypeOK, Destruct
<1>3. /\ content' \in [Node -> [Id -> [obj : Object \cup {None}, version : Nat]]]
      /\ \A m \in Node, i \in Id :
           content'[m][i] = IF m = n /\ i \in ids THEN Nothing ELSE content[m][i]
  BY <1>1 DEF TypeOK, Destruct
<1>4. /\ zombie' \in [Node -> SUBSET Id]
      /\ \A m \in Node : zombie'[m] = IF m = n THEN zombie[m] \ ids ELSE zombie[m]
  BY DEF TypeOK, Destruct
<1>5. /\ owner' \in [Id -> Node \cup {NoNode}]
      /\ \A i \in Id : owner'[i] = IF n = Server /\ i \in ids THEN NoNode ELSE owner[i]
  BY DEF TypeOK, Destruct
<1>6. local' \in [Node -> SUBSET Id]
  BY DEF TypeOK, Destruct
<1> QED BY <1>2, <1>3, <1>4, <1>5, <1>6 DEF Destructed

LEMMA DestroyedTyped ==
  ASSUME TypeOK, NEW n \in Node, NEW ids \in SUBSET Id
  PROVE  /\ Destroyed(n, ids) \in [Link -> SUBSET Id]
         /\ \A l \in Link : \A i \in Destroyed(n, ids)[l] :
              i \in destroyer[l] \/ (l[1] = n /\ i \in ids /\ l[2] \in Informed(n, i))
         /\ \A l \in Link : destroyer[l] \subseteq Destroyed(n, ids)[l]
BY DEF TypeOK, Destroyed

LEMMA ForgottenTyped ==
  ASSUME TypeOK, NEW n \in Node, NEW ids \in SUBSET Id
  PROVE  /\ Forgotten(n, ids) \in [Link -> [Id -> Knowledge]]
         /\ \A l \in Link, i \in Id :
              Forgotten(n, ids)[l][i].exists => knows[l][i].exists /\ ~(l[1] = n /\ i \in ids)
BY KnowledgeOf DEF TypeOK, Forgotten

LEMMA BroadcastTyped ==
  ASSUME TypeOK, NEW c \in Client, NEW ids
  PROVE  /\ BroadcastExistence(c, ids) \in [Link -> [Id -> Knowledge]]
         /\ \A l \in Link, i \in Id :
              BroadcastExistence(c, ids)[l][i].exists =>
                knows[l][i].exists /\ c \notin {l[1], l[2]}
<1> DEFINE B == BroadcastExistence(c, ids)
<1>1. ASSUME NEW l \in Link
      PROVE  /\ B[l] \in [Id -> Knowledge]
             /\ \A i \in Id : B[l][i].exists => knows[l][i].exists /\ c \notin {l[1], l[2]}
  <2>1. knows[l] \in [Id -> Knowledge]
    BY DEF TypeOK
  <2>2. \A i \in Id : /\ Requested(knows[l][i], TRUE) \in Knowledge
                      /\ Requested(knows[l][i], TRUE).exists = knows[l][i].exists
    BY <2>1, KnowledgeOf
  <2>3. CASE l = <<Server, c>>
    <3>1. B[l] = [i \in Id |-> IF i \in ids THEN Reset ELSE Unknown]
      BY <2>3, Links DEF BroadcastExistence
    <3> HIDE DEF B
    <3> QED BY <3>1, KnowledgeOf
  <2>4. CASE l[1] = Server /\ l[2] # c
    <3>1. B[l] = [i \in Id |-> IF i \in ids /\ l[2] \in connected /\ ~knows[l][i].exists
                               THEN Requested(knows[l][i], TRUE)
                               ELSE IF object[Server][i] # None /\ i \notin ids THEN Unknown
                               ELSE knows[l][i]]
      <4>1. l # <<Server, c>> /\ l # <<c, Server>>
        BY <2>4, Links
      <4> QED BY <2>4, <4>1 DEF BroadcastExistence
    <3>2. c \notin {l[1], l[2]}
      BY <2>4, Links
    <3> HIDE DEF B
    <3>3. ASSUME NEW i \in Id
          PROVE  B[l][i] \in Knowledge /\ (B[l][i].exists => knows[l][i].exists)
      <4>1. B[l][i] \in {Requested(knows[l][i], TRUE), Unknown, knows[l][i]}
        BY <3>1
      <4> QED BY <2>1, <2>2, <4>1, KnowledgeOf
    <3>4. B[l] \in [Id -> Knowledge]
      BY <3>1, <3>3
    <3> QED BY <3>2, <3>3, <3>4
  <2>5. CASE l = <<c, Server>>
    <3>1. B[l] = [i \in Id |-> Unknown]
      <4>1. l # <<Server, c>> /\ l[1] # Server
        BY <2>5, Links
      <4> QED BY <2>5, <4>1 DEF BroadcastExistence
    <3> HIDE DEF B
    <3> QED BY <3>1, KnowledgeOf
  <2>6. CASE l # <<c, Server>> /\ l[1] # Server
    <3>1. B[l] = knows[l] /\ c \notin {l[1], l[2]}
      <4>1. l # <<Server, c>> /\ c \notin {l[1], l[2]}
        BY <2>6, Links
      <4> QED BY <2>6, <4>1 DEF BroadcastExistence
    <3> HIDE DEF B
    <3> QED BY <2>1, <3>1
  <2> QED BY <2>3, <2>4, <2>5, <2>6, Links
<1> QED BY <1>1 DEF BroadcastExistence

-----------------------------------------------------------------------------
(* What a step that follows from what was before keeps.                    *)

LEMMA FreshStays ==
  ASSUME Typed, Typed', Follows, NEW i \in Id, Fresh(i)
  PROVE  Fresh(i)'
<1> USE DEF Typed
<1>1. \A m \in Sent : m.ack => i \notin m.ids
  BY DEF Fresh, Sent
<1>2. ASSUME NEW n \in Node
      PROVE  object'[n][i] = None /\ \A d \in doomed'[n] : d.id # i
  <2>1. object[n][i] = None /\ \A d \in doomed[n] : d.id # i
    BY DEF Fresh
  <2>2. \A m \in net : m.type = "create" => m.ack
    BY DEF WiresOK, WireOK, Sent
  <2> QED BY <1>1, <2>1, <2>2 DEF Follows, ObjectsFollow, OrdersFollow, Sent
<1>3. ASSUME NEW m \in Sent', m.ack, i \in m.ids
      PROVE  FALSE
  <2>1. m \notin Sent
    BY <1>1, <1>3
  <2>2. FromNode(m)
    BY <2>1 DEF Follows, MessagesFollow
  <2>3. <<m.from, m.to>> \in Link /\ m.from \in Node
    BY Links DEF WiresOK, WireOK
  <2>4. i \notin destroyer[<<m.from, m.to>>] /\ object[m.from][i] = None
    BY <2>3 DEF Fresh
  <2> QED BY <1>3, <2>2, <2>4 DEF FromNode
<1>4. \A l \in Link : i \notin destroyer'[l]
  BY Links DEF Follows, OrdersFollow, Fresh
<1> QED BY <1>2, <1>3, <1>4 DEF Fresh, Sent

LEMMA LastStays ==
  ASSUME Typed, Typed', RightContent, Follows, NEW cur \in [Id -> 0 .. Len(maker)], Last(cur)
  PROVE  Last(cur)' /\ cur \in [Id -> 0 .. Len(maker')]
<1> USE DEF Typed
<1>1. Last(cur)
  OBVIOUS
<1>2. ASSUME NEW n \in Node, NEW i \in Id
      PROVE  object'[n][i] \in {None, cur[i]}
  <2>1. ASSUME NEW m \in net, m.type = "create", i \in m.ids
        PROVE  m.obj = cur[i]
    BY <1>1, <2>1 DEF Last, Sent, WiresOK, WireOK
  <2> QED BY <1>1, <2>1 DEF Follows, ObjectsFollow, Last
<1>3. ASSUME NEW m \in Sent', m.type # "destroy", NEW i \in m.ids
      PROVE  m.obj <= cur[i] /\ (m.ack => m.obj = cur[i])
  <2>1. CASE m \in Sent
    BY <1>1, <1>3, <2>1 DEF Last
  <2>2. CASE m \notin Sent
    <3>1. FromNode(m)
      BY <2>2 DEF Follows, MessagesFollow
    <3>2. m.from \in Node /\ i \in Id
      BY DEF WiresOK, WireOK, Wire
    <3>3. m.obj = object[m.from][i] /\ object[m.from][i] # None
      BY <1>3, <3>1, <3>2 DEF FromNode, RightContent
    <3>4. m.obj = cur[i] /\ cur[i] \in Nat
      BY <1>1, <3>2, <3>3 DEF Last, HistoryOK
    <3> QED BY <3>4
  <2> QED BY <2>1, <2>2
<1>4. Last(cur)'
  BY <1>2, <1>3 DEF Last
<1>5. maker' = maker
  BY DEF Follows, ObjectsFollow
<1> QED BY <1>4, <1>5

LEMMA HadStays ==
  ASSUME Typed, Typed', RightContent, HadAll, ExistsMeansThere, Follows
  PROVE  HadAll'
<1> USE DEF Typed
<1>1. ASSUME NEW n \in Node, NEW i \in Id, object'[n][i] # None
      PROVE  object'[n][i] \in had'[n]
  <2>1. CASE object'[n][i] = object[n][i]
    <3>1. object[n][i] \in had[n]
      BY <1>1, <2>1 DEF HadAll
    <3>2. ~Gone(n)
      BY <1>1 DEF Gone
    <3> QED BY <2>1, <3>1, <3>2 DEF Follows, HadFollows
  <2> QED BY <1>1, <2>1 DEF Follows, ObjectsFollow
<1>2. ASSUME NEW m \in Sent', m.type # "destroy"
      PROVE  /\ m.obj \in had'[m.from]
             /\ m.type = "sync" \/ m \in acks' => m.obj \in had'[m.to]
  <2>1. m.from \in Node /\ m.to \in Node /\ <<m.from, m.to>> \in Link /\ m.ids \subseteq Id
        /\ m.type \in {"create", "sync"}
    BY <1>2 DEF WiresOK, WireOK, Wire
  <2>2. had[m.from] \subseteq had'[m.from] /\ had[m.to] \subseteq had'[m.to]
    BY <2>1 DEF Follows, HadFollows, Gone
  <2>3. CASE m \in Sent
    <3>1. /\ m.obj \in had[m.from]
          /\ m.type = "sync" \/ m \in acks => m.obj \in had[m.to]
      BY <1>2, <2>3 DEF HadAll
    <3>2. m \in acks' => m \in acks \/ (m.type = "create" => m.obj \in had'[m.to])
      BY DEF Follows, MessagesFollow
    <3> QED BY <2>1, <2>2, <3>1, <3>2
  <2>4. CASE m \notin Sent
    <3>1. FromNode(m)
      BY <2>4 DEF Follows, MessagesFollow
    <3>2. PICK i \in Id : m.ids = {i}
      BY <1>2 DEF WiresOK, WireOK
    <3>3. /\ m \notin acks' /\ object[m.from][i] # None /\ m.obj = object[m.from][i]
          /\ m.type = "sync" => Up(m.from) /\ Up(m.to) /\ knows[<<m.from, m.to>>][i].exists
      BY <1>2, <2>1, <3>1, <3>2 DEF FromNode, RightContent
    <3>4. m.obj \in had[m.from]
      BY <2>1, <3>3 DEF HadAll
    <3>5. ASSUME m.type = "sync" PROVE m.obj \in had[m.to]
      <4>1. <<m.from, m.to>>[1] = m.from /\ <<m.from, m.to>>[2] = m.to
        OBVIOUS
      <4> QED BY <2>1, <3>3, <3>5, <4>1 DEF ExistsMeansThere
    <3> QED BY <2>2, <3>3, <3>4, <3>5
  <2> QED BY <2>3, <2>4
<1> QED BY <1>1, <1>2 DEF HadAll

LEMMA ExistsStays ==
  ASSUME Typed, Typed', ExistsMeansThere, Follows
  PROVE  ExistsMeansThere'
<1> SUFFICES ASSUME NEW l \in Link, NEW i \in Id, Up(l[1])', Up(l[2])',
                    knows'[l][i].exists, object'[l[1]][i] # None
             PROVE  object'[l[1]][i] \in had'[l[2]]
  BY DEF ExistsMeansThere
<1>1. CASE /\ Up(l[1]) /\ Up(l[2]) /\ knows[l][i].exists
           /\ object'[l[1]][i] = object[l[1]][i]
  <2>1. object'[l[1]][i] \in had[l[2]]
    BY <1>1 DEF ExistsMeansThere
  <2>2. l[2] \in Node /\ ~Gone(l[2])
    BY Links, NodeAssumption DEF Gone, Up
  <2> QED BY <2>1, <2>2 DEF Follows, HadFollows
<1> QED BY <1>1 DEF Follows, KnowsFollows

LEMMA FollowsKeeps ==
  ASSUME NetInv, Typed', RightContent', ZombiesAreThere', Follows
  PROVE  NetInv'
<1>1. Typed
  BY DEF NetInv, Typed
<1>2. OneGeneration' /\ HadAll' /\ ExistsMeansThere'
  <2>1. OneGeneration'
    <3>1. PICK cur \in [Id -> 0 .. Len(maker)] : Last(cur)
      BY DEF NetInv, OneGeneration
    <3>2. Last(cur)' /\ cur \in [Id -> 0 .. Len(maker')]
      BY <1>1, <3>1, LastStays DEF NetInv
    <3> QED BY <3>2 DEF OneGeneration
  <2> QED BY <1>1, <2>1, HadStays, ExistsStays DEF NetInv
<1>3. ReservedAreFresh'
  <2> SUFFICES ASSUME NEW c \in Client, NEW i \in reserved'[c]
               PROVE  owner'[i] = c /\ Fresh(i)'
    BY DEF ReservedAreFresh
  <2>1. owner'[i] = c /\ (i \in reserved[c] \/ Free(i))
    BY DEF Follows, IdsFollow
  <2>2. i \in Id
    BY DEF Typed, TypeOK
  <2>3. Fresh(i)
    BY <2>1 DEF NetInv, ReservedAreFresh, Free
  <2> QED BY <1>1, <2>1, <2>2, <2>3, FreshStays
<1>4. OrdersOnLinks'
  <2> SUFFICES ASSUME NEW n \in Node, NEW d \in doomed'[n]
               PROVE  <<d.from, n>> \in Link
    BY DEF OrdersOnLinks
  <2>1. d \in doomed[n] => <<d.from, n>> \in Link
    BY DEF NetInv, OrdersOnLinks
  <2>2. ASSUME NEW m \in net, d.from = m.from, n = m.to
        PROVE  <<d.from, n>> \in Link
    BY <1>1, <2>2 DEF Typed, WiresOK, WireOK, Sent
  <2> QED BY <2>1, <2>2 DEF Follows, OrdersFollow
<1> QED BY <1>2, <1>3, <1>4 DEF NetInv, Typed

-----------------------------------------------------------------------------
(* What most steps leave alone.                                            *)

Kept == Typed' /\ RightContent' /\ ZombiesAreThere' /\ Follows

LEMMA SameWires ==
  ASSUME WiresOK, UNCHANGED wires
  PROVE  WiresOK' /\ MessagesFollow
BY DEF WiresOK, WireOK, Wire, Sent, wires, MessagesFollow

LEMMA FewerMessages ==
  ASSUME WiresOK, Sent' \subseteq Sent, acks' \subseteq acks
  PROVE  WiresOK' /\ MessagesFollow
BY DEF WiresOK, WireOK, Wire, Sent, MessagesFollow

LEMMA SameOrders ==
  ASSUME UNCHANGED <<destroyer, doomed>>
  PROVE  OrdersFollow
BY DEF OrdersFollow

LEMMA SameObjects ==
  ASSUME UNCHANGED <<object, maker>>
  PROVE  ObjectsFollow
BY DEF ObjectsFollow

LEMMA SameIds ==
  ASSUME ReservedAreFresh, UNCHANGED <<owner, reserved>>
  PROVE  IdsFollow
BY DEF ReservedAreFresh, IdsFollow

LEMMA SameHad ==
  ASSUME UNCHANGED had
  PROVE  HadFollows
BY DEF HadFollows

LEMMA SameKnows ==
  ASSUME UNCHANGED <<object, connected>>,
         \A l \in Link, i \in Id : knows'[l][i].exists => knows[l][i].exists
  PROVE  KnowsFollows
BY DEF KnowsFollows, Up

LEMMA SameTables ==
  ASSUME RightContent, ZombiesAreThere, UNCHANGED <<object, content, zombie>>
  PROVE  RightContent' /\ ZombiesAreThere'
BY DEF RightContent, ZombiesAreThere

-----------------------------------------------------------------------------
(* The steps, one by one.                                                  *)

LEMMA LoginKeeps ==
  ASSUME NetInv, NEW c \in Client, Login(c)
  PROVE  Kept
<1> USE DEF NetInv
<1>1. /\ UNCHANGED <<object, content, zombie, owner, reserved, mine, destroyer, doomed, local,
                     net, acks, ready, accused, maker, had, ended>>
      /\ connected' = connected \cup {c}
      /\ knows' = BroadcastExistence(c, Present) /\ c \notin connected
      /\ budget' = [budget EXCEPT !.logins[c] = @ - 1] /\ budget.logins[c] > 0
  BY DEF Login, orders, wires, story
<1>2. /\ knows' \in [Link -> [Id -> Knowledge]]
      /\ \A l \in Link, i \in Id :
           knows'[l][i].exists => knows[l][i].exists /\ c \notin {l[1], l[2]}
  BY <1>1, BroadcastTyped
<1>3. TypeOK'
  BY <1>1, <1>2 DEF TypeOK
<1>4. HistoryOK'
  <2>1. budget.logins[c] - 1 \in Nat
    BY <1>1 DEF HistoryOK
  <2>2. budget' \in [made : Object, change : Nat, logins : [Client -> Nat],
                     acks : SUBSET BOOLEAN \ {{}}]
    BY <1>1, <2>1 DEF HistoryOK
  <2> QED BY <1>1, <2>2 DEF HistoryOK
<1>5. KnowsFollows
  BY <1>1, <1>2 DEF KnowsFollows, Up
<1>6. WiresOK' /\ MessagesFollow
  BY <1>1, SameWires DEF wires
<1> QED BY <1>1, <1>3, <1>4, <1>5, <1>6, SameOrders, SameObjects, SameIds, SameHad, SameTables
        DEF Kept, Typed, Follows

LEMMA ReadyKeeps ==
  ASSUME NetInv, NEW c \in Client, Ready(c)
  PROVE  Kept
<1> USE DEF NetInv
<1>1. /\ UNCHANGED <<object, content, knows, zombie, owner, reserved, mine, destroyer, doomed,
                     local, net, acks, connected, accused, budget, maker, had, ended>>
      /\ ready' = ready \cup {c} /\ c \in connected
  BY DEF Ready, tables, orders, wires, story
<1>2. TypeOK' /\ HistoryOK'
  BY <1>1 DEF TypeOK, HistoryOK
<1>3. WiresOK' /\ MessagesFollow /\ KnowsFollows
  BY <1>1, SameWires, SameKnows DEF wires
<1> QED BY <1>1, <1>2, <1>3, SameOrders, SameObjects, SameIds, SameHad, SameTables
        DEF Kept, Typed, Follows

LEMMA RecycleKeeps ==
  ASSUME NetInv, NEW i \in Id, Recycle(i)
  PROVE  Kept
<1> USE DEF NetInv
<1>1. /\ UNCHANGED <<object, content, knows, zombie, reserved, mine, destroyer, doomed,
                     local, net, acks, connected, ready, accused, budget, maker, had, ended>>
      /\ owner' = [owner EXCEPT ![i] = Server] /\ owner[i] = NoNode
  BY DEF Recycle, orders, wires, others, story
<1>2. TypeOK' /\ HistoryOK'
  BY <1>1, Links DEF TypeOK, HistoryOK
<1>3. IdsFollow
  <2>1. ASSUME NEW c \in Client, i \in reserved[c] PROVE FALSE
    <3>1. owner[i] = c
      BY <2>1 DEF ReservedAreFresh
    <3>2. c \in Node
      BY Links
    <3> QED BY <1>1, <3>1, <3>2, NodeAssumption
  <2> QED BY <1>1, <2>1 DEF IdsFollow, ReservedAreFresh, TypeOK
<1>4. WiresOK' /\ MessagesFollow /\ KnowsFollows
  BY <1>1, SameWires, SameKnows DEF wires
<1> QED BY <1>1, <1>2, <1>3, <1>4, SameOrders, SameObjects, SameHad, SameTables
        DEF Kept, Typed, Follows

LEMMA ReserveKeeps ==
  ASSUME NetInv, NEW c \in Client, NEW i \in Id, Reserve(c, i)
  PROVE  Kept
<1> USE DEF NetInv
<1>1. /\ UNCHANGED <<object, content, knows, zombie, mine, destroyer, doomed,
                     local, net, acks, connected, ready, accused, budget, maker, had, ended>>
      /\ owner' = [owner EXCEPT ![i] = c] /\ Free(i)
      /\ reserved' = [reserved EXCEPT ![c] = @ \cup {i}]
  BY DEF Reserve, orders, wires, others, story
<1>2. TypeOK' /\ HistoryOK'
  <2>1. owner' \in [Id -> Node \cup {NoNode}]
    BY <1>1, Links DEF TypeOK
  <2>2. reserved' \in [Client -> SUBSET Id]
    BY <1>1 DEF TypeOK
  <2> QED BY <1>1, <2>1, <2>2 DEF TypeOK, HistoryOK
<1>3. IdsFollow
  <2>1. ASSUME NEW p \in Client, i \in reserved[p] PROVE FALSE
    <3>1. owner[i] = p
      BY <2>1 DEF ReservedAreFresh
    <3>2. p # Server
      BY Links
    <3> QED BY <1>1, <3>1, <3>2 DEF Free
  <2> QED BY <1>1, <2>1 DEF IdsFollow, ReservedAreFresh, TypeOK
<1>4. WiresOK' /\ MessagesFollow /\ KnowsFollows
  BY <1>1, SameWires, SameKnows DEF wires
<1> QED BY <1>1, <1>2, <1>3, <1>4, SameOrders, SameObjects, SameHad, SameTables
        DEF Kept, Typed, Follows

LEMMA ChangedRecord ==
  \A r \in [obj : Object \cup {None}, version : Nat] :
    Changed(r) \in [obj : Object \cup {None}, version : Nat] /\ Changed(r).obj = r.obj
BY DEF Changed

LEMMA ChangeKeeps ==
  ASSUME NetInv, NEW n \in Node, NEW i \in Id, Change(n, i)
  PROVE  Kept
<1> USE DEF NetInv
<1>1. /\ UNCHANGED <<object, zombie, owner, reserved, mine, destroyer, doomed, local,
                     net, acks, connected, ready, accused, budget, maker, had, ended>>
      /\ content' = [content EXCEPT ![n][i] = Changed(@)]
      /\ \E ack \in budget.acks : knows' = RequestSync(n, i, Peers(n), ack)
  BY DEF Change, orders, wires, others, story
<1>2. /\ knows' \in [Link -> [Id -> Knowledge]]
      /\ \A l \in Link, j \in Id : knows'[l][j].exists => knows[l][j].exists
  <2>1. PICK ack \in budget.acks : knows' = RequestSync(n, i, Peers(n), ack)
    BY <1>1
  <2>2. ack \in BOOLEAN
    BY DEF HistoryOK
  <2> QED BY <2>1, <2>2, RequestSyncTyped
<1>3. /\ content' \in [Node -> [Id -> [obj : Object \cup {None}, version : Nat]]]
      /\ \A p \in Node, j \in Id : content'[p][j].obj = content[p][j].obj
  <2>1. content[n][i] \in [obj : Object \cup {None}, version : Nat]
    BY DEF TypeOK
  <2>2. /\ Changed(content[n][i]) \in [obj : Object \cup {None}, version : Nat]
        /\ Changed(content[n][i]).obj = content[n][i].obj
    BY <2>1, ChangedRecord
  <2> QED BY <1>1, <2>2 DEF TypeOK
<1>4. TypeOK' /\ HistoryOK'
  BY <1>1, <1>2, <1>3 DEF TypeOK, HistoryOK
<1>5. RightContent' /\ ZombiesAreThere'
  BY <1>1, <1>3 DEF RightContent, ZombiesAreThere
<1>6. WiresOK' /\ MessagesFollow /\ KnowsFollows
  BY <1>1, <1>2, SameWires, SameKnows DEF wires
<1> QED BY <1>1, <1>4, <1>5, <1>6, SameOrders, SameObjects, SameIds, SameHad
        DEF Kept, Typed, Follows

(* What the destructor does to objects that are there.                     *)
LEMMA DestructFollows ==
  ASSUME NetInv, NEW n \in Node, NEW ids \in SUBSET Id, Destruct(n, ids),
         \A i \in ids : object[n][i] # None,
         UNCHANGED <<reserved, maker, had, connected>>,
         knows' = Forgotten(n, ids)
  PROVE  /\ RightContent' /\ ZombiesAreThere'
         /\ ObjectsFollow /\ IdsFollow /\ HadFollows /\ KnowsFollows
<1> USE DEF NetInv
<1>1. Destructed(n, ids)
  BY DestructTyped
<1> USE DEF Destructed
<1>2. RightContent'
  BY <1>1 DEF RightContent, Nothing
<1>3. ZombiesAreThere'
  <2> SUFFICES ASSUME NEW m \in Node, NEW i \in zombie'[m]
               PROVE  object'[m][i] # None
    BY DEF ZombiesAreThere
  <2>1. i \in zombie[m] /\ ~(m = n /\ i \in ids)
    BY <1>1
  <2>2. i \in Id /\ object[m][i] # None
    BY <2>1 DEF ZombiesAreThere, TypeOK
  <2> QED BY <1>1, <2>1, <2>2
<1>4. ObjectsFollow
  BY <1>1 DEF ObjectsFollow
<1>5. IdsFollow
  <2> SUFFICES ASSUME NEW c \in Client, NEW i \in reserved'[c]
               PROVE  owner'[i] = c /\ i \in reserved[c]
    BY DEF IdsFollow
  <2>1. i \in Id /\ owner[i] = c /\ Fresh(i)
    BY DEF TypeOK, ReservedAreFresh
  <2>2. i \notin ids
    BY <2>1 DEF Fresh
  <2> QED BY <1>1, <2>1, <2>2
<1>6. KnowsFollows
  <2>1. \A l \in Link, i \in Id :
          knows'[l][i].exists => knows[l][i].exists /\ ~(l[1] = n /\ i \in ids)
    BY ForgottenTyped
  <2> QED BY <1>1, <2>1, Links DEF KnowsFollows, Up
<1> QED BY <1>2, <1>3, <1>4, <1>5, <1>6, SameHad

LEMMA DestroyObjectKeeps ==
  ASSUME NetInv, NEW n \in Node, NEW i \in Id, DestroyObject(n, i)
  PROVE  Kept
<1> USE DEF NetInv
<1>1. /\ UNCHANGED <<reserved, mine, doomed, net, acks, connected, ready, accused, budget,
                     maker, had>>
      /\ Destruct(n, {i}) /\ knows' = Forgotten(n, {i}) /\ destroyer' = Destroyed(n, {i})
      /\ object[n][i] \in mine[n]
  BY DEF DestroyObject, Own, wires, others
<1>2. object[n][i] # None
  BY <1>1 DEF TypeOK, Object, None
<1>3. TypeOK'
  <2>1. knows' \in [Link -> [Id -> Knowledge]] /\ destroyer' \in [Link -> SUBSET Id]
    <3>1. TypeOK /\ {i} \in SUBSET Id
      OBVIOUS
    <3> QED BY <1>1, <3>1, ForgottenTyped, DestroyedTyped
  <2>2. /\ object' \in [Node -> [Id -> Object \cup {None}]]
        /\ content' \in [Node -> [Id -> [obj : Object \cup {None}, version : Nat]]]
        /\ zombie' \in [Node -> SUBSET Id]
        /\ owner' \in [Id -> Node \cup {NoNode}]
        /\ local' \in [Node -> SUBSET Id]
    BY <1>1, DestructTyped
  <2> QED BY <1>1, <2>1, <2>2 DEF TypeOK
<1>4. HistoryOK'
  BY <1>1 DEF HistoryOK
<1>5. WiresOK' /\ MessagesFollow
  BY <1>1, SameWires DEF wires
<1>6. OrdersFollow
  <2>1. \A l \in Link : \A j \in destroyer'[l] : j \in destroyer[l] \/ (l[1] = n /\ j \in {i})
    BY <1>1, DestroyedTyped
  <2> QED BY <1>1, <1>2, <2>1 DEF OrdersFollow
<1>7. /\ RightContent' /\ ZombiesAreThere'
      /\ ObjectsFollow /\ IdsFollow /\ HadFollows /\ KnowsFollows
  BY <1>1, <1>2, DestructFollows
<1> QED BY <1>3, <1>4, <1>5, <1>6, <1>7 DEF Kept, Typed, Follows

LEMMA DestroyMessageOK ==
  ASSUME NEW n, NEW p, <<n, p>> \in Link, NEW ids \in SUBSET Id
  PROVE  LET m == DestroyMessage(n, p, ids)
         IN  WireOK(m) /\ m.from = n /\ m.to = p /\ m.type = "destroy" /\ m.ids = ids
BY Links DEF DestroyMessage, Message, WireOK, Wire, None

LEMMA ClearAllDeletedKeeps ==
  ASSUME NetInv, NEW n \in Node, ClearAllDeleted(n)
  PROVE  Kept
<1> USE DEF NetInv
<1> DEFINE dead == Destroyed(n, zombie[n])
           sent == {l \in Link : l[1] = n /\ Up(l[2]) /\ dead[l] # {}}
<1>1. /\ UNCHANGED <<reserved, mine, doomed, acks, connected, ready, accused, budget,
                     maker, had>>
      /\ Destruct(n, zombie[n]) /\ knows' = Forgotten(n, zombie[n])
      /\ net' = net \cup {DestroyMessage(l[1], l[2], dead[l]) : l \in sent}
      /\ destroyer' = [l \in Link |-> IF l \in sent THEN {} ELSE dead[l]]
  BY DEF ClearAllDeleted, story, others
<1>2. zombie[n] \in SUBSET Id /\ \A i \in zombie[n] : object[n][i] # None
  BY DEF ZombiesAreThere, TypeOK
<1>3. /\ dead \in [Link -> SUBSET Id]
      /\ \A l \in Link : \A i \in dead[l] : i \in destroyer[l] \/ (l[1] = n /\ i \in zombie[n])
  BY <1>2, DestroyedTyped
<1>4. sent \subseteq Link
  OBVIOUS
<1> HIDE DEF dead, sent
<1>5. TypeOK'
  <2>1. knows' \in [Link -> [Id -> Knowledge]] /\ destroyer' \in [Link -> SUBSET Id]
    BY <1>1, <1>2, <1>3, ForgottenTyped
  <2>2. /\ object' \in [Node -> [Id -> Object \cup {None}]]
        /\ content' \in [Node -> [Id -> [obj : Object \cup {None}, version : Nat]]]
        /\ zombie' \in [Node -> SUBSET Id]
        /\ owner' \in [Id -> Node \cup {NoNode}]
        /\ local' \in [Node -> SUBSET Id]
    BY <1>1, <1>2, DestructTyped
  <2> QED BY <1>1, <2>1, <2>2 DEF TypeOK
<1>6. HistoryOK'
  BY <1>1 DEF HistoryOK
<1>7. ASSUME NEW m \in Sent', m \notin Sent
      PROVE  WireOK(m) /\ FromNode(m)
  <2>1. PICK l \in sent : m = DestroyMessage(l[1], l[2], dead[l])
    BY <1>1, <1>7 DEF Sent
  <2>2. l \in Link /\ <<l[1], l[2]>> = l
    BY <1>4, Links
  <2>3. /\ WireOK(m) /\ m.from = l[1] /\ m.to = l[2] /\ m.type = "destroy" /\ m.ids = dead[l]
    BY <1>3, <2>1, <2>2, DestroyMessageOK
  <2> QED BY <1>2, <1>3, <2>2, <2>3 DEF FromNode
<1>8. WiresOK' /\ MessagesFollow
  BY <1>1, <1>7 DEF WiresOK, WireOK, Wire, MessagesFollow
<1>9. OrdersFollow
  BY <1>1, <1>2, <1>3 DEF OrdersFollow
<1>10. /\ RightContent' /\ ZombiesAreThere'
       /\ ObjectsFollow /\ IdsFollow /\ HadFollows /\ KnowsFollows
  BY <1>1, <1>2, DestructFollows
<1> QED BY <1>5, <1>6, <1>8, <1>9, <1>10 DEF Kept, Typed, Follows

LEMMA SendDestroyerKeeps ==
  ASSUME NetInv, NEW n, NEW p, <<n, p>> \in Link, SendDestroyer(n, p)
  PROVE  Kept
<1> USE DEF NetInv
<1> DEFINE sent == DestroyMessage(n, p, destroyer[<<n, p>>])
<1>1. /\ UNCHANGED <<object, content, knows, zombie, owner, reserved, mine, doomed, local,
                     acks, connected, ready, accused, budget, maker, had, ended>>
      /\ net' = net \cup {sent}
      /\ destroyer' = [destroyer EXCEPT ![<<n, p>>] = {}]
  BY DEF SendDestroyer, tables, others, story
<1>2. /\ WireOK(sent) /\ sent.from = n /\ sent.to = p /\ sent.type = "destroy"
      /\ sent.ids = destroyer[<<n, p>>]
  BY DestroyMessageOK DEF TypeOK
<1> HIDE DEF sent
<1>3. TypeOK' /\ HistoryOK'
  BY <1>1 DEF TypeOK, HistoryOK
<1>4. WiresOK' /\ MessagesFollow
  BY <1>1, <1>2 DEF WiresOK, WireOK, Wire, Sent, MessagesFollow, FromNode
<1>5. OrdersFollow
  BY <1>1 DEF OrdersFollow, TypeOK
<1>6. KnowsFollows
  BY <1>1, SameKnows
<1> QED BY <1>1, <1>3, <1>4, <1>5, <1>6, SameIds, SameObjects, SameHad, SameTables
        DEF Kept, Typed, Follows

(* A message about an object that its sender has.                          *)
LEMMA SendKeeps ==
  ASSUME NetInv, NEW n, NEW p, <<n, p>> \in Link, NEW i \in Id, object[n][i] # None,
         NEW type \in {"create", "sync"}, NEW ack \in BOOLEAN, type = "create" => ack,
         type = "sync" => Up(n) /\ Up(p) /\ knows[<<n, p>>][i].exists,
         NEW k \in Knowledge, k.exists => knows[<<n, p>>][i].exists,
         net' = net \cup {Message(type, n, p, {i}, content[n][i].obj, content[n][i].version, ack)},
         knows' = [knows EXCEPT ![<<n, p>>][i] = k],
         UNCHANGED <<object, content, zombie, owner, reserved, mine, orders, acks, others, story>>
  PROVE  Kept
<1> USE DEF NetInv
<1> DEFINE sent == Message(type, n, p, {i}, content[n][i].obj, content[n][i].version, ack)
<1>1. /\ UNCHANGED <<object, content, zombie, owner, reserved, mine, destroyer, doomed, local,
                     acks, connected, ready, accused, budget, maker, had, ended>>
      /\ net' = net \cup {sent}
  BY DEF orders, others, story
<1>2. n \in Node /\ p \in Node
  BY Links
<1>3. content[n][i].obj = object[n][i] /\ content[n][i].obj \in Object /\ content[n][i].version \in Nat
  BY <1>2 DEF RightContent, TypeOK
<1>4. /\ WireOK(sent) /\ sent.from = n /\ sent.to = p /\ sent.type = type /\ sent.ids = {i}
      /\ sent.obj = content[n][i].obj
  <2> DEFINE o == content[n][i].obj
             v == content[n][i].version
  <2>1. o \in Object /\ v \in Nat /\ sent = Message(type, n, p, {i}, o, v, ack)
    BY <1>3
  <2> HIDE DEF sent, o, v
  <2>2. WireOK(sent) /\ sent.from = n /\ sent.to = p /\ sent.type = type /\ sent.ids = {i}
        /\ sent.obj = o
    BY ONLY <2>1, <<n, p>> \in Link, i \in Id, ack \in BOOLEAN,
            type \in {"create", "sync"}, type = "create" => ack, Links
       DEF Message, WireOK, Wire
  <2> QED BY <2>2 DEF o
<1> HIDE DEF sent
<1>5. /\ knows' \in [Link -> [Id -> Knowledge]]
      /\ \A l \in Link, j \in Id : knows'[l][j].exists => knows[l][j].exists
  BY DEF TypeOK
<1>6. TypeOK' /\ HistoryOK'
  BY <1>1, <1>5 DEF TypeOK, HistoryOK
<1>7. WiresOK'
  BY <1>1, <1>4 DEF WiresOK, WireOK, Wire, Sent
<1>8. MessagesFollow
  <2>1. ASSUME sent \notin Sent PROVE FromNode(sent)
    <3>1. sent \notin acks'
      BY <1>1, <2>1 DEF Sent
    <3> QED BY <1>4, <3>1 DEF FromNode
  <2> QED BY <1>1, <2>1 DEF Sent, MessagesFollow
<1>9. KnowsFollows
  BY <1>1, <1>5, SameKnows
<1> QED BY <1>1, <1>6, <1>7, <1>8, <1>9, SameOrders, SameIds, SameObjects, SameHad, SameTables
        DEF Kept, Typed, Follows

LEMMA SendCreationKeeps ==
  ASSUME NetInv, NEW n, NEW p, <<n, p>> \in Link, NEW i \in Id, SendCreation(n, p, i)
  PROVE  Kept
<1> DEFINE k == [knows[<<n, p>>][i] EXCEPT !.req = FALSE, !.pending = 1]
<1>1. k \in Knowledge /\ k.exists = knows[<<n, p>>][i].exists
  <2>1. knows[<<n, p>>][i] \in Knowledge
    BY DEF NetInv, TypeOK
  <2> QED BY <2>1 DEF Knowledge
<1>2. /\ object[n][i] # None /\ knows' = [knows EXCEPT ![<<n, p>>][i] = k]
      /\ net' = net \cup
           {Message("create", n, p, {i}, content[n][i].obj, content[n][i].version, TRUE)}
      /\ UNCHANGED <<object, content, zombie, owner, reserved, mine, orders, acks, others, story>>
  BY DEF SendCreation, Listed
<1> HIDE DEF k
<1> QED BY <1>1, <1>2, SendKeeps

LEMMA SendSyncKeeps ==
  ASSUME NetInv, NEW n, NEW p, <<n, p>> \in Link, NEW i \in Id, SendSync(n, p, i)
  PROVE  Kept
<1> DEFINE k == knows[<<n, p>>][i]
<1>1. k \in Knowledge
  BY DEF NetInv, TypeOK
<1>2. /\ object[n][i] # None /\ knows' = [knows EXCEPT ![<<n, p>>][i] = Synced(k)]
      /\ net' = net \cup
           {Message("sync", n, p, {i}, content[n][i].obj, content[n][i].version, k.ack)}
      /\ Up(n) /\ Up(p) /\ k.exists
      /\ UNCHANGED <<object, content, zombie, owner, reserved, mine, orders, acks, others, story>>
  BY DEF SendSync, Listed, MaySend
<1>3. Synced(k) \in Knowledge /\ Synced(k).exists = k.exists /\ k.ack \in BOOLEAN
  BY <1>1, SentAndAcknowledged
<1> QED BY <1>2, <1>3, SendKeeps

LEMMA LoseKeeps ==
  ASSUME NetInv, NEW m, Lose(m)
  PROVE  Kept
<1> USE DEF NetInv
<1>1. /\ UNCHANGED <<object, content, knows, zombie, owner, reserved, mine, destroyer, doomed,
                     local, acks, connected, ready, accused, budget, maker, had, ended>>
      /\ net' = net \ {m}
  BY DEF Lose, tables, orders, others, story
<1>2. TypeOK' /\ HistoryOK'
  BY <1>1 DEF TypeOK, HistoryOK
<1>3. WiresOK' /\ MessagesFollow
  BY <1>1, FewerMessages DEF Sent
<1>4. KnowsFollows
  BY <1>1, SameKnows
<1> QED BY <1>1, <1>2, <1>3, <1>4, SameOrders, SameIds, SameObjects, SameHad, SameTables
        DEF Kept, Typed, Follows

LEMMA ReceiveAckKeeps ==
  ASSUME NetInv, NEW m \in acks, ReceiveAck(m)
  PROVE  Kept
<1> USE DEF NetInv
<1> DEFINE l == <<m.from, m.to>>
           K(j) == IF m.type = "destroy" \/ j \notin m.ids \/ object[m.from][j] = None
                   THEN knows[l][j] ELSE Acknowledged(knows[l][j])
<1>1. /\ UNCHANGED <<object, content, zombie, owner, reserved, mine, destroyer, doomed, local,
                     net, connected, ready, accused, budget, maker, had, ended>>
      /\ acks' = acks \ {m}
      /\ knows' = [knows EXCEPT ![l] = [j \in Id |-> K(j)]]
  BY DEF ReceiveAck, orders, others, story
<1>2. l \in Link /\ m.from \in Node /\ m.to \in Node /\ WireOK(m) /\ m.ack /\ m \in Sent
  BY Links DEF WiresOK, WireOK, Sent
<1>3. ASSUME NEW j \in Id
      PROVE  /\ K(j) \in Knowledge
             /\ K(j).exists /\ object[m.from][j] # None =>
                  knows[l][j].exists \/ object[m.from][j] \in had[m.to]
  <2>1. knows[l][j] \in Knowledge
    BY <1>2 DEF TypeOK
  <2>2. CASE m.type = "destroy" \/ j \notin m.ids \/ object[m.from][j] = None
    <3>1. K(j) = knows[l][j]
      BY <2>2
    <3> HIDE DEF K
    <3> QED BY <2>1, <3>1
  <2>3. CASE ~(m.type = "destroy" \/ j \notin m.ids \/ object[m.from][j] = None)
    <3>1. K(j) = Acknowledged(knows[l][j])
      BY <2>3
    <3> HIDE DEF K
    <3>2. K(j) \in Knowledge
      BY <2>1, <3>1, SentAndAcknowledged
    <3>3. PICK cur \in [Id -> 0 .. Len(maker)] : Last(cur)
      BY DEF OneGeneration
    <3>4. m.obj = cur[j]
      BY <1>2, <2>3, <3>3 DEF Last
    <3>5. object[m.from][j] = cur[j]
      BY <1>2, <2>3, <3>3 DEF Last
    <3>6. m.obj \in had[m.to]
      BY <1>2, <2>3 DEF HadAll
    <3> QED BY <3>2, <3>4, <3>5, <3>6
  <2> QED BY <2>2, <2>3
<1>4. \A k \in Link, j \in Id : knows'[k][j] = IF k = l THEN K(j) ELSE knows[k][j]
  BY <1>1, <1>2 DEF TypeOK
<1>5. knows' \in [Link -> [Id -> Knowledge]]
  <2> HIDE DEF K, l
  <2> QED BY <1>1, <1>2, <1>3 DEF TypeOK
<1>6. l[1] = m.from /\ l[2] = m.to
  OBVIOUS
<1> HIDE DEF K, l
<1>7. TypeOK' /\ HistoryOK'
  BY <1>1, <1>5 DEF TypeOK, HistoryOK
<1>8. WiresOK' /\ MessagesFollow
  <2>1. acks' \subseteq acks /\ Sent' \subseteq Sent
    BY <1>1 DEF Sent
  <2> QED BY <2>1, FewerMessages
<1>9. KnowsFollows
  <2> SUFFICES ASSUME NEW k \in Link, NEW j \in Id, knows'[k][j].exists, object[k[1]][j] # None
               PROVE  object[k[1]][j] \in had[k[2]] \/ knows[k][j].exists
    BY <1>1 DEF KnowsFollows, Up
  <2> QED BY <1>3, <1>4, <1>6
<1> QED BY <1>1, <1>7, <1>8, <1>9, SameOrders, SameIds, SameObjects, SameHad, SameTables
        DEF Kept, Typed, Follows

(* The objects of a client that leaves are gone, and so is all that is     *)
(* known by it or of it.                                                   *)
LeftBehind(c, gone) ==
  /\ \A n \in Node, i \in Id :
       /\ object'[n][i] = IF n = c \/ (n = Server /\ i \in gone) THEN None ELSE object[n][i]
       /\ content'[n][i] = IF n = c \/ (n = Server /\ i \in gone) THEN Nothing ELSE content[n][i]
  /\ \A n \in Node : zombie'[n] = IF n = c THEN {} ELSE zombie[n]
  /\ \A n \in Node : had'[n] = IF n = c THEN {} ELSE had[n]
  /\ \A p \in Client : reserved'[p] = IF p = c THEN {} ELSE reserved[p]
  /\ \A i \in Id : owner'[i] = IF i \in gone THEN NoNode
                               ELSE IF owner[i] = c THEN Server ELSE owner[i]

LEMMA LeaveServerTables ==
  ASSUME NetInv, NEW c \in Client, LeaveServer(c)
  PROVE  /\ object' \in [Node -> [Id -> Object \cup {None}]]
         /\ content' \in [Node -> [Id -> [obj : Object \cup {None}, version : Nat]]]
         /\ zombie' \in [Node -> SUBSET Id] /\ had' \in [Node -> SUBSET Object]
         /\ reserved' \in [Client -> SUBSET Id] /\ owner' \in [Id -> Node \cup {NoNode}]
         /\ mine' \in [Node -> SUBSET Object] /\ local' \in [Node -> SUBSET Id]
         /\ LeftBehind(c, OwnedBy(c))
<1> USE DEF NetInv
<1> DEFINE gone == OwnedBy(c)
<1>1. c \in Node /\ c # Server /\ Server \in Node
  BY Links
<1>2. Nothing \in [obj : Object \cup {None}, version : Nat]
  BY DEF Nothing
<1>3. gone \subseteq Id
  BY DEF OwnedBy, Present
<1>4. /\ object' = [object EXCEPT ![c] = [i \in Id |-> None],
                        ![Server] = [i \in Id |-> IF i \in gone THEN None ELSE @[i]]]
      /\ content' = [content EXCEPT ![c] = [i \in Id |-> Nothing],
                        ![Server] = [i \in Id |-> IF i \in gone THEN Nothing ELSE @[i]]]
      /\ zombie' = [zombie EXCEPT ![c] = {}] /\ reserved' = [reserved EXCEPT ![c] = {}]
      /\ mine' = [mine EXCEPT ![c] = {}] /\ local' = [local EXCEPT ![c] = {}]
      /\ had' = [had EXCEPT ![c] = {}]
      /\ owner' = [i \in Id |-> IF i \in gone THEN NoNode
                                ELSE IF owner[i] = c THEN Server ELSE owner[i]]
  BY DEF LeaveServer
<1> HIDE DEF gone
<1>5. /\ object' \in [Node -> [Id -> Object \cup {None}]]
      /\ \A n \in Node, i \in Id :
           object'[n][i] = IF n = c \/ (n = Server /\ i \in gone) THEN None ELSE object[n][i]
  BY <1>1, <1>4 DEF TypeOK
<1>6. /\ content' \in [Node -> [Id -> [obj : Object \cup {None}, version : Nat]]]
      /\ \A n \in Node, i \in Id :
           content'[n][i] = IF n = c \/ (n = Server /\ i \in gone) THEN Nothing ELSE content[n][i]
  BY <1>1, <1>2, <1>4 DEF TypeOK
<1>7. /\ zombie' \in [Node -> SUBSET Id] /\ had' \in [Node -> SUBSET Object]
      /\ reserved' \in [Client -> SUBSET Id]
      /\ mine' \in [Node -> SUBSET Object] /\ local' \in [Node -> SUBSET Id]
  BY <1>4 DEF TypeOK, HistoryOK
<1>8. /\ owner' \in [Id -> Node \cup {NoNode}]
      /\ \A i \in Id : owner'[i] = IF i \in gone THEN NoNode
                                   ELSE IF owner[i] = c THEN Server ELSE owner[i]
  BY <1>1, <1>4 DEF TypeOK
<1>9. /\ \A n \in Node : zombie'[n] = IF n = c THEN {} ELSE zombie[n]
      /\ \A n \in Node : had'[n] = IF n = c THEN {} ELSE had[n]
      /\ \A p \in Client : reserved'[p] = IF p = c THEN {} ELSE reserved[p]
  BY <1>4 DEF TypeOK, HistoryOK
<1>10. LeftBehind(c, gone)
  BY <1>5, <1>6, <1>8, <1>9 DEF LeftBehind
<1> QED BY <1>5, <1>6, <1>7, <1>8, <1>10 DEF gone

LEMMA OwnedByClient ==
  ASSUME NetInv, NEW c \in Client, NEW i \in OwnedBy(c)
  PROVE  i \in Id /\ object[Server][i] # None /\ i \notin zombie[Server]
BY Links DEF OwnedBy, Present, OwnerOf

LEMMA LeaveServerKeeps ==
  ASSUME NetInv, NEW c \in Client, LeaveServer(c),
         doomed' \in [Node -> SUBSET [id : Id, from : Node]],
         \A n \in Node : doomed'[n] \subseteq doomed[n],
         accused' \subseteq Client
  PROVE  Kept
<1> USE DEF NetInv
<1> DEFINE gone == OwnedBy(c)
           dead == Destroyed(Server, gone)
<1>1. c \in Node /\ c # Server /\ Server \in Node
  BY Links
<1>2. /\ knows' = BroadcastExistence(c, Present \ gone)
      /\ destroyer' = [l \in Link |-> IF c \in {l[1], l[2]} THEN {} ELSE dead[l]]
      /\ connected' = connected \ {c} /\ ready' = ready \ {c}
      /\ net' = Without(net, c) /\ acks' = Without(acks, c)
      /\ UNCHANGED <<budget, maker>>
  BY DEF LeaveServer
<1>3. LeftBehind(c, gone)
  BY LeaveServerTables
<1>4. \A i \in gone : i \in Id /\ object[Server][i] # None /\ i \notin zombie[Server]
  BY OwnedByClient
<1>5. /\ dead \in [Link -> SUBSET Id]
      /\ \A l \in Link : \A i \in dead[l] : i \in destroyer[l] \/ (l[1] = Server /\ i \in gone)
  <2> HIDE DEF gone
  <2>1. TypeOK /\ gone \in SUBSET Id
    BY <1>4
  <2> QED BY ONLY <1>1, <2>1, DestroyedTyped
<1>6. /\ knows' \in [Link -> [Id -> Knowledge]]
      /\ \A l \in Link, i \in Id :
           knows'[l][i].exists => knows[l][i].exists /\ c \notin {l[1], l[2]}
  <2>1. TypeOK
    OBVIOUS
  <2> QED BY ONLY <1>2, <2>1, c \in Client, BroadcastTyped
<1> HIDE DEF gone, dead
<1>7. TypeOK'
  <2>1. destroyer' \in [Link -> SUBSET Id]
    BY <1>2, <1>5
  <2>2. ready' \subseteq connected' /\ connected' \subseteq Client
    BY <1>2 DEF TypeOK
  <2> QED BY <1>6, <2>1, <2>2, LeaveServerTables DEF TypeOK
<1>8. HistoryOK'
  BY <1>2, LeaveServerTables DEF HistoryOK
<1>9. WiresOK' /\ MessagesFollow
  <2>1. acks' \subseteq acks /\ Sent' \subseteq Sent
    BY <1>2 DEF Sent, Without
  <2> QED BY <2>1, FewerMessages
<1>10. OrdersFollow
  BY <1>2, <1>4, <1>5 DEF OrdersFollow
<1>11. ObjectsFollow
  BY <1>2, <1>3 DEF LeftBehind, ObjectsFollow
<1>12. IdsFollow
  <2> SUFFICES ASSUME NEW p \in Client, NEW i \in reserved'[p]
               PROVE  owner'[i] = p /\ i \in reserved[p]
    BY DEF IdsFollow
  <2>1. p # c /\ i \in reserved[p]
    BY <1>3 DEF LeftBehind
  <2>2. i \in Id /\ owner[i] = p /\ Fresh(i)
    BY <2>1 DEF TypeOK, ReservedAreFresh
  <2>3. i \notin gone
    BY <1>1, <1>4, <2>2 DEF Fresh
  <2> QED BY <1>3, <2>1, <2>2, <2>3 DEF LeftBehind
<1>13. HadFollows
  <2>1. Gone(c)
    BY <1>1, <1>2, <1>3 DEF LeftBehind, Gone, Sent, Without
  <2> QED BY <1>3, <2>1 DEF LeftBehind, HadFollows
<1>14. KnowsFollows
  <2> SUFFICES ASSUME NEW l \in Link, NEW i \in Id, Up(l[1])', Up(l[2])',
                      knows'[l][i].exists, object'[l[1]][i] # None
               PROVE  /\ Up(l[1]) /\ Up(l[2]) /\ knows[l][i].exists
                      /\ object'[l[1]][i] = object[l[1]][i]
    BY DEF KnowsFollows
  <2>1. Up(l[1]) /\ Up(l[2])
    BY <1>2 DEF Up
  <2>2. l[1] \in Node
    BY Links
  <2> QED BY <1>3, <1>6, <2>1, <2>2 DEF LeftBehind
<1>15. RightContent'
  BY <1>3 DEF LeftBehind, RightContent, Nothing
<1>16. ZombiesAreThere'
  <2> SUFFICES ASSUME NEW n \in Node, NEW i \in zombie'[n]
               PROVE  object'[n][i] # None
    BY DEF ZombiesAreThere
  <2>1. n # c /\ i \in zombie[n]
    BY <1>3 DEF LeftBehind
  <2>2. i \in Id /\ object[n][i] # None
    BY <2>1 DEF TypeOK, ZombiesAreThere
  <2> QED BY <1>3, <1>4, <2>1, <2>2 DEF LeftBehind
<1> QED BY <1>7, <1>8, <1>9, <1>10, <1>11, <1>12, <1>13, <1>14, <1>15, <1>16
        DEF Kept, Typed, Follows

LEMMA LogoutKeeps ==
  ASSUME NetInv, NEW c \in Client, Logout(c)
  PROVE  Kept
<1>1. LeaveServer(c) /\ doomed' = [doomed EXCEPT ![c] = {}] /\ accused' = accused
  BY DEF Logout
<1>2. /\ doomed' \in [Node -> SUBSET [id : Id, from : Node]]
      /\ \A n \in Node : doomed'[n] \subseteq doomed[n]
      /\ accused' \subseteq Client
  BY <1>1 DEF NetInv, TypeOK
<1> QED BY <1>1, <1>2, LeaveServerKeeps

LEMMA CheaterKeeps ==
  ASSUME NetInv, NEW c \in Client, NEW ordered, Cheater(c, ordered)
  PROVE  Kept
<1>1. /\ LeaveServer(c) /\ accused' = accused \cup {c}
      /\ doomed' = [doomed EXCEPT ![c] = {}, ![Server] = @ \ ordered]
  BY DEF Cheater
<1>2. doomed \in [Node -> SUBSET [id : Id, from : Node]] /\ accused \subseteq Client
  BY DEF NetInv, TypeOK
<1>3. c \in Node /\ c # Server /\ Server \in Node
  BY Links
<1>4. \A n \in Node : doomed'[n] = IF n = c THEN {} ELSE IF n = Server THEN doomed[n] \ ordered
                                  ELSE doomed[n]
  BY <1>1, <1>2, <1>3
<1>5. doomed' = [n \in Node |-> doomed'[n]]
  BY <1>1, <1>2
<1>6. /\ doomed' \in [Node -> SUBSET [id : Id, from : Node]]
      /\ \A n \in Node : doomed'[n] \subseteq doomed[n]
  BY <1>2, <1>4, <1>5
<1>7. accused' \subseteq Client
  BY <1>1, <1>2
<1> QED BY <1>1, <1>6, <1>7, LeaveServerKeeps

LEMMA HandledFollows ==
  ASSUME WiresOK, NEW m \in net, Handled(m), m.type = "create" => m.obj \in had'[m.to]
  PROVE  WiresOK' /\ MessagesFollow
<1>1. net' = net \ {m} /\ acks' = IF m.ack THEN acks \cup {m} ELSE acks
  BY DEF Handled
<1>2. Sent' \subseteq Sent
  BY <1>1 DEF Sent
<1>3. \A q \in acks' : q \in acks \/ (q = m /\ m.ack)
  BY <1>1
<1>4. WiresOK'
  BY <1>2, <1>3 DEF WiresOK, WireOK, Wire
<1> QED BY <1>2, <1>3, <1>4 DEF MessagesFollow

LEMMA IntroducedTyped ==
  ASSUME TypeOK, NEW n \in Node, NEW p, NEW i \in Id
  PROVE  /\ Introduced(n, p, i) \in [Link -> [Id -> Knowledge]]
         /\ \A l \in Link, j \in Id :
              Introduced(n, p, i)[l][j].exists =>
                \/ knows[l][j].exists /\ (l[1] # n \/ j # i)
                \/ l[1] = n /\ l[2] = p /\ j = i
<1> DEFINE I == Introduced(n, p, i)
           k(l) == IF l[2] = p THEN [Unknown EXCEPT !.exists = TRUE]
                   ELSE IF n = Server THEN Reset ELSE Unknown
<1>1. ASSUME NEW l \in Link
      PROVE  /\ I[l] \in [Id -> Knowledge]
             /\ \A j \in Id : I[l][j].exists =>
                  \/ knows[l][j].exists /\ (l[1] # n \/ j # i)
                  \/ l[1] = n /\ l[2] = p /\ j = i
  <2>1. knows[l] \in [Id -> Knowledge]
    BY DEF TypeOK
  <2>2. I[l] = IF l[1] # n THEN knows[l] ELSE [knows[l] EXCEPT ![i] = k(l)]
    BY DEF Introduced
  <2>3. k(l) \in Knowledge /\ (k(l).exists => l[2] = p)
    <3>1. CASE l[2] = p
      BY <3>1, KnowledgeOf
    <3>2. CASE l[2] # p
      <4>1. k(l) \in {Reset, Unknown}
        BY <3>2
      <4> HIDE DEF k
      <4> QED BY <3>2, <4>1, KnowledgeOf
    <3> QED BY <3>1, <3>2
  <2> HIDE DEF I, k
  <2> QED BY <2>1, <2>2, <2>3
<1> QED BY <1>1 DEF Introduced

LEMMA ReceiveCreateKeeps ==
  ASSUME NetInv, NEW m \in net, ReceiveCreate(m)
  PROVE  Kept
<1> USE DEF NetInv
<1> DEFINE n == m.to
<1>1. /\ m \in Sent /\ WireOK(m) /\ m.type = "create" /\ m.ack
      /\ n \in Node /\ m.from \in Node /\ <<m.from, n>> \in Link /\ m.obj \in Object
      /\ m.version \in Nat
  BY DEF ReceiveCreate, WiresOK, WireOK, Wire, Sent
<1>2. PICK i \in Id : m.ids = {i}
  BY <1>1 DEF WireOK
<1>3. (CHOOSE j \in m.ids : TRUE) = i
  BY <1>2
<1> DEFINE taken == object[n][i] # None /\ i \notin zombie[n]
<1>4. CASE n = Server /\ Cheater(m.from, {})
  <2>1. m.from \in Client
    BY <1>1, <1>4, Links DEF Node
  <2> QED BY <1>4, <2>1, CheaterKeeps
<1>5. CASE /\ Handled(m)
           /\ IF taken
              THEN UNCHANGED <<tables, had>>
              ELSE /\ object' = [object EXCEPT ![n][i] = m.obj]
                   /\ content' = [content EXCEPT ![n][i] = [obj |-> m.obj, version |-> m.version]]
                   /\ knows' = Introduced(n, m.from, i)
                   /\ zombie' = [zombie EXCEPT ![n] = @ \ {i}]
                   /\ had' = [had EXCEPT ![n] = @ \cup {m.obj}]
                   /\ UNCHANGED <<owner, reserved, mine>>
           /\ UNCHANGED <<orders, others, maker, ended>>
  <2>1. UNCHANGED <<owner, reserved, mine, destroyer, doomed, local, connected, ready, budget,
                    accused, maker, ended>>
    BY <1>5 DEF tables, orders, others
  <2>2. PICK cur \in [Id -> 0 .. Len(maker)] : Last(cur)
    BY DEF OneGeneration
  <2>3. m.obj = cur[i]
    BY <1>1, <1>2, <2>2 DEF Last
  <2>4. CASE taken
    <3>1. UNCHANGED <<object, content, knows, zombie, had>>
      BY <1>5, <2>4 DEF tables
    <3>2. m.obj \in had'[n]
      <4>1. object[n][i] = cur[i]
        BY <1>1, <2>2, <2>4 DEF Last
      <4> QED BY <1>1, <2>3, <2>4, <3>1, <4>1 DEF HadAll
    <3>3. WiresOK' /\ MessagesFollow
      BY <1>5, <3>2, HandledFollows
    <3>4. TypeOK' /\ HistoryOK' /\ KnowsFollows
      BY <2>1, <3>1, SameKnows DEF TypeOK, HistoryOK
    <3> QED BY <2>1, <3>1, <3>3, <3>4, SameOrders, SameObjects, SameIds, SameHad, SameTables
            DEF Kept, Typed, Follows
  <2>5. CASE ~taken
    <3>1. /\ object' = [object EXCEPT ![n][i] = m.obj]
          /\ content' = [content EXCEPT ![n][i] = [obj |-> m.obj, version |-> m.version]]
          /\ knows' = Introduced(n, m.from, i)
          /\ zombie' = [zombie EXCEPT ![n] = @ \ {i}]
          /\ had' = [had EXCEPT ![n] = @ \cup {m.obj}]
      BY <1>5, <2>5
    <3>2. /\ knows' \in [Link -> [Id -> Knowledge]]
          /\ \A l \in Link, j \in Id :
               knows'[l][j].exists =>
                 \/ knows[l][j].exists /\ (l[1] # n \/ j # i)
                 \/ l[1] = n /\ l[2] = m.from /\ j = i
      <4>1. TypeOK
        OBVIOUS
      <4> QED BY ONLY <1>1, <3>1, <4>1, i \in Id, IntroducedTyped
    <3>3. /\ object' \in [Node -> [Id -> Object \cup {None}]]
          /\ \A p \in Node, j \in Id :
               object'[p][j] = IF p = n /\ j = i THEN m.obj ELSE object[p][j]
      BY <1>1, <3>1 DEF TypeOK
    <3>4. /\ content' \in [Node -> [Id -> [obj : Object \cup {None}, version : Nat]]]
          /\ \A p \in Node, j \in Id :
               content'[p][j].obj = IF p = n /\ j = i THEN m.obj ELSE content[p][j].obj
      <4> DEFINE r == [obj |-> m.obj, version |-> m.version]
      <4>1. r \in [obj : Object \cup {None}, version : Nat] /\ r.obj = m.obj
        BY <1>1
      <4>2. content' = [content EXCEPT ![n][i] = r]
        BY <3>1
      <4> HIDE DEF r
      <4> QED BY <1>1, <4>1, <4>2 DEF TypeOK
    <3>5. /\ zombie' \in [Node -> SUBSET Id]
          /\ \A p \in Node : zombie'[p] = IF p = n THEN zombie[p] \ {i} ELSE zombie[p]
      BY <1>1, <3>1 DEF TypeOK
    <3>6. /\ had' \in [Node -> SUBSET Object]
          /\ \A p \in Node : had[p] \subseteq had'[p]
          /\ m.obj \in had'[n]
      BY <1>1, <3>1 DEF TypeOK, HistoryOK
    <3>7. TypeOK' /\ HistoryOK'
      BY <2>1, <3>2, <3>3, <3>4, <3>5, <3>6 DEF TypeOK, HistoryOK
    <3>8. WiresOK' /\ MessagesFollow
      BY <1>5, <3>6, HandledFollows
    <3>9. ObjectsFollow
      <4> SUFFICES ASSUME NEW p \in Node, NEW j \in Id, object'[p][j] # object[p][j]
                   PROVE  /\ object'[p][j] \in had'[p]
                          /\ \E q \in net : /\ q.type = "create" /\ j \in q.ids
                                            /\ q.obj = object'[p][j]
        BY <2>1 DEF ObjectsFollow
      <4>1. p = n /\ j = i /\ object'[p][j] = m.obj
        BY <3>3
      <4> QED BY <1>1, <1>2, <3>6, <4>1
    <3>10. HadFollows
      BY <3>6 DEF HadFollows
    <3>11. KnowsFollows
      <4> SUFFICES ASSUME NEW l \in Link, NEW j \in Id, knows'[l][j].exists,
                          object'[l[1]][j] # None
                   PROVE  \/ object'[l[1]][j] \in had'[l[2]]
                          \/ knows[l][j].exists /\ object'[l[1]][j] = object[l[1]][j]
        BY <2>1 DEF KnowsFollows, Up
      <4>1. CASE knows[l][j].exists /\ (l[1] # n \/ j # i)
        BY <3>3, <4>1, Links
      <4>2. CASE l[1] = n /\ l[2] = m.from /\ j = i
        <5>1. object'[l[1]][j] = m.obj
          BY <1>1, <3>3, <4>2
        <5>2. m.obj \in had[m.from]
          BY <1>1 DEF HadAll
        <5> QED BY <1>1, <3>6, <4>2, <5>1, <5>2
      <4> QED BY <3>2, <4>1, <4>2
    <3>12. RightContent'
      <4> SUFFICES ASSUME NEW p \in Node, NEW j \in Id
                   PROVE  content'[p][j].obj = object'[p][j]
        BY DEF RightContent
      <4>1. content[p][j].obj = object[p][j]
        BY DEF RightContent
      <4> QED BY <3>3, <3>4, <4>1
    <3>13. ZombiesAreThere'
      <4> SUFFICES ASSUME NEW p \in Node, NEW j \in zombie'[p]
                   PROVE  object'[p][j] # None
        BY DEF ZombiesAreThere
      <4>1. j \in zombie[p] /\ ~(p = n /\ j = i)
        BY <3>5
      <4>2. j \in Id /\ object[p][j] # None
        BY <4>1 DEF TypeOK, ZombiesAreThere
      <4> QED BY <3>3, <4>1, <4>2
    <3> QED BY <2>1, <3>7, <3>8, <3>9, <3>10, <3>11, <3>12, <3>13, SameOrders, SameIds
            DEF Kept, Typed, Follows
  <2> QED BY <2>4, <2>5
<1> QED BY <1>3, <1>4, <1>5 DEF ReceiveCreate

LEMMA ReceiveSyncKeeps ==
  ASSUME NetInv, NEW m \in net, ReceiveSync(m)
  PROVE  Kept
<1> USE DEF NetInv
<1> DEFINE n == m.to
<1>1. /\ m \in Sent /\ WireOK(m) /\ m.type = "sync"
      /\ n \in Node /\ m.from \in Node /\ <<m.from, n>> \in Link /\ m.obj \in Object
      /\ m.version \in Nat
  BY DEF ReceiveSync, WiresOK, WireOK, Wire, Sent
<1>2. PICK i \in Id : m.ids = {i}
  BY <1>1 DEF WireOK
<1>3. (CHOOSE j \in m.ids : TRUE) = i
  BY <1>2
<1> DEFINE new == object[n][i] # None /\ SyncIsNew(m, content[n][i])
<1>4. CASE n = Server /\ Cheater(m.from, {})
  <2>1. m.from \in Client
    BY <1>1, <1>4, Links DEF Node
  <2> QED BY <1>4, <2>1, CheaterKeeps
<1>5. CASE /\ Handled(m)
           /\ IF new
              THEN /\ content' = [content EXCEPT ![n][i] = [obj |-> m.obj, version |-> m.version]]
                   /\ knows' = IF n = Server
                               THEN RequestSync(n, i, Client \ {m.from}, TRUE)
                               ELSE knows
              ELSE UNCHANGED <<content, knows>>
           /\ UNCHANGED <<object, zombie, owner, reserved, mine, orders, others, story>>
  <2>1. UNCHANGED <<object, zombie, owner, reserved, mine, destroyer, doomed, local,
                    connected, ready, budget, accused, maker, had, ended>>
    BY <1>5 DEF orders, others, story
  <2>2. WiresOK' /\ MessagesFollow
    BY <1>1, <1>5, HandledFollows
  <2>3. HistoryOK'
    BY <2>1 DEF HistoryOK
  <2>4. CASE new
    <3>1. /\ knows' \in [Link -> [Id -> Knowledge]]
          /\ \A l \in Link, j \in Id : knows'[l][j].exists => knows[l][j].exists
      <4>1. CASE n = Server
        <5>1. knows' = RequestSync(n, i, Client \ {m.from}, TRUE)
          BY <1>5, <2>4, <4>1
        <5> HIDE DEF n
        <5>2. PICK ack : ack = TRUE
          OBVIOUS
        <5>3. knows' = RequestSync(n, i, Client \ {m.from}, ack)
          BY <5>1, <5>2, Zenon
        <5>4. TypeOK /\ ack \in BOOLEAN /\ n \in Node
          BY <1>1, <5>2
        <5> HIDE DEF n
        <5> QED BY ONLY <5>3, <5>4, i \in Id, RequestSyncTyped
      <4>2. CASE n # Server
        <5>1. knows' = knows
          BY <1>5, <2>4, <4>2
        <5> QED BY <5>1 DEF TypeOK
      <4> QED BY <4>1, <4>2
    <3>2. /\ content' \in [Node -> [Id -> [obj : Object \cup {None}, version : Nat]]]
          /\ \A p \in Node, j \in Id :
               content'[p][j].obj = IF p = n /\ j = i THEN m.obj ELSE content[p][j].obj
      <4> DEFINE r == [obj |-> m.obj, version |-> m.version]
      <4>1. r \in [obj : Object \cup {None}, version : Nat] /\ r.obj = m.obj
        BY <1>1
      <4>2. content' = [content EXCEPT ![n][i] = r]
        BY <1>5, <2>4
      <4> HIDE DEF r
      <4> QED BY <1>1, <4>1, <4>2 DEF TypeOK
    <3>3. m.obj = object[n][i]
      <4>1. PICK cur \in [Id -> 0 .. Len(maker)] : Last(cur)
        BY DEF OneGeneration
      <4>2. m.obj <= cur[i] /\ object[n][i] = cur[i]
        BY <1>1, <1>2, <2>4, <4>1 DEF Last
      <4>3. m.obj >= object[n][i]
        <5>1. content[n][i].obj = object[n][i]
          BY <1>1 DEF RightContent
        <5>2. m.obj > content[n][i].obj \/ m.obj = content[n][i].obj
          BY <2>4 DEF SyncIsNew
        <5>3. object[n][i] \in Nat
          BY <1>1 DEF TypeOK, Object, None
        <5> QED BY <1>1, <5>1, <5>2, <5>3 DEF Object
      <4>4. m.obj \in Nat /\ cur[i] \in Nat
        BY <1>1 DEF Object, HistoryOK
      <4> QED BY <4>2, <4>3, <4>4
    <3>4. RightContent'
      <4> SUFFICES ASSUME NEW p \in Node, NEW j \in Id
                   PROVE  content'[p][j].obj = object'[p][j]
        BY DEF RightContent
      <4>1. content[p][j].obj = object[p][j]
        BY DEF RightContent
      <4> QED BY <2>1, <3>2, <3>3, <4>1
    <3>5. ZombiesAreThere' /\ TypeOK' /\ KnowsFollows
      BY <2>1, <3>1, <3>2, SameKnows DEF TypeOK, ZombiesAreThere
    <3> QED BY <2>1, <2>2, <2>3, <3>4, <3>5, SameOrders, SameObjects, SameIds, SameHad
            DEF Kept, Typed, Follows
  <2>5. CASE ~new
    <3>1. UNCHANGED <<content, knows>>
      BY <1>5, <2>5
    <3>2. TypeOK' /\ KnowsFollows
      BY <2>1, <3>1, SameKnows DEF TypeOK
    <3> QED BY <2>1, <2>2, <2>3, <3>1, <3>2, SameOrders, SameObjects, SameIds, SameHad, SameTables
            DEF Kept, Typed, Follows
  <2> QED BY <2>4, <2>5
<1> QED BY <1>3, <1>4, <1>5 DEF ReceiveSync

LEMMA TakeOverTyped ==
  ASSUME TypeOK, NEW ids \in SUBSET Id, \A i \in ids : object[Server][i] # None, TakeOver(ids)
  PROVE  /\ mine' \in [Node -> SUBSET Object]
         /\ content' \in [Node -> [Id -> [obj : Object \cup {None}, version : Nat]]]
         /\ \A n \in Node, i \in Id : content'[n][i].obj = content[n][i].obj
         /\ knows' \in [Link -> [Id -> Knowledge]]
         /\ \A l \in Link, i \in Id : /\ knows'[l][i].exists = knows[l][i].exists
                                    /\ knows'[l][i].pending = knows[l][i].pending
<1>1. mine' \in [Node -> SUBSET Object]
  BY Links DEF TypeOK, TakeOver
<1>2. /\ content' \in [Node -> [Id -> [obj : Object \cup {None}, version : Nat]]]
      /\ \A n \in Node, i \in Id : content'[n][i].obj = content[n][i].obj
  <2> DEFINE c == [i \in Id |-> IF i \in ids THEN Changed(content[Server][i])
                                             ELSE content[Server][i]]
  <2>1. /\ c \in [Id -> [obj : Object \cup {None}, version : Nat]]
        /\ \A i \in Id : c[i].obj = content[Server][i].obj
    <3>1. \A i \in Id : content[Server][i] \in [obj : Object \cup {None}, version : Nat]
      BY Links DEF TypeOK
    <3> QED BY <3>1, ChangedRecord
  <2>2. content' = [content EXCEPT ![Server] = c]
    BY DEF TakeOver
  <2> HIDE DEF c
  <2> QED BY <2>1, <2>2 DEF TypeOK
<1>3. ASSUME NEW l \in Link, NEW i \in Id
      PROVE  /\ knows'[l][i] \in Knowledge
             /\ knows'[l][i].exists = knows[l][i].exists
             /\ knows'[l][i].pending = knows[l][i].pending
  <2>1. knows'[l][i] \in {Requested(knows[l][i], TRUE), knows[l][i]}
    BY DEF TakeOver, TypeOK
  <2>2. knows[l][i] \in Knowledge
    BY DEF TypeOK
  <2> QED BY <2>1, <2>2, KnowledgeOf
<1>4. knows' \in [Link -> [Id -> Knowledge]]
  <2>1. ASSUME NEW l \in Link PROVE knows'[l] \in [Id -> Knowledge]
    <3>1. knows'[l] = [i \in Id |-> knows'[l][i]]
      BY DEF TakeOver, TypeOK
    <3> QED BY <1>3, <3>1
  <2>2. knows' = [l \in Link |-> knows'[l]]
    BY DEF TakeOver
  <2> QED BY <2>1, <2>2
<1> QED BY <1>1, <1>2, <1>3, <1>4

LEMMA ReceiveDestroyKeeps ==
  ASSUME NetInv, NEW m \in net, ReceiveDestroy(m)
  PROVE  Kept
<1> USE DEF NetInv
<1> DEFINE n == m.to
           news == m.ids \ local[n]
           players == {i \in news : n = Server /\ object[n][i] # None /\ i \notin zombie[n]}
<1>1. /\ UNCHANGED <<object, zombie, owner, reserved, destroyer, connected, ready, accused,
                     budget, maker, had, ended>>
      /\ local' = [local EXCEPT ![n] = @ \ m.ids]
      /\ Handled(m) /\ m.type = "destroy"
  BY DEF ReceiveDestroy, others, story
<1>2. WireOK(m) /\ m.ack /\ n \in Node /\ m.from \in Node /\ m.ids \in SUBSET Id
  BY <1>1 DEF WiresOK, WireOK, Wire, Sent
<1>3. PICK kept \in SUBSET players :
        /\ TakeOver(kept)
        /\ doomed' = [doomed EXCEPT ![n] =
             @ \cup {[id |-> i, from |-> m.from] : i \in news \ kept}]
  BY DEF ReceiveDestroy
<1>4. kept \in SUBSET Id /\ \A i \in kept : object[Server][i] # None
  BY <1>2, <1>3
<1>5. /\ mine' \in [Node -> SUBSET Object]
      /\ content' \in [Node -> [Id -> [obj : Object \cup {None}, version : Nat]]]
      /\ \A p \in Node, i \in Id : content'[p][i].obj = content[p][i].obj
      /\ knows' \in [Link -> [Id -> Knowledge]]
      /\ \A l \in Link, i \in Id : knows'[l][i].exists = knows[l][i].exists
  <2>1. TypeOK
    OBVIOUS
  <2> QED BY ONLY <1>3, <1>4, <2>1, TakeOverTyped
<1> DEFINE fresh == {[id |-> i, from |-> m.from] : i \in news \ kept}
<1>6. fresh \in SUBSET [id : Id, from : Node] /\ \A d \in fresh : d.id \in m.ids /\ d.from = m.from
  BY <1>2
<1>7. doomed' = [doomed EXCEPT ![n] = @ \cup fresh]
  BY <1>3
<1> HIDE DEF fresh, players, news
<1>8. doomed' \in [Node -> SUBSET [id : Id, from : Node]]
  BY <1>6, <1>7 DEF TypeOK
<1>9. local' \in [Node -> SUBSET Id]
  BY <1>1 DEF TypeOK
<1>10. TypeOK' /\ HistoryOK'
  BY <1>1, <1>5, <1>8, <1>9 DEF TypeOK, HistoryOK
<1>11. WiresOK' /\ MessagesFollow
  BY <1>1, HandledFollows
<1>12. OrdersFollow
  BY <1>1, <1>2, <1>6, <1>7 DEF OrdersFollow, TypeOK
<1>13. RightContent' /\ ZombiesAreThere' /\ KnowsFollows
  BY <1>1, <1>5, SameKnows DEF RightContent, ZombiesAreThere
<1> QED BY <1>1, <1>10, <1>11, <1>12, <1>13, SameObjects, SameIds, SameHad
        DEF Kept, Typed, Follows

LEMMA DoDestroyKeeps ==
  ASSUME NetInv, NEW n \in Node, NEW d \in doomed[n], DoDestroy(n, d)
  PROVE  Kept
<1> USE DEF NetInv
<1> DEFINE i == d.id
<1>1. i \in Id /\ d.from \in Node /\ object[n][i] # None
  BY DEF TypeOK, DoDestroy
<1>2. CASE d.from \in connected /\ Cheater(d.from, {d})
  <2>1. d.from \in Client
    BY <1>2 DEF TypeOK
  <2> QED BY <1>2, <2>1, CheaterKeeps
<1>3. CASE /\ doomed' = [doomed EXCEPT ![n] = @ \ {d}]
           /\ UNCHANGED <<tables, destroyer, local, wires, others, story>>
  <2>1. UNCHANGED <<object, content, knows, zombie, owner, reserved, mine, destroyer, local,
                    net, acks, connected, ready, accused, budget, maker, had, ended>>
    BY <1>3 DEF tables, wires, others, story
  <2>2. doomed' \in [Node -> SUBSET [id : Id, from : Node]] /\ OrdersFollow
    BY <1>3, <2>1 DEF TypeOK, OrdersFollow
  <2>3. TypeOK' /\ HistoryOK'
    BY <2>1, <2>2 DEF TypeOK, HistoryOK
  <2>4. WiresOK' /\ MessagesFollow /\ KnowsFollows
    BY <2>1, SameWires, SameKnows DEF wires
  <2> QED BY <2>1, <2>2, <2>3, <2>4, SameObjects, SameIds, SameHad, SameTables
          DEF Kept, Typed, Follows
<1>4. CASE /\ doomed' = [doomed EXCEPT ![n] = @ \ {d}]
           /\ local' = [local EXCEPT ![n] = @ \ {i}]
           /\ IF i \in local[n] THEN UNCHANGED <<zombie, owner>>
              ELSE /\ zombie' = [zombie EXCEPT ![n] = @ \cup {i}]
                   /\ owner' = IF n = Server THEN [owner EXCEPT ![i] = Server] ELSE owner
           /\ UNCHANGED <<object, content, knows, reserved, mine, destroyer, wires, others, story>>
  <2>1. UNCHANGED <<object, content, knows, reserved, mine, destroyer,
                    net, acks, connected, ready, accused, budget, maker, had, ended>>
    BY <1>4 DEF wires, others, story
  <2>2. doomed' \in [Node -> SUBSET [id : Id, from : Node]] /\ OrdersFollow
    BY <1>4, <2>1 DEF TypeOK, OrdersFollow
  <2>3. local' \in [Node -> SUBSET Id]
    BY <1>4 DEF TypeOK
  <2>4. /\ zombie' \in [Node -> SUBSET Id]
        /\ \A p \in Node : zombie'[p] \subseteq IF p = n THEN zombie[p] \cup {i} ELSE zombie[p]
    <3>1. CASE zombie' = zombie
      BY <3>1 DEF TypeOK
    <3>2. CASE zombie' = [zombie EXCEPT ![n] = @ \cup {i}]
      BY <1>1, <3>2 DEF TypeOK
    <3> QED BY <1>4, <3>1, <3>2
  <2>5. /\ owner' \in [Id -> Node \cup {NoNode}]
        /\ \A j \in Id : j # i => owner'[j] = owner[j]
    <3>1. CASE owner' = owner
      BY <3>1 DEF TypeOK
    <3>2. CASE owner' = [owner EXCEPT ![i] = Server]
      BY <1>1, <3>2, Links DEF TypeOK
    <3> QED BY <1>4, <3>1, <3>2
  <2>6. TypeOK' /\ HistoryOK'
    BY <2>1, <2>2, <2>3, <2>4, <2>5 DEF TypeOK, HistoryOK
  <2>7. WiresOK' /\ MessagesFollow /\ KnowsFollows
    BY <2>1, SameWires, SameKnows DEF wires
  <2>8. RightContent'
    BY <2>1 DEF RightContent
  <2>9. ZombiesAreThere'
    BY <1>1, <2>1, <2>4 DEF ZombiesAreThere
  <2>10. IdsFollow
    <3> SUFFICES ASSUME NEW c \in Client, NEW j \in reserved[c]
                 PROVE  owner'[j] = c
      BY <2>1 DEF IdsFollow
    <3>1. j \in Id /\ owner[j] = c /\ Fresh(j)
      BY DEF TypeOK, ReservedAreFresh
    <3>2. j # i
      BY <1>1, <3>1 DEF Fresh
    <3> QED BY <2>5, <3>1, <3>2
  <2> QED BY <2>1, <2>2, <2>6, <2>7, <2>8, <2>9, <2>10, SameObjects, SameHad
          DEF Kept, Typed, Follows
<1> QED BY <1>2, <1>3, <1>4 DEF DoDestroy

LEMMA ExpireDestroyKeeps ==
  ASSUME NetInv, NEW n \in Node, NEW d \in doomed[n], ExpireDestroy(n, d)
  PROVE  Kept
<1> USE DEF NetInv
<1>1. /\ UNCHANGED <<object, content, knows, zombie, owner, reserved, mine, destroyer,
                     net, acks, connected, ready, accused, budget, maker, had, ended>>
      /\ doomed' = [doomed EXCEPT ![n] = @ \ {d}]
      /\ local' = [local EXCEPT ![n] = @ \ {d.id}]
  BY DEF ExpireDestroy, tables, wires, others, story
<1>2. doomed' \in [Node -> SUBSET [id : Id, from : Node]] /\ OrdersFollow
  BY <1>1 DEF TypeOK, OrdersFollow
<1>3. local' \in [Node -> SUBSET Id]
  BY <1>1 DEF TypeOK
<1>4. TypeOK' /\ HistoryOK'
  BY <1>1, <1>2, <1>3 DEF TypeOK, HistoryOK
<1>5. WiresOK' /\ MessagesFollow /\ KnowsFollows
  BY <1>1, SameWires, SameKnows DEF wires
<1> QED BY <1>1, <1>2, <1>4, <1>5, SameObjects, SameIds, SameHad, SameTables
        DEF Kept, Typed, Follows

(* A new object: nothing is left of the ones that had its id.              *)
LEMMA NewObject ==
  ASSUME NetInv, NEW n \in Node, NEW i \in Id, NEW o, o = Len(maker) + 1, MakeObject(n, i)
  PROVE  /\ Fresh(i) /\ owner[i] = n /\ (n # Server => n \in Client)
         /\ o \in Object /\ Len(maker) \in Nat /\ Len(maker') = o /\ o <= MaxMade
         /\ maker' \in Seq(Node)
         /\ object' \in [Node -> [Id -> Object \cup {None}]]
         /\ \A p \in Node, j \in Id : object'[p][j] = IF p = n /\ j = i THEN o ELSE object[p][j]
<1> USE DEF NetInv
<1>1. /\ object' = [object EXCEPT ![n][i] = o]
      /\ maker' = Append(maker, n)
      /\ o <= budget.made
  BY DEF MakeObject
<1>2. /\ n = Server => Free(i) /\ reserved' = reserved
      /\ n # Server => i \in reserved[n] /\ reserved' = [reserved EXCEPT ![n] = @ \ {i}]
  BY DEF MakeObject
<1>3. Fresh(i) /\ owner[i] = n /\ (n # Server => n \in Client)
  <2>1. CASE n = Server
    BY <1>2, <2>1 DEF Free
  <2>2. CASE n # Server
    <3>1. n \in Client
      BY <2>2 DEF Node
    <3> QED BY <1>2, <2>2, <3>1 DEF ReservedAreFresh
  <2> QED BY <2>1, <2>2
<1>4. o \in Object /\ Len(maker) \in Nat /\ Len(maker') = o /\ o <= MaxMade /\ maker' \in Seq(Node)
  <2>1. Len(maker) \in Nat /\ budget.made \in 1 .. MaxMade
    BY DEF HistoryOK, Object
  <2>2. o \in Nat /\ o >= 1 /\ o <= MaxMade
    BY <1>1, <2>1, BoundAssumption
  <2>3. Len(maker') = o /\ maker' \in Seq(Node)
    BY <1>1 DEF HistoryOK
  <2> QED BY <2>1, <2>2, <2>3, BoundAssumption DEF Object
<1>5. /\ object' \in [Node -> [Id -> Object \cup {None}]]
      /\ \A p \in Node, j \in Id : object'[p][j] = IF p = n /\ j = i THEN o ELSE object[p][j]
  BY <1>1, <1>4 DEF TypeOK
<1> QED BY <1>3, <1>4, <1>5

LEMMA NewObjectIsLast ==
  ASSUME NetInv, NEW n \in Node, NEW i \in Id, NEW o, o = Len(maker) + 1, MakeObject(n, i),
         NEW cur \in [Id -> 0 .. Len(maker)], Last(cur),
         NEW next, next = [cur EXCEPT ![i] = o]
  PROVE  next \in [Id -> 0 .. Len(maker')] /\ Last(next)'
<1> USE DEF NetInv
<1>1. UNCHANGED <<net, acks>>
  BY DEF MakeObject, wires
<1>2. /\ Fresh(i) /\ o \in Object /\ Len(maker) \in Nat /\ Len(maker') = o /\ maker' \in Seq(Node)
      /\ \A p \in Node, j \in Id : object'[p][j] = IF p = n /\ j = i THEN o ELSE object[p][j]
  BY NewObject
<1>3. next \in [Id -> 0 .. Len(maker')]
  <2>1. \A j \in Id : cur[j] \in Nat /\ cur[j] <= Len(maker)
    BY <1>2
  <2>2. \A j \in Id : next[j] \in 0 .. Len(maker')
    BY <1>2, <2>1
  <2> QED BY <2>2
<1>4. ASSUME NEW p \in Node, NEW j \in Id
      PROVE  object'[p][j] \in {None, next[j]}
  <2>1. CASE j = i
    <3>1. object[p][i] = None
      BY <1>2 DEF Fresh
    <3> QED BY <1>2, <2>1, <3>1
  <2>2. CASE j # i
    BY <1>2, <2>2 DEF Last
  <2> QED BY <2>1, <2>2
<1>5. ASSUME NEW m \in Sent, m.type # "destroy", NEW j \in m.ids
      PROVE  m.obj <= next[j] /\ (m.ack => m.obj = next[j])
  <2>1. m.obj \in Object /\ j \in Id
    BY <1>5 DEF WiresOK, WireOK, Wire
  <2>2. m.obj <= cur[j] /\ (m.ack => m.obj = cur[j])
    BY <1>5 DEF Last
  <2>3. CASE j = i
    <3>1. ~m.ack
      BY <1>2, <1>5, <2>3 DEF Fresh, Sent
    <3>2. m.obj <= o
      <4>1. cur[j] \in Nat /\ cur[j] <= Len(maker) /\ m.obj \in Nat
        BY <1>2, <2>1 DEF Object
      <4> QED BY <1>2, <2>2, <4>1
    <3> QED BY <2>3, <3>1, <3>2
  <2>4. CASE j # i
    BY <2>1, <2>2, <2>4
  <2> QED BY <2>3, <2>4
<1> QED BY <1>1, <1>3, <1>4, <1>5 DEF Last, Sent

LEMMA MakeObjectKeeps ==
  ASSUME NetInv, NEW n \in Node, NEW i \in Id, MakeObject(n, i)
  PROVE  NetInv'
<1> USE DEF NetInv
<1>0. PICK o : o = Len(maker) + 1
  OBVIOUS
<1>1. /\ UNCHANGED <<zombie, owner, destroyer, doomed, local, net, acks,
                     connected, ready, accused, budget, ended>>
      /\ object' = [object EXCEPT ![n][i] = o]
      /\ content' = [content EXCEPT ![n][i] = [obj |-> o, version |-> 0]]
      /\ knows' = [l \in Link |-> IF l[1] = n THEN [knows[l] EXCEPT ![i] = Reset] ELSE knows[l]]
      /\ maker' = Append(maker, n)
      /\ had' = [had EXCEPT ![n] = @ \cup {o}]
      /\ mine' = [mine EXCEPT ![n] = @ \cup {o}]
      /\ o <= budget.made
  BY <1>0 DEF MakeObject, orders, wires, others
<1>2. /\ n = Server => Free(i) /\ reserved' = reserved
      /\ n # Server => i \in reserved[n] /\ reserved' = [reserved EXCEPT ![n] = @ \ {i}]
  BY DEF MakeObject
<1>3. /\ Fresh(i) /\ owner[i] = n /\ (n # Server => n \in Client)
      /\ o \in Object /\ Len(maker) \in Nat /\ Len(maker') = o /\ o <= MaxMade
      /\ maker' \in Seq(Node)
      /\ object' \in [Node -> [Id -> Object \cup {None}]]
      /\ \A p \in Node, j \in Id : object'[p][j] = IF p = n /\ j = i THEN o ELSE object[p][j]
  BY <1>0, NewObject
<1>6. /\ content' \in [Node -> [Id -> [obj : Object \cup {None}, version : Nat]]]
      /\ \A p \in Node, j \in Id :
           content'[p][j].obj = IF p = n /\ j = i THEN o ELSE content[p][j].obj
  <2> DEFINE r == [obj |-> o, version |-> 0]
  <2>1. r \in [obj : Object \cup {None}, version : Nat] /\ r.obj = o
    BY <1>3
  <2>2. content' = [content EXCEPT ![n][i] = r]
    BY <1>1
  <2> HIDE DEF r
  <2> QED BY <2>1, <2>2 DEF TypeOK
<1>7. /\ knows' \in [Link -> [Id -> Knowledge]]
      /\ \A l \in Link, j \in Id :
           knows'[l][j].exists => knows[l][j].exists /\ (l[1] # n \/ j # i)
  BY <1>1, KnowledgeOf DEF TypeOK
<1>8. /\ mine' \in [Node -> SUBSET Object] /\ had' \in [Node -> SUBSET Object]
      /\ \A p \in Node : had[p] \subseteq had'[p]
      /\ o \in had'[n]
  BY <1>1, <1>3 DEF TypeOK, HistoryOK
<1>9. /\ reserved' \in [Client -> SUBSET Id]
      /\ \A c \in Client : \A j \in reserved'[c] : j \in reserved[c] /\ j # i
  <2>1. \A c \in Client : i \in reserved[c] => c = n
    BY <1>3 DEF ReservedAreFresh
  <2>2. CASE n = Server
    <3>1. n \notin Client
      BY <2>2, NodeAssumption
    <3> QED BY <1>2, <2>1, <2>2, <3>1 DEF TypeOK
  <2>3. CASE n # Server
    <3>1. n \in Client /\ reserved' = [reserved EXCEPT ![n] = @ \ {i}]
      BY <1>2, <1>3, <2>3
    <3> QED BY <2>1, <3>1 DEF TypeOK
  <2> QED BY <2>2, <2>3
<1>10. TypeOK' /\ HistoryOK'
  <2>1. TypeOK'
    BY <1>1, <1>3, <1>6, <1>7, <1>8, <1>9 DEF TypeOK
  <2> QED BY <1>1, <1>3, <1>8, <2>1 DEF HistoryOK
<1>11. WiresOK' /\ Sent' = Sent /\ OrdersOnLinks'
  BY <1>1 DEF WiresOK, WireOK, Wire, Sent, OrdersOnLinks
<1>12. OneGeneration'
  <2>1. PICK cur \in [Id -> 0 .. Len(maker)] : Last(cur)
    BY DEF OneGeneration
  <2>2. PICK next : next = [cur EXCEPT ![i] = o]
    OBVIOUS
  <2>3. next \in [Id -> 0 .. Len(maker')] /\ Last(next)'
    BY <1>0, <2>1, <2>2, NewObjectIsLast
  <2> QED BY <2>3 DEF OneGeneration
<1>13. RightContent'
  <2> SUFFICES ASSUME NEW p \in Node, NEW j \in Id
               PROVE  content'[p][j].obj = object'[p][j]
    BY DEF RightContent
  <2>1. content[p][j].obj = object[p][j]
    BY DEF RightContent
  <2> QED BY <1>3, <1>6, <2>1
<1>14. ZombiesAreThere'
  <2> SUFFICES ASSUME NEW p \in Node, NEW j \in zombie[p]
               PROVE  object'[p][j] # None
    BY <1>1 DEF ZombiesAreThere
  <2>1. j \in Id /\ object[p][j] # None
    BY DEF TypeOK, ZombiesAreThere
  <2>2. o # None
    BY <1>3 DEF Object, None
  <2> QED BY <1>3, <2>1, <2>2
<1>15. ReservedAreFresh'
  <2> SUFFICES ASSUME NEW c \in Client, NEW j \in reserved'[c]
               PROVE  owner'[j] = c /\ Fresh(j)'
    BY DEF ReservedAreFresh
  <2>1. j \in reserved[c] /\ j # i /\ j \in Id
    BY <1>9 DEF TypeOK
  <2>2. owner[j] = c /\ Fresh(j)
    BY <2>1 DEF ReservedAreFresh
  <2>3. \A p \in Node : object'[p][j] = object[p][j]
    BY <1>3, <2>1
  <2> QED BY <1>1, <2>2, <2>3 DEF Fresh
<1>16. HadAll'
  <2>1. ASSUME NEW p \in Node, NEW j \in Id, object'[p][j] # None
        PROVE  object'[p][j] \in had'[p]
    <3>1. object[p][j] # None => object[p][j] \in had[p]
      BY DEF HadAll
    <3> QED BY <1>3, <1>8, <2>1, <3>1
  <2>2. ASSUME NEW m \in Sent, m.type # "destroy"
        PROVE  /\ m.obj \in had'[m.from]
               /\ m.type = "sync" \/ m \in acks => m.obj \in had'[m.to]
    <3>1. m.from \in Node /\ m.to \in Node
      BY DEF WiresOK, WireOK, Wire
    <3>2. /\ m.obj \in had[m.from]
          /\ m.type = "sync" \/ m \in acks => m.obj \in had[m.to]
      BY <2>2 DEF HadAll
    <3> QED BY <1>8, <3>1, <3>2
  <2> QED BY <1>1, <1>11, <2>1, <2>2 DEF HadAll
<1>17. ExistsMeansThere'
  <2> SUFFICES ASSUME NEW l \in Link, NEW j \in Id, Up(l[1]), Up(l[2]), knows'[l][j].exists,
                      object'[l[1]][j] # None
               PROVE  object'[l[1]][j] \in had'[l[2]]
    BY <1>1 DEF ExistsMeansThere, Up
  <2>1. knows[l][j].exists /\ (l[1] # n \/ j # i)
    BY <1>7
  <2>2. l[1] \in Node /\ l[2] \in Node
    BY Links
  <2>3. object'[l[1]][j] = object[l[1]][j]
    BY <1>3, <2>1, <2>2
  <2>4. object[l[1]][j] \in had[l[2]]
    BY <2>1, <2>3 DEF ExistsMeansThere
  <2> QED BY <1>8, <2>2, <2>3, <2>4
<1> QED BY <1>10, <1>11, <1>12, <1>13, <1>14, <1>15, <1>16, <1>17

-----------------------------------------------------------------------------
(* The theorems.                                                           *)

LEMMA InitNetInv ==
  ASSUME Init
  PROVE  NetInv
<1> USE DEF Init
<1>1. Nothing \in [obj : Object \cup {None}, version : Nat] /\ Nothing.obj = None
  BY DEF Nothing
<1>2. TypeOK
  BY <1>1, KnowledgeOf, Links DEF TypeOK
<1>3. HistoryOK
  <2>1. Budgets \subseteq [made : Object, change : Nat, logins : [Client -> Nat],
                           acks : SUBSET BOOLEAN \ {{}}]
        /\ MaxMade \in Nat
    BY BoundAssumption
  <2>2. maker \in Seq(Node) /\ Len(maker) = 0
    OBVIOUS
  <2> QED BY <2>1, <2>2 DEF HistoryOK
<1>4. WiresOK /\ Sent = {} /\ OrdersOnLinks
  BY DEF WiresOK, Sent, OrdersOnLinks
<1>5. OneGeneration
  <2> DEFINE cur == [i \in Id |-> 0]
  <2>1. cur \in [Id -> 0 .. Len(maker)]
    OBVIOUS
  <2>2. Last(cur)
    BY <1>4 DEF Last
  <2> HIDE DEF cur
  <2> QED BY <2>1, <2>2 DEF OneGeneration
<1>6. RightContent /\ ZombiesAreThere /\ ReservedAreFresh
  BY <1>1 DEF RightContent, ZombiesAreThere, ReservedAreFresh
<1>7. HadAll
  BY <1>4 DEF HadAll
<1>8. ExistsMeansThere
  BY Links DEF ExistsMeansThere
<1> QED BY <1>2, <1>3, <1>4, <1>5, <1>6, <1>7, <1>8 DEF NetInv

LEMMA KeptInv ==
  ASSUME NetInv, Kept
  PROVE  NetInv'
BY FollowsKeeps DEF Kept

LEMMA NextNetInv ==
  ASSUME NetInv, [Next]_vars
  PROVE  NetInv'
<1>1. ASSUME NEW c \in Client, Logout(c) \/ Login(c) \/ Ready(c) PROVE NetInv'
  BY <1>1, LogoutKeeps, LoginKeeps, ReadyKeeps, KeptInv
<1>2. ASSUME NEW i \in Id, Recycle(i) PROVE NetInv'
  BY <1>2, RecycleKeeps, KeptInv
<1>3. ASSUME NEW c \in Client, NEW i \in Id, Reserve(c, i) PROVE NetInv'
  BY <1>3, ReserveKeeps, KeptInv
<1>4. ASSUME NEW n \in Node, NEW i \in Id, MakeObject(n, i) \/ Change(n, i) \/ DestroyObject(n, i)
      PROVE  NetInv'
  BY <1>4, MakeObjectKeeps, ChangeKeeps, DestroyObjectKeeps, KeptInv
<1>5. ASSUME NEW n \in Node, ClearAllDeleted(n) PROVE NetInv'
  BY <1>5, ClearAllDeletedKeeps, KeptInv
<1>6. ASSUME NEW l \in Link, SendDestroyer(l[1], l[2]) PROVE NetInv'
  <2>1. <<l[1], l[2]>> \in Link
    BY Links
  <2> QED BY <1>6, <2>1, SendDestroyerKeeps, KeptInv
<1>7. ASSUME NEW l \in Link, NEW i \in Id, SendCreation(l[1], l[2], i) \/ SendSync(l[1], l[2], i)
      PROVE  NetInv'
  <2>1. <<l[1], l[2]>> \in Link
    BY Links
  <2> QED BY <1>7, <2>1, SendCreationKeeps, SendSyncKeeps, KeptInv
<1>8. ASSUME NEW m \in net, Lose(m) \/ Receive(m) PROVE NetInv'
  BY <1>8, LoseKeeps, ReceiveCreateKeeps, ReceiveSyncKeeps, ReceiveDestroyKeeps, KeptInv
     DEF Receive
<1>9. ASSUME NEW m \in acks, ReceiveAck(m) PROVE NetInv'
  BY <1>9, ReceiveAckKeeps, KeptInv
<1>10. ASSUME NEW n \in Node, NEW d \in doomed[n], DoDestroy(n, d) \/ ExpireDestroy(n, d)
       PROVE  NetInv'
  BY <1>10, DoDestroyKeeps, ExpireDestroyKeeps, KeptInv
<1>11. ASSUME UNCHANGED vars PROVE NetInv'
  <2>1. UNCHANGED <<object, content, knows, zombie, owner, reserved, mine, destroyer, doomed,
                    local, net, acks, connected, ready, accused, budget, maker, had, ended>>
    BY <1>11 DEF vars, tables, orders, wires, others, story
  <2>2. Typed'
    BY <2>1 DEF NetInv, Typed, TypeOK, HistoryOK, WiresOK, WireOK, Wire, Sent
  <2>3. MessagesFollow /\ KnowsFollows
    BY <2>1, SameWires, SameKnows DEF wires, NetInv
  <2>4. Kept
    BY <2>1, <2>2, <2>3, SameOrders, SameObjects, SameIds, SameHad, SameTables
       DEF NetInv, Kept, Follows
  <2> QED BY <2>4, KeptInv
<1> QED BY <1>1, <1>2, <1>3, <1>4, <1>5, <1>6, <1>7, <1>8, <1>9, <1>10, <1>11 DEF Next, Execute

(* The inductive invariant of the tables, orders and messages.             *)
THEOREM NetInvHolds == Spec => []NetInv
<1>1. Init => NetInv
  BY InitNetInv
<1>2. NetInv /\ [Next]_vars => NetInv'
  BY NextNetInv
<1> QED BY <1>1, <1>2, PTL DEF Spec

(* The types of the tables of all nodes, of sn_netObjects and the knowledge *)
(* of the users to sn_Destroyed and sn_LocallyDestroyedIDs.                *)
THEOREM TypeCorrect == Spec => []TypeOK
<1>1. NetInv => TypeOK
  BY DEF NetInv
<1> QED BY <1>1, NetInvHolds, PTL

(* No node shows under an object what was sent of another one that had the *)
(* same id before (net_sync_handler and the reuse of ids).                 *)
THEOREM ContentCorrect == Spec => []RightContent
<1>1. NetInv => RightContent
  BY DEF NetInv
<1> QED BY <1>1, NetInvHolds, PTL

(* Who is sent only changes of an object (knowsAbout of nNetObject) has it *)
(* or had it.                                                              *)
THEOREM KnowledgeCorrect == Spec => []ExistsMeansThere
<1>1. NetInv => ExistsMeansThere
  BY DEF NetInv
<1> QED BY <1>1, NetInvHolds, PTL

-----------------------------------------------------------------------------
(* What the destroy orders rest on.                                        *)

Told(l, i) == knows[l][i].exists \/ knows[l][i].pending > 0

(* Nothing is left of a client that has gone, and nothing is on its way.   *)
GoneIsGone ==
  \A c \in Client \ connected :
    /\ \A i \in Id : object[c][i] = None
    /\ mine[c] = {} /\ had[c] = {} /\ local[c] = {}
    /\ \A m \in Sent : c \notin {m.from, m.to}

(* What a client had it made, or the server had it.                        *)
HadKnown ==
  /\ \A n \in Node : had[n] \subseteq 1 .. Len(maker) /\ mine[n] \subseteq had[n]
  /\ \A c \in Client :
       /\ had[c] \subseteq mine[c] \cup had[Server]
       /\ \A o \in mine[c] : maker[o] = c

(* Nobody had an object of which he was not told, and no creation is on    *)
(* its way to him; what a client did not tell of is its own.               *)
UntoldIsNew ==
  /\ \A l \in Link, i \in Id :
       Up(l[1]) /\ Up(l[2]) /\ object[l[1]][i] # None /\ ~Told(l, i) =>
         /\ object[l[1]][i] \notin had[l[2]]
         /\ \A m \in Sent : m.type = "create" /\ m.from = l[1] /\ m.to = l[2] =>
              m.obj # object[l[1]][i]
  /\ \A c \in connected, i \in Id :
       object[c][i] # None /\ ~knows[<<c, Server>>][i].exists => object[c][i] \in mine[c]

(* There is one creation of an object to a node, before it had the object; *)
(* clients send those of their own.                                        *)
CreatedOnce ==
  /\ \A m \in net : m.type = "create" => m.obj \notin had[m.to]
  /\ \A m, q \in net :
       m.type = "create" /\ q.type = "create" /\ m.to = q.to /\ m.obj = q.obj => m = q
  /\ \A m \in Sent : m.type = "create" /\ m.from # Server => m.obj \in mine[m.from]

(* The server takes the client to know of an object that it made.          *)
MakerKnows ==
  \A c \in connected, i \in Id : object[Server][i] \in mine[c] => knows[<<Server, c>>][i].exists

LocalIsGone ==
  /\ local[Server] = {}
  /\ \A c \in Client : \A i \in local[c] : object[c][i] = None

(* The server had what it was told of, or its creation is on its way.      *)
ToldArrives ==
  \A c \in connected, i \in Id :
    object[c][i] # None /\ Told(<<c, Server>>, i) =>
      \/ object[c][i] \in had[Server]
      \/ \E m \in net : m.type = "create" /\ m.from = c /\ m.obj = object[c][i]

(* As long as a client has an object that it made, nobody orders that it   *)
(* be destroyed, and the server leaves it to the client.                   *)
MakerRules ==
  \A c \in connected, i \in Id :
    object[c][i] \in mine[c] =>
      /\ ~Ordered(Server, c, i)
      /\ object[c][i] \in had[Server] =>
           /\ object[Server][i] = object[c][i]
           /\ object[c][i] \notin mine[Server] /\ i \notin zombie[Server]

(* Orders to the server are about the last object with that id: its maker  *)
(* gives them, and has it no more.  An object that its client destroyed    *)
(* was that one; the server has it, has ordered its end, or will get it    *)
(* before the order.                                                       *)
OrdersAreFor(cur) ==
  /\ \A c \in Client, i \in Id :
       Ordered(c, Server, i) =>
         cur[i] # None /\ maker[cur[i]] = c /\ object[c][i] \notin mine[c]
  /\ \A c \in connected : \A i \in local[c] :
       /\ cur[i] \in mine[c]
       /\ IF cur[i] \in had[Server]
          THEN object[Server][i] = cur[i] \/ Ordered(Server, c, i)
          ELSE /\ Ordered(c, Server, i)
               /\ \E m \in net : m.type = "create" /\ m.from = c /\ i \in m.ids

(* An object has one id.                                                   *)
Distinct(cur) == \A i, j \in Id : cur[i] = cur[j] /\ cur[i] # None => i = j

Orderly ==
  /\ GoneIsGone /\ HadKnown /\ UntoldIsNew /\ CreatedOnce
  /\ MakerKnows /\ LocalIsGone /\ ToldArrives /\ MakerRules

LastOrders ==
  \E cur \in [Id -> 0 .. Len(maker)] : Last(cur) /\ Distinct(cur) /\ OrdersAreFor(cur)

OrderInv == NetInv /\ Orderly /\ LastOrders /\ NoOrphan

OrderAt(cur) ==
  /\ NetInv /\ Orderly /\ NoOrphan
  /\ cur \in [Id -> 0 .. Len(maker)] /\ Last(cur) /\ Distinct(cur) /\ OrdersAreFor(cur)

OrderKept(cur) == Orderly' /\ OrdersAreFor(cur)' /\ NoOrphan'

-----------------------------------------------------------------------------
(* Steps that change no object.                                            *)

Calm ==
  /\ UNCHANGED <<object, connected, had, maker>>
  /\ \A c \in Client : mine'[c] = mine[c]
  /\ mine'[Server] \subseteq mine[Server] \cup had[Server]
  /\ \A l \in Link, i \in Id :
       /\ Told(l, i) => Told(l, i)'
       /\ knows[l][i].exists => knows'[l][i].exists

NoCreation ==
  /\ \A m \in Sent' : m.type = "create" => m \in Sent
  /\ \A m \in net' : m.type = "create" => m \in net
CreationsStay == \A m \in net : m.type = "create" => m \in net'

SentByUp == \A m \in Sent' : m \in Sent \/ (Up(m.from) /\ Up(m.to))

LocalShrinks == \A n \in Node : local'[n] \subseteq local[n]

NoOrder == \A l \in Link, i \in Id : Ordered(l[1], l[2], i)' => Ordered(l[1], l[2], i)
OrdersStay ==
  \A c \in connected, i \in Id :
    /\ Ordered(Server, c, i) => Ordered(Server, c, i)'
    /\ Ordered(c, Server, i) => Ordered(c, Server, i)'

LEMMA CalmGone ==
  ASSUME GoneIsGone, Calm, SentByUp, LocalShrinks
  PROVE  GoneIsGone'
<1> SUFFICES ASSUME NEW c \in Client, c \notin connected
             PROVE  /\ \A i \in Id : object[c][i] = None
                    /\ mine[c] = {} /\ had[c] = {} /\ local'[c] = {}
                    /\ \A m \in Sent' : c \notin {m.from, m.to}
  BY DEF GoneIsGone, Calm
<1>1. local[c] = {} /\ local'[c] \subseteq local[c]
  BY Links DEF GoneIsGone, LocalShrinks
<1>2. ~Up(c)
  BY Links DEF Up
<1> QED BY <1>1, <1>2 DEF GoneIsGone, SentByUp

LEMMA CalmHadKnown ==
  ASSUME HadKnown, Calm
  PROVE  HadKnown'
BY DEF HadKnown, Calm, Node

LEMMA CalmUntold ==
  ASSUME UntoldIsNew, Calm, NoCreation, TypeOK
  PROVE  UntoldIsNew'
<1>1. ASSUME NEW l \in Link, NEW i \in Id, Up(l[1])', Up(l[2])', object'[l[1]][i] # None,
             ~Told(l, i)'
      PROVE  /\ object'[l[1]][i] \notin had'[l[2]]
             /\ \A m \in Sent' : m.type = "create" /\ m.from = l[1] /\ m.to = l[2] =>
                  m.obj # object'[l[1]][i]
  <2>1. Up(l[1]) /\ Up(l[2]) /\ object[l[1]][i] # None /\ ~Told(l, i)
    BY <1>1 DEF Calm, Up
  <2> QED BY <2>1 DEF UntoldIsNew, Calm, NoCreation
<1>2. ASSUME NEW c \in connected', NEW i \in Id, object'[c][i] # None,
             ~knows'[<<c, Server>>][i].exists
      PROVE  object'[c][i] \in mine'[c]
  <2>1. c \in connected /\ c \in Client /\ <<c, Server>> \in Link
    BY Links DEF Calm, TypeOK
  <2> QED BY <1>2, <2>1 DEF UntoldIsNew, Calm
<1> QED BY <1>1, <1>2 DEF UntoldIsNew

LEMMA CalmCreated ==
  ASSUME CreatedOnce, Calm, NoCreation, WiresOK
  PROVE  CreatedOnce'
<1>1. \A m \in Sent : m.from # Server => m.from \in Client
  BY DEF WiresOK, WireOK, Wire, Node
<1> QED BY <1>1 DEF CreatedOnce, Calm, NoCreation

LEMMA CalmMakerKnows ==
  ASSUME MakerKnows, Calm, TypeOK
  PROVE  MakerKnows'
<1> SUFFICES ASSUME NEW c \in connected', NEW i \in Id, object'[Server][i] \in mine'[c]
             PROVE  knows'[<<Server, c>>][i].exists
  BY DEF MakerKnows
<1>1. c \in connected /\ c \in Client /\ <<Server, c>> \in Link
  BY Links DEF Calm, TypeOK
<1> QED BY <1>1 DEF MakerKnows, Calm

LEMMA CalmLocal ==
  ASSUME LocalIsGone, Calm, LocalShrinks
  PROVE  LocalIsGone'
<1>1. local'[Server] = {}
  BY Links DEF LocalIsGone, LocalShrinks
<1>2. ASSUME NEW c \in Client, NEW i \in local'[c]
      PROVE  object'[c][i] = None
  <2>1. i \in local[c] /\ object' = object
    BY Links DEF LocalShrinks, Calm
  <2> QED BY <2>1 DEF LocalIsGone
<1> QED BY <1>1, <1>2 DEF LocalIsGone

LEMMA CalmToldArrives ==
  ASSUME ToldArrives, Calm, CreationsStay,
         \A c \in connected, i \in Id :
           Told(<<c, Server>>, i)' /\ object[c][i] # None =>
             Told(<<c, Server>>, i) \/ object[c][i] \in had[Server]
  PROVE  ToldArrives'
<1> SUFFICES ASSUME NEW c \in connected, NEW i \in Id, object[c][i] # None,
                    Told(<<c, Server>>, i)'
             PROVE  \/ object[c][i] \in had[Server]
                    \/ \E m \in net' : m.type = "create" /\ m.from = c /\ m.obj = object[c][i]
  BY DEF ToldArrives, Calm
<1> QED BY DEF ToldArrives, CreationsStay

LEMMA CalmMakerRules ==
  ASSUME MakerRules, Calm, TypeOK, NoOrder, mine'[Server] = mine[Server],
         zombie'[Server] \subseteq zombie[Server]
  PROVE  MakerRules'
<1> SUFFICES ASSUME NEW c \in connected, NEW i \in Id, object[c][i] \in mine'[c]
             PROVE  /\ ~Ordered(Server, c, i)'
                    /\ object[c][i] \in had[Server] =>
                         /\ object[Server][i] = object[c][i]
                         /\ object[c][i] \notin mine'[Server] /\ i \notin zombie'[Server]
  BY DEF MakerRules, Calm
<1>1. c \in Client /\ <<Server, c>> \in Link /\ <<Server, c>>[1] = Server /\ <<Server, c>>[2] = c
  BY Links DEF TypeOK
<1>2. object[c][i] \in mine[c]
  BY <1>1 DEF Calm
<1>3. ~Ordered(Server, c, i)
  BY <1>2 DEF MakerRules
<1>4. ~Ordered(Server, c, i)'
  BY <1>1, <1>3 DEF NoOrder
<1> QED BY <1>2, <1>4 DEF MakerRules

LEMMA CalmOrders ==
  ASSUME NEW cur, OrdersAreFor(cur), Calm, TypeOK, LocalShrinks, NoOrder, OrdersStay, CreationsStay
  PROVE  OrdersAreFor(cur)'
<1>1. ASSUME NEW c \in Client, NEW i \in Id, Ordered(c, Server, i)'
      PROVE  cur[i] # None /\ maker[cur[i]] = c /\ object[c][i] \notin mine'[c]
  <2>1. <<c, Server>> \in Link /\ <<c, Server>>[1] = c /\ <<c, Server>>[2] = Server
    BY Links
  <2>2. Ordered(c, Server, i)
    BY <1>1, <2>1 DEF NoOrder
  <2> QED BY <2>2 DEF OrdersAreFor, Calm
<1>2. ASSUME NEW c \in connected, NEW i \in local'[c]
      PROVE  /\ cur[i] \in mine'[c]
             /\ IF cur[i] \in had[Server]
                THEN object[Server][i] = cur[i] \/ Ordered(Server, c, i)'
                ELSE /\ Ordered(c, Server, i)'
                     /\ \E m \in net' : m.type = "create" /\ m.from = c /\ i \in m.ids
  <2>1. c \in Client /\ i \in local[c] /\ i \in Id
    BY Links DEF TypeOK, LocalShrinks
  <2>2. cur[i] \in mine'[c]
    BY <2>1 DEF OrdersAreFor, Calm
  <2>3. CASE cur[i] \in had[Server]
    BY <2>1, <2>2, <2>3 DEF OrdersAreFor, OrdersStay
  <2>4. CASE cur[i] \notin had[Server]
    BY <2>1, <2>2, <2>4 DEF OrdersAreFor, OrdersStay, CreationsStay
  <2> QED BY <2>3, <2>4
<1>3. UNCHANGED <<object, connected, had, maker>>
  BY DEF Calm
<1> QED BY <1>1, <1>2, <1>3 DEF OrdersAreFor

LEMMA CalmNoOrphan ==
  ASSUME NoOrphan, Calm, TypeOK, NoCreation, OrdersStay, \A c \in Client : zombie[c] \subseteq zombie'[c]
  PROVE  NoOrphan'
<1> SUFFICES ASSUME NEW c \in connected, NEW i \in Id, NEW o \in Object,
                    \/ object[c][i] = o /\ i \notin zombie'[c] /\ o \notin mine'[c]
                    \/ \E m \in net' : m.type = "create" /\ m.to = c /\ i \in m.ids /\ m.obj = o,
                    object[Server][i] # o
             PROVE  Ordered(Server, c, i)'
  BY DEF NoOrphan, Calm
<1>1. c \in Client
  BY DEF TypeOK
<1>2. \/ object[c][i] = o /\ i \notin zombie[c] /\ o \notin mine[c]
      \/ \E m \in net : m.type = "create" /\ m.to = c /\ i \in m.ids /\ m.obj = o
  BY <1>1 DEF Calm, NoCreation
<1>3. Ordered(Server, c, i)
  BY <1>2 DEF NoOrphan
<1> QED BY <1>3 DEF OrdersStay

(* A step that changes nothing of this.                                    *)
LEMMA CalmKeeps ==
  ASSUME NEW cur, OrderAt(cur), Calm, NoCreation, CreationsStay, SentByUp, LocalShrinks,
         NoOrder, OrdersStay, UNCHANGED zombie, mine'[Server] = mine[Server],
         \A c \in connected, i \in Id :
           Told(<<c, Server>>, i)' /\ object[c][i] # None =>
             Told(<<c, Server>>, i) \/ object[c][i] \in had[Server]
  PROVE  OrderKept(cur)
<1> USE DEF OrderAt, Orderly, NetInv
<1>1. GoneIsGone' /\ HadKnown' /\ MakerKnows' /\ LocalIsGone'
  BY CalmGone, CalmHadKnown, CalmMakerKnows, CalmLocal
<1>2. UntoldIsNew' /\ CreatedOnce'
  BY CalmUntold, CalmCreated
<1>3. ToldArrives' /\ MakerRules'
  BY CalmToldArrives, CalmMakerRules
<1>4. OrdersAreFor(cur)' /\ NoOrphan'
  BY CalmOrders, CalmNoOrphan
<1> QED BY <1>1, <1>2, <1>3, <1>4 DEF OrderKept

-----------------------------------------------------------------------------
(* The steps, one by one, for the orders.                                  *)

LEMMA SameLinks ==
  ASSUME UNCHANGED <<destroyer, doomed, net>>
  PROVE  NoOrder /\ OrdersStay
BY DEF NoOrder, OrdersStay, Ordered

LEMMA StillKeeps ==
  ASSUME NEW cur, OrderAt(cur),
         UNCHANGED <<object, knows, zombie, mine, destroyer, doomed, local, net, acks,
                     connected, maker, had>>
  PROVE  OrderKept(cur)
<1>1. Calm
  BY DEF Calm, Told
<1>2. NoCreation /\ CreationsStay /\ SentByUp /\ LocalShrinks
  BY DEF NoCreation, CreationsStay, SentByUp, LocalShrinks, Sent
<1>3. NoOrder /\ OrdersStay
  BY SameLinks
<1> QED BY <1>1, <1>2, <1>3, CalmKeeps DEF Told

LEMMA ReadyOrders ==
  ASSUME NEW cur, OrderAt(cur), NEW c \in Client, Ready(c)
  PROVE  OrderKept(cur)
<1>1. UNCHANGED <<object, knows, zombie, mine, destroyer, doomed, local, net, acks,
                  connected, maker, had>>
  BY DEF Ready, tables, orders, wires, story
<1> QED BY <1>1, StillKeeps

LEMMA RecycleOrders ==
  ASSUME NEW cur, OrderAt(cur), NEW i \in Id, Recycle(i)
  PROVE  OrderKept(cur)
<1>1. UNCHANGED <<object, knows, zombie, mine, destroyer, doomed, local, net, acks,
                  connected, maker, had>>
  BY DEF Recycle, orders, wires, others, story
<1> QED BY <1>1, StillKeeps

LEMMA ReserveOrders ==
  ASSUME NEW cur, OrderAt(cur), NEW c \in Client, NEW i \in Id, Reserve(c, i)
  PROVE  OrderKept(cur)
<1>1. UNCHANGED <<object, knows, zombie, mine, destroyer, doomed, local, net, acks,
                  connected, maker, had>>
  BY DEF Reserve, orders, wires, others, story
<1> QED BY <1>1, StillKeeps

LEMMA ChangeOrders ==
  ASSUME NEW cur, OrderAt(cur), NEW n \in Node, NEW i \in Id, Change(n, i)
  PROVE  OrderKept(cur)
<1>1. /\ UNCHANGED <<object, zombie, owner, reserved, mine, destroyer, doomed, local,
                     net, acks, connected, ready, accused, budget, maker, had, ended>>
      /\ \E ack \in budget.acks : knows' = RequestSync(n, i, Peers(n), ack)
  BY DEF Change, orders, wires, others, story
<1>2. \A l \in Link, j \in Id : /\ knows'[l][j].exists = knows[l][j].exists
                                /\ knows'[l][j].pending = knows[l][j].pending
  <2>1. PICK ack \in budget.acks : knows' = RequestSync(n, i, Peers(n), ack)
    BY <1>1
  <2>2. ack \in BOOLEAN
    BY DEF OrderAt, NetInv, HistoryOK
  <2> QED BY <2>1, <2>2, RequestSyncTyped DEF OrderAt, NetInv
<1>3. \A l \in Link, j \in Id : Told(l, j)' <=> Told(l, j)
  BY <1>2 DEF Told
<1>4. Calm
  BY <1>1, <1>2, <1>3 DEF Calm
<1>5. NoCreation /\ CreationsStay /\ SentByUp /\ LocalShrinks
  BY <1>1 DEF NoCreation, CreationsStay, SentByUp, LocalShrinks, Sent
<1>6. NoOrder /\ OrdersStay
  BY <1>1, SameLinks
<1>7. \A c \in connected : <<c, Server>> \in Link
  BY Links DEF OrderAt, NetInv, TypeOK
<1> QED BY <1>1, <1>3, <1>4, <1>5, <1>6, <1>7, CalmKeeps

LEMMA SendDestroyerOrders ==
  ASSUME NEW cur, OrderAt(cur), NEW n, NEW p, <<n, p>> \in Link, SendDestroyer(n, p)
  PROVE  OrderKept(cur)
<1> DEFINE sent == DestroyMessage(n, p, destroyer[<<n, p>>])
<1>1. /\ UNCHANGED <<object, content, knows, zombie, owner, reserved, mine, doomed, local,
                     acks, connected, ready, accused, budget, maker, had, ended>>
      /\ net' = net \cup {sent}
      /\ destroyer' = [destroyer EXCEPT ![<<n, p>>] = {}]
      /\ Up(n) /\ Up(p)
  BY DEF SendDestroyer, tables, others, story, MaySend
<1>2. destroyer \in [Link -> SUBSET Id]
  BY DEF OrderAt, NetInv, TypeOK
<1>3. /\ sent.from = n /\ sent.to = p /\ sent.type = "destroy" /\ sent.ids = destroyer[<<n, p>>]
  BY <1>2, DestroyMessageOK
<1> HIDE DEF sent
<1>4. \A l \in Link, i \in Id : Ordered(l[1], l[2], i)' <=> Ordered(l[1], l[2], i)
  <2> SUFFICES ASSUME NEW l \in Link, NEW i \in Id
               PROVE  Ordered(l[1], l[2], i)' <=> Ordered(l[1], l[2], i)
    OBVIOUS
  <2>1. l = <<l[1], l[2]>>
    BY Links
  <2>2. CASE l = <<n, p>>
    <3>1. l[1] = n /\ l[2] = p /\ destroyer'[l] = {}
      BY <1>1, <1>2, <2>2
    <3> QED BY <1>1, <1>3, <2>1, <2>2, <3>1 DEF Ordered
  <2>3. CASE l # <<n, p>>
    <3>1. destroyer'[l] = destroyer[l] /\ ~(l[1] = n /\ l[2] = p)
      BY <1>1, <1>2, <2>1, <2>3
    <3> QED BY <1>1, <1>3, <2>1, <3>1 DEF Ordered
  <2> QED BY <2>2, <2>3
<1>5. NoOrder /\ OrdersStay
  <2>1. \A c \in connected : /\ <<Server, c>> \in Link /\ <<c, Server>> \in Link
                             /\ <<Server, c>>[1] = Server /\ <<Server, c>>[2] = c
                             /\ <<c, Server>>[1] = c /\ <<c, Server>>[2] = Server
    BY Links DEF OrderAt, NetInv, TypeOK
  <2> QED BY <1>4, <2>1 DEF NoOrder, OrdersStay
<1>6. Calm /\ LocalShrinks
  BY <1>1 DEF Calm, Told, LocalShrinks
<1>7. NoCreation /\ CreationsStay /\ SentByUp
  BY <1>1, <1>3 DEF NoCreation, CreationsStay, SentByUp, Sent
<1> QED BY <1>1, <1>5, <1>6, <1>7, CalmKeeps DEF Told

LEMMA SendSyncOrders ==
  ASSUME NEW cur, OrderAt(cur), NEW n, NEW p, <<n, p>> \in Link, NEW i \in Id, SendSync(n, p, i)
  PROVE  OrderKept(cur)
<1> DEFINE k == knows[<<n, p>>][i]
           sent == Message("sync", n, p, {i}, content[n][i].obj, content[n][i].version, k.ack)
<1>1. k \in Knowledge /\ knows \in [Link -> [Id -> Knowledge]]
  BY DEF OrderAt, NetInv, TypeOK
<1>2. /\ knows' = [knows EXCEPT ![<<n, p>>][i] = Synced(k)] /\ k.exists
      /\ net' = net \cup {sent}
      /\ UNCHANGED <<object, content, zombie, owner, reserved, mine, destroyer, doomed, local, acks,
                     connected, ready, accused, budget, maker, had, ended>>
      /\ Up(n) /\ Up(p)
  BY DEF SendSync, MaySend, orders, others, story
<1>3. sent.type = "sync" /\ sent.from = n /\ sent.to = p
  BY DEF Message
<1>4. Synced(k).exists
  BY <1>1, <1>2, SentAndAcknowledged
<1> HIDE DEF sent, k
<1>5. \A l \in Link, j \in Id : \/ knows'[l][j] = knows[l][j]
                                \/ l = <<n, p>> /\ j = i /\ knows[l][j] = k /\ knows'[l][j] = Synced(k)
  BY <1>1, <1>2 DEF k
<1>6. \A l \in Link, j \in Id :
        (Told(l, j)' <=> Told(l, j)) /\ (knows[l][j].exists => knows'[l][j].exists)
  BY <1>2, <1>4, <1>5 DEF Told
<1>7. Calm /\ LocalShrinks
  BY <1>2, <1>6 DEF Calm, LocalShrinks
<1>8. NoCreation /\ CreationsStay /\ SentByUp
  BY <1>2, <1>3 DEF NoCreation, CreationsStay, SentByUp, Sent
<1>9. NoOrder /\ OrdersStay
  BY <1>2, <1>3 DEF NoOrder, OrdersStay, Ordered
<1>10. \A c \in connected : <<c, Server>> \in Link
  BY Links DEF OrderAt, NetInv, TypeOK
<1> QED BY <1>2, <1>6, <1>7, <1>8, <1>9, <1>10, CalmKeeps

LEMMA LoseOrders ==
  ASSUME NEW cur, OrderAt(cur), NEW m \in net, Lose(m)
  PROVE  OrderKept(cur)
<1>1. /\ UNCHANGED <<object, content, knows, zombie, owner, reserved, mine, destroyer, doomed,
                     local, acks, connected, ready, accused, budget, maker, had, ended>>
      /\ net' = net \ {m} /\ ~m.ack
  BY DEF Lose, tables, orders, others, story
<1>2. m.type = "sync"
  BY <1>1 DEF OrderAt, NetInv, WiresOK, WireOK, Sent
<1>3. Calm /\ LocalShrinks
  BY <1>1 DEF Calm, Told, LocalShrinks
<1>4. NoCreation /\ CreationsStay /\ SentByUp
  BY <1>1, <1>2 DEF NoCreation, CreationsStay, SentByUp, Sent
<1>5. NoOrder /\ OrdersStay
  BY <1>1, <1>2 DEF NoOrder, OrdersStay, Ordered
<1> QED BY <1>1, <1>3, <1>4, <1>5, CalmKeeps DEF Told

LEMMA ReceiveAckOrders ==
  ASSUME NEW cur, OrderAt(cur), NEW m \in acks, ReceiveAck(m)
  PROVE  OrderKept(cur)
<1> USE DEF OrderAt, NetInv
<1> DEFINE l == <<m.from, m.to>>
           K(j) == IF m.type = "destroy" \/ j \notin m.ids \/ object[m.from][j] = None
                   THEN knows[l][j] ELSE Acknowledged(knows[l][j])
<1>1. /\ UNCHANGED <<object, content, zombie, owner, reserved, mine, destroyer, doomed, local,
                     net, connected, ready, accused, budget, maker, had, ended>>
      /\ acks' = acks \ {m}
      /\ knows' = [knows EXCEPT ![l] = [j \in Id |-> K(j)]]
  BY DEF ReceiveAck, orders, others, story
<1>2. l \in Link /\ WireOK(m) /\ m.ack /\ m \in Sent /\ m.from \in Node
  BY Links DEF WiresOK, WireOK, Sent
<1>3. \A k \in Link, j \in Id : knows'[k][j] = IF k = l THEN K(j) ELSE knows[k][j]
  BY <1>1, <1>2 DEF TypeOK
<1>4. ASSUME NEW j \in Id
      PROVE  \/ K(j) = knows[l][j]
             \/ /\ K(j).exists /\ m.type # "destroy" /\ j \in m.ids /\ object[m.from][j] # None
                /\ K(j) = Acknowledged(knows[l][j])
  <2>1. knows[l][j] \in Knowledge
    BY <1>2 DEF TypeOK
  <2>2. CASE m.type = "destroy" \/ j \notin m.ids \/ object[m.from][j] = None
    BY <2>2
  <2>3. CASE ~(m.type = "destroy" \/ j \notin m.ids \/ object[m.from][j] = None)
    BY <2>1, <2>3, SentAndAcknowledged
  <2> QED BY <2>2, <2>3
<1>5. l[1] = m.from /\ l[2] = m.to
  OBVIOUS
<1> HIDE DEF K, l
<1>6. \A k \in Link, j \in Id :
        /\ Told(k, j) => Told(k, j)'
        /\ knows[k][j].exists => knows'[k][j].exists
  BY <1>3, <1>4 DEF Told
<1>7. ASSUME NEW c \in connected, NEW j \in Id, Told(<<c, Server>>, j)', object[c][j] # None
      PROVE  Told(<<c, Server>>, j) \/ object[c][j] \in had[Server]
  <2>1. <<c, Server>> \in Link /\ c \in Node
    BY Links DEF TypeOK
  <2>2. CASE knows'[<<c, Server>>][j] = knows[<<c, Server>>][j]
    BY <1>7, <2>2 DEF Told
  <2>3. CASE /\ l = <<c, Server>> /\ m.type # "destroy" /\ j \in m.ids
    <3>1. m.from = c /\ m.to = Server
      BY <1>5, <2>3
    <3>2. m.obj \in had[Server]
      BY <1>2, <2>3, <3>1 DEF HadAll
    <3>3. m.obj = cur[j] /\ object[c][j] = cur[j]
      BY <1>2, <1>7, <2>1, <2>3 DEF Last
    <3> QED BY <3>2, <3>3
  <2> QED BY <1>3, <1>4, <2>1, <2>2, <2>3
<1>8. Calm /\ LocalShrinks
  BY <1>1, <1>6 DEF Calm, LocalShrinks
<1>9. NoCreation /\ CreationsStay /\ SentByUp
  BY <1>1 DEF NoCreation, CreationsStay, SentByUp, Sent
<1>10. NoOrder /\ OrdersStay
  BY <1>1, SameLinks
<1> QED BY <1>1, <1>7, <1>8, <1>9, <1>10, CalmKeeps

(* A sync changes what is shown of an object.  The server disconnects who  *)
(* is not to send it.                                                      *)
LEMMA ReceiveSyncOrders ==
  ASSUME NEW cur, OrderAt(cur), NEW m \in net, ReceiveSync(m),
         ~(m.to = Server /\ Cheater(m.from, {}))
  PROVE  OrderKept(cur)
<1> USE DEF OrderAt, NetInv
<1> DEFINE n == m.to
<1>1. /\ m \in Sent /\ WireOK(m) /\ m.type = "sync" /\ n \in Node
  BY DEF ReceiveSync, WiresOK, WireOK, Wire, Sent
<1>2. PICK i \in Id : m.ids = {i}
  BY <1>1 DEF WireOK
<1>3. (CHOOSE j \in m.ids : TRUE) = i
  BY <1>2
<1>4. /\ Handled(m)
      /\ knows' = knows \/ knows' = RequestSync(n, i, Client \ {m.from}, TRUE)
      /\ UNCHANGED <<object, zombie, owner, reserved, mine, destroyer, doomed, local,
                    connected, ready, budget, accused, maker, had, ended>>
  <2>1. /\ Handled(m)
        /\ UNCHANGED <<object, zombie, owner, reserved, mine, orders, others, story>>
    BY DEF ReceiveSync
  <2>2. knows' = knows \/ knows' = RequestSync(n, i, Client \ {m.from}, TRUE)
    BY <1>3 DEF ReceiveSync
  <2> QED BY <2>1, <2>2 DEF orders, others, story
<1>5. \A l \in Link, j \in Id : /\ knows'[l][j].exists = knows[l][j].exists
                                /\ knows'[l][j].pending = knows[l][j].pending
  <2>1. CASE knows' = knows
    BY <2>1
  <2>2. CASE knows' = RequestSync(n, i, Client \ {m.from}, TRUE)
    <3>1. PICK ack : ack = TRUE
      OBVIOUS
    <3>2. knows' = RequestSync(n, i, Client \ {m.from}, ack)
      BY <2>2, <3>1, Zenon
    <3>3. TypeOK /\ ack \in BOOLEAN /\ n \in Node
      BY <1>1, <3>1
    <3> HIDE DEF n
    <3> QED BY ONLY <3>2, <3>3, i \in Id, RequestSyncTyped
  <2> QED BY <1>4, <2>1, <2>2
<1>6. \A l \in Link, j \in Id : Told(l, j)' <=> Told(l, j)
  BY <1>5 DEF Told
<1>7. Calm /\ LocalShrinks
  BY <1>4, <1>5, <1>6 DEF Calm, LocalShrinks
<1>8. net' = net \ {m} /\ Sent' \subseteq Sent
  BY <1>4 DEF Handled, Sent
<1>9. NoCreation /\ CreationsStay /\ SentByUp
  BY <1>1, <1>8 DEF NoCreation, CreationsStay, SentByUp
<1>10. NoOrder /\ OrdersStay
  BY <1>1, <1>4, <1>8 DEF NoOrder, OrdersStay, Ordered
<1>11. \A c \in connected : <<c, Server>> \in Link
  BY Links DEF TypeOK
<1> QED BY <1>4, <1>6, <1>7, <1>9, <1>10, <1>11, CalmKeeps

(* A creation is sent once, to who does not know of the object.            *)
LEMMA SendCreationOrders ==
  ASSUME NEW cur, OrderAt(cur), NEW n, NEW p, <<n, p>> \in Link, NEW i \in Id,
         SendCreation(n, p, i)
  PROVE  OrderKept(cur)
<1> USE DEF OrderAt, NetInv, Orderly
<1> DEFINE k == knows[<<n, p>>][i]
           told == [k EXCEPT !.req = FALSE, !.pending = 1]
           o == content[n][i].obj
           sent == Message("create", n, p, {i}, o, content[n][i].version, TRUE)
<1>1. /\ knows' = [knows EXCEPT ![<<n, p>>][i] = told] /\ ~k.exists /\ k.pending = 0
      /\ net' = net \cup {sent}
      /\ UNCHANGED <<object, content, zombie, owner, reserved, mine, destroyer, doomed, local, acks,
                     connected, ready, accused, budget, maker, had, ended>>
      /\ Up(n) /\ Up(p) /\ object[n][i] # None
  BY DEF SendCreation, MaySend, Listed, orders, others, story
<1>2. sent.type = "create" /\ sent.from = n /\ sent.to = p /\ sent.ids = {i} /\ sent.obj = o
  BY DEF Message
<1>3. told.pending = 1 /\ told.exists = k.exists /\ told.exists = FALSE
  <2>1. k \in Knowledge
    BY DEF TypeOK
  <2> QED BY <1>1, <2>1 DEF Knowledge
<1>4. /\ n \in Node /\ p \in Node /\ n # p
      /\ <<n, p>>[1] = n /\ <<n, p>>[2] = p /\ (n = Server <=> p # Server)
  BY Links
<1>5. o = object[n][i] /\ o \in Object
  BY <1>1, <1>4 DEF RightContent, TypeOK
<1> HIDE DEF sent, told, k, o
<1>6. \A l \in Link, j \in Id :
        IF l = <<n, p>> /\ j = i THEN knows[l][j] = k /\ knows'[l][j] = told
                                 ELSE knows'[l][j] = knows[l][j]
  BY <1>1 DEF TypeOK, k
<1>7. ~Told(<<n, p>>, i)
  BY <1>1 DEF Told, k
<1>8. /\ o \notin had[p]
      /\ \A m \in Sent : m.type = "create" /\ m.from = n /\ m.to = p => m.obj # o
      /\ n # Server => n \in connected /\ o \in mine[n]
  <2>1. /\ o \notin had[p]
        /\ \A m \in Sent : m.type = "create" /\ m.from = n /\ m.to = p => m.obj # o
    BY <1>1, <1>4, <1>5, <1>7 DEF UntoldIsNew
  <2>2. ASSUME n # Server PROVE n \in connected /\ o \in mine[n]
    <3>1. n \in connected /\ p = Server
      BY <1>1, <1>4, <2>2 DEF Up
    <3> QED BY <1>1, <1>5, <3>1 DEF UntoldIsNew, k
  <2> QED BY <2>1, <2>2
<1>9. \A l \in Link, j \in Id :
        /\ Told(l, j) => Told(l, j)'
        /\ Told(l, j)' => Told(l, j) \/ (l = <<n, p>> /\ j = i)
        /\ knows'[l][j].exists = knows[l][j].exists
  BY <1>3, <1>6 DEF Told
<1>10. Told(<<n, p>>, i)'
  BY <1>3, <1>6 DEF Told
<1>11. Calm /\ LocalShrinks
  BY <1>1, <1>9 DEF Calm, LocalShrinks
<1>12. CreationsStay /\ SentByUp
  BY <1>1, <1>2 DEF CreationsStay, SentByUp, Sent
<1>13. NoOrder /\ OrdersStay
  BY <1>1, <1>2 DEF NoOrder, OrdersStay, Ordered
<1>14. GoneIsGone' /\ HadKnown' /\ MakerKnows' /\ LocalIsGone'
  BY <1>11, <1>12, CalmGone, CalmHadKnown, CalmMakerKnows, CalmLocal
<1>15. UntoldIsNew'
  <2>1. ASSUME NEW l \in Link, NEW j \in Id, Up(l[1])', Up(l[2])', object[l[1]][j] # None,
               ~Told(l, j)'
        PROVE  /\ object[l[1]][j] \notin had[l[2]]
               /\ \A m \in Sent' : m.type = "create" /\ m.from = l[1] /\ m.to = l[2] =>
                    m.obj # object[l[1]][j]
    <3>1. Up(l[1]) /\ Up(l[2]) /\ ~Told(l, j)
      BY <1>1, <1>9, <2>1 DEF Up
    <3>2. /\ object[l[1]][j] \notin had[l[2]]
          /\ \A m \in Sent : m.type = "create" /\ m.from = l[1] /\ m.to = l[2] =>
               m.obj # object[l[1]][j]
      BY <2>1, <3>1 DEF UntoldIsNew
    <3>3. ASSUME n = l[1], p = l[2], o = object[n][j]
          PROVE  FALSE
      <4>1. l = <<n, p>>
        BY <3>3, Links
      <4>2. j # i
        BY <1>10, <2>1, <4>1
      <4>3. object[n][j] = cur[j] /\ object[n][i] = cur[i]
        BY <1>1, <1>4, <2>1, <3>3 DEF Last
      <4> QED BY <1>5, <2>1, <3>3, <4>2, <4>3 DEF Distinct
    <3>4. \A m \in Sent' : m \in Sent \/ m = sent
      BY <1>1 DEF Sent
    <3> QED BY <1>2, <3>2, <3>3, <3>4
  <2>2. ASSUME NEW c \in connected, NEW j \in Id, object[c][j] # None,
               ~knows'[<<c, Server>>][j].exists
        PROVE  object[c][j] \in mine[c]
    <3>1. <<c, Server>> \in Link
      BY Links DEF TypeOK
    <3> QED BY <1>9, <2>2, <3>1 DEF UntoldIsNew
  <2> QED BY <1>1, <2>1, <2>2 DEF UntoldIsNew
<1>16. CreatedOnce'
  <2>1. ASSUME NEW m \in net, m.type = "create", m.to = p, m.obj = o
        PROVE  FALSE
    <3>1. m \in Sent /\ <<m.from, p>> \in Link /\ m.from # n
      BY <1>8, <2>1 DEF Sent, WiresOK, WireOK
    <3>2. m.from \in Client /\ n \in Client
      BY <1>4, <3>1 DEF Link, Node
    <3>3. o \in mine[m.from] /\ o \in mine[n]
      BY <1>8, <2>1, <3>1, <3>2, NodeAssumption DEF CreatedOnce
    <3> QED BY <3>1, <3>2, <3>3 DEF HadKnown
  <2>2. \A m \in net' : m \in net \/ m = sent
    BY <1>1
  <2>3. \A m \in Sent' : m \in Sent \/ m = sent
    BY <1>1 DEF Sent
  <2>4. \A m \in net' : m.type = "create" => m.obj \notin had[m.to]
    BY <1>2, <1>8, <2>2 DEF CreatedOnce
  <2>5. \A m, q \in net' :
          m.type = "create" /\ q.type = "create" /\ m.to = q.to /\ m.obj = q.obj => m = q
    BY <1>2, <2>1, <2>2 DEF CreatedOnce
  <2>6. \A m \in Sent' : m.type = "create" /\ m.from # Server => m.obj \in mine[m.from]
    BY <1>2, <1>8, <2>3 DEF CreatedOnce
  <2> QED BY <1>1, <2>4, <2>5, <2>6 DEF CreatedOnce
<1>17. ToldArrives'
  <2> SUFFICES ASSUME NEW c \in connected, NEW j \in Id, object[c][j] # None,
                      Told(<<c, Server>>, j)'
               PROVE  \/ object[c][j] \in had[Server]
                      \/ \E m \in net' : m.type = "create" /\ m.from = c /\ m.obj = object[c][j]
    BY <1>1 DEF ToldArrives
  <2>1. <<c, Server>> \in Link
    BY Links DEF TypeOK
  <2>2. CASE Told(<<c, Server>>, j)
    BY <1>1, <2>2 DEF ToldArrives
  <2>3. CASE <<c, Server>> = <<n, p>> /\ j = i
    BY <1>1, <1>2, <1>5, <2>3
  <2> QED BY <1>9, <2>1, <2>2, <2>3
<1>18. MakerRules' /\ OrdersAreFor(cur)'
  BY <1>1, <1>11, <1>12, <1>13, CalmMakerRules, CalmOrders
<1>19. NoOrphan'
  <2> SUFFICES ASSUME NEW c \in connected, NEW j \in Id, NEW q \in Object,
                      \/ object[c][j] = q /\ j \notin zombie[c] /\ q \notin mine[c]
                      \/ \E m \in net' : m.type = "create" /\ m.to = c /\ j \in m.ids /\ m.obj = q,
                      object[Server][j] # q
               PROVE  Ordered(Server, c, j)
    BY <1>1, <1>13 DEF NoOrphan, OrdersStay
  <2>1. CASE \/ object[c][j] = q /\ j \notin zombie[c] /\ q \notin mine[c]
             \/ \E m \in net : m.type = "create" /\ m.to = c /\ j \in m.ids /\ m.obj = q
    BY <2>1 DEF NoOrphan
  <2>2. CASE c = p /\ j = i /\ q = o
    <3>1. n = Server
      BY <1>4, <2>2, Links DEF TypeOK
    <3> QED BY <1>5, <2>2, <3>1
  <2> QED BY <1>1, <1>2, <2>1, <2>2
<1> QED BY <1>14, <1>15, <1>16, <1>17, <1>18, <1>19 DEF OrderKept

(* Of an object that a client has destroyed nothing is shown, or coming.   *)
LEMMA LocalIsOver ==
  ASSUME NEW cur, OrderAt(cur), NEW c \in connected, NEW i \in local[c]
  PROVE  /\ c \in Client /\ i \in Id /\ object[c][i] = None /\ cur[i] \in mine[c]
         /\ ~\E m \in net : m.type = "create" /\ m.to = c /\ i \in m.ids
<1> USE DEF OrderAt, NetInv, Orderly
<1>1. c \in Client /\ i \in Id
  BY Links DEF TypeOK
<1>2. object[c][i] = None /\ cur[i] \in mine[c]
  BY <1>1 DEF LocalIsGone, OrdersAreFor
<1>3. ASSUME NEW m \in net, m.type = "create", m.to = c, i \in m.ids
      PROVE  FALSE
  <2>1. m \in Sent /\ m.ack
    BY <1>3 DEF WiresOK, WireOK, Sent
  <2>2. m.obj = cur[i]
    BY <1>3, <2>1 DEF Last
  <2>3. cur[i] \in had[c]
    BY <1>1, <1>2, Links DEF HadKnown
  <2> QED BY <1>3, <2>2, <2>3 DEF CreatedOnce
<1> QED BY <1>1, <1>2, <1>3

(* A destroy message becomes orders, but for objects that the client has   *)
(* destroyed itself, and for players that the server keeps.                *)
LEMMA ReceiveDestroyOrders ==
  ASSUME NEW cur, OrderAt(cur), NEW m \in net, ReceiveDestroy(m)
  PROVE  OrderKept(cur)
<1> USE DEF OrderAt, NetInv, Orderly
<1> DEFINE n == m.to
           news == m.ids \ local[n]
           players == {i \in news : n = Server /\ object[n][i] # None /\ i \notin zombie[n]}
<1>1. /\ UNCHANGED <<object, zombie, owner, reserved, destroyer, connected, ready, accused,
                     budget, maker, had, ended>>
      /\ local' = [local EXCEPT ![n] = @ \ m.ids]
      /\ Handled(m) /\ m.type = "destroy"
  BY DEF ReceiveDestroy, others, story
<1>2. /\ WireOK(m) /\ m.ack /\ n \in Node /\ m.from \in Node /\ m.ids \in SUBSET Id
      /\ <<m.from, n>> \in Link
  BY <1>1 DEF WiresOK, WireOK, Wire, Sent
<1>3. PICK kept \in SUBSET players :
        /\ TakeOver(kept)
        /\ doomed' = [doomed EXCEPT ![n] =
             @ \cup {[id |-> i, from |-> m.from] : i \in news \ kept}]
  BY DEF ReceiveDestroy
<1>4. kept \in SUBSET Id /\ \A i \in kept : n = Server /\ object[Server][i] # None /\ i \in m.ids
  BY <1>2, <1>3
<1>5. \A l \in Link, i \in Id : /\ knows'[l][i].exists = knows[l][i].exists
                                /\ knows'[l][i].pending = knows[l][i].pending
  <2>1. TypeOK /\ \A i \in kept : object[Server][i] # None
    BY <1>4
  <2> QED BY ONLY <1>3, <1>4, <2>1, TakeOverTyped
<1>6. /\ \A c \in Client : mine'[c] = mine[c]
      /\ \A o \in mine'[Server] : o \in mine[Server] \/ \E i \in kept : o = object[Server][i]
  <2>1. mine' = [mine EXCEPT ![Server] = @ \cup {object[Server][i] : i \in kept}]
    BY <1>3 DEF TakeOver
  <2>2. mine \in [Node -> SUBSET Object]
    BY DEF TypeOK
  <2>3. Server \in Node /\ \A c \in Client : c \in Node /\ c # Server
    BY Links
  <2>4. mine'[Server] = mine[Server] \cup {object[Server][i] : i \in kept}
    BY ONLY <2>1, <2>2, <2>3
  <2> QED BY ONLY <2>1, <2>2, <2>3, <2>4
<1> DEFINE fresh == {[id |-> i, from |-> m.from] : i \in news \ kept}
<1>7. ASSUME NEW i \in m.ids, i \notin local[n], i \notin kept
      PROVE  \E d \in fresh : d.id = i /\ d.from = m.from
  <2> DEFINE e == [id |-> i, from |-> m.from]
  <2>1. e \in fresh /\ e.id = i /\ e.from = m.from
    BY <1>7
  <2> QED BY <2>1
<1>8. \A d \in fresh : d.id \in m.ids /\ d.from = m.from
  OBVIOUS
<1>9. doomed' = [doomed EXCEPT ![n] = @ \cup fresh]
  BY <1>3
<1> HIDE DEF fresh, players, news
<1>10. \A p \in Node : doomed'[p] = IF p = n THEN doomed[p] \cup fresh ELSE doomed[p]
  BY <1>2, <1>9 DEF TypeOK
<1>11. \A p \in Node : local'[p] = IF p = n THEN local[p] \ m.ids ELSE local[p]
  BY <1>1, <1>2 DEF TypeOK
<1>12. net' = net \ {m} /\ Sent' \subseteq Sent
  BY <1>1 DEF Handled, Sent
<1>13. ASSUME NEW l \in Link, NEW i \in Id
       PROVE  /\ Ordered(l[1], l[2], i)' => Ordered(l[1], l[2], i)
              /\ Ordered(l[1], l[2], i) =>
                   \/ Ordered(l[1], l[2], i)'
                   \/ l[1] = m.from /\ l[2] = n /\ i \in m.ids /\ (i \in local[n] \/ i \in kept)
  <2>1. l[2] \in Node
    BY Links
  <2>2. Ordered(l[1], l[2], i)' => Ordered(l[1], l[2], i)
    <3>1. \A d \in doomed'[l[2]] : d \in doomed[l[2]] \/ (l[2] = n /\ d \in fresh)
      BY <1>10, <2>1
    <3>2. \A d \in fresh : l[2] = n /\ d.from = l[1] /\ d.id = i =>
            m.type = "destroy" /\ m.from = l[1] /\ m.to = l[2] /\ i \in m.ids
      BY <1>1, <1>8
    <3>3. destroyer' = destroyer /\ net' \subseteq net
      BY <1>1, <1>12
    <3> QED BY <3>1, <3>2, <3>3 DEF Ordered
  <2>3. ASSUME Ordered(l[1], l[2], i), ~Ordered(l[1], l[2], i)'
        PROVE  l[1] = m.from /\ l[2] = n /\ i \in m.ids /\ (i \in local[n] \/ i \in kept)
    <3>1. l[1] = m.from /\ l[2] = n /\ i \in m.ids
      <4>1. destroyer' = destroyer /\ net' = net \ {m} /\ doomed[l[2]] \subseteq doomed'[l[2]]
        BY <1>1, <1>10, <1>12, <2>1
      <4> QED BY <2>3, <4>1 DEF Ordered
    <3>2. fresh \subseteq doomed'[n]
      BY <1>2, <1>10
    <3>3. ~\E d \in fresh : d.id = i /\ d.from = m.from
      BY <2>3, <3>1, <3>2 DEF Ordered
    <3> QED BY <1>7, <3>1, <3>3
  <2> QED BY <2>2, <2>3
<1>14. NoOrder
  BY <1>13 DEF NoOrder
<1>15. \A l \in Link, i \in Id : Told(l, i)' <=> Told(l, i)
  BY <1>5 DEF Told
<1>16. Calm /\ LocalShrinks
  <2>1. \A i \in kept : object[Server][i] \in had[Server]
    BY <1>4, Links DEF HadAll
  <2> QED BY <1>1, <1>5, <1>6, <1>11, <1>15, <2>1 DEF Calm, LocalShrinks
<1>17. NoCreation /\ CreationsStay /\ SentByUp
  BY <1>1, <1>12 DEF NoCreation, CreationsStay, SentByUp
<1>18. GoneIsGone' /\ HadKnown' /\ MakerKnows' /\ LocalIsGone'
  BY <1>16, <1>17, CalmGone, CalmHadKnown, CalmMakerKnows, CalmLocal
<1>19. UntoldIsNew' /\ CreatedOnce'
  BY <1>16, <1>17, CalmUntold, CalmCreated
<1>20. \A c \in connected : /\ c \in Client /\ c \in Node /\ c # Server
                            /\ <<c, Server>> \in Link /\ <<Server, c>> \in Link
                            /\ <<c, Server>>[1] = c /\ <<c, Server>>[2] = Server
                            /\ <<Server, c>>[1] = Server /\ <<Server, c>>[2] = c
  BY Links DEF TypeOK
<1>21. ToldArrives'
  BY <1>15, <1>16, <1>17, <1>20, CalmToldArrives
<1>22. MakerRules'
  <2>4. /\ connected' = connected /\ object' = object /\ had' = had /\ zombie' = zombie
        /\ \A c \in connected : mine'[c] = mine[c]
    BY <1>1, <1>6, <1>20
  <2> SUFFICES ASSUME NEW c \in connected, NEW j \in Id, object[c][j] \in mine[c]
               PROVE  /\ ~Ordered(Server, c, j)'
                      /\ object[c][j] \in had[Server] =>
                           /\ object[Server][j] = object[c][j]
                           /\ object[c][j] \notin mine'[Server] /\ j \notin zombie[Server]
    BY <2>4 DEF MakerRules
  <2>1. /\ ~Ordered(Server, c, j)
        /\ object[c][j] \in had[Server] =>
             /\ object[Server][j] = object[c][j]
             /\ object[c][j] \notin mine[Server] /\ j \notin zombie[Server]
    BY DEF MakerRules
  <2>2. ~Ordered(Server, c, j)'
    BY <1>13, <1>20, <2>1
  <2>3. ASSUME NEW i \in kept, object[c][j] = object[Server][i]
        PROVE  FALSE
    <3>1. n = Server /\ object[Server][i] # None /\ i \in m.ids /\ i \in Id
      BY <1>4
    <3>2. m.from \in Client
      BY <1>2, <3>1, Links DEF Node
    <3>3. Ordered(m.from, Server, i)
      BY <1>1, <3>1 DEF Ordered
    <3>4. cur[i] # None /\ maker[cur[i]] = m.from /\ object[m.from][i] \notin mine[m.from]
      BY <3>1, <3>2, <3>3 DEF OrdersAreFor
    <3>5. object[Server][i] = cur[i]
      BY <3>1, Links DEF Last
    <3>6. object[c][j] = cur[j]
      BY <1>20, <2>3, <3>1 DEF Last
    <3>7. i = j
      BY <2>3, <3>1, <3>4, <3>5, <3>6 DEF Distinct
    <3>8. maker[cur[i]] = c
      <4>1. cur[i] \in mine[c]
        BY <2>3, <3>5
      <4> QED BY <1>20, <4>1 DEF HadKnown
    <3> QED BY <3>4, <3>7, <3>8
  <2> QED BY <1>6, <2>1, <2>2, <2>3
<1>23. OrdersAreFor(cur)'
  <2>1. ASSUME NEW c \in Client, NEW i \in Id, Ordered(c, Server, i)'
        PROVE  cur[i] # None /\ maker[cur[i]] = c /\ object[c][i] \notin mine[c]
    <3>1. <<c, Server>> \in Link /\ <<c, Server>>[1] = c /\ <<c, Server>>[2] = Server
      BY Links
    <3>2. Ordered(c, Server, i)
      BY <1>13, <2>1, <3>1
    <3> QED BY <3>2 DEF OrdersAreFor
  <2>2. ASSUME NEW c \in connected, NEW i \in local'[c]
        PROVE  /\ cur[i] \in mine[c]
               /\ IF cur[i] \in had[Server]
                  THEN object[Server][i] = cur[i] \/ Ordered(Server, c, i)'
                  ELSE /\ Ordered(c, Server, i)'
                       /\ \E q \in net' : q.type = "create" /\ q.from = c /\ i \in q.ids
    <3>1. i \in local[c] /\ (n = c => i \notin m.ids)
      BY <1>11, <1>20, <2>2
    <3>2. cur[i] \in mine[c] /\ i \in Id
      BY <3>1, LocalIsOver
    <3>3. CASE cur[i] \in had[Server]
      <4>1. object[Server][i] = cur[i] \/ Ordered(Server, c, i)
        BY <3>1, <3>3 DEF OrdersAreFor
      <4>2. Ordered(Server, c, i) => Ordered(Server, c, i)'
        BY <1>13, <1>20, <3>1, <3>2
      <4> QED BY <3>2, <3>3, <4>1, <4>2
    <3>4. CASE cur[i] \notin had[Server]
      <4>1. /\ Ordered(c, Server, i)
            /\ \E q \in net : q.type = "create" /\ q.from = c /\ i \in q.ids
        BY <3>1, <3>4 DEF OrdersAreFor
      <4>2. object[Server][i] = None
        BY <3>2, <3>4, Links DEF HadAll, Last
      <4>3. Ordered(c, Server, i)'
        <5>1. i \notin kept
          BY <1>4, <4>2
        <5>2. n = Server => i \notin local[n]
          BY DEF LocalIsGone
        <5> QED BY <1>13, <1>20, <3>2, <4>1, <5>1, <5>2
      <4> QED BY <1>17, <3>2, <3>4, <4>1, <4>3 DEF CreationsStay
    <3> QED BY <3>3, <3>4
  <2>3. /\ connected' = connected /\ object' = object /\ had' = had /\ maker' = maker
        /\ \A c \in Client : mine'[c] = mine[c]
    BY <1>1, <1>6
  <2>4. \A c \in connected : c \in Client
    BY <1>20
  <2> QED BY ONLY <2>1, <2>2, <2>3, <2>4 DEF OrdersAreFor
<1>24. NoOrphan'
  <2> SUFFICES ASSUME NEW c \in connected, NEW i \in Id, NEW o \in Object,
                      \/ object[c][i] = o /\ i \notin zombie[c] /\ o \notin mine[c]
                      \/ \E q \in net' : q.type = "create" /\ q.to = c /\ i \in q.ids /\ q.obj = o,
                      object[Server][i] # o
               PROVE  Ordered(Server, c, i)'
    BY <1>1, <1>6, <1>20 DEF NoOrphan
  <2>1. \/ object[c][i] = o /\ i \notin zombie[c] /\ o \notin mine[c]
        \/ \E q \in net : q.type = "create" /\ q.to = c /\ i \in q.ids /\ q.obj = o
    BY <1>12
  <2>2. Ordered(Server, c, i)
    BY <2>1 DEF NoOrphan
  <2>3. i \notin local[c]
    <3>1. o # None
      BY DEF Object, None
    <3> QED BY <2>1, <3>1, LocalIsOver
  <2>4. n = c => i \notin kept
    BY <1>4, <1>20
  <2> QED BY <1>13, <1>20, <2>2, <2>3, <2>4
<1> QED BY <1>18, <1>19, <1>21, <1>22, <1>23, <1>24 DEF OrderKept

LEMMA Connected ==
  ASSUME TypeOK, NEW c \in connected
  PROVE  /\ c \in Client /\ c \in Node /\ c # Server
         /\ <<c, Server>> \in Link /\ <<Server, c>> \in Link
         /\ <<c, Server>>[1] = c /\ <<c, Server>>[2] = Server
         /\ <<Server, c>>[1] = Server /\ <<Server, c>>[2] = c
BY Links DEF TypeOK

(* A node drops an order.                                                  *)
Dropped(n, d) ==
  /\ UNCHANGED <<object, knows, mine, destroyer, net, acks, connected, maker, had>>
  /\ \A p \in Node : doomed'[p] = IF p = n THEN doomed[p] \ {d} ELSE doomed[p]
  /\ \A p \in Node : local'[p] = IF p = n THEN local[p] \ {d.id} ELSE local[p]

LEMMA DroppedOrders ==
  ASSUME NetInv, NEW n \in Node, NEW d \in doomed[n], Dropped(n, d)
  PROVE  /\ Calm /\ NoCreation /\ CreationsStay /\ SentByUp /\ LocalShrinks /\ NoOrder
         /\ \A l \in Link, i \in Id :
              Ordered(l[1], l[2], i) =>
                Ordered(l[1], l[2], i)' \/ (l[1] = d.from /\ l[2] = n /\ i = d.id)
<1> USE DEF NetInv
<1>1. Calm /\ NoCreation /\ CreationsStay /\ SentByUp
  BY DEF Dropped, Calm, Told, NoCreation, CreationsStay, SentByUp, Sent
<1>2. LocalShrinks
  BY DEF Dropped, LocalShrinks
<1>3. ASSUME NEW l \in Link, NEW i \in Id
      PROVE  /\ Ordered(l[1], l[2], i)' => Ordered(l[1], l[2], i)
             /\ Ordered(l[1], l[2], i) =>
                  Ordered(l[1], l[2], i)' \/ (l[1] = d.from /\ l[2] = n /\ i = d.id)
  <2>1. l[2] \in Node
    BY Links
  <2>2. \A e \in doomed[l[2]] : e \in doomed'[l[2]] \/ (l[2] = n /\ e = d)
    BY <2>1 DEF Dropped
  <2>3. \A e \in doomed'[l[2]] : e \in doomed[l[2]]
    BY <2>1 DEF Dropped
  <2>4. destroyer' = destroyer /\ net' = net
    BY DEF Dropped
  <2> QED BY <2>2, <2>3, <2>4 DEF Ordered
<1> QED BY <1>1, <1>2, <1>3 DEF NoOrder

(* What holds of it whatever becomes of the order.                         *)
LEMMA DroppedKeeps ==
  ASSUME NEW cur, OrderAt(cur), NEW n \in Node, NEW d \in doomed[n], Dropped(n, d)
  PROVE  /\ GoneIsGone' /\ HadKnown' /\ UntoldIsNew' /\ CreatedOnce'
         /\ MakerKnows' /\ LocalIsGone' /\ ToldArrives'
<1> USE DEF OrderAt, NetInv, Orderly
<1>1. Calm /\ NoCreation /\ CreationsStay /\ SentByUp /\ LocalShrinks
  BY DroppedOrders
<1>2. GoneIsGone' /\ HadKnown' /\ MakerKnows' /\ LocalIsGone'
  BY <1>1, CalmGone, CalmHadKnown, CalmMakerKnows, CalmLocal
<1>3. UntoldIsNew' /\ CreatedOnce'
  BY <1>1, CalmUntold, CalmCreated
<1>4. ToldArrives'
  BY <1>1, CalmToldArrives DEF Dropped, Told
<1> QED BY <1>2, <1>3, <1>4

LEMMA ExpireDestroyOrders ==
  ASSUME NEW cur, OrderAt(cur), NEW n \in Node, NEW d \in doomed[n], ExpireDestroy(n, d)
  PROVE  OrderKept(cur)
<1> USE DEF OrderAt, NetInv, Orderly
<1> DEFINE i == d.id
<1>1. /\ UNCHANGED <<object, content, knows, zombie, owner, reserved, mine, destroyer,
                     net, acks, connected, ready, accused, budget, maker, had, ended>>
      /\ doomed' = [doomed EXCEPT ![n] = @ \ {d}]
      /\ local' = [local EXCEPT ![n] = @ \ {i}]
      /\ object[n][i] = None
      /\ \A m \in net : ~(m.to = n /\ m.from = d.from /\ m.ack /\ i \in m.ids)
  BY DEF ExpireDestroy, tables, wires, others, story
<1>2. Dropped(n, d)
  BY <1>1 DEF Dropped, TypeOK
<1>3. /\ Calm /\ NoCreation /\ CreationsStay /\ SentByUp /\ LocalShrinks /\ NoOrder
      /\ \A l \in Link, j \in Id :
           Ordered(l[1], l[2], j) =>
             Ordered(l[1], l[2], j)' \/ (l[1] = d.from /\ l[2] = n /\ j = i)
  BY <1>2, DroppedOrders
<1>4. \A m \in net : m.type = "create" => m.ack /\ <<m.from, m.to>> \in Link
  BY DEF WiresOK, WireOK, Sent
<1>5. MakerRules'
  BY <1>1, <1>3, CalmMakerRules
<1>6. OrdersAreFor(cur)'
  <2>1. ASSUME NEW c \in Client, NEW j \in Id, Ordered(c, Server, j)'
        PROVE  cur[j] # None /\ maker[cur[j]] = c /\ object[c][j] \notin mine[c]
    <3>1. <<c, Server>> \in Link /\ <<c, Server>>[1] = c /\ <<c, Server>>[2] = Server
      BY Links
    <3>2. Ordered(c, Server, j)
      BY <1>3, <2>1, <3>1 DEF NoOrder
    <3> QED BY <3>2 DEF OrdersAreFor
  <2>2. ASSUME NEW c \in connected, NEW j \in local'[c]
        PROVE  /\ cur[j] \in mine[c]
               /\ IF cur[j] \in had[Server]
                  THEN object[Server][j] = cur[j] \/ Ordered(Server, c, j)'
                  ELSE /\ Ordered(c, Server, j)'
                       /\ \E q \in net' : q.type = "create" /\ q.from = c /\ j \in q.ids
    <3>1. c \in Client /\ c \in Node
      BY Connected
    <3>2. j \in local[c] /\ (n = c => j # i)
      BY <1>2, <2>2, <3>1 DEF Dropped
    <3>3. cur[j] \in mine[c] /\ j \in Id
      BY <3>2, LocalIsOver
    <3>4. CASE cur[j] \in had[Server]
      <4>1. object[Server][j] = cur[j] \/ Ordered(Server, c, j)
        BY <3>2, <3>4 DEF OrdersAreFor
      <4>2. Ordered(Server, c, j) => Ordered(Server, c, j)'
        BY <1>3, <3>2, <3>3, Connected
      <4> QED BY <3>3, <3>4, <4>1, <4>2
    <3>5. CASE cur[j] \notin had[Server]
      <4>1. Ordered(c, Server, j)
        BY <3>2, <3>5 DEF OrdersAreFor
      <4>2. PICK q \in net : q.type = "create" /\ q.from = c /\ j \in q.ids
        BY <3>2, <3>5 DEF OrdersAreFor
      <4>3. q.ack /\ q.to = Server
        BY <1>4, <3>1, <4>2, Links
      <4>4. Ordered(c, Server, j)'
        <5>1. ~(c = d.from /\ n = Server /\ j = i)
          BY <1>1, <4>2, <4>3
        <5> QED BY <1>3, <3>3, <4>1, <5>1, Connected
      <4> QED BY <1>1, <3>3, <3>5, <4>2, <4>4
    <3> QED BY <3>4, <3>5
  <2>3. /\ connected' = connected /\ object' = object /\ had' = had /\ maker' = maker
        /\ mine' = mine
    BY <1>1
  <2> QED BY ONLY <2>1, <2>2, <2>3 DEF OrdersAreFor
<1>7. NoOrphan'
  <2>1. UNCHANGED <<object, connected, zombie, mine, net>>
    BY <1>1
  <2> SUFFICES ASSUME NEW c \in connected, NEW j \in Id, NEW o \in Object,
                      \/ object[c][j] = o /\ j \notin zombie[c] /\ o \notin mine[c]
                      \/ \E q \in net : q.type = "create" /\ q.to = c /\ j \in q.ids /\ q.obj = o,
                      object[Server][j] # o
               PROVE  Ordered(Server, c, j)'
    BY <2>1 DEF NoOrphan
  <2>2. Ordered(Server, c, j)
    BY DEF NoOrphan
  <2>3. ~(n = c /\ j = i /\ d.from = Server)
    <3>1. o # None
      BY DEF Object, None
    <3>2. ASSUME NEW q \in net, q.type = "create", q.to = c PROVE q.from = Server
      BY <1>4, <3>2, Connected DEF Link
    <3> QED BY <1>1, <1>4, <3>1, <3>2
  <2> QED BY <1>3, <2>2, <2>3, Connected
<1> QED BY <1>2, <1>5, <1>6, <1>7, DroppedKeeps DEF OrderKept, Orderly

(* An order is executed: the object is to be deleted.  Who orders it has   *)
(* destroyed the object, or the server has; it is no more on its way.      *)
LEMMA DoDestroyOrders ==
  ASSUME NEW cur, OrderAt(cur), NEW n \in Node, NEW d \in doomed[n], DoDestroy(n, d),
         ~(d.from \in connected /\ Cheater(d.from, {d}))
  PROVE  OrderKept(cur)
<1> USE DEF OrderAt, NetInv, Orderly
<1> DEFINE i == d.id
<1>1. /\ i \in Id /\ d.from \in Node /\ <<d.from, n>> \in Link
      /\ object[n][i] # None /\ object[n][i] = cur[i] /\ object[n][i] \in had[n]
  <2>1. i \in Id /\ d.from \in Node /\ <<d.from, n>> \in Link
    BY DEF TypeOK, OrdersOnLinks
  <2>2. object[n][i] # None
    BY DEF DoDestroy
  <2> QED BY <2>1, <2>2 DEF Last, HadAll
<1>2. i \notin local[n]
  <2>1. CASE n = Server
    BY <2>1 DEF LocalIsGone
  <2>2. CASE n # Server
    BY <1>1, <2>2 DEF LocalIsGone, Node
  <2> QED BY <2>1, <2>2
<1>3. CASE /\ n = Server /\ d.from \notin connected
           /\ doomed' = [doomed EXCEPT ![n] = @ \ {d}]
           /\ UNCHANGED <<tables, destroyer, local, wires, others, story>>
  <2>1. UNCHANGED <<object, content, knows, zombie, owner, reserved, mine, destroyer, local,
                    net, acks, connected, ready, accused, budget, maker, had, ended>>
    BY <1>3 DEF tables, wires, others, story
  <2>2. Dropped(n, d)
    BY <1>2, <1>3, <2>1 DEF Dropped, TypeOK
  <2>3. /\ Calm /\ NoCreation /\ CreationsStay /\ SentByUp /\ LocalShrinks /\ NoOrder
        /\ \A l \in Link, j \in Id :
             Ordered(l[1], l[2], j) =>
               Ordered(l[1], l[2], j)' \/ (l[1] = d.from /\ l[2] = n /\ j = i)
    BY <2>2, DroppedOrders
  <2>4. OrdersStay
    <3>1. ASSUME NEW c \in connected, NEW j \in Id
          PROVE  /\ Ordered(Server, c, j) => Ordered(Server, c, j)'
                 /\ Ordered(c, Server, j) => Ordered(c, Server, j)'
      <4>1. c # d.from /\ c # n
        BY <1>3, Connected
      <4> QED BY <2>3, <4>1, Connected
    <3> QED BY <3>1 DEF OrdersStay
  <2> QED BY <2>1, <2>3, <2>4, CalmKeeps DEF Told
<1>4. CASE /\ n = Server => OwnerOf(i) = d.from
           /\ doomed' = [doomed EXCEPT ![n] = @ \ {d}]
           /\ local' = [local EXCEPT ![n] = @ \ {i}]
           /\ zombie' = [zombie EXCEPT ![n] = @ \cup {i}]
           /\ UNCHANGED <<object, content, knows, reserved, mine, destroyer, wires, others, story>>
  <2>1. UNCHANGED <<object, content, knows, reserved, mine, destroyer,
                    net, acks, connected, ready, accused, budget, maker, had, ended>>
    BY <1>4 DEF wires, others, story
  <2>2. Dropped(n, d)
    BY <1>4, <2>1 DEF Dropped, TypeOK
  <2>3. \A p \in Node : zombie'[p] = IF p = n THEN zombie[p] \cup {i} ELSE zombie[p]
    BY <1>4 DEF TypeOK
  <2>4. /\ Calm /\ NoCreation /\ CreationsStay /\ SentByUp /\ LocalShrinks /\ NoOrder
        /\ \A l \in Link, j \in Id :
             Ordered(l[1], l[2], j) =>
               Ordered(l[1], l[2], j)' \/ (l[1] = d.from /\ l[2] = n /\ j = i)
    BY <2>2, DroppedOrders
  <2>5. MakerRules'
    <3>1. UNCHANGED <<object, connected, mine, had>>
      BY <2>1
    <3> SUFFICES ASSUME NEW c \in connected, NEW j \in Id, object[c][j] \in mine[c]
                 PROVE  /\ ~Ordered(Server, c, j)'
                        /\ object[c][j] \in had[Server] =>
                             /\ object[Server][j] = object[c][j]
                             /\ object[c][j] \notin mine[Server] /\ j \notin zombie'[Server]
      BY <3>1 DEF MakerRules
    <3>2. /\ ~Ordered(Server, c, j)
          /\ object[c][j] \in had[Server] =>
               /\ object[Server][j] = object[c][j]
               /\ object[c][j] \notin mine[Server] /\ j \notin zombie[Server]
      BY DEF MakerRules
    <3>3. ~Ordered(Server, c, j)'
      BY <2>4, <3>2, Connected DEF NoOrder
    <3>4. ASSUME n = Server, j = i, object[Server][i] = object[c][i]
          PROVE  FALSE
      <4>1. d.from \in Client
        BY <1>1, <3>4, Links DEF Node
      <4>2. maker[object[Server][i]] = d.from
        BY <1>4, <3>4, <4>1, Links DEF OwnerOf
      <4>3. maker[object[c][i]] = c
        BY <3>4, Connected DEF HadKnown
      <4>4. Ordered(d.from, Server, i)
        BY <3>4 DEF Ordered
      <4> QED BY <1>1, <3>4, <4>1, <4>2, <4>3, <4>4 DEF OrdersAreFor
    <3>5. ASSUME object[c][j] \in had[Server] PROVE j \notin zombie'[Server]
      <4>1. zombie'[Server] = IF n = Server THEN zombie[Server] \cup {i} ELSE zombie[Server]
        BY <2>3, Links
      <4> QED BY <3>2, <3>4, <3>5, <4>1
    <3> QED BY <3>2, <3>3, <3>5
  <2>6. OrdersAreFor(cur)'
    <3>1. ASSUME NEW c \in Client, NEW j \in Id, Ordered(c, Server, j)'
          PROVE  cur[j] # None /\ maker[cur[j]] = c /\ object[c][j] \notin mine[c]
      <4>1. <<c, Server>> \in Link /\ <<c, Server>>[1] = c /\ <<c, Server>>[2] = Server
        BY Links
      <4>2. Ordered(c, Server, j)
        BY <2>4, <3>1, <4>1 DEF NoOrder
      <4> QED BY <4>2 DEF OrdersAreFor
    <3>2. ASSUME NEW c \in connected, NEW j \in local'[c]
          PROVE  /\ cur[j] \in mine[c]
                 /\ IF cur[j] \in had[Server]
                    THEN object[Server][j] = cur[j] \/ Ordered(Server, c, j)'
                    ELSE /\ Ordered(c, Server, j)'
                         /\ \E q \in net' : q.type = "create" /\ q.from = c /\ j \in q.ids
      <4>1. j \in local[c] /\ (n = c => j # i)
        <5>1. c \in Node
          BY Connected
        <5> QED BY <2>2, <3>2, <5>1 DEF Dropped
      <4>2. cur[j] \in mine[c] /\ j \in Id
        BY <4>1, LocalIsOver
      <4>3. CASE cur[j] \in had[Server]
        <5>1. object[Server][j] = cur[j] \/ Ordered(Server, c, j)
          BY <4>1, <4>3 DEF OrdersAreFor
        <5>2. Ordered(Server, c, j) => Ordered(Server, c, j)'
          BY <2>4, <4>1, <4>2, Connected
        <5> QED BY <4>2, <4>3, <5>1, <5>2
      <4>4. CASE cur[j] \notin had[Server]
        <5>1. /\ Ordered(c, Server, j)
              /\ \E q \in net : q.type = "create" /\ q.from = c /\ j \in q.ids
          BY <4>1, <4>4 DEF OrdersAreFor
        <5>2. ~(n = Server /\ j = i)
          BY <1>1, <4>4
        <5>3. Ordered(c, Server, j)'
          BY <2>4, <4>2, <5>1, <5>2, Connected
        <5> QED BY <2>1, <4>2, <4>4, <5>1, <5>3
      <4> QED BY <4>3, <4>4
    <3>3. /\ connected' = connected /\ object' = object /\ had' = had /\ maker' = maker
          /\ mine' = mine
      BY <2>1
    <3> QED BY ONLY <3>1, <3>2, <3>3 DEF OrdersAreFor
  <2>7. NoOrphan'
    <3>1. UNCHANGED <<object, connected, mine, net>>
      BY <2>1
    <3> SUFFICES ASSUME NEW c \in connected, NEW j \in Id, NEW o \in Object,
                        \/ object[c][j] = o /\ j \notin zombie'[c] /\ o \notin mine[c]
                        \/ \E q \in net : q.type = "create" /\ q.to = c /\ j \in q.ids /\ q.obj = o,
                        object[Server][j] # o
                 PROVE  Ordered(Server, c, j)'
      BY <3>1 DEF NoOrphan
    <3>2. zombie[c] \subseteq zombie'[c] /\ (n = c => i \in zombie'[c])
      BY <2>3, Connected
    <3>3. Ordered(Server, c, j)
      BY <3>2 DEF NoOrphan
    <3>4. ~(n = c /\ j = i)
      <4> SUFFICES ASSUME n = c, j = i PROVE FALSE
        OBVIOUS
      <4>1. PICK q \in net : q.type = "create" /\ q.to = c /\ i \in q.ids
        BY <3>2
      <4>2. q.obj = cur[i]
        BY <4>1 DEF WiresOK, WireOK, Sent, Last
      <4> QED BY <1>1, <4>1, <4>2 DEF CreatedOnce
    <3> QED BY <2>4, <3>3, <3>4, Connected
  <2> QED BY <2>2, <2>5, <2>6, <2>7, DroppedKeeps DEF OrderKept, Orderly
<1> QED BY <1>2, <1>3, <1>4 DEF DoDestroy

(* The server informs every client that shows or awaits its object.        *)
LEMMA AllAreInformed ==
  ASSUME NEW cur, OrderAt(cur), NEW c \in connected, NEW i \in Id, object[Server][i] # None,
         \/ object[c][i] = object[Server][i]
         \/ \E m \in net : /\ m.type = "create" /\ m.to = c /\ i \in m.ids
                           /\ m.obj = object[Server][i]
         \/ object[Server][i] \in mine[c]
  PROVE  c \in Informed(Server, i)
<1> USE DEF OrderAt, NetInv, Orderly
<1> DEFINE l == <<Server, c>>
<1>1. /\ c \in Client /\ c \in Node /\ c # Server /\ l \in Link /\ l[1] = Server /\ l[2] = c
      /\ Up(Server) /\ Up(c) /\ Server \in Node
  BY Connected, Links DEF Up
<1>2. Told(l, i)
  <2>1. ASSUME object[c][i] = object[Server][i]
        PROVE  object[Server][i] \in had[c]
    BY <1>1, <2>1 DEF HadAll
  <2>2. ASSUME NEW m \in net, m.type = "create", m.to = c, i \in m.ids, m.obj = object[Server][i]
        PROVE  m \in Sent /\ m.from = Server
    BY <1>1, <2>2 DEF Sent, WiresOK, WireOK, Link
  <2>3. ASSUME object[Server][i] \in mine[c]
        PROVE  object[Server][i] \in had[c]
    BY <1>1, <2>3 DEF HadKnown
  <2>4. ~Told(l, i) => /\ object[l[1]][i] \notin had[l[2]]
                       /\ \A m \in Sent : m.type = "create" /\ m.from = l[1] /\ m.to = l[2] =>
                            m.obj # object[l[1]][i]
    BY <1>1 DEF UntoldIsNew
  <2> HIDE DEF l
  <2> QED BY <1>1, <2>1, <2>2, <2>3, <2>4
<1> QED BY <1>1, <1>2 DEF Informed, Told, Peers

(* Node n deletes objects: its own, or those that it was ordered to.       *)
Deleted(n, ids) ==
  /\ \A p \in Node, i \in Id :
       /\ object'[p][i] = IF p = n /\ i \in ids THEN None ELSE object[p][i]
       /\ i \in zombie'[p] <=> i \in zombie[p] /\ ~(p = n /\ i \in ids)
       /\ i \in local'[p] <=>
            \/ i \in local[p]
            \/ p = n /\ n # Server /\ i \in ids /\ Informed(n, i) # {}
  /\ \A l \in Link, i \in Id :
       /\ knows'[l][i] = IF l[1] = n /\ i \in ids THEN Unknown ELSE knows[l][i]
       /\ Ordered(l[1], l[2], i)' <=>
            \/ Ordered(l[1], l[2], i)
            \/ l[1] = n /\ i \in ids /\ l[2] \in Informed(n, i)
  /\ net \subseteq net' /\ acks' = acks
  /\ \A m \in net' : m \in net \/ (m.type = "destroy" /\ Up(m.from) /\ Up(m.to))
  /\ UNCHANGED <<mine, connected, maker, had>>

LEMMA DeletedOrders ==
  ASSUME NEW cur, OrderAt(cur), TypeOK', NEW n \in Node, Up(n), NEW ids \in SUBSET Id,
         \A i \in ids : object[n][i] # None /\ (object[n][i] \in mine[n] \/ i \in zombie[n]),
         Deleted(n, ids)
  PROVE  OrderKept(cur)
<1> USE DEF OrderAt, NetInv, Orderly
<1>1. /\ UNCHANGED <<mine, connected, maker, had, acks>>
      /\ net \subseteq net'
      /\ \A m \in net' : m \in net \/ (m.type = "destroy" /\ Up(m.from) /\ Up(m.to))
  BY DEF Deleted
<1>2. \A p \in Node, i \in Id :
        object'[p][i] # None => object'[p][i] = object[p][i] /\ ~(p = n /\ i \in ids)
  BY DEF Deleted
<1>3. \A l \in Link, i \in Id :
        knows'[l][i] = IF l[1] = n /\ i \in ids THEN Unknown ELSE knows[l][i]
  BY DEF Deleted
<1>4. \A l \in Link, i \in Id :
        Ordered(l[1], l[2], i)' <=>
          \/ Ordered(l[1], l[2], i)
          \/ l[1] = n /\ i \in ids /\ l[2] \in Informed(n, i)
  BY DEF Deleted
<1>5. \A c \in connected : /\ c \in Client /\ c \in Node /\ c # Server
                           /\ <<c, Server>> \in Link /\ <<Server, c>> \in Link
                           /\ <<c, Server>>[1] = c /\ <<c, Server>>[2] = Server
                           /\ <<Server, c>>[1] = Server /\ <<Server, c>>[2] = c
  BY Connected
<1>6. \A m \in Sent' : m.type = "create" => m \in Sent
  BY <1>1 DEF Sent
<1>7. \A m \in net' : m.type = "create" => m \in net
  BY <1>1
<1>8. None \notin Object
  BY DEF Object, None
<1>9. \A p \in Node : mine[p] \subseteq Object /\ None \notin mine[p]
  BY <1>8 DEF TypeOK
<1>10. ASSUME n = Server, NEW i \in ids, NEW c \in connected, object[c][i] \in mine[c]
       PROVE  object[Server][i] # object[c][i]
  <2> SUFFICES ASSUME object[Server][i] = object[c][i] PROVE FALSE
    OBVIOUS
  <2>1. object[c][i] \in had[Server]
    BY <1>10, Links DEF HadAll
  <2> QED BY <1>10, <2>1 DEF MakerRules
<1>11. GoneIsGone'
  <2> SUFFICES ASSUME NEW c \in Client, c \notin connected
               PROVE  /\ \A i \in Id : object'[c][i] = None
                      /\ mine[c] = {} /\ had[c] = {} /\ local'[c] = {}
                      /\ \A m \in Sent' : c \notin {m.from, m.to}
    BY <1>1 DEF GoneIsGone
  <2>1. c \in Node /\ c # Server /\ ~Up(c) /\ c # n
    BY Links DEF Up
  <2>2. \A i \in Id : object'[c][i] = None
    BY <1>2, <2>1 DEF GoneIsGone
  <2>3. local'[c] = {}
    <3>1. local[c] = {} /\ local'[c] \subseteq Id
      BY <2>1 DEF GoneIsGone, TypeOK
    <3> QED BY <2>1, <3>1 DEF Deleted
  <2>4. \A m \in Sent' : m \in Sent \/ (Up(m.from) /\ Up(m.to))
    BY <1>1 DEF Sent
  <2> QED BY <2>1, <2>2, <2>3, <2>4 DEF GoneIsGone
<1>12. HadKnown'
  BY <1>1 DEF HadKnown
<1>13. UntoldIsNew'
  <2>1. ASSUME NEW l \in Link, NEW i \in Id, Up(l[1])', Up(l[2])', object'[l[1]][i] # None,
               ~Told(l, i)'
        PROVE  /\ object'[l[1]][i] \notin had[l[2]]
               /\ \A m \in Sent' : m.type = "create" /\ m.from = l[1] /\ m.to = l[2] =>
                    m.obj # object'[l[1]][i]
    <3>1. l[1] \in Node /\ Up(l[1]) /\ Up(l[2])
      BY <1>1, <2>1, Links DEF Up
    <3>2. object'[l[1]][i] = object[l[1]][i] /\ ~(l[1] = n /\ i \in ids)
      BY <1>2, <2>1, <3>1
    <3>3. ~Told(l, i)
      BY <1>3, <2>1, <3>2 DEF Told
    <3> QED BY <1>6, <2>1, <3>1, <3>2, <3>3 DEF UntoldIsNew
  <2>2. ASSUME NEW c \in connected, NEW i \in Id, object'[c][i] # None,
               ~knows'[<<c, Server>>][i].exists
        PROVE  object'[c][i] \in mine[c]
    <3>1. object'[c][i] = object[c][i] /\ ~(c = n /\ i \in ids)
      BY <1>2, <1>5, <2>2
    <3>2. knows'[<<c, Server>>][i] = knows[<<c, Server>>][i]
      BY <1>3, <1>5, <3>1
    <3> QED BY <2>2, <3>1, <3>2 DEF UntoldIsNew
  <2> QED BY <1>1, <2>1, <2>2 DEF UntoldIsNew
<1>14. CreatedOnce'
  BY <1>1, <1>6, <1>7 DEF CreatedOnce
<1>15. MakerKnows'
  <2> SUFFICES ASSUME NEW c \in connected, NEW i \in Id, object'[Server][i] \in mine[c]
               PROVE  knows'[<<Server, c>>][i].exists
    BY <1>1 DEF MakerKnows
  <2>1. object'[Server][i] = object[Server][i] /\ ~(Server = n /\ i \in ids)
    <3>1. object'[Server][i] # None
      BY <1>5, <1>9
    <3> QED BY <1>2, <3>1, Links
  <2>2. knows'[<<Server, c>>][i] = knows[<<Server, c>>][i]
    BY <1>3, <1>5, <2>1
  <2> QED BY <2>1, <2>2 DEF MakerKnows
<1>16. LocalIsGone'
  <2>1. local'[Server] = {}
    <3>1. local[Server] = {} /\ local'[Server] \subseteq Id
      BY Links DEF LocalIsGone, TypeOK
    <3> QED BY <3>1, Links DEF Deleted
  <2>2. ASSUME NEW c \in Client, NEW i \in local'[c]
        PROVE  object'[c][i] = None
    <3>1. c \in Node /\ i \in Id
      BY Links DEF TypeOK
    <3>2. i \in local[c] \/ (c = n /\ i \in ids)
      BY <3>1 DEF Deleted
    <3> QED BY <3>1, <3>2 DEF Deleted, LocalIsGone
  <2> QED BY <2>1, <2>2 DEF LocalIsGone
<1>17. ToldArrives'
  <2> SUFFICES ASSUME NEW c \in connected, NEW i \in Id, object'[c][i] # None,
                      Told(<<c, Server>>, i)'
               PROVE  \/ object'[c][i] \in had[Server]
                      \/ \E m \in net' : m.type = "create" /\ m.from = c /\ m.obj = object'[c][i]
    BY <1>1 DEF ToldArrives
  <2>1. object'[c][i] = object[c][i] /\ ~(c = n /\ i \in ids)
    BY <1>2, <1>5
  <2>2. Told(<<c, Server>>, i)
    <3>1. knows'[<<c, Server>>][i] = knows[<<c, Server>>][i]
      BY <1>3, <1>5, <2>1
    <3> QED BY <3>1 DEF Told
  <2> QED BY <1>1, <2>1, <2>2 DEF ToldArrives
<1>18. MakerRules'
  <2> SUFFICES ASSUME NEW c \in connected, NEW i \in Id, object'[c][i] \in mine[c]
               PROVE  /\ ~Ordered(Server, c, i)'
                      /\ object'[c][i] \in had[Server] =>
                           /\ object'[Server][i] = object'[c][i]
                           /\ object'[c][i] \notin mine[Server] /\ i \notin zombie'[Server]
    BY <1>1 DEF MakerRules
  <2>1. object'[c][i] = object[c][i]
    BY <1>2, <1>5, <1>9
  <2>2. /\ ~Ordered(Server, c, i)
        /\ object[c][i] \in had[Server] =>
             /\ object[Server][i] = object[c][i]
             /\ object[c][i] \notin mine[Server] /\ i \notin zombie[Server]
    BY <2>1 DEF MakerRules
  <2>3. ~Ordered(Server, c, i)'
    <3>1. ASSUME n = Server, i \in ids PROVE FALSE
      <4>1. object[Server][i] = cur[i] /\ object[c][i] = cur[i]
        <5>1. object[Server][i] # None
          BY <3>1
        <5>2. object[c][i] # None
          <6>1. c \in Node /\ object[c][i] \in mine[c]
            BY <1>5, <2>1
          <6> QED BY <1>9, <6>1
        <5>3. Server \in Node /\ c \in Node
          BY <1>5, Links
        <5>4. \A p \in Node : object[p][i] # None => object[p][i] = cur[i]
          BY DEF Last
        <5> QED BY <5>1, <5>2, <5>3, <5>4
      <4> QED BY <1>10, <2>1, <3>1, <4>1
    <3> QED BY <1>4, <1>5, <2>2, <3>1
  <2>4. ASSUME object[c][i] \in had[Server]
        PROVE  object'[Server][i] = object[Server][i] /\ i \notin zombie'[Server]
    <3>1. ~(n = Server /\ i \in ids)
      BY <1>10, <2>1, <2>2, <2>4
    <3> QED BY <2>2, <2>4, <3>1, Links DEF Deleted
  <2> QED BY <2>1, <2>2, <2>3, <2>4
<1>19. OrdersAreFor(cur)'
  <2>1. ASSUME NEW c \in Client, NEW i \in Id, Ordered(c, Server, i)'
        PROVE  cur[i] # None /\ maker[cur[i]] = c /\ object'[c][i] \notin mine[c]
    <3>1. /\ c \in Node /\ c # Server
          /\ <<c, Server>> \in Link /\ <<c, Server>>[1] = c /\ <<c, Server>>[2] = Server
      BY Links
    <3>2. CASE Ordered(c, Server, i)
      BY <1>2, <1>9, <3>1, <3>2 DEF OrdersAreFor
    <3>3. CASE c = n /\ i \in ids /\ Server \in Informed(n, i)
      <4>1. object[c][i] \in mine[c] /\ object[c][i] = cur[i]
        BY <1>9, <3>1, <3>3 DEF Informed, Last
      <4>2. object'[c][i] = None
        BY <3>1, <3>3 DEF Deleted
      <4> QED BY <1>9, <3>1, <4>1, <4>2 DEF HadKnown
    <3> QED BY <1>4, <2>1, <3>1, <3>2, <3>3
  <2>2. ASSUME NEW c \in connected, NEW i \in local'[c]
        PROVE  /\ cur[i] \in mine[c]
               /\ IF cur[i] \in had[Server]
                  THEN object'[Server][i] = cur[i] \/ Ordered(Server, c, i)'
                  ELSE /\ Ordered(c, Server, i)'
                       /\ \E q \in net' : q.type = "create" /\ q.from = c /\ i \in q.ids
    <3>1. i \in Id
      BY <1>5 DEF TypeOK
    <3>2. CASE i \in local[c]
      <4>1. cur[i] \in mine[c]
        BY <3>2, LocalIsOver
      <4>2. CASE cur[i] \in had[Server]
        <5>1. CASE object[Server][i] = cur[i] /\ n = Server /\ i \in ids
          <6>1. c \in Informed(Server, i)
            BY <1>9, <1>5, <3>1, <4>1, <5>1, AllAreInformed
          <6> QED BY <1>4, <1>5, <3>1, <4>1, <4>2, <5>1, <6>1
        <5>2. CASE object[Server][i] = cur[i] /\ ~(n = Server /\ i \in ids)
          <6>1. object'[Server][i] = cur[i]
            BY <3>1, <5>2, Links DEF Deleted
          <6> QED BY <4>1, <4>2, <6>1
        <5>3. CASE Ordered(Server, c, i)
          BY <1>4, <1>5, <3>1, <4>1, <4>2, <5>3
        <5> QED BY <3>2, <4>2, <5>1, <5>2, <5>3 DEF OrdersAreFor
      <4>3. CASE cur[i] \notin had[Server]
        <5>1. /\ Ordered(c, Server, i)
              /\ \E q \in net : q.type = "create" /\ q.from = c /\ i \in q.ids
          BY <3>2, <4>3 DEF OrdersAreFor
        <5>2. Ordered(c, Server, i)'
          BY <1>4, <1>5, <3>1, <5>1
        <5> QED BY <1>1, <4>1, <4>3, <5>1, <5>2
      <4> QED BY <4>2, <4>3
    <3>3. CASE c = n /\ i \in ids /\ Informed(n, i) # {}
      <4>1. PICK p : p \in Informed(n, i)
        BY <3>3
      <4>2. /\ p = Server /\ object[c][i] \in mine[c] /\ Told(<<c, Server>>, i)
            /\ object[c][i] # None
        BY <1>5, <1>9, <3>3, <4>1 DEF Informed, Peers, Link, Told
      <4>3. object[c][i] = cur[i]
        BY <1>5, <3>1, <4>2 DEF Last
      <4>4. Ordered(c, Server, i)'
        BY <1>4, <1>5, <3>1, <3>3, <4>1, <4>2
      <4>5. CASE cur[i] \in had[Server]
        <5>1. object[Server][i] = cur[i]
          BY <3>1, <4>2, <4>3, <4>5 DEF MakerRules
        <5>2. object'[Server][i] = cur[i]
          BY <1>5, <3>1, <3>3, <5>1, Links DEF Deleted
        <5> QED BY <4>2, <4>3, <4>5, <5>2
      <4>6. CASE cur[i] \notin had[Server]
        <5>1. PICK m \in net : m.type = "create" /\ m.from = c /\ m.obj = cur[i]
          BY <3>1, <4>2, <4>3, <4>6 DEF ToldArrives
        <5>2. PICK j \in Id : m.ids = {j}
          BY <5>1 DEF WiresOK, WireOK, Sent
        <5>3. m.obj = cur[j]
          BY <5>1, <5>2 DEF WiresOK, WireOK, Sent, Last
        <5>4. j = i
          BY <3>1, <4>2, <4>3, <5>1, <5>3 DEF Distinct
        <5> QED BY <1>1, <4>2, <4>3, <4>4, <4>6, <5>1, <5>2, <5>4
      <4> QED BY <4>5, <4>6
    <3> QED BY <1>5, <2>2, <3>1, <3>2, <3>3 DEF Deleted
  <2>3. /\ connected' = connected /\ had' = had /\ maker' = maker /\ mine' = mine
    BY <1>1
  <2> QED BY ONLY <2>1, <2>2, <2>3 DEF OrdersAreFor
<1>20. NoOrphan'
  <2> SUFFICES ASSUME NEW c \in connected, NEW i \in Id, NEW o \in Object,
                      \/ object'[c][i] = o /\ i \notin zombie'[c] /\ o \notin mine[c]
                      \/ \E m \in net' : m.type = "create" /\ m.to = c /\ i \in m.ids /\ m.obj = o,
                      object'[Server][i] # o
               PROVE  Ordered(Server, c, i)'
    BY <1>1 DEF NoOrphan
  <2>1. \/ object[c][i] = o /\ i \notin zombie[c] /\ o \notin mine[c]
        \/ \E m \in net : m.type = "create" /\ m.to = c /\ i \in m.ids /\ m.obj = o
    <3>1. CASE object'[c][i] = o /\ i \notin zombie'[c] /\ o \notin mine[c]
      <4>1. object[c][i] = o /\ ~(c = n /\ i \in ids)
        BY <1>2, <1>5, <1>8, <3>1
      <4>2. i \notin zombie[c]
        BY <1>5, <3>1, <4>1 DEF Deleted
      <4> QED BY <3>1, <4>1, <4>2
    <3> QED BY <1>7, <3>1
  <2>2. CASE object[Server][i] # o
    <3>1. Ordered(Server, c, i)
      BY <2>1, <2>2 DEF NoOrphan
    <3> QED BY <1>4, <1>5, <3>1
  <2>3. CASE object[Server][i] = o
    <3>1. n = Server /\ i \in ids
      BY <2>3, Links DEF Deleted
    <3>2. c \in Informed(Server, i)
      BY <1>8, <2>1, <2>3, AllAreInformed
    <3> QED BY <1>4, <1>5, <3>1, <3>2
  <2> QED BY <2>2, <2>3
<1> QED BY <1>11, <1>12, <1>13, <1>14, <1>15, <1>16, <1>17, <1>18, <1>19, <1>20
        DEF OrderKept

LEMMA ForgottenIs ==
  ASSUME TypeOK, NEW n \in Node, NEW ids \in SUBSET Id
  PROVE  \A l \in Link, i \in Id :
           /\ Forgotten(n, ids)[l][i] = IF l[1] = n /\ i \in ids THEN Unknown ELSE knows[l][i]
           /\ i \in Destroyed(n, ids)[l] <=>
                i \in destroyer[l] \/ (l[1] = n /\ i \in ids /\ l[2] \in Informed(n, i))
BY DEF Forgotten, Destroyed, TypeOK

LEMMA DestructDeletes ==
  ASSUME TypeOK, NEW n \in Node, NEW ids \in SUBSET Id, Destruct(n, ids),
         knows' = Forgotten(n, ids)
  PROVE  /\ \A p \in Node, i \in Id :
              /\ object'[p][i] = IF p = n /\ i \in ids THEN None ELSE object[p][i]
              /\ i \in zombie'[p] <=> i \in zombie[p] /\ ~(p = n /\ i \in ids)
              /\ i \in local'[p] <=>
                   \/ i \in local[p]
                   \/ p = n /\ n # Server /\ i \in ids /\ Informed(n, i) # {}
         /\ \A l \in Link, i \in Id :
              knows'[l][i] = IF l[1] = n /\ i \in ids THEN Unknown ELSE knows[l][i]
<1>1. Destructed(n, ids)
  BY DestructTyped
<1>2. ASSUME NEW p \in Node, NEW i \in Id
      PROVE  /\ object'[p][i] = IF p = n /\ i \in ids THEN None ELSE object[p][i]
             /\ i \in zombie'[p] <=> i \in zombie[p] /\ ~(p = n /\ i \in ids)
  BY <1>1 DEF Destructed
<1>3. ASSUME NEW p \in Node, NEW i \in Id
      PROVE  i \in local'[p] <=>
               \/ i \in local[p]
               \/ p = n /\ n # Server /\ i \in ids /\ Informed(n, i) # {}
  <2>1. local' = IF n = Server THEN local
                 ELSE [local EXCEPT ![n] = @ \cup {j \in ids : Informed(n, j) # {}}]
    BY DEF Destruct
  <2> QED BY <2>1 DEF TypeOK
<1> QED BY <1>2, <1>3, ForgottenIs

LEMMA DestroyObjectDeletes ==
  ASSUME NetInv, NEW n \in Node, NEW i \in Id, DestroyObject(n, i), NEW ids, ids = {i}
  PROVE  /\ Deleted(n, ids) /\ TypeOK' /\ ids \in SUBSET Id
         /\ object[n][i] \in mine[n] /\ object[n][i] # None /\ Up(n)
<1> USE DEF NetInv
<1>1. /\ UNCHANGED <<mine, doomed, net, acks, connected, maker, had>>
      /\ Destruct(n, ids) /\ knows' = Forgotten(n, ids) /\ destroyer' = Destroyed(n, ids)
      /\ object[n][i] \in mine[n] /\ Up(n)
  BY DEF DestroyObject, Own, wires, others
<1>2. object[n][i] # None
  BY <1>1 DEF TypeOK, Object, None
<1>3. ids \in SUBSET Id /\ TypeOK
  OBVIOUS
<1>4. TypeOK'
  BY DestroyObjectKeeps DEF Kept, Typed
<1>5. ASSUME NEW l \in Link, NEW j \in Id
      PROVE  Ordered(l[1], l[2], j)' <=>
               \/ Ordered(l[1], l[2], j)
               \/ l[1] = n /\ j \in ids /\ l[2] \in Informed(n, j)
  <2>1. j \in destroyer'[l] <=>
          j \in destroyer[l] \/ (l[1] = n /\ j \in ids /\ l[2] \in Informed(n, j))
    BY <1>1, <1>3, ForgottenIs
  <2>2. l = <<l[1], l[2]>>
    BY Links
  <2> QED BY <1>1, <2>1, <2>2 DEF Ordered
<1>6. /\ \A p \in Node, j \in Id :
           /\ object'[p][j] = IF p = n /\ j \in ids THEN None ELSE object[p][j]
           /\ j \in zombie'[p] <=> j \in zombie[p] /\ ~(p = n /\ j \in ids)
           /\ j \in local'[p] <=>
                \/ j \in local[p]
                \/ p = n /\ n # Server /\ j \in ids /\ Informed(n, j) # {}
      /\ \A l \in Link, j \in Id :
           knows'[l][j] = IF l[1] = n /\ j \in ids THEN Unknown ELSE knows[l][j]
  BY <1>1, <1>3, DestructDeletes
<1>7. Deleted(n, ids)
  BY <1>1, <1>5, <1>6 DEF Deleted
<1> QED BY <1>1, <1>2, <1>3, <1>4, <1>7

LEMMA DestroyObjectOrders ==
  ASSUME NEW cur, OrderAt(cur), NEW n \in Node, NEW i \in Id, DestroyObject(n, i)
  PROVE  OrderKept(cur)
<1>1. PICK ids : ids = {i}
  OBVIOUS
<1>2. /\ Deleted(n, ids) /\ TypeOK' /\ ids \in SUBSET Id
      /\ object[n][i] \in mine[n] /\ object[n][i] # None /\ Up(n)
  BY <1>1, DestroyObjectDeletes DEF OrderAt
<1> QED BY <1>1, <1>2, DeletedOrders

LEMMA ClearAllDeletedDeletes ==
  ASSUME NetInv, NEW n \in Node, ClearAllDeleted(n)
  PROVE  /\ Deleted(n, zombie[n]) /\ TypeOK' /\ zombie[n] \in SUBSET Id
         /\ (\A i \in zombie[n] : object[n][i] # None) /\ Up(n)
<1> USE DEF NetInv
<1> DEFINE ids == zombie[n]
           dead == Destroyed(n, ids)
           sent == {l \in Link : l[1] = n /\ Up(l[2]) /\ dead[l] # {}}
<1>1. /\ UNCHANGED <<mine, doomed, acks, connected, maker, had>>
      /\ Destruct(n, ids) /\ knows' = Forgotten(n, ids) /\ Up(n)
      /\ net' = net \cup {DestroyMessage(l[1], l[2], dead[l]) : l \in sent}
      /\ destroyer' = [l \in Link |-> IF l \in sent THEN {} ELSE dead[l]]
  BY DEF ClearAllDeleted, story, others
<1>2. ids \in SUBSET Id /\ (\A i \in ids : object[n][i] # None) /\ TypeOK
  BY DEF ZombiesAreThere, TypeOK
<1>3. TypeOK'
  BY ClearAllDeletedKeeps DEF Kept, Typed
<1>4. dead \in [Link -> SUBSET Id]
  BY <1>2, DestroyedTyped
<1>5. \A l \in Link, j \in Id :
        j \in dead[l] <=>
          j \in destroyer[l] \/ (l[1] = n /\ j \in ids /\ l[2] \in Informed(n, j))
  BY <1>2, ForgottenIs
<1>6. \A l \in sent : l \in Link /\ l[1] = n /\ Up(l[2])
  OBVIOUS
<1>7. /\ \A p \in Node, j \in Id :
           /\ object'[p][j] = IF p = n /\ j \in ids THEN None ELSE object[p][j]
           /\ j \in zombie'[p] <=> j \in zombie[p] /\ ~(p = n /\ j \in ids)
           /\ j \in local'[p] <=>
                \/ j \in local[p]
                \/ p = n /\ n # Server /\ j \in ids /\ Informed(n, j) # {}
      /\ \A l \in Link, j \in Id :
           knows'[l][j] = IF l[1] = n /\ j \in ids THEN Unknown ELSE knows[l][j]
  BY <1>1, <1>2, DestructDeletes
<1>8. ids = zombie[n]
  OBVIOUS
<1> HIDE DEF dead, sent, ids
<1>9. \A l \in sent : LET m == DestroyMessage(l[1], l[2], dead[l]) IN
        m \in net' /\ m.from = l[1] /\ m.to = l[2] /\ m.type = "destroy" /\ m.ids = dead[l]
  <2> SUFFICES ASSUME NEW l \in sent
               PROVE  LET m == DestroyMessage(l[1], l[2], dead[l]) IN
                      m \in net' /\ m.from = l[1] /\ m.to = l[2] /\ m.type = "destroy" /\ m.ids = dead[l]
    OBVIOUS
  <2>1. <<l[1], l[2]>> \in Link /\ dead[l] \in SUBSET Id
    BY <1>4, <1>6, Links
  <2> QED BY <1>1, <2>1, DestroyMessageOK
<1>10. \A m \in net' : m \in net \/ \E l \in sent : m = DestroyMessage(l[1], l[2], dead[l])
  BY <1>1
<1>11. ASSUME NEW l \in Link, NEW j \in Id
       PROVE  Ordered(l[1], l[2], j)' <=>
                \/ Ordered(l[1], l[2], j)
                \/ l[1] = n /\ j \in ids /\ l[2] \in Informed(n, j)
  <2>1. l = <<l[1], l[2]>> /\ \A k \in sent : k = <<k[1], k[2]>>
    BY <1>6, Links
  <2>2. ASSUME Ordered(l[1], l[2], j)'
        PROVE  Ordered(l[1], l[2], j) \/ j \in dead[l]
    <3>1. CASE j \in destroyer'[l]
      BY <1>1, <3>1
    <3>2. CASE \E m \in net' : m.type = "destroy" /\ m.from = l[1] /\ m.to = l[2] /\ j \in m.ids
      <4>1. PICK m \in net' : m.type = "destroy" /\ m.from = l[1] /\ m.to = l[2] /\ j \in m.ids
        BY <3>2
      <4>2. CASE m \in net
        BY <4>1, <4>2 DEF Ordered
      <4>3. CASE m \notin net
        <5>1. PICK k \in sent : m = DestroyMessage(k[1], k[2], dead[k])
          BY <1>10, <4>3
        <5>2. k = l /\ j \in dead[k]
          BY <1>9, <2>1, <4>1, <5>1
        <5> QED BY <5>2
      <4> QED BY <4>2, <4>3
    <3>3. CASE \E d \in doomed'[l[2]] : d.id = j /\ d.from = l[1]
      BY <1>1, <3>3 DEF Ordered
    <3> QED BY <2>1, <2>2, <3>1, <3>2, <3>3 DEF Ordered
  <2>3. ASSUME j \in dead[l]
        PROVE  Ordered(l[1], l[2], j)'
    <3>1. CASE l \in sent
      BY <1>9, <2>3, <3>1 DEF Ordered
    <3>2. CASE l \notin sent
      BY <1>1, <2>1, <2>3, <3>2 DEF Ordered
    <3> QED BY <3>1, <3>2
  <2>4. ASSUME Ordered(l[1], l[2], j)
        PROVE  Ordered(l[1], l[2], j)'
    <3>1. CASE j \in destroyer[l]
      BY <1>5, <2>3, <3>1
    <3>2. CASE j \notin destroyer[l]
      BY <1>1, <2>1, <2>4, <3>2 DEF Ordered
    <3> QED BY <3>1, <3>2
  <2>5. j \in dead[l] => Ordered(l[1], l[2], j) \/ (l[1] = n /\ j \in ids /\ l[2] \in Informed(n, j))
    BY <1>5, <2>1 DEF Ordered
  <2> QED BY <1>5, <2>2, <2>3, <2>4, <2>5
<1>12. Deleted(n, ids)
  <2>1. \A m \in net' : m \in net \/ (m.type = "destroy" /\ Up(m.from) /\ Up(m.to))
    BY <1>1, <1>6, <1>9, <1>10
  <2> QED BY <1>1, <1>7, <1>11, <2>1 DEF Deleted
<1> QED BY <1>1, <1>2, <1>3, <1>8, <1>12

LEMMA ClearAllDeletedOrders ==
  ASSUME NEW cur, OrderAt(cur), NEW n \in Node, ClearAllDeleted(n)
  PROVE  OrderKept(cur)
<1>1. PICK ids : ids = zombie[n]
  OBVIOUS
<1>2. /\ Deleted(n, ids) /\ TypeOK' /\ ids \in SUBSET Id
      /\ (\A i \in ids : object[n][i] # None /\ i \in zombie[n]) /\ Up(n)
  BY <1>1, ClearAllDeletedDeletes DEF OrderAt
<1> QED BY <1>2, DeletedOrders

LEMMA BroadcastIs ==
  ASSUME TypeOK, NEW c \in Client, NEW ids
  PROVE  \A l \in Link, i \in Id :
           LET k == BroadcastExistence(c, ids)[l][i] IN
           IF c \in {l[1], l[2]} THEN ~k.exists /\ k.pending = 0
           ELSE l[1] # Server \/ i \in ids \/ object[Server][i] = None =>
                  k.exists = knows[l][i].exists /\ k.pending = knows[l][i].pending
<1> DEFINE B == BroadcastExistence(c, ids)
<1> SUFFICES ASSUME NEW l \in Link, NEW i \in Id
             PROVE  IF c \in {l[1], l[2]} THEN ~B[l][i].exists /\ B[l][i].pending = 0
                    ELSE l[1] # Server \/ i \in ids \/ object[Server][i] = None =>
                           B[l][i].exists = knows[l][i].exists /\ B[l][i].pending = knows[l][i].pending
  OBVIOUS
<1>1. knows[l][i] \in Knowledge
  BY DEF TypeOK
<1>2. /\ Requested(knows[l][i], TRUE).exists = knows[l][i].exists
      /\ Requested(knows[l][i], TRUE).pending = knows[l][i].pending
  <2>1. PICK ack : ack = TRUE
    OBVIOUS
  <2>2. /\ Requested(knows[l][i], ack).exists = knows[l][i].exists
        /\ Requested(knows[l][i], ack).pending = knows[l][i].pending
    BY <1>1, <2>1, KnowledgeOf
  <2> QED BY <2>1, <2>2, Zenon
<1>3. CASE l = <<Server, c>>
  <2>1. B[l][i] = IF i \in ids THEN Reset ELSE Unknown
    BY <1>3, Links DEF BroadcastExistence
  <2> HIDE DEF B
  <2> QED BY <1>3, <2>1, KnowledgeOf
<1>4. CASE l[1] = Server /\ l[2] # c
  <2>1. B[l][i] = IF i \in ids /\ l[2] \in connected /\ ~knows[l][i].exists
                  THEN Requested(knows[l][i], TRUE)
                  ELSE IF object[Server][i] # None /\ i \notin ids THEN Unknown
                  ELSE knows[l][i]
    <3>1. l # <<Server, c>> /\ l # <<c, Server>>
      BY <1>4, Links
    <3> QED BY <1>4, <3>1 DEF BroadcastExistence
  <2>2. c \notin {l[1], l[2]}
    BY <1>4, Links
  <2> HIDE DEF B
  <2>3. ASSUME i \in ids \/ object[Server][i] = None
        PROVE  B[l][i] = Requested(knows[l][i], TRUE) \/ B[l][i] = knows[l][i]
    BY <2>1, <2>3
  <2>4. ASSUME i \in ids \/ object[Server][i] = None
        PROVE  B[l][i].exists = knows[l][i].exists /\ B[l][i].pending = knows[l][i].pending
    BY <1>2, <2>3, <2>4
  <2> QED BY <1>4, <2>2, <2>4
<1>5. CASE l = <<c, Server>>
  <2>1. B[l][i] = Unknown
    <3>1. l # <<Server, c>> /\ l[1] # Server
      BY <1>5, Links
    <3> QED BY <1>5, <3>1 DEF BroadcastExistence
  <2> HIDE DEF B
  <2> QED BY <1>5, <2>1, KnowledgeOf
<1>6. CASE l # <<c, Server>> /\ l[1] # Server
  <2>1. B[l][i] = knows[l][i] /\ c \notin {l[1], l[2]}
    <3>1. l # <<Server, c>> /\ c \notin {l[1], l[2]}
      BY <1>6, Links
    <3> QED BY <1>6, <3>1 DEF BroadcastExistence
  <2> HIDE DEF B
  <2> QED BY <2>1
<1> QED BY <1>3, <1>4, <1>5, <1>6, Links

LEMMA LoginOrders ==
  ASSUME NEW cur, OrderAt(cur), NEW c \in Client, Login(c)
  PROVE  OrderKept(cur)
<1> USE DEF OrderAt, NetInv, Orderly
<1>1. /\ UNCHANGED <<object, zombie, mine, destroyer, doomed, local, net, acks, maker, had>>
      /\ connected' = connected \cup {c}
      /\ knows' = BroadcastExistence(c, Present) /\ c \notin connected
  BY DEF Login, orders, wires, story
<1>2. /\ \A i \in Id : object[c][i] = None
      /\ mine[c] = {} /\ had[c] = {} /\ local[c] = {}
      /\ \A m \in Sent : c \notin {m.from, m.to}
  BY <1>1 DEF GoneIsGone
<1>3. \A l \in Link, i \in Id :
        IF c \in {l[1], l[2]} THEN ~Told(l, i)'
        ELSE /\ Told(l, i)' <=> Told(l, i)
             /\ knows'[l][i].exists = knows[l][i].exists
  <2>1. ASSUME NEW l \in Link, NEW i \in Id
        PROVE  IF c \in {l[1], l[2]} THEN ~knows'[l][i].exists /\ knows'[l][i].pending = 0
               ELSE knows'[l][i].exists = knows[l][i].exists /\ knows'[l][i].pending = knows[l][i].pending
    <3>1. i \in Present \/ object[Server][i] = None
      BY DEF Present
    <3> QED BY <1>1, <3>1, BroadcastIs
  <2> QED BY <2>1 DEF Told
<1>4. \A p \in connected' : p = c \/ p \in connected
  BY <1>1
<1>5. \A l \in Link, i \in Id : Ordered(l[1], l[2], i)' <=> Ordered(l[1], l[2], i)
  BY <1>1 DEF Ordered
<1>6. /\ c \in Node /\ c # Server
      /\ <<c, Server>> \in Link /\ <<Server, c>> \in Link
  BY Links
<1>7. None \notin Object
  BY DEF Object, None
<1>8. GoneIsGone' /\ HadKnown' /\ CreatedOnce' /\ LocalIsGone'
  BY <1>1 DEF GoneIsGone, HadKnown, CreatedOnce, LocalIsGone, Sent
<1>9. UntoldIsNew'
  <2>1. ASSUME NEW l \in Link, NEW i \in Id, Up(l[1])', Up(l[2])', object[l[1]][i] # None,
               ~Told(l, i)'
        PROVE  /\ object[l[1]][i] \notin had[l[2]]
               /\ \A m \in Sent : m.type = "create" /\ m.from = l[1] /\ m.to = l[2] =>
                    m.obj # object[l[1]][i]
    <3>1. CASE c \in {l[1], l[2]}
      BY <1>2, <2>1, <3>1
    <3>2. CASE c \notin {l[1], l[2]}
      <4>1. Up(l[1]) /\ Up(l[2]) /\ ~Told(l, i)
        BY <1>1, <1>3, <2>1, <3>2 DEF Up
      <4> QED BY <2>1, <4>1 DEF UntoldIsNew
    <3> QED BY <3>1, <3>2
  <2>2. ASSUME NEW p \in connected', NEW i \in Id, object[p][i] # None,
               ~knows'[<<p, Server>>][i].exists
        PROVE  object[p][i] \in mine[p]
    <3>1. p \in connected /\ p # c
      BY <1>1, <1>2, <2>2
    <3>2. knows'[<<p, Server>>][i].exists = knows[<<p, Server>>][i].exists
      BY <1>3, <1>6, <3>1, Connected
    <3> QED BY <2>2, <3>1, <3>2 DEF UntoldIsNew
  <2>3. UNCHANGED <<object, mine, had, net, acks>>
    BY <1>1
  <2> QED BY <2>1, <2>2, <2>3 DEF UntoldIsNew, Sent
<1>10. MakerKnows'
  <2> SUFFICES ASSUME NEW p \in connected', NEW i \in Id, object[Server][i] \in mine[p]
               PROVE  knows'[<<Server, p>>][i].exists
    BY <1>1 DEF MakerKnows
  <2>1. p \in connected /\ p # c
    BY <1>1, <1>2
  <2>2. knows'[<<Server, p>>][i].exists = knows[<<Server, p>>][i].exists
    BY <1>3, <1>6, <2>1, Connected
  <2> QED BY <2>1, <2>2 DEF MakerKnows
<1>11. ToldArrives'
  <2> SUFFICES ASSUME NEW p \in connected', NEW i \in Id, object[p][i] # None,
                      Told(<<p, Server>>, i)'
               PROVE  \/ object[p][i] \in had[Server]
                      \/ \E m \in net : m.type = "create" /\ m.from = p /\ m.obj = object[p][i]
    BY <1>1 DEF ToldArrives
  <2>1. p \in connected /\ p # c
    BY <1>1, <1>2
  <2>2. Told(<<p, Server>>, i)
    BY <1>3, <1>6, <2>1, Connected
  <2> QED BY <2>1, <2>2 DEF ToldArrives
<1>12. MakerRules'
  <2>1. UNCHANGED <<object, zombie, mine, had>>
    BY <1>1
  <2> SUFFICES ASSUME NEW p \in connected', NEW i \in Id, object[p][i] \in mine[p]
               PROVE  /\ ~Ordered(Server, p, i)'
                      /\ object[p][i] \in had[Server] =>
                           /\ object[Server][i] = object[p][i]
                           /\ object[p][i] \notin mine[Server] /\ i \notin zombie[Server]
    BY <2>1 DEF MakerRules
  <2>2. p \in connected
    BY <1>1, <1>2
  <2>3. Ordered(Server, p, i)' <=> Ordered(Server, p, i)
    BY <1>5, <2>2, Connected
  <2> QED BY <2>2, <2>3 DEF MakerRules
<1>13. OrdersAreFor(cur)'
  <2>1. ASSUME NEW p \in Client, NEW i \in Id, Ordered(p, Server, i)'
        PROVE  cur[i] # None /\ maker[cur[i]] = p /\ object[p][i] \notin mine[p]
    <3>1. <<p, Server>> \in Link /\ <<p, Server>>[1] = p /\ <<p, Server>>[2] = Server
      BY Links
    <3>2. Ordered(p, Server, i)
      BY <1>5, <2>1, <3>1
    <3> QED BY <3>2 DEF OrdersAreFor
  <2>2. ASSUME NEW p \in connected', NEW i \in local[p]
        PROVE  /\ cur[i] \in mine[p]
               /\ IF cur[i] \in had[Server]
                  THEN object[Server][i] = cur[i] \/ Ordered(Server, p, i)'
                  ELSE /\ Ordered(p, Server, i)'
                       /\ \E q \in net : q.type = "create" /\ q.from = p /\ i \in q.ids
    <3>1. p \in connected
      BY <1>1, <1>2, <2>2
    <3>2. i \in Id
      BY <3>1, LocalIsOver
    <3>3. /\ Ordered(Server, p, i)' <=> Ordered(Server, p, i)
          /\ Ordered(p, Server, i)' <=> Ordered(p, Server, i)
      BY <1>5, <3>1, <3>2, Connected
    <3> QED BY <3>1, <3>3 DEF OrdersAreFor
  <2>3. UNCHANGED <<object, mine, had, maker, net, local>>
    BY <1>1
  <2> QED BY ONLY <2>1, <2>2, <2>3 DEF OrdersAreFor
<1>14. NoOrphan'
  <2>1. UNCHANGED <<object, zombie, mine, net>>
    BY <1>1
  <2> SUFFICES ASSUME NEW p \in connected', NEW i \in Id, NEW o \in Object,
                      \/ object[p][i] = o /\ i \notin zombie[p] /\ o \notin mine[p]
                      \/ \E m \in net : m.type = "create" /\ m.to = p /\ i \in m.ids /\ m.obj = o,
                      object[Server][i] # o
               PROVE  Ordered(Server, p, i)'
    BY <2>1 DEF NoOrphan
  <2>2. p \in connected
    BY <1>2, <1>4, <1>7 DEF Sent
  <2>3. Ordered(Server, p, i)
    BY <2>2 DEF NoOrphan
  <2> QED BY <1>5, <2>2, <2>3, Connected
<1> QED BY <1>8, <1>9, <1>10, <1>11, <1>12, <1>13, <1>14 DEF OrderKept

(* A client leaves, and some of its orders are dropped.                    *)
LEMMA LeaveServerOrders ==
  ASSUME NEW cur, OrderAt(cur), NEW c \in Client, LeaveServer(c),
         TypeOK', \A n \in Node : doomed'[n] \subseteq doomed[n],
         \A n \in Node : \A d \in doomed[n] : d \in doomed'[n] \/ n = c \/ d.from = c
  PROVE  OrderKept(cur)
<1> USE DEF OrderAt, NetInv, Orderly
<1> DEFINE gone == OwnedBy(c)
           dead == Destroyed(Server, gone)
<1>1. /\ c \in Node /\ c # Server /\ Server \in Node
      /\ <<c, Server>> \in Link /\ <<Server, c>> \in Link
  BY Links
<1>2. /\ connected' = connected \ {c}
      /\ knows' = BroadcastExistence(c, Present \ gone)
      /\ destroyer' = [l \in Link |-> IF c \in {l[1], l[2]} THEN {} ELSE dead[l]]
      /\ net' = Without(net, c) /\ acks' = Without(acks, c)
      /\ mine' = [mine EXCEPT ![c] = {}] /\ local' = [local EXCEPT ![c] = {}]
      /\ maker' = maker
  BY DEF LeaveServer
<1>3. /\ \A n \in Node, i \in Id :
           object'[n][i] = IF n = c \/ (n = Server /\ i \in gone) THEN None ELSE object[n][i]
      /\ \A n \in Node : zombie'[n] = IF n = c THEN {} ELSE zombie[n]
      /\ \A n \in Node : had'[n] = IF n = c THEN {} ELSE had[n]
  BY LeaveServerTables DEF LeftBehind
<1>4. \A n \in Node : /\ mine'[n] = IF n = c THEN {} ELSE mine[n]
                      /\ local'[n] = IF n = c THEN {} ELSE local[n]
  BY <1>1, <1>2 DEF TypeOK
<1>5. \A i \in gone : /\ i \in Id /\ object[Server][i] # None /\ i \notin zombie[Server]
                      /\ object[Server][i] = cur[i] /\ maker[cur[i]] = c
  <2> SUFFICES ASSUME NEW i \in gone
               PROVE  /\ i \in Id /\ object[Server][i] # None /\ i \notin zombie[Server]
                      /\ object[Server][i] = cur[i] /\ maker[cur[i]] = c
    OBVIOUS
  <2>1. i \in Id /\ object[Server][i] # None /\ i \notin zombie[Server]
    BY OwnedByClient
  <2>2. object[Server][i] = cur[i]
    BY <1>1, <2>1 DEF Last
  <2> QED BY <1>1, <2>1, <2>2 DEF OwnedBy, OwnerOf
<1>6. gone \in SUBSET Id
  BY <1>5
<1>7. \A l \in Link, i \in Id :
        c \notin {l[1], l[2]} =>
          (i \in destroyer'[l] <=>
             i \in destroyer[l] \/ (l[1] = Server /\ i \in gone /\ l[2] \in Informed(Server, i)))
  <2>1. \A l \in Link, i \in Id :
          i \in dead[l] <=>
            i \in destroyer[l] \/ (l[1] = Server /\ i \in gone /\ l[2] \in Informed(Server, i))
    BY <1>1, <1>6, ForgottenIs
  <2> HIDE DEF dead, gone
  <2> QED BY <1>2, <2>1
<1>8. \A l \in Link, i \in Id :
        /\ c \in {l[1], l[2]} => ~Told(l, i)'
        /\ c \notin {l[1], l[2]} /\ (l[1] # Server \/ i \notin gone) =>
             (Told(l, i)' <=> Told(l, i)) /\ knows'[l][i].exists = knows[l][i].exists
  <2> SUFFICES ASSUME NEW l \in Link, NEW i \in Id
               PROVE  /\ c \in {l[1], l[2]} => ~Told(l, i)'
                      /\ c \notin {l[1], l[2]} /\ (l[1] # Server \/ i \notin gone) =>
                           (Told(l, i)' <=> Told(l, i)) /\ knows'[l][i].exists = knows[l][i].exists
    OBVIOUS
  <2>1. c \in {l[1], l[2]} => ~knows'[l][i].exists /\ knows'[l][i].pending = 0
    BY <1>2, BroadcastIs
  <2>2. i \notin gone => i \in Present \ gone \/ object[Server][i] = None
    BY DEF Present
  <2>3. c \notin {l[1], l[2]} /\ (l[1] # Server \/ i \notin gone) =>
          knows'[l][i].exists = knows[l][i].exists /\ knows'[l][i].pending = knows[l][i].pending
    BY <1>2, <2>2, BroadcastIs
  <2> QED BY <2>1, <2>3 DEF Told
<1> HIDE DEF gone, dead
<1>9. \A m \in Sent' : m \in Sent /\ c \notin {m.from, m.to}
  BY <1>2 DEF Sent, Without
<1>10. /\ \A m \in net' : m \in net /\ c \notin {m.from, m.to}
       /\ \A m \in net : c \notin {m.from, m.to} => m \in net'
  BY <1>2 DEF Without
<1>11. ASSUME NEW l \in Link, NEW i \in Id, c \notin {l[1], l[2]}
       PROVE  Ordered(l[1], l[2], i)' <=>
                \/ Ordered(l[1], l[2], i)
                \/ l[1] = Server /\ i \in gone /\ l[2] \in Informed(Server, i)
  <2>1. l = <<l[1], l[2]>> /\ l[2] \in Node
    BY Links
  <2>2. i \in destroyer'[l] <=>
          i \in destroyer[l] \/ (l[1] = Server /\ i \in gone /\ l[2] \in Informed(Server, i))
    BY <1>7, <1>11
  <2>3. \A m : m.from = l[1] /\ m.to = l[2] => (m \in net' <=> m \in net)
    BY <1>10, <1>11
  <2>4. \A d : d.from = l[1] => (d \in doomed'[l[2]] <=> d \in doomed[l[2]])
    BY <1>11, <2>1
  <2> QED BY <2>1, <2>2, <2>3, <2>4 DEF Ordered
<1>12. ASSUME NEW p \in Client, NEW i \in Id, Ordered(p, Server, i)'
       PROVE  Ordered(p, Server, i)
  <2>1. /\ p # Server /\ <<p, Server>> \in Link
        /\ <<p, Server>>[1] = p /\ <<p, Server>>[2] = Server
    BY Links
  <2>2. CASE p = c
    <3>1. destroyer'[<<p, Server>>] = {}
      BY <1>2, <2>1, <2>2
    <3> QED BY <1>1, <1>10, <1>12, <2>1, <3>1 DEF Ordered
  <2>3. CASE p # c
    BY <1>1, <1>11, <1>12, <2>1, <2>3
  <2> QED BY <2>2, <2>3
<1>13. \A p \in connected' : /\ p \in connected /\ p # c /\ p \in Client /\ p \in Node /\ p # Server
                             /\ <<p, Server>> \in Link /\ <<Server, p>> \in Link
                             /\ <<p, Server>>[1] = p /\ <<p, Server>>[2] = Server
                             /\ <<Server, p>>[1] = Server /\ <<Server, p>>[2] = p
                             /\ \A i \in Id : object'[p][i] = object[p][i]
                             /\ mine'[p] = mine[p] /\ had'[p] = had[p] /\ local'[p] = local[p]
                             /\ zombie'[p] = zombie[p]
  <2> SUFFICES ASSUME NEW p \in connected'
               PROVE  /\ p \in connected /\ p # c /\ p \in Client /\ p \in Node /\ p # Server
                      /\ <<p, Server>> \in Link /\ <<Server, p>> \in Link
                      /\ <<p, Server>>[1] = p /\ <<p, Server>>[2] = Server
                      /\ <<Server, p>>[1] = Server /\ <<Server, p>>[2] = p
                      /\ \A i \in Id : object'[p][i] = object[p][i]
                      /\ mine'[p] = mine[p] /\ had'[p] = had[p] /\ local'[p] = local[p]
                      /\ zombie'[p] = zombie[p]
    OBVIOUS
  <2>1. p \in connected /\ p # c
    BY <1>2
  <2>2. p \in Node /\ p # Server
    BY <2>1, Connected
  <2> QED BY <1>3, <1>4, <2>1, <2>2, Connected
<1>14. /\ mine'[Server] = mine[Server] /\ had'[Server] = had[Server] /\ local'[Server] = local[Server]
       /\ zombie'[Server] = zombie[Server]
       /\ \A i \in Id : object'[Server][i] = IF i \in gone THEN None ELSE object[Server][i]
  BY <1>1, <1>3, <1>4
<1>15. None \notin Object /\ \A p \in Node : mine[p] \subseteq Object
  BY DEF Object, None, TypeOK
<1>16. GoneIsGone'
  <2> SUFFICES ASSUME NEW p \in Client, p \notin connected'
               PROVE  /\ \A i \in Id : object'[p][i] = None
                      /\ mine'[p] = {} /\ had'[p] = {} /\ local'[p] = {}
                      /\ \A m \in Sent' : p \notin {m.from, m.to}
    BY DEF GoneIsGone
  <2>1. p \in Node /\ p # Server
    BY Links
  <2>2. CASE p = c
    BY <1>3, <1>4, <1>9, <2>1, <2>2
  <2>3. CASE p # c
    <3>1. p \notin connected
      BY <1>2, <2>3
    <3> QED BY <1>3, <1>4, <1>9, <2>1, <2>3, <3>1 DEF GoneIsGone
  <2> QED BY <2>2, <2>3
<1>17. HadKnown'
  <2>1. \A n \in Node : had'[n] \subseteq 1 .. Len(maker) /\ mine'[n] \subseteq had'[n]
    BY <1>3, <1>4 DEF HadKnown
  <2>2. ASSUME NEW p \in Client
        PROVE  /\ had'[p] \subseteq mine'[p] \cup had'[Server]
               /\ \A o \in mine'[p] : maker[o] = p
    <3>1. p \in Node
      BY Links
    <3> QED BY <1>3, <1>4, <1>14, <3>1 DEF HadKnown
  <2> QED BY <1>2, <2>1, <2>2 DEF HadKnown
<1>18. UntoldIsNew'
  <2>1. ASSUME NEW l \in Link, NEW i \in Id, Up(l[1])', Up(l[2])', object'[l[1]][i] # None,
               ~Told(l, i)'
        PROVE  /\ object'[l[1]][i] \notin had'[l[2]]
               /\ \A m \in Sent' : m.type = "create" /\ m.from = l[1] /\ m.to = l[2] =>
                    m.obj # object'[l[1]][i]
    <3>1. /\ Up(l[1]) /\ Up(l[2]) /\ c \notin {l[1], l[2]} /\ l[1] \in Node /\ l[2] \in Node
      BY <1>1, <1>2, <2>1, Links DEF Up
    <3>2. object'[l[1]][i] = object[l[1]][i] /\ ~(l[1] = Server /\ i \in gone)
      BY <1>3, <2>1, <3>1
    <3>3. ~Told(l, i)
      BY <1>8, <2>1, <3>1, <3>2
    <3>4. had'[l[2]] = had[l[2]]
      BY <1>3, <3>1
    <3> QED BY <1>9, <2>1, <3>1, <3>2, <3>3, <3>4 DEF UntoldIsNew
  <2>2. ASSUME NEW p \in connected', NEW i \in Id, object'[p][i] # None,
               ~knows'[<<p, Server>>][i].exists
        PROVE  object'[p][i] \in mine'[p]
    <3>1. /\ <<p, Server>> \in Link
          /\ c \notin {<<p, Server>>[1], <<p, Server>>[2]} /\ <<p, Server>>[1] # Server
      BY <1>1, <1>13
    <3>2. knows'[<<p, Server>>][i].exists = knows[<<p, Server>>][i].exists
      BY ONLY <1>8, <3>1, i \in Id
    <3>3. p \in connected /\ object'[p][i] = object[p][i] /\ mine'[p] = mine[p]
      BY <1>13
    <3> QED BY <2>2, <3>2, <3>3 DEF UntoldIsNew
  <2> QED BY <2>1, <2>2 DEF UntoldIsNew
<1>19. CreatedOnce'
  <2>1. \A m \in net : m \in Sent /\ m.to \in Node
    <3>1. \A m \in net : m \in Sent
      BY DEF Sent
    <3>2. \A m \in Sent : m.to \in Node
      BY DEF WiresOK, WireOK, Wire
    <3> QED BY ONLY <3>1, <3>2
  <2>2. \A m \in net' : m.type = "create" => m.obj \notin had'[m.to]
    BY <1>3, <1>10, <2>1 DEF CreatedOnce
  <2>3. \A m \in Sent : m.from \in Node
    BY DEF WiresOK, WireOK, Wire
  <2>4. \A m \in Sent' : m.type = "create" /\ m.from # Server => m.obj \in mine'[m.from]
    BY <1>4, <1>9, <2>3 DEF CreatedOnce
  <2> QED BY <1>10, <2>2, <2>4 DEF CreatedOnce
<1>20. MakerKnows'
  <2> SUFFICES ASSUME NEW p \in connected', NEW i \in Id, object'[Server][i] \in mine'[p]
               PROVE  knows'[<<Server, p>>][i].exists
    BY DEF MakerKnows
  <2>1. object'[Server][i] # None /\ object'[Server][i] \in mine[p]
    BY <1>13, <1>15
  <2>2. i \notin gone /\ object'[Server][i] = object[Server][i]
    BY <1>14, <2>1
  <2>3. knows[<<Server, p>>][i].exists
    BY <1>13, <2>1, <2>2 DEF MakerKnows
  <2>4. knows'[<<Server, p>>][i].exists = knows[<<Server, p>>][i].exists
    <3>1. <<Server, p>> \in Link /\ c \notin {<<Server, p>>[1], <<Server, p>>[2]}
      BY <1>1, <1>13
    <3> QED BY ONLY <1>8, <2>2, <3>1, i \in Id
  <2> QED BY <2>3, <2>4
<1>21. LocalIsGone'
  <2>1. ASSUME NEW p \in Client, NEW i \in local'[p]
        PROVE  object'[p][i] = None
    <3>1. p \in Node /\ p # c
      BY <1>4, <2>1, Links
    <3>2. i \in local[p] /\ i \in Id
      BY <1>4, <3>1 DEF TypeOK
    <3> QED BY <1>3, <3>1, <3>2, Links DEF LocalIsGone
  <2> QED BY <1>14, <2>1 DEF LocalIsGone
<1>22. ToldArrives'
  <2> SUFFICES ASSUME NEW p \in connected', NEW i \in Id, object'[p][i] # None,
                      Told(<<p, Server>>, i)'
               PROVE  \/ object'[p][i] \in had'[Server]
                      \/ \E m \in net' : m.type = "create" /\ m.from = p /\ m.obj = object'[p][i]
    BY DEF ToldArrives
  <2>1. Told(<<p, Server>>, i)
    BY <1>1, <1>8, <1>13
  <2>2. \A m \in net : m.from = p => m \in net'
    <3>1. \A m \in net : m.from = p => m.to = Server
      BY <1>13 DEF WiresOK, WireOK, Sent, Link
    <3> QED BY <1>1, <1>10, <1>13, <3>1
  <2>3. p \in connected /\ object'[p][i] = object[p][i] /\ had'[Server] = had[Server]
    BY <1>13, <1>14
  <2>4. \/ object[p][i] \in had[Server]
        \/ \E m \in net : m.type = "create" /\ m.from = p /\ m.obj = object[p][i]
    BY <2>1, <2>3 DEF ToldArrives
  <2> QED BY ONLY <2>2, <2>3, <2>4
<1>23. \A p \in connected', i \in gone : object[Server][i] \notin mine[p]
  <2> SUFFICES ASSUME NEW p \in connected', NEW i \in gone, object[Server][i] \in mine[p]
               PROVE  FALSE
    OBVIOUS
  <2>1. p \in Client /\ p # c
    BY <1>13
  <2>2. maker[object[Server][i]] = p
    BY <2>1 DEF HadKnown
  <2> QED BY <1>5, <2>1, <2>2
<1>24. MakerRules'
  <2> SUFFICES ASSUME NEW p \in connected', NEW i \in Id, object'[p][i] \in mine'[p]
               PROVE  /\ ~Ordered(Server, p, i)'
                      /\ object'[p][i] \in had'[Server] =>
                           /\ object'[Server][i] = object'[p][i]
                           /\ object'[p][i] \notin mine'[Server] /\ i \notin zombie'[Server]
    BY DEF MakerRules
  <2>1. object'[p][i] = object[p][i] /\ object[p][i] \in mine[p] /\ p \in connected
    BY <1>13
  <2>2. /\ ~Ordered(Server, p, i)
        /\ object[p][i] \in had[Server] =>
             /\ object[Server][i] = object[p][i]
             /\ object[p][i] \notin mine[Server] /\ i \notin zombie[Server]
    BY <2>1 DEF MakerRules
  <2>3. i \notin gone
    <3> SUFFICES ASSUME i \in gone PROVE FALSE
      OBVIOUS
    <3>1. p \in Node /\ object[p][i] # None
      BY <1>13, <1>15, <2>1
    <3>2. object[p][i] = cur[i]
      BY <3>1 DEF Last
    <3> QED BY <1>5, <1>23, <2>1, <3>2
  <2>4. ~Ordered(Server, p, i)'
    BY <1>1, <1>11, <1>13, <2>2, <2>3
  <2> QED BY <1>14, <2>1, <2>2, <2>3, <2>4
<1>25. OrdersAreFor(cur)'
  <2>1. ASSUME NEW p \in Client, NEW i \in Id, Ordered(p, Server, i)'
        PROVE  cur[i] # None /\ maker[cur[i]] = p /\ object'[p][i] \notin mine'[p]
    <3>1. cur[i] # None /\ maker[cur[i]] = p /\ object[p][i] \notin mine[p]
      BY <1>12, <2>1 DEF OrdersAreFor
    <3>2. p \in Node /\ p # Server
      BY Links
    <3> QED BY <1>3, <1>4, <3>1, <3>2
  <2>2. ASSUME NEW p \in connected', NEW i \in local'[p]
        PROVE  /\ cur[i] \in mine'[p]
               /\ IF cur[i] \in had'[Server]
                  THEN object'[Server][i] = cur[i] \/ Ordered(Server, p, i)'
                  ELSE /\ Ordered(p, Server, i)'
                       /\ \E q \in net' : q.type = "create" /\ q.from = p /\ i \in q.ids
    <3>1. i \in local[p] /\ p \in connected /\ p # c
      BY <1>13, <2>2
    <3>2. i \in Id /\ cur[i] \in mine[p] /\ cur[i] \in mine'[p]
      BY <1>13, <3>1, LocalIsOver
    <3>3. CASE cur[i] \in had[Server]
      <4>1. CASE object[Server][i] = cur[i]
        <5>1. i \notin gone
          BY <1>23, <3>2, <4>1
        <5>2. object'[Server][i] = cur[i]
          BY <1>14, <3>2, <4>1, <5>1
        <5> QED BY <1>14, <3>2, <3>3, <5>2
      <4>2. CASE Ordered(Server, p, i)
        <5>1. Ordered(Server, p, i)'
          BY <1>1, <1>11, <1>13, <3>2, <4>2
        <5> QED BY <1>14, <3>2, <3>3, <5>1
      <4> QED BY <3>1, <3>3, <4>1, <4>2 DEF OrdersAreFor
    <3>4. CASE cur[i] \notin had[Server]
      <4>1. /\ Ordered(p, Server, i)
            /\ \E q \in net : q.type = "create" /\ q.from = p /\ i \in q.ids
        BY <3>1, <3>4 DEF OrdersAreFor
      <4>2. Ordered(p, Server, i)'
        BY <1>1, <1>11, <1>13, <3>2, <4>1
      <4>3. PICK q \in net : q.type = "create" /\ q.from = p /\ i \in q.ids
        BY <4>1
      <4>4. q.to = Server
        BY <1>13, <4>3 DEF WiresOK, WireOK, Sent, Link
      <4>5. q \in net'
        BY <1>1, <1>10, <3>1, <4>3, <4>4
      <4> QED BY <1>14, <3>2, <3>4, <4>2, <4>3, <4>5
    <3> QED BY <3>3, <3>4
  <2> QED BY ONLY <1>2, <2>1, <2>2 DEF OrdersAreFor
<1>26. NoOrphan'
  <2> SUFFICES ASSUME NEW p \in connected', NEW i \in Id, NEW o \in Object,
                      \/ object'[p][i] = o /\ i \notin zombie'[p] /\ o \notin mine'[p]
                      \/ \E m \in net' : m.type = "create" /\ m.to = p /\ i \in m.ids /\ m.obj = o,
                      object'[Server][i] # o
               PROVE  Ordered(Server, p, i)'
    BY DEF NoOrphan
  <2>1. \/ object[p][i] = o /\ i \notin zombie[p] /\ o \notin mine[p]
        \/ \E m \in net : m.type = "create" /\ m.to = p /\ i \in m.ids /\ m.obj = o
    BY <1>10, <1>13
  <2>2. p \in connected
    BY <1>13
  <2>3. CASE object[Server][i] # o
    <3>1. Ordered(Server, p, i)
      BY <2>1, <2>2, <2>3 DEF NoOrphan
    <3> QED BY <1>1, <1>11, <1>13, <3>1
  <2>4. CASE object[Server][i] = o
    <3>1. i \in gone
      BY <1>14, <2>4
    <3>2. p \in Informed(Server, i)
      BY <1>15, <2>1, <2>2, <2>4, AllAreInformed
    <3> QED BY <1>1, <1>11, <1>13, <3>1, <3>2
  <2> QED BY <2>3, <2>4
<1> QED BY <1>16, <1>17, <1>18, <1>19, <1>20, <1>21, <1>22, <1>24, <1>25, <1>26 DEF OrderKept

LEMMA LogoutOrders ==
  ASSUME NEW cur, OrderAt(cur), NEW c \in Client, Logout(c)
  PROVE  OrderKept(cur)
<1>1. LeaveServer(c) /\ doomed' = [doomed EXCEPT ![c] = {}]
  BY DEF Logout
<1>2. TypeOK'
  BY LogoutKeeps DEF Kept, Typed, OrderAt
<1>3. \A n \in Node : doomed'[n] = IF n = c THEN {} ELSE doomed[n]
  BY <1>1 DEF OrderAt, NetInv, TypeOK
<1> QED BY <1>1, <1>2, <1>3, LeaveServerOrders

LEMMA CheaterOrders ==
  ASSUME NEW cur, OrderAt(cur), NEW c \in Client, NEW ordered, \A d \in ordered : d.from = c,
         Cheater(c, ordered)
  PROVE  OrderKept(cur)
<1>1. LeaveServer(c) /\ doomed' = [doomed EXCEPT ![c] = {}, ![Server] = @ \ ordered]
  BY DEF Cheater
<1>2. TypeOK'
  BY CheaterKeeps DEF Kept, Typed, OrderAt
<1>3. doomed \in [Node -> SUBSET [id : Id, from : Node]]
  BY DEF OrderAt, NetInv, TypeOK
<1>4. c \in Node /\ c # Server /\ Server \in Node
  BY Links
<1>5. \A n \in Node : doomed'[n] = IF n = c THEN {} ELSE IF n = Server THEN doomed[n] \ ordered
                                  ELSE doomed[n]
  BY <1>1, <1>3, <1>4
<1>6. \A n \in Node : doomed'[n] \subseteq doomed[n]
  BY <1>5
<1>7. ASSUME NEW n \in Node, NEW d \in doomed[n]
      PROVE  d \in doomed'[n] \/ n = c \/ d.from = c
  BY <1>5
<1> QED BY <1>1, <1>2, <1>6, <1>7, LeaveServerOrders

(* A creation is about an object that the receiver never had.              *)
Creation(m, i) ==
  /\ m.type = "create" /\ m.ids = {i} /\ m \in Sent /\ <<m.from, m.to>> \in Link
  /\ m.from \in Node /\ m.to \in Node /\ m.from # m.to /\ (m.to = Server <=> m.from # Server)
  /\ Up(m.from) /\ Up(m.to)
  /\ m.obj \in Object /\ m.obj \in had[m.from] /\ m.obj \notin had[m.to]
  /\ object[m.to][i] = None /\ i \notin zombie[m.to] /\ i \notin local[m.to]
  /\ m.from # Server => m.obj \in mine[m.from] /\ maker[m.obj] = m.from

(* It brings the object, and the receiver takes the sender to have it.     *)
Arrived(m, i) ==
  /\ UNCHANGED <<mine, destroyer, doomed, connected, maker, zombie, local>>
  /\ \A p \in Node, j \in Id :
       object'[p][j] = IF p = m.to /\ j = i THEN m.obj ELSE object[p][j]
  /\ \A p \in Node : had'[p] = IF p = m.to THEN had[p] \cup {m.obj} ELSE had[p]
  /\ \A l \in Link, j \in Id :
       IF l[1] = m.to /\ j = i
       THEN knows'[l][j].exists <=> l[2] = m.from
       ELSE knows'[l][j] = knows[l][j]
  /\ net' = net \ {m} /\ Sent' = Sent

LEMMA IntroducedIs ==
  ASSUME TypeOK, NEW n \in Node, NEW p, NEW i \in Id, NEW l \in Link, NEW j \in Id
  PROVE  IF l[1] = n /\ j = i
         THEN Introduced(n, p, i)[l][j].exists <=> l[2] = p
         ELSE Introduced(n, p, i)[l][j] = knows[l][j]
<1> DEFINE k == IF l[2] = p THEN [Unknown EXCEPT !.exists = TRUE]
                ELSE IF n = Server THEN Reset ELSE Unknown
<1>1. knows[l] \in [Id -> Knowledge]
  BY DEF TypeOK
<1>2. Introduced(n, p, i)[l] = IF l[1] # n THEN knows[l] ELSE [knows[l] EXCEPT ![i] = k]
  BY DEF Introduced
<1>3. k.exists <=> l[2] = p
  <2>1. CASE l[2] = p
    BY <2>1, KnowledgeOf
  <2>2. CASE l[2] # p
    <3>1. k \in {Reset, Unknown}
      BY <2>2
    <3> HIDE DEF k
    <3> QED BY <2>2, <3>1, KnowledgeOf
  <2> QED BY <2>1, <2>2
<1> HIDE DEF k
<1> QED BY <1>1, <1>2, <1>3

LEMMA CreationIs ==
  ASSUME NEW cur, OrderAt(cur), NEW m \in net, m.type = "create", NEW i \in Id, m.ids = {i}
  PROVE  Creation(m, i) /\ m.obj = cur[i] /\ m.ack
<1> USE DEF OrderAt, NetInv, Orderly
<1>1. /\ m \in Sent /\ m.ack /\ m.obj \in Object /\ <<m.from, m.to>> \in Link
      /\ m.from \in Node /\ m.to \in Node
  <2>1. m \in Sent /\ WireOK(m)
    BY DEF WiresOK, Sent
  <2> QED BY <2>1 DEF WireOK, Wire
<1>2. m.from # m.to /\ (m.to = Server <=> m.from # Server)
  BY <1>1, Links
<1>3. \A p \in {m.from, m.to} : Up(p)
  <2>1. \A p \in {m.from, m.to} : p # Server /\ ~Up(p) => p \in Client \ connected
    BY <1>1 DEF Up, Node
  <2> QED BY <1>1, <2>1 DEF Up, GoneIsGone
<1>4. m.obj = cur[i] /\ m.obj \in had[m.from] /\ m.obj \notin had[m.to]
  BY <1>1 DEF Last, HadAll, CreatedOnce
<1>5. object[m.to][i] = None
  <2>1. object[m.to][i] \in {None, cur[i]}
    BY <1>1 DEF Last
  <2>2. object[m.to][i] # None => object[m.to][i] \in had[m.to]
    BY <1>1 DEF HadAll
  <2> QED BY <1>4, <2>1, <2>2
<1>6. i \notin zombie[m.to]
  BY <1>1, <1>5 DEF ZombiesAreThere
<1>7. i \notin local[m.to]
  <2>1. CASE m.to = Server
    BY <2>1 DEF LocalIsGone
  <2>2. CASE m.to # Server
    <3>1. m.to \in connected
      BY <1>3, <2>2 DEF Up
    <3> QED BY <3>1, LocalIsOver
  <2> QED BY <2>1, <2>2
<1>8. m.from # Server => m.obj \in mine[m.from] /\ maker[m.obj] = m.from
  <2> SUFFICES ASSUME m.from # Server
               PROVE  m.obj \in mine[m.from] /\ maker[m.obj] = m.from
    OBVIOUS
  <2>1. m.obj \in mine[m.from]
    BY <1>1 DEF CreatedOnce
  <2>2. m.from \in Client
    BY <1>1 DEF Node
  <2> QED BY <2>1, <2>2 DEF HadKnown
<1> QED BY <1>1, <1>2, <1>3, <1>4, <1>5, <1>6, <1>7, <1>8 DEF Creation

LEMMA CreationArrives ==
  ASSUME NEW cur, OrderAt(cur), NEW m \in net, ReceiveCreate(m),
         ~(m.to = Server /\ Cheater(m.from, {})),
         NEW i \in Id, m.ids = {i}, Creation(m, i), m.ack
  PROVE  Arrived(m, i)
<1> USE DEF OrderAt, NetInv
<1> DEFINE n == m.to
<1>1. /\ object[n][i] = None /\ i \notin zombie[n] /\ m.from \in Node
      /\ n \in Node
  BY DEF Creation
<1>2. (CHOOSE j \in m.ids : TRUE) = i
  OBVIOUS
<1>3. /\ Handled(m)
      /\ object' = [object EXCEPT ![n][i] = m.obj]
      /\ knows' = Introduced(n, m.from, i)
      /\ zombie' = [zombie EXCEPT ![n] = @ \ {i}]
      /\ had' = [had EXCEPT ![n] = @ \cup {m.obj}]
      /\ UNCHANGED <<mine, orders, others, maker>>
  BY <1>1, <1>2 DEF ReceiveCreate
<1>4. zombie' = zombie /\ UNCHANGED orders
  <2>1. zombie[n] \ {i} = zombie[n]
    BY <1>1
  <2> QED BY <1>1, <1>3, <2>1 DEF TypeOK
<1>5. /\ \A p \in Node, j \in Id : object'[p][j] = IF p = n /\ j = i THEN m.obj ELSE object[p][j]
      /\ \A p \in Node : had'[p] = IF p = n THEN had[p] \cup {m.obj} ELSE had[p]
  BY <1>1, <1>3 DEF TypeOK, HistoryOK
<1>6. ASSUME NEW l \in Link, NEW j \in Id
      PROVE  IF l[1] = n /\ j = i
             THEN knows'[l][j].exists <=> l[2] = m.from
             ELSE knows'[l][j] = knows[l][j]
  <2>1. TypeOK
    OBVIOUS
  <2> QED BY ONLY <1>1, <1>3, <2>1, l \in Link, j \in Id, i \in Id, IntroducedIs
<1>7. net' = net \ {m} /\ Sent' = Sent
  BY <1>3 DEF Handled, Sent
<1> QED BY <1>3, <1>4, <1>5, <1>6, <1>7 DEF Arrived, orders, others

LEMMA ArrivedUntold ==
  ASSUME NEW cur, OrderAt(cur), NEW m \in net, NEW i \in Id, Creation(m, i), m.obj = cur[i],
         Arrived(m, i)
  PROVE  UntoldIsNew'
<1> USE DEF OrderAt, NetInv, Orderly
<1> DEFINE n == m.to
           s == m.from
           o == m.obj
<1>1. ASSUME NEW l \in Link, NEW j \in Id, Up(l[1])', Up(l[2])', object'[l[1]][j] # None,
             ~Told(l, j)'
      PROVE  /\ object'[l[1]][j] \notin had'[l[2]]
             /\ \A q \in Sent' : q.type = "create" /\ q.from = l[1] /\ q.to = l[2] =>
                  q.obj # object'[l[1]][j]
  <2>1. /\ l[1] \in Node /\ l[2] \in Node /\ l[1] # l[2] /\ (l[1] = Server <=> l[2] # Server)
        /\ l = <<l[1], l[2]>>
    BY Links
  <2>2. Up(l[1]) /\ Up(l[2])
    BY <1>1 DEF Up, Arrived
  <2>3. CASE l[1] = n /\ j = i
    <3>1. object'[l[1]][j] = o
      BY <2>1, <2>3 DEF Arrived
    <3>2. l[2] # s
      BY <1>1, <2>3 DEF Arrived, Told
    <3>3. n = Server /\ s # Server /\ l[2] # Server
      BY <2>1, <2>3, <3>2 DEF Creation
    <3>4. l[2] \in Client
      BY <2>1, <3>3 DEF Node
    <3>5. o \notin had[Server] /\ maker[o] = s
      BY <3>3 DEF Creation
    <3>6. o \notin had[l[2]]
      BY <3>2, <3>4, <3>5 DEF HadKnown
    <3>7. had'[l[2]] = had[l[2]]
      BY <2>1, <2>3 DEF Arrived
    <3>8. \A q \in Sent : q.type = "create" /\ q.from = Server => q.obj # o
      BY <3>5 DEF HadAll
    <3> QED BY <2>3, <3>1, <3>3, <3>6, <3>7, <3>8 DEF Arrived
  <2>4. CASE ~(l[1] = n /\ j = i)
    <3>1. object'[l[1]][j] = object[l[1]][j] /\ ~Told(l, j)
      BY <1>1, <2>1, <2>4 DEF Arrived, Told
    <3>2. /\ object[l[1]][j] \notin had[l[2]]
          /\ \A q \in Sent : q.type = "create" /\ q.from = l[1] /\ q.to = l[2] =>
               q.obj # object[l[1]][j]
      BY <1>1, <2>2, <3>1 DEF UntoldIsNew
    <3>3. ASSUME l[2] = n, object[l[1]][j] = o
          PROVE  FALSE
      <4>1. j = i
        <5>1. object[l[1]][j] \in {None, cur[j]}
          BY <2>1 DEF Last
        <5>2. object[l[1]][j] = cur[j] /\ cur[i] # None
          BY <1>1, <3>1, <3>3, <5>1
        <5> QED BY <3>3, <5>2 DEF Distinct
      <4>2. l[1] # s
        BY <3>2, <3>3 DEF Creation
      <4>3. n = Server /\ l[1] # Server
        BY <2>1, <3>3, <4>2 DEF Creation
      <4>4. l[1] \in connected /\ l[1] \in Client
        BY <2>2, <4>3 DEF Up, TypeOK
      <4>5. o \in mine[l[1]]
        <5>1. ~knows[<<l[1], Server>>][j].exists
          BY <2>1, <3>1, <3>3, <4>3 DEF Told
        <5> QED BY <1>1, <3>1, <3>3, <4>4, <5>1 DEF UntoldIsNew
      <4>6. maker[o] = l[1] /\ maker[o] = s
        BY <4>3, <4>4, <4>5 DEF HadKnown, Creation
      <4> QED BY <4>2, <4>6
    <3>4. object[l[1]][j] \notin had'[l[2]]
      <4>1. had'[l[2]] = IF l[2] = n THEN had[l[2]] \cup {o} ELSE had[l[2]]
        BY <2>1 DEF Arrived
      <4> QED BY ONLY <3>2, <3>3, <4>1
    <3> QED BY <3>1, <3>2, <3>4 DEF Arrived
  <2> QED BY <2>3, <2>4
<1>2. ASSUME NEW c \in connected', NEW j \in Id, object'[c][j] # None,
             ~knows'[<<c, Server>>][j].exists
      PROVE  object'[c][j] \in mine'[c]
  <2>1. c \in connected
    BY DEF Arrived
  <2>2. /\ c \in Client /\ c \in Node /\ c # Server /\ <<c, Server>> \in Link
        /\ <<c, Server>>[1] = c /\ <<c, Server>>[2] = Server
    BY <2>1, Connected
  <2>3. ~(c = n /\ j = i)
    <3>1. c = n => s = Server
      BY <2>2 DEF Creation
    <3> QED BY <1>2, <2>2, <3>1 DEF Arrived
  <2>4. object'[c][j] = object[c][j] /\ knows'[<<c, Server>>][j] = knows[<<c, Server>>][j]
    BY <2>2, <2>3 DEF Arrived
  <2>5. object[c][j] \in mine[c]
    BY <1>2, <2>1, <2>4 DEF UntoldIsNew
  <2> QED BY <2>4, <2>5 DEF Arrived
<1> QED BY <1>1, <1>2 DEF UntoldIsNew

LEMMA ArrivedTables ==
  ASSUME NEW cur, OrderAt(cur), NEW m \in net, NEW i \in Id, Creation(m, i), m.obj = cur[i],
         Arrived(m, i)
  PROVE  /\ GoneIsGone' /\ HadKnown' /\ CreatedOnce'
         /\ MakerKnows' /\ LocalIsGone' /\ ToldArrives'
<1> USE DEF OrderAt, NetInv, Orderly
<1> DEFINE n == m.to
           s == m.from
           o == m.obj
<1>1. GoneIsGone'
  <2> SUFFICES ASSUME NEW c \in Client, c \notin connected
               PROVE  /\ \A j \in Id : object'[c][j] = None
                      /\ mine[c] = {} /\ had'[c] = {} /\ local[c] = {}
                      /\ \A q \in Sent : c \notin {q.from, q.to}
    BY DEF GoneIsGone, Arrived
  <2>1. c \in Node /\ c # n
    BY Links DEF Creation, Up
  <2>2. had'[c] = had[c] /\ \A j \in Id : object'[c][j] = object[c][j]
    BY <2>1 DEF Arrived
  <2> QED BY <2>2 DEF GoneIsGone
<1>2. HadKnown'
  <2>1. ASSUME NEW p \in Node
        PROVE  had'[p] \subseteq 1 .. Len(maker) /\ mine[p] \subseteq had'[p]
    <3>1. had[p] \subseteq 1 .. Len(maker) /\ mine[p] \subseteq had[p]
      BY DEF HadKnown
    <3>2. o \in 1 .. Len(maker)
      BY DEF Creation, HadKnown
    <3>3. had'[p] = IF p = n THEN had[p] \cup {o} ELSE had[p]
      BY DEF Arrived
    <3> QED BY ONLY <3>1, <3>2, <3>3
  <2>2. ASSUME NEW c \in Client
        PROVE  had'[c] \subseteq mine[c] \cup had'[Server] /\ \A x \in mine[c] : maker[x] = c
    <3>1. c \in Node /\ c # Server /\ Server \in Node
      BY Links
    <3>2. had[c] \subseteq mine[c] \cup had[Server] /\ \A x \in mine[c] : maker[x] = c
      BY DEF HadKnown
    <3>3. had[Server] \subseteq had'[Server]
      BY <3>1 DEF Arrived
    <3>4. c = n => o \in had[Server]
      BY <3>1 DEF Creation
    <3>5. had'[c] = IF c = n THEN had[c] \cup {o} ELSE had[c]
      BY <3>1 DEF Arrived
    <3> QED BY <3>2, <3>3, <3>4, <3>5
  <2> QED BY <2>1, <2>2 DEF HadKnown, Arrived
<1>3. CreatedOnce'
  <2>1. ASSUME NEW q \in net', q.type = "create"
        PROVE  q.obj \notin had'[q.to]
    <3>1. q \in net /\ q # m
      BY DEF Arrived
    <3>2. q.to \in Node
      <4>1. q \in Sent
        BY <3>1 DEF Sent
      <4> QED BY <4>1 DEF WiresOK, WireOK, Wire
    <3>3. q.obj \notin had[q.to]
      BY <2>1, <3>1 DEF CreatedOnce
    <3>4. ~(q.to = n /\ q.obj = o)
      BY <2>1, <3>1 DEF CreatedOnce, Creation
    <3>5. had'[q.to] = IF q.to = n THEN had[q.to] \cup {o} ELSE had[q.to]
      BY <3>2 DEF Arrived
    <3> QED BY ONLY <3>3, <3>4, <3>5
  <2>2. net' \subseteq net /\ Sent' = Sent /\ mine' = mine
    BY DEF Arrived
  <2> QED BY <2>1, <2>2 DEF CreatedOnce
<1>4. MakerKnows'
  <2> SUFFICES ASSUME NEW c \in connected, NEW j \in Id, object'[Server][j] \in mine[c]
               PROVE  knows'[<<Server, c>>][j].exists
    BY DEF MakerKnows, Arrived
  <2>1. /\ c \in Client /\ <<Server, c>> \in Link /\ <<Server, c>>[1] = Server
        /\ <<Server, c>>[2] = c /\ Server \in Node
    BY Connected, Links
  <2>2. CASE n = Server /\ j = i
    <3>1. o \in mine[c] /\ maker[o] = s
      BY <2>1, <2>2 DEF Arrived, Creation
    <3>2. c = s
      BY <2>1, <3>1 DEF HadKnown
    <3> QED BY <2>1, <2>2, <3>2 DEF Arrived
  <2>3. CASE ~(n = Server /\ j = i)
    <3>1. /\ object'[Server][j] = object[Server][j]
          /\ knows'[<<Server, c>>][j] = knows[<<Server, c>>][j]
      BY <2>1, <2>3 DEF Arrived
    <3> QED BY <3>1 DEF MakerKnows
  <2> QED BY <2>2, <2>3
<1>5. LocalIsGone'
  <2> SUFFICES ASSUME NEW c \in Client, NEW j \in local[c]
               PROVE  object'[c][j] = None
    BY DEF LocalIsGone, Arrived
  <2>1. c \in Node /\ j \in Id
    BY Links DEF TypeOK
  <2>2. ~(c = n /\ j = i)
    BY DEF Creation
  <2> QED BY <2>1, <2>2 DEF LocalIsGone, Arrived
<1>6. ToldArrives'
  <2> SUFFICES ASSUME NEW c \in connected, NEW j \in Id, object'[c][j] # None,
                      Told(<<c, Server>>, j)'
               PROVE  \/ object'[c][j] \in had'[Server]
                      \/ \E q \in net' : q.type = "create" /\ q.from = c /\ q.obj = object'[c][j]
    BY DEF ToldArrives, Arrived
  <2>1. /\ c \in Client /\ c \in Node /\ c # Server /\ <<c, Server>> \in Link
        /\ <<c, Server>>[1] = c /\ Server \in Node
    BY Connected, Links
  <2>2. had[Server] \subseteq had'[Server]
    BY <2>1 DEF Arrived
  <2>3. CASE c = n /\ j = i
    <3>1. object'[c][j] = o /\ o \in had[Server]
      BY <2>1, <2>3 DEF Arrived, Creation
    <3> QED BY <2>2, <3>1
  <2>4. CASE ~(c = n /\ j = i)
    <3>1. object'[c][j] = object[c][j] /\ Told(<<c, Server>>, j)
      BY <2>1, <2>4 DEF Arrived, Told
    <3>2. \/ object[c][j] \in had[Server]
          \/ \E q \in net : q.type = "create" /\ q.from = c /\ q.obj = object[c][j]
      BY <3>1 DEF ToldArrives
    <3>3. m.from = c => o \in had'[Server]
      BY <2>1 DEF Arrived, Creation
    <3> QED BY <2>2, <3>1, <3>2, <3>3 DEF Arrived
  <2> QED BY <2>3, <2>4
<1> QED BY <1>1, <1>2, <1>3, <1>4, <1>5, <1>6

LEMMA ArrivedRules ==
  ASSUME NEW cur, OrderAt(cur), NEW m \in net, NEW i \in Id, Creation(m, i), m.obj = cur[i],
         Arrived(m, i)
  PROVE  MakerRules' /\ OrdersAreFor(cur)' /\ NoOrphan'
<1> USE DEF OrderAt, NetInv, Orderly
<1> DEFINE n == m.to
           s == m.from
           o == m.obj
<1>1. ASSUME NEW p, NEW q, NEW j
      PROVE  Ordered(p, q, j)' <=> Ordered(p, q, j)
  <2>1. m.type = "create" /\ net' = net \ {m} /\ destroyer' = destroyer /\ doomed' = doomed
    BY DEF Arrived, Creation
  <2> QED BY ONLY <2>1 DEF Ordered
<1>2. /\ connected' = connected /\ mine' = mine /\ zombie' = zombie /\ local' = local
      /\ maker' = maker /\ net' = net \ {m}
      /\ \A p \in Node, j \in Id : object'[p][j] = IF p = n /\ j = i THEN o ELSE object[p][j]
      /\ \A p \in Node : had'[p] = IF p = n THEN had[p] \cup {o} ELSE had[p]
  BY DEF Arrived
<1>3. /\ o \in Object /\ o \notin had[n] /\ object[n][i] = None /\ i \notin zombie[n]
      /\ m.type = "create" /\ m.ids = {i} /\ n \in Node /\ (n = Server <=> s # Server)
  BY DEF Creation
<1>4. o \notin mine[n] /\ None \notin Object /\ Server \in Node
  BY <1>3, Links DEF HadKnown, Object, None
<1>5. \A c \in connected : c \in Client /\ c \in Node /\ c # Server
  BY Connected
<1>6. MakerRules'
  <2> SUFFICES ASSUME NEW c \in connected, NEW j \in Id, object'[c][j] \in mine[c]
               PROVE  /\ ~Ordered(Server, c, j)
                      /\ object'[c][j] \in had'[Server] =>
                           /\ object'[Server][j] = object'[c][j]
                           /\ object'[c][j] \notin mine[Server] /\ j \notin zombie[Server]
    BY <1>1, <1>2 DEF MakerRules
  <2>1. ~(c = n /\ j = i)
    BY <1>2, <1>4, <1>5
  <2>2. object'[c][j] = object[c][j]
    BY <1>2, <1>5, <2>1
  <2>3. object[c][j] # None
    BY <1>4, <1>5, <2>2 DEF TypeOK
  <2>4. /\ ~Ordered(Server, c, j)
        /\ object[c][j] \in had[Server] =>
             /\ object[Server][j] = object[c][j]
             /\ object[c][j] \notin mine[Server] /\ j \notin zombie[Server]
    BY <2>2 DEF MakerRules
  <2>5. CASE object[c][j] \in had[Server]
    <3>1. object[Server][j] = object[c][j]
      BY <2>4, <2>5
    <3>2. ~(n = Server /\ j = i)
      BY <1>3, <2>3, <3>1
    <3> QED BY <1>2, <1>4, <2>2, <2>4, <2>5, <3>2
  <2>6. CASE object[c][j] \notin had[Server]
    <3> SUFFICES ASSUME object[c][j] \in had'[Server]
                 PROVE  /\ object'[Server][j] = object[c][j]
                        /\ object[c][j] \notin mine[Server] /\ j \notin zombie[Server]
      BY <2>2, <2>4
    <3>1. n = Server /\ object[c][j] = o
      BY <1>2, <1>4, <2>6
    <3>2. object[c][j] = cur[j]
      <4>1. object[c][j] \in {None, cur[j]}
        BY <1>5 DEF Last
      <4> QED BY <2>3, <4>1
    <3>3. j = i
      BY <2>3, <3>1, <3>2 DEF Distinct
    <3> QED BY <1>2, <1>3, <1>4, <3>1, <3>3
  <2> QED BY <2>5, <2>6
<1>7. OrdersAreFor(cur)'
  <2>1. ASSUME NEW c \in Client, NEW j \in Id, Ordered(c, Server, j)
        PROVE  cur[j] # None /\ maker[cur[j]] = c /\ object'[c][j] \notin mine[c]
    <3>1. cur[j] # None /\ maker[cur[j]] = c /\ object[c][j] \notin mine[c]
      BY <2>1 DEF OrdersAreFor
    <3>2. c \in Node
      BY Links
    <3> QED BY <1>2, <1>4, <3>1, <3>2
  <2>2. ASSUME NEW c \in connected, NEW j \in local[c]
        PROVE  /\ cur[j] \in mine[c]
               /\ IF cur[j] \in had'[Server]
                  THEN object'[Server][j] = cur[j] \/ Ordered(Server, c, j)
                  ELSE /\ Ordered(c, Server, j)
                       /\ \E q \in net' : q.type = "create" /\ q.from = c /\ j \in q.ids
    <3>1. cur[j] \in mine[c] /\ j \in Id
      BY LocalIsOver
    <3>2. cur[j] # None
      BY <1>4, <1>5, <3>1 DEF TypeOK
    <3>3. CASE cur[j] \in had[Server]
      <4>1. object[Server][j] = cur[j] \/ Ordered(Server, c, j)
        BY <3>3 DEF OrdersAreFor
      <4>2. object[Server][j] = cur[j] => object'[Server][j] = cur[j]
        BY <1>2, <1>4, <3>1
      <4>3. cur[j] \in had'[Server]
        BY <1>2, <1>4, <3>3
      <4> QED BY <3>1, <4>1, <4>2, <4>3
    <3>4. CASE cur[j] \notin had[Server]
      <4>1. /\ Ordered(c, Server, j)
            /\ \E q \in net : q.type = "create" /\ q.from = c /\ j \in q.ids
        BY <3>4 DEF OrdersAreFor
      <4>2. PICK q \in net : q.type = "create" /\ q.from = c /\ j \in q.ids
        BY <4>1
      <4>3. CASE n = Server /\ j = i
        <5>1. object'[Server][j] = cur[j] /\ cur[j] \in had'[Server]
          BY <1>2, <1>4, <3>1, <4>3
        <5> QED BY <3>1, <5>1
      <4>4. CASE ~(n = Server /\ j = i)
        <5>1. cur[j] \notin had'[Server]
          <6>1. n = Server => cur[j] # o
            BY <3>1, <3>2, <4>4 DEF Distinct
          <6>2. had'[Server] = IF n = Server THEN had[Server] \cup {o} ELSE had[Server]
            BY <1>2, <1>4
          <6> QED BY ONLY <3>4, <6>1, <6>2
        <5>2. q # m
          BY <1>3, <1>5, <4>2, <4>4
        <5>3. \E r \in net' : r.type = "create" /\ r.from = c /\ j \in r.ids
          BY <1>2, <4>2, <5>2
        <5> QED BY <3>1, <4>1, <5>1, <5>3
      <4> QED BY <4>3, <4>4
    <3> QED BY <3>3, <3>4
  <2>3. connected' = connected /\ mine' = mine /\ local' = local /\ maker' = maker
    BY <1>2
  <2> QED BY ONLY <1>1, <2>1, <2>2, <2>3 DEF OrdersAreFor
<1>8. NoOrphan'
  <2> SUFFICES ASSUME NEW c \in connected, NEW j \in Id, NEW x \in Object,
                      \/ object'[c][j] = x /\ j \notin zombie[c] /\ x \notin mine[c]
                      \/ \E q \in net' : q.type = "create" /\ q.to = c /\ j \in q.ids /\ q.obj = x,
                      object'[Server][j] # x
               PROVE  Ordered(Server, c, j)
    BY <1>1, <1>2 DEF NoOrphan
  <2>1. \/ object[c][j] = x /\ j \notin zombie[c] /\ x \notin mine[c]
        \/ \E q \in net : q.type = "create" /\ q.to = c /\ j \in q.ids /\ q.obj = x
    <3>1. CASE object'[c][j] = x /\ j \notin zombie[c] /\ x \notin mine[c]
      <4>1. CASE c = n /\ j = i
        <5>1. x = o
          BY <1>2, <1>3, <3>1, <4>1
        <5> QED BY <1>3, <4>1, <5>1
      <4>2. CASE ~(c = n /\ j = i)
        BY <1>2, <1>5, <3>1, <4>2
      <4> QED BY <4>1, <4>2
    <3>2. CASE \E q \in net' : q.type = "create" /\ q.to = c /\ j \in q.ids /\ q.obj = x
      BY <1>2, <3>2
    <3> QED BY <3>1, <3>2
  <2>2. object[Server][j] # x
    BY <1>2, <1>3, <1>4
  <2> QED BY <2>1, <2>2 DEF NoOrphan
<1> QED BY <1>6, <1>7, <1>8

(* Whom the server takes to know of an object, and who has it, when its    *)
(* creation arrives.  The server disconnects who may not use the id.       *)
LEMMA ReceiveCreateOrders ==
  ASSUME NEW cur, OrderAt(cur), NEW m \in net, ReceiveCreate(m),
         ~(m.to = Server /\ Cheater(m.from, {}))
  PROVE  OrderKept(cur)
<1>1. m.type = "create"
  BY DEF ReceiveCreate
<1>2. PICK i \in Id : m.ids = {i}
  BY <1>1 DEF OrderAt, NetInv, WiresOK, WireOK, Sent
<1>3. Creation(m, i) /\ m.obj = cur[i] /\ m.ack
  BY <1>1, <1>2, CreationIs
<1>4. Arrived(m, i)
  BY <1>2, <1>3, CreationArrives
<1> QED BY <1>3, <1>4, ArrivedUntold, ArrivedTables, ArrivedRules DEF OrderKept, Orderly

(* Nobody has or had the next object, and nothing is left of the last one  *)
(* with its id.                                                            *)
Unborn(n, i, o) ==
  /\ o \in Object /\ o # None /\ (n # Server => n \in connected)
  /\ \A p \in Node : o \notin had[p] /\ o \notin mine[p] /\ object[p][i] = None
  /\ \A p \in Node, j \in Id : object[p][j] # o
  /\ \A m \in Sent : m.type = "create" => m.obj # o /\ m.from \in Node /\ m.to \in Node
  /\ \A l \in Link : ~Ordered(l[1], l[2], i)
  /\ \A c \in Client : i \notin local[c]

Born(n, i, o) ==
  /\ UNCHANGED <<zombie, destroyer, doomed, local, net, acks, connected>>
  /\ \A p \in Node, j \in Id : object'[p][j] = IF p = n /\ j = i THEN o ELSE object[p][j]
  /\ \A p \in Node : /\ had'[p] = IF p = n THEN had[p] \cup {o} ELSE had[p]
                     /\ mine'[p] = IF p = n THEN mine[p] \cup {o} ELSE mine[p]
  /\ \A l \in Link, j \in Id :
       IF l[1] = n /\ j = i THEN ~Told(l, j)' ELSE knows'[l][j] = knows[l][j]
  /\ Len(maker) \in Nat /\ o = Len(maker) + 1 /\ Len(maker') = o
  /\ maker'[o] = n /\ \A x \in 1 .. Len(maker) : maker'[x] = maker[x]

LEMMA NextIsUnborn ==
  ASSUME NEW cur, OrderAt(cur), NEW n \in Node, NEW i \in Id, NEW o, o = Len(maker) + 1,
         MakeObject(n, i)
  PROVE  Unborn(n, i, o)
<1> USE DEF OrderAt, NetInv, Orderly
<1>1. Fresh(i) /\ o \in Object /\ Len(maker) \in Nat
  BY NewObject
<1>2. o # None
  BY <1>1 DEF Object, None
<1>3. n # Server => n \in connected
  BY DEF MakeObject, Up
<1>4. ASSUME NEW p \in Node
      PROVE  o \notin had[p] /\ o \notin mine[p] /\ object[p][i] = None
  <2>1. had[p] \subseteq 1 .. Len(maker) /\ mine[p] \subseteq had[p]
    BY DEF HadKnown
  <2>2. o \notin 1 .. Len(maker)
    BY <1>1
  <2> QED BY <1>1, <2>1, <2>2 DEF Fresh
<1>5. \A p \in Node, j \in Id : object[p][j] # o
  BY <1>2, <1>4 DEF HadAll
<1>6. ASSUME NEW m \in Sent, m.type = "create"
      PROVE  m.obj # o /\ m.from \in Node /\ m.to \in Node
  <2>1. m.from \in Node /\ m.to \in Node
    BY DEF WiresOK, WireOK, Wire
  <2>2. m.obj \in had[m.from]
    BY <1>6 DEF HadAll
  <2> QED BY <1>4, <2>1, <2>2
<1>7. ASSUME NEW l \in Link
      PROVE  ~Ordered(l[1], l[2], i)
  <2>1. <<l[1], l[2]>> \in Link /\ l[2] \in Node
    BY Links
  <2>2. i \notin destroyer[<<l[1], l[2]>>] /\ \A d \in doomed[l[2]] : d.id # i
    BY <1>1, <2>1 DEF Fresh
  <2>3. ASSUME NEW m \in net, m.type = "destroy"
        PROVE  i \notin m.ids
    <3>1. m \in net \cup acks /\ m.ack
      BY <2>3 DEF WiresOK, WireOK, Sent
    <3> QED BY <1>1, <3>1 DEF Fresh
  <2> QED BY <2>2, <2>3 DEF Ordered
<1>8. ASSUME NEW c \in Client, i \in local[c]
      PROVE  FALSE
  <2>1. c \in connected
    BY <1>8 DEF GoneIsGone
  <2>2. /\ <<c, Server>> \in Link /\ <<Server, c>> \in Link /\ c \in Node
        /\ <<c, Server>>[1] = c /\ <<c, Server>>[2] = Server
        /\ <<Server, c>>[1] = Server /\ <<Server, c>>[2] = c /\ Server \in Node
    BY <2>1, Connected, Links
  <2>3. ~Ordered(c, Server, i) /\ ~Ordered(Server, c, i)
    BY <1>7, <2>2
  <2>4. cur[i] \in mine[c] /\ object[Server][i] = cur[i]
    BY <1>8, <2>1, <2>3 DEF OrdersAreFor
  <2>5. cur[i] \in Object
    BY <2>2, <2>4 DEF TypeOK
  <2>6. object[Server][i] = None
    BY <1>4, <2>2
  <2> QED BY <2>4, <2>5, <2>6 DEF Object, None
<1> QED BY <1>1, <1>2, <1>3, <1>4, <1>5, <1>6, <1>7, <1>8 DEF Unborn

LEMMA NextIsBorn ==
  ASSUME NEW cur, OrderAt(cur), NEW n \in Node, NEW i \in Id, NEW o, o = Len(maker) + 1,
         MakeObject(n, i)
  PROVE  Born(n, i, o)
<1> USE DEF OrderAt, NetInv
<1>1. /\ UNCHANGED <<zombie, owner, destroyer, doomed, local, net, acks,
                     connected, ready, accused, budget, ended>>
      /\ knows' = [l \in Link |-> IF l[1] = n THEN [knows[l] EXCEPT ![i] = Reset] ELSE knows[l]]
      /\ maker' = Append(maker, n)
      /\ had' = [had EXCEPT ![n] = @ \cup {o}]
      /\ mine' = [mine EXCEPT ![n] = @ \cup {o}]
  BY DEF MakeObject, orders, wires, others
<1>2. /\ Len(maker) \in Nat /\ Len(maker') = o
      /\ \A p \in Node, j \in Id : object'[p][j] = IF p = n /\ j = i THEN o ELSE object[p][j]
  BY NewObject
<1>3. \A p \in Node : /\ had'[p] = IF p = n THEN had[p] \cup {o} ELSE had[p]
                      /\ mine'[p] = IF p = n THEN mine[p] \cup {o} ELSE mine[p]
  BY <1>1 DEF TypeOK, HistoryOK
<1>4. \A l \in Link, j \in Id :
        knows'[l][j] = IF l[1] = n /\ j = i THEN Reset ELSE knows[l][j]
  BY <1>1 DEF TypeOK
<1>5. \A l \in Link, j \in Id :
        IF l[1] = n /\ j = i THEN ~Told(l, j)' ELSE knows'[l][j] = knows[l][j]
  BY <1>4, KnowledgeOf DEF Told
<1>6. maker'[o] = n /\ \A x \in 1 .. Len(maker) : maker'[x] = maker[x]
  BY <1>1, <1>2 DEF HistoryOK
<1> QED BY <1>1, <1>2, <1>3, <1>5, <1>6 DEF Born

LEMMA BornUntold ==
  ASSUME NEW cur, OrderAt(cur), NEW n \in Node, NEW i \in Id, NEW o, Unborn(n, i, o), Born(n, i, o)
  PROVE  UntoldIsNew' /\ CreatedOnce' /\ ToldArrives' /\ MakerKnows'
<1> USE DEF OrderAt, NetInv, Orderly
<1>0. /\ net' = net /\ Sent' = Sent /\ connected' = connected
      /\ \A p \in Node : p # n => had'[p] = had[p] /\ mine'[p] = mine[p]
      /\ \A p \in Node : /\ had[p] \subseteq had'[p] /\ mine[p] \subseteq mine'[p]
                         /\ \A x \in had'[p] : x = o \/ x \in had[p]
                         /\ \A x \in mine'[p] : (x = o /\ p = n) \/ x \in mine[p]
      /\ o \in mine'[n]
  <2>1. net' = net /\ Sent' = Sent /\ connected' = connected
    BY DEF Born, Sent
  <2>2. \A p \in Node : /\ had'[p] = IF p = n THEN had[p] \cup {o} ELSE had[p]
                        /\ mine'[p] = IF p = n THEN mine[p] \cup {o} ELSE mine[p]
    BY DEF Born
  <2> QED BY ONLY <2>1, <2>2, n \in Node
<1>1. ASSUME NEW l \in Link, NEW j \in Id, Up(l[1])', Up(l[2])', object'[l[1]][j] # None,
             ~Told(l, j)'
      PROVE  /\ object'[l[1]][j] \notin had'[l[2]]
             /\ \A q \in Sent' : q.type = "create" /\ q.from = l[1] /\ q.to = l[2] =>
                  q.obj # object'[l[1]][j]
  <2>1. l[1] \in Node /\ l[2] \in Node /\ l[1] # l[2]
    BY Links
  <2>2. CASE l[1] = n /\ j = i
    <3>1. object'[l[1]][j] = o
      BY <2>1, <2>2 DEF Born
    <3>2. o \notin had'[l[2]]
      BY <1>0, <2>1, <2>2 DEF Unborn
    <3> QED BY <1>0, <3>1, <3>2 DEF Unborn
  <2>3. CASE ~(l[1] = n /\ j = i)
    <3>1. object'[l[1]][j] = object[l[1]][j] /\ ~Told(l, j) /\ Up(l[1]) /\ Up(l[2])
      BY <1>0, <1>1, <2>1, <2>3 DEF Born, Told, Up
    <3>2. /\ object[l[1]][j] \notin had[l[2]]
          /\ \A q \in Sent : q.type = "create" /\ q.from = l[1] /\ q.to = l[2] =>
               q.obj # object[l[1]][j]
      BY <1>1, <3>1 DEF UntoldIsNew
    <3>3. object[l[1]][j] # o
      BY <2>1 DEF Unborn
    <3> QED BY <1>0, <2>1, <3>1, <3>2, <3>3
  <2> QED BY <2>2, <2>3
<1>2. ASSUME NEW c \in connected', NEW j \in Id, object'[c][j] # None,
             ~knows'[<<c, Server>>][j].exists
      PROVE  object'[c][j] \in mine'[c]
  <2>1. c \in connected
    BY <1>0
  <2>2. /\ c \in Client /\ c \in Node /\ <<c, Server>> \in Link /\ <<c, Server>>[1] = c
    BY <2>1, Connected
  <2>3. CASE c = n /\ j = i
    BY <1>0, <2>2, <2>3 DEF Born
  <2>4. CASE ~(c = n /\ j = i)
    <3>1. object'[c][j] = object[c][j] /\ knows'[<<c, Server>>][j] = knows[<<c, Server>>][j]
      BY <2>2, <2>4 DEF Born
    <3>2. object[c][j] \in mine[c]
      BY <1>2, <2>1, <3>1 DEF UntoldIsNew
    <3> QED BY <1>0, <2>2, <3>1, <3>2
  <2> QED BY <2>3, <2>4
<1>3. CreatedOnce'
  <2>1. \A q \in net : q.type = "create" => q.obj \notin had'[q.to]
    <3> SUFFICES ASSUME NEW q \in net, q.type = "create"
                 PROVE  q.obj \notin had'[q.to]
      OBVIOUS
    <3>1. q.obj # o /\ q.to \in Node
      BY DEF Unborn, Sent
    <3>2. q.obj \notin had[q.to]
      BY DEF CreatedOnce
    <3> QED BY <1>0, <3>1, <3>2
  <2>2. \A q \in Sent : q.type = "create" /\ q.from # Server => q.obj \in mine'[q.from]
    BY <1>0 DEF CreatedOnce, Unborn
  <2> QED BY <1>0, <2>1, <2>2 DEF CreatedOnce
<1>4. ToldArrives'
  <2> SUFFICES ASSUME NEW c \in connected, NEW j \in Id, object'[c][j] # None,
                      Told(<<c, Server>>, j)'
               PROVE  \/ object'[c][j] \in had'[Server]
                      \/ \E q \in net : q.type = "create" /\ q.from = c /\ q.obj = object'[c][j]
    BY <1>0 DEF ToldArrives
  <2>1. /\ c \in Client /\ c \in Node /\ <<c, Server>> \in Link /\ <<c, Server>>[1] = c
        /\ Server \in Node
    BY Connected, Links
  <2>2. ~(c = n /\ j = i)
    BY <2>1 DEF Born
  <2>3. object'[c][j] = object[c][j] /\ Told(<<c, Server>>, j)
    BY <2>1, <2>2 DEF Born, Told
  <2> QED BY <1>0, <2>1, <2>3 DEF ToldArrives
<1>5. MakerKnows'
  <2> SUFFICES ASSUME NEW c \in connected, NEW j \in Id, object'[Server][j] \in mine'[c]
               PROVE  knows'[<<Server, c>>][j].exists
    BY <1>0 DEF MakerKnows
  <2>1. /\ c \in Node /\ c # Server /\ <<Server, c>> \in Link /\ <<Server, c>>[1] = Server
        /\ Server \in Node
    BY Connected, Links
  <2>2. ~(n = Server /\ j = i)
    <3>1. ASSUME n = Server, j = i PROVE FALSE
      <4>1. object'[Server][j] = o /\ mine'[c] = mine[c]
        BY <1>0, <2>1, <3>1 DEF Born
      <4> QED BY <2>1, <4>1 DEF Unborn
    <3> QED BY <3>1
  <2>3. object'[Server][j] = object[Server][j] /\ knows'[<<Server, c>>][j] = knows[<<Server, c>>][j]
    BY <2>1, <2>2 DEF Born
  <2>4. object[Server][j] \in mine[c]
    BY <1>0, <2>1, <2>3 DEF Unborn
  <2> QED BY <2>3, <2>4 DEF MakerKnows
<1> QED BY <1>1, <1>2, <1>3, <1>4, <1>5 DEF UntoldIsNew

LEMMA BornRules ==
  ASSUME NEW cur, OrderAt(cur), NEW n \in Node, NEW i \in Id, NEW o, Unborn(n, i, o), Born(n, i, o),
         NEW next, next = [cur EXCEPT ![i] = o]
  PROVE  MakerRules' /\ OrdersAreFor(next)' /\ NoOrphan' /\ Distinct(next)
<1> USE DEF OrderAt, NetInv, Orderly
<1>1. /\ net' = net /\ connected' = connected /\ zombie' = zombie /\ local' = local
      /\ \A p \in Node, j \in Id : object'[p][j] = IF p = n /\ j = i THEN o ELSE object[p][j]
      /\ Server \in Node
  BY Links DEF Born
<1>2. /\ \A p \in Node : p # n => had'[p] = had[p] /\ mine'[p] = mine[p]
      /\ \A p \in Node : /\ had[p] \subseteq had'[p] /\ mine[p] \subseteq mine'[p]
                         /\ \A x \in had'[p] : x = o \/ x \in had[p]
                         /\ \A x \in mine'[p] : (x = o /\ p = n) \/ x \in mine[p]
      /\ o \in mine'[n]
  <2>2. \A p \in Node : /\ had'[p] = IF p = n THEN had[p] \cup {o} ELSE had[p]
                        /\ mine'[p] = IF p = n THEN mine[p] \cup {o} ELSE mine[p]
    BY DEF Born
  <2> QED BY ONLY <2>2, n \in Node
<1>3. /\ \A j \in Id : cur[j] # o /\ next[j] = IF j = i THEN o ELSE cur[j]
      /\ \A j \in Id : cur[j] # None => maker'[cur[j]] = maker[cur[j]]
  <2>1. \A j \in Id : cur[j] \in 0 .. Len(maker)
    OBVIOUS
  <2>2. /\ Len(maker) \in Nat /\ o = Len(maker) + 1
        /\ \A x \in 1 .. Len(maker) : maker'[x] = maker[x]
    BY DEF Born
  <2>3. \A j \in Id : cur[j] # o /\ (cur[j] # None => cur[j] \in 1 .. Len(maker))
    BY <2>1, <2>2 DEF None
  <2> QED BY <2>2, <2>3
<1>4. Distinct(next)
  BY <1>3 DEF Distinct
<1>5. ASSUME NEW p, NEW q, NEW j
      PROVE  Ordered(p, q, j)' <=> Ordered(p, q, j)
  BY DEF Born, Ordered
<1>6. \A c \in Client : /\ c \in Node /\ c # Server /\ i \notin local[c]
                        /\ ~Ordered(Server, c, i) /\ ~Ordered(c, Server, i)
  <2> SUFFICES ASSUME NEW c \in Client
               PROVE  /\ c \in Node /\ c # Server /\ i \notin local[c]
                      /\ ~Ordered(Server, c, i) /\ ~Ordered(c, Server, i)
    OBVIOUS
  <2>1. /\ c \in Node /\ c # Server /\ <<c, Server>> \in Link /\ <<Server, c>> \in Link
        /\ <<c, Server>>[1] = c /\ <<c, Server>>[2] = Server
        /\ <<Server, c>>[1] = Server /\ <<Server, c>>[2] = c
    BY Links
  <2> QED BY <2>1 DEF Unborn
<1>7. \A c \in connected : c \in Client
  BY DEF TypeOK
<1>8. /\ o # None /\ \A p \in Node : o \notin had[p] /\ o \notin mine[p] /\ object[p][i] = None
      /\ \A p \in Node, j \in Id : object[p][j] # o
  BY DEF Unborn
<1>9. MakerRules'
  <2> SUFFICES ASSUME NEW c \in connected, NEW j \in Id, object'[c][j] \in mine'[c]
               PROVE  /\ ~Ordered(Server, c, j)
                      /\ object'[c][j] \in had'[Server] =>
                           /\ object'[Server][j] = object'[c][j]
                           /\ object'[c][j] \notin mine'[Server] /\ j \notin zombie[Server]
    BY <1>1, <1>5 DEF MakerRules
  <2>1. CASE c = n /\ j = i
    <3>1. object'[c][j] = o /\ o \notin had'[Server]
      BY <1>1, <1>2, <1>6, <1>7, <1>8, <2>1
    <3> QED BY <1>6, <1>7, <2>1, <3>1
  <2>2. CASE ~(c = n /\ j = i)
    <3>1. object'[c][j] = object[c][j] /\ object[c][j] # o
      BY <1>1, <1>6, <1>7, <1>8, <2>2
    <3>2. object[c][j] \in mine[c]
      BY <1>2, <1>6, <1>7, <3>1
    <3>3. object[c][j] # None
      BY <1>6, <1>7, <3>2 DEF TypeOK, Object, None
    <3>4. /\ ~Ordered(Server, c, j)
          /\ object[c][j] \in had[Server] =>
               /\ object[Server][j] = object[c][j]
               /\ object[c][j] \notin mine[Server] /\ j \notin zombie[Server]
      BY <3>2 DEF MakerRules
    <3>5. ASSUME object[c][j] \in had'[Server]
          PROVE  /\ object'[Server][j] = object[c][j]
                 /\ object[c][j] \notin mine'[Server] /\ j \notin zombie[Server]
      <4>1. object[c][j] \in had[Server]
        BY <1>1, <1>2, <3>1, <3>5
      <4>2. j # i \/ Server # n
        BY <1>1, <1>8, <3>3, <3>4, <4>1
      <4> QED BY <1>1, <1>2, <3>1, <3>4, <4>1, <4>2
    <3> QED BY <3>1, <3>4, <3>5
  <2> QED BY <2>1, <2>2
<1>10. OrdersAreFor(next)'
  <2>1. ASSUME NEW c \in Client, NEW j \in Id, Ordered(c, Server, j)
        PROVE  next[j] # None /\ maker'[next[j]] = c /\ object'[c][j] \notin mine'[c]
    <3>1. cur[j] # None /\ maker[cur[j]] = c /\ object[c][j] \notin mine[c]
      BY <2>1 DEF OrdersAreFor
    <3>2. j # i /\ c \in Node
      BY <1>6, <2>1
    <3>3. next[j] = cur[j] /\ maker'[cur[j]] = maker[cur[j]]
      BY <1>3, <3>1, <3>2
    <3>4. object'[c][j] = object[c][j] /\ object[c][j] # o
      BY <1>1, <1>8, <3>2
    <3> QED BY <1>2, <3>1, <3>2, <3>3, <3>4
  <2>2. ASSUME NEW c \in connected, NEW j \in local[c]
        PROVE  /\ next[j] \in mine'[c]
               /\ IF next[j] \in had'[Server]
                  THEN object'[Server][j] = next[j] \/ Ordered(Server, c, j)
                  ELSE /\ Ordered(c, Server, j)
                       /\ \E q \in net : q.type = "create" /\ q.from = c /\ j \in q.ids
    <3>1. cur[j] \in mine[c] /\ j \in Id
      BY LocalIsOver
    <3>2. c \in Node /\ j # i
      BY <1>6, <1>7
    <3>3. next[j] = cur[j] /\ cur[j] # o /\ object'[Server][j] = object[Server][j]
      BY <1>1, <1>3, <3>1, <3>2
    <3>4. cur[j] \in had'[Server] <=> cur[j] \in had[Server]
      BY <1>1, <1>2, <3>3
    <3>5. IF cur[j] \in had[Server]
          THEN object[Server][j] = cur[j] \/ Ordered(Server, c, j)
          ELSE /\ Ordered(c, Server, j)
               /\ \E q \in net : q.type = "create" /\ q.from = c /\ j \in q.ids
      BY DEF OrdersAreFor
    <3> QED BY <1>2, <3>1, <3>2, <3>3, <3>4, <3>5
  <2>3. connected' = connected /\ local' = local /\ net' = net
    BY <1>1
  <2> QED BY ONLY <1>5, <2>1, <2>2, <2>3 DEF OrdersAreFor
<1>11. NoOrphan'
  <2> SUFFICES ASSUME NEW c \in connected, NEW j \in Id, NEW x \in Object,
                      \/ object'[c][j] = x /\ j \notin zombie[c] /\ x \notin mine'[c]
                      \/ \E q \in net : q.type = "create" /\ q.to = c /\ j \in q.ids /\ q.obj = x,
                      object'[Server][j] # x
               PROVE  Ordered(Server, c, j)
    BY <1>1, <1>5 DEF NoOrphan
  <2>1. c \in Node
    BY <1>6, <1>7
  <2>2. \/ object[c][j] = x /\ j \notin zombie[c] /\ x \notin mine[c]
        \/ \E q \in net : q.type = "create" /\ q.to = c /\ j \in q.ids /\ q.obj = x
    BY <1>1, <1>2, <2>1
  <2>3. object[Server][j] # x
    <3>1. x # None
      BY DEF Object, None
    <3> QED BY <1>1, <1>8, <3>1
  <2> QED BY <2>2, <2>3 DEF NoOrphan
<1> QED BY <1>4, <1>9, <1>10, <1>11

LEMMA BornTables ==
  ASSUME NEW cur, OrderAt(cur), NEW n \in Node, NEW i \in Id, NEW o, Unborn(n, i, o), Born(n, i, o)
  PROVE  GoneIsGone' /\ HadKnown' /\ LocalIsGone'
<1> USE DEF OrderAt, NetInv, Orderly
<1>1. GoneIsGone'
  <2> SUFFICES ASSUME NEW c \in Client, c \notin connected
               PROVE  /\ \A j \in Id : object'[c][j] = None
                      /\ mine'[c] = {} /\ had'[c] = {} /\ local[c] = {}
                      /\ \A q \in Sent : c \notin {q.from, q.to}
    BY DEF GoneIsGone, Born, Sent
  <2>1. c \in Node /\ c # n
    BY Links DEF Unborn
  <2>2. had'[c] = had[c] /\ mine'[c] = mine[c] /\ \A j \in Id : object'[c][j] = object[c][j]
    BY <2>1 DEF Born
  <2> QED BY <2>2 DEF GoneIsGone
<1>2. HadKnown'
  <2>0. Len(maker) \in Nat /\ o = Len(maker) + 1 /\ Len(maker') = o
    BY DEF Born
  <2>1. ASSUME NEW p \in Node
        PROVE  had'[p] \subseteq 1 .. Len(maker') /\ mine'[p] \subseteq had'[p]
    <3>1. had[p] \subseteq 1 .. Len(maker) /\ mine[p] \subseteq had[p]
      BY DEF HadKnown
    <3>2. /\ had'[p] = IF p = n THEN had[p] \cup {o} ELSE had[p]
          /\ mine'[p] = IF p = n THEN mine[p] \cup {o} ELSE mine[p]
      BY DEF Born
    <3>3. 1 .. Len(maker) \subseteq 1 .. Len(maker') /\ o \in 1 .. Len(maker')
      BY <2>0
    <3> QED BY ONLY <3>1, <3>2, <3>3
  <2>2. ASSUME NEW c \in Client
        PROVE  had'[c] \subseteq mine'[c] \cup had'[Server] /\ \A x \in mine'[c] : maker'[x] = c
    <3>1. c \in Node /\ c # Server /\ Server \in Node
      BY Links
    <3>2. /\ had[c] \subseteq mine[c] \cup had[Server] /\ \A x \in mine[c] : maker[x] = c
          /\ had[c] \subseteq 1 .. Len(maker) /\ mine[c] \subseteq had[c]
      BY <3>1 DEF HadKnown
    <3>3. /\ had'[c] = IF c = n THEN had[c] \cup {o} ELSE had[c]
          /\ mine'[c] = IF c = n THEN mine[c] \cup {o} ELSE mine[c]
          /\ had[Server] \subseteq had'[Server]
      BY <3>1 DEF Born
    <3>4. maker'[o] = n /\ \A x \in 1 .. Len(maker) : maker'[x] = maker[x]
      BY DEF Born
    <3> QED BY ONLY <3>2, <3>3, <3>4
  <2> QED BY <2>1, <2>2 DEF HadKnown
<1>3. LocalIsGone'
  <2> SUFFICES ASSUME NEW c \in Client, NEW j \in local[c]
               PROVE  object'[c][j] = None
    BY DEF LocalIsGone, Born
  <2>1. c \in Node /\ j \in Id /\ j # i
    <3>1. c \in Node
      BY Links
    <3>2. local[c] \in SUBSET Id
      BY <3>1 DEF TypeOK
    <3>3. i \notin local[c]
      BY DEF Unborn
    <3> QED BY <3>1, <3>2, <3>3
  <2> QED BY <2>1 DEF LocalIsGone, Born
<1> QED BY <1>1, <1>2, <1>3

(* A new object is the last of its id.                                     *)
LEMMA MakeObjectOrders ==
  ASSUME NEW cur, OrderAt(cur), NEW n \in Node, NEW i \in Id, MakeObject(n, i)
  PROVE  \E next : /\ next \in [Id -> 0 .. Len(maker')] /\ Last(next)'
                   /\ Distinct(next) /\ OrderKept(next)
<1>1. PICK o : o = Len(maker) + 1
  OBVIOUS
<1>2. PICK next : next = [cur EXCEPT ![i] = o]
  OBVIOUS
<1>3. next \in [Id -> 0 .. Len(maker')] /\ Last(next)'
  BY <1>1, <1>2, NewObjectIsLast DEF OrderAt
<1>4. Unborn(n, i, o) /\ Born(n, i, o)
  BY <1>1, NextIsUnborn, NextIsBorn
<1>5. OrderKept(next) /\ Distinct(next)
  BY <1>2, <1>4, BornUntold, BornRules, BornTables DEF OrderKept, Orderly
<1> QED BY <1>3, <1>5

LEMMA InitOrderInv ==
  ASSUME Init
  PROVE  OrderInv
<1> USE DEF Init
<1>1. NetInv
  BY InitNetInv
<1>2. Sent = {} /\ net = {} /\ connected = {} /\ Len(maker) = 0
  BY DEF Sent
<1>3. /\ \A n \in Node : had[n] = {} /\ mine[n] = {} /\ local[n] = {} /\ doomed[n] = {}
      /\ \A n \in Node, i \in Id : object[n][i] = None
  OBVIOUS
<1>4. \A c \in Client : c \in Node /\ <<c, Server>> \in Link /\ Server \in Node
  BY Links
<1>5. GoneIsGone /\ HadKnown /\ LocalIsGone
  BY <1>2, <1>3, <1>4, Links DEF GoneIsGone, HadKnown, LocalIsGone
<1>6. UntoldIsNew
  BY <1>2, <1>3, Links DEF UntoldIsNew
<1>7. CreatedOnce /\ MakerKnows /\ ToldArrives /\ MakerRules /\ NoOrphan
  BY <1>2 DEF CreatedOnce, MakerKnows, ToldArrives, MakerRules, NoOrphan
<1>8. LastOrders
  <2> DEFINE cur == [i \in Id |-> 0]
  <2>1. cur \in [Id -> 0 .. Len(maker)] /\ \A i \in Id : cur[i] = None
    BY <1>2 DEF None
  <2>2. Last(cur)
    BY <1>2, <1>3 DEF Last
  <2>3. Distinct(cur)
    BY <2>1 DEF Distinct
  <2>4. OrdersAreFor(cur)
    <3>1. \A c \in Client, i \in Id : ~Ordered(c, Server, i)
      <4>1. \A c \in Client : destroyer[<<c, Server>>] = {} /\ doomed[Server] = {}
        BY <1>4
      <4> QED BY ONLY <1>2, <4>1 DEF Ordered
    <3> QED BY ONLY <1>2, <3>1 DEF OrdersAreFor
  <2> HIDE DEF cur
  <2> QED BY <2>1, <2>2, <2>3, <2>4 DEF LastOrders
<1> QED BY <1>1, <1>5, <1>6, <1>7, <1>8 DEF OrderInv, Orderly

LEMMA OrdersKept ==
  ASSUME NEW cur, OrderAt(cur), Kept, OrderKept(cur)
  PROVE  OrderInv'
<1>1. NetInv'
  BY KeptInv DEF OrderAt
<1>2. Last(cur)' /\ cur \in [Id -> 0 .. Len(maker')]
  BY LastStays DEF OrderAt, NetInv, Typed, Kept
<1>3. Distinct(cur)
  BY DEF OrderAt
<1>4. LastOrders'
  BY <1>2, <1>3 DEF LastOrders, OrderKept
<1> QED BY <1>1, <1>4 DEF OrderInv, OrderKept

LEMMA NextOrderInv ==
  ASSUME OrderInv, [Next]_vars
  PROVE  OrderInv'
<1>0. PICK cur : OrderAt(cur)
  BY DEF OrderInv, LastOrders, OrderAt
<1>n. NetInv
  BY DEF OrderInv
<1>1. ASSUME NEW c \in Client, Logout(c) \/ Login(c) \/ Ready(c) PROVE OrderInv'
  BY <1>0, <1>1, <1>n, LogoutKeeps, LoginKeeps, ReadyKeeps,
     LogoutOrders, LoginOrders, ReadyOrders, OrdersKept
<1>2. ASSUME NEW i \in Id, Recycle(i) PROVE OrderInv'
  BY <1>0, <1>2, <1>n, RecycleKeeps, RecycleOrders, OrdersKept
<1>3. ASSUME NEW c \in Client, NEW i \in Id, Reserve(c, i) PROVE OrderInv'
  BY <1>0, <1>3, <1>n, ReserveKeeps, ReserveOrders, OrdersKept
<1>4. ASSUME NEW n \in Node, NEW i \in Id, Change(n, i) \/ DestroyObject(n, i)
      PROVE  OrderInv'
  BY <1>0, <1>4, <1>n, ChangeKeeps, DestroyObjectKeeps, ChangeOrders, DestroyObjectOrders,
     OrdersKept
<1>5. ASSUME NEW n \in Node, NEW i \in Id, MakeObject(n, i) PROVE OrderInv'
  <2>1. NetInv'
    BY <1>5, <1>n, MakeObjectKeeps
  <2>2. PICK next : /\ next \in [Id -> 0 .. Len(maker')] /\ Last(next)'
                    /\ Distinct(next) /\ OrderKept(next)
    BY <1>0, <1>5, MakeObjectOrders
  <2>3. LastOrders'
    BY <2>2 DEF LastOrders, OrderKept
  <2> QED BY <2>1, <2>2, <2>3 DEF OrderInv, OrderKept
<1>6. ASSUME NEW n \in Node, ClearAllDeleted(n) PROVE OrderInv'
  BY <1>0, <1>6, <1>n, ClearAllDeletedKeeps, ClearAllDeletedOrders, OrdersKept
<1>7. ASSUME NEW l \in Link, SendDestroyer(l[1], l[2]) PROVE OrderInv'
  <2>1. <<l[1], l[2]>> \in Link
    BY Links
  <2> QED BY <1>0, <1>7, <1>n, <2>1, SendDestroyerKeeps, SendDestroyerOrders, OrdersKept
<1>8. ASSUME NEW l \in Link, NEW i \in Id, SendCreation(l[1], l[2], i) \/ SendSync(l[1], l[2], i)
      PROVE  OrderInv'
  <2>1. <<l[1], l[2]>> \in Link
    BY Links
  <2> QED BY <1>0, <1>8, <1>n, <2>1, SendCreationKeeps, SendSyncKeeps,
             SendCreationOrders, SendSyncOrders, OrdersKept
<1>9. ASSUME NEW m \in net, Lose(m) \/ ReceiveDestroy(m) PROVE OrderInv'
  BY <1>0, <1>9, <1>n, LoseKeeps, ReceiveDestroyKeeps, LoseOrders, ReceiveDestroyOrders,
     OrdersKept
<1>10. ASSUME NEW m \in net, ReceiveCreate(m) \/ ReceiveSync(m) PROVE OrderInv'
  <2>1. Kept
    BY <1>10, <1>n, ReceiveCreateKeeps, ReceiveSyncKeeps
  <2>2. CASE m.to = Server /\ Cheater(m.from, {})
    <3>1. m.from \in Client
      <4>1. <<m.from, Server>> \in Link
        BY <1>n, <2>2 DEF NetInv, WiresOK, WireOK, Sent
      <4> QED BY <4>1, Links DEF Node
    <3>2. PICK none : none = {}
      OBVIOUS
    <3>3. Cheater(m.from, none) /\ \A d \in none : d.from = m.from
      BY <2>2, <3>2
    <3> QED BY <1>0, <2>1, <3>1, <3>3, CheaterOrders, OrdersKept
  <2>3. CASE ~(m.to = Server /\ Cheater(m.from, {}))
    BY <1>0, <1>10, <2>1, <2>3, ReceiveCreateOrders, ReceiveSyncOrders, OrdersKept
  <2> QED BY <2>2, <2>3
<1>11. ASSUME NEW m \in acks, ReceiveAck(m) PROVE OrderInv'
  BY <1>0, <1>11, <1>n, ReceiveAckKeeps, ReceiveAckOrders, OrdersKept
<1>12. ASSUME NEW n \in Node, NEW d \in doomed[n], ExpireDestroy(n, d) PROVE OrderInv'
  BY <1>0, <1>12, <1>n, ExpireDestroyKeeps, ExpireDestroyOrders, OrdersKept
<1>13. ASSUME NEW n \in Node, NEW d \in doomed[n], DoDestroy(n, d) PROVE OrderInv'
  <2>1. Kept
    BY <1>13, <1>n, DoDestroyKeeps
  <2>2. CASE d.from \in connected /\ Cheater(d.from, {d})
    <3>1. d.from \in Client
      BY <1>n, <2>2 DEF NetInv, TypeOK
    <3>2. PICK ordered : ordered = {d}
      OBVIOUS
    <3>3. Cheater(d.from, ordered) /\ \A e \in ordered : e.from = d.from
      BY <2>2, <3>2
    <3> QED BY <1>0, <2>1, <3>1, <3>3, CheaterOrders, OrdersKept
  <2>3. CASE ~(d.from \in connected /\ Cheater(d.from, {d}))
    BY <1>0, <1>13, <2>1, <2>3, DoDestroyOrders, OrdersKept
  <2> QED BY <2>2, <2>3
<1>14. ASSUME UNCHANGED vars PROVE OrderInv'
  <2>1. UNCHANGED <<object, knows, zombie, mine, destroyer, doomed, local, net, acks,
                    connected, maker, had>>
    BY <1>14 DEF vars, tables, orders, wires, others, story
  <2>2. NetInv'
    BY <1>14, <1>n, NextNetInv
  <2>3. OrderKept(cur)
    BY <1>0, <2>1, StillKeeps
  <2>4. Last(cur)' /\ cur \in [Id -> 0 .. Len(maker')] /\ Distinct(cur)
    BY <1>0, <2>1 DEF OrderAt, Last, Sent
  <2>5. LastOrders'
    BY <2>3, <2>4 DEF LastOrders, OrderKept
  <2> QED BY <2>2, <2>3, <2>5 DEF OrderInv, OrderKept
<1> QED BY <1>1, <1>2, <1>3, <1>4, <1>5, <1>6, <1>7, <1>8, <1>9, <1>10, <1>11, <1>12, <1>13, <1>14
        DEF Next, Execute, Receive

-----------------------------------------------------------------------------
(* The theorems about the orders.                                          *)

(* The inductive invariant of the destroy orders: what everybody has been  *)
(* told, what is on its way, and which object an order is about.           *)
THEOREM OrderInvHolds == Spec => []OrderInv
<1>1. Init => OrderInv
  BY InitOrderInv
<1>2. OrderInv /\ [Next]_vars => OrderInv'
  BY NextOrderInv
<1> QED BY <1>1, <1>2, PTL DEF Spec

(* The copy of an object that the server has deleted (~nNetObject) is not  *)
(* forgotten: a destroy order is on its way to every client that shows it, *)
(* or gets it.                                                             *)
THEOREM OrphansOrdered == Spec => []NoOrphan
<1>1. OrderInv => NoOrphan
  BY DEF OrderInv
<1> QED BY <1>1, OrderInvHolds, PTL

LEMMA LocalIsAnswered ==
  ASSUME OrderInv
  PROVE  LocalAnswered
<1>1. PICK cur : OrderAt(cur)
  BY DEF OrderInv, LastOrders, OrderAt
<1> SUFFICES ASSUME NEW c \in connected, NEW i \in local[c]
             PROVE  /\ object[c][i] = None
                    /\ \/ Ordered(c, Server, i)
                       \/ object[Server][i] # None /\ knows[<<Server, c>>][i].exists
                       \/ Ordered(Server, c, i)
  BY DEF LocalAnswered
<1>2. object[c][i] = None /\ cur[i] \in mine[c] /\ c \in Client /\ i \in Id
  BY <1>1, LocalIsOver
<1>3. CASE object[Server][i] = cur[i]
  <2>1. knows[<<Server, c>>][i].exists
    BY <1>1, <1>2, <1>3 DEF OrderAt, Orderly, MakerKnows
  <2>2. cur[i] \in Object /\ None \notin Object
    <3>1. mine[c] \in SUBSET Object
      BY <1>1, <1>2, Links DEF OrderAt, NetInv, TypeOK
    <3> QED BY <1>2, <3>1 DEF Object, None
  <2> QED BY <1>2, <1>3, <2>1, <2>2
<1>4. CASE object[Server][i] # cur[i]
  BY <1>1, <1>2, <1>4 DEF OrderAt, OrdersAreFor
<1> QED BY <1>3, <1>4

(* The server answers for every object that a client has destroyed before  *)
(* the client has another one with its id: no order for a later object is  *)
(* taken for that of an earlier one (sn_WasDeletedLocally).                *)
THEOREM LocalsAnswered == Spec => []LocalAnswered
<1>1. OrderInv => LocalAnswered
  BY LocalIsAnswered
<1> QED BY <1>1, OrderInvHolds, PTL

=============================================================================
