----------------------------- MODULE ObjectIds ------------------------------
(***************************************************************************)
(* The ids of replicated objects (src/src/network/nNetObject.cpp): the     *)
(* server finds free ids and reserves them for clients, which ask for some *)
(* at login and for more when they have few left, keep them in a ring, and *)
(* wait for an answer when the ring is empty.  An id that an object had is *)
(* freed into a queue and comes back when enough others are behind it.     *)
(*                                                                         *)
(* All messages are acknowledged ones: they arrive once and in any order,  *)
(* as ReliableChannel says.  What the messages about an object do besides  *)
(* is in module NetObjects.                                                *)
(***************************************************************************)
EXTENDS Integers, Sequences, FiniteSets

CONSTANTS
  Server, Client,
  NoNode,               \* owner of a freed id, 0xFFFF in the code
  Prefetch,             \* ID_PREFETCH, 50 in the code
  FirstFill,            \* ids asked for at login, ID_PREFETCH - 10
  MinLimit, MaxLimit,   \* net_max_current_id_min and _max, 16000 and 32000
  Increase,             \* growth of the limit, 1000
  Keep, Share,          \* freed ids kept: 1000, and a 20th of the limit
  Budgets               \* bounds of a behaviour: what may still happen

Id == 1 .. MaxLimit
Owner == Client \cup {Server, NoNode}
Half == Prefetch \div 2
Quarter == Prefetch \div 4
Amount == {FirstFill, Quarter}      \* what is asked for at once

ASSUME NodeAssumption == Server \notin Client /\ NoNode \notin Client \cup {Server}
(* With one id in an answer NoDeadWait fails: a wait would empty the ring. *)
ASSUME SizeAssumption ==
  /\ Prefetch \in Nat /\ FirstFill \in 2 .. Prefetch - 1 /\ Quarter > 1
  /\ MinLimit \in 2 .. MaxLimit /\ MaxLimit \in Nat
  /\ Increase \in Nat \ {0} /\ Keep \in Nat /\ Share \in Nat \ {0}

Budget == [made : [Client -> Nat], logins : [Client -> Nat], served : Nat, ended : Nat]
ASSUME BudgetAssumption == Budgets \subseteq Budget

VARIABLES
  pool,       \* the server's ids: owner, current, limit, freed, and runOut
  occupied,   \* sn_netObjects of the server: ids of its objects
  ring,       \* net_reserved_id: ring[c], the ids a client may use
  waiting,    \* clients that wait in next_free
  used,       \* used[c]: ids of the objects that client c made
  asked,      \* asked[c][n]: requests for n ids, not handled yet
  replies,    \* answers, not handled yet
  creations,  \* <<client, id>>: objects the server has not received yet
  destroys,   \* <<client, id>>: orders to destroy, not handled yet
  lost,       \* history: lost[c], ids reserved for c that it never will use
  behind,     \* history: ids freed since i was, at most Keep
  connected, stopped,
  budget      \* objects each client and the server make, objects that end, logins

clients == <<ring, waiting, used, lost>>
wires   == <<asked, replies, creations, destroys>>
vars    == <<pool, occupied, clients, wires, behind, connected, stopped, budget>>

Init ==
  /\ pool = [owner |-> [i \in Id |-> Server], current |-> 1, limit |-> MinLimit,
             freed |-> <<>>, runOut |-> FALSE]
  /\ occupied = {}
  /\ ring = [c \in Client |-> <<>>] /\ waiting = {}
  /\ used = [c \in Client |-> {}]
  /\ asked = [c \in Client |-> [n \in Amount |-> 0]]
  /\ replies = {} /\ creations = {} /\ destroys = {}
  /\ lost = [c \in Client |-> {}] /\ behind = [i \in Id |-> Keep]
  /\ connected = {} /\ stopped = FALSE
  /\ budget \in Budgets

-----------------------------------------------------------------------------
(* The search for a free id.                                               *)

Larger(a, b) == IF a > b THEN a ELSE b
Smaller(a, b) == IF a < b THEN a ELSE b

FreeTable(owner, i) == i \notin occupied /\ owner[i] # NoNode
FreeServer(owner, i) == owner[i] = Server /\ i \notin occupied

(* How many freed ids stay in the queue.                                   *)
KeptShare(limit) == limit \div Share
Kept(limit) == Larger(Keep, limit \div Share)

(* next_free_server_nokill: the limit shrinks, freed ids are recycled, and *)
(* the ids after the current one are tried in turn.  The id is 0 if the    *)
(* search comes back to where it began: that id itself is not tried.       *)
NextFreeNoKill(p) ==
  LET limit == Larger(MinLimit, p.limit - 1)
      current == IF p.current > limit THEN 1 ELSE p.current
      out == Larger(0, Len(p.freed) - Kept(limit))
      owner == [i \in Id |-> IF \E k \in 1 .. out : p.freed[k] = i THEN Server ELSE p.owner[i]]
      Ahead(i) == (i - current) % limit
      free == {i \in 1 .. limit : i # current /\ FreeServer(owner, i)}
      id == IF free = {} THEN 0 ELSE CHOOSE i \in free : \A j \in free : Ahead(i) <= Ahead(j)
  IN
  [pool |-> [p EXCEPT !.owner = owner, !.limit = limit,
                      !.current = IF id = 0 THEN current ELSE id,
                      !.freed = SubSeq(@, out + 1, Len(@))],
   id   |-> id]

Extended(limit) == IF limit + 2 * Increase < MaxLimit THEN limit + Increase ELSE MaxLimit

(* next_free_server.  The user with most ids is to go when they run out.   *)
NextFreeServer(p) ==
  LET first == NextFreeNoKill(p) IN
  IF first.id # 0 THEN first
  ELSE NextFreeNoKill([first.pool EXCEPT !.limit = Extended(@), !.runOut = TRUE])

(* The loop of id_req_handler, which an exception may leave.               *)
Assigned(c, num) ==
  LET after[k \in 0 .. num] ==
        IF k = 0 THEN [pool |-> pool, ids |-> <<>>, failed |-> FALSE]
        ELSE LET before == after[k - 1]
                 next == NextFreeServer(before.pool)
             IN IF before.failed THEN before
                ELSE IF next.id = 0
                     THEN [before EXCEPT !.pool = next.pool, !.failed = TRUE]
                     ELSE [pool |-> [next.pool EXCEPT !.owner[next.id] = c],
                           ids |-> Append(before.ids, next.id), failed |-> FALSE]
  IN after[num]

(* ~nNetObject at the server, of the objects with ids in gone: in any      *)
(* order, as the loops over the table and the game have it.                *)
Freed(p, order) ==
  [p EXCEPT !.owner = [i \in Id |-> IF \E k \in DOMAIN order : order[k] = i THEN NoNode ELSE @[i]],
            !.freed = @ \o order]

Behind(order) ==
  [i \in Id |-> LET at == {k \in DOMAIN order : order[k] = i} IN
                IF at = {} THEN Smaller(behind[i] + Len(order), Keep)
                ELSE Smaller(Len(order) - (CHOOSE k \in at : TRUE), Keep)]

Descending(ids) ==
  CHOOSE s \in [1 .. Cardinality(ids) -> ids] : \A j, k \in DOMAIN s : j < k => s[j] > s[k]
-----------------------------------------------------------------------------
(* A client leaves, or the server disconnects it: ClearKnows passes its    *)
(* objects to the server, which destroys those that nothing else refers    *)
(* to, and frees the ids it has reserved for the client.                   *)
ClearNone(owner, c) == owner
ClearOwner(owner, c) == [i \in Id |-> IF owner[i] = c THEN Server ELSE owner[i]]

Without(pairs, c) == {m \in pairs : m[1] # c}

Leave(p, c) ==
  \E gone \in SUBSET {i \in occupied : p.owner[i] = c} :
    LET order == Descending(gone)
        left == Freed(p, order)
    IN
    /\ pool' = [left EXCEPT !.owner = ClearOwner(@, c)]
    /\ behind' = Behind(order)
    /\ occupied' = occupied \ gone
    /\ connected' = connected \ {c} /\ waiting' = waiting \ {c}
    /\ ring' = [ring EXCEPT ![c] = <<>>]
    /\ used' = [used EXCEPT ![c] = {}]
    /\ lost' = [lost EXCEPT ![c] = {}]
    /\ asked' = [asked EXCEPT ![c] = [n \in Amount |-> 0]]
    /\ replies' = {r \in replies : r.to # c}
    /\ creations' = Without(creations, c) /\ destroys' = Without(destroys, c)
    /\ UNCHANGED <<stopped, budget>>

Logout(c) == c \in connected /\ Leave(pool, c)

(* kill_id_hog, as a task of the main loop: of the clients with more ids   *)
(* without an object than two full rings it takes one with most of them,   *)
(* or else one with most objects.                                          *)
Grabbed(c) == Cardinality({i \in Id \ occupied : pool.owner[i] = c})
InUse(c) == Cardinality({i \in occupied : pool.owner[i] = c})

IdHogs ==
  LET grabbers == {c \in connected : Grabbed(c) > 2 * Prefetch + 1}
      users == {c \in connected : InUse(c) > 0}
  IN IF grabbers # {}
     THEN {c \in grabbers : \A d \in grabbers : Grabbed(d) <= Grabbed(c)}
     ELSE {c \in users : \A d \in users : InUse(d) <= InUse(c)}

KillIdHog ==
  LET done == [pool EXCEPT !.runOut = FALSE] IN
  /\ pool.runOut
  /\ \/ \E c \in IdHogs : Leave(done, c)
     \/ /\ IdHogs = {}
        /\ pool' = done
        /\ UNCHANGED <<occupied, clients, wires, behind, connected, stopped, budget>>

(* login_accept_handler with first_fill_ids.                               *)
Login(c) ==
  /\ c \notin connected /\ budget.logins[c] > 0
  /\ connected' = connected \cup {c}
  /\ budget' = [budget EXCEPT !.logins[c] = @ - 1]
  /\ asked' = [asked EXCEPT ![c][FirstFill] = @ + 1]
  /\ UNCHANGED <<pool, occupied, clients, replies, creations, destroys, behind, stopped>>

-----------------------------------------------------------------------------
(* Ids are reserved.                                                       *)

(* id_req_handler: without a free id it throws nKillHim.                   *)
ReceiveRequest(c, n) ==
  LET done == Assigned(c, n)
      reply == [to |-> c, ids |-> done.ids]
  IN
  /\ c \in connected /\ asked[c][n] > 0
  /\ IF done.failed
     THEN Leave(done.pool, c)
     ELSE /\ pool' = done.pool
          /\ asked' = [asked EXCEPT ![c][n] = @ - 1]
          /\ replies' = replies \cup {reply}
          /\ UNCHANGED <<occupied, clients, creations, destroys, behind, connected, stopped,
                         budget>>

(* req_id_handler: what does not fit into the ring is dropped.  The place  *)
(* of a new id in the client's table is free, or the id would be dropped   *)
(* too: IdsAreOwned.  (The code reads each block of consecutive ids from   *)
(* its end: to what follows the order means nothing.)                      *)
RoomFull(c) == Prefetch - Len(ring[c])
Room(c) == Prefetch - 1 - Len(ring[c])

ReceiveReply(r) ==
  LET c == r.to
      fit == Smaller(Room(c), Len(r.ids))
  IN
  /\ r \in replies
  /\ ring' = [ring EXCEPT ![c] = @ \o SubSeq(r.ids, 1, fit)]
  /\ lost' = [lost EXCEPT ![c] = @ \cup {r.ids[k] : k \in fit + 1 .. Len(r.ids)}]
  /\ replies' = replies \ {r}
  /\ UNCHANGED <<pool, occupied, waiting, used, asked, creations, destroys, behind, connected, stopped, budget>>

(* need_soon of next_free, for which an empty ring is a full one.          *)
NeedSoon(c) == IF ring[c] = <<>> THEN Prefetch ELSE Len(ring[c])
AskWhenNone(c) == NeedSoon(c) = 0
AskMore(c) == NeedSoon(c) < Half

Take(c) ==
  /\ ring' = [ring EXCEPT ![c] = Tail(@)]
  /\ used' = [used EXCEPT ![c] = @ \cup {Head(ring[c])}]
  /\ creations' = creations \cup {<<c, Head(ring[c])>>}

(* next_free of a client, for an object it makes.                          *)
NextFree(c) ==
  /\ c \in connected \ waiting /\ budget.made[c] > 0
  /\ budget' = [budget EXCEPT !.made[c] = @ - 1]
  /\ asked' = IF AskMore(c) THEN [asked EXCEPT ![c][Quarter] = @ + 1] ELSE asked
  /\ IF ring[c] = <<>>
     THEN waiting' = waiting \cup {c} /\ UNCHANGED <<ring, used, creations>>
     ELSE UNCHANGED waiting /\ Take(c)
  /\ UNCHANGED <<pool, occupied, lost, replies, destroys, behind, connected, stopped>>

(* The loop in next_free ends.  Its time of a minute ends the program, as  *)
(* a Logout does.                                                          *)
EndWait(c) ==
  /\ c \in waiting /\ ring[c] # <<>>
  /\ Take(c)
  /\ waiting' = waiting \ {c}
  /\ UNCHANGED <<pool, occupied, lost, asked, replies, destroys, behind, connected, stopped, budget>>

-----------------------------------------------------------------------------
(* Objects come and go.                                                    *)

(* nNOInitialisator::Init: the sender has to own the id.                   *)
ReceiveCreation(c, i) ==
  /\ <<c, i>> \in creations
  /\ IF pool.owner[i] # c
     THEN Leave(pool, c)
     ELSE /\ occupied' = occupied \cup {i}
          /\ creations' = creations \ {<<c, i>>}
          /\ UNCHANGED <<pool, clients, asked, replies, destroys, behind, connected, stopped, budget>>

(* A client destroys an object.  If SyncAll has not sent the creation yet  *)
(* there is no message to send.                                            *)
DestroyObject(c, i) ==
  /\ i \in used[c] /\ c \notin waiting
  /\ budget.ended > 0 /\ budget' = [budget EXCEPT !.ended = @ - 1]
  /\ used' = [used EXCEPT ![c] = @ \ {i}]
  /\ \/ /\ destroys' = destroys \cup {<<c, i>>}
        /\ UNCHANGED <<lost, creations>>
     \/ /\ <<c, i>> \in creations
        /\ creations' = creations \ {<<c, i>>}
        /\ lost' = [lost EXCEPT ![c] = @ \cup {i}]
        /\ UNCHANGED destroys
  /\ UNCHANGED <<pool, occupied, ring, waiting, asked, replies, behind, connected, stopped>>

(* sn_DoDestroy, once the object is there: the server takes it over, and   *)
(* destroys it unless something refers to it.                              *)
DoDestroy(c, i) ==
  /\ <<c, i>> \in destroys /\ i \in occupied
  /\ destroys' = destroys \ {<<c, i>>}
  /\ \/ /\ pool' = Freed(pool, <<i>>) /\ behind' = Behind(<<i>>)
        /\ occupied' = occupied \ {i}
     \/ /\ pool' = [pool EXCEPT !.owner[i] = Server]
        /\ UNCHANGED <<behind, occupied>>
  /\ UNCHANGED <<clients, asked, replies, creations, connected, stopped, budget>>

(* An object of the server: without an id the server stops.                *)
ServerObject ==
  LET next == NextFreeServer(pool) IN
  /\ budget.served > 0 /\ budget' = [budget EXCEPT !.served = @ - 1]
  /\ pool' = next.pool
  /\ IF next.id = 0
     THEN stopped' = TRUE /\ UNCHANGED occupied
     ELSE occupied' = occupied \cup {next.id} /\ UNCHANGED stopped
  /\ UNCHANGED <<clients, wires, behind, connected>>

EndServerObject(i) ==
  /\ i \in occupied /\ pool.owner[i] = Server
  /\ budget.ended > 0 /\ budget' = [budget EXCEPT !.ended = @ - 1]
  /\ pool' = Freed(pool, <<i>>) /\ behind' = Behind(<<i>>)
  /\ occupied' = occupied \ {i}
  /\ UNCHANGED <<clients, wires, connected, stopped>>

-----------------------------------------------------------------------------
Next ==
  /\ ~stopped
  /\ \/ \E c \in Client :
          \/ Login(c) \/ Logout(c) \/ NextFree(c) \/ EndWait(c)
          \/ \E n \in Amount : ReceiveRequest(c, n)
          \/ \E i \in Id : ReceiveCreation(c, i) \/ DestroyObject(c, i) \/ DoDestroy(c, i)
     \/ \E r \in replies : ReceiveReply(r)
     \/ ServerObject
     \/ \E i \in Id : EndServerObject(i)
     \/ KillIdHog

Spec == Init /\ [][Next]_vars

-----------------------------------------------------------------------------
(* Properties.                                                             *)

TypeOK ==
  /\ pool \in [owner : [Id -> Owner], current : 1 .. MaxLimit, limit : MinLimit .. MaxLimit,
                freed : Seq(Id), runOut : BOOLEAN]
  /\ pool.current <= pool.limit
  /\ occupied \subseteq Id
  /\ ring \in [Client -> Seq(Id)] /\ waiting \subseteq connected
  /\ used \in [Client -> SUBSET Id] /\ lost \in [Client -> SUBSET Id]
  /\ \A c \in Client : Len(ring[c]) < Prefetch
  /\ asked \in [Client -> [Amount -> Nat]]
  /\ \A r \in replies : r.to \in connected /\ r.ids \in Seq(Id)
  /\ creations \cup destroys \subseteq connected \X Id
  /\ behind \in [Id -> 0 .. Keep]
  /\ connected \subseteq Client /\ stopped \in BOOLEAN
  /\ budget \in Budget

Ids(s) == {s[k] : k \in DOMAIN s}
Ring(c) == Ids(ring[c])
Underway(c) == {i \in Id : \E r \in replies : r.to = c /\ i \in Ids(r.ids)}

(* An id that a client has in its ring, for its objects or in an answer    *)
(* underway is the client's at the server too, over logouts, runs out of   *)
(* ids and a shrinking limit, or its next object makes a cheater of it;    *)
(* and it has it for one purpose.                                          *)
IdsAreOwned ==
  \A c \in Client :
    /\ \A i \in Ring(c) \cup used[c] \cup Underway(c) : pool.owner[i] = c
    /\ (Ring(c) \cup Underway(c)) \cap occupied = {}
    /\ \A i \in occupied : <<c, i>> \notin creations
    /\ Ring(c) \cap used[c] = {} /\ Underway(c) \cap (Ring(c) \cup used[c]) = {}

(* The server reserves nothing for clients that have left, and what it     *)
(* reserves is in the ring, in an answer, of an object or one of those the *)
(* client has dropped.                                                     *)
Accounted ==
  \A i \in Id : \A c \in Client :
    pool.owner[i] = c =>
      /\ c \in connected
      /\ i \in Ring(c) \cup used[c] \cup Underway(c) \cup lost[c] \/ <<c, i>> \in destroys

(* A client that waits for an id is going to get one: need_soon takes an   *)
(* empty ring for a full one, so nothing is asked for in the wait.         *)
NoDeadWait ==
  \A c \in waiting :
    Ring(c) # {} \/ Underway(c) # {} \/ \E n \in Amount : asked[c][n] > 0

(* An id that an object had is reserved or used again when at least Keep   *)
(* (a thousand) others were freed after it: messages about the old object  *)
(* have been handled by then.                                              *)
Given(i) ==
  \/ pool.owner[i] \notin Client /\ pool'.owner[i] \in Client
  \/ i \in occupied' \ occupied /\ pool.owner[i] \notin Client

NotReusedSoon == [][\A i \in Id : Given(i) => behind[i] >= Keep]_vars

=============================================================================
