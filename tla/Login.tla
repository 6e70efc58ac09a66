-------------------------------- MODULE Login --------------------------------
(***************************************************************************)
(* Logging in and out, src/src/network/nNetwork.cpp.  A client opens a     *)
(* socket, asks for a slot until it is accepted, denied or tired of        *)
(* waiting, and says goodbye; nothing of that is acknowledged but the      *)
(* login_accept.  The server tells its peers by their address and by the   *)
(* slot they claim to have.                                                *)
(*                                                                         *)
(* Datagrams are lost, overtake each other and arrive more than once, for  *)
(* the code sends each of these messages several times: what has been sent *)
(* may arrive at any time, any number of times, or never.  A socket may    *)
(* get the port of one that was closed.  A session is the number of its    *)
(* login_accept, which stands for the id of that message.                  *)
(***************************************************************************)
EXTENDS Integers, Sequences, FiniteSets

CONSTANTS
  Client, Port,
  MaxSlots,     \* MAXCLIENTS
  Soft, Hard,   \* sn_allowSameIPCountSoft, sn_allowSameIPCountHard
  Worlds,       \* who shares an address (ip), sn_maxClients, the ports of
                \* each client; bound: its attempts to log in
  MaxSession    \* bound: logins the server accepts

Slot == 1 .. MaxSlots
Session == 1 .. MaxSession
Address == Client \X Port

ASSUME SizeAssumption ==
  /\ MaxSlots \in Nat /\ MaxSession \in Nat
  /\ Soft \in Nat \ {0} /\ Hard \in Nat
ASSUME PortAssumption == Port # {}
ASSUME WorldsAssumption == \A w \in Worlds :
  /\ w.maxClients \in 1 .. MaxSlots
  /\ w.ports \in [Client -> SUBSET Port] /\ w.attempts \in [Client -> Nat]

VARIABLES
  world,        \* one of Worlds, never changed
  grants,       \* the login_accepts of all sessions: to whom, for which slot
  slot,         \* slot[j]: the session in sn_Connections[j], or None
  sameIP,       \* the cache of CountSameIP
  pending,      \* sessions whose login_accept is in sn_pendingAcks
  state,        \* of each client: "out", "trying" or "in"
  port,         \* the port of its socket
  salt,         \* loginSalt: a different one in each attempt
  myNetID,      \* sn_myNetID of the client
  net,          \* datagrams that have been sent
  entered,      \* history: sessions a client took up
  left          \* history: addresses that said goodbye

serverVars == <<world, grants, slot, sameIP, pending>>
clientVars == <<state, port, salt, myNetID, entered, left>>
vars == <<serverVars, clientVars, net>>

None == 0

Init ==
  /\ world \in Worlds
  /\ grants = <<>>
  /\ slot = [j \in Slot |-> None]
  /\ sameIP = [j \in Slot |-> 0]
  /\ pending = {}
  /\ state = [c \in Client |-> "out"]
  /\ port = [c \in Client |-> CHOOSE p \in Port : TRUE]
  /\ salt = [c \in Client |-> 0]
  /\ myNetID = [c \in Client |-> 0]
  /\ net = {}
  /\ entered = {} /\ left = {}

-----------------------------------------------------------------------------
(* Helpers.                                                                *)

Socket(c) == <<c, port[c]>>
IP(a) == world.ip[a[1]]

Users == {j \in Slot : slot[j] # None}
PeerOf(j) == grants[slot[j]].to
HasSlot(a, j) == slot[j] # None /\ PeerOf(j) = a

Message ==
  [type : {"login"}, from : Address, salt : Nat]
    \cup [type : {"login_accept"}, session : Session]
    \cup [type : {"ack"}, from : Address, claim : 0 .. MaxSlots, session : Session]
    \cup [type : {"logout"}, from : Address, claim : 0 .. MaxSlots]
    \cup [type : {"login_deny"}, to : Address, why : {"kick", "logout"}]

LoginMessage(a, s) == [type |-> "login", from |-> a, salt |-> s]
Accept(s) == [type |-> "login_accept", session |-> s]
Ack(a, j, s) == [type |-> "ack", from |-> a, claim |-> j, session |-> s]
LogoutMessage(a, j) == [type |-> "logout", from |-> a, claim |-> j]
Deny(a, why) == [type |-> "login_deny", to |-> a, why |-> why]

(* rec_peer: the slot a packet claims counts only if it comes from the     *)
(* address in that slot.  Otherwise it is ignored or goes to the login     *)
(* slot, which reacts only to logins and questions about the server.       *)
ClaimTrusted(m, j) == j = m.claim /\ j \in Users
Claimed(m, j) == j = m.claim /\ j \in Slot /\ HasSlot(m.from, j)

CountSameConnection(a) == Cardinality({j \in Slot : HasSlot(a, j)})

(* CountSameIP with reset: the users but j with the address of a.          *)
Neighbours(a, j) == {k \in Users \ {j} : IP(PeerOf(k)) = IP(a)}
CountLessSelf(a, j) == Cardinality(Neighbours(a, j)) - 1
CountSameIP(a, j) == Cardinality(Neighbours(a, j))
UpToHardLimit(a) == CountSameIP(a, None) <= Hard
UnderHardLimit(a) == CountSameIP(a, None) < Hard

(* GetFreeSlot on a dedicated server: the first empty slot, or on a full   *)
(* server that of the user with the most neighbours, by the cache; or none.*)
First(S) == {j \in S : \A k \in S : j <= k}
Empty == {j \in 1 .. world.maxClients : slot[j] = None}
Dublicates == {j \in Slot : sameIP[j] >= Soft}
MostDublicate == {j \in Dublicates : \A k \in Dublicates : sameIP[k] <= sameIP[j]}

GetFreeSlot ==
  IF Cardinality(Users) < world.maxClients THEN First(Empty) ELSE First(MostDublicate)

(* sn_DisconnectUser(j): the peer is told, what it should acknowledge is   *)
(* forgotten; sameIP keeps its value.                                      *)
Goodbye(j, why) == {Deny(PeerOf(j), why)}

Disconnect(j, why) ==
  /\ slot' = [slot EXCEPT ![j] = None]
  /\ pending' = pending \ {slot[j]}
  /\ net' = net \cup Goodbye(j, why)
  /\ UNCHANGED <<world, grants, sameIP, clientVars>>

-----------------------------------------------------------------------------
(* The server.                                                             *)

(* login_handler gives slot j away, whoever has it.                        *)
Grant(m, j) ==
  LET s == Len(grants) + 1 IN
  /\ s \in Session
  /\ grants' = Append(grants, [to |-> m.from, salt |-> m.salt, id |-> j])
  /\ slot' = [slot EXCEPT ![j] = s]
  /\ sameIP' = [sameIP EXCEPT ![j] = CountSameIP(m.from, j)]
  /\ pending' = (pending \ {slot[j]}) \cup {s}
  /\ net' = net \cup {Accept(s)} \cup (IF slot[j] = None THEN {} ELSE Goodbye(j, "kick"))
  /\ UNCHANGED <<world, clientVars>>

(* A copy of a login that has been accepted changes nothing.               *)
NeverKnown(a) == FALSE
KnownConnection(a) == CountSameConnection(a) > 0

ReceiveLogin(m) ==
  /\ m \in net /\ m.type = "login"
  /\ ~KnownConnection(m.from)
  /\ UnderHardLimit(m.from)
  /\ \E j \in GetFreeSlot : Grant(m, j)

(* Who is banned, even if this is a copy, who has a wrong version, and for *)
(* whom there is no room is denied.  Bans and versions are not modelled:   *)
(* any login may be refused.                                               *)
Refuse(m) ==
  /\ m \in net /\ m.type = "login"
  /\ net' = net \cup {Deny(m.from, "kick")}
  /\ UNCHANGED <<serverVars, clientVars>>

(* logout_handler.                                                         *)
ReceiveLogout(m) ==
  /\ m \in net /\ m.type = "logout"
  /\ \E j \in Slot : Claimed(m, j) /\ Disconnect(j, "logout")

(* nWaitForAck::Ackt for the login_accept.                                 *)
ReceiveAck(m) ==
  /\ m \in net /\ m.type = "ack"
  /\ \E j \in Slot : Claimed(m, j) /\ slot[j] = m.session
  /\ pending' = pending \ {m.session}
  /\ UNCHANGED <<world, grants, slot, sameIP, clientVars, net>>

(* nWaitForAck::Resend gives up after killTimeout; what else the user      *)
(* should acknowledge comes after the login_accept.                        *)
KillAcknowledged(j) ==
  /\ slot[j] \notin pending \cup {None}
  /\ Disconnect(j, "kick")

KillTimeout(j) ==
  /\ slot[j] # None
  /\ Disconnect(j, "kick")

-----------------------------------------------------------------------------
(* The client.                                                             *)

(* sn_Connect: a new socket, a new salt.                                   *)
Connect(c) ==
  /\ state[c] = "out" /\ salt[c] < world.attempts[c]
  /\ \E p \in world.ports[c] :
       /\ port' = [port EXCEPT ![c] = p]
       /\ net' = net \cup {LoginMessage(<<c, p>>, salt[c] + 1)}
  /\ state' = [state EXCEPT ![c] = "trying"]
  /\ salt' = [salt EXCEPT ![c] = @ + 1]
  /\ myNetID' = [myNetID EXCEPT ![c] = 0]
  /\ UNCHANGED <<serverVars, entered, left>>

(* No answer within five seconds.                                          *)
GiveUp(c) ==
  /\ state[c] = "trying"
  /\ state' = [state EXCEPT ![c] = "out"]
  /\ UNCHANGED <<serverVars, port, salt, myNetID, entered, left, net>>

(* sn_SetNetState(nSTANDALONE) of a client that is logged in: logout, fire *)
(* and forget.                                                             *)
GoStandalone(c) ==
  /\ state' = [state EXCEPT ![c] = "out"]
  /\ myNetID' = [myNetID EXCEPT ![c] = 0]
  /\ IF state[c] = "in"
     THEN /\ net' = net \cup {LogoutMessage(Socket(c), myNetID[c])}
          /\ left' = left \cup {Socket(c)}
     ELSE UNCHANGED <<net, left>>
  /\ UNCHANGED <<serverVars, port, salt, entered>>

(* The user leaves, or nothing the client sends is acknowledged.           *)
Logout(c) ==
  /\ state[c] = "in"
  /\ GoStandalone(c)

ReceiveDeny(c) ==
  /\ state[c] # "out"
  /\ \E m \in net : m.type = "login_deny" /\ m.to = Socket(c)
  /\ GoStandalone(c)

(* login_accept_handler: an accept that returns another salt is not for    *)
(* this attempt.  It is acknowledged all the same, with the id the client  *)
(* has by then.                                                            *)
AnySalt(c, s) == TRUE
SaltMatches(c, s) == grants[s].salt = salt[c]
Taken(c, s) == SaltMatches(c, s) /\ s \notin entered
NetIDUnchecked(c, s) == grants[s].id
NetIDAfter(c, s) == IF Taken(c, s) THEN grants[s].id ELSE myNetID[c]

ReceiveAccept(c, s) ==
  /\ state[c] # "out" /\ Accept(s) \in net /\ grants[s].to = Socket(c)
  /\ myNetID' = [myNetID EXCEPT ![c] = NetIDAfter(c, s)]
  /\ net' = net \cup {Ack(Socket(c), NetIDAfter(c, s), s)}
  /\ IF Taken(c, s)
     THEN /\ state' = [state EXCEPT ![c] = "in"]
          /\ entered' = entered \cup {s}
     ELSE UNCHANGED <<state, entered>>
  /\ UNCHANGED <<serverVars, port, salt, left>>

-----------------------------------------------------------------------------
Next ==
  \/ \E c \in Client :
       \/ Connect(c) \/ GiveUp(c) \/ Logout(c) \/ ReceiveDeny(c)
       \/ \E s \in 1 .. Len(grants) : ReceiveAccept(c, s)
  \/ \E j \in Slot : KillTimeout(j)
  \/ \E m \in net :
       ReceiveLogin(m) \/ Refuse(m) \/ ReceiveLogout(m) \/ ReceiveAck(m)

Spec == Init /\ [][Next]_vars

-----------------------------------------------------------------------------
(* The client and the server agree that c has slot j.                      *)
Joined(c, j) == state[c] = "in" /\ myNetID[c] = j /\ HasSlot(Socket(c), j)

(* Timeouts: an attempt ends after five seconds; who is not in the slot    *)
(* does not acknowledge what is sent there, and who has no slot gets no    *)
(* acknowledgements: both sides resend and give up.                        *)
Timeout ==
  \/ \E c \in Client : GiveUp(c) \/ (~Joined(c, myNetID[c]) /\ Logout(c))
  \/ \E j \in Slot : ~(\E c \in Client : Joined(c, j)) /\ KillTimeout(j)

FairSpec == Spec /\ WF_vars(Timeout)

-----------------------------------------------------------------------------
(* Properties.                                                             *)

(* Every variable keeps its shape.                                         *)
TypeOK ==
  /\ world \in Worlds
  /\ grants \in Seq([to : Address, salt : Nat, id : Slot])
  /\ Len(grants) <= MaxSession
  /\ slot \in [Slot -> 0 .. Len(grants)]
  /\ sameIP \in [Slot -> Nat]
  /\ pending \subseteq 1 .. Len(grants)
  /\ state \in [Client -> {"out", "trying", "in"}]
  /\ port \in [Client -> Port]
  /\ salt \in [Client -> Nat]
  /\ myNetID \in [Client -> 0 .. MaxSlots]
  /\ net \subseteq Message
  /\ entered \subseteq 1 .. Len(grants)
  /\ left \subseteq Address

(* No address has two slots, though the server gets its login again and    *)
(* again, before and after it gave it a slot: login_handler, ignore        *)
(* multiple logins.                                                        *)
OneSlotEach == \A j, k \in Users : PeerOf(j) = PeerOf(k) => j = k

(* A client is in under an id that the server gave to this attempt: an     *)
(* accept for an earlier socket with its port does not take it in.         *)
OnlyOwnAccept == \A c \in Client : state[c] = "in" =>
  \E s \in entered : grants[s] = [to |-> Socket(c), salt |-> salt[c], id |-> myNetID[c]]

(* The server stops waiting for the login_accept of a slot to be           *)
(* acknowledged only for a socket that took up this slot: one that refused *)
(* the accept because of its salt is timed out in the end.                 *)
AckedByOwner == \A j \in Users :
  slot[j] \in pending \/ \E s \in entered : grants[s].to = PeerOf(j) /\ grants[s].id = j

(* MAX_CLIENTS_SAME_IP_HARD: no more than that many users share an address.*)
SameIPBounded == \A j \in Users : CountSameIP(PeerOf(j), j) < Hard

(* The server tells a client that it logged out only if its socket did say *)
(* goodbye: the logout of one whose slot was given to another is not taken *)
(* for the other's.                                                        *)
NobodyElseLogsOut == \A m \in net :
  m.type = "login_deny" /\ m.why = "logout" => m.to \in left

(* In the end client and server agree who is in and under which id,        *)
(* whatever late copies of logins and accepts have made of the slots.      *)
Agree ==
  /\ \A c \in Client : state[c] = "out" \/ Joined(c, myNetID[c])
  /\ \A j \in Users : \E c \in Client : Joined(c, j)
EventuallyAgree == <>[]Agree

(* MAX_CLIENTS_SAME_IP_SOFT: when the server is full and someone logs in,  *)
(* it is a user with at least that many neighbours who is kicked.          *)
KickedAreCrowded == \A m \in net : \A j \in GetFreeSlot \cap Users :
  m.type = "login" /\ ~KnownConnection(m.from) /\ UnderHardLimit(m.from)
    => CountSameIP(PeerOf(j), j) >= Soft
=============================================================================
