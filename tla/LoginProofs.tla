---------------------------- MODULE LoginProofs ----------------------------
(* Proofs about logging in, for any clients, ports, slots and limits.      *)
EXTENDS Login, FiniteSetTheorems, TLAPS

-----------------------------------------------------------------------------
(* What the properties rest on.                                            *)

(* A client that is not in has forgotten its id.                           *)
IdleHasNoID == \A c \in Client : state[c] # "in" => myNetID[c] = 0

(* Who acknowledges under an id took it up, under the same address.        *)
AcksAreOwned == \A m \in net :
  m.type = "ack" /\ m.claim # 0 =>
    \E s \in entered : grants[s].to = m.from /\ grants[s].id = m.claim

(* Only those who left sent a logout.                                      *)
LogoutsAreOwn == \A m \in net : m.type = "logout" => m.from \in left

LoginInv ==
  /\ TypeOK /\ OneSlotEach /\ OnlyOwnAccept /\ AckedByOwner
  /\ NobodyElseLogsOut /\ IdleHasNoID /\ AcksAreOwned /\ LogoutsAreOwn

-----------------------------------------------------------------------------
(* Lemmas about the slots.                                                 *)

LEMMA SlotsFinite == ASSUME NEW S \in SUBSET Slot
                     PROVE  IsFiniteSet(S) /\ Cardinality(S) \in Nat
<1>1. IsFiniteSet(Slot)
  BY SizeAssumption, FS_Interval DEF Slot
<1> QED BY <1>1, FS_Subset, FS_CardinalityType

(* CountSameIP is a number, and who is not counted is not there.           *)
LEMMA CountType == ASSUME NEW a, NEW j PROVE CountSameIP(a, j) \in Nat
BY SlotsFinite DEF CountSameIP, Neighbours, Users

LEMMA UnknownHasNoSlot ==
  ASSUME NEW a, ~KnownConnection(a), NEW j \in Slot
  PROVE  ~HasSlot(a, j)
<1> DEFINE S == {k \in Slot : HasSlot(a, k)}
<1>1. IsFiniteSet(S) /\ Cardinality(S) \in Nat
  BY SlotsFinite
<1>2. Cardinality(S) = 0
  BY <1>1 DEF KnownConnection, CountSameConnection
<1>3. S = {}
  BY <1>1, <1>2, FS_EmptySet
<1> QED BY <1>3

LEMMA FreeSlotIsSlot == ASSUME TypeOK PROVE GetFreeSlot \subseteq Slot
<1>1. world.maxClients \in 1 .. MaxSlots
  BY WorldsAssumption DEF TypeOK
<1> QED
  BY <1>1, SizeAssumption
  DEF GetFreeSlot, First, Empty, MostDublicate, Dublicates, Slot

(* The fields of the messages.                                             *)
LEMMA MessageFields ==
  ASSUME TypeOK, NEW m \in net
  PROVE  /\ m.type = "login" => m.from \in Address /\ m.salt \in Nat
         /\ m.type = "ack" => m.from \in Address /\ m.claim \in 0 .. MaxSlots
         /\ m.type = "logout" => m.from \in Address
BY DEF TypeOK, Message

LEMMA SocketType == ASSUME TypeOK, NEW c \in Client PROVE Socket(c) \in Address
BY DEF TypeOK, Socket, Address

(* The messages that are sent are messages.                                *)
LEMMA SentType ==
  ASSUME NEW a \in Address
  PROVE  /\ \A s \in Nat : LoginMessage(a, s) \in Message
         /\ \A s \in Session : Accept(s) \in Message
         /\ \A j \in 0 .. MaxSlots, s \in Session : Ack(a, j, s) \in Message
         /\ \A j \in 0 .. MaxSlots : LogoutMessage(a, j) \in Message
         /\ \A why \in {"kick", "logout"} : Deny(a, why) \in Message
BY DEF Message, LoginMessage, Accept, Ack, LogoutMessage, Deny

(* The elements of a sequence, and a longer one.                           *)
LEMMA SequenceFacts ==
  ASSUME NEW S, NEW q \in Seq(S), NEW e \in S
  PROVE  /\ Len(q) \in Nat
         /\ Append(q, e) \in Seq(S)
         /\ Len(Append(q, e)) = Len(q) + 1
         /\ \A i \in 1 .. Len(q) : Append(q, e)[i] = q[i]
         /\ Append(q, e)[Len(q) + 1] = e
OBVIOUS

LEMMA ElementType ==
  ASSUME NEW S, NEW q \in Seq(S), NEW i \in 1 .. Len(q) PROVE q[i] \in S
OBVIOUS

(* The number of sessions, and what was granted in each.                   *)
LEMMA GrantFields ==
  ASSUME TypeOK
  PROVE  /\ Len(grants) \in Nat
         /\ \A s \in 1 .. Len(grants) :
              s \in Session /\ grants[s].to \in Address /\ grants[s].id \in Slot
<1> DEFINE R == [to : Address, salt : Nat, id : Slot]
<1>1. grants \in Seq(R) /\ Len(grants) <= MaxSession
  BY DEF TypeOK
<1>2. Len(grants) \in Nat
  BY <1>1
<1>3. ASSUME NEW s \in 1 .. Len(grants) PROVE grants[s] \in R /\ s \in Session
  <2>1. grants[s] \in R
    <3> HIDE DEF R
    <3> QED BY <1>1, ElementType
  <2>2. s \in Session
    <3>1. Len(grants) <= MaxSession  BY <1>1
    <3> QED BY <1>2, <3>1, SizeAssumption DEF Session
  <2> QED BY <2>1, <2>2
<1> QED BY <1>2, <1>3

(* Each slot that is used is used by an address, for a session.            *)
LEMMA PeerType == ASSUME TypeOK, NEW j \in Users
                  PROVE  j \in Slot /\ slot[j] \in 1 .. Len(grants) /\ PeerOf(j) \in Address
<1>1. j \in Slot /\ slot[j] \in 1 .. Len(grants)
  BY DEF TypeOK, Users, None
<1> QED BY <1>1, GrantFields DEF PeerOf

-----------------------------------------------------------------------------
(* Types.                                                                  *)

(* A closed slot.                                                          *)
LEMMA DisconnectType ==
  ASSUME TypeOK, NEW j \in Users, NEW why \in {"kick", "logout"}, Disconnect(j, why)
  PROVE  TypeOK'
<1>1. j \in Slot /\ PeerOf(j) \in Address  BY PeerType
<1>2. net' \subseteq Message
  BY <1>1, SentType DEF Disconnect, Goodbye, TypeOK
<1>3. slot' \in [Slot -> 0 .. Len(grants)]
  <2>1. slot \in [Slot -> 0 .. Len(grants)]  BY DEF TypeOK
  <2>2. 0 \in 0 .. Len(grants)  BY GrantFields
  <2>3. slot' = [slot EXCEPT ![j] = 0]  BY DEF Disconnect, None
  <2> QED BY <2>1, <2>2, <2>3
<1> QED BY <1>2, <1>3 DEF Disconnect, TypeOK, clientVars

(* A new grant: one more session, the others stay.                         *)
LEMMA GrantKeeps ==
  ASSUME TypeOK, NEW m \in net, m.type = "login", NEW j \in Slot, Grant(m, j)
  PROVE  /\ Len(grants') = Len(grants) + 1
         /\ Len(grants') \in Session
         /\ grants' \in Seq([to : Address, salt : Nat, id : Slot])
         /\ \A s \in 1 .. Len(grants) : grants'[s] = grants[s]
         /\ grants'[Len(grants) + 1] = [to |-> m.from, salt |-> m.salt, id |-> j]
<1>1. [to |-> m.from, salt |-> m.salt, id |-> j] \in [to : Address, salt : Nat, id : Slot]
  BY MessageFields
<1>2. grants' = Append(grants, [to |-> m.from, salt |-> m.salt, id |-> j])
      /\ Len(grants) + 1 \in Session
  BY DEF Grant
<1>3. grants \in Seq([to : Address, salt : Nat, id : Slot])
  BY DEF TypeOK
<1> QED BY <1>1, <1>2, <1>3, SequenceFacts

LEMMA GrantType ==
  ASSUME TypeOK, NEW m \in net, m.type = "login", NEW j \in Slot, Grant(m, j)
  PROVE  TypeOK'
<1>1. Len(grants') = Len(grants) + 1 /\ Len(grants') \in Session /\ Len(grants) \in Nat
      /\ grants' \in Seq([to : Address, salt : Nat, id : Slot])
  BY GrantKeeps, GrantFields
<1>2. slot' = [slot EXCEPT ![j] = Len(grants) + 1]
      /\ sameIP' = [sameIP EXCEPT ![j] = CountSameIP(m.from, j)]
      /\ pending' = (pending \ {slot[j]}) \cup {Len(grants) + 1}
  BY DEF Grant
<1>3. slot' \in [Slot -> 0 .. Len(grants')]
  <2>1. slot \in [Slot -> 0 .. Len(grants)]  BY DEF TypeOK
  <2> QED BY <1>1, <1>2, <2>1
<1>4. sameIP' \in [Slot -> Nat]
  BY <1>2, CountType DEF TypeOK
<1>5. pending' \subseteq 1 .. Len(grants')
  <2>1. pending \subseteq 1 .. Len(grants)  BY DEF TypeOK
  <2>2. 1 .. Len(grants') = 1 .. Len(grants) \cup {Len(grants) + 1}  BY <1>1
  <2> QED BY <1>2, <2>1, <2>2
<1>6. net' \subseteq Message
  <2>1. m.from \in Address  BY MessageFields
  <2>2. Accept(Len(grants) + 1) \in Message  BY <1>1, <2>1, SentType
  <2>3. CASE slot[j] = None
    BY <2>2, <2>3 DEF Grant, TypeOK
  <2>4. CASE slot[j] # None
    <3>1. PeerOf(j) \in Address  BY <2>4, PeerType DEF Users
    <3>2. Goodbye(j, "kick") \subseteq Message  BY <3>1, SentType DEF Goodbye
    <3> QED BY <2>2, <2>4, <3>2 DEF Grant, TypeOK
  <2> QED BY <2>3, <2>4
<1>7. entered' \subseteq 1 .. Len(grants')
  BY <1>1 DEF Grant, clientVars, TypeOK
<1>8. Len(grants') <= MaxSession
  BY <1>1, SizeAssumption DEF Session
<1> QED BY <1>1, <1>3, <1>4, <1>5, <1>6, <1>7, <1>8 DEF Grant, TypeOK, clientVars

LEMMA TypeInit == Init => TypeOK
<1> SUFFICES ASSUME Init PROVE TypeOK
  OBVIOUS
<1>1. grants \in Seq([to : Address, salt : Nat, id : Slot]) /\ Len(grants) = 0
  BY DEF Init
<1>2. port \in [Client -> Port]
  BY PortAssumption DEF Init
<1>3. slot \in [Slot -> 0 .. Len(grants)] /\ sameIP \in [Slot -> Nat]
  BY <1>1 DEF Init, None
<1>4. myNetID \in [Client -> 0 .. MaxSlots] /\ salt \in [Client -> Nat]
      /\ state \in [Client -> {"out", "trying", "in"}]
  BY SizeAssumption DEF Init
<1> QED BY <1>1, <1>2, <1>3, <1>4, SizeAssumption DEF Init, TypeOK

LEMMA TypeNext == TypeOK /\ [Next]_vars => TypeOK'
<1> SUFFICES ASSUME TypeOK, [Next]_vars PROVE TypeOK'
  OBVIOUS
<1>1. ASSUME NEW c \in Client, Connect(c) PROVE TypeOK'
  <2>1. world.ports \in [Client -> SUBSET Port]
    BY WorldsAssumption DEF TypeOK
  <2>2. PICK p \in world.ports[c] :
          /\ port' = [port EXCEPT ![c] = p]
          /\ net' = net \cup {LoginMessage(<<c, p>>, salt[c] + 1)}
    BY <1>1 DEF Connect
  <2>3. <<c, p>> \in Address /\ salt[c] + 1 \in Nat
    BY <2>1 DEF Address, TypeOK
  <2>4. net' \subseteq Message
    BY <2>2, <2>3, SentType DEF TypeOK
  <2>5. port' \in [Client -> Port]
    BY <2>1, <2>2 DEF TypeOK
  <2>6. /\ state' \in [Client -> {"out", "trying", "in"}]
        /\ salt' \in [Client -> Nat]
        /\ myNetID' \in [Client -> 0 .. MaxSlots]
    BY <1>1, SizeAssumption DEF Connect, TypeOK
  <2> QED BY <1>1, <2>4, <2>5, <2>6 DEF Connect, serverVars, TypeOK
<1>2. ASSUME NEW c \in Client, GiveUp(c) PROVE TypeOK'
  BY <1>2 DEF GiveUp, serverVars, TypeOK
<1>3. ASSUME NEW c \in Client, GoStandalone(c) PROVE TypeOK'
  <2>1. Socket(c) \in Address /\ myNetID[c] \in 0 .. MaxSlots
    BY SocketType DEF TypeOK
  <2>2. net' \subseteq Message /\ left' \subseteq Address
    BY <1>3, <2>1, SentType DEF GoStandalone, TypeOK
  <2>3. state' \in [Client -> {"out", "trying", "in"}]
        /\ myNetID' \in [Client -> 0 .. MaxSlots]
    BY <1>3, SizeAssumption DEF GoStandalone, TypeOK
  <2> QED BY <1>3, <2>2, <2>3 DEF GoStandalone, serverVars, TypeOK
<1>4. ASSUME NEW c \in Client, NEW s \in 1 .. Len(grants), ReceiveAccept(c, s)
      PROVE  TypeOK'
  <2>1. myNetID[c] \in 0 .. MaxSlots
    BY DEF TypeOK
  <2>2. NetIDAfter(c, s) \in 0 .. MaxSlots
    BY <2>1, GrantFields, SizeAssumption DEF NetIDAfter, Slot
  <2>3. s \in Session
    BY GrantFields
  <2>4. net' \subseteq Message
    <3>1. Ack(Socket(c), NetIDAfter(c, s), s) \in Message
      BY <2>2, <2>3, SocketType, SentType
    <3> QED BY <1>4, <3>1 DEF ReceiveAccept, TypeOK
  <2>5. state' \in [Client -> {"out", "trying", "in"}] /\ entered' \subseteq 1 .. Len(grants)
    BY <1>4 DEF ReceiveAccept, TypeOK
  <2>6. myNetID' \in [Client -> 0 .. MaxSlots]
    BY <1>4, <2>2 DEF ReceiveAccept, TypeOK
  <2> QED BY <1>4, <2>4, <2>5, <2>6 DEF ReceiveAccept, serverVars, TypeOK
<1>5. ASSUME NEW j \in Slot, KillTimeout(j) PROVE TypeOK'
  BY <1>5, DisconnectType DEF KillTimeout, Users
<1>6. ASSUME NEW m \in net, ReceiveLogin(m) PROVE TypeOK'
  BY <1>6, GrantType, FreeSlotIsSlot DEF ReceiveLogin
<1>7. ASSUME NEW m \in net, Refuse(m) PROVE TypeOK'
  <2>1. Deny(m.from, "kick") \in Message
    BY <1>7, MessageFields, SentType DEF Refuse
  <2> QED BY <1>7, <2>1 DEF Refuse, serverVars, clientVars, TypeOK
<1>8. ASSUME NEW m \in net, ReceiveLogout(m) PROVE TypeOK'
  BY <1>8, DisconnectType DEF ReceiveLogout, Claimed, HasSlot, Users
<1>9. ASSUME NEW m \in net, ReceiveAck(m) PROVE TypeOK'
  BY <1>9 DEF ReceiveAck, clientVars, TypeOK
<1>10. CASE UNCHANGED vars
  BY <1>10 DEF vars, serverVars, clientVars, TypeOK
<1> QED
  BY <1>1, <1>2, <1>3, <1>4, <1>5, <1>6, <1>7, <1>8, <1>9, <1>10
  DEF Next, Logout, ReceiveDeny

(* Every variable keeps its shape, for any clients, ports, slots and       *)
(* limits.                                                                 *)
THEOREM TypeCorrect == Spec => []TypeOK
BY TypeInit, TypeNext, PTL DEF Spec

-----------------------------------------------------------------------------
(* The invariant, action by action.                                        *)

(* With one slot for an address, a session is in one slot.                 *)
LEMMA SlotsDiffer ==
  ASSUME OneSlotEach, NEW j \in Users, NEW k \in Users, slot[j] = slot[k]
  PROVE  j = k
BY DEF OneSlotEach, PeerOf

(* A user is disconnected: because he left, or without saying why.         *)
LEMMA DisconnectInv ==
  ASSUME LoginInv, NEW j \in Users, NEW why \in {"kick", "logout"}, Disconnect(j, why),
         why = "logout" => PeerOf(j) \in left
  PROVE  LoginInv'
<1>1. TypeOK'
  BY DisconnectType DEF LoginInv
<1>2. ASSUME NEW k \in Users'
      PROVE  k \in Users /\ k # j /\ slot'[k] = slot[k] /\ PeerOf(k)' = PeerOf(k)
  BY DEF Disconnect, Users, PeerOf, LoginInv, TypeOK
<1>3. OneSlotEach'
  BY <1>2 DEF LoginInv, OneSlotEach
<1>4. AckedByOwner'
  BY <1>2, SlotsDiffer DEF LoginInv, AckedByOwner, Disconnect, clientVars
<1>5. NobodyElseLogsOut'
  BY DEF LoginInv, NobodyElseLogsOut, Disconnect, Goodbye, Deny, clientVars
<1>6. OnlyOwnAccept' /\ IdleHasNoID'
  BY DEF LoginInv, OnlyOwnAccept, IdleHasNoID, Disconnect, clientVars, Socket
<1>7. AcksAreOwned' /\ LogoutsAreOwn'
  BY DEF LoginInv, AcksAreOwned, LogoutsAreOwn, Disconnect, Goodbye, Deny, clientVars
<1> QED BY <1>1, <1>3, <1>4, <1>5, <1>6, <1>7 DEF LoginInv

(* A slot is given away, to an address that has none.                      *)
LEMMA GrantInv ==
  ASSUME LoginInv, NEW m \in net, m.type = "login", ~KnownConnection(m.from),
         NEW j \in Slot, Grant(m, j)
  PROVE  LoginInv'
<1> TypeOK
  BY DEF LoginInv
<1>1. TypeOK'
  BY GrantType
<1>2. /\ slot' = [slot EXCEPT ![j] = Len(grants) + 1]
      /\ pending' = (pending \ {slot[j]}) \cup {Len(grants) + 1}
      /\ UNCHANGED <<world, clientVars>>
  BY DEF Grant
<1>3. /\ \A s \in 1 .. Len(grants) : grants'[s] = grants[s]
      /\ grants'[Len(grants) + 1].to = m.from
  <2>1. grants'[Len(grants) + 1] = [to |-> m.from, salt |-> m.salt, id |-> j]
    BY GrantKeeps
  <2>2. \A s \in 1 .. Len(grants) : grants'[s] = grants[s]
    BY GrantKeeps
  <2> QED BY <2>1, <2>2
<1>4. slot'[j] = Len(grants) + 1 /\ PeerOf(j)' = m.from
  BY <1>2, <1>3 DEF TypeOK, PeerOf
<1>5. ASSUME NEW k \in Users', k # j
      PROVE  k \in Users /\ slot'[k] = slot[k] /\ PeerOf(k)' = PeerOf(k) /\ PeerOf(k) # m.from
  <2>1. k \in Users /\ slot'[k] = slot[k]
    BY <1>2, <1>5 DEF Users, TypeOK
  <2>2. PeerOf(k)' = PeerOf(k)
    BY <1>3, <2>1, PeerType DEF PeerOf
  <2>3. PeerOf(k) # m.from
    BY <2>1, UnknownHasNoSlot DEF Users, HasSlot
  <2> QED BY <2>1, <2>2, <2>3
<1>6. OneSlotEach'
  BY <1>4, <1>5 DEF LoginInv, OneSlotEach
<1>7. \A s \in entered : s \in 1 .. Len(grants) /\ grants'[s] = grants[s]
  BY <1>3 DEF TypeOK
<1>8. AckedByOwner'
  <2> SUFFICES ASSUME NEW k \in Users'
               PROVE  slot'[k] \in pending'
                      \/ \E s \in entered : grants'[s].to = PeerOf(k)' /\ grants'[s].id = k
    BY <1>2 DEF AckedByOwner, clientVars
  <2>1. CASE k = j
    BY <1>2, <1>4, <2>1
  <2>2. CASE k # j
    <3>1. k \in Users /\ slot'[k] = slot[k] /\ PeerOf(k)' = PeerOf(k)
      BY <1>5, <2>2
    <3>2. slot[k] # slot[j]
      BY <2>2, <3>1, SlotsDiffer DEF Users, LoginInv
    <3> QED BY <1>2, <1>7, <3>1, <3>2 DEF LoginInv, AckedByOwner
  <2> QED BY <2>1, <2>2
<1>9. net' \subseteq net \cup {Accept(Len(grants) + 1)} \cup {Deny(PeerOf(j), "kick")}
  BY DEF Grant, Goodbye
<1>10. NobodyElseLogsOut'
  BY <1>2, <1>9 DEF LoginInv, NobodyElseLogsOut, Accept, Deny, clientVars
<1>11. OnlyOwnAccept' /\ IdleHasNoID'
  BY <1>2, <1>7 DEF LoginInv, OnlyOwnAccept, IdleHasNoID, clientVars, Socket
<1>12. AcksAreOwned' /\ LogoutsAreOwn'
  BY <1>2, <1>7, <1>9
  DEF LoginInv, AcksAreOwned, LogoutsAreOwn, Accept, Deny, clientVars
<1> QED BY <1>1, <1>6, <1>8, <1>10, <1>11, <1>12 DEF LoginInv

(* The login_accept is acknowledged.                                       *)
LEMMA ReceiveAckInv ==
  ASSUME LoginInv, NEW m \in net, ReceiveAck(m), TypeOK' PROVE LoginInv'
<1>1. PICK j \in Slot : Claimed(m, j) /\ slot[j] = m.session
  BY DEF ReceiveAck
<1>2. j \in Users /\ PeerOf(j) = m.from /\ m.claim = j /\ m.claim # 0 /\ m.type = "ack"
  BY <1>1, SizeAssumption DEF Claimed, HasSlot, Users, ReceiveAck, Slot
<1>3. \E s \in entered : grants[s].to = PeerOf(j) /\ grants[s].id = j
  BY <1>2 DEF LoginInv, AcksAreOwned
<1>4. AckedByOwner'
  <2> SUFFICES ASSUME NEW k \in Users
               PROVE  slot[k] \in pending \ {m.session}
                      \/ \E s \in entered : grants[s].to = PeerOf(k) /\ grants[s].id = k
    BY DEF AckedByOwner, ReceiveAck, clientVars, Users, PeerOf
  <2>1. CASE k = j
    BY <1>3, <2>1
  <2>2. CASE k # j
    <3>1. slot[k] # m.session
      BY <1>1, <1>2, <2>2, SlotsDiffer DEF LoginInv
    <3> QED BY <3>1 DEF LoginInv, AckedByOwner
  <2> QED BY <2>1, <2>2
<1> QED
  BY <1>4 DEF LoginInv, ReceiveAck, clientVars, OneSlotEach, Users, PeerOf, OnlyOwnAccept,
    Socket, NobodyElseLogsOut, IdleHasNoID, AcksAreOwned, LogoutsAreOwn

(* What a client does leaves the slots alone.                              *)
LEMMA ClientStep ==
  ASSUME LoginInv, UNCHANGED serverVars, entered \subseteq entered'
  PROVE  OneSlotEach' /\ AckedByOwner'
BY DEF LoginInv, serverVars, OneSlotEach, AckedByOwner, Users, PeerOf

LEMMA ConnectInv ==
  ASSUME LoginInv, NEW c \in Client, Connect(c), TypeOK' PROVE LoginInv'
<1>1. PICK a : net' = net \cup {LoginMessage(a, salt[c] + 1)}
  BY DEF Connect
<1>2. \A d \in Client \ {c} :
        state'[d] = state[d] /\ port'[d] = port[d] /\ salt'[d] = salt[d] /\ myNetID'[d] = myNetID[d]
  BY DEF Connect, LoginInv, TypeOK
<1>3. state'[c] = "trying" /\ myNetID'[c] = 0
  BY DEF Connect, LoginInv, TypeOK
<1>4. UNCHANGED <<serverVars, entered, left, grants>>
  BY DEF Connect, serverVars
<1>5. OnlyOwnAccept'
  BY <1>2, <1>3, <1>4 DEF LoginInv, OnlyOwnAccept, Socket
<1>6. IdleHasNoID'
  BY <1>2, <1>3 DEF LoginInv, IdleHasNoID
<1>7. NobodyElseLogsOut' /\ AcksAreOwned' /\ LogoutsAreOwn'
  BY <1>1, <1>4
  DEF LoginInv, NobodyElseLogsOut, AcksAreOwned, LogoutsAreOwn, LoginMessage
<1> QED BY <1>4, <1>5, <1>6, <1>7, ClientStep DEF LoginInv

LEMMA GiveUpInv ==
  ASSUME LoginInv, NEW c \in Client, GiveUp(c), TypeOK' PROVE LoginInv'
<1>1. \A d \in Client : state'[d] = state[d] \/ (state'[d] = "out" /\ state[d] # "in")
  BY DEF GiveUp, LoginInv, TypeOK
<1>2. UNCHANGED <<serverVars, grants, port, salt, myNetID, entered, left, net>>
  BY DEF GiveUp, serverVars
<1>3. OnlyOwnAccept'
  BY <1>1, <1>2 DEF LoginInv, OnlyOwnAccept, Socket
<1> QED
  BY <1>1, <1>2, <1>3, ClientStep
  DEF LoginInv, IdleHasNoID, NobodyElseLogsOut, AcksAreOwned, LogoutsAreOwn

LEMMA GoStandaloneInv ==
  ASSUME LoginInv, NEW c \in Client, GoStandalone(c), TypeOK' PROVE LoginInv'
<1>1. \A d \in Client \ {c} : state'[d] = state[d] /\ myNetID'[d] = myNetID[d]
  BY DEF GoStandalone, LoginInv, TypeOK
<1>2. state'[c] = "out" /\ myNetID'[c] = 0
  BY DEF GoStandalone, LoginInv, TypeOK
<1>3. UNCHANGED <<serverVars, grants, port, salt, entered>> /\ left \subseteq left'
  BY DEF GoStandalone, serverVars
<1>4. OnlyOwnAccept'
  BY <1>1, <1>2, <1>3 DEF LoginInv, OnlyOwnAccept, Socket
<1>5. IdleHasNoID'
  BY <1>1, <1>2 DEF LoginInv, IdleHasNoID
<1>6. \/ net' = net \cup {LogoutMessage(Socket(c), myNetID[c])} /\ Socket(c) \in left'
      \/ net' = net
  BY DEF GoStandalone
<1>7. NobodyElseLogsOut' /\ AcksAreOwned' /\ LogoutsAreOwn'
  BY <1>3, <1>6
  DEF LoginInv, NobodyElseLogsOut, AcksAreOwned, LogoutsAreOwn, LogoutMessage
<1> QED BY <1>3, <1>4, <1>5, <1>7, ClientStep DEF LoginInv

LEMMA ReceiveAcceptInv ==
  ASSUME LoginInv, NEW c \in Client, NEW s \in 1 .. Len(grants), ReceiveAccept(c, s), TypeOK'
  PROVE  LoginInv'
<1>1. \A d \in Client \ {c} : state'[d] = state[d] /\ myNetID'[d] = myNetID[d]
  BY DEF ReceiveAccept, LoginInv, TypeOK
<1>2. UNCHANGED <<serverVars, grants, port, salt, left>> /\ entered \subseteq entered'
  BY DEF ReceiveAccept, serverVars
<1>3. grants[s].to = Socket(c)
  BY DEF ReceiveAccept
<1>4. CASE Taken(c, s)
  <2>1. /\ state'[c] = "in" /\ myNetID'[c] = grants[s].id
        /\ s \in entered' /\ NetIDAfter(c, s) = grants[s].id /\ grants[s].salt = salt[c]
    BY <1>4 DEF ReceiveAccept, LoginInv, TypeOK, NetIDAfter, Taken, SaltMatches
  <2>2. grants[s] = [to |-> Socket(c), salt |-> salt[c], id |-> grants[s].id]
    <3>1. grants \in Seq([to : Address, salt : Nat, id : Slot])
      BY DEF LoginInv, TypeOK
    <3>2. grants[s] \in [to : Address, salt : Nat, id : Slot]
      BY <3>1, ElementType
    <3> QED BY <1>3, <2>1, <3>2
  <2>3. OnlyOwnAccept'
    BY <1>1, <1>2, <2>1, <2>2 DEF LoginInv, OnlyOwnAccept, Socket
  <2>4. AcksAreOwned'
    <3>1. net' = net \cup {Ack(Socket(c), grants[s].id, s)}
      BY <2>1 DEF ReceiveAccept
    <3> QED BY <1>2, <1>3, <2>1, <3>1 DEF LoginInv, AcksAreOwned, Ack
  <2> QED
    BY <1>1, <1>2, <2>1, <2>3, <2>4, ClientStep
    DEF LoginInv, IdleHasNoID, ReceiveAccept, Ack, NobodyElseLogsOut, LogoutsAreOwn
<1>5. CASE ~Taken(c, s)
  <2>1. UNCHANGED <<state, entered, myNetID>> /\ NetIDAfter(c, s) = myNetID[c]
    BY <1>5 DEF ReceiveAccept, LoginInv, TypeOK, NetIDAfter
  <2>2. net' = net \cup {Ack(Socket(c), myNetID[c], s)}
    BY <2>1 DEF ReceiveAccept
  <2>3. OnlyOwnAccept' /\ IdleHasNoID'
    BY <1>2, <2>1 DEF LoginInv, OnlyOwnAccept, IdleHasNoID, Socket
  <2>4. AcksAreOwned'
    <3>1. myNetID[c] # 0 =>
            \E t \in entered : grants[t].to = Socket(c) /\ grants[t].id = myNetID[c]
      <4> SUFFICES ASSUME myNetID[c] # 0
                   PROVE  \E t \in entered : grants[t].to = Socket(c) /\ grants[t].id = myNetID[c]
        OBVIOUS
      <4>1. state[c] = "in"  BY DEF LoginInv, IdleHasNoID
      <4>2. PICK t \in entered :
              grants[t] = [to |-> Socket(c), salt |-> salt[c], id |-> myNetID[c]]
        BY <4>1 DEF LoginInv, OnlyOwnAccept
      <4> QED BY <4>2
    <3>2. \A m \in net : m.type = "ack" /\ m.claim # 0 =>
            \E t \in entered : grants[t].to = m.from /\ grants[t].id = m.claim
      BY DEF LoginInv, AcksAreOwned
    <3>3. \A m \in net' \ net : m.from = Socket(c) /\ m.claim = myNetID[c]
      BY <2>2 DEF Ack
    <3>4. UNCHANGED <<entered, grants>>
      BY <1>2, <2>1
    <3>5. ASSUME NEW m \in net', m.type = "ack", m.claim # 0
          PROVE  \E t \in entered : grants[t].to = m.from /\ grants[t].id = m.claim
      <4>1. CASE m \in net       BY <3>2, <3>5, <4>1
      <4>2. CASE m \in net' \ net  BY <3>1, <3>3, <3>5, <4>2
      <4> QED BY <4>1, <4>2
    <3> QED BY <3>4, <3>5 DEF AcksAreOwned
  <2> QED
    BY <1>2, <2>1, <2>2, <2>3, <2>4, ClientStep
    DEF LoginInv, Ack, NobodyElseLogsOut, LogoutsAreOwn
<1> QED BY <1>4, <1>5

LEMMA RefuseInv ==
  ASSUME LoginInv, NEW m \in net, Refuse(m), TypeOK' PROVE LoginInv'
<1>1. UNCHANGED <<serverVars, clientVars>> /\ net' = net \cup {Deny(m.from, "kick")}
  BY DEF Refuse
<1>2. UNCHANGED <<grants, state, port, salt, myNetID, entered, left>>
  BY <1>1 DEF serverVars, clientVars
<1>3. NobodyElseLogsOut' /\ AcksAreOwned' /\ LogoutsAreOwn'
  BY <1>1, <1>2 DEF LoginInv, NobodyElseLogsOut, AcksAreOwned, LogoutsAreOwn, Deny
<1> QED
  BY <1>1, <1>2, <1>3, ClientStep DEF LoginInv, OnlyOwnAccept, IdleHasNoID, Socket

-----------------------------------------------------------------------------
(* Together.                                                               *)

LEMMA LoginInit == Init => LoginInv
<1> SUFFICES ASSUME Init PROVE LoginInv
  OBVIOUS
<1>1. TypeOK
  BY TypeInit
<1>2. Users = {} /\ net = {} /\ \A c \in Client : state[c] = "out" /\ myNetID[c] = 0
  BY DEF Init, Users
<1> QED
  BY <1>1, <1>2
  DEF LoginInv, OneSlotEach, OnlyOwnAccept, AckedByOwner, NobodyElseLogsOut, IdleHasNoID,
    AcksAreOwned, LogoutsAreOwn

LEMMA LoginNext == LoginInv /\ [Next]_vars => LoginInv'
<1> SUFFICES ASSUME LoginInv, [Next]_vars PROVE LoginInv'
  OBVIOUS
<1>1. TypeOK'
  BY TypeNext DEF LoginInv
<1>2. ASSUME NEW c \in Client, NEW s \in 1 .. Len(grants), ReceiveAccept(c, s) PROVE LoginInv'
  BY <1>1, <1>2, ReceiveAcceptInv
<1>3. ASSUME NEW c \in Client, Connect(c) \/ GiveUp(c) \/ GoStandalone(c) PROVE LoginInv'
  BY <1>1, <1>3, ConnectInv, GiveUpInv, GoStandaloneInv
<1>4. ASSUME NEW j \in Slot, KillTimeout(j) PROVE LoginInv'
  <2>1. j \in Users /\ Disconnect(j, "kick")  BY <1>4 DEF KillTimeout, Users
  <2>2. "kick" \in {"kick", "logout"} /\ "kick" # "logout"  OBVIOUS
  <2> QED BY <2>1, <2>2, DisconnectInv
<1>5. ASSUME NEW m \in net, ReceiveLogin(m) PROVE LoginInv'
  <2>1. PICK j \in Slot : Grant(m, j)
    BY <1>5, FreeSlotIsSlot DEF ReceiveLogin, LoginInv
  <2> QED BY <1>5, <2>1, GrantInv DEF ReceiveLogin
<1>6. ASSUME NEW m \in net, ReceiveLogout(m) PROVE LoginInv'
  <2>1. PICK j \in Slot : Claimed(m, j) /\ Disconnect(j, "logout")
    BY <1>6 DEF ReceiveLogout
  <2>2. j \in Users /\ PeerOf(j) \in left
    BY <1>6, <2>1 DEF ReceiveLogout, LoginInv, LogoutsAreOwn, Claimed, HasSlot, Users
  <2> QED BY <2>1, <2>2, DisconnectInv
<1>7. ASSUME NEW m \in net, Refuse(m) \/ ReceiveAck(m) PROVE LoginInv'
  BY <1>1, <1>7, RefuseInv, ReceiveAckInv
<1>8. CASE UNCHANGED vars
  BY <1>1, <1>8, ClientStep
  DEF vars, serverVars, clientVars, LoginInv, OnlyOwnAccept, Socket, NobodyElseLogsOut,
    IdleHasNoID, AcksAreOwned, LogoutsAreOwn
<1> QED
  BY <1>2, <1>3, <1>4, <1>5, <1>6, <1>7, <1>8 DEF Next, Logout, ReceiveDeny

LEMMA LoginInvariant == Spec => []LoginInv
BY LoginInit, LoginNext, PTL DEF Spec

(* No address ever has two slots, whatever copies of its logins arrive.    *)
THEOREM OneSlotCorrect == Spec => []OneSlotEach
BY LoginInvariant, PTL DEF LoginInv

(* A client is in only under an id granted to this very attempt.           *)
THEOREM OnlyOwnAcceptCorrect == Spec => []OnlyOwnAccept
BY LoginInvariant, PTL DEF LoginInv

(* Only a socket that took up a slot acknowledges it.                      *)
THEOREM AckedByOwnerCorrect == Spec => []AckedByOwner
BY LoginInvariant, PTL DEF LoginInv

(* Only who said goodbye is told that he logged out.                       *)
THEOREM LogoutCorrect == Spec => []NobodyElseLogsOut
BY LoginInvariant, PTL DEF LoginInv

-----------------------------------------------------------------------------
(* The limit per address.                                                  *)

(* Sets of slots, counted.                                                 *)
LEMMA FewerSlots ==
  ASSUME NEW S \in SUBSET Slot, NEW T, T \subseteq S
  PROVE  Cardinality(T) <= Cardinality(S)
BY SlotsFinite, FS_Subset

LEMMA ExchangedSlot ==
  ASSUME NEW S \in SUBSET Slot, NEW k \in S, NEW j, NEW T, T \subseteq (S \ {k}) \cup {j}
  PROVE  Cardinality(T) <= Cardinality(S)
<1>1. IsFiniteSet(S) /\ Cardinality(S) \in Nat
  BY SlotsFinite
<1>2. IsFiniteSet(S \ {k}) /\ Cardinality(S \ {k}) = Cardinality(S) - 1
  BY <1>1, FS_RemoveElement
<1>3. /\ IsFiniteSet((S \ {k}) \cup {j})
      /\ Cardinality((S \ {k}) \cup {j}) <= Cardinality(S)
  <2>1. /\ IsFiniteSet((S \ {k}) \cup {j})
        /\ Cardinality((S \ {k}) \cup {j}) \in {Cardinality(S \ {k}), Cardinality(S \ {k}) + 1}
    BY <1>2, FS_AddElement
  <2> QED BY <1>1, <1>2, <2>1
<1>4. Cardinality(T) <= Cardinality((S \ {k}) \cup {j})
  BY <1>3, FS_Subset
<1> QED BY <1>1, <1>3, <1>4, FS_CardinalityType, FS_Subset

LEMMA BoundKept ==
  ASSUME NEW S \in SUBSET Slot, Cardinality(S) < Hard,
         NEW T, Cardinality(T) <= Cardinality(S), T \subseteq Slot
  PROVE  Cardinality(T) < Hard
BY SlotsFinite, SizeAssumption

(* Who leaves is nobody's neighbour.                                       *)
LEMMA DisconnectBounded ==
  ASSUME TypeOK, SameIPBounded, NEW j \in Users, NEW why, Disconnect(j, why)
  PROVE  SameIPBounded'
<1>1. ASSUME NEW k \in Users' PROVE k \in Users /\ PeerOf(k)' = PeerOf(k)
  BY DEF Disconnect, Users, PeerOf, TypeOK
<1>2. \A a : IP(a)' = IP(a)
  BY DEF Disconnect, IP
<1>3. SUFFICES ASSUME NEW k \in Users' PROVE CountSameIP(PeerOf(k), k)' < Hard
  BY DEF SameIPBounded
<1> DEFINE S == Neighbours(PeerOf(k), k)
           T == Neighbours(PeerOf(k), k)'
<1>4. T \subseteq S
  BY <1>1, <1>2, <1>3 DEF Neighbours
<1>5. S \in SUBSET Slot /\ Cardinality(S) < Hard
  BY <1>1, <1>3 DEF Neighbours, Users, SameIPBounded, CountSameIP
<1>6. Cardinality(T) < Hard
  <2> HIDE DEF S, T
  <2> QED BY <1>4, <1>5, FewerSlots, BoundKept
<1> QED
  BY <1>6 DEF CountSameIP

(* Who comes counted his neighbours; for each of these he is one more, but *)
(* they do not count themselves.                                           *)
LEMMA GrantBounded ==
  ASSUME TypeOK, SameIPBounded, NEW m \in net, m.type = "login", UnderHardLimit(m.from),
         NEW j \in Slot, Grant(m, j)
  PROVE  SameIPBounded'
<1> DEFINE N == Neighbours(m.from, None)
<1>1. N \in SUBSET Slot /\ Cardinality(N) < Hard
  BY DEF Neighbours, Users, UnderHardLimit, CountSameIP
<1>2. slot' = [slot EXCEPT ![j] = Len(grants) + 1] /\ \A a : IP(a)' = IP(a)
  BY DEF Grant, IP
<1>3. PeerOf(j)' = m.from
  <2>1. grants'[Len(grants) + 1] = [to |-> m.from, salt |-> m.salt, id |-> j]
    BY GrantKeeps
  <2>2. slot'[j] = Len(grants) + 1
    BY <1>2 DEF TypeOK
  <2> QED BY <2>1, <2>2 DEF PeerOf
<1>4. ASSUME NEW k \in Users', k # j PROVE k \in Users /\ PeerOf(k)' = PeerOf(k)
  <2>1. k \in Users /\ slot'[k] = slot[k]
    BY <1>2, <1>4 DEF Users, TypeOK
  <2>2. grants'[slot[k]] = grants[slot[k]]
    BY <2>1, GrantKeeps, PeerType
  <2> QED BY <2>1, <2>2 DEF PeerOf
<1>5. \A k \in Users : k \in N <=> IP(PeerOf(k)) = IP(m.from)
  BY DEF Neighbours, Users, Slot, None
<1>6. SUFFICES ASSUME NEW k \in Users' PROVE CountSameIP(PeerOf(k), k)' < Hard
  BY DEF SameIPBounded
<1> DEFINE T == Neighbours(PeerOf(k), k)'
<1>7. \A i \in T : i \in Users' /\ i # k /\ IP(PeerOf(i)') = IP(PeerOf(k)')
  BY <1>2 DEF Neighbours
<1>8. T \subseteq Slot
  BY DEF Neighbours, Users
<1>9. CASE k = j
  <2>1. T \subseteq N
    BY <1>3, <1>4, <1>5, <1>7, <1>9
  <2>2. Cardinality(T) < Hard
    <3> HIDE DEF T, N
    <3> QED BY <1>1, <1>8, <2>1, FewerSlots, BoundKept
  <2> QED BY <2>2 DEF CountSameIP
<1>10. CASE k # j /\ k \in N
  <2>1. T \subseteq (N \ {k}) \cup {j}
    BY <1>4, <1>5, <1>7, <1>10
  <2>2. Cardinality(T) < Hard
    <3> HIDE DEF T, N
    <3> QED BY <1>1, <1>8, <1>10, <2>1, ExchangedSlot, BoundKept
  <2> QED BY <2>2 DEF CountSameIP
<1>11. CASE k # j /\ k \notin N
  <2> DEFINE S == Neighbours(PeerOf(k), k)
  <2>1. T \subseteq S
    BY <1>3, <1>4, <1>5, <1>7, <1>11 DEF Neighbours
  <2>2. S \in SUBSET Slot /\ Cardinality(S) < Hard
    BY <1>4, <1>6, <1>11 DEF Neighbours, Users, SameIPBounded, CountSameIP
  <2>3. Cardinality(T) < Hard
    <3> HIDE DEF S, T
    <3> QED BY <1>8, <2>1, <2>2, FewerSlots, BoundKept
  <2> QED BY <2>3 DEF CountSameIP
<1> QED BY <1>9, <1>10, <1>11

LEMMA BoundedInit == Init => SameIPBounded
BY DEF Init, SameIPBounded, Users

LEMMA BoundedNext == TypeOK /\ SameIPBounded /\ [Next]_vars => SameIPBounded'
<1> SUFFICES ASSUME TypeOK, SameIPBounded, [Next]_vars PROVE SameIPBounded'
  OBVIOUS
<1>1. ASSUME UNCHANGED <<world, grants, slot>> PROVE SameIPBounded'
  BY <1>1 DEF SameIPBounded, CountSameIP, Neighbours, Users, PeerOf, IP
<1>2. ASSUME NEW c \in Client, Connect(c) \/ GiveUp(c) \/ GoStandalone(c) PROVE SameIPBounded'
  BY <1>1, <1>2 DEF Connect, GiveUp, GoStandalone, serverVars
<1>3. ASSUME NEW c \in Client, NEW s \in 1 .. Len(grants), ReceiveAccept(c, s)
      PROVE  SameIPBounded'
  BY <1>1, <1>3 DEF ReceiveAccept, serverVars
<1>4. ASSUME NEW j \in Slot, KillTimeout(j) PROVE SameIPBounded'
  BY <1>4, DisconnectBounded DEF KillTimeout, Users
<1>5. ASSUME NEW m \in net, ReceiveLogin(m) PROVE SameIPBounded'
  BY <1>5, GrantBounded, FreeSlotIsSlot DEF ReceiveLogin
<1>6. ASSUME NEW m \in net, ReceiveLogout(m) PROVE SameIPBounded'
  BY <1>6, DisconnectBounded DEF ReceiveLogout, Claimed, HasSlot, Users
<1>7. ASSUME NEW m \in net, Refuse(m) \/ ReceiveAck(m) PROVE SameIPBounded'
  BY <1>1, <1>7 DEF Refuse, ReceiveAck, serverVars
<1>8. CASE UNCHANGED vars
  BY <1>1, <1>8 DEF vars, serverVars
<1> QED
  BY <1>2, <1>3, <1>4, <1>5, <1>6, <1>7, <1>8 DEF Next, Logout, ReceiveDeny

(* No more users than the hard limit share an address.                     *)
THEOREM SameIPCorrect == Spec => []SameIPBounded
BY BoundedInit, BoundedNext, TypeCorrect, PTL DEF Spec
=============================================================================
