---------------------- MODULE ReliableMessagingProofs ----------------------
(***************************************************************************)
(* Proofs about ReliableMessaging, for every size of the id space, of the  *)
(* ring of remembered ids and of the send window.                          *)
(***************************************************************************)
EXTENDS ReliableMessaging, FiniteSetTheorems, TLAPS

-----------------------------------------------------------------------------
(* Remainders.                                                             *)

(* Division with remainder.                                                *)
LEMMA DivisionByC ==
  ASSUME NEW c \in Nat \ {0}, NEW a \in Int
  PROVE  /\ a \div c \in Int /\ a % c \in 0 .. c - 1
         /\ a = c * (a \div c) + (a % c)
  OBVIOUS

(* Different multiples of c are at least c apart.                          *)
LEMMA Multiples ==
  ASSUME NEW c \in Nat \ {0}, NEW p \in Int, NEW q \in Int, p < q
  PROVE  c * p + c <= c * q
<1>1. q - p - 1 \in Nat  OBVIOUS
<1>2. c * (q - p - 1) >= 0  BY <1>1
<1>3. c * (q - p - 1) = c * q - c * p - c  OBVIOUS
<1> QED BY <1>2, <1>3

(* The remainder is the only r in 0 .. c-1 with a = c * q + r.             *)
LEMMA Remainder ==
  ASSUME NEW c \in Nat \ {0}, NEW q \in Int, NEW r \in 0 .. c - 1
  PROVE  (c * q + r) % c = r
<1> DEFINE a == c * q + r
           p == a \div c
<1>1. a \in Int OBVIOUS
<1>2. /\ p \in Int /\ a % c \in 0 .. c - 1
      /\ a = c * p + (a % c)
  BY <1>1, DivisionByC
<1> HIDE DEF p
<1>3. CASE p < q
  <2>1. c * p + c <= c * q BY <1>2, <1>3, Multiples
  <2> QED BY <2>1, <1>2
<1>4. CASE q < p
  <2>1. c * q + c <= c * p BY <1>2, <1>4, Multiples
  <2> QED BY <2>1, <1>2
<1>5. CASE p = q BY <1>5, <1>2
<1> QED BY <1>2, <1>3, <1>4, <1>5

(* Counting on from a: the remainder grows along, or starts again.         *)
LEMMA RemainderOfSum ==
  ASSUME NEW c \in Nat \ {0}, NEW a \in Nat, NEW d \in 0 .. c - 1
  PROVE  (a + d) % c = IF (a % c) + d < c THEN (a % c) + d ELSE (a % c) + d - c
<1> DEFINE q == a \div c  r == a % c
<1>1. q \in Int /\ r \in 0 .. c - 1 /\ a = c * q + r  BY DivisionByC
<1> HIDE DEF q, r
<1>2. CASE r + d < c
  <2>1. (c * q + (r + d)) % c = r + d  BY <1>1, <1>2, Remainder
  <2> QED BY <2>1, <1>1, <1>2 DEF r
<1>3. CASE ~(r + d < c)
  <2>a. r + d - c \in 0 .. c - 1 /\ q + 1 \in Int  BY <1>1, <1>3
  <2>b. \A p \in Int : (c * p + (r + d - c)) % c = r + d - c  BY <2>a, Remainder
  <2>1. (c * (q + 1) + (r + d - c)) % c = r + d - c  BY <2>a, <2>b
  <2>2. c * (q + 1) + (r + d - c) = a + d  BY <1>1
  <2> QED BY <2>1, <2>2, <1>1, <1>3 DEF r
<1> QED BY <1>2, <1>3

(* The difference of two unsigned shorts, as an unsigned short.            *)
LEMMA SmallRemainder ==
  ASSUME NEW c \in Nat \ {0}, NEW x \in 1 - c .. c - 1
  PROVE  x % c = IF x >= 0 THEN x ELSE x + c
<1>1. CASE x >= 0
  <2>1. (c * 0 + x) % c = x  BY <1>1, Remainder
  <2> QED BY <2>1, <1>1
<1>2. CASE x < 0
  <2>1. x + c \in 0 .. c - 1  BY <1>2
  <2>2. \A q \in Int : (c * q + (x + c)) % c = x + c  BY <2>1, Remainder
  <2>3. (c * (0 - 1) + (x + c)) % c = x + c  BY <2>2
  <2>4. c * (0 - 1) + (x + c) = x  OBVIOUS
  <2> QED BY <2>3, <2>4, <1>2
<1> QED BY <1>1, <1>2

-----------------------------------------------------------------------------
(* Ids.                                                                    *)

(* Some id is left beside the reserved ones.                               *)
LEMMA CycleType == Cycle \in Nat \ {0}
BY IdAssumption DEF Cycle

(* nMessage::nMessage never gives a message a reserved id.                 *)
LEMMA MessageIDType ==
  ASSUME NEW n \in Nat \ {0}
  PROVE  MessageID(n) \in Reserved + 1 .. IdSpace - 1
<1>1. (n - 1) % Cycle \in 0 .. Cycle - 1  BY CycleType, DivisionByC
<1> QED BY <1>1, IdAssumption DEF MessageID, Cycle

(* The id d messages later is d larger, or has come round once.            *)
LEMMA MessageIDAhead ==
  ASSUME NEW n \in Nat \ {0}, NEW d \in 0 .. Cycle - 1
  PROVE  MessageID(n + d) \in {MessageID(n) + d, MessageID(n) + d - Cycle}
<1>1. ((n - 1) + d) % Cycle \in {((n - 1) % Cycle) + d, ((n - 1) % Cycle) + d - Cycle}
  <2>1. n - 1 \in Nat  OBVIOUS
  <2>2. \A a \in Nat : (a + d) % Cycle \in {(a % Cycle) + d, (a % Cycle) + d - Cycle}
    BY CycleType, RemainderOfSum
  <2> QED BY <2>1, <2>2
<1>2. (n - 1) + d = (n + d) - 1  OBVIOUS
<1>3. (n - 1) % Cycle \in 0 .. Cycle - 1  BY CycleType, DivisionByC
<1> QED BY <1>1, <1>2, <1>3, CycleType, IdAssumption DEF MessageID

(* Messages less than a cycle apart have different ids.                    *)
LEMMA DistinctIDs ==
  ASSUME NEW m \in Nat \ {0}, NEW n \in Nat \ {0}, m # n,
         m - n < Cycle, n - m < Cycle
  PROVE  MessageID(m) # MessageID(n)
<1>1. CASE m < n
  <2>1. n - m \in 0 .. Cycle - 1 /\ m + (n - m) = n  BY <1>1, CycleType
  <2>2. MessageID(n) \in {MessageID(m) + (n - m), MessageID(m) + (n - m) - Cycle}
    BY <2>1, MessageIDAhead
  <2> QED BY <2>2, <1>1, MessageIDType, CycleType, IdAssumption
<1>2. CASE n < m
  <2>1. m - n \in 0 .. Cycle - 1 /\ n + (m - n) = m  BY <1>2, CycleType
  <2>2. MessageID(m) \in {MessageID(n) + (m - n), MessageID(n) + (m - n) - Cycle}
    BY <2>1, MessageIDAhead
  <2> QED BY <2>2, <1>2, MessageIDType, CycleType, IdAssumption
<1> QED BY <1>1, <1>2

(* rec_peer takes a message a little ahead of highest_ack for new, also    *)
(* when the ids come round in between.                                     *)
LEMMA AheadIsNew ==
  ASSUME NEW k \in Nat \ {0}, NEW n \in Nat, k < n, n - k + Reserved + 1 < NewWindow
  PROVE  SurelyNew(MessageID(n), MessageID(k))
<1> DEFINE x == MessageID(n) - MessageID(k)
<1>1. n - k \in 1 .. Cycle - 1 /\ k + (n - k) = n  BY IdAssumption DEF Cycle
<1>2. x \in {n - k, n - k - Cycle}
  <2>1. MessageID(n) \in {MessageID(k) + (n - k), MessageID(k) + (n - k) - Cycle}
    BY <1>1, MessageIDAhead
  <2>2. MessageID(k) \in Nat /\ Cycle \in Nat  BY MessageIDType, CycleType, IdAssumption
  <2> QED BY <2>1, <2>2
<1>3. x \in 1 - IdSpace .. IdSpace - 1  BY <1>1, <1>2, IdAssumption DEF Cycle
<1>4. x % IdSpace = IF x >= 0 THEN x ELSE x + IdSpace
  <2>1. IdSpace \in Nat \ {0}  BY IdAssumption
  <2>2. \A y \in 1 - IdSpace .. IdSpace - 1 :
           y % IdSpace = IF y >= 0 THEN y ELSE y + IdSpace
    BY <2>1, SmallRemainder
  <2> QED BY <1>3, <2>2
<1>5. Diff(MessageID(n), MessageID(k)) = x % IdSpace  BY DEF Diff
<1> HIDE DEF x
<1> QED BY <1>1, <1>2, <1>4, <1>5, IdAssumption DEF SurelyNew, Cycle

(* rec_peer never takes a message at or a little behind highest_ack for    *)
(* surely new.                                                             *)
LEMMA BehindIsNotSurelyNew ==
  ASSUME NEW k \in Nat \ {0}, NEW n \in Nat \ {0}, n <= k,
         k - n < Cycle, k - n + 1 + Reserved + NewWindow <= IdSpace
  PROVE  ~SurelyNew(MessageID(n), MessageID(k))
<1> DEFINE x == MessageID(n) - MessageID(k)
<1>1. k - n \in 0 .. Cycle - 1 /\ n + (k - n) = k  BY IdAssumption DEF Cycle
<1>2. x \in {n - k, n - k + Cycle}
  <2>1. MessageID(k) \in {MessageID(n) + (k - n), MessageID(n) + (k - n) - Cycle}
    BY <1>1, MessageIDAhead
  <2>2. MessageID(n) \in Nat /\ Cycle \in Nat  BY MessageIDType, CycleType, IdAssumption
  <2> QED BY <2>1, <2>2
<1>3. x \in 1 - IdSpace .. IdSpace - 1
  BY MessageIDType, IdAssumption
<1>4. x % IdSpace = IF x >= 0 THEN x ELSE x + IdSpace
  <2>1. IdSpace \in Nat \ {0}  BY IdAssumption
  <2>2. \A y \in 1 - IdSpace .. IdSpace - 1 :
           y % IdSpace = IF y >= 0 THEN y ELSE y + IdSpace
    BY <2>1, SmallRemainder
  <2> QED BY <1>3, <2>2
<1>5. Diff(MessageID(n), MessageID(k)) = x % IdSpace  BY DEF Diff
<1> HIDE DEF x
<1> QED BY <1>1, <1>2, <1>4, <1>5, IdAssumption DEF SurelyNew, Cycle

(* Small ids are ahead of the initial highest_ack = 0.                     *)
LEMMA FirstIsNew ==
  ASSUME NEW n \in Nat \ {0}, n + Reserved < NewWindow
  PROVE  SurelyNew(MessageID(n), 0)
<1>1. n - 1 \in 0 .. Cycle - 1  BY IdAssumption DEF Cycle
<1>2. (n - 1) % Cycle = n - 1
  <2>1. \A r \in 0 .. Cycle - 1 : (Cycle * 0 + r) % Cycle = r  BY CycleType, Remainder
  <2>2. (Cycle * 0 + (n - 1)) % Cycle = n - 1  BY <1>1, <2>1
  <2> QED BY <2>2, CycleType
<1>3. MessageID(n) = Reserved + n  BY <1>2, IdAssumption DEF MessageID
<1>4. (Reserved + n) % IdSpace = Reserved + n
  <2>1. IdSpace \in Nat \ {0} /\ Reserved + n \in 0 .. IdSpace - 1  BY IdAssumption
  <2>2. \A r \in 0 .. IdSpace - 1 : (IdSpace * 0 + r) % IdSpace = r  BY <2>1, Remainder
  <2>3. (IdSpace * 0 + (Reserved + n)) % IdSpace = Reserved + n  BY <2>1, <2>2
  <2> QED BY <2>1, <2>3, IdAssumption
<1> QED BY <1>3, <1>4, IdAssumption DEF SurelyNew, Diff

-----------------------------------------------------------------------------
(* The send window: what ackPending misses of the entries of               *)
(* sn_pendingAcks stays the same while a connection lasts.  A message      *)
(* enters the list once, because it leaves the queue, or ceases to be the  *)
(* destroy message, for it, and its number is new when it is created.      *)

SendInv(h) ==
  /\ \A n \in Live(h) : 1 <= n /\ n <= created[h]
  /\ send_queue[h] \cap pendingAcks[h] = {}
  /\ destroyer[h] \cap (send_queue[h] \cup pendingAcks[h]) = {}
  /\ IsFiniteSet(destroyer[h]) /\ IsFiniteSet(pendingAcks[h])
  /\ open[h] =>
       /\ Cardinality(pendingAcks[h]) - ackPending[h] \in 0 .. MaxMissing
       /\ Cardinality(pendingAcks[h] \ destroyAcks[h])
            <= MaxNoAck + Cardinality(pendingAcks[h]) - ackPending[h]

WindowInv == TypeOK /\ \A h \in Host : SendInv(h)

(* A host is one of the two ends, and each is the other's peer.            *)
LEMMA PeerType ==
  ASSUME NEW h \in Host
  PROVE  Peer(h) \in Host /\ Peer(h) # h /\ Peer(Peer(h)) = h
BY HostAssumption DEF Host, Peer

(* The elements of a sequence over S.                                      *)
LEMMA RangeType ==
  ASSUME NEW S, NEW s \in Seq(S)
  PROVE  RangeOf(s) \in SUBSET S
BY DEF RangeOf

(* Changing one value of a function.                                       *)
LEMMA UpdateType ==
  ASSUME NEW D, NEW R, NEW f \in [D -> R], NEW x, NEW y \in R
  PROVE  [f EXCEPT ![x] = y] \in [D -> R]
OBVIOUS

(* The invariant holds when the login is over.                             *)
LEMMA WindowInit == Init => WindowInv
<1> SUFFICES ASSUME Init PROVE WindowInv
  OBVIOUS
<1>1. TypeOK
  <2>1. Start[Server] \in Nat \ {0}  BY BoundAssumption DEF Host
  <2>2. MessageID(Start[Server]) \in 0 .. IdSpace - 1  BY <2>1, MessageIDType, IdAssumption
  <2> QED BY <2>1, <2>2, BoundAssumption, IdAssumption, NumberAssumption
          DEF Init, TypeOK, MaxTimeouts
<1>2. \A h \in Host : SendInv(h)
  <2>1. IsFiniteSet({}) /\ Cardinality({}) = 0  BY FS_EmptySet
  <2>2. {} \ {} = {}  OBVIOUS
  <2>3. ASSUME NEW h \in Host
        PROVE  /\ 0 - ackPending[h] \in 0 .. MaxMissing
               /\ 0 <= MaxNoAck + 0 - ackPending[h]
    <3>1. ackPending[h] \in -MaxMissing .. 0  BY DEF Init
    <3> QED BY <3>1, NumberAssumption, BoundAssumption
  <2>4. ASSUME NEW h \in Host
        PROVE  /\ send_queue[h] = {} /\ destroyer[h] = {} /\ pendingAcks[h] = {}
               /\ destroyAcks[h] = {} /\ wire[h] = {}
    BY DEF Init
  <2> QED BY <2>1, <2>2, <2>3, <2>4 DEF SendInv, Live, Unacknowledged
<1> QED BY <1>1, <1>2 DEF WindowInv

(* An end whose lists are untouched keeps SendInv while it counts on.      *)
SendKept(h) ==
  /\ created'[h] >= created[h] /\ open'[h] = open[h]
  /\ send_queue'[h] = send_queue[h] /\ destroyer'[h] = destroyer[h]
  /\ pendingAcks'[h] = pendingAcks[h] /\ destroyAcks'[h] = destroyAcks[h]
  /\ ackPending'[h] = ackPending[h]
  /\ wire'[h] \subseteq wire[h] \cup pendingAcks[h]

(* Such a step keeps the window of the end.                                *)
LEMMA SendFrame ==
  ASSUME NEW h \in Host, SendInv(h), TypeOK, TypeOK', SendKept(h)
  PROVE  SendInv(h)'
<1>1. created[h] \in Nat /\ created'[h] \in Nat /\ Live(h) \subseteq Nat
  BY DEF TypeOK, Live, Unacknowledged
<1>2. Live(h)' \subseteq Live(h)  BY DEF SendKept, Live, Unacknowledged
<1>3. \A n \in Live(h)' : 1 <= n /\ n <= created'[h]
  BY <1>1, <1>2 DEF SendInv, SendKept
<1> QED BY <1>3 DEF SendInv, SendKept

(* Every step keeps the types; a step uses that the lists are finite.      *)
LEMMA TypeStep == TypeOK /\ (\A h \in Host : SendInv(h)) /\ [Next]_vars => TypeOK'
<1> SUFFICES ASSUME TypeOK, \A h \in Host : SendInv(h), [Next]_vars PROVE TypeOK'
  OBVIOUS
<1>1. ASSUME NEW h \in Host, Create(h) PROVE TypeOK'
  <2>1. created[h] + 1 \in Nat  BY DEF TypeOK
  <2>2. created' \in [Host -> Nat] /\ created'[h] = created[h] + 1
    BY <1>1, <2>1 DEF Create, TypeOK
  <2>3. /\ send_queue[h] \cup {created'[h]} \in SUBSET Nat
        /\ submitted[h] \cup {created'[h]} \in SUBSET Nat
    BY <2>1, <2>2 DEF TypeOK
  <2>4. send_queue' \in [Host -> SUBSET Nat] /\ submitted' \in [Host -> SUBSET Nat]
    BY <1>1, <2>3, UpdateType DEF Create, TypeOK
  <2>5. UNCHANGED <<open, destroyer, pendingAcks, destroyAcks, old, timeouts,
                    ackPending, recvVars, netVars>>
    BY <1>1 DEF Create
  <2> QED BY <2>2, <2>4, <2>5 DEF TypeOK, recvVars, netVars
<1>1a. ASSUME NEW h \in Host, CreateDestroyer(h) PROVE TypeOK'
  <2>1. created[h] + 1 \in Nat  BY DEF TypeOK
  <2>2. created' \in [Host -> Nat] /\ created'[h] = created[h] + 1
    BY <1>1a, <2>1 DEF CreateDestroyer, TypeOK
  <2>3. /\ {created'[h]} \in SUBSET Nat
        /\ submitted[h] \cup {created'[h]} \in SUBSET Nat
    BY <2>1, <2>2 DEF TypeOK
  <2>4. destroyer' \in [Host -> SUBSET Nat] /\ submitted' \in [Host -> SUBSET Nat]
    BY <1>1a, <2>3, UpdateType DEF CreateDestroyer, TypeOK
  <2>5. UNCHANGED <<open, send_queue, pendingAcks, destroyAcks, old, timeouts,
                    ackPending, recvVars, netVars>>
    BY <1>1a DEF CreateDestroyer
  <2> QED BY <2>2, <2>4, <2>5 DEF TypeOK, recvVars, netVars
<1>2. ASSUME NEW h \in Host, SkipID(h) PROVE TypeOK'
  <2>1. created' \in [Host -> Nat]  BY <1>2 DEF SkipID, TypeOK
  <2>2. UNCHANGED <<open, submitted, sendVars, recvVars, netVars>>  BY <1>2 DEF SkipID
  <2> QED BY <2>1, <2>2 DEF TypeOK, recvVars, netVars, sendVars, waitVars
<1>3. ASSUME NEW h \in Host, Close(h), timeouts' \in [Host -> 0 .. MaxTimeouts] PROVE TypeOK'
  <2>1. /\ {} \in SUBSET Nat /\ {} \in SUBSET SUBSET Nat
        /\ <<>> \in Seq(Nat) /\ 0 \in Int /\ 0 \in 0 .. IdSpace - 1
        /\ destroyer[h] \in SUBSET Nat
    BY IdAssumption DEF TypeOK
  <2>2. open' \in [Host -> BOOLEAN] /\ farewell' \in [Host -> BOOLEAN]
    BY <1>3 DEF Close, TypeOK
  <2>3. /\ send_queue' \in [Host -> SUBSET Nat]
        /\ destroyer' \in [Host -> SUBSET Nat]
        /\ pendingAcks' \in [Host -> SUBSET Nat]
        /\ destroyAcks' \in [Host -> SUBSET Nat]
        /\ old' \in [Host -> SUBSET Nat]
    BY <1>3, <2>1, UpdateType DEF Close, TypeOK
  <2>4. ackPending' \in [Host -> Int] /\ highest_ack' \in [Host -> 0 .. IdSpace - 1]
    BY <1>3, <2>1, UpdateType DEF Close, TypeOK
  <2>5. lastacks' \in [Host -> Seq(Nat)] /\ ackMess' \in [Host -> Seq(Nat)]
    BY <1>3, <2>1, UpdateType DEF Close, TypeOK
  <2>6. ackQueue' \in [Host -> SUBSET SUBSET Nat]
    BY <1>3, <2>1, UpdateType DEF Close, TypeOK
  <2>7. UNCHANGED <<created, submitted, handled, wire, ackWire>>  BY <1>3 DEF Close
  <2> QED BY <1>3, <2>2, <2>3, <2>4, <2>5, <2>6, <2>7 DEF TypeOK
<1>4. ASSUME NEW h \in Host, NEW n \in send_queue[h], Execute(h, n) PROVE TypeOK'
  <2>1. /\ send_queue[h] \ {n} \in SUBSET Nat /\ pendingAcks[h] \cup {n} \in SUBSET Nat
        /\ wire[h] \cup {n} \in SUBSET Nat /\ ackPending[h] + 1 \in Int
    BY DEF TypeOK
  <2>2. /\ send_queue' \in [Host -> SUBSET Nat] /\ pendingAcks' \in [Host -> SUBSET Nat]
        /\ wire' \in [Host -> SUBSET Nat] /\ ackPending' \in [Host -> Int]
    BY <1>4, <2>1, UpdateType DEF Execute, TypeOK
  <2>3. UNCHANGED <<open, queueVars, destroyer, destroyAcks, old, timeouts, recvVars,
                    ackWire, farewell>>
    BY <1>4 DEF Execute
  <2> QED BY <2>2, <2>3 DEF TypeOK, recvVars, queueVars
<1>4a. ASSUME NEW h \in Host, NEW n \in destroyer[h], SendDestroyer(h, n) PROVE TypeOK'
  <2>1. /\ destroyer[h] \ {n} \in SUBSET Nat /\ pendingAcks[h] \cup {n} \in SUBSET Nat
        /\ destroyAcks[h] \cup {n} \in SUBSET Nat
        /\ wire[h] \cup {n} \in SUBSET Nat /\ ackPending[h] + 1 \in Int
    BY DEF TypeOK
  <2>2. /\ destroyer' \in [Host -> SUBSET Nat] /\ pendingAcks' \in [Host -> SUBSET Nat]
        /\ destroyAcks' \in [Host -> SUBSET Nat]
        /\ wire' \in [Host -> SUBSET Nat] /\ ackPending' \in [Host -> Int]
    BY <1>4a, <2>1, UpdateType DEF SendDestroyer, TypeOK
  <2>3. UNCHANGED <<open, queueVars, send_queue, old, timeouts, recvVars, ackWire, farewell>>
    BY <1>4a DEF SendDestroyer
  <2> QED BY <2>2, <2>3 DEF TypeOK, recvVars, queueVars
<1>5. ASSUME NEW h \in Host, NEW a \in ackQueue[h], ExecuteAck(h, a) PROVE TypeOK'
  <2>1. /\ ackQueue[h] \ {a} \in SUBSET SUBSET Nat
        /\ ackWire[h] \cup {a} \in SUBSET SUBSET Nat
    BY DEF TypeOK
  <2>2. /\ ackQueue' \in [Host -> SUBSET SUBSET Nat]
        /\ ackWire' \in [Host -> SUBSET SUBSET Nat]
    BY <1>5, <2>1, UpdateType DEF ExecuteAck, TypeOK
  <2>3. UNCHANGED <<open, queueVars, sendVars, highest_ack, lastacks, ackMess,
                    handled, wire, farewell>>  BY <1>5 DEF ExecuteAck
  <2> QED BY <2>2, <2>3 DEF TypeOK, sendVars, waitVars, queueVars
<1>6. ASSUME NEW h \in Host, SendAcks(h) PROVE TypeOK'
  <2>1. RangeOf(ackMess[h]) \in SUBSET Nat  BY RangeType DEF TypeOK
  <2>2. ackWire[h] \cup {RangeOf(ackMess[h])} \in SUBSET SUBSET Nat  BY <2>1 DEF TypeOK
  <2>3. ackWire' \in [Host -> SUBSET SUBSET Nat]  BY <1>6, <2>2 DEF SendAcks, TypeOK
  <2>4. <<>> \in Seq(Nat)  OBVIOUS
  <2>5. ackMess' \in [Host -> Seq(Nat)]  BY <1>6, <2>4 DEF SendAcks, TypeOK
  <2> QED BY <1>6, <2>3, <2>5 DEF SendAcks, TypeOK, sendVars, waitVars, queueVars
<1>7. ASSUME NEW h \in Host, CountTimeout(h) PROVE timeouts' \in [Host -> 0 .. MaxTimeouts]
  BY <1>7, NumberAssumption DEF CountTimeout, MaxTimeouts, TypeOK
<1>8. ASSUME NEW h \in Host, NEW n \in pendingAcks[h], Resend(h, n) PROVE TypeOK'
  <2>1. timeouts' \in [Host -> 0 .. MaxTimeouts]  BY <1>7, <1>8 DEF Resend
  <2>2. n \in Nat  BY DEF TypeOK
  <2>3. wire' \in [Host -> SUBSET Nat]
    <3>1. wire[h] \cup {n} \in SUBSET Nat  BY <2>2 DEF TypeOK
    <3> QED BY <1>8, <3>1, UpdateType DEF Resend, TypeOK
  <2>4. UNCHANGED <<open, queueVars, waitVars, old, ackPending, recvVars, ackWire, farewell>>
    BY <1>8 DEF Resend
  <2> QED BY <2>1, <2>3, <2>4 DEF TypeOK, queueVars, waitVars, recvVars
<1>8a. ASSUME NEW h \in Host, NEW n \in pendingAcks[h], DropClosed(h, n) PROVE TypeOK'
  <2>1. timeouts' \in [Host -> 0 .. MaxTimeouts]  BY <1>7, <1>8a DEF DropClosed
  <2>2. /\ pendingAcks[h] \ {n} \in SUBSET Nat /\ destroyAcks[h] \ {n} \in SUBSET Nat
        /\ old[h] \ {n} \in SUBSET Nat /\ ackPending[h] - 1 \in Int
    BY DEF TypeOK
  <2>3. /\ pendingAcks' \in [Host -> SUBSET Nat] /\ destroyAcks' \in [Host -> SUBSET Nat]
        /\ old' \in [Host -> SUBSET Nat] /\ ackPending' \in [Host -> Int]
    BY <1>8a, <2>2, UpdateType DEF DropClosed, TypeOK
  <2>4. UNCHANGED <<open, queueVars, send_queue, destroyer, recvVars, netVars>>
    BY <1>8a DEF DropClosed
  <2> QED BY <2>1, <2>3, <2>4 DEF TypeOK, queueVars, recvVars, netVars
<1>8b. ASSUME NEW h \in Host, NEW n \in pendingAcks[h], KillClosed(h, n) PROVE TypeOK'
  <2>1. timeouts' \in [Host -> 0 .. MaxTimeouts]  BY <1>7, <1>8b DEF KillClosed
  <2>2. UNCHANGED <<open, queueVars, waitVars, old, ackPending, recvVars, netVars>>
    BY <1>8b DEF KillClosed
  <2> QED BY <2>1, <2>2 DEF TypeOK, queueVars, waitVars, recvVars, netVars
<1>9. ASSUME NEW h \in Host, NEW n, TimePasses(h, n) PROVE TypeOK'
  <2>1. old[h] \cup {n} \in SUBSET Nat  BY <1>9 DEF TimePasses, TypeOK
  <2>2. old' \in [Host -> SUBSET Nat]  BY <1>9, <2>1, UpdateType DEF TimePasses, TypeOK
  <2>3. UNCHANGED <<open, queueVars, waitVars, timeouts, ackPending, recvVars, netVars>>
    BY <1>9 DEF TimePasses
  <2> QED BY <2>2, <2>3 DEF TypeOK, queueVars, waitVars, recvVars, netVars
<1>10. ASSUME NEW g \in Host, NEW n \in wire[Peer(g)], ReceiveMessage(g, n) PROVE TypeOK'
  <2>1. n \in Nat \ {0} /\ n \in Nat
    <3>1. Peer(g) \in Host /\ n \in Live(Peer(g))  BY PeerType DEF Live
    <3>2. 1 <= n /\ n \in Nat  BY <3>1 DEF SendInv, TypeOK
    <3> QED BY <3>2
  <2>2. highest_ack' \in [Host -> 0 .. IdSpace - 1]
    <3>1. MessageID(n) \in 0 .. IdSpace - 1  BY <2>1, MessageIDType, IdAssumption
    <3> QED BY <3>1, <1>10 DEF ReceiveMessage, TypeOK
  <2>3. ackMess' \in [Host -> Seq(Nat)] /\ ackQueue' \in [Host -> SUBSET SUBSET Nat]
    <3> DEFINE acks == Append(ackMess[g], n)
    <3>1. acks \in Seq(Nat)  BY <2>1 DEF TypeOK
    <3>2. RangeOf(acks) \in SUBSET Nat  BY <3>1, RangeType
    <3> HIDE DEF acks
    <3>3. \/ ackMess' = [ackMess EXCEPT ![g] = <<>>]
             /\ ackQueue' = [ackQueue EXCEPT ![g] = @ \cup {RangeOf(acks)}]
          \/ ackMess' = [ackMess EXCEPT ![g] = acks] /\ ackQueue' = ackQueue
      BY <1>10 DEF ReceiveMessage, AddAck, acks
    <3>4. <<>> \in Seq(Nat) /\ ackQueue[g] \cup {RangeOf(acks)} \in SUBSET SUBSET Nat
      BY <3>2 DEF TypeOK
    <3>5. /\ [ackMess EXCEPT ![g] = <<>>] \in [Host -> Seq(Nat)]
          /\ [ackMess EXCEPT ![g] = acks] \in [Host -> Seq(Nat)]
      <4>1. ackMess \in [Host -> Seq(Nat)]  BY DEF TypeOK
      <4> QED BY <3>1, <3>4, <4>1, UpdateType
    <3>6. [ackQueue EXCEPT ![g] = @ \cup {RangeOf(acks)}] \in [Host -> SUBSET SUBSET Nat]
      BY <3>4, UpdateType DEF TypeOK
    <3> QED BY <3>3, <3>5, <3>6 DEF TypeOK
  <2>4. lastacks' \in [Host -> Seq(Nat)] /\ handled' \in [Host -> Seq(Nat)]
    <3>1. Push(lastacks[g], n) \in Seq(Nat)
      BY <2>1, NumberAssumption DEF Push, TypeOK
    <3>2. Append(handled[g], n) \in Seq(Nat)  BY <2>1 DEF TypeOK
    <3>3. /\ [lastacks EXCEPT ![g] = Push(lastacks[g], n)] \in [Host -> Seq(Nat)]
          /\ [handled EXCEPT ![g] = Append(handled[g], n)] \in [Host -> Seq(Nat)]
      BY <3>1, <3>2, UpdateType DEF TypeOK
    <3>4. Handle(g, n)  BY <1>10 DEF ReceiveMessage
    <3>5. CASE IsNew(g, n)  BY <3>3, <3>4, <3>5 DEF Handle
    <3>6. CASE ~IsNew(g, n)  BY <3>4, <3>6 DEF Handle, TypeOK
    <3> QED BY <3>5, <3>6
  <2>5. UNCHANGED <<open, queueVars, sendVars, netVars>>  BY <1>10 DEF ReceiveMessage
  <2> QED BY <2>2, <2>3, <2>4, <2>5 DEF TypeOK, queueVars, sendVars, waitVars, netVars
<1>11. ASSUME NEW h \in Host, NEW a \in ackWire[Peer(h)], ReceiveAck(h, a) PROVE TypeOK'
  <2> DEFINE acked == Acknowledged(h, a)
  <2>1. acked \subseteq pendingAcks[h]  BY DEF Acknowledged
  <2>2. ackPending' \in [Host -> Int]
    <3>1. Cardinality(acked) \in Nat
      BY <2>1, FS_Subset, FS_CardinalityType DEF SendInv
    <3> HIDE DEF acked
    <3>2. ackPending[h] - Cardinality(acked) \in Int  BY <3>1 DEF TypeOK
    <3>3. ackPending' = [ackPending EXCEPT ![h] = ackPending[h] - Cardinality(acked)]
      BY <1>11 DEF ReceiveAck, acked
    <3> QED BY <3>2, <3>3, UpdateType DEF TypeOK
  <2>3. timeouts' \in [Host -> 0 .. MaxTimeouts]
    <3>1. timeouts \in [Host -> 0 .. MaxTimeouts]  BY DEF TypeOK
    <3>2. 0 \in 0 .. MaxTimeouts  BY NumberAssumption DEF MaxTimeouts
    <3>3. timeouts' = timeouts \/ timeouts' = [timeouts EXCEPT ![h] = 0]
      BY <1>11 DEF ReceiveAck
    <3> QED BY <3>1, <3>2, <3>3, UpdateType
  <2>4. /\ pendingAcks' \in [Host -> SUBSET Nat] /\ old' \in [Host -> SUBSET Nat]
        /\ destroyAcks' \in [Host -> SUBSET Nat]
    <3>1. /\ pendingAcks[h] \ acked \in SUBSET Nat /\ old[h] \ acked \in SUBSET Nat
          /\ destroyAcks[h] \ acked \in SUBSET Nat
      BY DEF TypeOK
    <3>2. /\ pendingAcks' = [pendingAcks EXCEPT ![h] = pendingAcks[h] \ acked]
          /\ destroyAcks' = [destroyAcks EXCEPT ![h] = destroyAcks[h] \ acked]
          /\ old' = [old EXCEPT ![h] = old[h] \ acked]
      BY <1>11 DEF ReceiveAck
    <3>3. /\ pendingAcks \in [Host -> SUBSET Nat] /\ old \in [Host -> SUBSET Nat]
          /\ destroyAcks \in [Host -> SUBSET Nat]
      BY DEF TypeOK
    <3> HIDE DEF acked
    <3> QED BY <3>1, <3>2, <3>3, UpdateType
  <2>5. UNCHANGED <<open, queueVars, send_queue, destroyer, recvVars, netVars>>
    BY <1>11 DEF ReceiveAck
  <2> QED BY <2>2, <2>3, <2>4, <2>5 DEF TypeOK, queueVars, recvVars, netVars
<1>12. ASSUME NEW h \in Host, Lose(h) PROVE TypeOK'
  <2>1. wire' \in [Host -> SUBSET Nat]  BY <1>12 DEF Lose, TypeOK
  <2>2. ackWire' \in [Host -> SUBSET SUBSET Nat]
    <3>1. \A a : ackWire[h] \ {a} \in SUBSET SUBSET Nat  BY DEF TypeOK
    <3>2. \A a : [ackWire EXCEPT ![h] = @ \ {a}] \in [Host -> SUBSET SUBSET Nat]
      BY <3>1, UpdateType DEF TypeOK
    <3>3. ackWire' = ackWire \/ \E a : ackWire' = [ackWire EXCEPT ![h] = @ \ {a}]
      BY <1>12 DEF Lose
    <3>4. ackWire' = ackWire => ackWire' \in [Host -> SUBSET SUBSET Nat]  BY DEF TypeOK
    <3>5. ASSUME NEW a, ackWire' = [ackWire EXCEPT ![h] = @ \ {a}]
          PROVE  ackWire' \in [Host -> SUBSET SUBSET Nat]
      BY <3>2, <3>5
    <3> QED BY <3>3, <3>4, <3>5
  <2>3. farewell' \in [Host -> BOOLEAN]  BY <1>12 DEF Lose, TypeOK
  <2> QED BY <1>12, <2>1, <2>2, <2>3 DEF Lose, TypeOK, queueVars, sendVars, waitVars, recvVars
<1>13. ASSUME UNCHANGED vars PROVE TypeOK'
  BY <1>13 DEF vars, TypeOK, queueVars, sendVars, waitVars, recvVars, netVars
<1>14. ASSUME NEW h \in Host, Send(h) PROVE TypeOK'
  BY <1>14, <1>3, <1>4, <1>4a, <1>5, <1>6, <1>7, <1>8, <1>8a, <1>8b
     DEF Send, Overflow, KillTimeout, TypeOK
<1>15. ASSUME NEW h \in Host, Receive(h) PROVE TypeOK'
  BY <1>15, <1>3, <1>10, <1>11 DEF Receive, ReceiveFarewell, TypeOK
<1>16. ASSUME NEW h \in Host, Disconnect(h) PROVE TypeOK'
  BY <1>16, <1>3 DEF Disconnect, TypeOK
<1> QED BY <1>1, <1>1a, <1>2, <1>9, <1>12, <1>13, <1>14, <1>15, <1>16 DEF Next, Tick

(* Every step keeps the window of both ends.                               *)
LEMMA WindowStep == WindowInv /\ [Next]_vars => WindowInv'
<1> SUFFICES ASSUME TypeOK, \A h \in Host : SendInv(h), [Next]_vars, TypeOK',
                    NEW g \in Host
             PROVE  SendInv(g)'
  BY TypeStep DEF WindowInv
<1>0. SendKept(g) => SendInv(g)'
  BY SendFrame
<1>1. ASSUME NEW h \in Host, Create(h) PROVE SendInv(g)'
  <2>1. CASE g = h
    <3>1. created[h] \in Nat /\ created'[h] = created[h] + 1
          /\ send_queue'[h] = send_queue[h] \cup {created'[h]}
      BY <1>1 DEF Create, TypeOK
    <3>2. UNCHANGED <<open, destroyer, pendingAcks, destroyAcks, ackPending, wire>>
      BY <1>1 DEF Create, netVars
    <3>3. Live(h)' = Live(h) \cup {created'[h]}  BY <3>1, <3>2 DEF Live, Unacknowledged
    <3>4. \A n \in Live(h) : 1 <= n /\ n <= created'[h] /\ n # created'[h]
      <4>1. Live(h) \subseteq Nat  BY DEF Live, Unacknowledged, TypeOK
      <4>2. \A n \in Live(h) : 1 <= n /\ n <= created[h]  BY DEF SendInv
      <4> QED BY <3>1, <4>1, <4>2
    <3>5. created'[h] \notin pendingAcks[h] \cup destroyer[h]
      BY <3>4 DEF Live, Unacknowledged
    <3>6. \A n \in Live(h)' : 1 <= n /\ n <= created'[h]  BY <3>1, <3>3, <3>4
    <3> QED BY <2>1, <3>1, <3>2, <3>5, <3>6 DEF SendInv
  <2>2. CASE g # h
    <3>1. created'[g] = created[g] /\ created[g] \in Nat /\ send_queue'[g] = send_queue[g]
      BY <1>1, <2>2 DEF Create, TypeOK
    <3>2. UNCHANGED <<open, destroyer, pendingAcks, destroyAcks, ackPending, wire>>
      BY <1>1 DEF Create, netVars
    <3>3. SendKept(g)  BY <3>1, <3>2 DEF SendKept
    <3> QED BY <3>3, <1>0
  <2> QED BY <2>1, <2>2
<1>2. ASSUME NEW h \in Host, CreateDestroyer(h) PROVE SendInv(g)'
  <2>1. CASE g = h
    <3>1. created[h] \in Nat /\ created'[h] = created[h] + 1
          /\ destroyer[h] = {} /\ destroyer'[h] = {created'[h]}
      BY <1>2 DEF CreateDestroyer, TypeOK
    <3>2. UNCHANGED <<open, send_queue, pendingAcks, destroyAcks, ackPending, wire>>
      BY <1>2 DEF CreateDestroyer, netVars
    <3>3. Live(h)' = Live(h) \cup {created'[h]}  BY <3>1, <3>2 DEF Live, Unacknowledged
    <3>4. \A n \in Live(h) : 1 <= n /\ n <= created'[h] /\ n # created'[h]
      <4>1. Live(h) \subseteq Nat  BY DEF Live, Unacknowledged, TypeOK
      <4>2. \A n \in Live(h) : 1 <= n /\ n <= created[h]  BY DEF SendInv
      <4> QED BY <3>1, <4>1, <4>2
    <3>5. created'[h] \notin send_queue[h] \cup pendingAcks[h]
      BY <3>4 DEF Live, Unacknowledged
    <3>6. IsFiniteSet({created'[h]})  BY FS_Singleton
    <3>7. \A n \in Live(h)' : 1 <= n /\ n <= created'[h]  BY <3>1, <3>3, <3>4
    <3> QED BY <2>1, <3>1, <3>2, <3>5, <3>6, <3>7 DEF SendInv
  <2>2. CASE g # h
    <3>1. created'[g] = created[g] /\ created[g] \in Nat /\ destroyer'[g] = destroyer[g]
      BY <1>2, <2>2 DEF CreateDestroyer, TypeOK
    <3>2. UNCHANGED <<open, send_queue, pendingAcks, destroyAcks, ackPending, wire>>
      BY <1>2 DEF CreateDestroyer, netVars
    <3>3. SendKept(g)  BY <3>1, <3>2 DEF SendKept
    <3> QED BY <3>3, <1>0
  <2> QED BY <2>1, <2>2
<1>3. ASSUME NEW h \in Host, SkipID(h) PROVE SendInv(g)'
  <2>1. created'[g] >= created[g]
    <3>1. created \in [Host -> Nat]  BY DEF TypeOK
    <3>2. created' = [created EXCEPT ![h] = @ + 1]  BY <1>3 DEF SkipID
    <3> QED BY <3>1, <3>2
  <2>2. SendKept(g)  BY <1>3, <2>1 DEF SkipID, SendKept, netVars, sendVars, waitVars
  <2> QED BY <2>2, <1>0
<1>4. ASSUME NEW h \in Host, Close(h) PROVE SendInv(g)'
  <2>1. CASE g = h
    <3>1. IsFiniteSet({})  BY FS_EmptySet
    <3>2. send_queue'[h] = {} /\ destroyer'[h] = {} /\ pendingAcks'[h] = destroyer[h]
          /\ ~open'[h] /\ wire'[h] = wire[h] /\ created'[h] = created[h]
      BY <1>4 DEF Close, TypeOK
    <3>3. Live(h)' \subseteq Live(h)  BY <3>2 DEF Live, Unacknowledged
    <3> QED BY <2>1, <3>1, <3>2, <3>3 DEF SendInv
  <2>2. CASE g # h
    <3>1. SendKept(g)  BY <1>4, <2>2 DEF Close, SendKept, TypeOK
    <3> QED BY <3>1, <1>0
  <2> QED BY <2>1, <2>2
<1>5. ASSUME NEW h \in Host, NEW n \in send_queue[h], Execute(h, n) PROVE SendInv(g)'
  <2>1. CASE g = h
    <3> DEFINE P == pendingAcks[h]  D == destroyAcks[h]
    <3>1. /\ send_queue'[h] = send_queue[h] \ {n} /\ wire'[h] = wire[h] \cup {n}
          /\ pendingAcks'[h] = P \cup {n} /\ created'[h] = created[h]
          /\ ackPending'[h] = ackPending[h] + 1 /\ ackPending[h] < MaxNoAck
          /\ ackPending[h] \in Int /\ open[h]
          /\ destroyer'[h] = destroyer[h] /\ destroyAcks'[h] = D /\ open'[h] = open[h]
      BY <1>5 DEF Execute, CanExecute, TypeOK, queueVars
    <3>2. /\ IsFiniteSet(P) /\ n \notin P /\ n \notin destroyer[h]
          /\ Cardinality(P) - ackPending[h] \in 0 .. MaxMissing
          /\ Cardinality(P) \in Nat
      BY <3>1, FS_CardinalityType DEF SendInv
    <3>3. Live(h)' \subseteq Live(h)  BY <1>5, <3>1 DEF Live, Unacknowledged
    <3> HIDE DEF P, D
    <3>4. IsFiniteSet(P \cup {n}) /\ Cardinality(P \cup {n}) = Cardinality(P) + 1
      BY <3>2, FS_AddElement
    <3>5. /\ Cardinality((P \cup {n}) \ D) <= Cardinality(P \cup {n})
          /\ Cardinality((P \cup {n}) \ D) \in Nat
      BY <3>4, FS_Subset, FS_CardinalityType
    <3>6. Cardinality((P \cup {n}) \ D)
            <= MaxNoAck + Cardinality(P \cup {n}) - ackPending'[h]
      BY <3>1, <3>2, <3>4, <3>5, NumberAssumption
    <3>7. \A m \in Live(h)' : 1 <= m /\ m <= created'[h]  BY <3>1, <3>3 DEF SendInv
    <3>8. /\ send_queue'[h] \cap pendingAcks'[h] = {}
          /\ destroyer'[h] \cap (send_queue'[h] \cup pendingAcks'[h]) = {}
      BY <1>5, <3>1, <3>2 DEF SendInv, P
    <3>9. IsFiniteSet(destroyer'[h])  BY <3>1 DEF SendInv
    <3>10. Cardinality(P \cup {n}) - ackPending'[h] \in 0 .. MaxMissing
      BY <3>1, <3>2, <3>4
    <3> QED BY <2>1, <3>1, <3>4, <3>6, <3>7, <3>8, <3>9, <3>10 DEF SendInv
  <2>2. CASE g # h
    <3>1. /\ send_queue'[g] = send_queue[g] /\ pendingAcks'[g] = pendingAcks[g]
          /\ ackPending'[g] = ackPending[g] /\ wire'[g] = wire[g]
      BY <1>5, <2>2 DEF Execute, TypeOK
    <3>2. created'[g] = created[g] /\ created[g] \in Nat
          /\ UNCHANGED <<open, destroyer, destroyAcks>>
      BY <1>5 DEF Execute, TypeOK, queueVars
    <3>3. SendKept(g)  BY <3>1, <3>2 DEF SendKept
    <3> QED BY <3>3, <1>0
  <2> QED BY <2>1, <2>2
<1>6. ASSUME NEW h \in Host, NEW n \in destroyer[h], SendDestroyer(h, n) PROVE SendInv(g)'
  <2>1. CASE g = h
    <3> DEFINE P == pendingAcks[h]  D == destroyAcks[h]
    <3>1. /\ destroyer'[h] = destroyer[h] \ {n} /\ wire'[h] = wire[h] \cup {n}
          /\ pendingAcks'[h] = P \cup {n} /\ created'[h] = created[h]
          /\ destroyAcks'[h] = D \cup {n}
          /\ ackPending'[h] = ackPending[h] + 1 /\ ackPending[h] \in Int /\ open[h]
          /\ send_queue'[h] = send_queue[h] /\ open'[h] = open[h]
      BY <1>6 DEF SendDestroyer, TypeOK, queueVars
    <3>2. /\ IsFiniteSet(P) /\ n \notin P /\ n \notin send_queue[h]
          /\ IsFiniteSet(destroyer[h])
          /\ Cardinality(P) - ackPending[h] \in 0 .. MaxMissing
          /\ Cardinality(P \ D) <= MaxNoAck + Cardinality(P) - ackPending[h]
          /\ Cardinality(P) \in Nat
      BY <3>1, FS_CardinalityType DEF SendInv
    <3>3. Live(h)' \subseteq Live(h)  BY <1>6, <3>1 DEF Live, Unacknowledged
    <3> HIDE DEF P, D
    <3>4. IsFiniteSet(P \cup {n}) /\ Cardinality(P \cup {n}) = Cardinality(P) + 1
      BY <3>2, FS_AddElement
    <3>5. /\ IsFiniteSet(P \ D) /\ (P \cup {n}) \ (D \cup {n}) \subseteq P \ D
      BY <3>2, FS_Subset
    <3>6. Cardinality((P \cup {n}) \ (D \cup {n}))
            <= MaxNoAck + Cardinality(P \cup {n}) - ackPending'[h]
      <4>1. /\ Cardinality((P \cup {n}) \ (D \cup {n})) <= Cardinality(P \ D)
            /\ IsFiniteSet((P \cup {n}) \ (D \cup {n}))
        BY <3>5, FS_Subset
      <4>2. Cardinality((P \cup {n}) \ (D \cup {n})) \in Nat /\ Cardinality(P \ D) \in Nat
        BY <3>5, <4>1, FS_CardinalityType
      <4> QED BY <3>1, <3>2, <3>4, <4>1, <4>2, NumberAssumption
    <3>7. IsFiniteSet(destroyer[h] \ {n})  BY <3>2, FS_Subset
    <3>8. \A m \in Live(h)' : 1 <= m /\ m <= created'[h]  BY <3>1, <3>3 DEF SendInv
    <3>9. /\ send_queue'[h] \cap pendingAcks'[h] = {}
          /\ destroyer'[h] \cap (send_queue'[h] \cup pendingAcks'[h]) = {}
      BY <1>6, <3>1, <3>2 DEF SendInv, P
    <3>10. Cardinality(P \cup {n}) - ackPending'[h] \in 0 .. MaxMissing
      BY <3>1, <3>2, <3>4
    <3> QED BY <2>1, <3>1, <3>4, <3>6, <3>7, <3>8, <3>9, <3>10 DEF SendInv
  <2>2. CASE g # h
    <3>1. /\ destroyer'[g] = destroyer[g] /\ pendingAcks'[g] = pendingAcks[g]
          /\ destroyAcks'[g] = destroyAcks[g]
          /\ ackPending'[g] = ackPending[g] /\ wire'[g] = wire[g]
      BY <1>6, <2>2 DEF SendDestroyer, TypeOK
    <3>2. created'[g] = created[g] /\ created[g] \in Nat /\ UNCHANGED <<open, send_queue>>
      BY <1>6 DEF SendDestroyer, TypeOK, queueVars
    <3>3. SendKept(g)  BY <3>1, <3>2 DEF SendKept
    <3> QED BY <3>3, <1>0
  <2> QED BY <2>1, <2>2
<1>7. ASSUME NEW h \in Host, NEW n \in pendingAcks[h], Resend(h, n) PROVE SendInv(g)'
  <2>1. wire'[g] \subseteq wire[g] \cup pendingAcks[g]
    <3>1. wire \in [Host -> SUBSET Nat]  BY DEF TypeOK
    <3>2. wire' = [wire EXCEPT ![h] = @ \cup {n}]  BY <1>7 DEF Resend
    <3> QED BY <3>1, <3>2
  <2>2. created[g] \in Nat  BY DEF TypeOK
  <2>3. SendKept(g)  BY <1>7, <2>1, <2>2 DEF Resend, SendKept, queueVars, waitVars
  <2> QED BY <2>3, <1>0
<1>8. ASSUME NEW h \in Host, NEW n \in pendingAcks[h], DropClosed(h, n) PROVE SendInv(g)'
  <2>1. CASE g = h
    <3>1. /\ pendingAcks'[h] = pendingAcks[h] \ {n} /\ ~open'[h]
          /\ UNCHANGED <<created, send_queue, destroyer, wire>>
      BY <1>8 DEF DropClosed, TypeOK, queueVars, netVars
    <3>2. Live(h)' \subseteq Live(h)  BY <3>1 DEF Live, Unacknowledged
    <3>3. IsFiniteSet(pendingAcks[h] \ {n})  BY FS_Subset DEF SendInv
    <3> QED BY <2>1, <3>1, <3>2, <3>3 DEF SendInv
  <2>2. CASE g # h
    <3>1. /\ pendingAcks'[g] = pendingAcks[g] /\ destroyAcks'[g] = destroyAcks[g]
          /\ ackPending'[g] = ackPending[g] /\ created[g] \in Nat
      BY <1>8, <2>2 DEF DropClosed, TypeOK
    <3>2. UNCHANGED <<open, created, send_queue, destroyer, wire>>
      BY <1>8 DEF DropClosed, queueVars, netVars
    <3>3. SendKept(g)  BY <3>1, <3>2 DEF SendKept
    <3> QED BY <3>3, <1>0
  <2> QED BY <2>1, <2>2
<1>9. ASSUME NEW h \in Host, NEW a \in ackWire[Peer(h)], ReceiveAck(h, a) PROVE SendInv(g)'
  <2>1. CASE g = h
    <3> DEFINE acked == Acknowledged(h, a)  P == pendingAcks[h]  D == destroyAcks[h]
    <3>1. acked \subseteq P  BY DEF Acknowledged
    <3>2. /\ send_queue'[h] = send_queue[h] /\ wire'[h] = wire[h] /\ destroyer'[h] = destroyer[h]
          /\ pendingAcks'[h] = P \ acked /\ created'[h] = created[h]
          /\ destroyAcks'[h] = D \ acked /\ open'[h] = open[h] /\ open[h]
          /\ ackPending'[h] = ackPending[h] - Cardinality(acked) /\ ackPending[h] \in Int
      BY <1>9 DEF ReceiveAck, TypeOK, queueVars, netVars
    <3>3. /\ IsFiniteSet(P) /\ Cardinality(P) \in Nat
          /\ Cardinality(P) - ackPending[h] \in 0 .. MaxMissing
          /\ Cardinality(P \ D) <= MaxNoAck + Cardinality(P) - ackPending[h]
      BY <3>2, FS_CardinalityType DEF SendInv
    <3>4. Live(h)' \subseteq Live(h)  BY <3>2 DEF Live, Unacknowledged
    <3> HIDE DEF acked, P, D
    <3>5. /\ IsFiniteSet(P \ acked)
          /\ Cardinality(P \ acked) = Cardinality(P) - Cardinality(acked)
      <4>1. P \cap acked = acked  BY <3>1
      <4>2. IsFiniteSet(P)  BY <3>3
      <4>3. /\ IsFiniteSet(P \ acked)
            /\ Cardinality(P \ acked) = Cardinality(P) - Cardinality(P \cap acked)
        BY <4>2, FS_Difference
      <4> QED BY <4>1, <4>3
    <3>6. Cardinality((P \ acked) \ (D \ acked))
            <= MaxNoAck + Cardinality(P) - ackPending[h]
      <4>1. IsFiniteSet(P \ D) /\ (P \ acked) \ (D \ acked) \subseteq P \ D
        BY <3>3, FS_Subset
      <4>2. /\ Cardinality((P \ acked) \ (D \ acked)) <= Cardinality(P \ D)
            /\ IsFiniteSet((P \ acked) \ (D \ acked))
        BY <4>1, FS_Subset
      <4>3. Cardinality((P \ acked) \ (D \ acked)) \in Nat /\ Cardinality(P \ D) \in Nat
        BY <4>1, <4>2, FS_CardinalityType
      <4> QED BY <3>3, <4>2, <4>3, NumberAssumption
    <3>7. Cardinality(acked) \in Nat  BY <3>1, <3>3, FS_Subset, FS_CardinalityType
    <3>8. Cardinality(P \ acked) - ackPending'[h] = Cardinality(P) - ackPending[h]
      BY <3>2, <3>3, <3>5, <3>7
    <3>9. MaxNoAck + Cardinality(P \ acked) - ackPending'[h]
            = MaxNoAck + Cardinality(P) - ackPending[h]
      BY <3>2, <3>3, <3>5, <3>7, NumberAssumption
    <3> QED BY <2>1, <3>2, <3>3, <3>4, <3>5, <3>6, <3>8, <3>9 DEF SendInv, P
  <2>2. CASE g # h
    <3>1. SendKept(g)  BY <1>9, <2>2 DEF ReceiveAck, SendKept, TypeOK, queueVars, netVars
    <3> QED BY <3>1, <1>0
  <2> QED BY <2>1, <2>2
<1>10. CASE /\ UNCHANGED <<open, created, waitVars, ackPending>>
            /\ \A h \in Host : wire'[h] \subseteq wire[h]
  <2>1. SendKept(g)  BY <1>10 DEF SendKept, TypeOK, waitVars
  <2> QED BY <2>1, <1>0
<1>11. ASSUME NEW h \in Host, Send(h) PROVE SendInv(g)'
  <2>1. ASSUME NEW n \in send_queue[h], Overflow(h, n) PROVE SendInv(g)'
    BY <2>1, <1>4 DEF Overflow
  <2>2. ASSUME NEW a \in ackQueue[h], ExecuteAck(h, a) PROVE SendInv(g)'
    BY <2>2, <1>10 DEF ExecuteAck, queueVars, sendVars
  <2>3. CASE SendAcks(h)  BY <2>3, <1>10 DEF SendAcks, queueVars, sendVars
  <2>4. ASSUME NEW n \in pendingAcks[h], KillTimeout(h, n) PROVE SendInv(g)'
    BY <2>4, <1>4 DEF KillTimeout
  <2>5. ASSUME NEW n \in pendingAcks[h], KillClosed(h, n) PROVE SendInv(g)'
    BY <2>5, <1>10 DEF KillClosed, queueVars, netVars
  <2> QED BY <1>11, <2>1, <2>2, <2>3, <2>4, <2>5, <1>5, <1>6, <1>7, <1>8 DEF Send
<1>12. ASSUME NEW h \in Host, Receive(h) PROVE SendInv(g)'
  <2>1. ASSUME NEW n \in wire[Peer(h)], ReceiveMessage(h, n) PROVE SendInv(g)'
    BY <2>1, <1>10 DEF ReceiveMessage, queueVars, sendVars, netVars
  <2> QED BY <1>12, <2>1, <1>4, <1>9 DEF Receive, ReceiveFarewell
<1>13. ASSUME NEW h \in Host, Lose(h) PROVE SendInv(g)'
  <2>1. \A k \in Host : wire'[k] \subseteq wire[k]
    <3>1. wire' = wire \/ \E n : wire' = [wire EXCEPT ![h] = @ \ {n}]  BY <1>13 DEF Lose
    <3>2. wire \in [Host -> SUBSET Nat]  BY DEF TypeOK
    <3> QED BY <3>1, <3>2
  <2> QED BY <1>13, <2>1, <1>10 DEF Lose, queueVars, sendVars
<1>14. ASSUME NEW h \in Host, Tick(h) PROVE SendInv(g)'
  BY <1>14, <1>10 DEF Tick, TimePasses, queueVars, netVars
<1>15. ASSUME NEW h \in Host, Disconnect(h) PROVE SendInv(g)'
  BY <1>15, <1>4 DEF Disconnect
<1>16. CASE UNCHANGED vars  BY <1>16, <1>10 DEF vars, queueVars, sendVars, netVars
<1> QED BY <1>1, <1>2, <1>3, <1>11, <1>12, <1>13, <1>14, <1>15, <1>16 DEF Next

(* The types of all variables hold in every reachable state.               *)
THEOREM TypeCorrect == Spec => []TypeOK
<1>1. WindowInv => TypeOK  BY DEF WindowInv
<1> QED BY <1>1, WindowInit, WindowStep, PTL DEF Spec

(* While a connection lasts the counter sn_SendPlanned1 goes by misses no  *)
(* more entries than it may have missed at first and counts none too many, *)
(* whatever sn_SendDestroyer sends past it; and no more than sn_maxNoAck   *)
(* messages other than destroy messages wait for an acknowledgement, but   *)
(* for those it misses, for every sn_maxNoAck.                             *)
THEOREM AckWindowCorrect == Spec => []AckWindow
<1>1. WindowInv => AckWindow  BY DEF WindowInv, SendInv, AckWindow
<1> QED BY <1>1, WindowInit, WindowStep, PTL DEF Spec

-----------------------------------------------------------------------------
(* The invariant, for the messages of h to its peer.                       *)

(* What waits or travels is recent, and was handed to Send.                *)
LiveInv(h) ==
  /\ Start[h] <= created[h]
  /\ Live(h) \subseteq submitted[h]
  /\ \A n \in Live(h) : Start[h] < n /\ n <= created[h] /\ created[h] - n < Lag

(* What was handled was created in this connection, once, and no message   *)
(* was handled long after a newer one.                                     *)
HandledInv(h) ==
  LET got == handled[Peer(h)] IN
  /\ \A i \in 1 .. Len(got) : Start[h] < got[i] /\ got[i] <= created[h]
  /\ \A i, j \in 1 .. Len(got) : i < j => got[i] < got[j] + Lag
  /\ \A i, j \in 1 .. Len(got) : got[i] = got[j] => i = j

(* highest_ack is the id of the newest message received, which is not far  *)
(* behind the newest one created.                                          *)
HighIs(h, k) ==
  \/ highest_ack[Peer(h)] = MessageID(k)
  \/ h = Client /\ k = Start[Client] /\ highest_ack[Peer(h)] = 0

FrontInv(h) == \E k \in Nat :
  IsNewest(h, k) /\ created[h] - k < Gap /\ (open[Peer(h)] => HighIs(h, k))

(* The ring ends with the last messages handled, and no id in it has come  *)
(* round.                                                                  *)
RingInv(h) ==
  LET ring == lastacks[Peer(h)]
      got == handled[Peer(h)]
  IN  /\ Len(ring) <= AckBack
      /\ \A m \in RangeOf(ring) :
            1 <= m /\ m <= created[h] /\ created[h] - m < Cycle
            /\ m \in RangeOf(got) \cup {Start[h]}
      /\ open[Peer(h)] => \A j \in 0 .. Len(got) - 1 : j < AckBack =>
            j < Len(ring) /\ ring[Len(ring) - j] = got[Len(got) - j]

(* Only what was handled is acknowledged.                                  *)
AckInv(h) == \A m \in OwedAcks(Peer(h)) :
  m \in RangeOf(handled[Peer(h)]) /\ created[h] - m < AckLag

(* What an open end does not wait for was handled.                         *)
LostInv(h) ==
  open[h] => submitted[h] \subseteq Unacknowledged(h) \cup RangeOf(handled[Peer(h)])

DeliveryInv(h) ==
  LiveInv(h) /\ HandledInv(h) /\ FrontInv(h) /\ RingInv(h) /\ AckInv(h) /\ LostInv(h)

-----------------------------------------------------------------------------
(* The size of an interval of integers.                                    *)
LEMMA IntervalSize ==
  ASSUME NEW a \in Int, NEW b \in Int, a <= b + 1
  PROVE  IsFiniteSet(a .. b) /\ Cardinality(a .. b) = b - a + 1
BY FS_Interval

(* The ring is long enough: of the messages handled after the i-th one,    *)
(* all different and all less than lag away from it, there are few.        *)
LEMMA FewAfter ==
  ASSUME NEW s \in Seq(Nat), NEW i \in 1 .. Len(s), NEW lag \in Nat, NEW c \in Nat,
         \A j \in 1 .. Len(s) : i < j => s[i] < s[j] + lag,
         \A j \in 1 .. Len(s) : s[j] <= c,
         \A j, k \in 1 .. Len(s) : s[j] = s[k] => j = k,
         c - s[i] < lag
  PROVE  Len(s) - i <= 2 * lag - 2
<1> DEFINE m == s[i]
           I == i + 1 .. Len(s)
           J == m - lag + 1 .. c
           f == [j \in I |-> s[j]]
<1>1. Len(s) \in Nat /\ m \in Nat /\ i \in Nat /\ lag >= 1 /\ m <= c  OBVIOUS
<1>2. f \in Injection(I, J \ {m})
  <2>1. \A j \in I : s[j] \in J \ {m}
    <3>1. \A j \in I : j \in 1 .. Len(s) /\ i < j  BY <1>1
    <3>2. \A j \in I : s[j] \in Nat /\ s[j] # m  BY <1>1, <3>1
    <3>3. \A j \in I : m - lag < s[j] /\ s[j] <= c  BY <1>1, <3>1, <3>2
    <3> QED BY <1>1, <3>2, <3>3
  <2>2. \A j, k \in I : s[j] = s[k] => j = k  BY <1>1
  <2> QED BY <2>1, <2>2 DEF Injection, IsInjective
<1>3. c - m < lag  OBVIOUS
<1> HIDE DEF f, m
<1>4. IsFiniteSet(J) /\ Cardinality(J) = c - m + lag
  <2> DEFINE low == m - lag + 1
  <2>1. low \in Int /\ c \in Int /\ low <= c + 1  BY <1>1
  <2>2. c - low + 1 = c - m + lag  BY <1>1
  <2> HIDE DEF low
  <2>3. IsFiniteSet(low .. c) /\ Cardinality(low .. c) = c - low + 1
    BY <2>1, IntervalSize
  <2> QED BY <2>2, <2>3 DEF low
<1>5. m \in J  BY <1>1
<1>6. IsFiniteSet(I) /\ Cardinality(I) = Len(s) - i
  <2>1. i + 1 \in Int /\ Len(s) \in Int /\ i + 1 <= Len(s) + 1  BY <1>1
  <2>2. IsFiniteSet(I) /\ Cardinality(I) = Len(s) - (i + 1) + 1  BY <2>1, IntervalSize
  <2> QED BY <2>2, <1>1
<1> HIDE DEF I, J
<1>7. IsFiniteSet(J \ {m}) /\ Cardinality(J \ {m}) = c - m + lag - 1
  <2>1. IsFiniteSet(J \ {m}) /\ Cardinality(J \ {m}) = Cardinality(J) - 1
    BY <1>4, <1>5, FS_RemoveElement
  <2> QED BY <1>1, <1>4, <2>1
<1>8. Cardinality(I) <= Cardinality(J \ {m})
  <2> DEFINE rest == J \ {m}
  <2>1. f \in Injection(I, rest) /\ IsFiniteSet(rest)  BY <1>2, <1>7
  <2> HIDE DEF rest
  <2>2. Cardinality(I) <= Cardinality(rest)  BY <2>1, FS_Injection
  <2> QED BY <2>2 DEF rest
<1>9. Len(s) - i <= c - m + lag - 1  BY <1>6, <1>7, <1>8
<1> QED BY <1>1, <1>3, <1>9

-----------------------------------------------------------------------------
(* What the window and the ring tell the receiver of a message n of h.     *)

(* n is ahead of all messages received: it is taken for new.               *)
LEMMA AheadOfFront ==
  ASSUME WideWindow, TypeOK, NEW h \in Host, NEW k \in Nat, NEW n \in Nat,
         HighIs(h, k), Start[h] <= k, k < n, n <= created[h], created[h] - k < Gap
  PROVE  SurelyNew(MessageID(n), highest_ack[Peer(h)])
<1>1. Start[h] \in Nat \ {0} /\ created[h] \in Nat  BY BoundAssumption DEF TypeOK
<1>2. Gap \in Nat /\ k \in Nat \ {0} /\ n \in Nat \ {0}  BY <1>1, NumberAssumption
<1>3. CASE highest_ack[Peer(h)] = MessageID(k)
  <2>1. n - k + Reserved + 1 < NewWindow  BY <1>1, <1>2, IdAssumption DEF WideWindow
  <2> QED BY <2>1, <1>2, <1>3, AheadIsNew
<1>4. CASE h = Client /\ k = Start[Client] /\ highest_ack[Peer(h)] = 0
  <2>1. n + Reserved < NewWindow  BY <1>1, <1>2, <1>4, IdAssumption DEF WideWindow
  <2> QED BY <2>1, <1>2, <1>4, FirstIsNew
<1> QED BY <1>3, <1>4 DEF HighIs

(* n is not ahead: the window alone does not take it for new.              *)
LEMMA BehindFront ==
  ASSUME WideWindow, TypeOK, NEW h \in Host, NEW k \in Nat, NEW n \in Nat,
         HighIs(h, k), Start[h] < n, n <= k, k <= created[h], created[h] - n < Lag
  PROVE  ~SurelyNew(MessageID(n), highest_ack[Peer(h)])
<1>1. Start[h] \in Nat \ {0} /\ created[h] \in Nat  BY BoundAssumption DEF TypeOK
<1>2. Lag \in Nat /\ AckLag \in Nat /\ k \in Nat \ {0} /\ n \in Nat \ {0}  BY <1>1, NumberAssumption
<1>3. highest_ack[Peer(h)] = MessageID(k)  BY <1>1 DEF HighIs
<1>4. Cycle \in Nat  BY CycleType
<1>5. k - n < Cycle /\ k - n + 1 + Reserved + NewWindow <= IdSpace
  BY <1>1, <1>2, <1>4, IdAssumption DEF WideWindow
<1> QED BY <1>2, <1>3, <1>5, BehindIsNotSurelyNew

(* A message handled before is still in the ring.                          *)
LEMMA HandledIsRemembered ==
  ASSUME WideWindow, TypeOK, NEW h \in Host, DeliveryInv(h), open[Peer(h)],
         NEW n \in Live(h), n \in RangeOf(handled[Peer(h)])
  PROVE  Remembered(Peer(h), n)
<1> DEFINE g == Peer(h)
           got == handled[g]
           ring == lastacks[g]
<1>1. g \in Host  BY PeerType
<1>2. got \in Seq(Nat) /\ ring \in Seq(Nat) /\ created[h] \in Nat  BY <1>1 DEF TypeOK
<1>3. PICK i \in 1 .. Len(got) : got[i] = n  BY DEF RangeOf
<1>4. Lag \in Nat /\ AckBack \in Nat  BY NumberAssumption
<1>5. created[h] - got[i] < Lag  BY <1>3 DEF DeliveryInv, LiveInv
<1>6. /\ \A j \in 1 .. Len(got) : i < j => got[i] < got[j] + Lag
      /\ \A j \in 1 .. Len(got) : got[j] <= created[h]
      /\ \A j, k \in 1 .. Len(got) : got[j] = got[k] => j = k
  BY DEF DeliveryInv, HandledInv
<1>7. Len(got) - i <= 2 * Lag - 2  BY <1>2, <1>4, <1>5, <1>6, FewAfter
<1> DEFINE j == Len(got) - i
<1>8. j \in 0 .. Len(got) - 1 /\ j < AckBack
  <2>1. 2 * Lag <= AckBack + 1  BY DEF WideWindow
  <2>2. Len(got) \in Nat  BY <1>2
  <2> HIDE DEF got
  <2> QED BY <2>1, <2>2, <1>4, <1>7
<1>9. j < Len(ring) /\ ring[Len(ring) - j] = got[Len(got) - j]
  BY <1>8 DEF DeliveryInv, RingInv
<1>10. Len(got) - j = i /\ Len(ring) - j \in 1 .. Len(ring)
  <2>1. Len(got) \in Nat /\ Len(ring) \in Nat  BY <1>2
  <2>2. \A x, y \in Nat : x - (x - y) = y  OBVIOUS
  <2>3. \A x, y \in Nat : y < x => x - y \in 1 .. x  OBVIOUS
  <2>4. j \in Nat /\ i \in Nat  BY <1>8, <2>1
  <2> HIDE DEF got, ring
  <2>5. Len(got) - j = i  BY <2>1, <2>2, <2>4
  <2> HIDE DEF j
  <2>6. Len(ring) - j \in 1 .. Len(ring)  BY <2>1, <2>3, <2>4, <1>9
  <2> QED BY <2>5, <2>6
<1>11. n \in RangeOf(ring)  BY <1>3, <1>9, <1>10 DEF RangeOf
<1> QED BY <1>11 DEF Remembered

(* A message not handled before has no id that is in the ring.             *)
LEMMA UnhandledIsNotRemembered ==
  ASSUME WideWindow, TypeOK, NEW h \in Host, DeliveryInv(h),
         NEW n \in Live(h), n \notin RangeOf(handled[Peer(h)])
  PROVE  ~Remembered(Peer(h), n)
<1>1. Start[h] \in Nat \ {0} /\ created[h] \in Nat /\ Cycle \in Nat /\ Lag \in Nat /\ AckLag \in Nat
  BY BoundAssumption, CycleType, NumberAssumption DEF TypeOK
<1>2. n \in Nat /\ Start[h] < n /\ n <= created[h] /\ created[h] - n < Cycle
  <2>1. n \in Nat  BY DEF Live, Unacknowledged, TypeOK
  <2>2. Start[h] < n /\ n <= created[h] /\ created[h] - n < Lag  BY DEF DeliveryInv, LiveInv
  <2>3. Lag <= Cycle  BY <1>1 DEF WideWindow
  <2> QED BY <1>1, <2>1, <2>2, <2>3
<1>3. ASSUME NEW m \in RangeOf(lastacks[Peer(h)]) PROVE MessageID(m) # MessageID(n)
  <2>1. m \in Nat  BY PeerType, RangeType DEF TypeOK
  <2>2. 1 <= m /\ m <= created[h] /\ created[h] - m < Cycle /\ m # n
    BY <1>2, <1>1 DEF DeliveryInv, RingInv
  <2>3. m - n < Cycle /\ n - m < Cycle  BY <1>1, <1>2, <2>1, <2>2
  <2> QED BY <1>1, <1>2, <2>1, <2>2, <2>3, DistinctIDs
<1> QED BY <1>3 DEF Remembered

-----------------------------------------------------------------------------
(* Steps.                                                                  *)

(* A step that is not about the messages of h: it drops copies, entries    *)
(* and acknowledgements, it closes an end, or it forgets handled messages. *)
DirectionKept(h) ==
  LET g == Peer(h) IN
  /\ created'[h] = created[h] /\ handled'[g] = handled[g] /\ submitted'[h] = submitted[h]
  /\ Live(h)' \subseteq Live(h) /\ OwedAcks(g)' \subseteq OwedAcks(g)
  /\ \/ lastacks'[g] = lastacks[g] /\ highest_ack'[g] = highest_ack[g] /\ open'[g] = open[g]
     \/ lastacks'[g] = <<>> /\ ~open'[g]
  /\ \/ /\ open'[h] = open[h]
        /\ Unacknowledged(h) \subseteq Unacknowledged(h)' \cup RangeOf(handled[g])
     \/ ~open'[h]

(* Such a step keeps the invariant.                                        *)
LEMMA DirectionFrame ==
  ASSUME NEW h \in Host, DeliveryInv(h), DirectionKept(h)
  PROVE  DeliveryInv(h)'
<1> DEFINE g == Peer(h)
<1>1. LiveInv(h)'  BY DEF DeliveryInv, LiveInv, DirectionKept
<1>2. HandledInv(h)'  BY DEF DeliveryInv, HandledInv, DirectionKept
<1>3. FrontInv(h)'
  BY DEF DeliveryInv, FrontInv, DirectionKept, IsNewest, HighIs
<1>4. RingInv(h)'
  <2>1. CASE lastacks'[g] = lastacks[g] /\ open'[g] = open[g]
    BY <2>1 DEF DeliveryInv, RingInv, DirectionKept
  <2>2. CASE lastacks'[g] = <<>> /\ ~open'[g]
    BY <2>2, NumberAssumption DEF RingInv, RangeOf
  <2> QED BY <2>1, <2>2 DEF DirectionKept
<1>5. AckInv(h)'  BY DEF DeliveryInv, AckInv, DirectionKept
<1>6. LostInv(h)'  BY DEF DeliveryInv, LostInv, DirectionKept
<1> QED BY <1>1, <1>2, <1>3, <1>4, <1>5, <1>6 DEF DeliveryInv

(* Counting on while the network keeps up.                                 *)
LEMMA CountStep ==
  ASSUME WideWindow, TypeOK, NEW h \in Host, DeliveryInv(h),
         Create(h) \/ CreateDestroyer(h) \/ SkipID(h)
  PROVE  DeliveryInv(h)'
<1> DEFINE g == Peer(h)
           c == created[h] + 1
<1>1. /\ created[h] \in Nat /\ Start[h] \in Nat /\ c \in Nat /\ Lag \in Nat /\ Gap \in Nat
      /\ handled[g] \in Seq(Nat) /\ lastacks[g] \in Seq(Nat)
  <2>1. g \in Host  BY PeerType
  <2>2. created[h] \in Nat  BY DEF TypeOK
  <2>3. handled[g] \in Seq(Nat) /\ lastacks[g] \in Seq(Nat)  BY <2>1 DEF TypeOK
  <2>4. Start[h] \in Nat /\ Lag \in Nat /\ Gap \in Nat
    BY BoundAssumption, NumberAssumption
  <2> QED BY <2>2, <2>3, <2>4
<1>2. /\ created'[h] = c /\ NetworkKeepsUp(h)
      /\ UNCHANGED <<open, lastacks, highest_ack, handled, OwedAcks(g), pendingAcks, wire>>
  BY DEF Create, CreateDestroyer, SkipID, OwedAcks, TypeOK, recvVars, netVars, sendVars, waitVars
<1>3. \/ Unacknowledged(h)' = Unacknowledged(h) \cup {c} /\ submitted'[h] = submitted[h] \cup {c}
      \/ Unacknowledged(h)' = Unacknowledged(h) /\ UNCHANGED submitted
  <2>1. CASE Create(h)
    <3>1. /\ send_queue \in [Host -> SUBSET Nat] /\ submitted \in [Host -> SUBSET Nat]
          /\ created'[h] = c
      BY <1>2 DEF TypeOK
    <3>2. /\ send_queue' = [send_queue EXCEPT ![h] = @ \cup {created'[h]}]
          /\ submitted' = [submitted EXCEPT ![h] = @ \cup {created'[h]}]
          /\ UNCHANGED <<destroyer, pendingAcks>>
      BY <2>1 DEF Create
    <3>3. submitted'[h] = submitted[h] \cup {c} /\ send_queue'[h] = send_queue[h] \cup {c}
      BY <3>1, <3>2
    <3> QED BY <3>2, <3>3 DEF Unacknowledged
  <2>2. CASE CreateDestroyer(h)
    <3>1. /\ destroyer \in [Host -> SUBSET Nat] /\ submitted \in [Host -> SUBSET Nat]
          /\ created'[h] = c
      BY <1>2 DEF TypeOK
    <3>2. /\ destroyer' = [destroyer EXCEPT ![h] = {created'[h]}] /\ destroyer[h] = {}
          /\ submitted' = [submitted EXCEPT ![h] = @ \cup {created'[h]}]
          /\ UNCHANGED <<send_queue, pendingAcks>>
      BY <2>2 DEF CreateDestroyer
    <3>3. submitted'[h] = submitted[h] \cup {c} /\ destroyer'[h] = destroyer[h] \cup {c}
      BY <3>1, <3>2
    <3> QED BY <3>2, <3>3 DEF Unacknowledged
  <2>3. CASE SkipID(h)
    BY <2>3 DEF SkipID, sendVars, waitVars, Unacknowledged
  <2> QED BY <2>1, <2>2, <2>3
<1>4. LiveInv(h)'
  <2>1. \A n \in Live(h) : n \in Nat /\ Start[h] < n /\ n <= created[h] /\ c - n < Lag
    <3>1. Live(h) \subseteq Nat  BY DEF Live, Unacknowledged, TypeOK
    <3> QED BY <1>2, <3>1 DEF DeliveryInv, LiveInv, NetworkKeepsUp
  <2>2. Start[h] <= created[h]  BY DEF DeliveryInv, LiveInv
  <2>3. Live(h)' \subseteq submitted'[h]
    <3>1. Live(h) \subseteq submitted[h]  BY DEF DeliveryInv, LiveInv
    <3> QED BY <1>2, <1>3, <3>1 DEF Live
  <2>4. \A n \in Live(h)' : Start[h] < n /\ n <= c /\ c - n < Lag
    <3>1. \A n \in Live(h)' : n \in Live(h) \/ n = c  BY <1>2, <1>3 DEF Live
    <3> QED BY <1>1, <2>1, <2>2, <3>1 DEF WideWindow
  <2> QED BY <1>1, <1>2, <2>2, <2>3, <2>4 DEF LiveInv
<1>5. HandledInv(h)'
  <2>1. \A i \in 1 .. Len(handled[g]) : handled[g][i] \in Nat  BY <1>1
  <2>2. handled'[g] = handled[g]  BY <1>2
  <2>3. HandledInv(h)  BY DEF DeliveryInv
  <2>4. \A i \in 1 .. Len(handled[g]) : handled[g][i] <= created'[h]
    <3>1. \A i \in 1 .. Len(handled[g]) : handled[g][i] <= created[h]  BY <2>3 DEF HandledInv
    <3> QED BY <1>1, <1>2, <2>1, <3>1
  <2> QED BY <2>2, <2>3, <2>4 DEF HandledInv
<1>6. FrontInv(h)'
  <2>1. PICK k \in Nat : IsNewest(h, k) /\ (open[g] => HighIs(h, k))
    BY DEF DeliveryInv, FrontInv
  <2>2. c - k < Gap  BY <1>2, <2>1 DEF NetworkKeepsUp, IsNewest
  <2>3. IsNewest(h, k)' /\ (open'[g] => HighIs(h, k)')
    BY <1>2, <2>1 DEF IsNewest, HighIs
  <2> QED BY <1>2, <2>2, <2>3 DEF FrontInv
<1>7. RingInv(h)'
  <2>1. \A m \in RangeOf(lastacks[g]) :
           m \in Nat /\ 1 <= m /\ m <= created[h] /\ c - m < Cycle
           /\ m \in RangeOf(handled[g]) \cup {Start[h]}
    BY <1>1, <1>2, RangeType DEF DeliveryInv, RingInv, NetworkKeepsUp
  <2>2. lastacks'[g] = lastacks[g] /\ handled'[g] = handled[g] /\ open'[g] = open[g]  BY <1>2
  <2>3. \A m \in RangeOf(lastacks[g]) : m <= c  BY <1>1, <2>1
  <2> QED BY <1>1, <1>2, <2>1, <2>2, <2>3 DEF DeliveryInv, RingInv
<1>8. AckInv(h)'
  <2>1. \A m \in OwedAcks(g) : m \in RangeOf(handled[g]) /\ c - m < AckLag
    BY <1>2 DEF DeliveryInv, AckInv, NetworkKeepsUp
  <2> QED BY <1>2, <2>1 DEF AckInv
<1>9. LostInv(h)'
  BY <1>2, <1>3 DEF DeliveryInv, LostInv
<1> QED BY <1>4, <1>5, <1>6, <1>7, <1>8, <1>9 DEF DeliveryInv

(* The ring after a push: the pushed message is last, the others move up.  *)
LEMMA PushedRing ==
  ASSUME NEW ring \in Seq(Nat), NEW n \in Nat, Len(ring) <= AckBack
  PROVE  /\ Push(ring, n) \in Seq(Nat)
         /\ Len(Push(ring, n)) = IF Len(ring) < AckBack THEN Len(ring) + 1 ELSE AckBack
         /\ Len(Push(ring, n)) <= AckBack
         /\ RangeOf(Push(ring, n)) \subseteq RangeOf(ring) \cup {n}
         /\ Push(ring, n)[Len(Push(ring, n))] = n
         /\ \A j \in 1 .. Len(Push(ring, n)) - 1 :
              Push(ring, n)[Len(Push(ring, n)) - j] = ring[Len(ring) - (j - 1)]
<1>1. AckBack \in Nat \ {0} /\ Len(ring) \in Nat  BY NumberAssumption
<1>2. CASE Len(ring) < AckBack
  <2>1. Push(ring, n) = Append(ring, n)  BY <1>2 DEF Push
  <2>2. Len(Append(ring, n)) = Len(ring) + 1 /\ Append(ring, n) \in Seq(Nat)  OBVIOUS
  <2>3. /\ Append(ring, n)[Len(ring) + 1] = n
        /\ \A i \in 1 .. Len(ring) : Append(ring, n)[i] = ring[i]
    OBVIOUS
  <2>4. RangeOf(Append(ring, n)) \subseteq RangeOf(ring) \cup {n}
    BY <1>1, <2>2, <2>3 DEF RangeOf
  <2>5. \A j \in 1 .. Len(ring) : Append(ring, n)[Len(ring) + 1 - j] = ring[Len(ring) - (j - 1)]
    <3>1. \A j \in 1 .. Len(ring) :
             Len(ring) + 1 - j \in 1 .. Len(ring) /\ Len(ring) + 1 - j = Len(ring) - (j - 1)
      BY <1>1
    <3> QED BY <3>1, <2>3
  <2> QED BY <1>1, <1>2, <2>1, <2>2, <2>3, <2>4, <2>5
<1>3. CASE ~(Len(ring) < AckBack)
  <2>0. Len(ring) = AckBack  BY <1>1, <1>3
  <2> DEFINE rest == Tail(ring)
  <2>1. Push(ring, n) = Append(rest, n)  BY <1>3 DEF Push
  <2>2. /\ rest \in Seq(Nat) /\ Len(rest) = AckBack - 1
        /\ \A i \in 1 .. AckBack - 1 : rest[i] = ring[i + 1]
    BY <1>1, <2>0
  <2> HIDE DEF rest
  <2>3. /\ Append(rest, n) \in Seq(Nat) /\ Len(Append(rest, n)) = AckBack
        /\ Append(rest, n)[AckBack] = n
        /\ \A i \in 1 .. AckBack - 1 : Append(rest, n)[i] = ring[i + 1]
    BY <1>1, <2>2
  <2>4. RangeOf(Append(rest, n)) \subseteq RangeOf(ring) \cup {n}
    BY <1>1, <2>0, <2>3 DEF RangeOf
  <2>5. \A j \in 1 .. AckBack - 1 : Append(rest, n)[AckBack - j] = ring[AckBack - (j - 1)]
    <3>1. SUFFICES ASSUME NEW j \in 1 .. AckBack - 1
                   PROVE  Append(rest, n)[AckBack - j] = ring[AckBack - (j - 1)]
      OBVIOUS
    <3> DEFINE i == AckBack - j
    <3>2. i \in 1 .. AckBack - 1 /\ i + 1 = AckBack - (j - 1)  BY <1>1
    <3> HIDE DEF i
    <3>3. Append(rest, n)[i] = ring[i + 1]  BY <3>2, <2>3
    <3> QED BY <3>2, <3>3 DEF i
  <2> QED BY <1>1, <1>3, <2>0, <2>1, <2>3, <2>4, <2>5
<1> QED BY <1>2, <1>3

(* An arriving message: new exactly when it was not handled before, and    *)
(* ahead of highest_ack exactly when it is the newest.                     *)
LEMMA ArrivalJudged ==
  ASSUME WideWindow, TypeOK, NEW h \in Host, DeliveryInv(h), open[Peer(h)],
         NEW n \in wire[h], NEW k \in Nat,
         IsNewest(h, k), created[h] - k < Gap, HighIs(h, k)
  PROVE  /\ IsNew(Peer(h), n) <=> n \notin RangeOf(handled[Peer(h)])
         /\ SurelyNew(MessageID(n), highest_ack[Peer(h)]) <=> k < n
<1> DEFINE g == Peer(h)
<1>1. n \in Live(h) /\ n \in Nat /\ created[h] \in Nat /\ Start[h] \in Nat
  BY BoundAssumption DEF Live, TypeOK
<1>2. Start[h] < n /\ n <= created[h] /\ created[h] - n < Lag  BY <1>1 DEF DeliveryInv, LiveInv
<1>3. Start[h] <= k /\ k <= created[h]
  BY <1>1 DEF IsNewest, DeliveryInv, HandledInv, LiveInv, RangeOf
<1>4. k < n => SurelyNew(MessageID(n), highest_ack[g])
  BY <1>1, <1>2, <1>3, AheadOfFront
<1>5. n <= k => ~SurelyNew(MessageID(n), highest_ack[g])
  BY <1>1, <1>2, <1>3, BehindFront
<1>6. n \in RangeOf(handled[g]) => n <= k  BY DEF IsNewest
<1>7. n \in RangeOf(handled[g]) => Remembered(g, n)  BY <1>1, HandledIsRemembered
<1>8. n \notin RangeOf(handled[g]) => ~Remembered(g, n)  BY <1>1, UnhandledIsNotRemembered
<1>9. k < n \/ n <= k  BY <1>1
<1> QED BY <1>1, <1>4, <1>5, <1>6, <1>7, <1>8, <1>9 DEF IsNew

(* The acknowledgements owed after an arrival.                             *)
LEMMA ArrivalAcked ==
  ASSUME TypeOK, NEW g \in Host, NEW n \in Nat, ReceiveMessage(g, n)
  PROVE  OwedAcks(g)' \subseteq OwedAcks(g) \cup {n}
<1> DEFINE acks == Append(ackMess[g], n)
<1>1. ackMess[g] \in Seq(Nat)  BY DEF TypeOK
<1>2. RangeOf(acks) \subseteq RangeOf(ackMess[g]) \cup {n}
  <2>1. Len(acks) = Len(ackMess[g]) + 1  BY <1>1
  <2>2. \A i \in 1 .. Len(ackMess[g]) : acks[i] = ackMess[g][i]  BY <1>1
  <2>3. acks[Len(ackMess[g]) + 1] = n  BY <1>1
  <2>4. Len(ackMess[g]) \in Nat  BY <1>1
  <2> HIDE DEF acks
  <2> QED BY <2>1, <2>2, <2>3, <2>4 DEF RangeOf
<1>3. ackWire'[g] = ackWire[g]  BY DEF ReceiveMessage, netVars
<1> HIDE DEF acks
<1>4. \/ ackMess'[g] = <<>> /\ ackQueue'[g] = ackQueue[g] \cup {RangeOf(acks)}
      \/ ackMess'[g] = acks /\ ackQueue'[g] = ackQueue[g]
  BY DEF ReceiveMessage, AddAck, TypeOK, acks
<1>5. RangeOf(<<>>) = {}  BY DEF RangeOf
<1> QED BY <1>2, <1>3, <1>4, <1>5 DEF OwedAcks

(* A new message is handled, once, and remembered.                         *)
LEMMA ArrivalStep ==
  ASSUME WideWindow, TypeOK, NEW h \in Host, DeliveryInv(h),
         NEW n \in wire[h], ReceiveMessage(Peer(h), n)
  PROVE  DeliveryInv(h)'
<1> DEFINE g == Peer(h)
           got == handled[g]
           ring == lastacks[g]
<1>1. /\ g \in Host /\ open[g] /\ n \in Live(h) /\ n \in Nat /\ created[h] \in Nat
      /\ got \in Seq(Nat) /\ ring \in Seq(Nat) /\ Start[h] \in Nat
      /\ Lag \in Nat /\ AckLag \in Nat /\ Gap \in Nat /\ AckBack \in Nat /\ Cycle \in Nat
  <2>1. g \in Host  BY PeerType
  <2>2. got \in Seq(Nat) /\ ring \in Seq(Nat) /\ created[h] \in Nat  BY <2>1 DEF TypeOK
  <2>3. open[g] /\ n \in Live(h)  BY <2>1, PeerType DEF ReceiveMessage, Live
  <2>4. n \in Nat  BY DEF TypeOK
  <2>5. /\ Start[h] \in Nat /\ Lag \in Nat /\ AckLag \in Nat /\ Gap \in Nat
        /\ AckBack \in Nat /\ Cycle \in Nat
    BY BoundAssumption, NumberAssumption, CycleType
  <2> QED BY <2>1, <2>2, <2>3, <2>4, <2>5
<1>2. Start[h] < n /\ n <= created[h] /\ created[h] - n < Lag  BY <1>1 DEF DeliveryInv, LiveInv
<1>3. PICK k \in Nat : IsNewest(h, k) /\ created[h] - k < Gap /\ HighIs(h, k)
  BY <1>1 DEF DeliveryInv, FrontInv
<1>4. /\ IsNew(g, n) <=> n \notin RangeOf(got)
      /\ SurelyNew(MessageID(n), highest_ack[g]) <=> k < n
  BY <1>1, <1>3, ArrivalJudged
<1>5. OwedAcks(g)' \subseteq OwedAcks(g) \cup {n}  BY <1>1, ArrivalAcked
<1>6. /\ UNCHANGED <<open, created, submitted>> /\ Live(h)' = Live(h)
      /\ Unacknowledged(h)' = Unacknowledged(h)
      /\ highest_ack'[g] = IF k < n THEN MessageID(n) ELSE highest_ack[g]
  BY <1>1, <1>4 DEF ReceiveMessage, TypeOK, queueVars, sendVars, waitVars, netVars, Live,
                    Unacknowledged
<1>7. /\ n \in RangeOf(got) => handled'[g] = got /\ lastacks'[g] = ring
      /\ n \notin RangeOf(got) => handled'[g] = Append(got, n) /\ lastacks'[g] = Push(ring, n)
  BY <1>1, <1>4 DEF ReceiveMessage, Handle, TypeOK
<1>8. RangeOf(handled'[g]) = RangeOf(got) \cup {n}
  <2>1. CASE n \in RangeOf(got)  BY <2>1, <1>7
  <2>2. CASE n \notin RangeOf(got)
    <3>1. Len(Append(got, n)) = Len(got) + 1 /\ Len(got) \in Nat  BY <1>1
    <3>2. /\ \A i \in 1 .. Len(got) : Append(got, n)[i] = got[i]
          /\ Append(got, n)[Len(got) + 1] = n
      BY <1>1
    <3>3. \A i \in 1 .. Len(got) + 1 : i \in 1 .. Len(got) \/ i = Len(got) + 1  BY <3>1
    <3>4. RangeOf(Append(got, n)) = RangeOf(got) \cup {n}
      BY <3>1, <3>2, <3>3 DEF RangeOf
    <3> QED BY <2>2, <3>4, <1>7
  <2> QED BY <2>1, <2>2
<1>9. LiveInv(h)'  BY <1>6 DEF DeliveryInv, LiveInv
<1>10. HandledInv(h)'
  <2>1. CASE n \in RangeOf(got)  BY <2>1, <1>6, <1>7 DEF DeliveryInv, HandledInv
  <2>2. CASE n \notin RangeOf(got)
    <3>1. Len(Append(got, n)) = Len(got) + 1 /\ Len(got) \in Nat  BY <1>1
    <3>2. /\ \A i \in 1 .. Len(got) : Append(got, n)[i] = got[i]
          /\ Append(got, n)[Len(got) + 1] = n
      BY <1>1
    <3>3. \A i \in 1 .. Len(got) + 1 : i \in 1 .. Len(got) \/ i = Len(got) + 1  BY <3>1
    <3>4. \A i \in 1 .. Len(got) : /\ got[i] \in Nat /\ got[i] # n
                                  /\ Start[h] < got[i] /\ got[i] <= created[h]
      BY <1>1, <2>2 DEF DeliveryInv, HandledInv, RangeOf
    <3>5. /\ \A i, j \in 1 .. Len(got) : i < j => got[i] < got[j] + Lag
          /\ \A i, j \in 1 .. Len(got) : got[i] = got[j] => i = j
      BY DEF DeliveryInv, HandledInv
    <3> DEFINE new == Append(got, n)
    <3> HIDE DEF new
    <3>6. new[Len(got) + 1] = n /\ Len(new) = Len(got) + 1
          /\ \A i \in 1 .. Len(got) : new[i] = got[i]
      BY <3>1, <3>2 DEF new
    <3>7. \A i \in 1 .. Len(new) : Start[h] < new[i] /\ new[i] <= created[h]
      BY <1>2, <3>3, <3>4, <3>6
    <3>8. \A i, j \in 1 .. Len(new) : i < j => new[i] < new[j] + Lag
      <4>1. SUFFICES ASSUME NEW i \in 1 .. Len(new), NEW j \in 1 .. Len(new), i < j
                     PROVE  new[i] < new[j] + Lag
        OBVIOUS
      <4>2. i \in 1 .. Len(got)  BY <3>1, <3>6, <4>1
      <4>3. CASE j \in 1 .. Len(got)  BY <3>5, <3>6, <4>1, <4>2, <4>3
      <4>4. CASE j = Len(got) + 1
        <5>1. new[i] \in Nat /\ new[i] <= created[h] /\ new[j] = n  BY <3>4, <3>6, <4>2, <4>4
        <5> QED BY <5>1, <1>1, <1>2
      <4> QED BY <4>3, <4>4, <3>3, <3>6
    <3>9. \A i, j \in 1 .. Len(new) : new[i] = new[j] => i = j
      BY <3>3, <3>4, <3>5, <3>6
    <3>10. handled'[g] = new /\ created'[h] = created[h]  BY <2>2, <1>6, <1>7 DEF new
    <3> QED BY <3>7, <3>8, <3>9, <3>10 DEF HandledInv
  <2> QED BY <2>1, <2>2
<1>11. FrontInv(h)'
  <2>1. k \in RangeOf(got) \cup {Start[h]} /\ \A m \in RangeOf(got) \cup {Start[h]} : m <= k
    BY <1>3 DEF IsNewest
  <2>2. RangeOf(got) \subseteq Nat  BY <1>1, RangeType
  <2>3. CASE k < n
    <3>1. IsNewest(h, n)'  BY <1>1, <1>8, <2>1, <2>2, <2>3 DEF IsNewest
    <3>2. created'[h] - n < Gap  BY <1>1, <1>3, <1>6, <2>3
    <3>3. HighIs(h, n)'  BY <1>6, <2>3 DEF HighIs
    <3> QED BY <1>1, <3>1, <3>2, <3>3 DEF FrontInv
  <2>4. CASE ~(k < n)
    <3>1. IsNewest(h, k)'  BY <1>1, <1>8, <2>1, <2>2, <2>4 DEF IsNewest
    <3>2. created'[h] - k < Gap  BY <1>3, <1>6
    <3>3. HighIs(h, k)'  BY <1>3, <1>6, <2>4 DEF HighIs
    <3> QED BY <3>1, <3>2, <3>3 DEF FrontInv
  <2> QED BY <2>3, <2>4
<1>12. RingInv(h)'
  <2>1. CASE n \in RangeOf(got)  BY <2>1, <1>6, <1>7 DEF DeliveryInv, RingInv
  <2>2. CASE n \notin RangeOf(got)
    <3> DEFINE next == Push(ring, n)
               new == Append(got, n)
    <3>0. Len(ring) <= AckBack  BY DEF DeliveryInv, RingInv
    <3>1. /\ next \in Seq(Nat)
          /\ Len(next) = IF Len(ring) < AckBack THEN Len(ring) + 1 ELSE AckBack
          /\ Len(next) <= AckBack
          /\ RangeOf(next) \subseteq RangeOf(ring) \cup {n}
          /\ next[Len(next)] = n
          /\ \A j \in 1 .. Len(next) - 1 : next[Len(next) - j] = ring[Len(ring) - (j - 1)]
      BY <1>1, <3>0, PushedRing
    <3>2. handled'[g] = new /\ lastacks'[g] = next /\ created'[h] = created[h]
      BY <2>2, <1>6, <1>7
    <3>3. \A m \in RangeOf(next) : 1 <= m /\ m <= created[h] /\ created[h] - m < Cycle
             /\ m \in RangeOf(new) \cup {Start[h]}
      <4>1. Lag <= Cycle  BY <1>1 DEF WideWindow
      <4>2. \A m \in RangeOf(ring) : 1 <= m /\ m <= created[h] /\ created[h] - m < Cycle
               /\ m \in RangeOf(got) \cup {Start[h]}
        BY DEF DeliveryInv, RingInv
      <4>3. 1 <= n /\ n <= created[h] /\ created[h] - n < Cycle  BY <1>1, <1>2, <4>1
      <4>4. RangeOf(new) = RangeOf(got) \cup {n}  BY <1>8, <3>2
      <4> HIDE DEF next, new
      <4> QED BY <3>1, <4>2, <4>3, <4>4
    <3>4. \A j \in 0 .. Len(new) - 1 : j < AckBack =>
             j < Len(next) /\ next[Len(next) - j] = new[Len(new) - j]
      <4>1. SUFFICES ASSUME NEW j \in 0 .. Len(new) - 1, j < AckBack
                     PROVE  j < Len(next) /\ next[Len(next) - j] = new[Len(new) - j]
        OBVIOUS
      <4>2. /\ Len(new) = Len(got) + 1 /\ new[Len(got) + 1] = n
            /\ \A i \in 1 .. Len(got) : new[i] = got[i]
            /\ Len(got) \in Nat /\ Len(ring) \in Nat /\ Len(next) \in Nat
        <5>1. got \in Seq(Nat) /\ ring \in Seq(Nat) /\ n \in Nat  BY <1>1, <1>2
        <5>2. Len(next) \in Nat  BY <3>1
        <5> HIDE DEF got, ring, next
        <5> QED BY <5>1, <5>2
      <4> HIDE DEF next, new
      <4>3. CASE j = 0
        <5>1. 0 < Len(next)  BY <1>1, <3>1, <4>2, <4>1, <4>3
        <5>2. Len(next) - 0 = Len(next) /\ Len(new) - 0 = Len(got) + 1  BY <4>2
        <5> QED BY <3>1, <4>2, <4>3, <5>1, <5>2
      <4>4. CASE j # 0
        <5> DEFINE i == j - 1
        <5>1. i \in 0 .. Len(got) - 1 /\ i < AckBack  BY <1>1, <4>1, <4>2, <4>4
        <5>2. i < Len(ring) /\ ring[Len(ring) - i] = got[Len(got) - i]
          BY <1>1, <5>1 DEF DeliveryInv, RingInv
        <5>3. j < Len(next) /\ j \in 1 .. Len(next) - 1
          <6>1. Len(next) = IF Len(ring) < AckBack THEN Len(ring) + 1 ELSE AckBack  BY <3>1
          <6>2. Len(ring) \in Nat /\ Len(next) \in Nat /\ j \in Nat /\ j - 1 < Len(ring)
            BY <4>1, <4>2, <5>2
          <6>3. AckBack \in Nat  BY <1>1
          <6> HIDE DEF ring, i
          <6> QED BY <6>1, <6>2, <6>3, <4>1, <4>4
        <5>4. next[Len(next) - j] = ring[Len(ring) - i]
          BY <3>1, <5>3, Zenon
        <5>5. Len(new) - j = Len(got) - i /\ Len(got) - i \in 1 .. Len(got)
          BY <4>1, <4>2, <5>1
        <5> HIDE DEF i
        <5>6. new[Len(got) - i] = got[Len(got) - i]  BY <4>2, <5>5
        <5> QED BY <5>2, <5>3, <5>4, <5>5, <5>6
      <4> QED BY <4>3, <4>4
    <3> HIDE DEF next, new
    <3> QED BY <3>1, <3>2, <3>3, <3>4 DEF RingInv
  <2> QED BY <2>1, <2>2
<1>13. AckInv(h)'
  <2>1. Lag <= AckLag  BY DEF WideWindow
  <2>2. \A m \in OwedAcks(g) : m \in RangeOf(got) /\ created[h] - m < AckLag
    BY DEF DeliveryInv, AckInv
  <2>3. created[h] - n < AckLag  BY <1>1, <1>2, <2>1
  <2> QED BY <1>5, <1>6, <1>8, <2>2, <2>3 DEF AckInv
<1>14. LostInv(h)'  BY <1>6, <1>8 DEF DeliveryInv, LostInv
<1> QED BY <1>9, <1>10, <1>11, <1>12, <1>13, <1>14 DEF DeliveryInv

(* An acknowledgement is matched to the message it was given for: the ids  *)
(* that are acknowledged and awaited at the same time differ.              *)
LEMMA AcknowledgedWasHandled ==
  ASSUME WideWindow, TypeOK, NEW h \in Host, DeliveryInv(h),
         NEW a \in ackWire[Peer(h)], NEW n \in Acknowledged(h, a)
  PROVE  n \in RangeOf(handled[Peer(h)])
<1> DEFINE g == Peer(h)
<1>1. n \in pendingAcks[h] /\ \E m \in a : MessageID(m) = MessageID(n)  BY DEF Acknowledged
<1>2. PICK m \in a : MessageID(m) = MessageID(n)  BY <1>1
<1>3. /\ g \in Host /\ n \in Nat /\ m \in Nat /\ created[h] \in Nat /\ Start[h] \in Nat \ {0}
      /\ Lag \in Nat /\ AckLag \in Nat /\ Cycle \in Nat
  <2>1. g \in Host  BY PeerType
  <2>2. a \subseteq Nat /\ pendingAcks[h] \subseteq Nat /\ created[h] \in Nat
    BY <2>1 DEF TypeOK
  <2>3. n \in Nat /\ m \in Nat  BY <1>1, <1>2, <2>2
  <2>4. Start[h] \in Nat \ {0}  BY BoundAssumption
  <2> QED BY <2>1, <2>2, <2>3, <2>4, NumberAssumption, CycleType
<1>4. m \in RangeOf(handled[g]) /\ created[h] - m < AckLag
  BY <1>2 DEF DeliveryInv, AckInv, OwedAcks
<1>5. Start[h] < m /\ m <= created[h]
  BY <1>4 DEF DeliveryInv, HandledInv, RangeOf
<1>6. Start[h] < n /\ n <= created[h] /\ created[h] - n < Lag
  BY <1>1 DEF DeliveryInv, LiveInv, Live, Unacknowledged
<1>7. AckLag <= Cycle /\ Lag <= Cycle  BY <1>3 DEF WideWindow
<1>8. m - n < Cycle /\ n - m < Cycle /\ m \in Nat \ {0} /\ n \in Nat \ {0}
  BY <1>3, <1>4, <1>5, <1>6, <1>7
<1>9. m = n  BY <1>2, <1>8, DistinctIDs
<1> QED BY <1>4, <1>9

(* Disconnecting either end.                                               *)
LEMMA CloseKept ==
  ASSUME TypeOK, NEW h \in Host, NEW x \in Host, Close(x)
  PROVE  DirectionKept(h)
<1>1. h = x \/ (x = Peer(h) /\ h # x)  BY DEF Host, Peer
<1>2. UNCHANGED <<created, submitted, handled, wire, ackWire>>  BY DEF Close
<1>3. RangeOf(<<>>) = {}  BY DEF RangeOf
<1>4. CASE h = x
  <2>1. Peer(h) # x /\ Peer(h) \in Host  BY <1>4, PeerType
  <2>2. /\ send_queue'[h] = {} /\ destroyer'[h] = {} /\ pendingAcks'[h] = destroyer[h]
        /\ ~open'[h]
        /\ lastacks'[Peer(h)] = lastacks[Peer(h)] /\ highest_ack'[Peer(h)] = highest_ack[Peer(h)]
        /\ open'[Peer(h)] = open[Peer(h)]
        /\ ackMess'[Peer(h)] = ackMess[Peer(h)] /\ ackQueue'[Peer(h)] = ackQueue[Peer(h)]
    BY <1>4, <2>1 DEF Close, TypeOK
  <2>3. Live(h)' \subseteq Live(h) /\ OwedAcks(Peer(h))' \subseteq OwedAcks(Peer(h))
    BY <1>2, <2>2 DEF Live, Unacknowledged, OwedAcks
  <2> QED BY <1>2, <2>2, <2>3 DEF DirectionKept
<1>5. CASE x = Peer(h) /\ h # x
  <2>1. /\ send_queue'[h] = send_queue[h] /\ pendingAcks'[h] = pendingAcks[h]
        /\ destroyer'[h] = destroyer[h] /\ open'[h] = open[h] /\ ~open'[x] /\ lastacks'[x] = <<>>
        /\ ackMess'[x] = <<>> /\ ackQueue'[x] = {}
    BY <1>5 DEF Close, TypeOK
  <2>2. Live(h)' \subseteq Live(h) /\ OwedAcks(x)' \subseteq OwedAcks(x)
    BY <1>2, <1>3, <2>1 DEF Live, Unacknowledged, OwedAcks
  <2> QED BY <1>2, <1>5, <2>1, <2>2 DEF DirectionKept, Unacknowledged
<1> QED BY <1>1, <1>4, <1>5

(* Every step keeps the invariant of both directions.                      *)
LEMMA DeliveryStep ==
  ASSUME WideWindow, TypeOK, \A h \in Host : DeliveryInv(h), [Next]_vars, NEW h \in Host
  PROVE  DeliveryInv(h)'
<1> DEFINE g == Peer(h)
<1>0. g \in Host /\ g # h /\ Peer(g) = h  BY PeerType
<1>1. DirectionKept(h) => DeliveryInv(h)'  BY DirectionFrame
<1>2. \A x \in Host : x = h \/ x = g  BY DEF Host, Peer
<1>3. ASSUME NEW x \in Host, Create(x) \/ CreateDestroyer(x) \/ SkipID(x) PROVE DeliveryInv(h)'
  <2>1. CASE x = h  BY <1>3, <2>1, CountStep
  <2>2. CASE x = g
    <3>1. /\ created'[h] = created[h] /\ submitted'[h] = submitted[h]
          /\ send_queue'[h] = send_queue[h] /\ destroyer'[h] = destroyer[h]
      BY <1>0, <1>3, <2>2 DEF Create, CreateDestroyer, SkipID, TypeOK, sendVars, waitVars
    <3>2. UNCHANGED <<open, pendingAcks, recvVars, netVars>>
      BY <1>3 DEF Create, CreateDestroyer, SkipID, sendVars, waitVars
    <3>3. DirectionKept(h)
      BY <3>1, <3>2 DEF DirectionKept, Live, Unacknowledged, OwedAcks, recvVars, netVars
    <3> QED BY <3>3, <1>1
  <2> QED BY <1>2, <2>1, <2>2
<1>4. ASSUME NEW x \in Host, Close(x) PROVE DeliveryInv(h)'
  BY <1>1, <1>4, CloseKept
<1>5. ASSUME NEW x \in Host, NEW n \in send_queue[x], Execute(x, n) PROVE DirectionKept(h)
  <2>1. UNCHANGED <<open, created, submitted, recvVars, ackWire>>  BY <1>5 DEF Execute, queueVars
  <2>2. /\ send_queue' = [send_queue EXCEPT ![x] = @ \ {n}]
        /\ pendingAcks' = [pendingAcks EXCEPT ![x] = @ \cup {n}]
        /\ wire' = [wire EXCEPT ![x] = @ \cup {n}]
    BY <1>5 DEF Execute
  <2>3. Live(h)' \subseteq Live(h) /\ Unacknowledged(h)' = Unacknowledged(h)
    <3>1. UNCHANGED destroyer  BY <1>5 DEF Execute
    <3> QED BY <1>5, <2>2, <3>1 DEF Live, Unacknowledged, TypeOK
  <2> QED BY <2>1, <2>3 DEF DirectionKept, OwedAcks, recvVars
<1>6. ASSUME NEW x \in Host, NEW n \in destroyer[x], SendDestroyer(x, n) PROVE DirectionKept(h)
  <2>1. UNCHANGED <<open, created, submitted, recvVars, ackWire>>
    BY <1>6 DEF SendDestroyer, queueVars
  <2>2. /\ destroyer' = [destroyer EXCEPT ![x] = @ \ {n}]
        /\ pendingAcks' = [pendingAcks EXCEPT ![x] = @ \cup {n}]
        /\ wire' = [wire EXCEPT ![x] = @ \cup {n}]
        /\ UNCHANGED send_queue
    BY <1>6 DEF SendDestroyer
  <2>3. Live(h)' \subseteq Live(h) /\ Unacknowledged(h)' = Unacknowledged(h)
    BY <1>6, <2>2 DEF Live, Unacknowledged, TypeOK
  <2> QED BY <2>1, <2>3 DEF DirectionKept, OwedAcks, recvVars
<1>7. ASSUME NEW x \in Host, NEW a \in ackQueue[x], ExecuteAck(x, a) PROVE DirectionKept(h)
  <2>1. UNCHANGED <<open, created, submitted, sendVars, highest_ack, lastacks, ackMess, handled, wire>>
    BY <1>7 DEF ExecuteAck, queueVars
  <2>2. /\ ackQueue' = [ackQueue EXCEPT ![x] = @ \ {a}]
        /\ ackWire' = [ackWire EXCEPT ![x] = @ \cup {a}]
    BY <1>7 DEF ExecuteAck
  <2>3. OwedAcks(g)' \subseteq OwedAcks(g)
    <3>1. /\ ackQueue \in [Host -> SUBSET SUBSET Nat]
          /\ ackWire \in [Host -> SUBSET SUBSET Nat]
      BY DEF TypeOK
    <3>2. ackQueue'[g] \subseteq ackQueue[g]  BY <1>0, <2>2, <3>1
    <3>3. ackWire'[g] \subseteq ackWire[g] \cup ackQueue[g]  BY <1>0, <1>7, <2>2, <3>1
    <3> QED BY <2>1, <3>2, <3>3 DEF OwedAcks
  <2> QED BY <2>1, <2>3 DEF DirectionKept, Live, Unacknowledged, sendVars, waitVars
<1>8. ASSUME NEW x \in Host, SendAcks(x) PROVE DirectionKept(h)
  <2>1. UNCHANGED <<open, created, submitted, sendVars, highest_ack, lastacks, ackQueue, handled, wire>>
    BY <1>8 DEF SendAcks, queueVars
  <2>2. /\ ackMess' = [ackMess EXCEPT ![x] = <<>>]
        /\ ackWire' = [ackWire EXCEPT ![x] = @ \cup {RangeOf(ackMess[x])}]
    BY <1>8 DEF SendAcks
  <2>3. RangeOf(<<>>) = {}  BY DEF RangeOf
  <2>4. OwedAcks(g)' \subseteq OwedAcks(g)
    <3>1. ackMess \in [Host -> Seq(Nat)] /\ ackWire \in [Host -> SUBSET SUBSET Nat]
      BY DEF TypeOK
    <3>2. RangeOf(ackMess'[g]) \subseteq RangeOf(ackMess[g])  BY <1>0, <2>2, <2>3, <3>1
    <3>3. ackWire'[g] \subseteq ackWire[g] \cup {RangeOf(ackMess[g])}  BY <1>0, <2>2, <3>1
    <3> QED BY <2>1, <3>2, <3>3 DEF OwedAcks
  <2> QED BY <2>1, <2>4 DEF DirectionKept, Live, Unacknowledged, sendVars, waitVars
<1>9. ASSUME NEW x \in Host, NEW n, TimePasses(x, n) PROVE DirectionKept(h)
  BY <1>9 DEF TimePasses, DirectionKept, Live, Unacknowledged, OwedAcks, queueVars, waitVars,
              recvVars, netVars
<1>10. ASSUME NEW x \in Host, NEW n \in pendingAcks[x], Resend(x, n) PROVE DirectionKept(h)
  <2>1. UNCHANGED <<open, created, submitted, send_queue, destroyer, pendingAcks, recvVars,
                    ackWire>>
    BY <1>10 DEF Resend, queueVars, waitVars
  <2>2. Live(h)' \subseteq Live(h)
    <3>1. wire' = [wire EXCEPT ![x] = @ \cup {n}]  BY <1>10 DEF Resend
    <3> QED BY <1>10, <2>1, <3>1 DEF Live, Unacknowledged, TypeOK
  <2> QED BY <2>1, <2>2 DEF DirectionKept, Unacknowledged, OwedAcks, recvVars
<1>10a. ASSUME NEW x \in Host, NEW n \in pendingAcks[x], DropClosed(x, n) PROVE DirectionKept(h)
  <2>1. UNCHANGED <<open, created, submitted, send_queue, destroyer, recvVars, netVars>> /\ ~open[x]
    BY <1>10a DEF DropClosed, queueVars
  <2>2. pendingAcks' = [pendingAcks EXCEPT ![x] = @ \ {n}]  BY <1>10a DEF DropClosed
  <2>3. pendingAcks'[h] \subseteq pendingAcks[h] /\ (open[h] => pendingAcks'[h] = pendingAcks[h])
    BY <2>1, <2>2 DEF TypeOK
  <2> QED BY <2>1, <2>3 DEF DirectionKept, Live, Unacknowledged, OwedAcks, recvVars, netVars
<1>10b. ASSUME NEW x \in Host, NEW n \in pendingAcks[x], KillClosed(x, n) PROVE DirectionKept(h)
  BY <1>10b DEF KillClosed, DirectionKept, Live, Unacknowledged, OwedAcks, queueVars, waitVars,
               recvVars, netVars
<1>11. ASSUME NEW x \in Host, NEW n \in wire[Peer(x)], ReceiveMessage(x, n) PROVE DeliveryInv(h)'
  <2>1. CASE x = g  BY <1>0, <1>11, <2>1, ArrivalStep
  <2>2. CASE x = h
    <3>1. UNCHANGED <<open, queueVars, sendVars, netVars>>  BY <1>11 DEF ReceiveMessage
    <3>2. /\ lastacks'[g] = lastacks[g] /\ handled'[g] = handled[g]
          /\ highest_ack'[g] = highest_ack[g]
          /\ ackMess'[g] = ackMess[g] /\ ackQueue'[g] = ackQueue[g]
      <4>1. /\ lastacks \in [Host -> Seq(Nat)] /\ handled \in [Host -> Seq(Nat)]
            /\ ackMess \in [Host -> Seq(Nat)] /\ ackQueue \in [Host -> SUBSET SUBSET Nat]
            /\ highest_ack \in [Host -> 0 .. IdSpace - 1]
        BY DEF TypeOK
      <4>2. g # x /\ g \in Host  BY <1>0, <2>2
      <4>3. lastacks'[g] = lastacks[g] /\ handled'[g] = handled[g]
        BY <1>11, <4>1, <4>2 DEF ReceiveMessage, Handle
      <4>4. highest_ack'[g] = highest_ack[g]  BY <1>11, <4>1, <4>2 DEF ReceiveMessage
      <4>5. ackMess'[g] = ackMess[g] /\ ackQueue'[g] = ackQueue[g]
        BY <1>11, <4>1, <4>2 DEF ReceiveMessage, AddAck
      <4> QED BY <4>3, <4>4, <4>5
    <3>3. DirectionKept(h)
      BY <3>1, <3>2 DEF DirectionKept, Live, Unacknowledged, OwedAcks, queueVars, sendVars,
                        waitVars, netVars
    <3> QED BY <3>3, <1>1
  <2> QED BY <1>2, <2>1, <2>2
<1>12. ASSUME NEW x \in Host, NEW a \in ackWire[Peer(x)], ReceiveAck(x, a) PROVE DirectionKept(h)
  <2>1. UNCHANGED <<open, created, submitted, send_queue, destroyer, recvVars, netVars>>
    BY <1>12 DEF ReceiveAck, queueVars
  <2>2. pendingAcks' = [pendingAcks EXCEPT ![x] = @ \ Acknowledged(x, a)]
    BY <1>12 DEF ReceiveAck
  <2>3. pendingAcks'[h] \subseteq pendingAcks[h]
        /\ pendingAcks[h] \subseteq pendingAcks'[h] \cup RangeOf(handled[g])
    <3>1. CASE x = h
      <4>1. \A n \in Acknowledged(h, a) : n \in RangeOf(handled[g])
        BY <1>12, <3>1, AcknowledgedWasHandled
      <4>2. pendingAcks'[h] = pendingAcks[h] \ Acknowledged(h, a)
        BY <2>2, <3>1 DEF TypeOK
      <4> QED BY <4>1, <4>2
    <3>2. CASE x = g
      <4>1. pendingAcks'[h] = pendingAcks[h]  BY <1>0, <2>2, <3>2 DEF TypeOK
      <4> QED BY <4>1
    <3> QED BY <1>2, <3>1, <3>2
  <2> QED BY <2>1, <2>3 DEF DirectionKept, Live, Unacknowledged, OwedAcks, recvVars, netVars
<1>13. ASSUME NEW x \in Host, Lose(x) PROVE DirectionKept(h)
  <2>1. UNCHANGED <<open, queueVars, sendVars, recvVars>>  BY <1>13 DEF Lose
  <2>2. wire'[h] \subseteq wire[h]
    <3>1. wire' = wire \/ \E n : wire' = [wire EXCEPT ![x] = @ \ {n}]  BY <1>13 DEF Lose
    <3> QED BY <3>1 DEF TypeOK
  <2>3. ackWire'[g] \subseteq ackWire[g]
    <3>1. ackWire' = ackWire \/ \E a : ackWire' = [ackWire EXCEPT ![x] = @ \ {a}]
      BY <1>13 DEF Lose
    <3> QED BY <1>0, <3>1 DEF TypeOK
  <2> QED BY <2>1, <2>2, <2>3 DEF DirectionKept, Live, Unacknowledged, OwedAcks, queueVars,
                                  sendVars, waitVars, recvVars
<1>14. CASE UNCHANGED vars
  <2>1. DirectionKept(h)
    BY <1>14 DEF DirectionKept, Live, Unacknowledged, OwedAcks, vars, queueVars, sendVars,
                 waitVars, recvVars, netVars
  <2> QED BY <2>1, <1>1
<1>15. ASSUME NEW x \in Host, Send(x) PROVE DeliveryInv(h)'
  BY <1>15, <1>1, <1>4, <1>5, <1>6, <1>7, <1>8, <1>10, <1>10a, <1>10b
     DEF Send, Overflow, KillTimeout
<1>16. ASSUME NEW x \in Host, Receive(x) PROVE DeliveryInv(h)'
  BY <1>16, <1>1, <1>4, <1>11, <1>12 DEF Receive, ReceiveFarewell
<1>17. ASSUME NEW x \in Host, Disconnect(x) PROVE DeliveryInv(h)'
  BY <1>17, <1>4 DEF Disconnect
<1> QED BY <1>1, <1>3, <1>9, <1>13, <1>14, <1>15, <1>16, <1>17 DEF Next, Tick

(* Nothing is under way when the login is over.                            *)
LEMMA DeliveryInit ==
  ASSUME WideWindow, Init, NEW h \in Host
  PROVE  DeliveryInv(h)
<1> DEFINE g == Peer(h)
<1>1. /\ g \in Host /\ Start[h] \in Nat \ {0} /\ created[h] = Start[h]
      /\ Gap \in Nat /\ 1 <= Gap /\ Cycle \in Nat \ {0} /\ AckBack \in Nat \ {0}
  BY PeerType, BoundAssumption, NumberAssumption, CycleType DEF Init, WideWindow
<1>2. /\ Live(h) = {} /\ handled[g] = <<>> /\ OwedAcks(g) = {} /\ RangeOf(handled[g]) = {}
  BY <1>1 DEF Init, Live, Unacknowledged, OwedAcks, RangeOf
<1>3. LiveInv(h)  BY <1>1, <1>2 DEF LiveInv
<1>4. HandledInv(h)  BY <1>2 DEF HandledInv
<1>5. FrontInv(h)
  <2>1. IsNewest(h, Start[h])  BY <1>1, <1>2 DEF IsNewest
  <2>2. HighIs(h, Start[h])
    <3>1. CASE h = Server  BY <3>1, HostAssumption DEF Init, HighIs, Host, Peer
    <3>2. CASE h = Client  BY <3>2, HostAssumption DEF Init, HighIs, Host, Peer
    <3> QED BY <3>1, <3>2 DEF Host
  <2> QED BY <1>1, <2>1, <2>2 DEF FrontInv
<1>6. RingInv(h)
  <2>1. \/ lastacks[g] = <<>>
        \/ lastacks[g] = <<Start[h]>> /\ h = Server
    BY HostAssumption DEF Init, Host, Peer
  <2>2. Len(lastacks[g]) <= AckBack /\ \A m \in RangeOf(lastacks[g]) : m = Start[h]
    <3>1. CASE lastacks[g] = <<>>  BY <1>1, <3>1 DEF RangeOf
    <3>2. CASE lastacks[g] = <<Start[h]>>
      <4>1. Len(<<Start[h]>>) = 1 /\ <<Start[h]>>[1] = Start[h]  OBVIOUS
      <4>2. RangeOf(<<Start[h]>>) = {Start[h]}  BY <4>1 DEF RangeOf
      <4> QED BY <1>1, <3>2, <4>1, <4>2
    <3> QED BY <2>1, <3>1, <3>2
  <2> QED BY <1>1, <1>2, <2>2 DEF RingInv
<1>7. AckInv(h)  BY <1>2 DEF AckInv
<1>8. LostInv(h)  BY DEF Init, LostInv
<1> QED BY <1>3, <1>4, <1>5, <1>6, <1>7, <1>8 DEF DeliveryInv

-----------------------------------------------------------------------------
(* Theorems.                                                               *)

AllDelivery == WindowInv /\ \A h \in Host : DeliveryInv(h)

(* The invariant holds in every reachable state.                           *)
THEOREM DeliveryCorrect ==
  ASSUME WideWindow
  PROVE  Spec => []AllDelivery
<1>1. Init => AllDelivery  BY WindowInit, DeliveryInit DEF AllDelivery
<1>2. AllDelivery /\ [Next]_vars => AllDelivery'
  BY WindowStep, DeliveryStep DEF AllDelivery, WindowInv
<1> QED BY <1>1, <1>2, PTL DEF Spec

(* No message is handled twice, whatever is lost, copied or reordered, as  *)
(* long as the ring and the window are wide enough for the delays.         *)
THEOREM HandledOnce ==
  ASSUME WideWindow
  PROVE  Spec => []HandledAtMostOnce
<1>1. AllDelivery => HandledAtMostOnce
  <2>1. \A g \in Host : Peer(g) \in Host /\ Peer(Peer(g)) = g  BY PeerType
  <2> QED BY <2>1 DEF AllDelivery, DeliveryInv, HandledInv, HandledAtMostOnce
<1> QED BY <1>1, DeliveryCorrect, PTL

(* What the sender of an open connection does not wait for was handled.    *)
THEOREM NoneLost ==
  ASSUME WideWindow
  PROVE  Spec => []NothingLost
<1>1. AllDelivery => NothingLost
  BY DEF AllDelivery, DeliveryInv, LostInv, NothingLost
<1> QED BY <1>1, DeliveryCorrect, PTL

(* The window test of rec_peer never takes a copy for a new message.       *)
THEOREM SurelyNewCorrect ==
  ASSUME WideWindow
  PROVE  Spec => []SurelyNewIsNew
<1>1. AllDelivery => SurelyNewIsNew
  <2>1. SUFFICES ASSUME AllDelivery, NEW g \in Host, open[g], NEW n \in wire[Peer(g)],
                        SurelyNew(MessageID(n), highest_ack[g])
                 PROVE  n \notin RangeOf(handled[g])
    BY DEF SurelyNewIsNew
  <2> DEFINE h == Peer(g)
  <2>2. h \in Host /\ Peer(h) = g /\ TypeOK /\ DeliveryInv(h)
    BY <2>1, PeerType DEF AllDelivery, WindowInv
  <2>3. PICK k \in Nat : IsNewest(h, k) /\ created[h] - k < Gap /\ HighIs(h, k)
    BY <2>1, <2>2 DEF DeliveryInv, FrontInv
  <2>4. k < n  BY <2>1, <2>2, <2>3, ArrivalJudged
  <2>5. IsNew(g, n)  BY <2>1 DEF IsNew
  <2> QED BY <2>1, <2>2, <2>3, <2>5, ArrivalJudged
<1> QED BY <1>1, DeliveryCorrect, PTL

-----------------------------------------------------------------------------
(* ReliableMessaging implements ReliableChannel: ids, copies, resends and  *)
(* acknowledgements are invisible to who sends and who handles messages.   *)

(* The messages the sender still answers for.                              *)
Waiting == [h \in Host |-> IF open[h] THEN Unacknowledged(h) ELSE {}]

(* The two modules name the same ends.                                     *)
LEMMA SameHosts ==
  /\ Channel!Host = Host
  /\ \A h \in Host : Channel!Peer(h) = Peer(h)
  /\ \A g \in Host : Channel!Got(g) = RangeOf(handled[g])
BY DEF Channel!Host, Host, Channel!Peer, Peer, Channel!Got, RangeOf

(* A step that keeps both ends, and what waits and was handled, is none.   *)
LEMMA Stutter ==
  ASSUME UNCHANGED <<open, submitted, handled>>,
         \A h \in Host : open[h] => Unacknowledged(h)' = Unacknowledged(h)
  PROVE  UNCHANGED Channel!vars
BY DEF Channel!vars

(* A new message, destroy message or not, is a Submit.                     *)
LEMMA CreateSubmits ==
  ASSUME AllDelivery, NEW h \in Host, Create(h) \/ CreateDestroyer(h)
  PROVE  Channel!Submit(h)
<1> DEFINE n == created[h] + 1
<1>1. TypeOK /\ DeliveryInv(h)  BY DEF AllDelivery, WindowInv
<1>2. created[h] \in Nat /\ Start[h] \in Nat /\ Limit[h] \in Nat /\ Start[h] <= created[h]
      /\ created[h] < Limit[h] /\ open[h]
  BY <1>1, BoundAssumption DEF TypeOK, DeliveryInv, LiveInv, Create, CreateDestroyer
<1>3. n \in Message  BY <1>2 DEF Message, Messages
<1>4. n \notin submitted[h]
  <2>1. submitted[h] \subseteq Unacknowledged(h) \cup RangeOf(handled[Peer(h)])
    BY <1>1, <1>2 DEF DeliveryInv, LostInv
  <2>2. \A m \in Unacknowledged(h) : m <= created[h]
    BY <1>1 DEF DeliveryInv, LiveInv, Live
  <2>3. \A m \in RangeOf(handled[Peer(h)]) : m <= created[h]
    BY <1>1 DEF DeliveryInv, HandledInv, RangeOf
  <2>4. ~(n <= created[h])  BY <1>2
  <2> QED BY <2>1, <2>2, <2>3, <2>4
<1>5. /\ submitted' = [submitted EXCEPT ![h] = @ \cup {n}]
      /\ UNCHANGED <<open, pendingAcks, handled>>
      /\ \/ send_queue' = [send_queue EXCEPT ![h] = @ \cup {n}] /\ UNCHANGED destroyer
         \/ destroyer' = [destroyer EXCEPT ![h] = {n}] /\ destroyer[h] = {} /\ UNCHANGED send_queue
  <2>1. created'[h] = n  BY <1>1 DEF Create, CreateDestroyer, TypeOK
  <2> QED BY <2>1 DEF Create, CreateDestroyer, recvVars
<1> HIDE DEF n
<1>6. Waiting' = [Waiting EXCEPT ![h] = @ \cup {n}]
  <2>1. send_queue \in [Host -> SUBSET Nat] /\ destroyer \in [Host -> SUBSET Nat]
    BY <1>1 DEF TypeOK
  <2>2. Unacknowledged(h)' = Unacknowledged(h) \cup {n}  BY <1>5, <2>1 DEF Unacknowledged
  <2>3. \A x \in Host : x # h => Unacknowledged(x)' = Unacknowledged(x)
    BY <1>5, <2>1 DEF Unacknowledged
  <2> QED BY <1>2, <1>5, <2>2, <2>3 DEF Waiting
<1> QED BY <1>2, <1>3, <1>4, <1>5, <1>6 DEF Channel!Submit, Waiting

(* Every way to close an end is a Disconnect.                              *)
LEMMA CloseDisconnects ==
  ASSUME AllDelivery, NEW h \in Host, open[h], Close(h)
  PROVE  Channel!Disconnect(h)
<1>1. /\ send_queue \in [Host -> SUBSET Nat] /\ pendingAcks \in [Host -> SUBSET Nat]
      /\ destroyer \in [Host -> SUBSET Nat] /\ open \in [Host -> BOOLEAN]
  BY DEF AllDelivery, WindowInv, TypeOK
<1>2. /\ send_queue' = [send_queue EXCEPT ![h] = {}] /\ destroyer' = [destroyer EXCEPT ![h] = {}]
      /\ pendingAcks' = [pendingAcks EXCEPT ![h] = destroyer[h]]
      /\ open' = [open EXCEPT ![h] = FALSE] /\ UNCHANGED <<submitted, handled>>
  BY DEF Close
<1>3. Waiting' = [Waiting EXCEPT ![h] = {}]
  <2>1. ~open'[h] /\ \A x \in Host : x # h => open'[x] = open[x]  BY <1>1, <1>2
  <2>2. \A x \in Host : x # h => Unacknowledged(x)' = Unacknowledged(x)
    BY <1>1, <1>2 DEF Unacknowledged
  <2> QED BY <2>1, <2>2 DEF Waiting
<1> QED BY <1>2, <1>3 DEF Channel!Disconnect, Waiting

(* A received message is a Deliver, or nothing when it is a copy.          *)
LEMMA ReceiveDelivers ==
  ASSUME WideWindow, AllDelivery, NEW g \in Host, NEW n \in wire[Peer(g)], ReceiveMessage(g, n)
  PROVE  Channel!Deliver(g) \/ UNCHANGED Channel!vars
<1> DEFINE h == Peer(g)
<1>1. h \in Host /\ Peer(h) = g /\ TypeOK /\ DeliveryInv(h) /\ open[g]
  BY PeerType DEF AllDelivery, WindowInv, ReceiveMessage
<1>2. PICK k \in Nat : IsNewest(h, k) /\ created[h] - k < Gap /\ HighIs(h, k)
  BY <1>1 DEF DeliveryInv, FrontInv
<1>3. IsNew(g, n) <=> n \notin RangeOf(handled[g])  BY <1>1, <1>2, ArrivalJudged
<1>4. UNCHANGED <<open, submitted, send_queue, destroyer, pendingAcks>>
  BY DEF ReceiveMessage, queueVars, sendVars, waitVars
<1>5. CASE IsNew(g, n)
  <2>1. handled' = [handled EXCEPT ![g] = Append(@, n)]  BY <1>5 DEF ReceiveMessage, Handle
  <2>2. n \in submitted[h] \ RangeOf(handled[g])
    BY <1>1, <1>3, <1>5 DEF DeliveryInv, LiveInv, Live
  <2>3. n \in submitted[Channel!Peer(g)] \ Channel!Got(g)  BY <2>2, SameHosts
  <2> QED BY <1>1, <1>4, <2>1, <2>3 DEF Channel!Deliver, Unacknowledged
<1>6. CASE ~IsNew(g, n)
  <2>1. handled' = handled  BY <1>6 DEF ReceiveMessage, Handle
  <2> QED BY <1>4, <2>1, Stutter DEF Unacknowledged
<1> QED BY <1>5, <1>6

(* A received acknowledgement is a Settle.                                 *)
LEMMA AckSettles ==
  ASSUME WideWindow, AllDelivery, NEW h \in Host, NEW a \in ackWire[Peer(h)], ReceiveAck(h, a)
  PROVE  Channel!Settle(h)
<1> DEFINE acked == Acknowledged(h, a)
<1>1. /\ TypeOK /\ DeliveryInv(h) /\ SendInv(h) /\ open[h]
      /\ send_queue \in [Host -> SUBSET Nat] /\ pendingAcks \in [Host -> SUBSET Nat]
  BY DEF AllDelivery, WindowInv, TypeOK, ReceiveAck
<1>2. \A n \in acked : n \in RangeOf(handled[Peer(h)])  BY <1>1, AcknowledgedWasHandled
<1>3. acked \subseteq pendingAcks[h]  BY DEF Acknowledged
<1>4. /\ pendingAcks' = [pendingAcks EXCEPT ![h] = @ \ acked]
      /\ UNCHANGED <<open, submitted, send_queue, destroyer, handled>>
  BY DEF ReceiveAck, queueVars, recvVars
<1>5. (send_queue[h] \cup destroyer[h]) \cap acked = {}  BY <1>1, <1>3 DEF SendInv
<1> HIDE DEF acked
<1>6. Waiting' = [Waiting EXCEPT ![h] = @ \ acked]
  <2>1. Unacknowledged(h)' = Unacknowledged(h) \ acked
    BY <1>1, <1>4, <1>5 DEF Unacknowledged
  <2>2. \A x \in Host : x # h => Unacknowledged(x)' = Unacknowledged(x)
    BY <1>1, <1>4 DEF Unacknowledged
  <2> QED BY <1>1, <1>4, <2>1, <2>2 DEF Waiting
<1>7. acked \in SUBSET (Waiting[h] \cap Channel!Got(Channel!Peer(h)))
  <2>1. Channel!Got(Channel!Peer(h)) = RangeOf(handled[Peer(h)])  BY SameHosts, PeerType
  <2> QED BY <1>1, <1>2, <1>3, <2>1 DEF Waiting, Unacknowledged
<1> QED BY <1>1, <1>4, <1>6, <1>7 DEF Channel!Settle, Waiting

(* Every step of the protocol is a step of the channel, or none.           *)
LEMMA ChannelStep ==
  ASSUME WideWindow, AllDelivery, [Next]_vars
  PROVE  [Channel!Next]_(Channel!vars)
<1>0. /\ send_queue \in [Host -> SUBSET Nat] /\ pendingAcks \in [Host -> SUBSET Nat]
      /\ destroyer \in [Host -> SUBSET Nat]
  BY DEF AllDelivery, WindowInv, TypeOK
<1>1. ASSUME NEW x \in Host,
             Channel!Submit(x) \/ Channel!Deliver(x) \/ Channel!Settle(x) \/ Channel!Disconnect(x)
      PROVE  Channel!Next
  BY <1>1, SameHosts DEF Channel!Next
<1>2. ASSUME UNCHANGED <<open, submitted, send_queue, destroyer, pendingAcks, handled>>
      PROVE  UNCHANGED Channel!vars
  BY <1>2, Stutter DEF Unacknowledged
<1>3. ASSUME NEW x \in Host, Send(x) PROVE [Channel!Next]_(Channel!vars)
  <2>1. ASSUME NEW n \in send_queue[x], Execute(x, n) PROVE UNCHANGED Channel!vars
    <3>1. UNCHANGED <<open, submitted, handled, destroyer>>
      BY <2>1 DEF Execute, queueVars, recvVars
    <3>2. /\ send_queue' = [send_queue EXCEPT ![x] = @ \ {n}]
          /\ pendingAcks' = [pendingAcks EXCEPT ![x] = @ \cup {n}]
      BY <2>1 DEF Execute
    <3>3. \A h \in Host : Unacknowledged(h)' = Unacknowledged(h)
      BY <1>0, <2>1, <3>1, <3>2 DEF Unacknowledged
    <3> QED BY <3>1, <3>3, Stutter
  <2>2. ASSUME NEW n \in destroyer[x], SendDestroyer(x, n) PROVE UNCHANGED Channel!vars
    <3>1. UNCHANGED <<open, submitted, handled, send_queue>>
      BY <2>2 DEF SendDestroyer, queueVars, recvVars
    <3>2. /\ destroyer' = [destroyer EXCEPT ![x] = @ \ {n}]
          /\ pendingAcks' = [pendingAcks EXCEPT ![x] = @ \cup {n}]
      BY <2>2 DEF SendDestroyer
    <3>3. \A h \in Host : Unacknowledged(h)' = Unacknowledged(h)
      BY <1>0, <2>2, <3>1, <3>2 DEF Unacknowledged
    <3> QED BY <3>1, <3>3, Stutter
  <2>3. ASSUME NEW n \in send_queue[x], Overflow(x, n) PROVE Channel!Next
    BY <2>3, <1>1, CloseDisconnects DEF Overflow, CanExecute
  <2>4. ASSUME NEW a \in ackQueue[x], ExecuteAck(x, a) PROVE UNCHANGED Channel!vars
    BY <2>4, <1>2 DEF ExecuteAck, queueVars, sendVars, waitVars
  <2>5. CASE SendAcks(x)  BY <2>5, <1>2 DEF SendAcks, queueVars, sendVars, waitVars
  <2>6. ASSUME NEW n \in pendingAcks[x], Resend(x, n) \/ KillClosed(x, n)
        PROVE  UNCHANGED Channel!vars
    BY <2>6, <1>2 DEF Resend, KillClosed, queueVars, waitVars, recvVars
  <2>7. ASSUME NEW n \in pendingAcks[x], KillTimeout(x, n) PROVE Channel!Next
    BY <2>7, <1>1, CloseDisconnects DEF KillTimeout
  <2>8. ASSUME NEW n \in pendingAcks[x], DropClosed(x, n) PROVE UNCHANGED Channel!vars
    <3>1. /\ UNCHANGED <<open, submitted, handled, send_queue, destroyer>> /\ ~open[x]
          /\ pendingAcks' = [pendingAcks EXCEPT ![x] = @ \ {n}]
      BY <2>8 DEF DropClosed, queueVars, recvVars
    <3>2. \A h \in Host : open[h] => Unacknowledged(h)' = Unacknowledged(h)
      BY <1>0, <3>1 DEF Unacknowledged
    <3> QED BY <3>1, <3>2, Stutter
  <2> QED BY <1>3, <2>1, <2>2, <2>3, <2>4, <2>5, <2>6, <2>7, <2>8 DEF Send
<1>4. ASSUME NEW x \in Host, Receive(x) PROVE [Channel!Next]_(Channel!vars)
  BY <1>1, <1>4, ReceiveDelivers, AckSettles, CloseDisconnects DEF Receive, ReceiveFarewell
<1>5. ASSUME NEW x \in Host, Create(x) \/ CreateDestroyer(x) PROVE Channel!Next
  BY <1>1, <1>5, CreateSubmits
<1>6. ASSUME NEW x \in Host, Disconnect(x) PROVE Channel!Next
  BY <1>1, <1>6, CloseDisconnects DEF Disconnect
<1>7. ASSUME NEW x \in Host, SkipID(x) PROVE UNCHANGED Channel!vars
  BY <1>2, <1>7 DEF SkipID, sendVars, waitVars, recvVars
<1>8. ASSUME NEW x \in Host, Lose(x) \/ Tick(x) PROVE UNCHANGED Channel!vars
  BY <1>2, <1>8 DEF Lose, Tick, TimePasses, queueVars, sendVars, waitVars, recvVars
<1>9. CASE UNCHANGED vars  BY <1>2, <1>9 DEF vars, queueVars, sendVars, waitVars, recvVars
<1> QED BY <1>3, <1>4, <1>5, <1>6, <1>7, <1>8, <1>9 DEF Next

(* The protocol implements the channel: while both ends stay connected,    *)
(* nothing is lost, repeated or invented.                                  *)
THEOREM ChannelImplemented ==
  ASSUME WideWindow
  PROVE  Spec => ChannelSpec
<1>1. Init => Channel!Init  BY SameHosts DEF Init, Channel!Init, Unacknowledged
<1>2. AllDelivery /\ [Next]_vars => [Channel!Next]_(Channel!vars)  BY ChannelStep
<1> QED BY <1>1, <1>2, DeliveryCorrect, PTL DEF Spec, ChannelSpec, Channel!Spec
=============================================================================
