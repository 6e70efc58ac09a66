--------------------------- MODULE ObjectIdProofs ---------------------------
(* Proofs about the ids of objects, for any clients, sizes and bounds.     *)
EXTENDS ObjectIds, FiniteSetTheorems, SequenceTheorems, TLAPS

-----------------------------------------------------------------------------
(* What the properties rest on.                                            *)

Injective(s) == \A j, k \in DOMAIN s : s[j] = s[k] => j = k

(* The queue of freed ids: who is in it belongs to nobody, is there once,  *)
(* and was freed as long ago as its place says.  All others have been      *)
(* freed long ago or never.                                                *)
QueueOf(p, taken, since) ==
  /\ since \in [Id -> 0 .. Keep]
  /\ Injective(p.freed)
  /\ \A k \in DOMAIN p.freed :
       /\ p.owner[p.freed[k]] = NoNode
       /\ since[p.freed[k]] = Smaller(Len(p.freed) - k, Keep)
  /\ \A i \in Id : IF p.owner[i] = NoNode THEN \E k \in DOMAIN p.freed : p.freed[k] = i
                                          ELSE since[i] = Keep
  /\ \A i \in taken : p.owner[i] # NoNode

Pool == [owner : [Id -> Owner], current : 1 .. MaxLimit, limit : MinLimit .. MaxLimit,
         freed : Seq(Id), runOut : BOOLEAN]

PoolOK(p, taken, since) ==
  /\ p \in Pool /\ p.current <= p.limit
  /\ QueueOf(p, taken, since)

(* What IdsAreOwned says of a client.                                      *)
OwnsItsIds(c) ==
  /\ \A i \in Ring(c) \cup used[c] \cup Underway(c) : pool.owner[i] = c
  /\ (Ring(c) \cup Underway(c)) \cap occupied = {}
  /\ \A i \in occupied : <<c, i>> \notin creations
  /\ Ring(c) \cap used[c] = {} /\ Underway(c) \cap (Ring(c) \cup used[c]) = {}

(* An id that is used, or is to be destroyed, is in one place.             *)
IdsApart(c) ==
  /\ Injective(ring[c])
  /\ \A r \in replies : r.to = c => Injective(r.ids)
  /\ \A q, r \in replies : q.to = c /\ r.to = c /\ q # r => Ids(q.ids) \cap Ids(r.ids) = {}
  /\ \A i \in Id :
       /\ <<c, i>> \in destroys =>
            pool.owner[i] = c /\ i \notin Ring(c) \cup used[c] \cup Underway(c)
       /\ <<c, i>> \in creations => i \in used[c] \/ <<c, i>> \in destroys

OnePlace == \A c \in Client : IdsApart(c)

(* Nothing is left of a client that has gone.                              *)
GoneIsGone ==
  \A c \in Client \ connected :
    /\ ring[c] = <<>> /\ used[c] = {} /\ lost[c] = {}
    /\ \A n \in Amount : asked[c][n] = 0

(* A connected client has ids, or some are coming; two at least in every   *)
(* answer, so that the object that waited does not take the last one.      *)
MoreComing ==
  /\ \A c \in connected :
       ring[c] # <<>> \/ (\E r \in replies : r.to = c) \/ \E n \in Amount : asked[c][n] > 0
  /\ \A r \in replies : Len(r.ids) > 1
  /\ \A c \in waiting : ring[c] # <<>> => Len(ring[c]) > 1

IdInv ==
  /\ TypeOK /\ QueueOf(pool, occupied, behind) /\ IdsAreOwned /\ Accounted
  /\ OnePlace /\ GoneIsGone /\ MoreComing

-----------------------------------------------------------------------------
(* Sets of numbers.                                                        *)

LEMMA SmallestMember ==
  ASSUME NEW T \in SUBSET Nat, T # {}
  PROVE  \E k \in T : \A j \in T : k <= j
<1> DEFINE Less == {p \in Nat \X Nat : p[1] < p[2]}
<1>1. IsWellFoundedOn(Less, Nat)
  BY NatLessThanWellFounded DEF OpToRel
<1>2. PICK k \in T : \A j \in T : ~ <<j, k>> \in Less
  <2> HIDE DEF Less
  <2> QED BY <1>1, WFMin
<1>3. ASSUME NEW j \in T, ~(k <= j) PROVE FALSE
  <2>1. j \in Nat /\ k \in Nat /\ j < k
    BY <1>3
  <2> DEFINE p == <<j, k>>
  <2>2. p \in Nat \X Nat /\ p[1] < p[2]
    BY <2>1
  <2>3. p \in Less
    BY <2>2
  <2> QED BY <1>2, <2>3
<1> QED BY <1>3

(* Induction, for a set instead of a predicate.                            *)
LEMMA SetInduction ==
  ASSUME NEW S, 0 \in S, \A n \in Nat : n \in S => n + 1 \in S
  PROVE  Nat \subseteq S
<1> SUFFICES ASSUME NEW m \in Nat, m \notin S PROVE FALSE
  OBVIOUS
<1> DEFINE T == {k \in Nat : k \notin S}
<1>1. T \in SUBSET Nat /\ T # {}
  OBVIOUS
<1>2. PICK k \in T : \A j \in T : k <= j
  BY <1>1, SmallestMember
<1>3. k - 1 \in Nat
  BY <1>2
<1>4. k - 1 \in S
  BY <1>2, <1>3
<1> QED BY <1>2, <1>3, <1>4

LEMMA IdsAreNumbers == Id \subseteq Nat /\ MaxLimit \in Nat
BY SizeAssumption DEF Id

(* Any set of ids can be listed from the largest to the smallest.          *)
Lists(n, ids, s) == s \in [1 .. n -> ids] /\ \A j, k \in 1 .. n : j < k => s[j] > s[k]

LEMMA CanBeListed ==
  ASSUME NEW ids \in SUBSET Id
  PROVE  IsFiniteSet(ids) /\ \E s : Lists(Cardinality(ids), ids, s)
<1> DEFINE P(n) == \A S \in SUBSET Id : Cardinality(S) = n => \E s : Lists(n, S, s)
           N == {n \in Nat : P(n)}
<1>1. \A S \in SUBSET Id : IsFiniteSet(S) /\ Cardinality(S) \in Nat
  <2>1. IsFiniteSet(Id)
    BY IdsAreNumbers, FS_Interval DEF Id
  <2> QED BY <2>1, FS_Subset, FS_CardinalityType
<1>2. 0 \in N
  <2> SUFFICES ASSUME NEW S \in SUBSET Id, Cardinality(S) = 0
               PROVE  \E s : Lists(0, S, s)
    OBVIOUS
  <2>1. Lists(0, S, [k \in 1 .. 0 |-> 1])
    BY DEF Lists
  <2> QED BY <2>1
<1>3. ASSUME NEW n \in Nat, n \in N PROVE n + 1 \in N
  <2> SUFFICES ASSUME NEW S \in SUBSET Id, Cardinality(S) = n + 1
               PROVE  \E s : Lists(n + 1, S, s)
    OBVIOUS
  <2>1. S # {} /\ S \in SUBSET Nat
    BY FS_EmptySet, IdsAreNumbers
  <2>2. PICK m \in S : \A j \in S : m <= j
    BY <2>1, SmallestMember
  <2> DEFINE R == S \ {m}
  <2>3. R \in SUBSET Id /\ Cardinality(R) = n
    <3>1. Cardinality(R) = Cardinality(S) - 1
      BY <1>1, <2>2, FS_RemoveElement
    <3> QED BY <3>1
  <2>4. PICK s : Lists(n, R, s)
    BY <1>3, <2>3
  <2> DEFINE t == [k \in 1 .. n + 1 |-> IF k = n + 1 THEN m ELSE s[k]]
  <2>5. \A k \in 1 .. n : s[k] \in S /\ s[k] # m
    BY <2>4 DEF Lists
  <2>6. \A k \in 1 .. n : s[k] > m
    <3> TAKE k \in 1 .. n
    <3>1. s[k] \in S /\ s[k] # m /\ m <= s[k]
      BY <2>2, <2>5
    <3>2. s[k] \in Nat /\ m \in Nat
      BY <2>1, <2>2, <3>1
    <3> QED BY <3>1, <3>2
  <2>7. Lists(n + 1, S, t)
    BY <2>2, <2>4, <2>5, <2>6 DEF Lists
  <2> QED BY <2>7
<1>4. Nat \subseteq N
  <2> HIDE DEF N
  <2> QED BY <1>2, <1>3, SetInduction
<1> QED BY <1>1, <1>4

LEMMA DescendingIsAList ==
  ASSUME NEW ids \in SUBSET Id
  PROVE  Descending(ids) \in Seq(ids) /\ Injective(Descending(ids))
<1> DEFINE n == Cardinality(ids)
           s == Descending(ids)
<1>1. n \in Nat
  BY CanBeListed, FS_CardinalityType
<1>2. PICK t : Lists(n, ids, t)
  BY CanBeListed
<1>3. t \in [1 .. n -> ids] /\ \A j, k \in DOMAIN t : j < k => t[j] > t[k]
  BY <1>2 DEF Lists
<1>4. s \in [1 .. n -> ids] /\ \A j, k \in DOMAIN s : j < k => s[j] > s[k]
  BY <1>3 DEF Descending
<1>5. \A k \in 1 .. n : s[k] \in Nat
  BY <1>4, IdsAreNumbers
<1>6. Injective(s)
  <2> HIDE DEF s, n
  <2> QED BY <1>1, <1>4, <1>5 DEF Injective
<1>7. s \in Seq(ids)
  <2> HIDE DEF s, n
  <2> QED BY <1>1, <1>4, SeqDef
<1> QED BY <1>6, <1>7
-----------------------------------------------------------------------------
(* The queue of freed ids.                                                 *)

LEMMA ConstantFacts ==
  /\ Id \subseteq Nat /\ MaxLimit \in Nat /\ MinLimit \in 2 .. MaxLimit
  /\ Prefetch \in Nat /\ FirstFill \in 2 .. Prefetch - 1 /\ Quarter \in Nat /\ Quarter > 1
  /\ Half \in Nat /\ Half > 1 /\ Prefetch > 7
  /\ Increase \in Nat /\ Keep \in Nat /\ Share \in Nat /\ Share > 0
  /\ Server \notin Client /\ NoNode \notin Client /\ NoNode # Server
BY SizeAssumption, NodeAssumption DEF Id, Quarter, Half

(* The objects with the ids in order end.                                  *)
LEMMA FreedKeepsPool ==
  ASSUME NEW p, PoolOK(p, occupied, behind),
         NEW order \in Seq(Id), Injective(order),
         \A k \in DOMAIN order : p.owner[order[k]] # NoNode,
         occupied \subseteq Id, NEW left \in SUBSET occupied, \A k \in DOMAIN order : order[k] \notin left
  PROVE  PoolOK(Freed(p, order), left, Behind(order))
<1> DEFINE q == Freed(p, order)
           since == Behind(order)
           n == Len(p.freed)
           m == Len(order)
<1>1. /\ p.freed \in Seq(Id) /\ n \in Nat /\ DOMAIN p.freed = 1 .. n
      /\ m \in Nat /\ DOMAIN order = 1 .. m
      /\ p.owner \in [Id -> Owner]
      /\ \A k \in 1 .. n : p.freed[k] \in Id
      /\ \A k \in 1 .. m : order[k] \in Id
  BY DEF PoolOK, Pool
<1>2. /\ q.freed \in Seq(Id) /\ Len(q.freed) = n + m /\ DOMAIN q.freed = 1 .. n + m
      /\ \A k \in 1 .. n + m : q.freed[k] = IF k <= n THEN p.freed[k] ELSE order[k - n]
  <2>1. q.freed = p.freed \o order
    BY DEF Freed, PoolOK, Pool
  <2>2. p.freed \o order \in Seq(Id)
    BY <1>1, ConcatProperties
  <2> HIDE DEF q
  <2> QED BY <1>1, <2>1, <2>2, ConcatProperties, LenProperties
<1>3. \A i \in Id : q.owner[i] = IF \E k \in 1 .. m : order[k] = i THEN NoNode ELSE p.owner[i]
  BY <1>1 DEF Freed, PoolOK, Pool
<1>4. q \in Pool /\ q.current <= q.limit
  <2>1. q.owner \in [Id -> Owner]
    BY <1>1 DEF Freed, PoolOK, Pool, Owner
  <2>2. q = [p EXCEPT !.owner = q.owner, !.freed = q.freed]
    BY DEF Freed, PoolOK, Pool
  <2> HIDE DEF q
  <2> QED BY <1>2, <2>1, <2>2 DEF PoolOK, Pool
<1>5. \A i \in Id : (~ \E k \in 1 .. m : order[k] = i) => since[i] = Smaller(behind[i] + m, Keep)
  BY <1>1 DEF Behind
<1>6. \A k \in 1 .. m : since[order[k]] = Smaller(m - k, Keep)
  <2> TAKE k \in 1 .. m
  <2> DEFINE at == {j \in DOMAIN order : order[j] = order[k]}
  <2>1. at = {k}
    BY <1>1 DEF Injective
  <2>2. since[order[k]] = Smaller(m - (CHOOSE j \in at : TRUE), Keep)
    BY <1>1, <2>1 DEF Behind
  <2>3. (CHOOSE j \in at : TRUE) = k
    BY <2>1
  <2> QED BY <2>2, <2>3
<1>7. /\ Injective(p.freed) /\ behind \in [Id -> 0 .. Keep]
      /\ \A k \in 1 .. n : p.owner[p.freed[k]] = NoNode /\ behind[p.freed[k]] = Smaller(n - k, Keep)
      /\ \A i \in Id : IF p.owner[i] = NoNode THEN \E k \in 1 .. n : p.freed[k] = i
                                              ELSE behind[i] = Keep
      /\ \A i \in occupied : p.owner[i] # NoNode
  BY <1>1 DEF PoolOK, QueueOf
<1>8. /\ \A k \in 1 .. n, j \in 1 .. m : p.freed[k] # order[j]
      /\ \A j, k \in 1 .. n : p.freed[j] = p.freed[k] => j = k
      /\ \A j, k \in 1 .. m : order[j] = order[k] => j = k
  BY <1>1, <1>7 DEF Injective
<1> HIDE DEF q, since, n, m
<1>9. Injective(q.freed)
  <2> SUFFICES ASSUME NEW j \in 1 .. n + m, NEW k \in 1 .. n + m, q.freed[j] = q.freed[k]
               PROVE  j = k
    BY <1>2 DEF Injective
  <2>1. CASE j <= n /\ k <= n
    <3>1. j \in 1 .. n /\ k \in 1 .. n /\ p.freed[j] = p.freed[k]
      BY <1>1, <1>2, <2>1
    <3> QED BY <1>8, <3>1
  <2>2. CASE j > n /\ k > n
    <3>1. j - n \in 1 .. m /\ k - n \in 1 .. m /\ order[j - n] = order[k - n]
      BY <1>1, <1>2, <2>2
    <3>2. j - n = k - n
      BY <1>8, <3>1
    <3> QED BY <1>1, <3>2
  <2>3. CASE j <= n /\ k > n
    <3>1. j \in 1 .. n /\ k - n \in 1 .. m /\ p.freed[j] = order[k - n]
      BY <1>1, <1>2, <2>3
    <3> QED BY <1>8, <3>1
  <2>4. CASE j > n /\ k <= n
    <3>1. k \in 1 .. n /\ j - n \in 1 .. m /\ p.freed[k] = order[j - n]
      BY <1>1, <1>2, <2>4
    <3> QED BY <1>8, <3>1
  <2> QED BY <1>1, <2>1, <2>2, <2>3, <2>4
<1>10. \A k \in 1 .. n + m :
         q.owner[q.freed[k]] = NoNode /\ since[q.freed[k]] = Smaller(n + m - k, Keep)
  <2> TAKE k \in 1 .. n + m
  <2>1. CASE k <= n
    <3>1. q.freed[k] = p.freed[k] /\ p.freed[k] \in Id /\ ~ \E j \in 1 .. m : order[j] = p.freed[k]
      BY <1>1, <1>2, <1>8, <2>1
    <3>2. k \in 1 .. n /\ p.owner[p.freed[k]] = NoNode /\ behind[p.freed[k]] = Smaller(n - k, Keep)
      BY <1>1, <1>7, <2>1
    <3>3. since[p.freed[k]] = Smaller(behind[p.freed[k]] + m, Keep)
      BY <1>5, <3>1
    <3>4. Smaller(Smaller(n - k, Keep) + m, Keep) = Smaller(n + m - k, Keep)
      BY <1>1, <3>2, ConstantFacts DEF Smaller
    <3>5. q.owner[p.freed[k]] = NoNode
      BY <1>3, <3>1, <3>2
    <3> QED BY <3>1, <3>2, <3>3, <3>4, <3>5
  <2>2. CASE k > n
    <3>1. k - n \in 1 .. m /\ q.freed[k] = order[k - n]
      BY <1>1, <1>2, <2>2
    <3>2. m - (k - n) = n + m - k
      BY <1>1
    <3> QED BY <1>1, <1>3, <1>6, <3>1, <3>2
  <2> QED BY <1>1, <2>1, <2>2
<1>11. ASSUME NEW i \in Id
       PROVE  IF q.owner[i] = NoNode THEN \E k \in 1 .. n + m : q.freed[k] = i ELSE since[i] = Keep
  <2>1. CASE \E k \in 1 .. m : order[k] = i
    <3>1. PICK k \in 1 .. m : order[k] = i
      BY <2>1
    <3>2. n + k \in 1 .. n + m /\ q.freed[n + k] = i
      BY <1>1, <1>2, <3>1
    <3> QED BY <1>3, <2>1, <3>2
  <2>2. CASE ~ \E k \in 1 .. m : order[k] = i
    <3>1. q.owner[i] = p.owner[i] /\ since[i] = Smaller(behind[i] + m, Keep)
      BY <1>3, <1>5, <2>2
    <3>2. CASE p.owner[i] = NoNode
      <4>1. PICK k \in 1 .. n : p.freed[k] = i
        BY <1>7, <3>2
      <4>2. k \in 1 .. n + m /\ q.freed[k] = i
        BY <1>1, <1>2, <4>1
      <4> QED BY <3>1, <3>2, <4>2
    <3>3. CASE p.owner[i] # NoNode
      BY <1>1, <1>7, <3>1, <3>3, ConstantFacts DEF Smaller
    <3> QED BY <3>2, <3>3
  <2> QED BY <2>1, <2>2
<1>12. \A i \in left : q.owner[i] # NoNode
  <2> TAKE i \in left
  <2>1. i \in Id /\ i \in occupied /\ ~ \E k \in 1 .. m : order[k] = i
    BY <1>1
  <2>2. p.owner[i] # NoNode
    BY <1>7, <2>1
  <2>3. q.owner[i] = p.owner[i]
    BY <1>3, <2>1
  <2> QED BY <2>2, <2>3
<1>13. since \in [Id -> 0 .. Keep]
  <2>1. \A i \in Id : since[i] \in 0 .. Keep
    <3> TAKE i \in Id
    <3>1. CASE \E k \in 1 .. m : order[k] = i
      <4>1. PICK k \in 1 .. m : order[k] = i
        BY <3>1
      <4>2. since[i] = Smaller(m - k, Keep) /\ m - k \in Nat
        BY <1>1, <1>6, <4>1
      <4> QED BY <4>2, ConstantFacts DEF Smaller
    <3>2. CASE ~ \E k \in 1 .. m : order[k] = i
      <4>1. behind[i] \in Nat
        BY <1>7, ConstantFacts
      <4> QED BY <1>1, <1>5, <3>2, <4>1, ConstantFacts DEF Smaller
    <3> QED BY <3>1, <3>2
  <2>2. since = [i \in Id |-> since[i]]
    BY DEF since, Behind
  <2> QED BY <2>1, <2>2
<1>14. n \in Nat /\ m \in Nat /\ Len(q.freed) = n + m /\ DOMAIN q.freed = 1 .. n + m
  BY <1>1, <1>2
<1>15. QueueOf(q, left, since)
  <2>1. \A k \in DOMAIN q.freed :
          /\ q.owner[q.freed[k]] = NoNode
          /\ since[q.freed[k]] = Smaller(Len(q.freed) - k, Keep)
    <3> TAKE k \in DOMAIN q.freed
    <3>1. k \in 1 .. n + m /\ Len(q.freed) - k = n + m - k
      BY <1>14
    <3>2. q.owner[q.freed[k]] = NoNode /\ since[q.freed[k]] = Smaller(n + m - k, Keep)
      BY <1>10, <3>1
    <3> QED BY <3>1, <3>2
  <2>2. \A i \in Id : IF q.owner[i] = NoNode THEN \E k \in DOMAIN q.freed : q.freed[k] = i
                                            ELSE since[i] = Keep
    BY <1>11, <1>14
  <2> QED BY <1>9, <1>12, <1>13, <2>1, <2>2 DEF QueueOf
<1>16. PoolOK(q, left, since)
  BY <1>4, <1>15 DEF PoolOK
<1> QED BY <1>16 DEF q, since

LEMMA OwnersMayChange ==
  ASSUME NEW p, NEW taken, NEW since, PoolOK(p, taken, since),
         NEW f \in [Id -> Owner], \A i \in Id : f[i] = NoNode <=> p.owner[i] = NoNode,
         taken \subseteq Id
  PROVE  PoolOK([p EXCEPT !.owner = f], taken, since)
<1> DEFINE q == [p EXCEPT !.owner = f]
<1>1. /\ q \in Pool /\ q.owner = f /\ q.freed = p.freed /\ q.current <= q.limit
      /\ \A k \in DOMAIN p.freed : p.freed[k] \in Id
  BY DEF PoolOK, Pool
<1> HIDE DEF q
<1>2. QueueOf(q, taken, since)
  BY <1>1 DEF PoolOK, QueueOf
<1>3. PoolOK(q, taken, since)
  BY <1>1, <1>2 DEF PoolOK
<1> QED BY <1>3 DEF q

(* The search recycles freed ids, and takes none from anybody.             *)
Later(p, q) ==
  \A i \in Id : q.owner[i] = p.owner[i] \/ (p.owner[i] = NoNode /\ q.owner[i] = Server)

Found(p, f) ==
  /\ PoolOK(f.pool, occupied, behind) /\ Later(p, f.pool)
  /\ f.id = 0 \/ (f.id \in Id /\ f.pool.owner[f.id] = Server /\ f.id \notin occupied)

LEMMA NoKillFinds ==
  ASSUME NEW p, PoolOK(p, occupied, behind), occupied \subseteq Id
  PROVE  Found(p, NextFreeNoKill(p))
<1> DEFINE limit == Larger(MinLimit, p.limit - 1)
           current == IF p.current > limit THEN 1 ELSE p.current
           n == Len(p.freed)
           out == Larger(0, Len(p.freed) - Kept(limit))
           owner == [i \in Id |-> IF \E k \in 1 .. out : p.freed[k] = i THEN Server ELSE p.owner[i]]
           Ahead(i) == (i - current) % limit
           free == {i \in 1 .. limit : i # current /\ FreeServer(owner, i)}
           id == IF free = {} THEN 0 ELSE CHOOSE i \in free : \A j \in free : Ahead(i) <= Ahead(j)
           rest == SubSeq(p.freed, out + 1, Len(p.freed))
           next == IF id = 0 THEN current ELSE id
           q == [p EXCEPT !.owner = owner, !.limit = limit, !.current = next, !.freed = rest]
<1>1. NextFreeNoKill(p) = [pool |-> q, id |-> id]
  BY DEF NextFreeNoKill, PoolOK, Pool
<1>2. /\ p \in Pool /\ p.current <= p.limit /\ p.current \in 1 .. MaxLimit
      /\ p.limit \in MinLimit .. MaxLimit /\ p.freed \in Seq(Id) /\ p.owner \in [Id -> Owner]
      /\ n \in Nat /\ DOMAIN p.freed = 1 .. n /\ \A k \in 1 .. n : p.freed[k] \in Id
  BY DEF PoolOK, Pool
<1>3. /\ limit \in MinLimit .. MaxLimit /\ limit \in Nat /\ limit > 0
      /\ current \in 1 .. limit /\ current \in Nat
  BY <1>2, ConstantFacts DEF Larger
<1>4. /\ out \in 0 .. n /\ out \in Nat
      /\ out > 0 => n - out >= Keep
  <2>1. Kept(limit) \in Nat /\ Kept(limit) >= Keep
    <3>1. limit \div Share \in Nat
      BY <1>3, ConstantFacts
    <3> QED BY <3>1, ConstantFacts DEF Kept, Larger
  <2> QED BY <1>2, <2>1, ConstantFacts DEF Larger
<1>5. id = 0 \/ id \in free
  <2> SUFFICES ASSUME free # {} PROVE \E i \in free : \A j \in free : Ahead(i) <= Ahead(j)
    OBVIOUS
  <2> DEFINE T == {Ahead(i) : i \in free}
  <2>1. \A i \in free : Ahead(i) \in Nat
    BY <1>3
  <2>2. T \in SUBSET Nat /\ T # {}
    BY <2>1
  <2>3. PICK t \in T : \A u \in T : t <= u
    BY <2>2, SmallestMember
  <2> QED BY <2>3
<1>6. free \subseteq 1 .. limit /\ 1 .. limit \subseteq Id
  BY <1>3, ConstantFacts DEF Id
<1>7. next \in 1 .. limit
  BY <1>3, <1>5, <1>6
<1>8. \A i \in Id : owner[i] = IF \E k \in 1 .. out : p.freed[k] = i THEN Server ELSE p.owner[i]
  OBVIOUS
<1>9. owner \in [Id -> Owner]
  BY <1>2 DEF Owner
<1>10. /\ rest \in Seq(Id) /\ Len(rest) = n - out /\ DOMAIN rest = 1 .. n - out
       /\ \A k \in 1 .. n - out : rest[k] = p.freed[out + k]
  <2>1. \A k \in out + 1 .. n : p.freed[k] \in Id
    BY <1>2, <1>4
  <2>2. CASE out = n
    <3>1. rest = << >>
      BY <1>2, <2>2, SubSeqProperties
    <3> QED BY <1>2, <2>2, <3>1
  <2>3. CASE out # n
    <3>1. out + 1 \in 1 .. n + 1 /\ n \in out .. n
      BY <1>2, <1>4
    <3>2. rest \in Seq(Id)
      BY <1>2, <1>4, <2>3, SubSeqProperties
    <3>3. Len(rest) = n - out
      BY <1>2, <1>4, <2>3, SubSeqProperties
    <3>4. \A k \in 1 .. n - out : rest[k] = p.freed[out + k]
      BY <1>2, <1>4, <2>3, <3>3, SubSeqProperties
    <3> QED BY <3>2, <3>3, <3>4, LenProperties
  <2> QED BY <2>2, <2>3
<1>11. /\ q \in Pool /\ q.owner = owner /\ q.freed = rest /\ q.current <= q.limit
  <2>1. next \in 1 .. MaxLimit /\ next <= limit
    <3> HIDE DEF next, limit
    <3> QED BY <1>3, <1>7, ConstantFacts
  <2> HIDE DEF next, rest, owner, limit
  <2> QED BY <1>2, <1>3, <1>9, <1>10, <2>1 DEF Pool
<1>12. id = 0 \/ (id \in Id /\ owner[id] = Server /\ id \notin occupied)
  BY <1>5, <1>6 DEF FreeServer
<1> HIDE DEF q, id, next, rest, free, owner, out, limit, current, n
<1>13. /\ Injective(p.freed) /\ behind \in [Id -> 0 .. Keep]
       /\ \A k \in 1 .. n : p.owner[p.freed[k]] = NoNode /\ behind[p.freed[k]] = Smaller(n - k, Keep)
       /\ \A i \in Id : IF p.owner[i] = NoNode THEN \E k \in 1 .. n : p.freed[k] = i
                                               ELSE behind[i] = Keep
       /\ \A i \in occupied : p.owner[i] # NoNode
  BY <1>2 DEF PoolOK, QueueOf, n
<1>14. \A i \in Id : owner[i] = p.owner[i] \/ (p.owner[i] = NoNode /\ owner[i] = Server)
  BY <1>2, <1>4, <1>8, <1>13
<1>15. \A k \in 1 .. n - out : out + k \in 1 .. n
  BY <1>2, <1>4
<1>16. Injective(rest)
  <2> SUFFICES ASSUME NEW j \in 1 .. n - out, NEW k \in 1 .. n - out, rest[j] = rest[k]
               PROVE  j = k
    BY <1>10 DEF Injective
  <2>1. p.freed[out + j] = p.freed[out + k]
    BY <1>10
  <2>2. out + j = out + k
    BY <1>2, <1>13, <1>15, <2>1 DEF Injective
  <2> QED BY <1>4, <2>2
<1>17. ASSUME NEW k \in DOMAIN rest
       PROVE  owner[rest[k]] = NoNode /\ behind[rest[k]] = Smaller(Len(rest) - k, Keep)
  <2>1. k \in 1 .. n - out /\ rest[k] = p.freed[out + k] /\ out + k \in 1 .. n
    BY <1>10, <1>15, <1>17
  <2>2. p.freed[out + k] \in Id /\ p.owner[p.freed[out + k]] = NoNode
        /\ behind[p.freed[out + k]] = Smaller(n - (out + k), Keep)
    BY <1>2, <1>13, <2>1
  <2>3. ~ \E j \in 1 .. out : p.freed[j] = p.freed[out + k]
    <3> SUFFICES ASSUME NEW j \in 1 .. out, p.freed[j] = p.freed[out + k] PROVE FALSE
      OBVIOUS
    <3>1. j \in 1 .. n /\ j # out + k
      BY <1>2, <1>4, <2>1
    <3> QED BY <1>2, <1>13, <2>1, <3>1 DEF Injective
  <2>4. owner[p.freed[out + k]] = NoNode
    BY <1>8, <2>2, <2>3
  <2>5. n - (out + k) = Len(rest) - k
    BY <1>2, <1>4, <1>10, <2>1
  <2> QED BY <2>1, <2>2, <2>4, <2>5
<1>18. ASSUME NEW i \in Id
       PROVE  IF owner[i] = NoNode THEN \E k \in DOMAIN rest : rest[k] = i ELSE behind[i] = Keep
  <2>1. CASE \E k \in 1 .. out : p.freed[k] = i
    <3>1. PICK k \in 1 .. out : p.freed[k] = i
      BY <2>1
    <3>2. owner[i] # NoNode
      BY <1>8, <2>1, ConstantFacts
    <3>3. k \in 1 .. n /\ n - k >= Keep
      BY <1>2, <1>4, ConstantFacts
    <3>4. behind[i] = Smaller(n - k, Keep)
      BY <1>13, <3>1, <3>3
    <3>5. n - k \in Nat
      BY <1>2, <3>3
    <3> QED BY <3>2, <3>3, <3>4, <3>5, ConstantFacts DEF Smaller
  <2>2. CASE ~ \E k \in 1 .. out : p.freed[k] = i
    <3>1. owner[i] = p.owner[i]
      BY <1>8, <2>2
    <3>2. CASE p.owner[i] = NoNode
      <4>1. PICK k \in 1 .. n : p.freed[k] = i
        BY <1>13, <3>2
      <4>2. k - out \in 1 .. n - out /\ out + (k - out) = k
        BY <1>2, <1>4, <2>2, <4>1
      <4>3. rest[k - out] = i
        BY <1>10, <4>1, <4>2
      <4> QED BY <1>10, <3>1, <3>2, <4>2, <4>3
    <3>3. CASE p.owner[i] # NoNode
      BY <1>13, <3>1, <3>3
    <3> QED BY <3>2, <3>3
  <2> QED BY <2>1, <2>2
<1>19. \A i \in occupied : owner[i] # NoNode
  BY <1>13, <1>14, ConstantFacts
<1>20. QueueOf(q, occupied, behind)
  BY <1>11, <1>13, <1>16, <1>17, <1>18, <1>19 DEF QueueOf
<1>21. PoolOK(q, occupied, behind)
  BY <1>11, <1>20 DEF PoolOK
<1>22. Later(p, q)
  BY <1>11, <1>14 DEF Later
<1> QED BY <1>1, <1>11, <1>12, <1>21, <1>22 DEF Found

LEMMA ServerFinds ==
  ASSUME NEW p, PoolOK(p, occupied, behind), occupied \subseteq Id
  PROVE  Found(p, NextFreeServer(p))
<1> DEFINE first == NextFreeNoKill(p)
           longer == [first.pool EXCEPT !.limit = Extended(@), !.runOut = TRUE]
           second == NextFreeNoKill(longer)
<1>1. Found(p, first)
  BY NoKillFinds
<1>2. ASSUME first.id = 0 PROVE Found(p, second)
  <2>1. first.pool \in Pool /\ first.pool.current <= first.pool.limit
    BY <1>1 DEF Found, PoolOK
  <2>2. /\ Extended(first.pool.limit) \in MinLimit .. MaxLimit
        /\ first.pool.limit <= Extended(first.pool.limit)
    BY <2>1, ConstantFacts DEF Pool, Extended
  <2>3. /\ longer \in Pool /\ longer.current <= longer.limit
        /\ longer.owner = first.pool.owner /\ longer.freed = first.pool.freed
    <3> DEFINE l == Extended(first.pool.limit)
    <3>1. longer = [first.pool EXCEPT !.limit = l, !.runOut = TRUE]
      BY <2>1 DEF Pool
    <3>2. first.pool.limit \in Nat /\ l \in Nat /\ first.pool.current \in Nat
      BY <2>1, <2>2, ConstantFacts DEF Pool
    <3>3. l \in MinLimit .. MaxLimit /\ first.pool.limit <= l
      BY <2>2
    <3> HIDE DEF first, l, longer
    <3>4. /\ longer \in Pool /\ longer.current = first.pool.current /\ longer.limit = l
          /\ longer.owner = first.pool.owner /\ longer.freed = first.pool.freed
      BY <2>1, <3>1, <3>3 DEF Pool
    <3> QED BY <2>1, <3>2, <3>3, <3>4
  <2> HIDE DEF longer, first
  <2>4. PoolOK(longer, occupied, behind)
    BY <1>1, <2>3 DEF Found, PoolOK, QueueOf
  <2>5. Found(longer, second)
    BY <2>4, NoKillFinds
  <2>6. \A i \in Id : first.pool.owner[i] = p.owner[i]
                      \/ (p.owner[i] = NoNode /\ first.pool.owner[i] = Server)
    BY <1>1 DEF Found, Later
  <2>7. \A i \in Id : second.pool.owner[i] = first.pool.owner[i]
                      \/ (first.pool.owner[i] = NoNode /\ second.pool.owner[i] = Server)
    BY <2>3, <2>5 DEF Found, Later
  <2>8. Later(p, second.pool)
    BY <2>6, <2>7, ConstantFacts DEF Later
  <2> QED BY <2>5, <2>8 DEF Found
<1> QED BY <1>1, <1>2 DEF NextFreeServer

-----------------------------------------------------------------------------
(* The loop of id_req_handler.                                             *)

OneMore(c, before) ==
  LET next == NextFreeServer(before.pool) IN
  IF before.failed THEN before
  ELSE IF next.id = 0
       THEN [before EXCEPT !.pool = next.pool, !.failed = TRUE]
       ELSE [pool |-> [next.pool EXCEPT !.owner[next.id] = c],
             ids |-> Append(before.ids, next.id), failed |-> FALSE]

IsLoop(c, n, g) ==
  g = [k \in 0 .. n |-> IF k = 0 THEN [pool |-> pool, ids |-> <<>>, failed |-> FALSE]
                                 ELSE OneMore(c, g[k - 1])]

(* What the loop has after k rounds: ids that nobody had, and that are the *)
(* client's now.                                                           *)
Reserved(c, k, d) ==
  /\ DOMAIN d = {"pool", "ids", "failed"} /\ d.failed \in BOOLEAN
  /\ PoolOK(d.pool, occupied, behind)
  /\ d.ids \in Seq(Id) /\ Injective(d.ids)
  /\ ~d.failed => Len(d.ids) = k
  /\ \A i \in Ids(d.ids) :
       d.pool.owner[i] = c /\ pool.owner[i] \in {Server, NoNode} /\ i \notin occupied
  /\ \A i \in Id \ Ids(d.ids) :
       \/ d.pool.owner[i] = pool.owner[i]
       \/ pool.owner[i] = NoNode /\ d.pool.owner[i] = Server

LEMMA RoundReserves ==
  ASSUME NEW c \in Client, NEW k \in Nat, NEW b, Reserved(c, k, b), occupied \subseteq Id
  PROVE  Reserved(c, k + 1, OneMore(c, b))
<1> DEFINE next == NextFreeServer(b.pool)
           q == next.pool
<1>1. CASE b.failed
  <2>1. OneMore(c, b) = b
    BY <1>1 DEF OneMore
  <2> QED BY <1>1, <2>1 DEF Reserved
<1>2. CASE ~b.failed
  <2>1. Found(b.pool, next)
    BY ServerFinds DEF Reserved
  <2>2. /\ DOMAIN b = {"pool", "ids", "failed"} /\ b.ids \in Seq(Id) /\ Injective(b.ids)
        /\ Len(b.ids) = k /\ DOMAIN b.ids = 1 .. k
        /\ \A i \in Ids(b.ids) :
             b.pool.owner[i] = c /\ pool.owner[i] \in {Server, NoNode} /\ i \notin occupied
        /\ \A i \in Id \ Ids(b.ids) :
             \/ b.pool.owner[i] = pool.owner[i]
             \/ pool.owner[i] = NoNode /\ b.pool.owner[i] = Server
    BY <1>2 DEF Reserved
  <2>3. Ids(b.ids) \subseteq Id
    BY <2>2 DEF Ids
  <2> HIDE DEF next
  <2>4. \A i \in Id : q.owner[i] = b.pool.owner[i] \/ (b.pool.owner[i] = NoNode /\ q.owner[i] = Server)
    BY <2>1 DEF Found, Later
  <2>5. \A i \in Ids(b.ids) : q.owner[i] = c
    BY <2>2, <2>3, <2>4, ConstantFacts
  <2>6. \A i \in Id \ Ids(b.ids) :
          q.owner[i] = pool.owner[i] \/ (pool.owner[i] = NoNode /\ q.owner[i] = Server)
    BY <2>2, <2>4, ConstantFacts
  <2>7. CASE next.id = 0
    <3> DEFINE d == OneMore(c, b)
    <3>1. d = [b EXCEPT !.pool = q, !.failed = TRUE]
      BY <1>2, <2>7 DEF OneMore, next
    <3>2. /\ DOMAIN d = {"pool", "ids", "failed"}
          /\ d.pool = q /\ d.ids = b.ids /\ d.failed = TRUE
      BY <2>2, <3>1
    <3> HIDE DEF d
    <3>3. Reserved(c, k + 1, d)
      BY <2>1, <2>2, <2>5, <2>6, <3>2 DEF Reserved, Found
    <3> QED BY <3>3 DEF d
  <2>8. CASE next.id # 0
    <3> DEFINE d == OneMore(c, b)
               i == next.id
               f == [q.owner EXCEPT ![i] = c]
    <3>1. d = [pool |-> [q EXCEPT !.owner[i] = c], ids |-> Append(b.ids, i), failed |-> FALSE]
      BY <1>2, <2>8 DEF OneMore, next
    <3>2. i \in Id /\ q.owner[i] = Server /\ i \notin occupied /\ q \in Pool /\ q.owner \in [Id -> Owner]
      BY <2>1, <2>8 DEF Found, PoolOK, Pool
    <3>3. /\ d.pool = [q EXCEPT !.owner = f] /\ d.ids = Append(b.ids, i) /\ ~d.failed
          /\ DOMAIN d = {"pool", "ids", "failed"} /\ d.failed \in BOOLEAN
      BY <3>1
    <3>4. f \in [Id -> Owner] /\ f[i] = c /\ \A j \in Id : j # i => f[j] = q.owner[j]
      BY <3>2 DEF Owner
    <3>5. d.pool.owner = f
      BY <3>2, <3>3 DEF Pool
    <3> HIDE DEF d, f
    <3>6. PoolOK(d.pool, occupied, behind)
      <4>1. \A j \in Id : f[j] = NoNode <=> q.owner[j] = NoNode
        BY <3>2, <3>4, ConstantFacts
      <4>2. PoolOK(q, occupied, behind)
        BY <2>1 DEF Found
      <4> QED BY <3>3, <3>4, <4>1, <4>2, OwnersMayChange
    <3>7. i \notin Ids(b.ids)
      BY <2>5, <3>2, ConstantFacts
    <3>8. /\ d.ids \in Seq(Id) /\ Len(d.ids) = k + 1 /\ DOMAIN d.ids = 1 .. k + 1
          /\ d.ids[k + 1] = i /\ \A j \in 1 .. k : d.ids[j] = b.ids[j]
      BY <2>2, <3>2, <3>3, AppendProperties, LenProperties
    <3>9. Ids(d.ids) = Ids(b.ids) \cup {i}
      BY <2>2, <3>8 DEF Ids
    <3>10. Injective(d.ids)
      <4> SUFFICES ASSUME NEW j \in 1 .. k + 1, NEW m \in 1 .. k + 1, d.ids[j] = d.ids[m]
                   PROVE  j = m
        BY <3>8 DEF Injective
      <4>1. \A l \in 1 .. k : b.ids[l] # i
        BY <2>2, <3>7 DEF Ids
      <4>2. CASE j \in 1 .. k /\ m \in 1 .. k
        BY <2>2, <3>8, <4>2 DEF Injective
      <4>3. CASE j = k + 1 \/ m = k + 1
        BY <3>8, <4>1, <4>3
      <4> QED BY <4>2, <4>3
    <3>11. \A j \in Ids(d.ids) :
             d.pool.owner[j] = c /\ pool.owner[j] \in {Server, NoNode} /\ j \notin occupied
      BY <2>2, <2>3, <2>5, <2>6, <3>2, <3>4, <3>5, <3>7, <3>9
    <3>12. \A j \in Id \ Ids(d.ids) :
             d.pool.owner[j] = pool.owner[j] \/ (pool.owner[j] = NoNode /\ d.pool.owner[j] = Server)
      BY <2>6, <3>4, <3>5, <3>9
    <3>13. Reserved(c, k + 1, d)
      BY <3>3, <3>6, <3>8, <3>10, <3>11, <3>12 DEF Reserved
    <3> QED BY <3>13 DEF d
  <2> QED BY <2>7, <2>8
<1> QED BY <1>1, <1>2 DEF Reserved

LEMMA LoopExists ==
  ASSUME NEW c, NEW num \in Nat
  PROVE  \E g : IsLoop(c, num, g)
<1> DEFINE S == {n \in Nat : \E g : IsLoop(c, n, g)}
<1>1. 0 \in S
  <2>1. IsLoop(c, 0, [k \in 0 .. 0 |-> [pool |-> pool, ids |-> <<>>, failed |-> FALSE]])
    BY DEF IsLoop
  <2> QED BY <2>1
<1>2. ASSUME NEW n \in Nat, n \in S PROVE n + 1 \in S
  <2>1. PICK g : IsLoop(c, n, g)
    BY <1>2
  <2> DEFINE h == [k \in 0 .. n + 1 |-> IF k = n + 1 THEN OneMore(c, g[n]) ELSE g[k]]
  <2>2. \A k \in 0 .. n : h[k] = g[k]
    OBVIOUS
  <2>3. \A k \in 0 .. n : g[k] = IF k = 0 THEN [pool |-> pool, ids |-> <<>>, failed |-> FALSE]
                                          ELSE OneMore(c, g[k - 1])
    BY <2>1 DEF IsLoop
  <2>4. \A k \in 0 .. n + 1 : h[k] = IF k = 0 THEN [pool |-> pool, ids |-> <<>>, failed |-> FALSE]
                                              ELSE OneMore(c, h[k - 1])
    <3> TAKE k \in 0 .. n + 1
    <3>1. CASE k = n + 1
      <4>1. h[k] = OneMore(c, g[n]) /\ k # 0 /\ k - 1 = n /\ h[n] = g[n]
        BY <2>2, <3>1
      <4> QED BY <4>1
    <3>2. CASE k # n + 1
      <4>1. k \in 0 .. n /\ h[k] = g[k] /\ (k # 0 => k - 1 \in 0 .. n)
        BY <3>2
      <4>2. k # 0 => h[k - 1] = g[k - 1]
        BY <2>2, <4>1
      <4> QED BY <2>3, <4>1, <4>2
    <3> QED BY <3>1, <3>2
  <2>5. h = [k \in 0 .. n + 1 |-> h[k]]
    OBVIOUS
  <2>6. IsLoop(c, n + 1, h)
    <3> HIDE DEF h
    <3> QED BY <2>4, <2>5 DEF IsLoop
  <2> QED BY <2>6
<1>3. Nat \subseteq S
  <2> HIDE DEF S
  <2> QED BY <1>1, <1>2, SetInduction
<1> QED BY <1>3

LEMMA AssignedReserves ==
  ASSUME NEW c \in Client, NEW num \in Nat,
         occupied \subseteq Id, PoolOK(pool, occupied, behind)
  PROVE  Reserved(c, num, Assigned(c, num))
<1> DEFINE g == CHOOSE h : IsLoop(c, num, h)
<1>1. Assigned(c, num) = g[num]
  BY DEF Assigned, IsLoop, OneMore
<1>2. IsLoop(c, num, g)
  BY LoopExists
<1> HIDE DEF g
<1>3. \A k \in 0 .. num : g[k] = IF k = 0 THEN [pool |-> pool, ids |-> <<>>, failed |-> FALSE]
                                          ELSE OneMore(c, g[k - 1])
  BY <1>2 DEF IsLoop
<1> DEFINE S == {k \in Nat : k <= num => Reserved(c, k, g[k])}
<1>4. 0 \in S
  <2> DEFINE d == [pool |-> pool, ids |-> <<>>, failed |-> FALSE]
  <2>1. g[0] = d
    <3>1. 0 \in 0 .. num
      OBVIOUS
    <3> QED BY <1>3, <3>1
  <2>2. /\ DOMAIN d = {"pool", "ids", "failed"} /\ d.failed \in BOOLEAN /\ d.pool = pool
        /\ d.ids = <<>> /\ d.ids \in Seq(Id) /\ Len(d.ids) = 0 /\ Injective(d.ids) /\ Ids(d.ids) = {}
    BY DEF Injective, Ids
  <2> HIDE DEF d
  <2>3. Reserved(c, 0, d)
    BY <2>2 DEF Reserved
  <2> QED BY <2>1, <2>3
<1>5. ASSUME NEW k \in Nat, k \in S PROVE k + 1 \in S
  <2> SUFFICES ASSUME k + 1 <= num PROVE Reserved(c, k + 1, g[k + 1])
    OBVIOUS
  <2>1. Reserved(c, k, g[k])
    BY <1>5
  <2>2. g[k + 1] = OneMore(c, g[k])
    <3>1. k + 1 \in 0 .. num /\ k + 1 # 0 /\ (k + 1) - 1 = k
      OBVIOUS
    <3> QED BY <1>3, <3>1
  <2> QED BY <2>1, <2>2, RoundReserves
<1>6. Nat \subseteq S
  <2> HIDE DEF S
  <2> QED BY <1>4, <1>5, SetInduction
<1> QED BY <1>1, <1>6

-----------------------------------------------------------------------------
(* A client leaves.                                                        *)

LEMMA IdsOfNone == Ids(<<>>) = {}
BY DEF Ids

(* It may go in the middle of a request, with ids that nobody had.         *)
LeaveFrom(p, c) ==
  /\ PoolOK(p, occupied, behind)
  /\ \A i \in Id : \/ p.owner[i] = pool.owner[i]
                   \/ pool.owner[i] \in {Server, NoNode} /\ p.owner[i] \in {Server, c}

LEMMA LeaveFrees ==
  ASSUME IdInv, NEW c \in connected, NEW p, LeaveFrom(p, c), Leave(p, c)
  PROVE  /\ PoolOK(pool', occupied', behind') /\ occupied' \subseteq occupied
         /\ \A i \in Id : pool'.owner[i] # c
         /\ \A d \in Client \ {c} : \A i \in Id : pool'.owner[i] = d <=> pool.owner[i] = d
<1> USE DEF IdInv
<1>1. /\ c \in Client /\ occupied \subseteq Id /\ p.owner \in [Id -> Owner] /\ connected \subseteq Client
  BY DEF TypeOK, LeaveFrom, PoolOK, Pool
<1>2. PICK gone \in SUBSET {i \in occupied : p.owner[i] = c} :
        LET order == Descending(gone)
            left == Freed(p, order)
        IN
        /\ pool' = [left EXCEPT !.owner = ClearOwner(@, c)]
        /\ behind' = Behind(order)
        /\ occupied' = occupied \ gone
        /\ connected' = connected \ {c} /\ waiting' = waiting \ {c}
        /\ ring' = [ring EXCEPT ![c] = <<>>]
        /\ used' = [used EXCEPT ![c] = {}]
        /\ lost' = [lost EXCEPT ![c] = {}]
        /\ asked' = [asked EXCEPT ![c] = [n \in Amount |-> 0]]
        /\ replies' = {r \in replies : r.to # c}
        /\ creations' = Without(creations, c) /\ destroys' = Without(destroys, c)
        /\ UNCHANGED <<stopped, budget>>
  BY DEF Leave
<1> DEFINE order == Descending(gone)
           left == Freed(p, order)
           f == ClearOwner(left.owner, c)
<1>3. order \in Seq(gone) /\ Injective(order) /\ gone \subseteq Id
  BY <1>1, DescendingIsAList
<1> HIDE DEF order
<1>4. /\ order \in Seq(Id)
      /\ \A k \in DOMAIN order : order[k] \in gone /\ p.owner[order[k]] # NoNode
      /\ \A k \in DOMAIN order : order[k] \notin occupied \ gone
  <2>1. DOMAIN order = 1 .. Len(order) /\ \A k \in DOMAIN order : order[k] \in gone
    BY <1>3
  <2>2. order \in Seq(Id)
    BY <1>3, SeqDef
  <2> QED BY <1>1, <2>1, <2>2, ConstantFacts
<1>5. PoolOK(left, occupied \ gone, Behind(order))
  BY <1>1, <1>3, <1>4, FreedKeepsPool DEF LeaveFrom
<1>6. /\ left.owner \in [Id -> Owner]
      /\ \A i \in Id : left.owner[i] = NoNode \/ left.owner[i] = p.owner[i]
      /\ \A i \in Id : left.owner[i] # p.owner[i] => p.owner[i] = c
  <2>1. \A i \in Id : left.owner[i] = IF \E k \in DOMAIN order : order[k] = i THEN NoNode ELSE p.owner[i]
    BY <1>1 DEF Freed, LeaveFrom, PoolOK, Pool
  <2>2. \A k \in DOMAIN order : p.owner[order[k]] = c
    BY <1>4
  <2> QED BY <1>5, <2>1, <2>2 DEF PoolOK, Pool
<1> HIDE DEF left
<1>7. f \in [Id -> Owner] /\ \A i \in Id : f[i] = IF left.owner[i] = c THEN Server ELSE left.owner[i]
  BY <1>6 DEF ClearOwner, Owner
<1>8. PoolOK(pool', occupied', behind')
  <2>1. \A i \in Id : f[i] = NoNode <=> left.owner[i] = NoNode
    BY <1>1, <1>7, ConstantFacts
  <2>2. pool' = [left EXCEPT !.owner = f]
    BY <1>2 DEF order, left
  <2>3. behind' = Behind(order) /\ occupied' = occupied \ gone
    BY <1>2 DEF order
  <2> HIDE DEF f
  <2> QED BY <1>1, <1>5, <1>7, <2>1, <2>2, <2>3, OwnersMayChange
<1>9. /\ \A i \in Id : pool'.owner[i] # c
      /\ \A d \in Client \ {c} : \A i \in Id : pool'.owner[i] = d <=> pool.owner[i] = d
  <2>1. pool'.owner = f
    BY <1>2, <1>5 DEF order, left, PoolOK, Pool
  <2> HIDE DEF f
  <2> QED BY <1>1, <1>6, <1>7, <2>1, ConstantFacts DEF LeaveFrom
<1> QED BY <1>2, <1>8, <1>9

LEMMA LeaveKeeps ==
  ASSUME IdInv, NEW c \in connected, NEW p, LeaveFrom(p, c), Leave(p, c)
  PROVE  IdInv'
<1> USE DEF IdInv
<1>1. c \in Client /\ occupied \subseteq Id /\ connected \subseteq Client
  BY DEF TypeOK
<1>2. /\ PoolOK(pool', occupied', behind') /\ occupied' \subseteq occupied
      /\ \A i \in Id : pool'.owner[i] # c
      /\ \A d \in Client \ {c} : \A i \in Id : pool'.owner[i] = d <=> pool.owner[i] = d
  BY LeaveFrees
<1>3. /\ connected' = connected \ {c} /\ waiting' = waiting \ {c}
      /\ ring' = [ring EXCEPT ![c] = <<>>]
      /\ used' = [used EXCEPT ![c] = {}]
      /\ lost' = [lost EXCEPT ![c] = {}]
      /\ asked' = [asked EXCEPT ![c] = [n \in Amount |-> 0]]
      /\ replies' = {r \in replies : r.to # c}
      /\ creations' = {m \in creations : m[1] # c}
      /\ destroys' = {m \in destroys : m[1] # c}
      /\ stopped' = stopped /\ budget' = budget
  BY DEF Leave, Without
<1>4. /\ ring'[c] = <<>> /\ used'[c] = {} /\ lost'[c] = {} /\ \A n \in Amount : asked'[c][n] = 0
      /\ \A d \in Client \ {c} : ring'[d] = ring[d] /\ used'[d] = used[d] /\ lost'[d] = lost[d]
                                 /\ asked'[d] = asked[d]
      /\ \A r \in replies' : r \in replies /\ r.to # c
      /\ \A r \in replies : r.to # c => r \in replies'
  BY <1>1, <1>3 DEF TypeOK
<1>5. TypeOK'
  <2>1. /\ ring' \in [Client -> Seq(Id)] /\ waiting' \subseteq connected'
        /\ used' \in [Client -> SUBSET Id] /\ lost' \in [Client -> SUBSET Id]
        /\ \A d \in Client : Len(ring'[d]) < Prefetch
        /\ asked' \in [Client -> [Amount -> Nat]]
    BY <1>1, <1>3, ConstantFacts DEF TypeOK
  <2>2. /\ \A r \in replies' : r.to \in connected' /\ r.ids \in Seq(Id)
        /\ creations' \cup destroys' \subseteq connected' \X Id
        /\ connected' \subseteq Client /\ stopped' \in BOOLEAN /\ budget' \in Budget
    BY <1>1, <1>3 DEF TypeOK
  <2> QED BY <1>1, <1>2, <1>3, <2>1, <2>2 DEF TypeOK, PoolOK, Pool, QueueOf
<1>6. ASSUME NEW d \in Client
       PROVE  IF d = c THEN Ring(d)' = {} /\ Underway(d)' = {}
                       ELSE Ring(d)' = Ring(d) /\ Underway(d)' = Underway(d)
  BY <1>4, IdsOfNone DEF Ring, Underway
<1>7. IdsAreOwned'
  <2> SUFFICES ASSUME NEW d \in Client PROVE OwnsItsIds(d)'
    BY DEF IdsAreOwned, OwnsItsIds
  <2>1. OwnsItsIds(d)
    BY DEF IdsAreOwned, OwnsItsIds
  <2>2. CASE d = c
    BY <1>3, <1>4, <1>6, <2>2 DEF OwnsItsIds
  <2>3. CASE d # c
    <3>1. used[d] \subseteq Id /\ Ring(d) \subseteq Id /\ Underway(d) \subseteq Id
      BY DEF TypeOK, Ring, Ids, Underway
    <3> QED BY <1>2, <1>3, <1>4, <1>6, <2>1, <2>3, <3>1 DEF OwnsItsIds
  <2> QED BY <2>2, <2>3
<1>8. Accounted'
  BY <1>1, <1>2, <1>3, <1>4 DEF Accounted, Ring, Underway
<1>9. OnePlace'
  <2> SUFFICES ASSUME NEW d \in Client PROVE IdsApart(d)'
    BY DEF OnePlace
  <2>1. IdsApart(d)
    BY DEF OnePlace
  <2>2. CASE d = c
    BY <1>3, <1>4, <1>6, <2>2 DEF IdsApart, Injective
  <2>3. CASE d # c
    BY <1>2, <1>3, <1>4, <1>6, <2>1, <2>3 DEF IdsApart
  <2> QED BY <2>2, <2>3
<1>10. GoneIsGone'
  BY <1>1, <1>3, <1>4 DEF GoneIsGone
<1>11. MoreComing'
  BY <1>1, <1>3, <1>4 DEF MoreComing
<1> QED BY <1>2, <1>5, <1>7, <1>8, <1>9, <1>10, <1>11 DEF PoolOK

LEMMA CountChanges ==
  ASSUME NEW c \in Client, NEW n \in Amount, NEW v \in Nat, TypeOK,
         asked' = [asked EXCEPT ![c][n] = v]
  PROVE  /\ asked' \in [Client -> [Amount -> Nat]] /\ asked'[c][n] = v
         /\ \A m \in Amount : m # n => asked'[c][m] = asked[c][m]
         /\ \A d \in Client : d # c => asked'[d] = asked[d]
<1>1. asked \in [Client -> [Amount -> Nat]] /\ asked[c] \in [Amount -> Nat]
  BY DEF TypeOK
<1> DEFINE h == [asked[c] EXCEPT ![n] = v]
<1>2. asked' = [asked EXCEPT ![c] = h]
  OBVIOUS
<1>3. h \in [Amount -> Nat] /\ h[n] = v /\ \A m \in Amount : m # n => h[m] = asked[c][m]
  BY <1>1
<1> HIDE DEF h
<1> QED BY <1>1, <1>2, <1>3

LEMMA LogoutKeeps ==
  ASSUME IdInv, NEW c \in Client, Logout(c)
  PROVE  IdInv'
<1>1. c \in connected /\ Leave(pool, c)
  BY DEF Logout
<1>2. LeaveFrom(pool, c)
  BY DEF IdInv, TypeOK, LeaveFrom, PoolOK, Pool
<1> QED BY <1>1, <1>2, LeaveKeeps

LEMMA KillIdHogKeeps ==
  ASSUME IdInv, KillIdHog
  PROVE  IdInv'
<1> DEFINE done == [pool EXCEPT !.runOut = FALSE]
<1>1. /\ PoolOK(pool, occupied, behind)
      /\ done \in Pool /\ done.owner = pool.owner /\ done.freed = pool.freed
      /\ done.current = pool.current /\ done.limit = pool.limit
  BY DEF IdInv, TypeOK, PoolOK, Pool
<1> HIDE DEF done
<1>2. PoolOK(done, occupied, behind)
  BY <1>1 DEF PoolOK, QueueOf
<1>3. ASSUME NEW c \in IdHogs, Leave(done, c) PROVE IdInv'
  <2>1. c \in connected
    BY <1>3 DEF IdHogs
  <2>2. LeaveFrom(done, c)
    BY <1>1, <1>2 DEF LeaveFrom
  <2> QED BY <1>3, <2>1, <2>2, LeaveKeeps
<1>4. ASSUME pool' = done, UNCHANGED <<occupied, clients, wires, behind, connected, stopped, budget>>
      PROVE  IdInv'
  <2>1. /\ occupied' = occupied /\ ring' = ring /\ waiting' = waiting /\ used' = used /\ lost' = lost
        /\ asked' = asked /\ replies' = replies /\ creations' = creations /\ destroys' = destroys
        /\ behind' = behind /\ connected' = connected /\ stopped' = stopped /\ budget' = budget
        /\ pool'.owner = pool.owner
    BY <1>1, <1>4 DEF clients, wires
  <2>2. TypeOK'
    BY <1>1, <1>4, <2>1 DEF IdInv, TypeOK, Pool
  <2>3. QueueOf(pool', occupied', behind')
    BY <1>2, <1>4, <2>1 DEF PoolOK
  <2>4. \A c \in Client : Ring(c)' = Ring(c) /\ Underway(c)' = Underway(c)
    BY <2>1 DEF Ring, Underway
  <2>5. IdsAreOwned' /\ Accounted'
    BY <2>1, <2>4 DEF IdInv, IdsAreOwned, Accounted
  <2>6. OnePlace' /\ GoneIsGone' /\ MoreComing'
    BY <2>1, <2>4 DEF IdInv, OnePlace, IdsApart, GoneIsGone, MoreComing
  <2> QED BY <2>2, <2>3, <2>5, <2>6 DEF IdInv
<1> QED BY <1>3, <1>4 DEF KillIdHog, done

LEMMA LoginKeeps ==
  ASSUME IdInv, NEW c \in Client, Login(c)
  PROVE  IdInv'
<1> USE DEF IdInv
<1>1. /\ c \notin connected /\ connected' = connected \cup {c}
      /\ budget' = [budget EXCEPT !.logins[c] = @ - 1] /\ budget.logins[c] > 0
      /\ asked' = [asked EXCEPT ![c][FirstFill] = @ + 1]
      /\ pool' = pool /\ occupied' = occupied /\ ring' = ring /\ waiting' = waiting
      /\ used' = used /\ lost' = lost /\ replies' = replies /\ creations' = creations
      /\ destroys' = destroys /\ behind' = behind /\ stopped' = stopped
  BY DEF Login, clients
<1>2. FirstFill \in Amount /\ asked'[c][FirstFill] > 0
      /\ \A d \in Client \ {c} : asked'[d] = asked[d]
      /\ asked' \in [Client -> [Amount -> Nat]]
  <2>1. FirstFill \in Amount
    BY DEF Amount
  <2> DEFINE v == asked[c][FirstFill] + 1
  <2>2. v \in Nat /\ v > 0
    BY <2>1 DEF TypeOK
  <2>3. asked' = [asked EXCEPT ![c][FirstFill] = v]
    BY <1>1
  <2> HIDE DEF v
  <2> QED BY <2>1, <2>2, <2>3, CountChanges
<1>3. budget' \in Budget
  <2> DEFINE l == [budget.logins EXCEPT ![c] = @ - 1]
  <2>1. budget \in Budget /\ budget' = [budget EXCEPT !.logins = l]
    BY <1>1 DEF TypeOK
  <2>2. l \in [Client -> Nat]
    BY <1>1, <2>1 DEF Budget
  <2> HIDE DEF l
  <2> QED BY <2>1, <2>2 DEF Budget
<1>4. TypeOK'
  BY <1>1, <1>2, <1>3 DEF TypeOK
<1>5. \A d \in Client : Ring(d)' = Ring(d) /\ Underway(d)' = Underway(d)
  BY <1>1 DEF Ring, Underway
<1>6. IdsAreOwned' /\ Accounted'
  BY <1>1, <1>5 DEF IdsAreOwned, Accounted
<1>7. OnePlace'
  BY <1>1, <1>5 DEF OnePlace, IdsApart
<1>8. GoneIsGone'
  BY <1>1, <1>2 DEF GoneIsGone
<1>9. MoreComing'
  BY <1>1, <1>2 DEF MoreComing, TypeOK
<1>10. QueueOf(pool', occupied', behind')
  BY <1>1
<1> QED BY <1>4, <1>6, <1>7, <1>8, <1>9, <1>10

-----------------------------------------------------------------------------
(* Ids are reserved and used.                                              *)

LEMMA RequestKeeps ==
  ASSUME IdInv, NEW c \in Client, NEW n \in Amount, ReceiveRequest(c, n)
  PROVE  IdInv'
<1> DEFINE done == Assigned(c, n)
           reply == [to |-> c, ids |-> done.ids]
<1> USE DEF IdInv
<1>1. n \in Nat /\ n > 1
  BY ConstantFacts DEF Amount
<1>2. PoolOK(pool, occupied, behind) /\ occupied \subseteq Id
  BY DEF TypeOK, PoolOK, Pool
<1>3. Reserved(c, n, done)
  BY <1>1, <1>2, AssignedReserves
<1>4. c \in connected /\ asked[c][n] > 0
  BY DEF ReceiveRequest
<1>5. ASSUME done.failed, Leave(done.pool, c) PROVE IdInv'
  <2>1. Ids(done.ids) \subseteq Id
    BY <1>3 DEF Reserved, Ids
  <2>2. LeaveFrom(done.pool, c)
    BY <1>3, <2>1 DEF LeaveFrom, Reserved
  <2> QED BY <1>4, <1>5, <2>2, LeaveKeeps
<1>6. ASSUME ~done.failed, pool' = done.pool,
             asked' = [asked EXCEPT ![c][n] = @ - 1],
             replies' = replies \cup {reply},
             UNCHANGED <<occupied, clients, creations, destroys, behind, connected, stopped, budget>>
      PROVE  IdInv'
  <2>1. /\ occupied' = occupied /\ ring' = ring /\ waiting' = waiting /\ used' = used /\ lost' = lost
        /\ creations' = creations /\ destroys' = destroys
        /\ behind' = behind /\ connected' = connected /\ stopped' = stopped /\ budget' = budget
    BY <1>6 DEF clients
  <2>2. /\ PoolOK(pool', occupied', behind')
        /\ reply.to = c /\ reply.ids \in Seq(Id) /\ Injective(reply.ids) /\ Len(reply.ids) = n
        /\ Ids(reply.ids) \subseteq Id
        /\ \A i \in Ids(reply.ids) :
             pool'.owner[i] = c /\ pool.owner[i] \in {Server, NoNode} /\ i \notin occupied
        /\ \A i \in Id \ Ids(reply.ids) :
             pool'.owner[i] = pool.owner[i] \/ (pool.owner[i] = NoNode /\ pool'.owner[i] = Server)
    BY <1>3, <1>6, <2>1 DEF Reserved, Ids
  <2> HIDE DEF done, reply
  <2>3. asked' \in [Client -> [Amount -> Nat]] /\ (\A d \in Client : d # c => asked'[d] = asked[d])
    <3> DEFINE v == asked[c][n] - 1
    <3>1. v \in Nat
      BY <1>4 DEF TypeOK
    <3>2. asked' = [asked EXCEPT ![c][n] = v]
      BY <1>6
    <3> HIDE DEF v
    <3> QED BY <3>1, <3>2, CountChanges
  <2>4. TypeOK'
    BY <1>4, <1>6, <2>1, <2>2, <2>3 DEF TypeOK, PoolOK, Pool
  <2>5. /\ \A d \in Client \ {c} : \A i \in Id : pool'.owner[i] = d <=> pool.owner[i] = d
        /\ \A i \in Id : pool.owner[i] = c => pool'.owner[i] = c /\ i \notin Ids(reply.ids)
        /\ \A i \in Id : pool'.owner[i] = c => pool.owner[i] = c \/ i \in Ids(reply.ids)
    BY <2>2, ConstantFacts
  <2>6. \A d \in Client :
          /\ Ring(d)' = Ring(d) /\ Ring(d) \subseteq Id /\ used[d] \subseteq Id
          /\ Underway(d)' = IF d = c THEN Underway(d) \cup Ids(reply.ids) ELSE Underway(d)
    BY <1>6, <2>1, <2>2 DEF Ring, Underway, TypeOK, Ids
  <2>7. \A d \in Client : Underway(d) \subseteq Id
    BY DEF Underway
  <2>8. IdsAreOwned'
    <3> SUFFICES ASSUME NEW d \in Client PROVE OwnsItsIds(d)'
      BY DEF IdsAreOwned, OwnsItsIds
    <3>1. OwnsItsIds(d)
      BY DEF IdsAreOwned, OwnsItsIds
    <3>2. CASE d = c
      BY <2>1, <2>2, <2>5, <2>6, <2>7, <3>1, <3>2 DEF OwnsItsIds
    <3>3. CASE d # c
      BY <2>1, <2>5, <2>6, <2>7, <3>1, <3>3 DEF OwnsItsIds
    <3> QED BY <3>2, <3>3
  <2>9. Accounted'
    <3> SUFFICES ASSUME NEW i \in Id, NEW d \in Client, pool'.owner[i] = d
                 PROVE  /\ d \in connected'
                        /\ \/ i \in Ring(d)' \cup used'[d] \cup Underway(d)' \cup lost'[d]
                           \/ <<d, i>> \in destroys'
      BY DEF Accounted
    <3>1. CASE pool.owner[i] = d
      BY <2>1, <2>6, <3>1 DEF Accounted
    <3>2. CASE pool.owner[i] # d
      BY <1>4, <2>1, <2>5, <2>6, <3>2
    <3> QED BY <3>1, <3>2
  <2>10. OnePlace'
    <3> SUFFICES ASSUME NEW d \in Client PROVE IdsApart(d)'
      BY DEF OnePlace
    <3>1. IdsApart(d) /\ OwnsItsIds(d)
      BY DEF OnePlace, IdsAreOwned, OwnsItsIds
    <3>2. CASE d = c
      <4>1. \A r \in replies : r.to = c => Ids(r.ids) \cap Ids(reply.ids) = {}
        <5>1. \A r \in replies : r.to = c => \A i \in Ids(r.ids) \cap Id : pool.owner[i] = c
          BY <3>1, <3>2 DEF OwnsItsIds, Underway
        <5> QED BY <2>2, <2>5, <5>1
      <4>2. \A q, r \in replies' : q.to = c /\ r.to = c /\ q # r => Ids(q.ids) \cap Ids(r.ids) = {}
        BY <1>6, <3>1, <3>2, <4>1 DEF IdsApart
      <4>3. Injective(ring'[c]) /\ \A r \in replies' : r.to = c => Injective(r.ids)
        BY <1>6, <2>1, <2>2, <3>1, <3>2 DEF IdsApart
      <4>4. \A i \in Id :
              /\ <<c, i>> \in destroys' =>
                   pool'.owner[i] = c /\ i \notin Ring(c)' \cup used'[c] \cup Underway(c)'
              /\ <<c, i>> \in creations' => i \in used'[c] \/ <<c, i>> \in destroys'
        BY <2>1, <2>5, <2>6, <3>1, <3>2 DEF IdsApart
      <4> QED BY <3>2, <4>2, <4>3, <4>4 DEF IdsApart
    <3>3. CASE d # c
      BY <1>6, <2>1, <2>2, <2>5, <2>6, <3>1, <3>3 DEF IdsApart
    <3> QED BY <3>2, <3>3
  <2>11. GoneIsGone'
    <3> SUFFICES ASSUME NEW d \in Client \ connected'
                 PROVE  /\ ring'[d] = <<>> /\ used'[d] = {} /\ lost'[d] = {}
                        /\ \A m \in Amount : asked'[d][m] = 0
      BY DEF GoneIsGone
    <3>1. d # c /\ d \in Client \ connected
      BY <1>4, <2>1
    <3> QED BY <2>1, <2>3, <3>1 DEF GoneIsGone
  <2>12. MoreComing'
    <3>1. ASSUME NEW d \in connected'
          PROVE  \/ ring'[d] # <<>> \/ \E r \in replies' : r.to = d
                 \/ \E m \in Amount : asked'[d][m] > 0
      <4>1. d \in connected /\ d \in Client
        BY <2>1 DEF TypeOK
      <4>2. reply \in replies' /\ replies \subseteq replies'
        BY <1>6 DEF reply, done
      <4> QED BY <2>1, <2>2, <2>3, <4>1, <4>2 DEF MoreComing
    <3>2. \A r \in replies' : Len(r.ids) > 1
      BY <1>1, <1>6, <2>2 DEF MoreComing, reply, done
    <3> QED BY <2>1, <3>1, <3>2 DEF MoreComing
  <2> QED BY <2>2, <2>4, <2>8, <2>9, <2>10, <2>11, <2>12 DEF PoolOK
<1> QED BY <1>5, <1>6 DEF ReceiveRequest

LEMMA IdsOfTail ==
  ASSUME NEW s \in Seq(Id), s # <<>>, Injective(s)
  PROVE  /\ Tail(s) \in Seq(Id) /\ Len(Tail(s)) = Len(s) - 1 /\ Injective(Tail(s))
         /\ Head(s) \in Ids(s) /\ Ids(Tail(s)) = Ids(s) \ {Head(s)} /\ Ids(s) \subseteq Id
<1> DEFINE n == Len(s)
           t == Tail(s)
<1>1. /\ n \in Nat /\ n > 0 /\ DOMAIN s = 1 .. n /\ Head(s) = s[1]
      /\ \A k \in 1 .. n : s[k] \in Id
  BY EmptySeq, HeadTailProperties
<1>2. /\ t \in Seq(Id) /\ Len(t) = n - 1 /\ DOMAIN t = 1 .. n - 1
      /\ \A k \in 1 .. n - 1 : t[k] = s[k + 1]
  BY HeadTailProperties, LenProperties
<1> HIDE DEF t, n
<1>3. Injective(t)
  <2> SUFFICES ASSUME NEW j \in 1 .. n - 1, NEW k \in 1 .. n - 1, t[j] = t[k] PROVE j = k
    BY <1>2 DEF Injective
  <2>1. j + 1 \in 1 .. n /\ k + 1 \in 1 .. n /\ s[j + 1] = s[k + 1]
    BY <1>1, <1>2
  <2>2. j + 1 = k + 1
    BY <1>1, <2>1 DEF Injective
  <2> QED BY <2>2
<1>4. Ids(t) = Ids(s) \ {s[1]}
  <2>1. ASSUME NEW k \in 1 .. n - 1 PROVE t[k] \in Ids(s) \ {s[1]}
    <3>1. k + 1 \in 1 .. n /\ 1 \in 1 .. n /\ k + 1 # 1 /\ t[k] = s[k + 1]
      BY <1>1, <1>2
    <3> QED BY <1>1, <3>1 DEF Ids, Injective
  <2>2. ASSUME NEW k \in 1 .. n, s[k] # s[1] PROVE s[k] \in Ids(t)
    <3>1. k - 1 \in 1 .. n - 1 /\ t[k - 1] = s[(k - 1) + 1] /\ (k - 1) + 1 = k
      BY <1>1, <1>2, <2>2
    <3> QED BY <1>2, <3>1 DEF Ids
  <2>3. Ids(t) = {t[k] : k \in 1 .. n - 1} /\ Ids(s) = {s[k] : k \in 1 .. n}
    BY <1>1, <1>2 DEF Ids
  <2>4. Ids(t) \subseteq Ids(s) \ {s[1]}
    BY <2>1, <2>3
  <2>5. Ids(s) \ {s[1]} \subseteq Ids(t)
    BY <2>2, <2>3
  <2> QED BY <2>4, <2>5
<1>5. Head(s) \in Ids(s) /\ Ids(s) \subseteq Id
  <2>1. 1 \in DOMAIN s
    BY <1>1
  <2> QED BY <1>1, <2>1 DEF Ids
<1> QED BY <1>1, <1>2, <1>3, <1>4, <1>5 DEF t, n

LEMMA IdsOfMore ==
  ASSUME NEW s \in Seq(Id), NEW t \in Seq(Id), Injective(s), Injective(t),
         Ids(s) \cap Ids(t) = {}, NEW m \in 0 .. Len(t)
  PROVE  LET u == s \o SubSeq(t, 1, m) IN
         /\ u \in Seq(Id) /\ Len(u) = Len(s) + m /\ Injective(u)
         /\ Ids(s) \subseteq Ids(u) /\ Ids(u) \subseteq Ids(s) \cup Ids(t)
         /\ \A k \in m + 1 .. Len(t) : t[k] \in Ids(t)
         /\ \A i \in Ids(t) : i \in Ids(u) \/ \E k \in m + 1 .. Len(t) : i = t[k]
<1> DEFINE n == Len(s)
           u == s \o SubSeq(t, 1, m)
<1>1. /\ n \in Nat /\ DOMAIN s = 1 .. n /\ Len(t) \in Nat /\ DOMAIN t = 1 .. Len(t)
      /\ m \in Nat /\ m <= Len(t)
      /\ \A k \in 1 .. n : s[k] \in Id
      /\ \A k \in 1 .. Len(t) : t[k] \in Id
  OBVIOUS
<1> DEFINE v == SubSeq(t, 1, m)
<1>2. /\ v \in Seq(Id) /\ Len(v) = m /\ \A k \in 1 .. m : v[k] = t[k]
  BY <1>1, SubSeqProperties
<1> HIDE DEF v
<1>3. /\ u \in Seq(Id) /\ Len(u) = n + m /\ DOMAIN u = 1 .. n + m
      /\ \A k \in 1 .. n + m : u[k] = IF k <= n THEN s[k] ELSE t[k - n]
  <2>1. u = s \o v
    BY DEF v
  <2>2. /\ u \in Seq(Id) /\ Len(u) = n + m
        /\ \A k \in 1 .. n + m : u[k] = IF k <= n THEN s[k] ELSE v[k - n]
    BY <1>1, <1>2, <2>1, ConcatProperties
  <2>3. \A k \in 1 .. n + m : k <= n \/ k - n \in 1 .. m
    BY <1>1
  <2> QED BY <1>2, <2>2, <2>3, LenProperties
<1> HIDE DEF n, u
<1>4. Injective(u)
  <2> SUFFICES ASSUME NEW j \in 1 .. n + m, NEW k \in 1 .. n + m, u[j] = u[k], j # k PROVE FALSE
    BY <1>3 DEF Injective
  <2>1. CASE j <= n /\ k <= n
    <3>1. j \in 1 .. n /\ k \in 1 .. n /\ s[j] = s[k]
      BY <1>1, <1>3, <2>1
    <3> QED BY <1>1, <3>1 DEF Injective
  <2>2. CASE j > n /\ k > n
    <3>1. j - n \in 1 .. Len(t) /\ k - n \in 1 .. Len(t) /\ t[j - n] = t[k - n] /\ j - n # k - n
      BY <1>1, <1>3, <2>2
    <3> QED BY <1>1, <3>1 DEF Injective
  <2>3. CASE j <= n /\ k > n
    <3>1. j \in 1 .. n /\ k - n \in 1 .. Len(t) /\ s[j] = t[k - n]
      BY <1>1, <1>3, <2>3
    <3> QED BY <1>1, <3>1 DEF Ids
  <2>4. CASE j > n /\ k <= n
    <3>1. k \in 1 .. n /\ j - n \in 1 .. Len(t) /\ s[k] = t[j - n]
      BY <1>1, <1>3, <2>4
    <3> QED BY <1>1, <3>1 DEF Ids
  <2> QED BY <1>1, <2>1, <2>2, <2>3, <2>4
<1>5. Ids(s) \subseteq Ids(u)
  BY <1>1, <1>3 DEF Ids
<1>6. Ids(u) \subseteq Ids(s) \cup Ids(t)
  <2> SUFFICES ASSUME NEW k \in 1 .. n + m PROVE u[k] \in Ids(s) \cup Ids(t)
    BY <1>3 DEF Ids
  <2>1. CASE k <= n
    <3>1. k \in 1 .. n /\ u[k] = s[k]
      BY <1>1, <1>3, <2>1
    <3> QED BY <1>1, <3>1 DEF Ids
  <2>2. CASE k > n
    <3>1. k - n \in 1 .. Len(t) /\ u[k] = t[k - n]
      BY <1>1, <1>3, <2>2
    <3> QED BY <1>1, <3>1 DEF Ids
  <2> QED BY <1>1, <2>1, <2>2
<1>7. \A k \in m + 1 .. Len(t) : t[k] \in Ids(t)
  BY <1>1 DEF Ids
<1>8. \A i \in Ids(t) : i \in Ids(u) \/ \E k \in m + 1 .. Len(t) : i = t[k]
  <2> SUFFICES ASSUME NEW k \in 1 .. Len(t), k \notin m + 1 .. Len(t) PROVE t[k] \in Ids(u)
    BY <1>1 DEF Ids
  <2>1. n + k \in 1 .. n + m /\ u[n + k] = t[(n + k) - n] /\ (n + k) - n = k
    BY <1>1, <1>3
  <2> QED BY <1>3, <2>1 DEF Ids
<1> QED BY <1>3, <1>4, <1>5, <1>6, <1>7, <1>8 DEF n, u

LEMMA ReplyKeeps ==
  ASSUME IdInv, NEW r \in replies, ReceiveReply(r)
  PROVE  IdInv'
<1> DEFINE c == r.to
           fit == Smaller(Room(c), Len(r.ids))
           dropped == {r.ids[k] : k \in fit + 1 .. Len(r.ids)}
           u == ring[c] \o SubSeq(r.ids, 1, fit)
<1> USE DEF IdInv
<1>1. /\ ring' = [ring EXCEPT ![c] = u]
      /\ lost' = [lost EXCEPT ![c] = @ \cup dropped]
      /\ replies' = replies \ {r}
      /\ pool' = pool /\ occupied' = occupied /\ waiting' = waiting /\ used' = used /\ asked' = asked
      /\ creations' = creations /\ destroys' = destroys /\ behind' = behind
      /\ connected' = connected /\ stopped' = stopped /\ budget' = budget
  BY DEF ReceiveReply
<1>2. /\ c \in connected /\ c \in Client /\ ring[c] \in Seq(Id) /\ r.ids \in Seq(Id)
      /\ ring \in [Client -> Seq(Id)] /\ lost \in [Client -> SUBSET Id]
      /\ Len(ring[c]) \in Nat /\ Len(ring[c]) < Prefetch /\ Len(r.ids) \in Nat
  BY DEF TypeOK
<1>3. /\ fit \in 0 .. Len(r.ids) /\ fit <= Prefetch - 1 - Len(ring[c])
      /\ fit = Len(r.ids) \/ fit = Prefetch - 1 - Len(ring[c])
  <2>1. Room(c) = Prefetch - 1 - Len(ring[c]) /\ Room(c) \in Nat
    BY <1>2, ConstantFacts DEF Room
  <2> QED BY <1>2, <2>1 DEF Smaller
<1>4. /\ IdsApart(c) /\ OwnsItsIds(c)
      /\ Injective(ring[c]) /\ Injective(r.ids) /\ Ids(ring[c]) \cap Ids(r.ids) = {}
  <2>1. IdsApart(c) /\ OwnsItsIds(c)
    BY <1>2 DEF OnePlace, IdsAreOwned, OwnsItsIds
  <2>2. Ids(r.ids) \subseteq Id
    BY <1>2 DEF Ids
  <2>3. Ids(r.ids) \subseteq Underway(c)
    BY <2>2 DEF Underway
  <2> QED BY <2>1, <2>3 DEF IdsApart, OwnsItsIds, Ring
<1> HIDE DEF fit
<1>5. /\ u \in Seq(Id) /\ Len(u) = Len(ring[c]) + fit /\ Injective(u)
      /\ Ids(ring[c]) \subseteq Ids(u) /\ Ids(u) \subseteq Ids(ring[c]) \cup Ids(r.ids)
      /\ dropped \subseteq Ids(r.ids) /\ Ids(r.ids) \subseteq Ids(u) \cup dropped
  <2>1. /\ u \in Seq(Id) /\ Len(u) = Len(ring[c]) + fit /\ Injective(u)
        /\ Ids(ring[c]) \subseteq Ids(u) /\ Ids(u) \subseteq Ids(ring[c]) \cup Ids(r.ids)
        /\ \A k \in fit + 1 .. Len(r.ids) : r.ids[k] \in Ids(r.ids)
        /\ \A i \in Ids(r.ids) : i \in Ids(u) \/ \E k \in fit + 1 .. Len(r.ids) : i = r.ids[k]
    <3> HIDE DEF c
    <3> QED BY <1>2, <1>3, <1>4, IdsOfMore
  <2> HIDE DEF c, u
  <2> QED BY <2>1
<1>6. dropped \subseteq Id /\ Ids(r.ids) \subseteq Id
  BY <1>2, <1>5 DEF Ids
<1> HIDE DEF c, u, dropped
<1>7. /\ ring' \in [Client -> Seq(Id)] /\ ring'[c] = u /\ \A d \in Client : d # c => ring'[d] = ring[d]
      /\ lost' \in [Client -> SUBSET Id] /\ lost'[c] = lost[c] \cup dropped
      /\ \A d \in Client : d # c => lost'[d] = lost[d]
  BY <1>1, <1>2, <1>5, <1>6
<1>8. TypeOK'
  <2>1. \A d \in Client : Len(ring'[d]) < Prefetch
    <3>1. Len(u) < Prefetch
      BY <1>2, <1>3, <1>5, ConstantFacts
    <3> QED BY <1>7, <3>1 DEF TypeOK
  <2> QED BY <1>1, <1>7, <2>1 DEF TypeOK
<1>9. QueueOf(pool', occupied', behind')
  BY <1>1
<1>10. /\ Ring(c)' \subseteq Ring(c) \cup Ids(r.ids) /\ Ring(c) \subseteq Ring(c)'
       /\ Ids(r.ids) \subseteq Ring(c)' \cup dropped
       /\ Underway(c)' = Underway(c) \ Ids(r.ids)
       /\ Ids(r.ids) \subseteq Underway(c)
       /\ \A d \in Client : d # c => Ring(d)' = Ring(d) /\ Underway(d)' = Underway(d)
  <2>1. Underway(c)' = Underway(c) \ Ids(r.ids)
    <3>1. \A q \in replies : q.to = c /\ q # r => Ids(q.ids) \cap Ids(r.ids) = {}
      BY <1>4 DEF IdsApart, c
    <3>2. \A q : q \in replies' <=> q \in replies /\ q # r
      BY <1>1
    <3> QED BY <3>1, <3>2 DEF Underway
  <2>2. Ids(r.ids) \subseteq Underway(c)
    BY <1>6 DEF Underway, c
  <2>3. \A d \in Client : d # c => Underway(d)' = Underway(d)
    BY <1>1 DEF Underway, c
  <2> QED BY <1>5, <1>7, <2>1, <2>2, <2>3 DEF Ring
<1>11. IdsAreOwned'
  <2> SUFFICES ASSUME NEW d \in Client PROVE OwnsItsIds(d)'
    BY DEF IdsAreOwned, OwnsItsIds
  <2>1. OwnsItsIds(d)
    BY DEF IdsAreOwned, OwnsItsIds
  <2>2. CASE d = c
    <3>1. Ring(d)' \cap Underway(d)' = {}
      BY <1>10, <2>1, <2>2 DEF OwnsItsIds
    <3>2. Ring(d)' \subseteq Ring(d) \cup Underway(d) /\ Underway(d)' \subseteq Underway(d)
      BY <1>10, <2>2
    <3> QED BY <1>1, <2>1, <3>1, <3>2 DEF OwnsItsIds
  <2>3. CASE d # c
    BY <1>1, <1>10, <2>1, <2>3 DEF OwnsItsIds
  <2> QED BY <2>2, <2>3
<1>12. Accounted'
  <2> SUFFICES ASSUME NEW i \in Id, NEW d \in Client, pool.owner[i] = d
               PROVE  /\ d \in connected
                      /\ \/ i \in Ring(d)' \cup used[d] \cup Underway(d)' \cup lost'[d]
                         \/ <<d, i>> \in destroys
    BY <1>1 DEF Accounted
  <2>1. /\ d \in connected
        /\ i \in Ring(d) \cup used[d] \cup Underway(d) \cup lost[d] \/ <<d, i>> \in destroys
    BY DEF Accounted
  <2> QED BY <1>7, <1>10, <2>1
<1>13. OnePlace'
  <2> SUFFICES ASSUME NEW d \in Client PROVE IdsApart(d)'
    BY DEF OnePlace
  <2>1. IdsApart(d)
    BY DEF OnePlace
  <2>2. Injective(ring'[d])
    BY <1>5, <1>7, <2>1 DEF IdsApart
  <2>3. Ring(d)' \cup used'[d] \cup Underway(d)' \subseteq Ring(d) \cup used[d] \cup Underway(d)
    BY <1>1, <1>10
  <2> QED BY <1>1, <2>1, <2>2, <2>3 DEF IdsApart
<1>14. GoneIsGone'
  BY <1>1, <1>2, <1>7 DEF GoneIsGone
<1>15. MoreComing'
  <2>1. ring'[c] # <<>> /\ (c \in waiting => Len(ring'[c]) > 1)
    <3>1. Len(r.ids) > 1 /\ (c \in waiting /\ ring[c] # <<>> => Len(ring[c]) > 1)
      BY DEF MoreComing
    <3>2. Len(u) > 0 /\ (ring[c] = <<>> => Len(u) > 1)
      <4>1. ring[c] = <<>> => Len(ring[c]) = 0
        OBVIOUS
      <4> QED BY <1>2, <1>3, <1>5, <3>1, <4>1, ConstantFacts
    <3>3. ring[c] # <<>> /\ c \in waiting => Len(u) > 1
      BY <1>2, <1>3, <1>5, <3>1
    <3>4. u # <<>>
      BY <3>2, EmptySeq
    <3> QED BY <1>7, <3>2, <3>3, <3>4
  <2>2. ASSUME NEW d \in connected', d # c
        PROVE  \/ ring'[d] # <<>> \/ \E q \in replies' : q.to = d
               \/ \E m \in Amount : asked'[d][m] > 0
    <3>1. d \in connected /\ d \in Client
      BY <1>1 DEF TypeOK
    <3>2. \A q \in replies : q.to = d => q \in replies'
      BY <1>1, <2>2 DEF c
    <3> QED BY <1>1, <1>7, <2>2, <3>1, <3>2 DEF MoreComing
  <2>3. \A d \in waiting' : ring'[d] # <<>> => Len(ring'[d]) > 1
    <3>1. waiting' \subseteq Client
      BY <1>1 DEF TypeOK
    <3> QED BY <1>1, <1>7, <2>1, <3>1 DEF MoreComing
  <2> QED BY <1>1, <2>1, <2>2, <2>3 DEF MoreComing
<1> QED BY <1>8, <1>9, <1>11, <1>12, <1>13, <1>14, <1>15

(* An id goes from the ring to an object.                                  *)
LEMMA TakeKeeps ==
  ASSUME IdInv, NEW c \in connected, ring[c] # <<>>, Take(c),
         UNCHANGED <<pool, occupied, lost, replies, destroys, connected>>
  PROVE  /\ ring' \in [Client -> Seq(Id)] /\ used' \in [Client -> SUBSET Id]
         /\ creations' \subseteq connected \X Id
         /\ Len(ring'[c]) = Len(ring[c]) - 1
         /\ \A d \in Client : d # c => ring'[d] = ring[d] /\ used'[d] = used[d]
         /\ IdsAreOwned' /\ Accounted' /\ OnePlace'
<1> DEFINE i == Head(ring[c])
<1> USE DEF IdInv
<1>1. /\ c \in Client /\ ring[c] \in Seq(Id) /\ ring \in [Client -> Seq(Id)]
      /\ used \in [Client -> SUBSET Id]
      /\ ring' = [ring EXCEPT ![c] = Tail(@)]
      /\ used' = [used EXCEPT ![c] = @ \cup {i}]
      /\ creations' = creations \cup {<<c, i>>}
      /\ creations \subseteq connected \X Id
  BY DEF Take, TypeOK
<1>2. /\ pool' = pool /\ occupied' = occupied /\ lost' = lost /\ replies' = replies
      /\ destroys' = destroys /\ connected' = connected
  OBVIOUS
<1>3. IdsApart(c) /\ OwnsItsIds(c)
  BY <1>1 DEF OnePlace, IdsAreOwned, OwnsItsIds
<1>4. /\ Tail(ring[c]) \in Seq(Id) /\ Len(Tail(ring[c])) = Len(ring[c]) - 1 /\ Injective(Tail(ring[c]))
      /\ i \in Ids(ring[c]) /\ Ids(Tail(ring[c])) = Ids(ring[c]) \ {i} /\ Ids(ring[c]) \subseteq Id
  BY <1>1, <1>3, IdsOfTail DEF IdsApart
<1> HIDE DEF i
<1>5. /\ ring' \in [Client -> Seq(Id)] /\ ring'[c] = Tail(ring[c])
      /\ used' \in [Client -> SUBSET Id] /\ used'[c] = used[c] \cup {i}
      /\ \A d \in Client : d # c => ring'[d] = ring[d] /\ used'[d] = used[d]
  BY <1>1, <1>4
<1>6. /\ Ring(c)' = Ring(c) \ {i} /\ i \in Ring(c)
      /\ \A d \in Client : Underway(d)' = Underway(d) /\ (d # c => Ring(d)' = Ring(d))
  BY <1>2, <1>4, <1>5 DEF Ring, Underway
<1>7. IdsAreOwned'
  <2> SUFFICES ASSUME NEW d \in Client PROVE OwnsItsIds(d)'
    BY DEF IdsAreOwned, OwnsItsIds
  <2>1. OwnsItsIds(d)
    BY DEF IdsAreOwned, OwnsItsIds
  <2>2. CASE d = c
    BY <1>1, <1>2, <1>5, <1>6, <2>1, <2>2 DEF OwnsItsIds
  <2>3. CASE d # c
    BY <1>1, <1>2, <1>5, <1>6, <2>1, <2>3 DEF OwnsItsIds
  <2> QED BY <2>2, <2>3
<1>8. Accounted'
  <2> SUFFICES ASSUME NEW j \in Id, NEW d \in Client, pool.owner[j] = d
               PROVE  /\ d \in connected
                      /\ \/ j \in Ring(d)' \cup used'[d] \cup Underway(d)' \cup lost[d]
                         \/ <<d, j>> \in destroys
    BY <1>2 DEF Accounted
  <2>1. /\ d \in connected
        /\ j \in Ring(d) \cup used[d] \cup Underway(d) \cup lost[d] \/ <<d, j>> \in destroys
    BY DEF Accounted
  <2> QED BY <1>5, <1>6, <2>1
<1>9. OnePlace'
  <2> SUFFICES ASSUME NEW d \in Client PROVE IdsApart(d)'
    BY DEF OnePlace
  <2>1. IdsApart(d)
    BY DEF OnePlace
  <2>2. CASE d = c
    <3>1. Injective(ring'[d])
      BY <1>4, <1>5, <2>2
    <3>2. Ring(d)' \cup used'[d] \cup Underway(d)' = Ring(d) \cup used[d] \cup Underway(d)
      BY <1>5, <1>6, <2>2
    <3>3. \A j \in Id : <<d, j>> \in creations' => <<d, j>> \in creations \/ j = i
      BY <1>1
    <3> QED BY <1>2, <1>5, <2>1, <2>2, <3>1, <3>2, <3>3 DEF IdsApart
  <2>3. CASE d # c
    <3>1. \A j \in Id : <<d, j>> \in creations' => <<d, j>> \in creations
      BY <1>1, <2>3
    <3> QED BY <1>2, <1>5, <1>6, <2>1, <2>3, <3>1 DEF IdsApart
  <2> QED BY <2>2, <2>3
<1>10. creations' \subseteq connected \X Id
  BY <1>1, <1>4
<1> QED BY <1>4, <1>5, <1>7, <1>8, <1>9, <1>10

LEMMA EndWaitKeeps ==
  ASSUME IdInv, NEW c \in Client, EndWait(c)
  PROVE  IdInv'
<1> USE DEF IdInv
<1>1. /\ c \in waiting /\ ring[c] # <<>> /\ waiting' = waiting \ {c} /\ Take(c)
      /\ pool' = pool /\ occupied' = occupied /\ lost' = lost /\ asked' = asked
      /\ replies' = replies /\ destroys' = destroys /\ behind' = behind
      /\ connected' = connected /\ stopped' = stopped /\ budget' = budget
  BY DEF EndWait
<1>2. c \in connected
  BY <1>1 DEF TypeOK
<1>3. /\ ring' \in [Client -> Seq(Id)] /\ used' \in [Client -> SUBSET Id]
      /\ creations' \subseteq connected \X Id
      /\ Len(ring'[c]) = Len(ring[c]) - 1
      /\ \A d \in Client : d # c => ring'[d] = ring[d] /\ used'[d] = used[d]
      /\ IdsAreOwned' /\ Accounted' /\ OnePlace'
  BY <1>1, <1>2, TakeKeeps
<1>4. Len(ring[c]) \in Nat /\ Len(ring[c]) > 1 /\ Len(ring[c]) < Prefetch
  BY <1>1 DEF MoreComing, TypeOK
<1>5. TypeOK'
  <2>1. Len(ring'[c]) < Prefetch
    BY <1>3, <1>4, ConstantFacts
  <2>2. \A d \in Client : Len(ring'[d]) < Prefetch
    BY <1>3, <2>1 DEF TypeOK
  <2> QED BY <1>1, <1>3, <2>2 DEF TypeOK
<1>6. QueueOf(pool', occupied', behind')
  BY <1>1
<1>7. GoneIsGone'
  BY <1>1, <1>2, <1>3 DEF GoneIsGone
<1>8. MoreComing'
  <2>1. ring'[c] # <<>>
    BY <1>3, <1>4, EmptySeq
  <2>2. connected \subseteq Client /\ waiting \subseteq Client
    BY DEF TypeOK
  <2> QED BY <1>1, <1>3, <2>1, <2>2 DEF MoreComing
<1> QED BY <1>3, <1>5, <1>6, <1>7, <1>8

LEMMA NextFreeKeeps ==
  ASSUME IdInv, NEW c \in Client, NextFree(c)
  PROVE  IdInv'
<1> USE DEF IdInv
<1>1. /\ c \in connected /\ c \notin waiting /\ budget.made[c] > 0
      /\ budget' = [budget EXCEPT !.made[c] = @ - 1]
      /\ asked' = IF AskMore(c) THEN [asked EXCEPT ![c][Quarter] = @ + 1] ELSE asked
      /\ pool' = pool /\ occupied' = occupied /\ lost' = lost
      /\ replies' = replies /\ destroys' = destroys /\ behind' = behind
      /\ connected' = connected /\ stopped' = stopped
  BY DEF NextFree
<1>2. budget' \in Budget
  <2> DEFINE m == [budget.made EXCEPT ![c] = @ - 1]
  <2>1. budget \in Budget /\ budget' = [budget EXCEPT !.made = m]
    BY <1>1 DEF TypeOK
  <2>2. m \in [Client -> Nat]
    BY <1>1, <2>1 DEF Budget
  <2> HIDE DEF m
  <2> QED BY <2>1, <2>2 DEF Budget
<1>3. /\ asked' \in [Client -> [Amount -> Nat]] /\ \A d \in Client : d # c => asked'[d] = asked[d]
      /\ AskMore(c) => asked'[c][Quarter] > 0
      /\ Quarter \in Amount
  <2>1. Quarter \in Amount
    BY DEF Amount
  <2>2. CASE AskMore(c)
    <3> DEFINE v == asked[c][Quarter] + 1
    <3>1. v \in Nat /\ v > 0
      BY <2>1 DEF TypeOK
    <3>2. asked' = [asked EXCEPT ![c][Quarter] = v]
      BY <1>1, <2>2
    <3> HIDE DEF v
    <3> QED BY <2>1, <3>1, <3>2, CountChanges
  <2>3. CASE ~AskMore(c)
    BY <1>1, <2>1, <2>3 DEF TypeOK
  <2> QED BY <2>2, <2>3
<1>4. QueueOf(pool', occupied', behind')
  BY <1>1
<1>5. connected \subseteq Client /\ waiting \subseteq connected
  BY DEF TypeOK
<1>6. CASE ring[c] = <<>>
  <2>1. /\ waiting' = waiting \cup {c} /\ ring' = ring /\ used' = used /\ creations' = creations
    BY <1>6 DEF NextFree
  <2>2. ~AskMore(c)
    <3>1. NeedSoon(c) = Prefetch /\ ~(Prefetch < Half)
      BY <1>6, ConstantFacts DEF NeedSoon, Half
    <3> QED BY <3>1 DEF AskMore
  <2>3. asked' = asked
    BY <1>1, <2>2
  <2>4. TypeOK'
    BY <1>1, <1>2, <1>3, <2>1 DEF TypeOK
  <2>5. \A d \in Client : Ring(d)' = Ring(d) /\ Underway(d)' = Underway(d)
    BY <1>1, <2>1 DEF Ring, Underway
  <2>6. IdsAreOwned' /\ Accounted'
    BY <1>1, <2>1, <2>5 DEF IdsAreOwned, Accounted
  <2>7. OnePlace'
    BY <1>1, <2>1, <2>5 DEF OnePlace, IdsApart
  <2>8. GoneIsGone' /\ MoreComing'
    BY <1>1, <1>6, <2>1, <2>3 DEF GoneIsGone, MoreComing
  <2> QED BY <1>4, <2>4, <2>6, <2>7, <2>8
<1>7. CASE ring[c] # <<>>
  <2>1. waiting' = waiting /\ Take(c)
    BY <1>7 DEF NextFree
  <2>2. /\ ring' \in [Client -> Seq(Id)] /\ used' \in [Client -> SUBSET Id]
        /\ creations' \subseteq connected \X Id
        /\ Len(ring'[c]) = Len(ring[c]) - 1
        /\ \A d \in Client : d # c => ring'[d] = ring[d] /\ used'[d] = used[d]
        /\ IdsAreOwned' /\ Accounted' /\ OnePlace'
    BY <1>1, <1>7, <2>1, TakeKeeps
  <2>3. Len(ring[c]) \in Nat /\ Len(ring[c]) < Prefetch
    BY DEF TypeOK
  <2>4. TypeOK'
    <3>1. Len(ring'[c]) < Prefetch
      BY <2>2, <2>3, ConstantFacts
    <3>2. \A d \in Client : Len(ring'[d]) < Prefetch
      BY <2>2, <3>1 DEF TypeOK
    <3> QED BY <1>1, <1>2, <1>3, <2>1, <2>2, <3>2 DEF TypeOK
  <2>5. GoneIsGone'
    BY <1>1, <1>3, <2>2 DEF GoneIsGone
  <2>6. ring'[c] # <<>> \/ asked'[c][Quarter] > 0
    <3>1. CASE AskMore(c)
      BY <1>3, <3>1
    <3>2. CASE ~AskMore(c)
      <4>1. Len(ring[c]) > 1
        BY <1>7, <2>3, <3>2, ConstantFacts DEF AskMore, NeedSoon
      <4> QED BY <2>2, <2>3, <4>1, EmptySeq
    <3> QED BY <3>1, <3>2
  <2>7. MoreComing'
    <3>1. ASSUME NEW d \in connected'
          PROVE  \/ ring'[d] # <<>> \/ \E r \in replies' : r.to = d
                 \/ \E m \in Amount : asked'[d][m] > 0
      <4>1. CASE d = c
        BY <1>3, <2>6, <4>1
      <4>2. CASE d # c
        BY <1>1, <1>3, <1>5, <2>2, <4>2 DEF MoreComing
      <4> QED BY <4>1, <4>2
    <3>2. \A d \in waiting' : ring'[d] # <<>> => Len(ring'[d]) > 1
      BY <1>1, <1>5, <2>1, <2>2 DEF MoreComing
    <3> QED BY <1>1, <3>1, <3>2 DEF MoreComing
  <2> QED BY <1>4, <2>2, <2>4, <2>5, <2>7
<1> QED BY <1>6, <1>7

-----------------------------------------------------------------------------
(* Objects come and go.                                                    *)

LEMMA CreationKeeps ==
  ASSUME IdInv, NEW c \in Client, NEW i \in Id, ReceiveCreation(c, i)
  PROVE  IdInv'
<1> USE DEF IdInv
<1>1. <<c, i>> \in creations /\ c \in connected
  BY DEF ReceiveCreation, TypeOK
<1>2. CASE pool.owner[i] # c
  <2>1. Leave(pool, c)
    BY <1>2 DEF ReceiveCreation
  <2>2. LeaveFrom(pool, c)
    BY DEF TypeOK, LeaveFrom, PoolOK, Pool
  <2> QED BY <1>1, <2>1, <2>2, LeaveKeeps
<1>3. CASE pool.owner[i] = c
  <2>1. /\ occupied' = occupied \cup {i} /\ creations' = creations \ {<<c, i>>}
        /\ pool' = pool /\ ring' = ring /\ waiting' = waiting /\ used' = used /\ lost' = lost
        /\ asked' = asked /\ replies' = replies /\ destroys' = destroys /\ behind' = behind
        /\ connected' = connected /\ stopped' = stopped /\ budget' = budget
    BY <1>3 DEF ReceiveCreation, clients
  <2>2. TypeOK'
    BY <2>1 DEF TypeOK
  <2>3. QueueOf(pool', occupied', behind')
    BY <1>3, <2>1, ConstantFacts DEF QueueOf
  <2>4. \A d \in Client : Ring(d)' = Ring(d) /\ Underway(d)' = Underway(d)
    BY <2>1 DEF Ring, Underway
  <2>5. IdsAreOwned'
    <3> SUFFICES ASSUME NEW d \in Client PROVE OwnsItsIds(d)'
      BY DEF IdsAreOwned, OwnsItsIds
    <3>1. OwnsItsIds(d) /\ IdsApart(d)
      BY DEF OnePlace, IdsAreOwned, OwnsItsIds
    <3>2. CASE d = c
      <4>1. i \notin Ring(c) \cup Underway(c) /\ <<c, i>> \notin creations'
        BY <1>1, <2>1, <3>1, <3>2 DEF IdsApart, OwnsItsIds
      <4> QED BY <2>1, <2>4, <3>1, <3>2, <4>1 DEF OwnsItsIds
    <3>3. CASE d # c
      <4>1. i \notin Ring(d) \cup Underway(d) \cup used[d] /\ <<d, i>> \notin creations
        BY <1>3, <3>1, <3>3 DEF IdsApart, OwnsItsIds
      <4> QED BY <2>1, <2>4, <3>1, <4>1 DEF OwnsItsIds
    <3> QED BY <3>2, <3>3
  <2>6. Accounted'
    BY <2>1, <2>4 DEF Accounted
  <2>7. OnePlace'
    <3> SUFFICES ASSUME NEW d \in Client PROVE IdsApart(d)'
      BY DEF OnePlace
    <3>1. IdsApart(d)
      BY DEF OnePlace
    <3> QED BY <2>1, <2>4, <3>1 DEF IdsApart
  <2>8. GoneIsGone' /\ MoreComing'
    BY <2>1 DEF GoneIsGone, MoreComing
  <2> QED BY <2>2, <2>3, <2>5, <2>6, <2>7, <2>8
<1> QED BY <1>2, <1>3

LEMMA EndedTyped ==
  ASSUME TypeOK, budget.ended > 0, budget' = [budget EXCEPT !.ended = @ - 1]
  PROVE  budget' \in Budget
<1> DEFINE e == budget.ended - 1
<1>1. budget \in Budget /\ budget' = [budget EXCEPT !.ended = e]
  BY DEF TypeOK
<1>2. e \in Nat
  BY <1>1 DEF Budget
<1> HIDE DEF e
<1> QED BY <1>1, <1>2 DEF Budget

LEMMA DestroyKeeps ==
  ASSUME IdInv, NEW c \in Client, NEW i \in Id, DestroyObject(c, i)
  PROVE  IdInv'
<1> USE DEF IdInv
<1>1. /\ i \in used[c] /\ budget.ended > 0 /\ budget' = [budget EXCEPT !.ended = @ - 1]
      /\ used' = [used EXCEPT ![c] = @ \ {i}]
      /\ pool' = pool /\ occupied' = occupied /\ ring' = ring /\ waiting' = waiting
      /\ asked' = asked /\ replies' = replies /\ behind' = behind
      /\ connected' = connected /\ stopped' = stopped
      /\ \/ /\ destroys' = destroys \cup {<<c, i>>} /\ lost' = lost /\ creations' = creations
         \/ /\ creations' = creations \ {<<c, i>>}
            /\ lost' = [lost EXCEPT ![c] = @ \cup {i}] /\ destroys' = destroys
  BY DEF DestroyObject
<1>2. c \in connected
  BY <1>1 DEF GoneIsGone
<1>3. budget' \in Budget
  BY <1>1, EndedTyped
<1>4. /\ used' \in [Client -> SUBSET Id] /\ used'[c] = used[c] \ {i}
      /\ lost' \in [Client -> SUBSET Id] /\ lost[c] \subseteq lost'[c]
      /\ \A d \in Client : d # c => used'[d] = used[d] /\ lost'[d] = lost[d]
      /\ destroys \subseteq destroys' /\ destroys' \subseteq destroys \cup {<<c, i>>}
      /\ creations' \subseteq creations
      /\ i \in lost'[c] \/ <<c, i>> \in destroys'
      /\ <<c, i>> \in destroys' \/ <<c, i>> \notin creations'
  <2>1. /\ used \in [Client -> SUBSET Id] /\ lost \in [Client -> SUBSET Id]
    BY DEF TypeOK
  <2>2. /\ used' \in [Client -> SUBSET Id] /\ used'[c] = used[c] \ {i}
        /\ \A d \in Client : d # c => used'[d] = used[d]
    BY <1>1, <2>1
  <2>3. CASE destroys' = destroys \cup {<<c, i>>} /\ lost' = lost /\ creations' = creations
    BY <2>1, <2>2, <2>3
  <2>4. CASE /\ creations' = creations \ {<<c, i>>}
             /\ lost' = [lost EXCEPT ![c] = @ \cup {i}] /\ destroys' = destroys
    BY <2>1, <2>2, <2>4
  <2> QED BY <1>1, <2>3, <2>4
<1>5. TypeOK'
  BY <1>1, <1>2, <1>3, <1>4 DEF TypeOK
<1>6. \A d \in Client : Ring(d)' = Ring(d) /\ Underway(d)' = Underway(d)
  BY <1>1 DEF Ring, Underway
<1>7. IdsAreOwned'
  <2> SUFFICES ASSUME NEW d \in Client PROVE OwnsItsIds(d)'
    BY DEF IdsAreOwned, OwnsItsIds
  <2>1. OwnsItsIds(d)
    BY DEF IdsAreOwned, OwnsItsIds
  <2>2. used'[d] \subseteq used[d]
    BY <1>4
  <2> QED BY <1>1, <1>4, <1>6, <2>1, <2>2 DEF OwnsItsIds
<1>8. Accounted'
  <2> SUFFICES ASSUME NEW j \in Id, NEW d \in Client, pool.owner[j] = d
               PROVE  /\ d \in connected
                      /\ \/ j \in Ring(d) \cup used'[d] \cup Underway(d) \cup lost'[d]
                         \/ <<d, j>> \in destroys'
    BY <1>1, <1>6 DEF Accounted
  <2>1. /\ d \in connected
        /\ j \in Ring(d) \cup used[d] \cup Underway(d) \cup lost[d] \/ <<d, j>> \in destroys
    BY DEF Accounted
  <2> QED BY <1>4, <2>1
<1>9. OnePlace'
  <2> SUFFICES ASSUME NEW d \in Client PROVE IdsApart(d)'
    BY DEF OnePlace
  <2>1. IdsApart(d) /\ OwnsItsIds(d)
    BY DEF OnePlace, IdsAreOwned, OwnsItsIds
  <2>2. CASE d = c
    <3>1. pool.owner[i] = c /\ i \notin Ring(c) \cup used'[c] \cup Underway(c)
      BY <1>1, <1>4, <2>1, <2>2 DEF OwnsItsIds
    <3>2. \A j \in Id : <<d, j>> \in destroys' => <<d, j>> \in destroys \/ j = i
      BY <1>4
    <3> QED BY <1>1, <1>4, <1>6, <2>1, <2>2, <3>1, <3>2 DEF IdsApart
  <2>3. CASE d # c
    <3>1. \A j \in Id : <<d, j>> \in destroys' <=> <<d, j>> \in destroys
      BY <1>4, <2>3
    <3> QED BY <1>1, <1>4, <1>6, <2>1, <2>3, <3>1 DEF IdsApart
  <2> QED BY <2>2, <2>3
<1>10. GoneIsGone'
  BY <1>1, <1>2, <1>4 DEF GoneIsGone
<1>11. MoreComing' /\ QueueOf(pool', occupied', behind')
  BY <1>1 DEF MoreComing
<1> QED BY <1>5, <1>7, <1>8, <1>9, <1>10, <1>11

(* An object ends at the server, and its id is freed.                      *)
LEMMA ObjectEnds ==
  ASSUME IdInv, NEW i \in Id, i \in occupied, pool' = Freed(pool, <<i>>), behind' = Behind(<<i>>),
         occupied' = occupied \ {i}
  PROVE  /\ PoolOK(pool', occupied', behind')
         /\ pool'.owner[i] = NoNode /\ \A j \in Id : j # i => pool'.owner[j] = pool.owner[j]
<1> USE DEF IdInv
<1>1. PoolOK(pool, occupied, behind) /\ occupied \subseteq Id /\ pool.owner \in [Id -> Owner]
  BY DEF TypeOK, PoolOK, Pool
<1> DEFINE order == <<i>>
<1>2. order \in Seq(Id) /\ DOMAIN order = {1} /\ order[1] = i
  OBVIOUS
<1> HIDE DEF order
<1>3. pool.owner[i] # NoNode
  BY <1>1 DEF PoolOK, QueueOf
<1>4. Injective(order)
  BY <1>2 DEF Injective
<1>5. PoolOK(Freed(pool, order), occupied \ {i}, Behind(order))
  BY <1>1, <1>2, <1>3, <1>4, FreedKeepsPool
<1>6. PoolOK(pool', occupied', behind')
  BY <1>5 DEF order
<1>7. \A j \in Id : pool'.owner[j] = IF j = i THEN NoNode ELSE pool.owner[j]
  <2>1. pool' = Freed(pool, order)
    BY DEF order
  <2> DEFINE q == Freed(pool, order)
  <2>2. \A j \in Id : q.owner[j] = IF \E k \in DOMAIN order : order[k] = j THEN NoNode ELSE pool.owner[j]
    BY <1>1 DEF Freed, PoolOK, Pool
  <2> HIDE DEF q
  <2>3. pool' = q
    BY <2>1 DEF q
  <2> QED BY <1>2, <2>2, <2>3
<1> QED BY <1>6, <1>7

LEMMA DoDestroyKeeps ==
  ASSUME IdInv, NEW c \in Client, NEW i \in Id, DoDestroy(c, i)
  PROVE  IdInv'
<1> USE DEF IdInv
<1>1. /\ <<c, i>> \in destroys /\ i \in occupied /\ destroys' = destroys \ {<<c, i>>}
      /\ ring' = ring /\ waiting' = waiting /\ used' = used /\ lost' = lost
      /\ asked' = asked /\ replies' = replies /\ creations' = creations
      /\ connected' = connected /\ stopped' = stopped /\ budget' = budget
      /\ \/ /\ pool' = Freed(pool, <<i>>) /\ behind' = Behind(<<i>>)
            /\ occupied' = occupied \ {i}
         \/ /\ pool' = [pool EXCEPT !.owner[i] = Server]
            /\ behind' = behind /\ occupied' = occupied
  BY DEF DoDestroy, clients
<1>2. pool.owner[i] = c /\ i \notin Ring(c) \cup used[c] \cup Underway(c) /\ <<c, i>> \notin creations
  BY <1>1 DEF OnePlace, IdsApart, IdsAreOwned
<1>3. /\ PoolOK(pool', occupied', behind') /\ occupied' \subseteq occupied
      /\ pool'.owner[i] \in {Server, NoNode}
      /\ \A j \in Id : j # i => pool'.owner[j] = pool.owner[j]
  <2>1. CASE pool' = Freed(pool, <<i>>) /\ behind' = Behind(<<i>>) /\ occupied' = occupied \ {i}
    BY <1>1, <2>1, ObjectEnds
  <2>2. CASE pool' = [pool EXCEPT !.owner[i] = Server] /\ behind' = behind /\ occupied' = occupied
    <3> DEFINE f == [pool.owner EXCEPT ![i] = Server]
    <3>1. PoolOK(pool, occupied, behind) /\ occupied \subseteq Id /\ pool.owner \in [Id -> Owner]
      BY DEF TypeOK, PoolOK, Pool
    <3>2. f \in [Id -> Owner] /\ f[i] = Server /\ \A j \in Id : j # i => f[j] = pool.owner[j]
      BY <3>1 DEF Owner
    <3>3. pool' = [pool EXCEPT !.owner = f] /\ pool'.owner = f
      BY <2>2 DEF TypeOK
    <3> HIDE DEF f
    <3>4. \A j \in Id : f[j] = NoNode <=> pool.owner[j] = NoNode
      BY <1>2, <3>2, ConstantFacts
    <3>5. PoolOK(pool', occupied, behind)
      BY <3>1, <3>2, <3>3, <3>4, OwnersMayChange
    <3> QED BY <2>2, <3>2, <3>3, <3>5
  <2> QED BY <1>1, <2>1, <2>2
<1>4. TypeOK'
  BY <1>1, <1>3 DEF TypeOK, PoolOK, Pool, QueueOf
<1>5. \A d \in Client : Ring(d)' = Ring(d) /\ Underway(d)' = Underway(d)
  BY <1>1 DEF Ring, Underway
<1>6. \A d \in Client : \A j \in Id : pool'.owner[j] = d <=> pool.owner[j] = d /\ j # i
  BY <1>2, <1>3, ConstantFacts
<1>7. ASSUME NEW d \in Client
      PROVE  /\ i \notin Ring(d) \cup used[d] \cup Underway(d)
             /\ \A j \in Id : <<d, j>> \in destroys' => <<d, j>> \in destroys /\ j # i
  <2>1. IdsApart(d) /\ OwnsItsIds(d)
    BY DEF OnePlace, IdsAreOwned, OwnsItsIds
  <2>2. CASE d = c
    BY <1>1, <1>2, <2>2
  <2>3. CASE d # c
    BY <1>1, <1>2, <2>1, <2>3 DEF IdsApart, OwnsItsIds
  <2> QED BY <2>2, <2>3
<1>8. IdsAreOwned'
  <2> SUFFICES ASSUME NEW d \in Client PROVE OwnsItsIds(d)'
    BY DEF IdsAreOwned, OwnsItsIds
  <2>1. OwnsItsIds(d)
    BY DEF IdsAreOwned, OwnsItsIds
  <2>2. Ring(d) \cup used[d] \cup Underway(d) \subseteq Id
    BY DEF TypeOK, Ring, Ids, Underway
  <2> QED BY <1>1, <1>3, <1>5, <1>6, <1>7, <2>1, <2>2 DEF OwnsItsIds
<1>9. Accounted'
  <2> SUFFICES ASSUME NEW j \in Id, NEW d \in Client, pool'.owner[j] = d
               PROVE  /\ d \in connected
                      /\ \/ j \in Ring(d) \cup used[d] \cup Underway(d) \cup lost[d]
                         \/ <<d, j>> \in destroys'
    BY <1>1, <1>5 DEF Accounted
  <2>1. pool.owner[j] = d /\ j # i
    BY <1>6
  <2>2. /\ d \in connected
        /\ j \in Ring(d) \cup used[d] \cup Underway(d) \cup lost[d] \/ <<d, j>> \in destroys
    BY <2>1 DEF Accounted
  <2> QED BY <1>1, <2>1, <2>2
<1>10. OnePlace'
  <2> SUFFICES ASSUME NEW d \in Client PROVE IdsApart(d)'
    BY DEF OnePlace
  <2>1. IdsApart(d)
    BY DEF OnePlace
  <2>2. \A j \in Id : <<d, j>> \in creations => j \in used[d] \/ <<d, j>> \in destroys'
    BY <1>1, <1>2, <2>1 DEF IdsApart
  <2> QED BY <1>1, <1>5, <1>6, <1>7, <2>1, <2>2 DEF IdsApart
<1>11. GoneIsGone' /\ MoreComing'
  BY <1>1 DEF GoneIsGone, MoreComing
<1> QED BY <1>3, <1>4, <1>8, <1>9, <1>10, <1>11 DEF PoolOK

(* The server's own objects: what clients have does not change.            *)
LEMMA ServerPartKeeps ==
  ASSUME IdInv, UNCHANGED <<clients, wires, connected>>,
         PoolOK(pool', occupied', behind'), occupied' \subseteq Id,
         \A d \in Client : \A j \in Id : pool'.owner[j] = d <=> pool.owner[j] = d,
         \A d \in Client : \A j \in occupied' : j \in occupied \/ pool'.owner[j] # d,
         stopped' \in BOOLEAN, budget' \in Budget
  PROVE  IdInv'
<1> USE DEF IdInv
<1>1. /\ ring' = ring /\ waiting' = waiting /\ used' = used /\ lost' = lost
      /\ asked' = asked /\ replies' = replies /\ creations' = creations /\ destroys' = destroys
      /\ connected' = connected
  BY DEF clients, wires
<1>2. TypeOK'
  BY <1>1 DEF TypeOK, PoolOK, Pool, QueueOf
<1>3. \A d \in Client : Ring(d)' = Ring(d) /\ Underway(d)' = Underway(d)
  BY <1>1 DEF Ring, Underway
<1>4. IdsAreOwned'
  <2> SUFFICES ASSUME NEW d \in Client PROVE OwnsItsIds(d)'
    BY DEF IdsAreOwned, OwnsItsIds
  <2>1. OwnsItsIds(d) /\ IdsApart(d)
    BY DEF OnePlace, IdsAreOwned, OwnsItsIds
  <2>2. Ring(d) \cup used[d] \cup Underway(d) \subseteq Id
    BY DEF TypeOK, Ring, Ids, Underway
  <2>3. \A j \in Ring(d) \cup used[d] \cup Underway(d) : pool'.owner[j] = d
    BY <2>1, <2>2 DEF OwnsItsIds
  <2>4. \A j \in occupied' : <<d, j>> \notin creations
    BY <2>1, <2>2 DEF OwnsItsIds, IdsApart
  <2> QED BY <1>1, <1>3, <2>1, <2>2, <2>3, <2>4 DEF OwnsItsIds
<1>5. Accounted'
  BY <1>1, <1>3 DEF Accounted
<1>6. OnePlace'
  <2> SUFFICES ASSUME NEW d \in Client PROVE IdsApart(d)'
    BY DEF OnePlace
  <2>1. IdsApart(d)
    BY DEF OnePlace
  <2> QED BY <1>1, <1>3, <2>1 DEF IdsApart
<1>7. GoneIsGone' /\ MoreComing'
  BY <1>1 DEF GoneIsGone, MoreComing
<1> QED BY <1>2, <1>4, <1>5, <1>6, <1>7 DEF PoolOK

LEMMA ServerObjectKeeps ==
  ASSUME IdInv, ServerObject
  PROVE  IdInv'
<1> DEFINE next == NextFreeServer(pool)
<1>1. /\ PoolOK(pool, occupied, behind) /\ occupied \subseteq Id /\ stopped \in BOOLEAN
      /\ budget \in Budget
  BY DEF IdInv, TypeOK, PoolOK, Pool
<1>2. Found(pool, next)
  BY <1>1, ServerFinds
<1>3. /\ budget.served > 0 /\ budget' = [budget EXCEPT !.served = @ - 1]
      /\ pool' = next.pool /\ behind' = behind
      /\ UNCHANGED <<clients, wires, connected>>
      /\ IF next.id = 0 THEN stopped' = TRUE /\ occupied' = occupied
                        ELSE occupied' = occupied \cup {next.id} /\ stopped' = stopped
  BY DEF ServerObject
<1> HIDE DEF next
<1>4. budget' \in Budget
  <2> DEFINE e == budget.served - 1
  <2>1. e \in Nat /\ budget' = [budget EXCEPT !.served = e]
    BY <1>1, <1>3 DEF Budget
  <2> HIDE DEF e
  <2> QED BY <1>1, <2>1 DEF Budget
<1>5. \A d \in Client : \A j \in Id : pool'.owner[j] = d <=> pool.owner[j] = d
  BY <1>2, <1>3, ConstantFacts DEF Found, Later
<1>6. PoolOK(pool', occupied', behind') /\ occupied' \subseteq Id /\ stopped' \in BOOLEAN
  <2>1. PoolOK(pool', occupied, behind) /\ behind' = behind
    BY <1>2, <1>3 DEF Found
  <2>2. \A j \in occupied' : j \in Id /\ pool'.owner[j] # NoNode
    BY <1>1, <1>2, <1>3, <2>1, ConstantFacts DEF Found, PoolOK, QueueOf
  <2>3. PoolOK(pool', occupied', behind')
    BY <2>1, <2>2 DEF PoolOK, QueueOf
  <2> QED BY <1>1, <1>3, <2>2, <2>3
<1>7. \A d \in Client : \A j \in occupied' : j \in occupied \/ pool'.owner[j] # d
  BY <1>2, <1>3, ConstantFacts DEF Found
<1> QED BY <1>3, <1>4, <1>5, <1>6, <1>7, ServerPartKeeps

LEMMA EndServerObjectKeeps ==
  ASSUME IdInv, NEW i \in Id, EndServerObject(i)
  PROVE  IdInv'
<1>1. /\ i \in occupied /\ pool.owner[i] = Server
      /\ budget.ended > 0 /\ budget' = [budget EXCEPT !.ended = @ - 1]
      /\ pool' = Freed(pool, <<i>>) /\ behind' = Behind(<<i>>) /\ occupied' = occupied \ {i}
      /\ UNCHANGED <<clients, wires, connected>> /\ stopped' = stopped
  BY DEF EndServerObject
<1>2. budget' \in Budget /\ stopped' \in BOOLEAN /\ occupied' \subseteq Id
  BY <1>1, EndedTyped DEF IdInv, TypeOK
<1>3. /\ PoolOK(pool', occupied', behind') /\ pool'.owner[i] = NoNode
      /\ \A j \in Id : j # i => pool'.owner[j] = pool.owner[j]
  BY <1>1, ObjectEnds
<1>4. \A d \in Client : \A j \in Id : pool'.owner[j] = d <=> pool.owner[j] = d
  BY <1>1, <1>3, ConstantFacts
<1>5. \A d \in Client : \A j \in occupied' : j \in occupied \/ pool'.owner[j] # d
  BY <1>1
<1> QED BY <1>1, <1>2, <1>3, <1>4, <1>5, ServerPartKeeps

-----------------------------------------------------------------------------
(* The theorems.                                                           *)

LEMMA InitIdInv == Init => IdInv
<1> SUFFICES ASSUME Init PROVE IdInv
  OBVIOUS
<1> USE DEF Init
<1>1. TypeOK
  <2>1. pool.owner \in [Id -> Owner] /\ pool.freed \in Seq(Id) /\ pool.limit \in MinLimit .. MaxLimit
        /\ pool.current \in 1 .. MaxLimit /\ pool.current <= pool.limit /\ pool.runOut \in BOOLEAN
    BY ConstantFacts DEF Owner
  <2>2. pool \in [owner : [Id -> Owner], current : 1 .. MaxLimit, limit : MinLimit .. MaxLimit,
                  freed : Seq(Id), runOut : BOOLEAN]
    BY <2>1
  <2>3. /\ ring \in [Client -> Seq(Id)] /\ \A c \in Client : Len(ring[c]) = 0
        /\ 0 < Prefetch
    BY ConstantFacts
  <2>4. behind \in [Id -> 0 .. Keep] /\ budget \in Budget
    BY ConstantFacts, BudgetAssumption
  <2> QED BY <2>1, <2>2, <2>3, <2>4 DEF TypeOK
<1>2. QueueOf(pool, occupied, behind)
  <2>1. behind \in [Id -> 0 .. Keep] /\ \A i \in Id : behind[i] = Keep /\ pool.owner[i] # NoNode
    BY ConstantFacts
  <2>2. pool.freed = <<>> /\ DOMAIN pool.freed = {}
    OBVIOUS
  <2> QED BY <2>1, <2>2 DEF QueueOf, Injective
<1>3. \A c \in Client : Ring(c) = {} /\ Underway(c) = {}
  BY IdsOfNone DEF Ring, Underway
<1>4. IdsAreOwned
  BY <1>3 DEF IdsAreOwned
<1>5. Accounted
  BY ConstantFacts DEF Accounted
<1>6. OnePlace
  BY DEF OnePlace, IdsApart, Injective
<1>7. GoneIsGone /\ MoreComing
  BY <1>1 DEF GoneIsGone, MoreComing, TypeOK
<1> QED BY <1>1, <1>2, <1>4, <1>5, <1>6, <1>7 DEF IdInv

LEMMA StutterIdInv == IdInv /\ UNCHANGED vars => IdInv'
<1> SUFFICES ASSUME IdInv, UNCHANGED vars PROVE IdInv'
  OBVIOUS
<1>1. UNCHANGED <<clients, wires, connected>> /\ pool' = pool /\ occupied' = occupied
      /\ behind' = behind /\ stopped' = stopped /\ budget' = budget
  BY DEF vars
<1>2. PoolOK(pool', occupied', behind') /\ occupied' \subseteq Id /\ stopped' \in BOOLEAN
      /\ budget' \in Budget
  BY <1>1 DEF IdInv, TypeOK, PoolOK, Pool
<1> QED BY <1>1, <1>2, ServerPartKeeps

LEMMA NextIdInv == IdInv /\ [Next]_vars => IdInv'
<1> SUFFICES ASSUME IdInv, Next PROVE IdInv'
  BY StutterIdInv
<1>1. ASSUME NEW c \in Client, Login(c) PROVE IdInv'
  BY <1>1, LoginKeeps
<1>2. ASSUME NEW c \in Client, Logout(c) PROVE IdInv'
  BY <1>2, LogoutKeeps
<1>3. ASSUME NEW c \in Client, NextFree(c) PROVE IdInv'
  BY <1>3, NextFreeKeeps
<1>4. ASSUME NEW c \in Client, EndWait(c) PROVE IdInv'
  BY <1>4, EndWaitKeeps
<1>5. ASSUME NEW c \in Client, NEW n \in Amount, ReceiveRequest(c, n) PROVE IdInv'
  BY <1>5, RequestKeeps
<1>6. ASSUME NEW c \in Client, NEW i \in Id, ReceiveCreation(c, i) PROVE IdInv'
  BY <1>6, CreationKeeps
<1>7. ASSUME NEW c \in Client, NEW i \in Id, DestroyObject(c, i) PROVE IdInv'
  BY <1>7, DestroyKeeps
<1>8. ASSUME NEW c \in Client, NEW i \in Id, DoDestroy(c, i) PROVE IdInv'
  BY <1>8, DoDestroyKeeps
<1>9. ASSUME NEW r \in replies, ReceiveReply(r) PROVE IdInv'
  BY <1>9, ReplyKeeps
<1>10. ASSUME ServerObject PROVE IdInv'
  BY <1>10, ServerObjectKeeps
<1>11. ASSUME NEW i \in Id, EndServerObject(i) PROVE IdInv'
  BY <1>11, EndServerObjectKeeps
<1>12. ASSUME KillIdHog PROVE IdInv'
  BY <1>12, KillIdHogKeeps
<1> QED BY <1>1, <1>2, <1>3, <1>4, <1>5, <1>6, <1>7, <1>8, <1>9, <1>10, <1>11, <1>12 DEF Next

(* What all the others rest on: the queue of freed ids says for how long   *)
(* each has been free, an id is in one place, and more are coming for who  *)
(* has none.                                                               *)
THEOREM IdInvHolds == Spec => []IdInv
<1>1. Init => IdInv
  BY InitIdInv
<1>2. IdInv /\ [Next]_vars => IdInv'
  BY NextIdInv
<1> QED BY <1>1, <1>2, PTL DEF Spec

(* The server's ids, the rings, the messages and the books of who has      *)
(* which id have their types, and the current id is below the limit.       *)
THEOREM TypeCorrect == Spec => []TypeOK
<1>1. IdInv => TypeOK
  BY DEF IdInv
<1> QED BY <1>1, IdInvHolds, PTL

(* An id a client has in its ring, for an object or in an answer underway  *)
(* is the client's at the server too, and it has it for one purpose.       *)
THEOREM IdsOwned == Spec => []IdsAreOwned
<1>1. IdInv => IdsAreOwned
  BY DEF IdInv
<1> QED BY <1>1, IdInvHolds, PTL

(* Nothing stays reserved for clients that have left, and no reserved id   *)
(* is lost from sight.                                                     *)
THEOREM NothingLeaks == Spec => []Accounted
<1>1. IdInv => Accounted
  BY DEF IdInv
<1> QED BY <1>1, IdInvHolds, PTL

LEMMA MoreComingSuffices == IdInv => NoDeadWait
<1> SUFFICES ASSUME IdInv, NEW c \in waiting
             PROVE  Ring(c) # {} \/ Underway(c) # {} \/ \E n \in Amount : asked[c][n] > 0
  BY DEF NoDeadWait
<1>1. c \in connected /\ c \in Client /\ ring[c] \in Seq(Id)
  BY DEF IdInv, TypeOK
<1>2. CASE ring[c] # <<>>
  <2>1. Head(ring[c]) \in Ring(c)
    BY <1>1, <1>2, IdsOfTail DEF IdInv, OnePlace, IdsApart, Ring
  <2> QED BY <2>1
<1>3. CASE \E r \in replies : r.to = c
  <2>1. PICK r \in replies : r.to = c
    BY <1>3
  <2>2. r.ids \in Seq(Id) /\ Len(r.ids) > 1
    BY DEF IdInv, TypeOK, MoreComing
  <2>3. 1 \in DOMAIN r.ids /\ r.ids[1] \in Id
    BY <2>2
  <2>4. r.ids[1] \in Underway(c)
    BY <2>1, <2>3 DEF Underway, Ids
  <2> QED BY <2>4
<1> QED BY <1>1, <1>2, <1>3 DEF IdInv, MoreComing

(* next_free never waits for an answer that nobody will send.              *)
THEOREM WaitsEnd == Spec => []NoDeadWait
BY MoreComingSuffices, IdInvHolds, PTL

LEMMA LeaveGivesNothing ==
  ASSUME IdInv, NEW c \in connected, NEW p, LeaveFrom(p, c), Leave(p, c), NEW i \in Id
  PROVE  ~Given(i)
<1>1. c \in Client
  BY DEF IdInv, TypeOK
<1> QED BY <1>1, LeaveFrees DEF Given

LEMMA StepGivesOld ==
  ASSUME IdInv, IdInv', Next, NEW i \in Id, Given(i)
  PROVE  behind[i] >= Keep
<1>1. CASE behind' = behind
  <2>1. pool'.owner[i] # NoNode
    BY ConstantFacts DEF Given, IdInv, QueueOf
  <2>2. behind'[i] = Keep
    BY <2>1 DEF IdInv, QueueOf
  <2> QED BY <1>1, <2>2, ConstantFacts
<1>2. ASSUME NEW c \in connected, Leave(pool, c) PROVE FALSE
  <2>1. LeaveFrom(pool, c)
    BY DEF IdInv, TypeOK, LeaveFrom, PoolOK, Pool
  <2> QED BY <1>2, <2>1, LeaveGivesNothing
<1>3. ASSUME NEW c \in Client, NEW n \in Amount, ReceiveRequest(c, n), behind' # behind PROVE FALSE
  <2> DEFINE done == Assigned(c, n)
  <2>1. c \in connected /\ Leave(done.pool, c)
    BY <1>3 DEF ReceiveRequest
  <2>2. Reserved(c, n, done)
    <3>1. n \in Nat
      BY ConstantFacts DEF Amount
    <3>2. PoolOK(pool, occupied, behind) /\ occupied \subseteq Id
      BY DEF IdInv, TypeOK, PoolOK, Pool
    <3> QED BY <3>1, <3>2, AssignedReserves
  <2> HIDE DEF done
  <2>3. LeaveFrom(done.pool, c)
    <3>1. Ids(done.ids) \subseteq Id
      BY <2>2 DEF Reserved, Ids
    <3> QED BY <2>2, <3>1 DEF LeaveFrom, Reserved
  <2> QED BY <2>1, <2>3, LeaveGivesNothing
<1>4. ASSUME NEW c \in Client, NEW j \in Id, ReceiveCreation(c, j), behind' # behind PROVE FALSE
  <2>1. c \in connected /\ Leave(pool, c)
    BY <1>4 DEF ReceiveCreation, IdInv, TypeOK
  <2> QED BY <1>2, <2>1
<1>5. ASSUME NEW j \in Id, j \in occupied, pool' = Freed(pool, <<j>>), behind' = Behind(<<j>>),
             occupied' = occupied \ {j}
      PROVE  FALSE
  <2>1. pool'.owner[j] = NoNode /\ \A k \in Id : k # j => pool'.owner[k] = pool.owner[k]
    BY <1>5, ObjectEnds
  <2> QED BY <1>5, <2>1, ConstantFacts DEF Given
<1>6. ASSUME KillIdHog, behind' # behind PROVE FALSE
  <2> DEFINE done == [pool EXCEPT !.runOut = FALSE]
  <2>1. PICK c \in IdHogs : Leave(done, c)
    BY <1>6 DEF KillIdHog
  <2>2. c \in connected
    BY DEF IdHogs
  <2>3. LeaveFrom(done, c)
    <3>1. PoolOK(pool, occupied, behind)
      BY DEF IdInv, TypeOK, PoolOK, Pool
    <3>2. done \in Pool /\ done.owner = pool.owner /\ done.freed = pool.freed
          /\ done.current = pool.current /\ done.limit = pool.limit
      BY <3>1 DEF PoolOK, Pool
    <3> HIDE DEF done
    <3> QED BY <3>1, <3>2 DEF LeaveFrom, PoolOK, QueueOf
  <2> QED BY <2>1, <2>2, <2>3, LeaveGivesNothing
<1>7. CASE behind' # behind
  <2>1. ASSUME NEW c \in Client, Login(c) \/ Logout(c) \/ NextFree(c) \/ EndWait(c) PROVE FALSE
    BY <1>2, <1>7, <2>1 DEF Login, Logout, NextFree, EndWait
  <2>2. ASSUME NEW c \in Client, NEW j \in Id, DestroyObject(c, j) \/ DoDestroy(c, j) PROVE FALSE
    BY <1>5, <1>7, <2>2 DEF DestroyObject, DoDestroy
  <2>3. ASSUME NEW r \in replies, ReceiveReply(r) PROVE FALSE
    BY <1>7, <2>3 DEF ReceiveReply
  <2>4. ASSUME ServerObject PROVE FALSE
    BY <1>7, <2>4 DEF ServerObject
  <2>5. ASSUME NEW j \in Id, EndServerObject(j) PROVE FALSE
    BY <1>5, <2>5 DEF EndServerObject
  <2> QED BY <1>3, <1>4, <1>6, <1>7, <2>1, <2>2, <2>3, <2>4, <2>5 DEF Next
<1> QED BY <1>1, <1>7

(* Whoever gets an id gets one that has been free for long, if it was ever *)
(* used before.                                                            *)
THEOREM OldIdsRest == Spec => NotReusedSoon
<1>1. IdInv /\ IdInv' /\ [Next]_vars => [\A i \in Id : Given(i) => behind[i] >= Keep]_vars
  BY StepGivesOld
<1> QED BY <1>1, IdInvHolds, PTL DEF Spec, NotReusedSoon
=============================================================================
