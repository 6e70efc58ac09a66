---------------------------- MODULE VotingProofs ----------------------------
(* Proofs about polls, for any users, machines, settings and bounds.       *)
EXTENDS Voting, FiniteSetTheorems, SequenceTheorems, TLAPS

-----------------------------------------------------------------------------
(* What the properties rest on, of all that judging a poll can change.     *)

(* What a client may vote on is pending.                                   *)
Pending(s) ==
  \A u \in User : s.aware[u] \subseteq {s.items[i].id : i \in DOMAIN s.items}

(* A ballot is taken back when the last player of its voter is removed in  *)
(* the name of a user: whoever has one has such a player, or has deserted. *)
HasPlayer(s, m) == \E p \in Player : s.owner[p] # Nobody /\ s.machine[s.owner[p]] = m

Voices(s) == \A i \in DOMAIN s.items : \A m \in Machine :
  /\ Ballots(s.items[i], m) <= 1
  /\ Ballots(s.items[i], m) = 1 => m \in s.deserted \/ HasPlayer(s, m)

(* The time of the last harm is not before that of any poll still pending. *)
HarmKept(s) ==
  /\ \A i \in DOMAIN s.items :
       s.items[i].at # NoMachine => s.items[i].created <= s.lastHarm[s.items[i].at]
  /\ \A i, j \in DOMAIN s.items :
       i < j /\ s.items[i].at = s.items[j].at /\ s.items[i].at # NoMachine =>
         \/ s.items[i].created + HarmTime <= s.items[j].created
         \/ s.items[j].created + HarmTime <= s.items[i].created

Rightly(s) == \A poll \in s.passed :
  /\ poll.pro > poll.con
  /\ poll.kind = "kick" /\ InGame(s, poll.target) => s.owner[poll.target] = Nobody

Sound(s) ==
  /\ s \in Server /\ Owned(s) /\ Pending(s)
  /\ Voices(s) /\ HarmKept(s) /\ Rightly(s)

VotingInv == TypeOK /\ Sound(server)

(* What a removal or a kick may have changed.                              *)
Fewer(s, r) ==
  /\ \A u \in User : r.machine[u] \in {s.machine[u], NoMachine}
  /\ \A p \in Player : r.state[p] \in {s.state[p], "gone"} /\ r.owner[p] \in {s.owner[p], Nobody}
  /\ Len(r.items) = Len(s.items) /\ r.passed = s.passed

-----------------------------------------------------------------------------
(* Sets of numbers.                                                        *)

LEMMA SmallestMember ==
  ASSUME NEW T \in SUBSET Nat, T # {}
  PROVE  \E k \in T : \A j \in T : k <= j
<1> DEFINE Less == {p \in Nat \X Nat : p[1] < p[2]}
<1>1. IsWellFoundedOn(Less, Nat)
  BY NatLessThanWellFounded DEF OpToRel
<1>2. PICK k \in T : \A j \in T : ~ <<j, k>> \in Less
  <2> HIDE DEF Less
  <2> QED BY <1>1, WFMin
<1>3. ASSUME NEW j \in T, ~(k <= j) PROVE FALSE
  <2>1. j \in Nat /\ k \in Nat /\ j < k
    BY <1>3
  <2> DEFINE p == <<j, k>>
  <2>2. p \in Nat \X Nat /\ p[1] < p[2]
    BY <2>1
  <2>3. p \in Less
    BY <2>2
  <2> QED BY <1>2, <2>3
<1> QED BY <1>3

(* Induction, for a set instead of a predicate.                            *)
LEMMA SetInduction ==
  ASSUME NEW S, 0 \in S, \A n \in Nat : n \in S => n + 1 \in S
  PROVE  Nat \subseteq S
<1> SUFFICES ASSUME NEW m \in Nat, m \notin S PROVE FALSE
  OBVIOUS
<1> DEFINE T == {k \in Nat : k \notin S}
<1>1. T \in SUBSET Nat /\ T # {}
  OBVIOUS
<1>2. PICK k \in T : \A j \in T : k <= j
  BY <1>1, SmallestMember
<1>3. k - 1 \in Nat
  BY <1>2
<1>4. k - 1 \in S
  BY <1>2, <1>3
<1> QED BY <1>2, <1>3, <1>4

LEMMA SizesAreNumbers ==
  /\ MaxUsers \in Nat \ {0} /\ IsFiniteSet(Machine) /\ NoMachine \notin Machine
  /\ MaxPlayers \in Nat /\ MaxItems \in Nat /\ MaxTime \in Nat
  /\ HarmTime \in Nat /\ KickMinHarm \in Nat /\ StartDecay \in Nat /\ Decay \in Nat \ {0}
  /\ Timeout \in Nat /\ TimeoutPerVoter \in Nat /\ MinVoters \in Nat
  /\ Bias \in [Harmful \cup {"voice"} -> Nat]
  /\ User \subseteq Nat /\ Player \subseteq Nat /\ Nobody \notin User /\ Nobody \notin Player
BY SettingsAssumption DEF User, Player, Nobody

LEMMA UsersAreFinite == IsFiniteSet(User) /\ IsFiniteSet(Player)
<1>1. 1 \in Int /\ MaxUsers \in Int /\ MaxPlayers \in Int
  BY SizesAreNumbers
<1> QED BY <1>1, FS_Interval DEF User, Player

LEMMA SameEnd ==
  ASSUME NEW a \in Nat, NEW b \in Nat, 1 .. a = 1 .. b
  PROVE  a = b
<1>1. a > 0 => a \in 1 .. b
  OBVIOUS
<1>2. b > 0 => b \in 1 .. a
  OBVIOUS
<1> QED BY <1>1, <1>2

LEMMA MinIsMember ==
  ASSUME NEW S \in SUBSET Nat, S # {}
  PROVE  Min(S) \in S /\ \A n \in S : Min(S) <= n
BY SmallestMember DEF Min

-----------------------------------------------------------------------------
(* A voter leaves.                                                         *)

LEMMA BallotsTakenBack ==
  ASSUME NEW item \in Item, NEW m \in Machine
  PROVE  LET less == RemoveVoterCompletely(item, m)
         IN  /\ less \in Item
             /\ less.id = item.id /\ less.at = item.at /\ less.created = item.created
             /\ Ballots(item, m) <= 1 => Ballots(less, m) = 0
             /\ \A n \in Machine \ {m} : Ballots(less, n) = Ballots(item, n)
<1> DEFINE pro == [item.pro EXCEPT ![m] = OneLess(@)]
           con == [item.con EXCEPT ![m] = OneLess(@)]
           w == RemoveVoter(item, m)
           less == RemoveVoterCompletely(item, m)
<1>1. item.pro \in [Machine -> {0, 1}] /\ item.con \in [Machine -> {0, 1}]
  BY DEF Item
<1>2. /\ pro \in [Machine -> {0, 1}] /\ con \in [Machine -> {0, 1}]
      /\ pro[m] = 0 /\ con[m] = 0
      /\ \A n \in Machine \ {m} : pro[n] = item.pro[n] /\ con[n] = item.con[n]
  BY <1>1 DEF OneLess
<1>3. /\ w = [item EXCEPT !.pro = pro, !.con = con]
      /\ w \in Item /\ w.pro = pro /\ w.con = con
      /\ w.id = item.id /\ w.at = item.at /\ w.created = item.created
  <2>1. w = [item EXCEPT !.pro = pro, !.con = con]
    BY DEF RemoveVoter
  <2> HIDE DEF pro, con, w
  <2> QED BY <1>2, <2>1 DEF Item
<1>4. /\ less \in Item /\ less.pro = pro /\ less.con = con
      /\ less.id = item.id /\ less.at = item.at /\ less.created = item.created
  <2>1. less = w \/ less = [w EXCEPT !.suggestor = NoMachine, !.user = Nobody]
    BY DEF RemoveVoterCompletely
  <2> HIDE DEF pro, con, w, less
  <2>2. CASE less = w
    BY <1>3, <2>2
  <2>3. CASE less = [w EXCEPT !.suggestor = NoMachine, !.user = Nobody]
    <3>1. 0 \in 0 .. MaxUsers
      BY SizesAreNumbers
    <3> QED BY <1>3, <2>3, <3>1 DEF Item, Nobody
  <2> QED BY <2>1, <2>2, <2>3
<1> HIDE DEF pro, con
<1> QED BY <1>1, <1>2, <1>4 DEF Ballots

LEMMA LeavingFields ==
  ASSUME NEW s \in Server, NEW m \in Machine
  PROVE  LET r == VoterLeaves(s, m)
         IN  /\ r \in Server
             /\ r.items = [i \in DOMAIN s.items |-> RemoveVoterCompletely(s.items[i], m)]
             /\ r.deserted = s.deserted \ {m}
             /\ r.machine = s.machine /\ r.owner = s.owner /\ r.state = s.state
             /\ r.aware = s.aware /\ r.lastHarm = s.lastHarm /\ r.passed = s.passed
<1> DEFINE items == [i \in DOMAIN s.items |-> RemoveVoterCompletely(s.items[i], m)]
           deserted == s.deserted \ {m}
           r == [s EXCEPT !.items = items, !.deserted = deserted]
<1>1. items \in Seq(Item)
  <2>1. s.items \in Seq(Item)
    BY DEF Server
  <2>2. \A i \in DOMAIN s.items : RemoveVoterCompletely(s.items[i], m) \in Item
    BY <2>1, BallotsTakenBack, ElementOfSeq
  <2> QED BY <2>1, <2>2
<1>2. deserted \in SUBSET Machine
  BY DEF Server
<1>3. VoterLeaves(s, m) = r
  BY DEF VoterLeaves
<1> HIDE DEF items, deserted
<1>4. /\ r \in Server /\ r.items = items /\ r.deserted = deserted
      /\ r.machine = s.machine /\ r.owner = s.owner /\ r.state = s.state
      /\ r.aware = s.aware /\ r.lastHarm = s.lastHarm /\ r.passed = s.passed
  BY <1>1, <1>2 DEF Server
<1> QED BY <1>3, <1>4 DEF items, deserted

Gone(s, p) == [s EXCEPT !.state[p] = "gone", !.marks[p] = {}, !.owner[p] = Nobody]

LEMMA GoneFields ==
  ASSUME NEW s \in Server, NEW p \in Player
  PROVE  LET r == Gone(s, p)
         IN  /\ r \in Server
             /\ r.state = [s.state EXCEPT ![p] = "gone"]
             /\ r.owner = [s.owner EXCEPT ![p] = Nobody]
             /\ r.items = s.items /\ r.deserted = s.deserted /\ r.machine = s.machine
             /\ r.aware = s.aware /\ r.lastHarm = s.lastHarm /\ r.passed = s.passed
<1> DEFINE state == [s.state EXCEPT ![p] = "gone"]
           marks == [s.marks EXCEPT ![p] = {}]
           owner == [s.owner EXCEPT ![p] = Nobody]
           r == [s EXCEPT !.state = state, !.marks = marks, !.owner = owner]
<1>1. /\ state \in [Player -> {"none", "watching", "playing", "gone"}]
      /\ marks \in [Player -> SUBSET Mark] /\ owner \in [Player -> 0 .. MaxUsers]
  BY SizesAreNumbers DEF Server, Nobody
<1>2. Gone(s, p) = r
  BY DEF Gone
<1> HIDE DEF state, marks, owner
<1>3. /\ r \in Server /\ r.state = state /\ r.owner = owner
      /\ r.items = s.items /\ r.deserted = s.deserted /\ r.machine = s.machine
      /\ r.aware = s.aware /\ r.lastHarm = s.lastHarm /\ r.passed = s.passed
  BY <1>1 DEF Server
<1> QED BY <1>2, <1>3 DEF state, owner

(* What removing a player does to all that matters.                        *)
Removes(s, p, r) ==
  /\ r \in Server
  /\ r.state = [s.state EXCEPT ![p] = "gone"] /\ r.owner = [s.owner EXCEPT ![p] = Nobody]
  /\ r.machine = s.machine /\ r.aware = s.aware /\ r.lastHarm = s.lastHarm /\ r.passed = s.passed

LEMMA RemovalFields ==
  ASSUME NEW s \in Server, NEW p \in Player
  PROVE  LET r == RemoveFromGame(s, p)
             m == s.machine[s.owner[p]]
         IN  /\ Removes(s, p, r)
             /\ Connected(s, s.owner[p]) =>
                  /\ m \in Machine
                  /\ r.items = [i \in DOMAIN s.items |-> RemoveVoterCompletely(s.items[i], m)]
                  /\ r.deserted = s.deserted \ {m}
             /\ ~Connected(s, s.owner[p]) => r.items = s.items /\ r.deserted = s.deserted
<1> DEFINE r == RemoveFromGame(s, p)
           m == s.machine[s.owner[p]]
           gone == Gone(s, p)
<1>1. CASE ~Connected(s, s.owner[p])
  <2>1. r = gone
    BY <1>1 DEF RemoveFromGame, Gone
  <2> QED BY <1>1, <2>1, GoneFields DEF Removes
<1>2. CASE Connected(s, s.owner[p])
  <2> DEFINE t == [gone EXCEPT !.remembered[m] = s.marks[p]]
  <2>1. r = VoterLeaves(t, m)
    BY <1>2 DEF RemoveFromGame, Gone
  <2>2. m \in Machine
    <3>1. s.owner[p] \in User /\ s.machine[s.owner[p]] # NoMachine
      BY <1>2, SizesAreNumbers DEF Connected, Server, User, Nobody
    <3> QED BY <3>1 DEF Server
  <2>3. /\ t \in Server /\ t.items = gone.items /\ t.deserted = gone.deserted
        /\ t.machine = gone.machine /\ t.owner = gone.owner /\ t.state = gone.state
        /\ t.aware = gone.aware /\ t.lastHarm = gone.lastHarm /\ t.passed = gone.passed
    <3> DEFINE remembered == [gone.remembered EXCEPT ![m] = s.marks[p]]
    <3>1. gone \in Server
      BY GoneFields
    <3> HIDE DEF gone
    <3>2. remembered \in [Machine -> SUBSET Mark]
      BY <3>1, <2>2 DEF Server
    <3>3. t = [gone EXCEPT !.remembered = remembered]
      OBVIOUS
    <3> HIDE DEF remembered, t
    <3> QED BY <3>1, <3>2, <3>3 DEF Server
  <2> HIDE DEF t, gone
  <2>4. /\ gone.state = [s.state EXCEPT ![p] = "gone"]
        /\ gone.owner = [s.owner EXCEPT ![p] = Nobody]
        /\ gone.items = s.items /\ gone.deserted = s.deserted /\ gone.machine = s.machine
        /\ gone.aware = s.aware /\ gone.lastHarm = s.lastHarm /\ gone.passed = s.passed
    BY GoneFields DEF gone
  <2>5. /\ r \in Server
        /\ r.items = [i \in DOMAIN t.items |-> RemoveVoterCompletely(t.items[i], m)]
        /\ r.deserted = t.deserted \ {m}
        /\ r.machine = t.machine /\ r.owner = t.owner /\ r.state = t.state
        /\ r.aware = t.aware /\ r.lastHarm = t.lastHarm /\ r.passed = t.passed
    BY <2>1, <2>2, <2>3, LeavingFields
  <2> QED BY <1>2, <2>2, <2>3, <2>4, <2>5 DEF Removes
<1> QED BY <1>1, <1>2

LEMMA ItemsTyped ==
  ASSUME NEW s \in Server
  PROVE  /\ s.items \in Seq(Item) /\ Len(s.items) \in Nat /\ DOMAIN s.items = 1 .. Len(s.items)
         /\ \A i \in DOMAIN s.items : s.items[i] \in Item
         /\ \A i \in DOMAIN s.items, m \in Machine : Ballots(s.items[i], m) \in 0 .. 2
<1>1. s.items \in Seq(Item)
  BY DEF Server
<1>2. \A item \in Item, m \in Machine : Ballots(item, m) \in 0 .. 2
  BY DEF Item, Ballots
<1> QED BY <1>1, <1>2, ElementOfSeq

(* The items of r are those of s, but perhaps for the ballots and the user.*)
SameItems(s, r) ==
  /\ DOMAIN r.items = DOMAIN s.items /\ Len(r.items) = Len(s.items)
  /\ \A i \in DOMAIN s.items : /\ r.items[i].id = s.items[i].id
                               /\ r.items[i].at = s.items[i].at
                               /\ r.items[i].created = s.items[i].created

LEMMA RemovalSound ==
  ASSUME NEW s, Sound(s), NEW p \in Player
  PROVE  LET r == RemoveFromGame(s, p)
         IN  Sound(r) /\ Fewer(s, r) /\ r.state[p] = "gone" /\ r.machine = s.machine
<1> DEFINE r == RemoveFromGame(s, p)
           m == s.machine[s.owner[p]]
<1>1. s \in Server /\ Owned(s) /\ Pending(s) /\ Voices(s) /\ HarmKept(s) /\ Rightly(s)
  BY DEF Sound
<1>2. /\ Removes(s, p, r)
      /\ Connected(s, s.owner[p]) =>
           /\ m \in Machine
           /\ r.items = [i \in DOMAIN s.items |-> RemoveVoterCompletely(s.items[i], m)]
           /\ r.deserted = s.deserted \ {m}
      /\ ~Connected(s, s.owner[p]) => r.items = s.items /\ r.deserted = s.deserted
  BY <1>1, RemovalFields
<1>3. /\ s.state \in [Player -> {"none", "watching", "playing", "gone"}]
      /\ s.owner \in [Player -> 0 .. MaxUsers] /\ s.machine \in [User -> Machine \cup {NoMachine}]
  BY <1>1 DEF Server
<1>4. /\ r \in Server /\ r.machine = s.machine /\ r.aware = s.aware /\ r.lastHarm = s.lastHarm
      /\ r.passed = s.passed /\ r.state[p] = "gone" /\ r.owner[p] = Nobody
      /\ \A q \in Player \ {p} : r.state[q] = s.state[q] /\ r.owner[q] = s.owner[q]
  BY <1>2, <1>3 DEF Removes
<1> HIDE DEF r
<1>5. SameItems(s, r)
  <2>1. CASE Connected(s, s.owner[p])
    <3>1. \A i \in DOMAIN s.items : /\ r.items[i].id = s.items[i].id
                                    /\ r.items[i].at = s.items[i].at
                                    /\ r.items[i].created = s.items[i].created
      BY <1>1, <1>2, <2>1, ItemsTyped, BallotsTakenBack
    <3>2. DOMAIN r.items = DOMAIN s.items
      BY <1>2, <2>1
    <3>3. DOMAIN r.items = 1 .. Len(r.items) /\ DOMAIN s.items = 1 .. Len(s.items)
          /\ Len(r.items) \in Nat /\ Len(s.items) \in Nat
      BY <1>1, <1>4, ItemsTyped
    <3>4. Len(r.items) = Len(s.items)
      BY <3>2, <3>3, SameEnd
    <3> QED BY <3>1, <3>2, <3>4 DEF SameItems
  <2>2. CASE ~Connected(s, s.owner[p])
    BY <1>2, <2>2 DEF SameItems
  <2> QED BY <2>1, <2>2
<1>6. Owned(r)
  <2> SUFFICES ASSUME NEW q \in Player, r.owner[q] # Nobody
               PROVE  InGame(r, q) /\ Connected(r, r.owner[q])
    BY DEF Owned
  <2>1. q # p
    BY <1>4
  <2> QED BY <1>1, <1>4, <2>1 DEF Owned, InGame, Connected
<1>7. Pending(r)
  <2>1. {r.items[i].id : i \in DOMAIN r.items} = {s.items[i].id : i \in DOMAIN s.items}
    BY <1>5 DEF SameItems
  <2> QED BY <1>1, <1>4, <2>1 DEF Pending
<1>8. Voices(r)
  <2> SUFFICES ASSUME NEW i \in DOMAIN r.items, NEW n \in Machine
               PROVE  /\ Ballots(r.items[i], n) <= 1
                      /\ Ballots(r.items[i], n) = 1 => n \in r.deserted \/ HasPlayer(r, n)
    BY DEF Voices
  <2>1. /\ i \in DOMAIN s.items /\ s.items[i] \in Item
        /\ Ballots(s.items[i], n) <= 1
        /\ Ballots(s.items[i], n) = 1 => n \in s.deserted \/ HasPlayer(s, n)
    BY <1>1, <1>5, ItemsTyped DEF Voices, SameItems
  <2>2. CASE Connected(s, s.owner[p]) /\ n = m
    <3>1. r.items[i] = RemoveVoterCompletely(s.items[i], m)
      BY <1>2, <2>1, <2>2
    <3>2. Ballots(r.items[i], n) = 0
      BY <2>1, <2>2, <3>1, BallotsTakenBack
    <3> QED BY <3>2
  <2>3. CASE ~(Connected(s, s.owner[p]) /\ n = m)
    <3>1. Ballots(r.items[i], n) = Ballots(s.items[i], n)
      <4>1. CASE Connected(s, s.owner[p])
        <5>1. r.items[i] = RemoveVoterCompletely(s.items[i], m) /\ n \in Machine \ {m}
          BY <1>2, <2>1, <2>3, <4>1
        <5> QED BY <1>2, <2>1, <4>1, <5>1, BallotsTakenBack
      <4>2. CASE ~Connected(s, s.owner[p])
        BY <1>2, <4>2
      <4> QED BY <4>1, <4>2
    <3>2. n \in s.deserted => n \in r.deserted
      BY <1>2, <2>3
    <3>3. HasPlayer(s, n) => HasPlayer(r, n)
      <4> SUFFICES ASSUME NEW q \in Player, s.owner[q] # Nobody, s.machine[s.owner[q]] = n
                   PROVE  HasPlayer(r, n)
        BY DEF HasPlayer
      <4>1. q # p
        BY <1>1, <2>3 DEF Owned
      <4> QED BY <1>4, <4>1 DEF HasPlayer
    <3> QED BY <2>1, <3>1, <3>2, <3>3
  <2> QED BY <2>2, <2>3
<1>9. HarmKept(r)
  BY <1>1, <1>4, <1>5 DEF HarmKept, SameItems
<1>10. Rightly(r)
  <2> SUFFICES ASSUME NEW poll \in r.passed
               PROVE  /\ poll.pro > poll.con
                      /\ poll.kind = "kick" /\ InGame(r, poll.target) =>
                           r.owner[poll.target] = Nobody
    BY DEF Rightly
  <2>1. poll \in s.passed /\ poll.target \in Player
    BY <1>1, <1>4 DEF Server
  <2>2. CASE poll.target = p
    BY <1>1, <1>4, <2>1, <2>2 DEF Rightly
  <2>3. CASE poll.target # p
    BY <1>1, <1>4, <2>1, <2>3 DEF Rightly, InGame
  <2> QED BY <2>2, <2>3
<1>11. Fewer(s, r)
  <2>1. \A q \in Player : r.state[q] \in {s.state[q], "gone"} /\ r.owner[q] \in {s.owner[q], Nobody}
    BY <1>4
  <2> QED BY <1>4, <1>5, <2>1 DEF Fewer, SameItems
<1> QED BY <1>4, <1>6, <1>7, <1>8, <1>9, <1>10, <1>11 DEF Sound, r

LEMMA FewerStill ==
  ASSUME NEW s, NEW r, NEW t, Fewer(s, r), Fewer(r, t)
  PROVE  Fewer(s, t)
BY DEF Fewer

LEMMA LegacySound ==
  ASSUME NEW s, Sound(s), NEW u \in User
  PROVE  /\ Sound(ClearLegacySpectator(s, u)) /\ Fewer(s, ClearLegacySpectator(s, u))
         /\ ClearLegacySpectator(s, u).machine = s.machine
<1> DEFINE r == RemoveFromGame(s, s.legacy[u])
           legacy == [r.legacy EXCEPT ![u] = Nobody]
           t == [r EXCEPT !.legacy = legacy]
<1>1. CASE s.legacy[u] = Nobody
  <2>1. ClearLegacySpectator(s, u) = s
    BY <1>1 DEF ClearLegacySpectator
  <2> QED BY <2>1 DEF Fewer
<1>2. CASE s.legacy[u] # Nobody
  <2>1. s.legacy[u] \in Player
    BY <1>2, SizesAreNumbers DEF Sound, Server, Player, Nobody
  <2>2. Sound(r) /\ Fewer(s, r) /\ r.machine = s.machine
    BY <2>1, RemovalSound
  <2>3. ClearLegacySpectator(s, u) = t
    BY <1>2 DEF ClearLegacySpectator
  <2> HIDE DEF r
  <2>4. legacy \in [User -> 0 .. MaxPlayers]
    BY <2>2, SizesAreNumbers DEF Sound, Server, Nobody
  <2> HIDE DEF legacy
  <2>5. /\ t \in Server
        /\ t.machine = r.machine /\ t.owner = r.owner /\ t.state = r.state /\ t.items = r.items
        /\ t.aware = r.aware /\ t.lastHarm = r.lastHarm /\ t.deserted = r.deserted
        /\ t.passed = r.passed
    BY <2>2, <2>4 DEF Sound, Server
  <2> HIDE DEF t
  <2>6. Sound(t)
    BY <2>2, <2>5 DEF Sound, Owned, InGame, Connected, Pending, Voices, HasPlayer, HarmKept, Rightly
  <2>7. Fewer(s, t)
    BY <2>2, <2>5 DEF Fewer
  <2> QED BY <2>2, <2>3, <2>5, <2>6, <2>7
<1> QED BY <1>1, <1>2

-----------------------------------------------------------------------------
(* A user quits: its players are removed one after the other.              *)

(* What the loop has done to a set of players, by recursion over its size. *)
IsQuitting(s, S, n, g) ==
  /\ g = [T \in SUBSET S |-> g[T]]
  /\ \A T \in SUBSET S : Cardinality(T) <= n =>
       g[T] = IF T = {} THEN s ELSE RemoveFromGame(g[T \ {Min(T)}], Min(T))

LEMMA SmallerSet ==
  ASSUME NEW S \in SUBSET Nat, IsFiniteSet(S), S # {}
  PROVE  /\ Min(S) \in S /\ IsFiniteSet(S \ {Min(S)})
         /\ Cardinality(S) \in Nat
         /\ Cardinality(S \ {Min(S)}) = Cardinality(S) - 1
BY MinIsMember, FS_RemoveElement, FS_CardinalityType

LEMMA QuittingExists ==
  ASSUME NEW s, NEW S \in SUBSET Nat, IsFiniteSet(S), NEW n \in Nat
  PROVE  \E g : IsQuitting(s, S, n, g)
<1> DEFINE N == {k \in Nat : \E g : IsQuitting(s, S, k, g)}
<1>1. \A T \in SUBSET S : IsFiniteSet(T) /\ Cardinality(T) \in Nat
  BY FS_Subset, FS_CardinalityType
<1>2. 0 \in N
  <2>1. \A T \in SUBSET S : Cardinality(T) <= 0 => T = {}
    BY <1>1, FS_EmptySet
  <2>2. IsQuitting(s, S, 0, [T \in SUBSET S |-> s])
    BY <2>1 DEF IsQuitting
  <2> QED BY <2>2
<1>3. ASSUME NEW k \in Nat, k \in N PROVE k + 1 \in N
  <2>1. PICK g : IsQuitting(s, S, k, g)
    BY <1>3
  <2> DEFINE step(T) == RemoveFromGame(g[T \ {Min(T)}], Min(T))
             h == [T \in SUBSET S |-> IF Cardinality(T) <= k THEN g[T] ELSE step(T)]
  <2>2. ASSUME NEW T \in SUBSET S, Cardinality(T) <= k + 1
        PROVE  h[T] = IF T = {} THEN s ELSE RemoveFromGame(h[T \ {Min(T)}], Min(T))
    <3>1. CASE T = {}
      <4>1. Cardinality(T) <= k
        BY <3>1, FS_EmptySet
      <4>2. h[T] = g[T] /\ g[T] = s
        BY <2>1, <3>1, <4>1 DEF IsQuitting
      <4> QED BY <3>1, <4>2
    <3>2. CASE T # {}
      <4> DEFINE R == T \ {Min(T)}
      <4>1. R \in SUBSET S /\ Cardinality(R) = Cardinality(T) - 1 /\ Cardinality(T) \in Nat
        BY <1>1, <3>2, SmallerSet
      <4>2. h[R] = g[R]
        <5>1. Cardinality(R) <= k
          BY <2>2, <4>1
        <5> QED BY <4>1, <5>1
      <4>3. h[T] = step(T)
        <5>1. CASE Cardinality(T) <= k
          <6>1. g[T] = step(T)
            BY <2>1, <3>2, <5>1 DEF IsQuitting
          <6> QED BY <5>1, <6>1
        <5>2. CASE ~(Cardinality(T) <= k)
          BY <5>2
        <5> QED BY <5>1, <5>2
      <4> QED BY <3>2, <4>2, <4>3
    <3> QED BY <3>1, <3>2
  <2>3. h = [T \in SUBSET S |-> h[T]]
    OBVIOUS
  <2>4. IsQuitting(s, S, k + 1, h)
    <3> HIDE DEF h
    <3> QED BY <2>2, <2>3 DEF IsQuitting
  <2> QED BY <2>4
<1>4. Nat \subseteq N
  <2> HIDE DEF N
  <2> QED BY <1>2, <1>3, SetInduction
<1> QED BY <1>4

Quitting(s, S) ==
  MapThenFoldSet(LAMBDA p, t : RemoveFromGame(t, p), s, LAMBDA p : p, Min, S)

QuitsAll(s, S, g) ==
  \A T \in SUBSET S : g[T] = IF T = {} THEN s ELSE RemoveFromGame(g[T \ {Min(T)}], Min(T))

LEMMA QuittingIsLoop ==
  ASSUME NEW s, NEW S \in SUBSET Nat, IsFiniteSet(S)
  PROVE  \E g : Quitting(s, S) = g[S] /\ QuitsAll(s, S, g)
<1> DEFINE IsLoop(g) == g = [T \in SUBSET S |-> IF T = {} THEN s ELSE RemoveFromGame(g[T \ {Min(T)}], Min(T))]
           loop == CHOOSE g : IsLoop(g)
<1>1. Quitting(s, S) = loop[S]
  BY DEF Quitting, MapThenFoldSet
<1>2. PICK g : IsQuitting(s, S, Cardinality(S), g)
  BY QuittingExists, FS_CardinalityType
<1>3. \A T \in SUBSET S : Cardinality(T) <= Cardinality(S)
  BY FS_Subset
<1>4. IsLoop(g)
  BY <1>2, <1>3 DEF IsQuitting
<1>5. IsLoop(loop)
  <2> HIDE DEF IsLoop
  <2> QED BY <1>4
<1> HIDE DEF loop
<1>6. QuitsAll(s, S, loop)
  BY <1>5 DEF QuitsAll
<1> QED BY <1>1, <1>6

LEMMA QuittingSound ==
  ASSUME NEW s, Sound(s), NEW S \in SUBSET Player
  PROVE  /\ Sound(Quitting(s, S)) /\ Fewer(s, Quitting(s, S))
         /\ \A p \in S : Quitting(s, S).state[p] = "gone"
<1> DEFINE Emptied(T, r) == Sound(r) /\ Fewer(s, r) /\ \A p \in T : r.state[p] = "gone"
<1>1. S \in SUBSET Nat /\ IsFiniteSet(S)
  <2>1. S \in SUBSET Nat
    BY SizesAreNumbers
  <2> QED BY <2>1, UsersAreFinite, FS_Subset
<1>2. PICK g : Quitting(s, S) = g[S] /\ QuitsAll(s, S, g)
  BY <1>1, QuittingIsLoop
<1> DEFINE N == {n \in Nat : \A T \in SUBSET S : Cardinality(T) = n => Emptied(T, g[T])}
<1>3. \A T \in SUBSET S : IsFiniteSet(T) /\ Cardinality(T) \in Nat
  BY <1>1, FS_Subset, FS_CardinalityType
<1>4. 0 \in N
  <2> SUFFICES ASSUME NEW T \in SUBSET S, Cardinality(T) = 0 PROVE Emptied(T, g[T])
    OBVIOUS
  <2>1. T = {}
    BY <1>3, FS_EmptySet
  <2>2. g[T] = s
    BY <1>2, <2>1 DEF QuitsAll
  <2> QED BY <2>1, <2>2 DEF Fewer
<1>5. ASSUME NEW n \in Nat, n \in N PROVE n + 1 \in N
  <2> SUFFICES ASSUME NEW T \in SUBSET S, Cardinality(T) = n + 1 PROVE Emptied(T, g[T])
    OBVIOUS
  <2> DEFINE p == Min(T)
             R == T \ {p}
  <2>1. T # {}
    BY FS_EmptySet
  <2>2. p \in T /\ R \in SUBSET S /\ Cardinality(R) = n
    <3>1. T \in SUBSET Nat /\ IsFiniteSet(T)
      BY <1>1, <1>3
    <3>2. p \in T /\ Cardinality(R) = Cardinality(T) - 1
      BY <2>1, <3>1, SmallerSet
    <3> HIDE DEF p
    <3> QED BY <3>2
  <2>3. g[T] = RemoveFromGame(g[R], p)
    BY <1>2, <2>1 DEF QuitsAll
  <2>4. Emptied(R, g[R])
    BY <1>5, <2>2
  <2> HIDE DEF p, R
  <2>5. Sound(g[T]) /\ Fewer(g[R], g[T]) /\ g[T].state[p] = "gone"
    BY <2>2, <2>3, <2>4, RemovalSound
  <2>6. \A q \in R : g[T].state[q] = "gone"
    BY <2>2, <2>4, <2>5 DEF Fewer
  <2>7. Fewer(s, g[T])
    BY <2>4, <2>5, FewerStill
  <2> QED BY <2>5, <2>6, <2>7 DEF R
<1>6. Nat \subseteq N
  <2> HIDE DEF N
  <2> QED BY <1>4, <1>5, SetInduction
<1>7. Emptied(S, g[S])
  <2> HIDE DEF Emptied
  <2> QED BY <1>3, <1>6
<1> QED BY <1>2, <1>7

LEMMA PlayersAreNumbers ==
  ASSUME NEW s, NEW u
  PROVE  PlayersOf(s, u) \in SUBSET Player
BY DEF PlayersOf

LEMMA DisconnectSound ==
  ASSUME NEW s, Sound(s), NEW u \in User
  PROVE  /\ Sound(Disconnect(s, u)) /\ Fewer(s, Disconnect(s, u))
         /\ \A p \in PlayersOf(s, u) : Disconnect(s, u).state[p] = "gone"
<1> DEFINE base == ClearLegacySpectator(s, u)
           q == Quitting(base, PlayersOf(s, u))
           machine == [q.machine EXCEPT ![u] = NoMachine]
           aware == [q.aware EXCEPT ![u] = {}]
           r == [q EXCEPT !.machine = machine, !.aware = aware]
<1>1. Disconnect(s, u) = r
  BY DEF Disconnect, Quitting
<1>2. Sound(base) /\ Fewer(s, base)
  BY LegacySound
<1>3. Sound(q) /\ Fewer(base, q) /\ \A p \in PlayersOf(s, u) : q.state[p] = "gone"
  BY <1>2, QuittingSound, PlayersAreNumbers
<1>4. Fewer(s, q)
  BY <1>2, <1>3, FewerStill
<1> HIDE DEF base, q
<1>5. /\ q \in Server /\ q.machine \in [User -> Machine \cup {NoMachine}]
      /\ q.aware \in [User -> SUBSET (1 .. MaxItems)]
  BY <1>3 DEF Sound, Server
<1>6. /\ machine \in [User -> Machine \cup {NoMachine}] /\ machine[u] = NoMachine
      /\ \A v \in User \ {u} : machine[v] = q.machine[v]
      /\ aware \in [User -> SUBSET (1 .. MaxItems)] /\ aware[u] = {}
      /\ \A v \in User \ {u} : aware[v] = q.aware[v]
  BY <1>5
<1> HIDE DEF machine, aware
<1>7. /\ r \in Server /\ r.machine = machine /\ r.aware = aware
      /\ r.owner = q.owner /\ r.state = q.state /\ r.items = q.items
      /\ r.lastHarm = q.lastHarm /\ r.deserted = q.deserted /\ r.passed = q.passed
  BY <1>5, <1>6 DEF Server
<1> HIDE DEF r
<1>8. \A p \in Player : q.owner[p] # u
  <2> SUFFICES ASSUME NEW p \in Player, q.owner[p] = u PROVE FALSE
    OBVIOUS
  <2>1. u # Nobody
    BY SizesAreNumbers
  <2>2. InGame(q, p)
    BY <1>3, <2>1 DEF Sound, Owned
  <2>3. p \notin PlayersOf(s, u)
    BY <1>3, <2>2 DEF InGame
  <2>4. s.owner[p] = u
    BY <1>4, <2>1 DEF Fewer
  <2>5. InGame(s, p)
    BY <1>4, <2>2 DEF Fewer, InGame
  <2> QED BY <2>3, <2>4, <2>5 DEF PlayersOf
<1>9. \A p \in Player : q.owner[p] # Nobody => q.owner[p] \in User \ {u}
  BY <1>5, <1>8, SizesAreNumbers DEF Server, User, Nobody
<1>10. Owned(r)
  BY <1>3, <1>6, <1>7, <1>9 DEF Sound, Owned, InGame, Connected
<1>11. Pending(r)
  <2> SUFFICES ASSUME NEW v \in User
               PROVE  r.aware[v] \subseteq {r.items[i].id : i \in DOMAIN r.items}
    BY DEF Pending
  <2>1. v = u \/ v \in User \ {u}
    OBVIOUS
  <2> QED BY <1>3, <1>6, <1>7, <2>1 DEF Sound, Pending
<1>12. \A m \in Machine : HasPlayer(q, m) => HasPlayer(r, m)
  BY <1>6, <1>7, <1>9 DEF HasPlayer
<1>13. Voices(r)
  BY <1>3, <1>7, <1>12 DEF Sound, Voices
<1>14. HarmKept(r) /\ Rightly(r)
  BY <1>3, <1>7 DEF Sound, HarmKept, Rightly, InGame
<1>15. Fewer(s, r)
  <2>1. \A v \in User : r.machine[v] \in {s.machine[v], NoMachine}
    <3> TAKE v \in User
    <3>1. v = u \/ v \in User \ {u}
      OBVIOUS
    <3> QED BY <1>4, <1>6, <1>7, <3>1 DEF Fewer
  <2> QED BY <1>4, <1>7, <2>1 DEF Fewer
<1> QED BY <1>1, <1>3, <1>7, <1>10, <1>11, <1>13, <1>14, <1>15 DEF Sound, r

(* A kick spares the players that belong to the server by now.             *)
LEMMA KickUserSound ==
  ASSUME NEW s, Sound(s), NEW u \in 0 .. MaxUsers
  PROVE  /\ Sound(KickUser(s, u)) /\ Fewer(s, KickUser(s, u))
         /\ Connected(s, u) => \A p \in PlayersOf(s, u) : KickUser(s, u).state[p] = "gone"
<1>1. CASE Connected(s, u)
  <2>1. u \in User
    BY <1>1, SizesAreNumbers DEF Connected, User, Nobody
  <2>2. KickUser(s, u) = Disconnect(s, u)
    BY <1>1 DEF KickUser
  <2> QED BY <2>1, <2>2, DisconnectSound
<1>2. CASE ~Connected(s, u)
  <2>1. KickUser(s, u) = s
    BY <1>2 DEF KickUser
  <2> QED BY <1>2, <2>1 DEF Fewer
<1> QED BY <1>1, <1>2

(* The loops that kick all users of a machine are of the same form.        *)
IsKicking(s, S, n, g) ==
  /\ g = [T \in SUBSET S |-> g[T]]
  /\ \A T \in SUBSET S : Cardinality(T) <= n =>
       g[T] = IF T = {} THEN s ELSE KickUser(g[T \ {Min(T)}], Min(T))

LEMMA KickingExists ==
  ASSUME NEW s, NEW S \in SUBSET Nat, IsFiniteSet(S), NEW n \in Nat
  PROVE  \E g : IsKicking(s, S, n, g)
<1> DEFINE N == {k \in Nat : \E g : IsKicking(s, S, k, g)}
<1>1. \A T \in SUBSET S : IsFiniteSet(T) /\ Cardinality(T) \in Nat
  BY FS_Subset, FS_CardinalityType
<1>2. 0 \in N
  <2>1. \A T \in SUBSET S : Cardinality(T) <= 0 => T = {}
    BY <1>1, FS_EmptySet
  <2>2. IsKicking(s, S, 0, [T \in SUBSET S |-> s])
    BY <2>1 DEF IsKicking
  <2> QED BY <2>2
<1>3. ASSUME NEW k \in Nat, k \in N PROVE k + 1 \in N
  <2>1. PICK g : IsKicking(s, S, k, g)
    BY <1>3
  <2> DEFINE step(T) == KickUser(g[T \ {Min(T)}], Min(T))
             h == [T \in SUBSET S |-> IF Cardinality(T) <= k THEN g[T] ELSE step(T)]
  <2>2. ASSUME NEW T \in SUBSET S, Cardinality(T) <= k + 1
        PROVE  h[T] = IF T = {} THEN s ELSE KickUser(h[T \ {Min(T)}], Min(T))
    <3>1. CASE T = {}
      <4>1. Cardinality(T) <= k
        BY <3>1, FS_EmptySet
      <4>2. h[T] = g[T] /\ g[T] = s
        BY <2>1, <3>1, <4>1 DEF IsKicking
      <4> QED BY <3>1, <4>2
    <3>2. CASE T # {}
      <4> DEFINE R == T \ {Min(T)}
      <4>1. R \in SUBSET S /\ Cardinality(R) = Cardinality(T) - 1 /\ Cardinality(T) \in Nat
        BY <1>1, <3>2, SmallerSet
      <4>2. h[R] = g[R]
        <5>1. Cardinality(R) <= k
          BY <2>2, <4>1
        <5> QED BY <4>1, <5>1
      <4>3. h[T] = step(T)
        <5>1. CASE Cardinality(T) <= k
          <6>1. g[T] = step(T)
            BY <2>1, <3>2, <5>1 DEF IsKicking
          <6> QED BY <5>1, <6>1
        <5>2. CASE ~(Cardinality(T) <= k)
          BY <5>2
        <5> QED BY <5>1, <5>2
      <4> QED BY <3>2, <4>2, <4>3
    <3> QED BY <3>1, <3>2
  <2>3. h = [T \in SUBSET S |-> h[T]]
    OBVIOUS
  <2>4. IsKicking(s, S, k + 1, h)
    <3> HIDE DEF h
    <3> QED BY <2>2, <2>3 DEF IsKicking
  <2> QED BY <2>4
<1>4. Nat \subseteq N
  <2> HIDE DEF N
  <2> QED BY <1>2, <1>3, SetInduction
<1> QED BY <1>4

Kicking(s, S) ==
  MapThenFoldSet(LAMBDA u, t : KickUser(t, u), s, LAMBDA u : u, Min, S)

KicksAll(s, S, g) ==
  \A T \in SUBSET S : g[T] = IF T = {} THEN s ELSE KickUser(g[T \ {Min(T)}], Min(T))

LEMMA KickingIsLoop ==
  ASSUME NEW s, NEW S \in SUBSET Nat, IsFiniteSet(S)
  PROVE  \E g : Kicking(s, S) = g[S] /\ KicksAll(s, S, g)
<1> DEFINE IsLoop(g) == g = [T \in SUBSET S |-> IF T = {} THEN s ELSE KickUser(g[T \ {Min(T)}], Min(T))]
           loop == CHOOSE g : IsLoop(g)
<1>1. Kicking(s, S) = loop[S]
  BY DEF Kicking, MapThenFoldSet
<1>2. PICK g : IsKicking(s, S, Cardinality(S), g)
  BY KickingExists, FS_CardinalityType
<1>3. \A T \in SUBSET S : Cardinality(T) <= Cardinality(S)
  BY FS_Subset
<1>4. IsLoop(g)
  BY <1>2, <1>3 DEF IsKicking
<1>5. IsLoop(loop)
  <2> HIDE DEF IsLoop
  <2> QED BY <1>4
<1> HIDE DEF loop
<1>6. KicksAll(s, S, loop)
  BY <1>5 DEF KicksAll
<1> QED BY <1>1, <1>6


LEMMA KickingSound ==
  ASSUME NEW s, Sound(s), NEW S \in SUBSET User
  PROVE  Sound(Kicking(s, S)) /\ Fewer(s, Kicking(s, S))
<1> DEFINE Kicked(r) == Sound(r) /\ Fewer(s, r)
<1>1. S \in SUBSET Nat /\ IsFiniteSet(S)
  <2>1. S \in SUBSET Nat
    BY SizesAreNumbers
  <2> QED BY <2>1, UsersAreFinite, FS_Subset
<1>2. PICK g : Kicking(s, S) = g[S] /\ KicksAll(s, S, g)
  BY <1>1, KickingIsLoop
<1> DEFINE N == {n \in Nat : \A T \in SUBSET S : Cardinality(T) = n => Kicked(g[T])}
<1>3. \A T \in SUBSET S : IsFiniteSet(T) /\ Cardinality(T) \in Nat
  BY <1>1, FS_Subset, FS_CardinalityType
<1>4. 0 \in N
  <2> SUFFICES ASSUME NEW T \in SUBSET S, Cardinality(T) = 0 PROVE Kicked(g[T])
    OBVIOUS
  <2>1. T = {}
    BY <1>3, FS_EmptySet
  <2>2. g[T] = s
    BY <1>2, <2>1 DEF KicksAll
  <2> QED BY <2>1, <2>2 DEF Fewer
<1>5. ASSUME NEW n \in Nat, n \in N PROVE n + 1 \in N
  <2> SUFFICES ASSUME NEW T \in SUBSET S, Cardinality(T) = n + 1 PROVE Kicked(g[T])
    OBVIOUS
  <2> DEFINE u == Min(T)
             R == T \ {u}
  <2>1. T # {}
    BY FS_EmptySet
  <2>2. u \in T /\ R \in SUBSET S /\ Cardinality(R) = n
    <3>1. T \in SUBSET Nat /\ IsFiniteSet(T)
      BY <1>1, <1>3
    <3>2. u \in T /\ Cardinality(R) = Cardinality(T) - 1
      BY <2>1, <3>1, SmallerSet
    <3> HIDE DEF u
    <3> QED BY <3>2
  <2>3. g[T] = KickUser(g[R], u)
    BY <1>2, <2>1 DEF KicksAll
  <2>4. Kicked(g[R])
    BY <1>5, <2>2
  <2> HIDE DEF u, R
  <2>5. u \in 0 .. MaxUsers
    BY <2>2, SizesAreNumbers DEF User
  <2>6. Sound(g[T]) /\ Fewer(g[R], g[T])
    BY <2>3, <2>4, <2>5, KickUserSound
  <2>7. Fewer(s, g[T])
    BY <2>4, <2>6, FewerStill
  <2> QED BY <2>6, <2>7
<1>6. Nat \subseteq N
  <2> HIDE DEF N
  <2> QED BY <1>4, <1>5, SetInduction
<1>7. Kicked(g[S])
  <2> HIDE DEF Kicked
  <2> QED BY <1>3, <1>6
<1> QED BY <1>2, <1>7

LEMMA KickAllSound ==
  ASSUME NEW s, Sound(s), NEW m
  PROVE  Sound(KickAll(s, m)) /\ Fewer(s, KickAll(s, m))
<1> DEFINE S == {u \in User : s.machine[u] = m}
<1>1. KickAll(s, m) = Kicking(s, S)
  BY DEF KickAll, Kicking
<1>2. S \in SUBSET User
  OBVIOUS
<1> HIDE DEF S
<1> QED BY <1>1, <1>2, KickingSound

-----------------------------------------------------------------------------
(* What a poll does.                                                       *)

LEMMA RemarkSound ==
  ASSUME NEW s, Sound(s), NEW p \in Player,
         NEW gained \in SUBSET Mark, NEW lost \in SUBSET Mark
  PROVE  Sound(Remark(s, p, gained, lost)) /\ Fewer(s, Remark(s, p, gained, lost))
<1> DEFINE m == s.machine[s.owner[p]]
           marks == [s.marks EXCEPT ![p] = (@ \cup gained) \ lost]
           marked == [s EXCEPT !.marks = marks]
           remembered == [marked.remembered EXCEPT ![m] = (@ \cup gained) \ lost]
           told == [marked EXCEPT !.remembered = remembered]
           r == Remark(s, p, gained, lost)
<1>1. s \in Server /\ s.marks \in [Player -> SUBSET Mark]
  BY DEF Sound, Server
<1>2. marks \in [Player -> SUBSET Mark]
  BY <1>1
<1>3. r = IF Connected(s, s.owner[p]) THEN told ELSE marked
  BY DEF Remark
<1> HIDE DEF marks
<1>4. /\ marked \in Server
      /\ marked.machine = s.machine /\ marked.owner = s.owner /\ marked.state = s.state
      /\ marked.items = s.items /\ marked.aware = s.aware /\ marked.lastHarm = s.lastHarm
      /\ marked.deserted = s.deserted /\ marked.passed = s.passed
  BY <1>1, <1>2 DEF Server
<1>5. ASSUME Connected(s, s.owner[p])
      PROVE  /\ told \in Server
             /\ told.machine = s.machine /\ told.owner = s.owner /\ told.state = s.state
             /\ told.items = s.items /\ told.aware = s.aware /\ told.lastHarm = s.lastHarm
             /\ told.deserted = s.deserted /\ told.passed = s.passed
  <2> HIDE DEF marked
  <2>1. m \in Machine
    <3>1. s.owner[p] \in User /\ s.machine[s.owner[p]] # NoMachine
      BY <1>1, <1>5, SizesAreNumbers DEF Connected, Server, User, Nobody
    <3> QED BY <1>1, <3>1 DEF Server
  <2>2. remembered \in [Machine -> SUBSET Mark]
    BY <1>4, <2>1 DEF Server
  <2> HIDE DEF remembered
  <2> QED BY <1>4, <2>2 DEF Server
<1>6. /\ r \in Server
      /\ r.machine = s.machine /\ r.owner = s.owner /\ r.state = s.state
      /\ r.items = s.items /\ r.aware = s.aware /\ r.lastHarm = s.lastHarm
      /\ r.deserted = s.deserted /\ r.passed = s.passed
  <2> HIDE DEF r, told, marked
  <2> QED BY <1>3, <1>4, <1>5
<1> HIDE DEF r
<1>7. Sound(r)
  BY <1>6 DEF Sound, Owned, InGame, Connected, Pending, Voices, HasPlayer, HarmKept, Rightly
<1>8. Fewer(s, r)
  BY <1>6 DEF Fewer
<1> QED BY <1>7, <1>8 DEF r

(* Whoever a poll kicks is not in the game any more, or the server's.      *)
Kicked(r, p) == InGame(r, p) => r.owner[p] = Nobody

LEMMA KickSound ==
  ASSUME NEW s, Sound(s), NEW item \in Item
  PROVE  LET r == Kick(s, item)
         IN  Sound(r) /\ Fewer(s, r) /\ Kicked(r, item.target)
<1> DEFINE r == Kick(s, item)
           p == item.target
<1>1. p \in Player /\ s.owner[p] \in 0 .. MaxUsers
  BY DEF Item, Sound, Server
<1>2. CASE InGame(s, p)
  <2>1. r = KickUser(s, s.owner[p])
    BY <1>2 DEF Kick
  <2>2. Sound(r) /\ Fewer(s, r)
    BY <1>1, <2>1, KickUserSound
  <2>3. CASE s.owner[p] = Nobody
    BY <1>1, <2>2, <2>3 DEF Fewer, Kicked
  <2>4. CASE s.owner[p] # Nobody
    <3>1. Connected(s, s.owner[p]) /\ p \in PlayersOf(s, s.owner[p])
      BY <1>1, <1>2, <2>4 DEF Sound, Owned, PlayersOf
    <3>2. r.state[p] = "gone"
      BY <1>1, <2>1, <3>1, KickUserSound
    <3> QED BY <2>2, <3>2 DEF Kicked, InGame
  <2> QED BY <2>3, <2>4
<1>3. CASE ~InGame(s, p)
  <2>1. r = s \/ r = KickAll(s, item.at)
    BY <1>3 DEF Kick
  <2>2. Sound(r) /\ Fewer(s, r)
    BY <2>1, KickAllSound DEF Fewer
  <2> QED BY <1>1, <1>3, <2>2 DEF Fewer, Kicked, InGame
<1> QED BY <1>2, <1>3

LEMMA DoExecuteSound ==
  ASSUME NEW s, Sound(s), NEW item \in Item
  PROVE  LET r == DoExecute(s, item)
         IN  Sound(r) /\ Fewer(s, r) /\ (item.kind = "kick" => Kicked(r, item.target))
<1> DEFINE r == DoExecute(s, item)
<1>1. item.target \in Player /\ item.kind \in {"kick", "suspend", "silence", "voice"}
  BY DEF Item, Harmful
<1>2. {} \in SUBSET Mark /\ {"suspended"} \in SUBSET Mark /\ {"silenced"} \in SUBSET Mark
  BY DEF Mark
<1>3. CASE item.kind = "kick"
  <2>1. r = Kick(s, item)
    BY <1>3 DEF DoExecute
  <2> HIDE DEF r
  <2>2. Sound(r) /\ Fewer(s, r) /\ Kicked(r, item.target)
    BY <2>1, KickSound
  <2> QED BY <2>2 DEF r
<1>4. CASE item.kind # "kick"
  <2>1. \/ r = s \/ r = Suspend(s, item.target)
        \/ r = Remark(s, item.target, {"silenced"}, {})
        \/ r = Remark(s, item.target, {}, {"silenced"})
    BY <1>1, <1>4 DEF DoExecute
  <2>2. r = Suspend(s, item.target) => r = s \/ r = Remark(s, item.target, {"suspended"}, {})
    BY DEF Suspend
  <2> HIDE DEF r
  <2>3. Sound(s) /\ Fewer(s, s)
    BY DEF Fewer
  <2>4. Sound(r) /\ Fewer(s, r)
    BY <1>1, <1>2, <2>1, <2>2, <2>3, RemarkSound
  <2> QED BY <1>4, <2>4 DEF r
<1> QED BY <1>3, <1>4

(* The list of polls without one of them: the last has its place.          *)
LEMMA DropSound ==
  ASSUME NEW s, Sound(s), NEW i \in DOMAIN s.items
  PROVE  LET r == Drop(s, i)
         IN  /\ Sound(r) /\ Len(r.items) = Len(s.items) - 1
             /\ r.machine = s.machine /\ r.owner = s.owner /\ r.state = s.state
<1> DEFINE n == Len(s.items)
           rest == Front(s.items)
           items == IF i = n THEN rest ELSE ReplaceAt(rest, i, Last(s.items))
           aware == [u \in User |-> s.aware[u] \ {s.items[i].id}]
           r == [s EXCEPT !.items = items, !.aware = aware]
           from(j) == IF j = i THEN n ELSE j
<1>1. /\ s \in Server /\ s.items \in Seq(Item) /\ n \in Nat /\ DOMAIN s.items = 1 .. n
      /\ \A j \in 1 .. n : s.items[j] \in Item
      /\ s.aware \in [User -> SUBSET (1 .. MaxItems)]
  BY ItemsTyped DEF Sound, Server
<1>2. i \in 1 .. n /\ n - 1 \in Nat
  BY <1>1
<1>3. /\ rest \in Seq(Item) /\ Len(rest) = n - 1
      /\ \A j \in 1 .. n - 1 : rest[j] = s.items[j]
  <2>1. rest = SubSeq(s.items, 1, n - 1)
    BY DEF Front
  <2> HIDE DEF rest
  <2>2. \A j \in 1 .. n - 1 : s.items[j] \in Item
    BY <1>1
  <2> QED BY <1>1, <1>2, <2>1, <2>2
<1>4. /\ items \in Seq(Item) /\ Len(items) = n - 1 /\ DOMAIN items = 1 .. n - 1
      /\ \A j \in 1 .. n - 1 : items[j] = s.items[from(j)]
  <2> HIDE DEF rest
  <2>1. CASE i = n
    BY <1>1, <1>3, <2>1
  <2>2. CASE i # n
    <3>1. items = [rest EXCEPT ![i] = s.items[n]] /\ i \in 1 .. n - 1
      BY <1>2, <2>2 DEF ReplaceAt, Last
    <3>2. s.items[n] \in Item
      BY <1>1, <1>2
    <3> QED BY <1>2, <1>3, <2>2, <3>1, <3>2
  <2> QED BY <2>1, <2>2
<1>5. Drop(s, i) = r
  BY <1>1 DEF Drop
<1>6. aware \in [User -> SUBSET (1 .. MaxItems)]
  BY <1>1
<1> HIDE DEF items
<1>7. \A u \in User : aware[u] = s.aware[u] \ {s.items[i].id}
  OBVIOUS
<1> HIDE DEF aware
<1>8. /\ r \in Server /\ r.items = items /\ r.aware = aware
      /\ r.machine = s.machine /\ r.owner = s.owner /\ r.state = s.state
      /\ r.lastHarm = s.lastHarm /\ r.deserted = s.deserted /\ r.passed = s.passed
  BY <1>1, <1>4, <1>6 DEF Server
<1> HIDE DEF r
<1>9. /\ \A j \in 1 .. n - 1 : from(j) \in 1 .. n
      /\ \A j, k \in 1 .. n - 1 : j # k => from(j) # from(k)
      /\ \A k \in 1 .. n : k # i => \E j \in 1 .. n - 1 : from(j) = k
  <2>1. \A k \in 1 .. n : k # i => \E j \in 1 .. n - 1 : from(j) = k
    <3> SUFFICES ASSUME NEW k \in 1 .. n, k # i PROVE \E j \in 1 .. n - 1 : from(j) = k
      OBVIOUS
    <3>1. CASE k = n
      <4>1. i \in 1 .. n - 1 /\ from(i) = k
        BY <1>1, <1>2, <3>1
      <4> QED BY <4>1
    <3>2. CASE k # n
      <4>1. k \in 1 .. n - 1 /\ from(k) = k
        BY <1>1, <3>2
      <4> QED BY <4>1
    <3> QED BY <3>1, <3>2
  <2> QED BY <1>1, <1>2, <2>1
<1> HIDE DEF n, from
<1>10. Owned(r)
  BY <1>8 DEF Sound, Owned, InGame, Connected
<1>11. Pending(r)
  <2> SUFFICES ASSUME NEW u \in User, NEW id \in aware[u]
               PROVE  \E j \in DOMAIN r.items : r.items[j].id = id
    BY <1>8 DEF Pending
  <2>1. id \in s.aware[u] /\ id # s.items[i].id
    BY <1>7
  <2>2. PICK k \in DOMAIN s.items : s.items[k].id = id
    BY <2>1 DEF Sound, Pending
  <2>3. k \in 1 .. n /\ k # i
    BY <1>1, <2>1, <2>2
  <2>4. PICK j \in 1 .. n - 1 : from(j) = k
    BY <1>9, <2>3
  <2> QED BY <1>4, <1>8, <2>2, <2>4
<1>12. Voices(r)
  BY <1>1, <1>4, <1>8, <1>9 DEF Sound, Voices, HasPlayer
<1>13. HarmKept(r)
  <2>1. /\ \A j \in 1 .. n : s.items[j].at # NoMachine =>
             s.items[j].created <= s.lastHarm[s.items[j].at]
        /\ \A j, k \in 1 .. n : j < k /\ s.items[j].at = s.items[k].at /\ s.items[j].at # NoMachine =>
             \/ s.items[j].created + HarmTime <= s.items[k].created
             \/ s.items[k].created + HarmTime <= s.items[j].created
    BY <1>1 DEF Sound, HarmKept
  <2>2. \A j, k \in 1 .. n : j # k /\ s.items[j].at = s.items[k].at /\ s.items[j].at # NoMachine =>
             \/ s.items[j].created + HarmTime <= s.items[k].created
             \/ s.items[k].created + HarmTime <= s.items[j].created
    <3> TAKE j, k \in 1 .. n
    <3>1. j # k => j < k \/ k < j
      BY <1>1
    <3> QED BY <2>1, <3>1
  <2>3. DOMAIN r.items = 1 .. n - 1 /\ r.lastHarm = s.lastHarm
        /\ \A j \in 1 .. n - 1 : r.items[j] = s.items[from(j)]
    BY <1>4, <1>8
  <2>4. \A j \in DOMAIN r.items :
          r.items[j].at # NoMachine => r.items[j].created <= r.lastHarm[r.items[j].at]
    BY <1>9, <2>1, <2>3
  <2>5. \A j, k \in DOMAIN r.items :
          j < k /\ r.items[j].at = r.items[k].at /\ r.items[j].at # NoMachine =>
             \/ r.items[j].created + HarmTime <= r.items[k].created
             \/ r.items[k].created + HarmTime <= r.items[j].created
    <3> SUFFICES ASSUME NEW j \in 1 .. n - 1, NEW k \in 1 .. n - 1, j < k,
                        r.items[j].at = r.items[k].at, r.items[j].at # NoMachine
                 PROVE  \/ r.items[j].created + HarmTime <= r.items[k].created
                        \/ r.items[k].created + HarmTime <= r.items[j].created
      BY <2>3
    <3>1. from(j) \in 1 .. n /\ from(k) \in 1 .. n /\ from(j) # from(k)
      <4>1. j # k
        BY <1>1
      <4> QED BY <1>9, <4>1
    <3> QED BY <2>2, <2>3, <3>1
  <2> QED BY <2>4, <2>5 DEF HarmKept
<1>14. Rightly(r)
  BY <1>8 DEF Sound, Rightly, InGame
<1>15. Sound(r)
  BY <1>8, <1>10, <1>11, <1>12, <1>13, <1>14 DEF Sound
<1> QED BY <1>4, <1>5, <1>8, <1>15 DEF r, n

-----------------------------------------------------------------------------
(* How many voters there are on one side.                                  *)

IsCounting(v, n, g) ==
  /\ g = [T \in SUBSET Machine |-> g[T]]
  /\ \A T \in SUBSET Machine : Cardinality(T) <= n =>
       g[T] = IF T = {} THEN 0
              ELSE v[CHOOSE m \in T : TRUE] + g[T \ {CHOOSE m \in T : TRUE}]

LEMMA OneVoterLess ==
  ASSUME NEW T \in SUBSET Machine, T # {}
  PROVE  LET m == CHOOSE n \in T : TRUE
         IN  /\ m \in T /\ Cardinality(T) \in Nat
             /\ Cardinality(T \ {m}) = Cardinality(T) - 1
BY SizesAreNumbers, FS_Subset, FS_RemoveElement, FS_CardinalityType

LEMMA CountingExists ==
  ASSUME NEW v, NEW n \in Nat
  PROVE  \E g : IsCounting(v, n, g)
<1> DEFINE N == {k \in Nat : \E g : IsCounting(v, k, g)}
           one(T) == CHOOSE m \in T : TRUE
<1>1. \A T \in SUBSET Machine : IsFiniteSet(T) /\ Cardinality(T) \in Nat
  BY SizesAreNumbers, FS_Subset, FS_CardinalityType
<1>2. 0 \in N
  <2>1. \A T \in SUBSET Machine : Cardinality(T) <= 0 => T = {}
    BY <1>1, FS_EmptySet
  <2>2. IsCounting(v, 0, [T \in SUBSET Machine |-> 0])
    BY <2>1 DEF IsCounting
  <2> QED BY <2>2
<1>3. ASSUME NEW k \in Nat, k \in N PROVE k + 1 \in N
  <2>1. PICK g : IsCounting(v, k, g)
    BY <1>3
  <2> DEFINE step(T) == v[one(T)] + g[T \ {one(T)}]
             h == [T \in SUBSET Machine |-> IF Cardinality(T) <= k THEN g[T] ELSE step(T)]
  <2>2. ASSUME NEW T \in SUBSET Machine, Cardinality(T) <= k + 1
        PROVE  h[T] = IF T = {} THEN 0 ELSE v[one(T)] + h[T \ {one(T)}]
    <3>1. CASE T = {}
      <4>1. Cardinality(T) <= k
        BY <3>1, FS_EmptySet
      <4>2. h[T] = g[T] /\ g[T] = 0
        BY <2>1, <3>1, <4>1 DEF IsCounting
      <4> QED BY <3>1, <4>2
    <3>2. CASE T # {}
      <4> DEFINE R == T \ {one(T)}
      <4>1. R \in SUBSET Machine /\ Cardinality(R) = Cardinality(T) - 1 /\ Cardinality(T) \in Nat
        BY <3>2, OneVoterLess
      <4>2. h[R] = g[R]
        <5>1. Cardinality(R) <= k
          BY <2>2, <4>1
        <5> QED BY <4>1, <5>1
      <4>3. h[T] = step(T)
        <5>1. CASE Cardinality(T) <= k
          <6>1. g[T] = step(T)
            BY <2>1, <3>2, <5>1 DEF IsCounting
          <6> QED BY <5>1, <6>1
        <5>2. CASE ~(Cardinality(T) <= k)
          BY <5>2
        <5> QED BY <5>1, <5>2
      <4> QED BY <3>2, <4>2, <4>3
    <3> QED BY <3>1, <3>2
  <2>3. h = [T \in SUBSET Machine |-> h[T]]
    OBVIOUS
  <2>4. IsCounting(v, k + 1, h)
    <3> HIDE DEF h
    <3> QED BY <2>2, <2>3 DEF IsCounting
  <2> QED BY <2>4
<1>4. Nat \subseteq N
  <2> HIDE DEF N
  <2> QED BY <1>2, <1>3, SetInduction
<1> QED BY <1>4

LEMMA CountIsNumber ==
  ASSUME NEW v \in [Machine -> {0, 1}]
  PROVE  Count(v) \in Nat
<1> DEFINE one(T) == CHOOSE m \in T : TRUE
           IsLoop(g) == g = [T \in SUBSET Machine |-> IF T = {} THEN 0 ELSE v[one(T)] + g[T \ {one(T)}]]
           loop == CHOOSE g : IsLoop(g)
<1>1. Count(v) = loop[Machine]
  <2>1. DOMAIN v = Machine
    OBVIOUS
  <2> QED BY <2>1 DEF Count, FoldFunction, FoldFunctionOnSet, MapThenFoldSet
<1>2. PICK g : IsCounting(v, Cardinality(Machine), g)
  BY SizesAreNumbers, CountingExists, FS_CardinalityType
<1>3. \A T \in SUBSET Machine : /\ IsFiniteSet(T) /\ Cardinality(T) \in Nat
                                /\ Cardinality(T) <= Cardinality(Machine)
  BY SizesAreNumbers, FS_Subset, FS_CardinalityType
<1>4. IsLoop(g)
  BY <1>2, <1>3 DEF IsCounting
<1>5. IsLoop(loop)
  <2> HIDE DEF IsLoop
  <2> QED BY <1>4
<1> HIDE DEF loop
<1>6. \A T \in SUBSET Machine : loop[T] = IF T = {} THEN 0 ELSE v[one(T)] + loop[T \ {one(T)}]
  BY <1>5
<1> DEFINE N == {n \in Nat : \A T \in SUBSET Machine : Cardinality(T) = n => loop[T] \in Nat}
<1>7. 0 \in N
  BY <1>3, <1>6, FS_EmptySet
<1>8. ASSUME NEW n \in Nat, n \in N PROVE n + 1 \in N
  <2> SUFFICES ASSUME NEW T \in SUBSET Machine, Cardinality(T) = n + 1 PROVE loop[T] \in Nat
    OBVIOUS
  <2>1. T # {}
    BY FS_EmptySet
  <2>2. one(T) \in T /\ Cardinality(T \ {one(T)}) = n
    BY <2>1, OneVoterLess
  <2>3. loop[T \ {one(T)}] \in Nat /\ v[one(T)] \in Nat
    BY <1>8, <2>2
  <2> QED BY <1>6, <2>1, <2>3
<1>9. Nat \subseteq N
  <2> HIDE DEF N
  <2> QED BY <1>7, <1>8, SetInduction
<1> QED BY <1>1, <1>3, <1>9

-----------------------------------------------------------------------------
(* Judging.                                                                *)

LEMMA ExecuteSound ==
  ASSUME NEW s, Sound(s), NEW item \in Item, Count(item.pro) > Count(item.con)
  PROVE  Sound(Execute(s, item)) /\ Len(Execute(s, item).items) = Len(s.items)
<1> DEFINE done == DoExecute(s, item)
           poll == [kind |-> item.kind, target |-> item.target,
                    pro |-> Count(item.pro), con |-> Count(item.con)]
           passed == done.passed \cup {poll}
           r == [done EXCEPT !.passed = passed]
           Poll == [kind : Harmful \cup {"voice"}, target : Player, pro : Nat, con : Nat]
<1>1. Sound(done) /\ Fewer(s, done) /\ (item.kind = "kick" => Kicked(done, item.target))
  BY DoExecuteSound
<1>2. Execute(s, item) = r
  BY DEF Execute
<1> HIDE DEF done
<1>3. done \in Server /\ done.passed \in SUBSET Poll
  BY <1>1 DEF Sound, Server
<1>4. /\ poll \in Poll /\ poll.kind = item.kind /\ poll.target = item.target
      /\ poll.pro = Count(item.pro) /\ poll.con = Count(item.con)
  BY CountIsNumber DEF Item
<1> HIDE DEF poll
<1>5. passed \in SUBSET Poll
  BY <1>3, <1>4
<1> HIDE DEF passed
<1>6. /\ r \in Server /\ r.passed = passed
      /\ r.machine = done.machine /\ r.owner = done.owner /\ r.state = done.state
      /\ r.items = done.items /\ r.aware = done.aware /\ r.lastHarm = done.lastHarm
      /\ r.deserted = done.deserted
  BY <1>3, <1>5 DEF Server
<1> HIDE DEF r, Poll
<1>7. Owned(r) /\ Pending(r) /\ Voices(r) /\ HarmKept(r)
  BY <1>1, <1>6 DEF Sound, Owned, InGame, Connected, Pending, Voices, HasPlayer, HarmKept
<1>8. Rightly(r)
  <2> SUFFICES ASSUME NEW q \in r.passed
               PROVE  /\ q.pro > q.con
                      /\ q.kind = "kick" /\ InGame(r, q.target) => r.owner[q.target] = Nobody
    BY DEF Rightly
  <2>1. CASE q \in done.passed
    BY <1>1, <1>6, <2>1 DEF Sound, Rightly, InGame
  <2>2. CASE q = poll
    BY <1>1, <1>4, <1>6, <2>2 DEF Kicked, InGame
  <2> QED BY <1>6, <2>1, <2>2 DEF passed
<1> QED BY <1>1, <1>2, <1>6, <1>7, <1>8 DEF Sound, Fewer, r

(* An accepted poll has more voters for it: with as many against it, it is *)
(* either rejected before or short of half of the total.                   *)
LEMMA AcceptedByMore ==
  ASSUME NEW s, NEW item \in Item, now \in Nat,
         Verdict(s, item, Count(item.pro), Count(item.con) + Bias[item.kind],
                 item.total + Bias[item.kind] - Ignored(item)) = "accepted"
  PROVE  Count(item.pro) > Count(item.con)
<1> DEFINE pro == Count(item.pro)
           bias == Bias[item.kind]
           con == Count(item.con)
           total == item.total + bias - Ignored(item)
<1>1. pro \in Nat /\ con \in Nat /\ bias \in Nat
  BY CountIsNumber, SizesAreNumbers DEF Item
<1>2. total \in Int
  <2>1. Ignored(item) \in Int
    <3>1. /\ now - item.created \in Int /\ now - item.created - StartDecay \in Int
          /\ Decay \in Nat \ {0}
      BY SizesAreNumbers DEF Item
    <3>2. (now - item.created - StartDecay) \div Decay \in Int
      BY <3>1
    <3> QED BY <3>2 DEF Ignored
  <2>2. item.total \in Int
    BY SizesAreNumbers DEF Item
  <2> QED BY <1>1, <2>1, <2>2
<1>3. ~Rejected(pro, con + bias, total) /\ Accepted(pro, con + bias, total)
  BY DEF Verdict
<1> HIDE DEF pro, con, bias, total
<1>4. pro > con
  BY <1>1, <1>2, <1>3 DEF Rejected, Accepted
<1> QED BY <1>4 DEF pro, con

LEMMA SpamSound ==
  ASSUME NEW s, Sound(s), NEW voter, NEW u \in 0 .. MaxUsers, NEW spammers
  PROVE  Sound(Spam(s, voter, u, spammers)) /\ Fewer(s, Spam(s, voter, u, spammers))
<1>1. Spam(s, voter, u, spammers) = s \/ Spam(s, voter, u, spammers) = KickUser(s, u)
  BY DEF Spam
<1> QED BY <1>1, KickUserSound DEF Fewer

(* One poll is judged: at most this one goes.                              *)
LEMMA EvaluateSound ==
  ASSUME NEW s, Sound(s), NEW i \in DOMAIN s.items, NEW spammers, now \in Nat
  PROVE  LET r == Evaluate(s, i, spammers)
         IN  Sound(r) /\ Len(r.items) \in {Len(s.items), Len(s.items) - 1}
<1> DEFINE item == s.items[i]
           verdict == Verdict(s, item, Count(item.pro), Count(item.con) + Bias[item.kind],
                              item.total + Bias[item.kind] - Ignored(item))
           spam == Spam(s, item.suggestor, item.user, spammers)
           done == Execute(s, item)
           r == Evaluate(s, i, spammers)
<1>1. item \in Item /\ item.user \in 0 .. MaxUsers
  BY ItemsTyped DEF Sound, Item
<1>2. Len(s.items) \in Nat /\ DOMAIN s.items = 1 .. Len(s.items)
  BY ItemsTyped DEF Sound
<1>3. CASE verdict = "rejected"
  <2>1. r = Drop(spam, i)
    BY <1>3 DEF Evaluate
  <2>2. Sound(spam) /\ Fewer(s, spam)
    BY <1>1, SpamSound
  <2>3. i \in DOMAIN spam.items /\ Len(spam.items) = Len(s.items)
    BY <1>2, <2>2, ItemsTyped DEF Sound, Fewer
  <2> QED BY <2>1, <2>2, <2>3, DropSound
<1>4. CASE verdict = "accepted"
  <2>1. r = Drop(done, i)
    BY <1>4 DEF Evaluate
  <2>2. Count(item.pro) > Count(item.con)
    BY <1>1, <1>4, AcceptedByMore
  <2>3. Sound(done) /\ Len(done.items) = Len(s.items)
    BY <1>1, <2>2, ExecuteSound
  <2>4. i \in DOMAIN done.items
    BY <1>2, <2>3, ItemsTyped DEF Sound
  <2> QED BY <2>1, <2>3, <2>4, DropSound
<1>5. CASE verdict = "pending"
  <2>1. r = s
    BY <1>5 DEF Evaluate
  <2> QED BY <2>1
<1>6. CASE verdict \notin {"rejected", "accepted", "pending"}
  <2>1. r = Drop(s, i)
    BY <1>6 DEF Evaluate
  <2> QED BY <2>1, DropSound
<1> QED BY <1>3, <1>4, <1>5, <1>6

(* All polls are judged, from the last to the first.                       *)
IsJudging(s, spammers, S, n, g) ==
  /\ g = [T \in SUBSET S |-> g[T]]
  /\ \A T \in SUBSET S : Cardinality(T) <= n =>
       g[T] = IF T = {} THEN s ELSE Evaluate(g[T \ {Min(T)}], Min(T), spammers)

LEMMA JudgingExists ==
  ASSUME NEW s, NEW spammers, NEW S \in SUBSET Nat, IsFiniteSet(S), NEW n \in Nat
  PROVE  \E g : IsJudging(s, spammers, S, n, g)
<1> DEFINE N == {k \in Nat : \E g : IsJudging(s, spammers, S, k, g)}
<1>1. \A T \in SUBSET S : IsFiniteSet(T) /\ Cardinality(T) \in Nat
  BY FS_Subset, FS_CardinalityType
<1>2. 0 \in N
  <2>1. \A T \in SUBSET S : Cardinality(T) <= 0 => T = {}
    BY <1>1, FS_EmptySet
  <2>2. IsJudging(s, spammers, S, 0, [T \in SUBSET S |-> s])
    BY <2>1 DEF IsJudging
  <2> QED BY <2>2
<1>3. ASSUME NEW k \in Nat, k \in N PROVE k + 1 \in N
  <2>1. PICK g : IsJudging(s, spammers, S, k, g)
    BY <1>3
  <2> DEFINE step(T) == Evaluate(g[T \ {Min(T)}], Min(T), spammers)
             h == [T \in SUBSET S |-> IF Cardinality(T) <= k THEN g[T] ELSE step(T)]
  <2>2. ASSUME NEW T \in SUBSET S, Cardinality(T) <= k + 1
        PROVE  h[T] = IF T = {} THEN s ELSE Evaluate(h[T \ {Min(T)}], Min(T), spammers)
    <3>1. CASE T = {}
      <4>1. Cardinality(T) <= k
        BY <3>1, FS_EmptySet
      <4>2. h[T] = g[T] /\ g[T] = s
        BY <2>1, <3>1, <4>1 DEF IsJudging
      <4> QED BY <3>1, <4>2
    <3>2. CASE T # {}
      <4> DEFINE R == T \ {Min(T)}
      <4>1. R \in SUBSET S /\ Cardinality(R) = Cardinality(T) - 1 /\ Cardinality(T) \in Nat
        BY <1>1, <3>2, SmallerSet
      <4>2. h[R] = g[R]
        <5>1. Cardinality(R) <= k
          BY <2>2, <4>1
        <5> QED BY <4>1, <5>1
      <4>3. h[T] = step(T)
        <5>1. CASE Cardinality(T) <= k
          <6>1. g[T] = step(T)
            BY <2>1, <3>2, <5>1 DEF IsJudging
          <6> QED BY <5>1, <6>1
        <5>2. CASE ~(Cardinality(T) <= k)
          BY <5>2
        <5> QED BY <5>1, <5>2
      <4> QED BY <3>2, <4>2, <4>3
    <3> QED BY <3>1, <3>2
  <2>3. h = [T \in SUBSET S |-> h[T]]
    OBVIOUS
  <2>4. IsJudging(s, spammers, S, k + 1, h)
    <3> HIDE DEF h
    <3> QED BY <2>2, <2>3 DEF IsJudging
  <2> QED BY <2>4
<1>4. Nat \subseteq N
  <2> HIDE DEF N
  <2> QED BY <1>2, <1>3, SetInduction
<1> QED BY <1>4

Judging(s, spammers, S) ==
  MapThenFoldSet(LAMBDA i, t : Evaluate(t, i, spammers), s, LAMBDA i : i, Min, S)

JudgesAll(s, spammers, S, g) ==
  \A T \in SUBSET S : g[T] = IF T = {} THEN s ELSE Evaluate(g[T \ {Min(T)}], Min(T), spammers)

LEMMA JudgingIsLoop ==
  ASSUME NEW s, NEW spammers, NEW S \in SUBSET Nat, IsFiniteSet(S)
  PROVE  \E g : Judging(s, spammers, S) = g[S] /\ JudgesAll(s, spammers, S, g)
<1> DEFINE IsLoop(g) == g = [T \in SUBSET S |-> IF T = {} THEN s ELSE Evaluate(g[T \ {Min(T)}], Min(T), spammers)]
           loop == CHOOSE g : IsLoop(g)
<1>1. Judging(s, spammers, S) = loop[S]
  BY DEF Judging, MapThenFoldSet
<1>2. PICK g : IsJudging(s, spammers, S, Cardinality(S), g)
  BY JudgingExists, FS_CardinalityType
<1>3. \A T \in SUBSET S : Cardinality(T) <= Cardinality(S)
  BY FS_Subset
<1>4. IsLoop(g)
  BY <1>2, <1>3 DEF IsJudging
<1>5. IsLoop(loop)
  <2> HIDE DEF IsLoop
  <2> QED BY <1>4
<1> HIDE DEF loop
<1>6. JudgesAll(s, spammers, S, loop)
  BY <1>5 DEF JudgesAll
<1> QED BY <1>1, <1>6


LEMMA FromTheLast ==
  ASSUME NEW n \in Nat, NEW k \in Nat, k < n
  PROVE  LET T == n - k .. n
         IN  /\ T \in SUBSET (1 .. n) /\ T # {} /\ Min(T) = n - k
             /\ T \ {n - k} = n - k + 1 .. n
<1> DEFINE T == n - k .. n
<1>1. T \in SUBSET (1 .. n) /\ n - k \in T /\ T \in SUBSET Nat /\ \A j \in T : n - k <= j
  OBVIOUS
<1>2. T \ {n - k} = n - k + 1 .. n
  OBVIOUS
<1>3. Min(T) \in T /\ \A j \in T : Min(T) <= j
  <2> HIDE DEF T
  <2> QED BY <1>1, MinIsMember
<1>4. Min(T) = n - k
  <2>1. Min(T) <= n - k /\ n - k <= Min(T) /\ Min(T) \in Nat
    BY <1>1, <1>3
  <2> QED BY <2>1
<1> QED BY <1>1, <1>2, <1>4

LEMMA EvaluateAllSound ==
  ASSUME NEW s, Sound(s), NEW spammers, now \in Nat
  PROVE  Sound(EvaluateAll(s, spammers))
<1> DEFINE n == Len(s.items)
           S == 1 .. n
           Judged(k, r) == Sound(r) /\ Len(r.items) >= n - k
<1>1. n \in Nat /\ DOMAIN s.items = S
  BY ItemsTyped DEF Sound
<1>2. EvaluateAll(s, spammers) = Judging(s, spammers, S)
  BY <1>1 DEF EvaluateAll, Judging
<1>3. S \in SUBSET Nat /\ IsFiniteSet(S)
  BY <1>1, FS_Interval
<1> HIDE DEF n, S
<1>4. PICK g : Judging(s, spammers, S) = g[S] /\ JudgesAll(s, spammers, S, g)
  BY <1>3, JudgingIsLoop
<1> DEFINE N == {k \in Nat : k <= n => Judged(k, g[n - k + 1 .. n])}
<1>5. 0 \in N
  <2>1. n - 0 + 1 .. n = {} /\ {} \in SUBSET S
    BY <1>1
  <2>2. g[{}] = s
    BY <2>1, <1>4 DEF JudgesAll
  <2>3. Judged(0, s)
    BY <1>1 DEF n
  <2> QED BY <2>1, <2>2, <2>3
<1>6. ASSUME NEW k \in Nat, k \in N PROVE k + 1 \in N
  <2> SUFFICES ASSUME k + 1 <= n PROVE Judged(k + 1, g[n - (k + 1) + 1 .. n])
    OBVIOUS
  <2> DEFINE T == n - k .. n
             R == n - k + 1 .. n
  <2>1. n - (k + 1) + 1 = n - k /\ k < n /\ k <= n
    BY <1>1
  <2>2. T \in SUBSET S /\ T # {} /\ Min(T) = n - k /\ T \ {n - k} = R
    BY <1>1, <2>1, FromTheLast DEF S
  <2>3. Judged(k, g[R])
    BY <1>6, <2>1
  <2> HIDE DEF T, R
  <2>4. g[T] = Evaluate(g[R], n - k, spammers)
    BY <1>4, <2>2 DEF JudgesAll
  <2>5. n - k \in DOMAIN g[R].items /\ Len(g[R].items) \in Nat
    <3>1. DOMAIN g[R].items = 1 .. Len(g[R].items) /\ Len(g[R].items) \in Nat
      BY <2>3, ItemsTyped DEF Sound
    <3> QED BY <1>1, <2>1, <2>3, <3>1
  <2>6. Sound(g[T]) /\ Len(g[T].items) \in {Len(g[R].items), Len(g[R].items) - 1}
    BY <2>3, <2>4, <2>5, EvaluateSound
  <2>7. Judged(k + 1, g[T])
    BY <1>1, <2>3, <2>5, <2>6
  <2> QED BY <2>1, <2>7 DEF T
<1>7. Nat \subseteq N
  <2> HIDE DEF N
  <2> QED BY <1>5, <1>6, SetInduction
<1>8. Judged(n, g[n - n + 1 .. n])
  BY <1>1, <1>7
<1>9. n - n + 1 = 1
  BY <1>1
<1> QED BY <1>2, <1>4, <1>8, <1>9 DEF S

-----------------------------------------------------------------------------
(* A new poll.                                                             *)

LEMMA GetVoterTyped ==
  ASSUME NEW s, Sound(s), NEW u \in 0 .. MaxUsers
  PROVE  /\ GetVoter(s, u) \in Machine \cup {NoMachine}
         /\ GetVoter(s, u) # NoMachine => HasPlayer(s, GetVoter(s, u))
<1>1. CASE \E p \in PlayersOf(s, u) : u # Nobody /\ s.state[p] = "playing"
  <2>1. PICK p \in Player : s.owner[p] = u /\ u # Nobody
    BY <1>1 DEF PlayersOf
  <2>2. GetVoter(s, u) = s.machine[u]
    BY <1>1 DEF GetVoter
  <2>3. u \in User
    BY <2>1, SizesAreNumbers DEF User, Nobody
  <2> QED BY <2>1, <2>2, <2>3 DEF HasPlayer, Sound, Server
<1>2. CASE ~\E p \in PlayersOf(s, u) : u # Nobody /\ s.state[p] = "playing"
  BY <1>2 DEF GetVoter
<1> QED BY <1>1, <1>2

LEMMA TargetVoterTyped ==
  ASSUME NEW s, Sound(s), NEW p \in Player
  PROVE  TargetVoter(s, p) \in Machine \cup {NoMachine}
<1>1. s.owner[p] \in 0 .. MaxUsers
  BY DEF Sound, Server
<1> QED BY <1>1, GetVoterTyped DEF TargetVoter

LEMMA CountHarmFields ==
  ASSUME NEW s, Sound(s), NEW kind, NEW p \in Player, now \in 0 .. MaxTime
  PROVE  LET m == TargetVoter(s, p)
             r == CountHarm(s, kind, p)
         IN  /\ r \in Server
             /\ r.machine = s.machine /\ r.owner = s.owner /\ r.state = s.state
             /\ r.items = s.items /\ r.aware = s.aware /\ r.deserted = s.deserted
             /\ r.passed = s.passed
             /\ r.lastHarm = IF kind \in Harmful /\ m # NoMachine THEN [s.lastHarm EXCEPT ![m] = now]
                             ELSE s.lastHarm
<1> DEFINE m == TargetVoter(s, p)
           lastHarm == [s.lastHarm EXCEPT ![m] = now]
           harmCount == [s.harmCount EXCEPT ![m] = Min({KickMinHarm, @ + 1})]
           r == [s EXCEPT !.lastHarm = lastHarm, !.harmCount = harmCount]
<1>1. s \in Server
  BY DEF Sound
<1>2. CASE kind \in Harmful /\ m # NoMachine
  <2>1. m \in Machine
    BY <1>2, TargetVoterTyped
  <2>2. CountHarm(s, kind, p) = r
    BY <1>2 DEF CountHarm
  <2> HIDE DEF m
  <2>3. s.lastHarm \in [Machine -> -HarmTime .. MaxTime] /\ s.harmCount \in [Machine -> 0 .. KickMinHarm]
    BY <1>1 DEF Server
  <2>4. now \in -HarmTime .. MaxTime
    BY SizesAreNumbers
  <2>5. Min({KickMinHarm, s.harmCount[m] + 1}) \in 0 .. KickMinHarm
    <3> DEFINE T == {KickMinHarm, s.harmCount[m] + 1}
    <3>1. T \in SUBSET Nat /\ KickMinHarm \in T
      BY <2>1, <2>3, SizesAreNumbers
    <3> HIDE DEF T
    <3>2. Min(T) \in T /\ Min(T) <= KickMinHarm
      BY <3>1, MinIsMember
    <3>3. Min(T) \in Nat
      BY <3>1, <3>2
    <3>4. Min(T) \in 0 .. KickMinHarm
      BY <3>2, <3>3, SizesAreNumbers
    <3> QED BY <3>4 DEF T
  <2>6. lastHarm \in [Machine -> -HarmTime .. MaxTime] /\ harmCount \in [Machine -> 0 .. KickMinHarm]
    BY <2>1, <2>3, <2>4, <2>5
  <2> HIDE DEF harmCount, lastHarm
  <2>7. /\ r \in Server /\ r.lastHarm = lastHarm
        /\ r.machine = s.machine /\ r.owner = s.owner /\ r.state = s.state
        /\ r.items = s.items /\ r.aware = s.aware /\ r.deserted = s.deserted
        /\ r.passed = s.passed
    BY <1>1, <2>6 DEF Server
  <2> QED BY <1>2, <2>2, <2>7 DEF lastHarm, m
<1>3. CASE ~(kind \in Harmful /\ m # NoMachine)
  <2>1. CountHarm(s, kind, p) = s
    BY <1>3 DEF CountHarm
  <2> QED BY <1>1, <1>3, <2>1
<1> QED BY <1>2, <1>3

LEMMA NewItemTyped ==
  ASSUME NEW s, Sound(s), NEW u \in User, NEW kind \in Harmful \cup {"voice"}, NEW p \in Player,
         now \in 0 .. MaxTime, issued + 1 \in 1 .. MaxItems, GetVoter(s, u) # NoMachine
  PROVE  LET item == NewItem(s, u, kind, p)
         IN  /\ item \in Item /\ item.id = issued + 1 /\ item.created = now
             /\ item.at = IF kind \in Harmful THEN TargetVoter(s, p) ELSE NoMachine
             /\ \A m \in Machine : Ballots(item, m) = IF m = GetVoter(s, u) THEN 1 ELSE 0
<1> DEFINE voter == GetVoter(s, u)
           item == NewItem(s, u, kind, p)
           at == IF kind \in Harmful THEN TargetVoter(s, p) ELSE NoMachine
           total == 1 + Cardinality(SentTo(s, u))
           pro == With(NoVoters, voter)
<1>1. u \in 0 .. MaxUsers
  BY SizesAreNumbers DEF User
<1>2. voter \in Machine
  BY <1>1, GetVoterTyped
<1>3. at \in Machine \cup {NoMachine}
  BY TargetVoterTyped
<1>4. total \in 1 .. MaxUsers
  <2>1. SentTo(s, u) \subseteq User \ {u}
    BY DEF SentTo
  <2>2. IsFiniteSet(User \ {u}) /\ Cardinality(User \ {u}) = Cardinality(User) - 1
    BY UsersAreFinite, FS_RemoveElement
  <2>3. Cardinality(User) = MaxUsers
    <3>1. 1 \in Int /\ MaxUsers \in Int /\ 1 <= MaxUsers
      BY SizesAreNumbers
    <3> QED BY <3>1, FS_Interval DEF User
  <2>4. IsFiniteSet(SentTo(s, u)) /\ Cardinality(SentTo(s, u)) \in Nat
        /\ Cardinality(SentTo(s, u)) <= Cardinality(User \ {u})
    BY <2>1, <2>2, FS_Subset, FS_CardinalityType
  <2> QED BY <2>2, <2>3, <2>4, SizesAreNumbers
<1>5. /\ pro \in [Machine -> {0, 1}] /\ NoVoters \in [Machine -> {0, 1}]
      /\ \A m \in Machine : pro[m] = (IF m = voter THEN 1 ELSE 0) /\ NoVoters[m] = 0
  BY <1>2 DEF With, NoVoters
<1>6. item = [id |-> issued + 1, kind |-> kind, target |-> p, at |-> at,
              suggestor |-> voter, user |-> u, pro |-> pro, con |-> NoVoters,
              total |-> total, created |-> now]
  BY DEF NewItem
<1> HIDE DEF voter, at, total, pro
<1>7. /\ item \in Item /\ item.id = issued + 1 /\ item.created = now /\ item.at = at
      /\ item.pro = pro /\ item.con = NoVoters
  BY <1>1, <1>2, <1>3, <1>4, <1>5, <1>6 DEF Item
<1>8. \A m \in Machine : Ballots(item, m) = IF m = voter THEN 1 ELSE 0
  BY <1>5, <1>7 DEF Ballots
<1> QED BY <1>7, <1>8 DEF voter, at

LEMMA ReBroadcastSound ==
  ASSUME NEW s, Sound(s), NEW u \in User, NEW kind \in Harmful \cup {"voice"}, NEW p \in Player,
         NEW spammers, now \in 0 .. MaxTime, issued + 1 \in 1 .. MaxItems,
         GetVoter(s, u) # NoMachine, DoCheckValid(s, u, kind, p)
  PROVE  Sound(ReBroadcast(s, u, kind, p, spammers))
<1> DEFINE item == NewItem(s, u, kind, p)
           m == TargetVoter(s, p)
           voter == GetVoter(s, u)
           harmed == CountHarm(s, kind, p)
           items == Append(harmed.items, item)
           aware == [v \in User |-> IF v \in SentTo(s, u) THEN harmed.aware[v] \cup {issued + 1}
                                    ELSE harmed.aware[v]]
           sent == [harmed EXCEPT !.items = items, !.aware = aware]
           n == Len(s.items)
<1>1. /\ s \in Server /\ s.items \in Seq(Item) /\ n \in Nat /\ DOMAIN s.items = 1 .. n
      /\ \A i \in 1 .. n : s.items[i] \in Item
      /\ s.aware \in [User -> SUBSET (1 .. MaxItems)]
      /\ s.lastHarm \in [Machine -> -HarmTime .. MaxTime]
  BY ItemsTyped DEF Sound, Server
<1>2. /\ item \in Item /\ item.id = issued + 1 /\ item.created = now
      /\ item.at = IF kind \in Harmful THEN m ELSE NoMachine
      /\ \A k \in Machine : Ballots(item, k) = IF k = voter THEN 1 ELSE 0
  BY NewItemTyped
<1>3. voter \in Machine /\ HasPlayer(s, voter)
  <2>1. u \in 0 .. MaxUsers
    BY SizesAreNumbers DEF User
  <2> QED BY <2>1, GetVoterTyped
<1>4. /\ harmed \in Server
      /\ harmed.machine = s.machine /\ harmed.owner = s.owner /\ harmed.state = s.state
      /\ harmed.items = s.items /\ harmed.aware = s.aware /\ harmed.deserted = s.deserted
      /\ harmed.passed = s.passed
      /\ harmed.lastHarm = IF kind \in Harmful /\ m # NoMachine THEN [s.lastHarm EXCEPT ![m] = now]
                           ELSE s.lastHarm
  BY CountHarmFields
<1>5. m \in Machine \cup {NoMachine}
  BY TargetVoterTyped
<1>6. kind \in Harmful /\ m # NoMachine => now >= s.lastHarm[m] + HarmTime
  BY DEF DoCheckValid, HarmAllowed
<1>7. ReBroadcast(s, u, kind, p, spammers) =
        Evaluate(Spam(sent, voter, u, spammers), Len(sent.items), spammers)
  BY <1>4 DEF ReBroadcast
<1> HIDE DEF harmed, item, m, voter
<1>8. /\ items \in Seq(Item) /\ Len(items) = n + 1 /\ DOMAIN items = 1 .. n + 1
      /\ \A i \in 1 .. n : items[i] = s.items[i]
      /\ items[n + 1] = item
  BY <1>1, <1>2, <1>4
<1>9. /\ aware \in [User -> SUBSET (1 .. MaxItems)]
      /\ \A v \in User : aware[v] \subseteq s.aware[v] \cup {issued + 1}
  BY <1>1, <1>4
<1> HIDE DEF items, aware, n
<1>10. /\ sent \in Server /\ sent.items = items /\ sent.aware = aware
       /\ sent.machine = s.machine /\ sent.owner = s.owner /\ sent.state = s.state
       /\ sent.deserted = s.deserted /\ sent.passed = s.passed
       /\ sent.lastHarm = harmed.lastHarm
  BY <1>4, <1>8, <1>9 DEF Server
<1> HIDE DEF sent
<1>11. Owned(sent) /\ Rightly(sent)
  BY <1>10 DEF Sound, Owned, InGame, Connected, Rightly
<1>12. Pending(sent)
  <2> SUFFICES ASSUME NEW v \in User, NEW id \in aware[v]
               PROVE  \E i \in DOMAIN sent.items : sent.items[i].id = id
    BY <1>10 DEF Pending
  <2>1. CASE id \in s.aware[v]
    <3>1. PICK i \in 1 .. n : s.items[i].id = id
      BY <1>1, <2>1 DEF Sound, Pending
    <3>2. i \in 1 .. n + 1
      BY <1>1
    <3> QED BY <1>8, <1>10, <3>1, <3>2
  <2>2. CASE id = issued + 1
    <3>1. n + 1 \in 1 .. n + 1
      BY <1>1
    <3> QED BY <1>2, <1>8, <1>10, <2>2, <3>1
  <2> QED BY <1>9, <2>1, <2>2
<1>13. Voices(sent)
  <2> SUFFICES ASSUME NEW i \in 1 .. n + 1, NEW k \in Machine
               PROVE  /\ Ballots(items[i], k) <= 1
                      /\ Ballots(items[i], k) = 1 => k \in s.deserted \/ HasPlayer(s, k)
    BY <1>8, <1>10 DEF Voices, HasPlayer
  <2>1. CASE i \in 1 .. n
    BY <1>1, <1>8, <2>1 DEF Sound, Voices
  <2>2. CASE i = n + 1
    BY <1>2, <1>3, <1>8, <2>2
  <2> QED BY <1>1, <2>1, <2>2
<1>14. HarmKept(sent)
  <2>1. \A i \in 1 .. n : s.items[i].at # NoMachine =>
          /\ s.items[i].at \in Machine /\ s.items[i].created \in Int
          /\ s.items[i].created <= s.lastHarm[s.items[i].at]
    <3> TAKE i \in 1 .. n
    <3>1. s.items[i].at \in Machine \cup {NoMachine} /\ s.items[i].created \in Int
      <4>1. \A x \in Item : x.at \in Machine \cup {NoMachine} /\ x.created \in Int
        BY DEF Item
      <4>2. s.items[i] \in Item
        BY <1>1
      <4> QED BY <4>1, <4>2
    <3>2. s.items[i].at # NoMachine => s.items[i].created <= s.lastHarm[s.items[i].at]
      BY <1>1 DEF Sound, HarmKept
    <3> QED BY <3>1, <3>2
  <2>2. \A k \in Machine : /\ s.lastHarm[k] \in Int /\ harmed.lastHarm[k] \in Int
                           /\ s.lastHarm[k] <= harmed.lastHarm[k]
    <3> TAKE k \in Machine
    <3>1. s.lastHarm[k] \in Int /\ now \in Int /\ HarmTime \in Nat
      BY <1>1, SizesAreNumbers
    <3>2. CASE kind \in Harmful /\ m # NoMachine /\ k = m
      <4>1. harmed.lastHarm[k] = now
        BY <1>1, <1>4, <3>2
      <4> QED BY <1>6, <3>1, <3>2, <4>1
    <3>3. CASE ~(kind \in Harmful /\ m # NoMachine /\ k = m)
      <4>1. harmed.lastHarm[k] = s.lastHarm[k]
        BY <1>1, <1>4, <3>3
      <4> QED BY <3>1, <4>1
    <3> QED BY <3>2, <3>3
  <2>3. item.at # NoMachine => /\ kind \in Harmful /\ item.at = m /\ m \in Machine
                               /\ harmed.lastHarm[m] = now
                               /\ now >= s.lastHarm[m] + HarmTime
    BY <1>1, <1>2, <1>4, <1>5, <1>6
  <2>4. ASSUME NEW i \in 1 .. n + 1, items[i].at # NoMachine
        PROVE  items[i].created <= sent.lastHarm[items[i].at]
    <3>1. CASE i \in 1 .. n
      <4>1. items[i] = s.items[i]
        BY <1>8, <3>1
      <4> QED BY <1>10, <2>1, <2>2, <2>4, <3>1, <4>1
    <3>2. CASE i = n + 1
      <4>1. items[i] = item
        BY <1>8, <3>2
      <4> QED BY <1>2, <1>10, <2>3, <2>4, <4>1
    <3> QED BY <1>1, <3>1, <3>2
  <2>5. ASSUME NEW i \in 1 .. n + 1, NEW j \in 1 .. n + 1, i < j,
               items[i].at = items[j].at, items[i].at # NoMachine
        PROVE  \/ items[i].created + HarmTime <= items[j].created
               \/ items[j].created + HarmTime <= items[i].created
    <3>1. i \in 1 .. n /\ items[i] = s.items[i]
      BY <1>1, <1>8, <2>5
    <3>2. CASE j \in 1 .. n
      <4>1. items[j] = s.items[j]
        BY <1>8, <3>2
      <4> QED BY <1>1, <2>5, <3>1, <3>2, <4>1 DEF Sound, HarmKept
    <3>3. CASE j = n + 1
      <4>1. items[j] = item
        BY <1>8, <3>3
      <4>2. item.at = m /\ s.items[i].at = m /\ m \in Machine /\ now >= s.lastHarm[m] + HarmTime
        BY <2>3, <2>5, <3>1, <4>1
      <4>3. s.items[i].created <= s.lastHarm[m] /\ s.items[i].created \in Int /\ s.lastHarm[m] \in Int
        BY <2>1, <2>2, <2>5, <3>1, <4>2
      <4>4. now \in Int /\ HarmTime \in Int
        BY SizesAreNumbers
      <4>5. s.items[i].created + HarmTime <= now
        BY <4>2, <4>3, <4>4
      <4> QED BY <1>2, <3>1, <4>1, <4>5
    <3> QED BY <1>1, <3>2, <3>3
  <2> QED BY <1>8, <1>10, <2>4, <2>5 DEF HarmKept
<1>15. Sound(sent)
  BY <1>10, <1>11, <1>12, <1>13, <1>14 DEF Sound
<1> DEFINE spam == Spam(sent, voter, u, spammers)
<1>16. Sound(spam) /\ Fewer(sent, spam)
  <2>1. u \in 0 .. MaxUsers
    BY SizesAreNumbers DEF User
  <2> QED BY <1>15, <2>1, SpamSound
<1>17. Len(sent.items) \in DOMAIN spam.items
  <2>1. Len(sent.items) = n + 1 /\ Len(spam.items) = n + 1
    BY <1>8, <1>10, <1>16 DEF Fewer
  <2>2. DOMAIN spam.items = 1 .. n + 1
    BY <1>16, <2>1, ItemsTyped DEF Sound
  <2> QED BY <1>1, <2>1, <2>2
<1>18. now \in Nat
  BY SizesAreNumbers
<1> HIDE DEF spam
<1>19. Sound(Evaluate(spam, Len(sent.items), spammers))
  BY <1>16, <1>17, <1>18, EvaluateSound
<1> QED BY <1>7, <1>19 DEF spam

-----------------------------------------------------------------------------
(* The actions.                                                            *)

LEMMA FreshSound ==
  ASSUME Sound(server)
  PROVE  /\ Sound(Fresh) /\ Fresh.passed = {}
         /\ Fresh.machine = server.machine /\ Fresh.owner = server.owner
         /\ Fresh.state = server.state /\ Fresh.items = server.items /\ Fresh.aware = server.aware
<1>1. server \in Server
  BY DEF Sound
<1>2. /\ Fresh \in Server /\ Fresh.passed = {}
      /\ Fresh.machine = server.machine /\ Fresh.owner = server.owner
      /\ Fresh.state = server.state /\ Fresh.items = server.items /\ Fresh.aware = server.aware
      /\ Fresh.lastHarm = server.lastHarm /\ Fresh.deserted = server.deserted
  BY <1>1 DEF Fresh, Server
<1>3. Sound(Fresh)
  BY <1>2 DEF Sound, Owned, InGame, Connected, Pending, Voices, HasPlayer, HarmKept, Rightly
<1> QED BY <1>2, <1>3

LEMMA SuggestSound ==
  ASSUME VotingInv, NEW u \in User, NEW kind \in Harmful \cup {"voice"}, NEW p \in Player,
         NEW menu, NEW spammers, left.polls > 0, Suggest(u, kind, p, menu, spammers)
  PROVE  Sound(server') /\ issued' \in {issued, issued + 1}
<1> DEFINE s == EvaluateAll(Fresh, spammers)
           voter == GetVoter(server, u)
           final == FinalKind(s, kind, p, menu)
<1>1. now \in 0 .. MaxTime /\ now \in Nat /\ issued + 1 \in 1 .. MaxItems /\ u \in 0 .. MaxUsers
  BY SizesAreNumbers DEF VotingInv, TypeOK, User
<1>2. Sound(s)
  BY <1>1, FreshSound, EvaluateAllSound DEF VotingInv
<1>3. final \in Harmful \cup {"voice"}
  BY DEF FinalKind, Harmful
<1>4. \/ /\ GetVoter(s, u) # NoMachine /\ DoCheckValid(s, u, final, p)
         /\ server' = ReBroadcast(s, u, final, p, spammers)
         /\ issued' = issued + 1
      \/ /\ server' = s \/ server' = Spam(s, voter, u, spammers)
         /\ issued' = issued
  BY DEF Suggest
<1> HIDE DEF s, final, voter
<1>5. CASE /\ GetVoter(s, u) # NoMachine /\ DoCheckValid(s, u, final, p)
           /\ server' = ReBroadcast(s, u, final, p, spammers)
           /\ issued' = issued + 1
  <2>1. Sound(ReBroadcast(s, u, final, p, spammers))
    BY <1>1, <1>2, <1>3, <1>5, ReBroadcastSound
  <2> QED BY <1>5, <2>1
<1>6. CASE /\ server' = s \/ server' = Spam(s, voter, u, spammers)
           /\ issued' = issued
  BY <1>1, <1>2, <1>6, SpamSound
<1> QED BY <1>4, <1>5, <1>6

LEMMA CastBallots ==
  ASSUME NEW item \in Item, NEW m \in Machine, NEW approve
  PROVE  LET r == Cast(item, m, approve)
         IN  /\ r \in Item /\ r.id = item.id /\ r.at = item.at /\ r.created = item.created
             /\ Ballots(r, m) = 1
             /\ \A n \in Machine \ {m} : Ballots(r, n) = Ballots(item, n)
<1> DEFINE without == RemoveVoter(item, m)
           less(v) == [v EXCEPT ![m] = OneLess(@)]
           r == Cast(item, m, approve)
<1>1. item.pro \in [Machine -> {0, 1}] /\ item.con \in [Machine -> {0, 1}]
  BY DEF Item
<1>2. ASSUME NEW v \in [Machine -> {0, 1}]
      PROVE  /\ less(v) \in [Machine -> {0, 1}] /\ less(v)[m] = 0
             /\ \A n \in Machine \ {m} : less(v)[n] = v[n]
             /\ With(less(v), m) \in [Machine -> {0, 1}] /\ With(less(v), m)[m] = 1
             /\ \A n \in Machine \ {m} : With(less(v), m)[n] = v[n]
  <2>1. /\ less(v) \in [Machine -> {0, 1}] /\ less(v)[m] = 0
        /\ \A n \in Machine \ {m} : less(v)[n] = v[n]
    BY DEF OneLess
  <2> HIDE DEF less
  <2>2. /\ With(less(v), m) \in [Machine -> {0, 1}] /\ With(less(v), m)[m] = 1
        /\ \A n \in Machine \ {m} : With(less(v), m)[n] = v[n]
    BY <2>1 DEF With
  <2> QED BY <2>1, <2>2
<1>3. without = [item EXCEPT !.pro = less(item.pro), !.con = less(item.con)]
  BY DEF RemoveVoter
<1> HIDE DEF less
<1>4. /\ without \in Item /\ without.pro = less(item.pro) /\ without.con = less(item.con)
      /\ without.id = item.id /\ without.at = item.at /\ without.created = item.created
  BY <1>1, <1>2, <1>3 DEF Item
<1>5. \/ r = [without EXCEPT !.pro = With(less(item.pro), m)]
      \/ r = [without EXCEPT !.con = With(less(item.con), m)]
  BY <1>4 DEF Cast
<1> HIDE DEF without
<1>6. CASE r = [without EXCEPT !.pro = With(less(item.pro), m)]
  <2> HIDE DEF r
  <2>1. /\ r \in Item /\ r.pro = With(less(item.pro), m) /\ r.con = less(item.con)
        /\ r.id = item.id /\ r.at = item.at /\ r.created = item.created
    BY <1>1, <1>2, <1>4, <1>6 DEF Item
  <2> QED BY <1>1, <1>2, <2>1 DEF Ballots, r
<1>7. CASE r = [without EXCEPT !.con = With(less(item.con), m)]
  <2> HIDE DEF r
  <2>1. /\ r \in Item /\ r.con = With(less(item.con), m) /\ r.pro = less(item.pro)
        /\ r.id = item.id /\ r.at = item.at /\ r.created = item.created
    BY <1>1, <1>2, <1>4, <1>7 DEF Item
  <2> QED BY <1>1, <1>2, <2>1 DEF Ballots, r
<1> QED BY <1>5, <1>6, <1>7

LEMMA BallotSound ==
  ASSUME VotingInv, NEW u \in User, NEW approve, NEW spammers,
         GetControlMessage(u, approve, spammers)
  PROVE  Sound(server')
<1>1. PICK i \in DOMAIN server.items :
        LET voter == GetVoter(server, u)
            heard == [Fresh EXCEPT !.aware[u] = @ \ {server.items[i].id}]
            counted == IF voter = NoMachine THEN heard
                       ELSE [heard EXCEPT !.items[i] = Cast(@, voter, approve)]
        IN  server' = Evaluate(counted, i, spammers)
  BY DEF GetControlMessage
<1> DEFINE voter == GetVoter(server, u)
           aware == [Fresh.aware EXCEPT ![u] = @ \ {server.items[i].id}]
           heard == [Fresh EXCEPT !.aware = aware]
           items == [heard.items EXCEPT ![i] = Cast(@, voter, approve)]
           counted == [heard EXCEPT !.items = items]
           n == Len(server.items)
<1>2. server' = Evaluate(IF voter = NoMachine THEN heard ELSE counted, i, spammers)
  BY <1>1
<1>3. Sound(server) /\ Sound(Fresh) /\ now \in Nat
  BY FreshSound, SizesAreNumbers DEF VotingInv, TypeOK
<1>4. /\ Fresh \in Server /\ Fresh.aware \in [User -> SUBSET (1 .. MaxItems)]
      /\ server.items \in Seq(Item) /\ n \in Nat /\ DOMAIN server.items = 1 .. n
      /\ \A j \in 1 .. n : server.items[j] \in Item
      /\ Fresh.items = server.items
      /\ Fresh.machine = server.machine /\ Fresh.owner = server.owner
  BY <1>3, FreshSound, ItemsTyped DEF Sound, Server
<1>5. /\ aware \in [User -> SUBSET (1 .. MaxItems)]
      /\ \A v \in User : aware[v] \subseteq Fresh.aware[v]
  BY <1>4
<1> HIDE DEF aware
<1>6. /\ heard \in Server /\ heard.aware = aware /\ heard.items = Fresh.items
      /\ heard.machine = Fresh.machine /\ heard.owner = Fresh.owner /\ heard.state = Fresh.state
      /\ heard.lastHarm = Fresh.lastHarm /\ heard.deserted = Fresh.deserted
      /\ heard.passed = Fresh.passed
  BY <1>4, <1>5 DEF Server
<1> HIDE DEF heard
<1>7. Pending(heard)
  BY <1>3, <1>5, <1>6 DEF Sound, Pending
<1>8. Sound(heard)
  BY <1>3, <1>6, <1>7 DEF Sound, Owned, InGame, Connected, Voices, HasPlayer, HarmKept, Rightly
<1>9. CASE voter = NoMachine
  <2>1. i \in DOMAIN heard.items
    BY <1>4, <1>6
  <2>2. Sound(Evaluate(heard, i, spammers))
    BY <1>3, <1>8, <2>1, EvaluateSound
  <2> QED BY <1>2, <1>9, <2>2
<1>10. CASE voter # NoMachine
  <2>1. voter \in Machine /\ HasPlayer(server, voter)
    <3>1. u \in 0 .. MaxUsers
      BY SizesAreNumbers DEF User
    <3> QED BY <1>3, <1>10, <3>1, GetVoterTyped
  <2>2. HasPlayer(heard, voter)
    BY <1>4, <1>6, <2>1 DEF HasPlayer
  <2> DEFINE cast == Cast(server.items[i], voter, approve)
  <2>3. /\ cast \in Item /\ cast.id = server.items[i].id /\ cast.at = server.items[i].at
        /\ cast.created = server.items[i].created
        /\ Ballots(cast, voter) = 1
        /\ \A k \in Machine \ {voter} : Ballots(cast, k) = Ballots(server.items[i], k)
    BY <1>4, <2>1, CastBallots
  <2> HIDE DEF voter, cast
  <2>4. items = [server.items EXCEPT ![i] = cast]
    BY <1>4, <1>6 DEF cast
  <2>5. /\ items \in Seq(Item) /\ Len(items) = n /\ DOMAIN items = 1 .. n
        /\ items[i] = cast /\ \A j \in 1 .. n : j # i => items[j] = server.items[j]
    <3>1. i \in 1 .. n
      BY <1>4
    <3> HIDE DEF items, n
    <3> QED BY <1>4, <2>3, <2>4, <3>1
  <2> HIDE DEF items, n
  <2>6. /\ counted \in Server /\ counted.items = items /\ counted.aware = heard.aware
        /\ counted.machine = heard.machine /\ counted.owner = heard.owner
        /\ counted.state = heard.state
        /\ counted.lastHarm = heard.lastHarm /\ counted.deserted = heard.deserted
        /\ counted.passed = heard.passed
    BY <1>6, <2>5 DEF Server
  <2> HIDE DEF counted
  <2>7. heard.items = server.items
    BY <1>4, <1>6
  <2>8. \A j \in 1 .. n : /\ items[j].id = server.items[j].id /\ items[j].at = server.items[j].at
                          /\ items[j].created = server.items[j].created
    <3> TAKE j \in 1 .. n
    <3> QED BY <2>3, <2>5
  <2>9. Owned(counted) /\ Rightly(counted)
    BY <1>8, <2>6 DEF Sound, Owned, InGame, Connected, Rightly
  <2>10. Pending(counted)
    BY <1>4, <1>8, <2>5, <2>6, <2>7, <2>8 DEF Sound, Pending
  <2>11. HarmKept(counted)
    BY <1>4, <1>8, <2>5, <2>6, <2>7, <2>8 DEF Sound, HarmKept
  <2>12. Voices(counted)
    <3> SUFFICES ASSUME NEW j \in 1 .. n, NEW k \in Machine
                 PROVE  /\ Ballots(items[j], k) <= 1
                        /\ Ballots(items[j], k) = 1 => k \in heard.deserted \/ HasPlayer(heard, k)
      BY <2>5, <2>6 DEF Voices, HasPlayer
    <3>1. /\ Ballots(server.items[j], k) <= 1
          /\ Ballots(server.items[j], k) = 1 => k \in heard.deserted \/ HasPlayer(heard, k)
      BY <1>4, <1>8, <2>7 DEF Sound, Voices
    <3>2. CASE j = i /\ k = voter
      BY <2>2, <2>3, <2>5, <3>2
    <3>3. CASE j = i /\ k # voter
      BY <2>3, <2>5, <3>1, <3>3
    <3>4. CASE j # i
      BY <2>5, <3>1, <3>4
    <3> QED BY <3>2, <3>3, <3>4
  <2>13. Sound(counted)
    BY <2>6, <2>9, <2>10, <2>11, <2>12 DEF Sound
  <2>14. i \in DOMAIN counted.items
    BY <1>4, <2>5, <2>6
  <2>15. Sound(Evaluate(counted, i, spammers))
    BY <1>3, <2>13, <2>14, EvaluateSound
  <2> QED BY <1>2, <1>10, <2>15 DEF voter
<1> QED BY <1>9, <1>10

LEMMA LoginSound ==
  ASSUME VotingInv, NEW u \in User, NEW m \in Machine, Login(u, m)
  PROVE  Sound(server')
<1> DEFINE ids == {server.items[i].id : i \in DOMAIN server.items}
           machine == [Fresh.machine EXCEPT ![u] = m]
           aware == [Fresh.aware EXCEPT ![u] = ids]
           r == [Fresh EXCEPT !.machine = machine, !.aware = aware]
<1>1. server' = r /\ ~Connected(server, u)
  BY DEF Login
<1>2. Sound(server) /\ Sound(Fresh) /\ Fresh.items = server.items
      /\ Fresh.machine = server.machine /\ Fresh.owner = server.owner
  BY FreshSound DEF VotingInv
<1>3. /\ Fresh \in Server /\ Fresh.machine \in [User -> Machine \cup {NoMachine}]
      /\ Fresh.aware \in [User -> SUBSET (1 .. MaxItems)]
      /\ ids \in SUBSET (1 .. MaxItems)
  <2>1. \A item \in Item : item.id \in 1 .. MaxItems
    BY DEF Item
  <2>2. \A i \in DOMAIN server.items : server.items[i] \in Item
    BY <1>2, ItemsTyped DEF Sound
  <2> QED BY <1>2, <2>1, <2>2 DEF Sound, Server
<1>4. ids = {Fresh.items[i].id : i \in DOMAIN Fresh.items}
  BY <1>2
<1> HIDE DEF ids
<1>5. /\ machine \in [User -> Machine \cup {NoMachine}] /\ machine[u] = m
      /\ \A v \in User \ {u} : machine[v] = Fresh.machine[v]
      /\ aware \in [User -> SUBSET (1 .. MaxItems)] /\ aware[u] = ids
      /\ \A v \in User \ {u} : aware[v] = Fresh.aware[v]
  BY <1>3
<1> HIDE DEF machine, aware
<1>6. /\ r \in Server /\ r.machine = machine /\ r.aware = aware
      /\ r.owner = Fresh.owner /\ r.state = Fresh.state /\ r.items = Fresh.items
      /\ r.lastHarm = Fresh.lastHarm /\ r.deserted = Fresh.deserted /\ r.passed = Fresh.passed
  BY <1>3, <1>5 DEF Server
<1> HIDE DEF r
<1>7. \A p \in Player : Fresh.owner[p] # Nobody => Fresh.owner[p] \in User \ {u}
  <2> SUFFICES ASSUME NEW p \in Player, Fresh.owner[p] # Nobody
               PROVE  Fresh.owner[p] \in User \ {u}
    OBVIOUS
  <2>1. Connected(server, Fresh.owner[p])
    BY <1>2 DEF Sound, Owned
  <2>2. Fresh.owner[p] \in 0 .. MaxUsers
    BY <1>3 DEF Server
  <2>3. Fresh.owner[p] \in User
    BY <2>2, SizesAreNumbers DEF User, Nobody
  <2> QED BY <1>1, <2>1, <2>3
<1>8. Owned(r)
  <2> SUFFICES ASSUME NEW p \in Player, r.owner[p] # Nobody
               PROVE  InGame(r, p) /\ Connected(r, r.owner[p])
    BY DEF Owned
  <2>1. r.owner[p] \in User \ {u} /\ InGame(Fresh, p) /\ Connected(Fresh, r.owner[p])
    BY <1>2, <1>6, <1>7 DEF Sound, Owned
  <2> QED BY <1>5, <1>6, <2>1 DEF InGame, Connected
<1>9. Pending(r)
  <2> SUFFICES ASSUME NEW v \in User
               PROVE  r.aware[v] \subseteq {r.items[i].id : i \in DOMAIN r.items}
    BY DEF Pending
  <2>1. CASE v = u
    BY <1>4, <1>5, <1>6, <2>1
  <2>2. CASE v # u
    <3>1. r.aware[v] = Fresh.aware[v]
      BY <1>5, <1>6, <2>2
    <3> QED BY <1>2, <1>6, <3>1 DEF Sound, Pending
  <2> QED BY <2>1, <2>2
<1>10. \A n \in Machine : HasPlayer(Fresh, n) => HasPlayer(r, n)
  BY <1>5, <1>6, <1>7 DEF HasPlayer
<1>11. Voices(r)
  BY <1>2, <1>6, <1>10 DEF Sound, Voices
<1>12. HarmKept(r) /\ Rightly(r)
  BY <1>2, <1>6 DEF Sound, HarmKept, Rightly, InGame
<1> QED BY <1>1, <1>6, <1>8, <1>9, <1>11, <1>12 DEF Sound

LEMMA NewPlayerSound ==
  ASSUME VotingInv, NEW u \in User, MyInitAfterCreation(u)
  PROVE  Sound(server')
<1> DEFINE s == ClearLegacySpectator(Fresh, u)
           new == {q \in Player : server.state[q] = "none"}
           p == Min(new)
           owner == [s.owner EXCEPT ![p] = u]
           state == [s.state EXCEPT ![p] = "watching"]
           marks == [s.marks EXCEPT ![p] = s.remembered[s.machine[u]]]
           r == [s EXCEPT !.owner = owner, !.state = state, !.marks = marks]
<1>1. /\ server' = r /\ Connected(server, u) /\ new # {}
  BY DEF MyInitAfterCreation
<1>2. /\ Sound(Fresh) /\ Fresh.passed = {} /\ Fresh.machine = server.machine
      /\ Fresh.state = server.state
  BY FreshSound DEF VotingInv
<1>3. Sound(s) /\ Fewer(Fresh, s) /\ s.machine = Fresh.machine
  BY <1>2, LegacySound
<1>4. p \in Player /\ server.state[p] = "none"
  <2>1. new \in SUBSET Nat /\ new # {}
    BY <1>1, SizesAreNumbers
  <2>2. p \in new
    <3> HIDE DEF new
    <3> QED BY <2>1, MinIsMember
  <2> QED BY <2>2
<1> HIDE DEF p, s, new
<1>5. /\ s \in Server
      /\ s.owner \in [Player -> 0 .. MaxUsers]
      /\ s.state \in [Player -> {"none", "watching", "playing", "gone"}]
      /\ s.marks \in [Player -> SUBSET Mark] /\ s.remembered \in [Machine -> SUBSET Mark]
  BY <1>3 DEF Sound, Server
<1>6. u # Nobody /\ u \in 0 .. MaxUsers /\ s.machine[u] \in Machine /\ Connected(s, u)
  <2>1. s.machine[u] # NoMachine /\ u # Nobody
    BY <1>1, <1>2, <1>3 DEF Connected
  <2> QED BY <1>5, <2>1, SizesAreNumbers DEF Server, User, Connected
<1>7. s.owner[p] = Nobody
  BY <1>2, <1>3, <1>4 DEF Fewer, Sound, Owned, InGame
<1>8. /\ owner \in [Player -> 0 .. MaxUsers] /\ owner[p] = u
      /\ state \in [Player -> {"none", "watching", "playing", "gone"}] /\ state[p] = "watching"
      /\ marks \in [Player -> SUBSET Mark]
      /\ \A q \in Player \ {p} : owner[q] = s.owner[q] /\ state[q] = s.state[q]
  BY <1>4, <1>5, <1>6
<1> HIDE DEF owner, state, marks
<1>9. /\ r \in Server /\ r.owner = owner /\ r.state = state
      /\ r.machine = s.machine /\ r.items = s.items /\ r.aware = s.aware
      /\ r.lastHarm = s.lastHarm /\ r.deserted = s.deserted /\ r.passed = s.passed
  BY <1>5, <1>8 DEF Server
<1> HIDE DEF r
<1>10. Owned(r)
  <2> SUFFICES ASSUME NEW q \in Player, r.owner[q] # Nobody
               PROVE  InGame(r, q) /\ Connected(r, r.owner[q])
    BY DEF Owned
  <2>1. CASE q = p
    BY <1>4, <1>6, <1>8, <1>9, <2>1, SizesAreNumbers DEF InGame, Connected
  <2>2. CASE q # p
    <3>1. r.owner[q] = s.owner[q] /\ r.state[q] = s.state[q]
      BY <1>8, <1>9, <2>2
    <3> QED BY <1>3, <1>9, <3>1 DEF Sound, Owned, InGame, Connected
  <2> QED BY <2>1, <2>2
<1>11. \A m \in Machine : HasPlayer(s, m) => HasPlayer(r, m)
  BY <1>7, <1>8, <1>9 DEF HasPlayer
<1>12. Pending(r) /\ Voices(r) /\ HarmKept(r)
  BY <1>3, <1>9, <1>11 DEF Sound, Pending, Voices, HarmKept
<1>13. Rightly(r)
  BY <1>2, <1>3, <1>9 DEF Fewer, Rightly
<1> QED BY <1>1, <1>9, <1>10, <1>12, <1>13 DEF Sound

LEMMA BecomeLegacySound ==
  ASSUME Sound(Fresh), Fresh.passed = {}, NEW p \in Player, Fresh.owner[p] # Nobody
  PROVE  Sound(BecomeLegacy(Fresh, p))
<1> DEFINE u == Fresh.owner[p]
           s == ClearLegacySpectator(Fresh, u)
           legacy == [s.legacy EXCEPT ![u] = p]
           owner == [s.owner EXCEPT ![p] = Nobody]
           state == [s.state EXCEPT ![p] = "watching"]
           deserted == s.deserted \cup {Fresh.machine[u]}
           r == [s EXCEPT !.legacy = legacy, !.owner = owner, !.state = state, !.deserted = deserted]
<1>1. u \in User /\ Fresh.machine[u] \in Machine
  <2>1. Fresh.owner[p] \in 0 .. MaxUsers /\ Connected(Fresh, u)
    BY DEF Sound, Server, Owned
  <2>2. u \in User /\ Fresh.machine[u] # NoMachine
    BY <2>1, SizesAreNumbers DEF User, Nobody, Connected
  <2> QED BY <2>2 DEF Sound, Server
<1>2. Sound(s) /\ Fewer(Fresh, s) /\ s.machine = Fresh.machine
  BY <1>1, LegacySound
<1>3. BecomeLegacy(Fresh, p) = r
  BY DEF BecomeLegacy
<1>4. s.owner[p] \in {u, Nobody}
  BY <1>2 DEF Fewer
<1> HIDE DEF u, s
<1>5. /\ s \in Server
      /\ s.owner \in [Player -> 0 .. MaxUsers]
      /\ s.state \in [Player -> {"none", "watching", "playing", "gone"}]
      /\ s.legacy \in [User -> 0 .. MaxPlayers] /\ s.deserted \in SUBSET Machine
  BY <1>2 DEF Sound, Server
<1>6. p \in 0 .. MaxPlayers /\ Nobody \in 0 .. MaxUsers
  BY SizesAreNumbers DEF Player, Nobody
<1>7. /\ owner \in [Player -> 0 .. MaxUsers] /\ owner[p] = Nobody
      /\ state \in [Player -> {"none", "watching", "playing", "gone"}]
      /\ legacy \in [User -> 0 .. MaxPlayers]
      /\ deserted \in SUBSET Machine /\ s.deserted \subseteq deserted
      /\ Fresh.machine[u] \in deserted
      /\ \A q \in Player \ {p} : owner[q] = s.owner[q] /\ state[q] = s.state[q]
  BY <1>1, <1>5, <1>6
<1> HIDE DEF owner, state, legacy, deserted
<1>8. /\ r \in Server /\ r.owner = owner /\ r.state = state /\ r.deserted = deserted
      /\ r.machine = s.machine /\ r.items = s.items /\ r.aware = s.aware
      /\ r.lastHarm = s.lastHarm /\ r.passed = s.passed
  BY <1>5, <1>7 DEF Server
<1> HIDE DEF r
<1>9. Owned(r)
  <2> SUFFICES ASSUME NEW q \in Player, r.owner[q] # Nobody
               PROVE  InGame(r, q) /\ Connected(r, r.owner[q])
    BY DEF Owned
  <2>1. q # p
    BY <1>7, <1>8
  <2>2. r.owner[q] = s.owner[q] /\ r.state[q] = s.state[q]
    BY <1>7, <1>8, <2>1
  <2> QED BY <1>2, <1>8, <2>2 DEF Sound, Owned, InGame, Connected
<1>10. \A m \in Machine : HasPlayer(s, m) => HasPlayer(r, m) \/ m \in deserted
  <2> SUFFICES ASSUME NEW m \in Machine, NEW q \in Player,
                      s.owner[q] # Nobody, s.machine[s.owner[q]] = m
               PROVE  HasPlayer(r, m) \/ m \in deserted
    BY DEF HasPlayer
  <2>1. CASE q = p
    BY <1>2, <1>4, <1>7, <2>1
  <2>2. CASE q # p
    BY <1>7, <1>8, <2>2 DEF HasPlayer
  <2> QED BY <2>1, <2>2
<1>11. Voices(r)
  BY <1>2, <1>7, <1>8, <1>10 DEF Sound, Voices
<1>12. Pending(r) /\ HarmKept(r)
  BY <1>2, <1>8 DEF Sound, Pending, HarmKept
<1>13. Rightly(r)
  BY <1>2, <1>8 DEF Fewer, Rightly
<1> QED BY <1>3, <1>8, <1>9, <1>11, <1>12, <1>13 DEF Sound

LEMMA UpdateTeamSound ==
  ASSUME VotingInv, NEW p \in Player, UpdateTeam(p)
  PROVE  Sound(server')
<1>1. /\ Sound(Fresh) /\ Fresh.passed = {} /\ Fresh.state = server.state
      /\ Fresh.owner = server.owner
  BY FreshSound DEF VotingInv
<1>2. PICK to \in {"playing", "watching"} : server' = [Fresh EXCEPT !.state[p] = to]
  BY DEF UpdateTeam
<1>3. InGame(server, p) /\ InGame(Fresh, p)
  BY <1>1 DEF UpdateTeam, InGame
<1> DEFINE state == [Fresh.state EXCEPT ![p] = to]
           r == [Fresh EXCEPT !.state = state]
<1>4. Fresh \in Server /\ Fresh.state \in [Player -> {"none", "watching", "playing", "gone"}]
  BY <1>1 DEF Sound, Server
<1>5. /\ state \in [Player -> {"none", "watching", "playing", "gone"}] /\ state[p] = to
      /\ \A q \in Player \ {p} : state[q] = Fresh.state[q]
  BY <1>4
<1>6. server' = r
  BY <1>2
<1> HIDE DEF state
<1>7. /\ r \in Server /\ r.state = state
      /\ r.machine = Fresh.machine /\ r.owner = Fresh.owner /\ r.items = Fresh.items
      /\ r.aware = Fresh.aware /\ r.lastHarm = Fresh.lastHarm /\ r.deserted = Fresh.deserted
      /\ r.passed = Fresh.passed
  BY <1>4, <1>5 DEF Server
<1> HIDE DEF r
<1>8. \A q \in Player : InGame(Fresh, q) => InGame(r, q)
  BY <1>5, <1>7 DEF InGame
<1>9. Owned(r)
  BY <1>1, <1>7, <1>8 DEF Sound, Owned, Connected
<1>10. Pending(r) /\ Voices(r) /\ HarmKept(r) /\ Rightly(r)
  BY <1>1, <1>7 DEF Sound, Pending, Voices, HasPlayer, HarmKept, Rightly
<1> QED BY <1>6, <1>7, <1>9, <1>10 DEF Sound

LEMMA CancelSound ==
  ASSUME VotingInv, se_CancelAllVotes
  PROVE  Sound(server')
<1> DEFINE aware == [u \in User |-> {}]
           none == <<>>
           r == [Fresh EXCEPT !.items = none, !.aware = aware]
<1>1. Sound(Fresh) /\ Fresh.passed = {}
  BY FreshSound DEF VotingInv
<1>2. server' = r
  BY DEF se_CancelAllVotes
<1>3. /\ none \in Seq(Item) /\ DOMAIN none = {}
      /\ aware \in [User -> SUBSET (1 .. MaxItems)] /\ \A u \in User : aware[u] = {}
  OBVIOUS
<1> HIDE DEF aware, none
<1>4. /\ r \in Server /\ r.items = none /\ r.aware = aware
      /\ r.machine = Fresh.machine /\ r.owner = Fresh.owner /\ r.state = Fresh.state
      /\ r.lastHarm = Fresh.lastHarm /\ r.deserted = Fresh.deserted /\ r.passed = Fresh.passed
  BY <1>1, <1>3 DEF Sound, Server
<1> HIDE DEF r
<1>5. Owned(r) /\ Rightly(r)
  BY <1>1, <1>4 DEF Sound, Owned, InGame, Connected, Rightly
<1>6. Pending(r) /\ Voices(r) /\ HarmKept(r)
  BY <1>3, <1>4 DEF Pending, Voices, HarmKept
<1> QED BY <1>2, <1>4, <1>5, <1>6 DEF Sound

LEMMA ElsewhereSound ==
  ASSUME VotingInv, Elsewhere
  PROVE  Sound(server')
<1>1. Sound(Fresh) /\ Fresh.passed = {} /\ Fresh.owner = server.owner
  BY FreshSound DEF VotingInv
<1>2. ASSUME NEW u \in User, NEW m \in Machine, Login(u, m) PROVE Sound(server')
  BY <1>2, LoginSound
<1>3. ASSUME NEW u \in User, Logout(u) PROVE Sound(server')
  <2>1. server' = Disconnect(Fresh, u)
    BY <1>3 DEF Logout
  <2> QED BY <1>1, <2>1, DisconnectSound
<1>4. ASSUME NEW u \in User, MyInitAfterCreation(u) PROVE Sound(server')
  BY <1>4, NewPlayerSound
<1>5. ASSUME NEW p \in Player, ActionOnDelete(p) PROVE Sound(server')
  <2>1. Fresh.owner[p] # Nobody
    BY <1>1, <1>5 DEF ActionOnDelete
  <2>2. server' = BecomeLegacy(Fresh, p) \/ server' = RemoveFromGame(Fresh, p)
    BY <1>5 DEF ActionOnDelete
  <2> QED BY <1>1, <2>1, <2>2, BecomeLegacySound, RemovalSound
<1>6. ASSUME NEW p \in Player, UpdateTeam(p) PROVE Sound(server')
  BY <1>6, UpdateTeamSound
<1>7. CASE se_CancelAllVotes
  BY <1>7, CancelSound
<1> QED BY <1>2, <1>3, <1>4, <1>5, <1>6, <1>7 DEF Elsewhere

-----------------------------------------------------------------------------
(* The invariant.                                                          *)

LEMMA VotingInvInit == Init => VotingInv
<1> SUFFICES ASSUME Init PROVE VotingInv
  OBVIOUS
<1>1. PICK world \in Worlds :
        LET there == {u \in User : world.there[u] # NoMachine}
        IN
        /\ left = [polls |-> world.polls, moves |-> world.moves]
        /\ server = [machine    |-> world.there,
                     owner      |-> [p \in Player |-> IF p \in there THEN p ELSE Nobody],
                     state      |-> [p \in Player |-> IF p \in there THEN "playing" ELSE "none"],
                     legacy     |-> [u \in User |-> Nobody],
                     marks      |-> [p \in Player |-> {}],
                     remembered |-> [m \in Machine |-> {}],
                     items      |-> <<>>,
                     aware      |-> [u \in User |-> {}],
                     lastHarm   |-> [m \in Machine |-> -HarmTime],
                     harmCount  |-> [m \in Machine |-> 0],
                     deserted   |-> {},
                     passed     |-> {}]
  BY DEF Init
<1>2. world.there \in [User -> Machine \cup {NoMachine}] /\ world.polls \in 0 .. MaxItems
      /\ world.moves \in Nat
  BY SettingsAssumption
<1> DEFINE there == {u \in User : world.there[u] # NoMachine}
           owner == [p \in Player |-> IF p \in there THEN p ELSE Nobody]
           state == [p \in Player |-> IF p \in there THEN "playing" ELSE "none"]
<1>3. now = 0 /\ issued = 0
  BY DEF Init
<1>4. /\ server.machine = world.there /\ server.owner = owner /\ server.state = state
      /\ server.items = <<>> /\ server.aware = [u \in User |-> {}] /\ server.passed = {}
  BY <1>1
<1>5. owner \in [Player -> 0 .. MaxUsers] /\ state \in [Player -> {"none", "watching", "playing", "gone"}]
  <2>1. there \subseteq 0 .. MaxUsers /\ Nobody \in 0 .. MaxUsers
    BY SizesAreNumbers DEF User, Nobody
  <2> HIDE DEF there
  <2> QED BY <2>1
<1>6. \A p \in Player : owner[p] # Nobody => p \in there /\ owner[p] = p /\ state[p] = "playing"
  OBVIOUS
<1> HIDE DEF owner, state
<1>7. server \in Server
  <2>1. [m \in Machine |-> -HarmTime] \in [Machine -> -HarmTime .. MaxTime]
    <3>1. -HarmTime \in -HarmTime .. MaxTime
      BY SizesAreNumbers
    <3> QED BY <3>1
  <2>2. /\ [m \in Machine |-> 0] \in [Machine -> 0 .. KickMinHarm]
        /\ [u \in User |-> Nobody] \in [User -> 0 .. MaxPlayers]
        /\ [p \in Player |-> {}] \in [Player -> SUBSET Mark]
        /\ [m \in Machine |-> {}] \in [Machine -> SUBSET Mark]
        /\ <<>> \in Seq(Item) /\ [u \in User |-> {}] \in [User -> SUBSET (1 .. MaxItems)]
    BY SizesAreNumbers DEF Nobody
  <2> QED BY <1>1, <1>2, <1>5, <2>1, <2>2 DEF Server, owner, state
<1>8. Owned(server)
  BY <1>4, <1>6, SizesAreNumbers DEF Owned, InGame, Connected
<1>9. Pending(server) /\ Voices(server) /\ HarmKept(server) /\ Rightly(server)
  BY <1>4 DEF Pending, Voices, HarmKept, Rightly
<1>10. left \in [polls : 0 .. MaxItems - issued, moves : Nat]
  <2>1. MaxItems - issued = MaxItems
    BY <1>3, SizesAreNumbers
  <2> QED BY <1>1, <1>2, <2>1
<1>11. now \in 0 .. MaxTime /\ issued \in 0 .. MaxItems
  BY <1>3, SizesAreNumbers
<1> QED BY <1>7, <1>8, <1>9, <1>10, <1>11 DEF VotingInv, TypeOK, Sound, Pending

LEMMA VotingInvStep == VotingInv /\ [Next]_vars => VotingInv'
<1> SUFFICES ASSUME VotingInv, [Next]_vars PROVE VotingInv'
  OBVIOUS
<1> DEFINE Bounds == /\ now \in 0 .. MaxTime /\ issued \in 0 .. MaxItems
                     /\ left \in [polls : 0 .. MaxItems - issued, moves : Nat]
<1>1. Bounds /\ Sound(server)
  BY DEF VotingInv, TypeOK
<1>2. Kinds \subseteq Harmful \cup {"voice"} /\ MaxItems \in Nat /\ MaxTime \in Nat
  BY SettingsAssumption
<1>3. ASSUME NEW u \in User, NEW kind \in Harmful \cup {"voice"}, NEW p \in Player,
             NEW menu, NEW spammers, left.polls > 0, left' = [left EXCEPT !.polls = @ - 1],
             Suggest(u, kind, p, menu, spammers), now' = now
      PROVE  Sound(server') /\ Bounds'
  <2>1. Sound(server') /\ issued' \in {issued, issued + 1}
    BY <1>3, SuggestSound
  <2>2. left.polls - 1 \in 0 .. MaxItems - issued - 1 /\ issued + 1 \in 0 .. MaxItems
    BY <1>1, <1>2, <1>3
  <2>3. left.polls - 1 \in 0 .. MaxItems - issued'
    BY <1>1, <1>2, <2>1, <2>2
  <2> DEFINE polls == left.polls - 1
  <2> HIDE DEF polls
  <2>4. left' = [left EXCEPT !.polls = polls] /\ polls \in 0 .. MaxItems - issued'
    BY <1>3, <2>3 DEF polls
  <2> QED BY <1>1, <1>3, <2>1, <2>2, <2>4
<1>4. ASSUME NEW u \in User, NEW kind \in Kinds, NEW p \in Player, NEW spammers \in Spammers,
             HandleChat(u, kind, p, spammers)
      PROVE  Sound(server') /\ Bounds'
  <2> HIDE DEF Bounds
  <2> QED BY <1>2, <1>3, <1>4 DEF HandleChat
<1>5. ASSUME NEW u \in User, NEW p \in Player, NEW spammers \in Spammers,
             HandleKickVote(u, p, spammers)
      PROVE  Sound(server') /\ Bounds'
  <2>1. "kick" \in Harmful \cup {"voice"}
    BY DEF Harmful
  <2> HIDE DEF Bounds
  <2> QED BY <1>3, <1>5, <2>1 DEF HandleKickVote
<1>6. ASSUME NEW u \in User, NEW approve \in BOOLEAN, NEW spammers \in Spammers,
             GetControlMessage(u, approve, spammers)
      PROVE  Sound(server') /\ Bounds'
  <2>1. UNCHANGED <<now, issued, left>>
    BY <1>6 DEF GetControlMessage
  <2> QED BY <1>1, <1>6, <2>1, BallotSound
<1>7. ASSUME Elsewhere PROVE Sound(server') /\ Bounds'
  <2>1. left' = [left EXCEPT !.moves = @ - 1] /\ left.moves > 0 /\ UNCHANGED <<now, issued>>
    BY <1>7 DEF Elsewhere
  <2> DEFINE moves == left.moves - 1
  <2>2. moves \in Nat
    BY <1>1, <2>1
  <2>3. left' = [left EXCEPT !.moves = moves]
    BY <2>1
  <2> HIDE DEF moves
  <2>4. Bounds'
    BY <1>1, <2>1, <2>2, <2>3
  <2>5. Sound(server')
    BY <1>7, ElsewhereSound
  <2> HIDE DEF Bounds
  <2> QED BY <2>4, <2>5
<1>8. ASSUME Tick PROVE Sound(server') /\ Bounds'
  <2>1. Sound(server')
    BY <1>1, <1>8, FreshSound DEF Tick
  <2>2. Bounds'
    BY <1>1, <1>2, <1>8 DEF Tick
  <2> HIDE DEF Bounds
  <2> QED BY <2>1, <2>2
<1>9. ASSUME UNCHANGED vars PROVE Sound(server') /\ Bounds'
  <2>1. UNCHANGED <<server, now, issued, left>>
    BY <1>9 DEF vars
  <2>2. Bounds'
    BY <1>1, <2>1
  <2>3. Sound(server')
    BY <1>1, <2>1
  <2> HIDE DEF Bounds
  <2> QED BY <2>2, <2>3
<1>10. Sound(server') /\ Bounds'
  <2>1. CASE \E u \in User, kind \in Kinds, p \in Player, spammers \in Spammers :
               HandleChat(u, kind, p, spammers)
    BY <1>4, <2>1
  <2>2. CASE \E u \in User, p \in Player, spammers \in Spammers : HandleKickVote(u, p, spammers)
    BY <1>5, <2>2
  <2>3. CASE \E u \in User, approve \in BOOLEAN, spammers \in Spammers :
               GetControlMessage(u, approve, spammers)
    BY <1>6, <2>3
  <2> HIDE DEF Bounds
  <2> QED BY <2>1, <2>2, <2>3, <1>7, <1>8, <1>9 DEF Next
<1> QED BY <1>10 DEF VotingInv, TypeOK, Sound, Pending, Owned, InGame, Connected

(* The invariant: who owns a player is there, who has a ballot has a       *)
(* player that takes it back, and the harm is remembered as long as the    *)
(* polls that did it.                                                      *)
THEOREM VotingInvHolds == Spec => []VotingInv
BY VotingInvInit, VotingInvStep, PTL DEF Spec

(* Types, for any users, machines, settings and bounds: judging the polls  *)
(* leaves no player to a user that is not there, and no client may vote on *)
(* a poll that is gone. (ClearKnows, eVoteItem::Evaluate)                  *)
THEOREM TypeCorrect == Spec => []TypeOK
BY VotingInvHolds, PTL DEF VotingInv

(* One voice for a machine, however its users vote, leave and return, and  *)
(* whoever is kicked while the polls are judged.                           *)
(* (RemoveVoter, eVoter::RemoveFromGame)                                   *)
THEOREM VoiceCorrect == Spec => []OneVoice
<1>1. VotingInv => OneVoice
  <2> SUFFICES ASSUME VotingInv, NEW i \in DOMAIN server.items, NEW m \in Machine
               PROVE  /\ Ballots(server.items[i], m) <= 1
                      /\ Ballots(server.items[i], m) = 1 =>
                           m \in server.deserted \/ \E u \in User : server.machine[u] = m
    BY DEF OneVoice
  <2>1. /\ Ballots(server.items[i], m) <= 1
        /\ Ballots(server.items[i], m) = 1 => m \in server.deserted \/ HasPlayer(server, m)
    BY DEF VotingInv, Sound, Voices
  <2>2. HasPlayer(server, m) => \E u \in User : server.machine[u] = m
    <3> SUFFICES ASSUME NEW p \in Player, server.owner[p] # Nobody,
                        server.machine[server.owner[p]] = m
                 PROVE  \E u \in User : server.machine[u] = m
      BY DEF HasPlayer
    <3>1. server.owner[p] \in User
      BY SizesAreNumbers DEF VotingInv, Sound, Server, User, Nobody
    <3> QED BY <3>1
  <2> QED BY <2>1, <2>2
<1> QED BY <1>1, VotingInvHolds, PTL

(* Harmful polls against one machine with a voter keep their distance, for *)
(* any limits and however its users leave and return.                      *)
(* (eVoteItemHarm::DoCheckValid)                                           *)
THEOREM HarmsCorrect == Spec => []HarmsApart
<1>1. VotingInv => HarmsApart
  BY DEF VotingInv, Sound, HarmKept, HarmsApart
<1> QED BY <1>1, VotingInvHolds, PTL

(* What passed had more voters for it, for any bias and decay, and a kick  *)
(* that passed hit whom it was to hit.                                     *)
(* (eVoteItem::Evaluate, eVoteItemKick::DoExecuteHarm)                     *)
THEOREM PassedCorrect == Spec => []PassedRightly
<1>1. VotingInv => PassedRightly
  BY DEF VotingInv, Sound, Rightly, PassedRightly
<1> QED BY <1>1, VotingInvHolds, PTL

=============================================================================
