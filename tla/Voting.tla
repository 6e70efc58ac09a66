-------------------------------- MODULE Voting --------------------------------
(***************************************************************************)
(* Polls on the server, src/src/engine/eVoter.cpp: players suggest to      *)
(* kick, suspend or silence one of them or to give one back its voice, the *)
(* others approve or disapprove, and a poll is judged whenever somebody    *)
(* suggests another or casts a ballot on it.  All users of one machine are *)
(* one voter.  Judging a poll can remove users, and with them their        *)
(* ballots in the other polls, while the list of polls is being walked.    *)
(*                                                                         *)
(* A dedicated server with the default of ALLOW_VOTING_SPECTATOR.  The     *)
(* reliable messages that carry polls and ballots may take any time, so    *)
(* only what a client was sent is recorded, and a ballot may come late or  *)
(* not at all.  How full the spam counter of a voter is, and whether a     *)
(* player is too young to suggest anything, is left to chance.             *)
(***************************************************************************)
EXTENDS Integers, Sequences, FiniteSets, SequencesExt, FiniteSetsExt, Functions, Folds

CONSTANTS
  Machine, NoMachine,
  MaxUsers,                  \* MAXCLIENTS
  Kinds,                     \* the polls players suggest
  Bias,                      \* se_votingBias and the DoGetExtraBias of a kind
  MinVoters, MaxVotes, MaxVotesPerVoter,  \* se_minVoters and so on
  HarmTime, KickMinHarm,                  \* se_minTimeBetweenHarms, se_kickMinHarm
  Timeout, TimeoutPerVoter,               \* se_votingTimeout and so on
  StartDecay, Decay,                      \* se_votingStartDecay, se_votingDecay
  Worlds,                    \* who is playing at first; bounds: the polls
                             \* suggested, the steps of the rest of the program
  Spammers,                  \* sets of voters whose spam counter may run over
  MaxPlayers, MaxItems, MaxTime  \* bounds: players, polls and ticks

User == 1 .. MaxUsers
Player == 1 .. MaxPlayers
Harmful == {"kick", "suspend", "silence"}
Mark == {"suspended", "silenced"}

ASSUME SettingsAssumption ==
  /\ MaxUsers \in Nat \ {0}
  /\ IsFiniteSet(Machine) /\ NoMachine \notin Machine
  /\ {MinVoters, MaxVotes, MaxVotesPerVoter, HarmTime, KickMinHarm, Timeout,
      TimeoutPerVoter, StartDecay, MaxPlayers, MaxItems, MaxTime} \subseteq Nat
  /\ Kinds \subseteq Harmful \cup {"voice"}
  /\ Bias \in [Harmful \cup {"voice"} -> Nat]
  /\ Decay \in Nat \ {0}
  /\ Spammers \subseteq SUBSET Machine
  /\ MaxUsers <= MaxPlayers
  /\ Worlds \subseteq [there : [User -> Machine \cup {NoMachine}],
                     polls : 0 .. MaxItems, moves : Nat]

VARIABLES
  server,       \* all that judging a poll can change, a record; see TypeOK
  now,          \* tSysTimeFloat, in ticks
  issued,       \* se_votingItemID
  left          \* bound: polls and moves that are left

vars == <<server, now, issued, left>>

Nobody == 0     \* the owner of what belongs to the server, and no player

(* The users who are there have one player each, and it has a team.        *)
Init ==
  /\ \E world \in Worlds :
       LET there == {u \in User : world.there[u] # NoMachine}
       IN
       /\ left = [polls |-> world.polls, moves |-> world.moves]
       /\ server = [machine    |-> world.there,
                    owner      |-> [p \in Player |-> IF p \in there THEN p ELSE Nobody],
                    state      |-> [p \in Player |-> IF p \in there THEN "playing" ELSE "none"],
                    legacy     |-> [u \in User |-> Nobody],
                    marks      |-> [p \in Player |-> {}],
                    remembered |-> [m \in Machine |-> {}],
                    items      |-> <<>>,
                    aware      |-> [u \in User |-> {}],
                    lastHarm   |-> [m \in Machine |-> -HarmTime],
                    harmCount  |-> [m \in Machine |-> 0],
                    deserted   |-> {},
                    passed     |-> {}]
  /\ now = 0 /\ issued = 0

-----------------------------------------------------------------------------
(* Users, players and voters.                                              *)

Connected(s, u) == u # Nobody /\ s.machine[u] # NoMachine
InGame(s, p) == p # Nobody /\ s.state[p] \in {"playing", "watching"}
PlayersOf(s, u) == {p \in Player : InGame(s, p) /\ s.owner[p] = u}

GetVoter(s, u) ==
  IF \E p \in PlayersOf(s, u) : u # Nobody /\ s.state[p] = "playing"
  THEN s.machine[u] ELSE NoMachine

Voters(s) == {GetVoter(s, u) : u \in User} \ {NoMachine}
NumberVoters(s) == Cardinality(Voters(s))

(* A list of voters is known by how often each is in it: tArray::Remove    *)
(* takes out one.                                                          *)
With(voters, m) == [voters EXCEPT ![m] = @ + 1]
OneLess(n) == IF n > 0 THEN n - 1 ELSE 0
NoVoters == [m \in Machine |-> 0]
Count(voters) == FoldFunction(+, 0, voters)

(* Mutant: the loop over the two lists ends before the opponents.          *)
RemoveSupporter(item, m) == [item EXCEPT !.pro[m] = OneLess(@)]

RemoveVoter(item, m) == [item EXCEPT !.pro[m] = OneLess(@), !.con[m] = OneLess(@)]

RemoveVoterCompletely(item, m) ==
  IF item.suggestor = m
  THEN [RemoveVoter(item, m) EXCEPT !.suggestor = NoMachine, !.user = Nobody]
  ELSE RemoveVoter(item, m)

(* eVoter::RemoveFromGame.  The history variable deserted only tells those *)
(* apart whose last player was never removed in the name of its user.      *)
VoterLeaves(s, m) ==
  [s EXCEPT !.items = [i \in DOMAIN @ |-> RemoveVoterCompletely(@[i], m)],
            !.deserted = @ \ {m}]

(* ePlayerNetID::RemoveFromGame: whoever owns the player by now leaves.    *)
RemoveFromGame(s, p) ==
  LET gone == [s EXCEPT !.state[p] = "gone", !.marks[p] = {}, !.owner[p] = Nobody]
      m == s.machine[s.owner[p]]
  IN  IF Connected(s, s.owner[p])
      THEN VoterLeaves([gone EXCEPT !.remembered[m] = s.marks[p]], m)
      ELSE gone

ClearLegacySpectator(s, u) ==
  IF s.legacy[u] = Nobody THEN s
  ELSE [RemoveFromGame(s, s.legacy[u]) EXCEPT !.legacy[u] = Nobody]

(* Mutant: only the first player of a user is told that it quits.          *)
DisconnectFirst(s, u) ==
  LET legacy == ClearLegacySpectator(s, u)
      quit == IF PlayersOf(s, u) = {} THEN legacy
              ELSE RemoveFromGame(legacy, Max(PlayersOf(s, u)))
  IN  [quit EXCEPT !.machine[u] = NoMachine, !.aware[u] = {}]

(* ClearKnows tells the objects of a user that it quits, from the last.    *)
Disconnect(s, u) ==
  LET quit == MapThenFoldSet(LAMBDA p, t : RemoveFromGame(t, p), ClearLegacySpectator(s, u),
                             LAMBDA p : p, Min, PlayersOf(s, u))
  IN  [quit EXCEPT !.machine[u] = NoMachine, !.aware[u] = {}]

KickUser(s, u) == IF Connected(s, u) THEN Disconnect(s, u) ELSE s

-----------------------------------------------------------------------------
(* Judging.                                                                *)

KickAll(s, m) ==
  MapThenFoldSet(LAMBDA u, t : KickUser(t, u), s,
                 LAMBDA u : u, Min, {u \in User : s.machine[u] = m})

(* Kicking a player who left means all users of its machine.               *)
Kick(s, item) ==
  IF InGame(s, item.target) THEN KickUser(s, s.owner[item.target])
  ELSE IF item.at # NoMachine THEN KickAll(s, item.at) ELSE s

(* Both Suspend and SetSilenced tell the voter as well.                    *)
Remark(s, p, gained, lost) ==
  LET changed(marks) == (marks \cup gained) \ lost
      marked == [s EXCEPT !.marks[p] = changed(@)]
  IN  IF Connected(s, s.owner[p])
      THEN [marked EXCEPT !.remembered[s.machine[s.owner[p]]] = changed(@)]
      ELSE marked

(* Rounds do not pass: who is suspended already has as many to sit out.    *)
Suspend(s, p) ==
  IF "suspended" \in s.marks[p] THEN s ELSE Remark(s, p, {"suspended"}, {})

DoExecute(s, item) ==
  IF item.kind = "kick" THEN Kick(s, item)
  ELSE IF ~InGame(s, item.target) THEN s
  ELSE CASE item.kind = "suspend" -> Suspend(s, item.target)
         [] item.kind = "silence" -> Remark(s, item.target, {"silenced"}, {})
         [] item.kind = "voice"   -> Remark(s, item.target, {}, {"silenced"})

(* tList::Remove puts the last item into the gap; clients are told.        *)
Drop(s, i) ==
  LET rest == Front(s.items)
  IN  [s EXCEPT !.items = IF i = Len(s.items) THEN rest ELSE ReplaceAt(rest, i, Last(s.items)),
                !.aware = [u \in User |-> @[u] \ {s.items[i].id}]]

(* The spam counter of a voter may have run over: the user it is said to   *)
(* be is kicked.                                                           *)
Spam(s, voter, user, spammers) ==
  IF voter \in spammers THEN KickUser(s, user) ELSE s

(* Non-voters are ignored, one more in every Decay ticks.                  *)
Ignored(item) ==
  IF now - item.created > StartDecay THEN (now - item.created - StartDecay) \div Decay ELSE 0

Rejected(pro, con, total) == con >= pro /\ 2 * con >= total
Accepted(pro, con, total) == pro >= con /\ 2 * pro > total

TimedOut(s, item) ==
  item.created < now - Timeout - TimeoutPerVoter * NumberVoters(s)

(* An accepted poll is remembered with those for and against it.           *)
Execute(s, item) ==
  LET done == DoExecute(s, item)
  IN  [done EXCEPT !.passed = @ \cup
        {[kind |-> item.kind, target |-> item.target,
          pro |-> Count(item.pro), con |-> Count(item.con)]}]

(* Mutant: acceptance is looked at first.                                  *)
VerdictForFirst(s, item, pro, con, total) ==
  IF item.total <= MinVoters THEN "too few"
  ELSE IF Accepted(pro, con, total) THEN "accepted"
  ELSE IF Rejected(pro, con, total) THEN "rejected"
  ELSE IF TimedOut(s, item) THEN "timed out" ELSE "pending"

(* How a poll with these numbers ends, if it does.                         *)
Verdict(s, item, pro, con, total) ==
  IF item.total <= MinVoters THEN "too few"
  ELSE IF Rejected(pro, con, total) THEN "rejected"
  ELSE IF Accepted(pro, con, total) THEN "accepted"
  ELSE IF TimedOut(s, item) THEN "timed out" ELSE "pending"

Evaluate(s, i, spammers) ==
  LET item == s.items[i]
      bias == Bias[item.kind]
      verdict == Verdict(s, item, Count(item.pro),
                         Count(item.con) + bias,
                         item.total + bias - Ignored(item))
  IN  CASE verdict = "rejected" -> Drop(Spam(s, item.suggestor, item.user, spammers), i)
        [] verdict = "accepted" -> Drop(Execute(s, item), i)
        [] verdict = "pending"  -> s
        [] OTHER -> Drop(s, i)

(* From the last to the first: what fills a gap has been judged already.   *)
EvaluateAll(s, spammers) ==
  MapThenFoldSet(LAMBDA i, t : Evaluate(t, i, spammers), s,
                 LAMBDA i : i, Min, DOMAIN s.items)

-----------------------------------------------------------------------------
(* Suggesting.                                                             *)

(* voter was looked up before the pending polls were judged.               *)
AcceptNewVote(s, voter, spammers) ==
  /\ voter # NoMachine
  /\ NumberVoters(s) >= MinVoters
  /\ voter \notin spammers
  /\ Cardinality({i \in DOMAIN s.items : s.items[i].suggestor = voter}) < MaxVotesPerVoter
  /\ Len(s.items) < MaxVotes

Silenced(s, u) == \E p \in PlayersOf(s, u) : "silenced" \in s.marks[p]

(* The machine a harmful poll is against: none if the target has left or   *)
(* has no team.                                                            *)
TargetVoter(s, target) ==
  IF InGame(s, target) THEN GetVoter(s, s.owner[target]) ELSE NoMachine

HarmAllowed(s, m) == m # NoMachine => now >= s.lastHarm[m] + HarmTime

DoCheckValid(s, u, kind, target) ==
  /\ ~Silenced(s, u)
  /\ kind \in Harmful =>
       /\ InGame(s, target) => s.owner[target] # Nobody
       /\ HarmAllowed(s, TargetVoter(s, target))

(* A kick from the menu is only a suspension until there has been harm.    *)
FinalKind(s, kind, target, menu) ==
  LET m == TargetVoter(s, target)
  IN  IF kind = "kick" /\ menu /\ m # NoMachine /\ s.harmCount[m] < KickMinHarm
      THEN "suspend" ELSE kind

(* Mutant: harm is counted, its time is not kept.                          *)
CountHarmUntimed(s, kind, target) ==
  LET m == TargetVoter(s, target)
  IN  IF kind \in Harmful /\ m # NoMachine
      THEN [s EXCEPT !.harmCount[m] = Min({KickMinHarm, @ + 1})] ELSE s

CountHarm(s, kind, target) ==
  LET m == TargetVoter(s, target)
  IN  IF kind \in Harmful /\ m # NoMachine
      THEN [s EXCEPT !.lastHarm[m] = now, !.harmCount[m] = Min({KickMinHarm, @ + 1})]
      ELSE s

(* ReBroadcast goes from the last user to the first; each voter gets the   *)
(* poll once, but for the one who suggested it and has another user.       *)
SentTo(s, u) ==
  {v \in User \ {u} : /\ GetVoter(s, v) # NoMachine
                      /\ \A w \in User \ {u} : w > v => GetVoter(s, w) # GetVoter(s, v)}

NewItem(s, u, kind, target) ==
  [id |-> issued + 1, kind |-> kind, target |-> target,
   at |-> IF kind \in Harmful THEN TargetVoter(s, target) ELSE NoMachine,
   suggestor |-> GetVoter(s, u), user |-> u,
   pro |-> With(NoVoters, GetVoter(s, u)), con |-> NoVoters,
   total |-> 1 + Cardinality(SentTo(s, u)), created |-> now]

ReBroadcast(s, u, kind, target, spammers) ==
  LET sent == [CountHarm(s, kind, target) EXCEPT
                 !.items = Append(@, NewItem(s, u, kind, target)),
                 !.aware = [v \in User |-> IF v \in SentTo(s, u) THEN @[v] \cup {issued + 1}
                                           ELSE @[v]]]
  IN  Evaluate(Spam(sent, GetVoter(s, u), u, spammers), Len(sent.items), spammers)

(* passed only speaks of the last step.                                    *)
Fresh == [server EXCEPT !.passed = {}]

(* The sender may have been kicked by one of the polls judged first.       *)
Suggest(u, kind, target, menu, spammers) ==
  LET s == EvaluateAll(Fresh, spammers)
      voter == GetVoter(server, u)
      final == FinalKind(s, kind, target, menu)
      valid == /\ AcceptNewVote(s, voter, spammers)
               /\ GetVoter(s, u) # NoMachine
               /\ DoCheckValid(s, u, final, target)
  IN  \/ /\ valid
         /\ server' = ReBroadcast(s, u, final, target, spammers)
         /\ issued' = issued + 1
      \/ /\ server' = IF NumberVoters(s) < MinVoters THEN s
                      ELSE Spam(s, voter, u, spammers)
         /\ UNCHANGED issued

(* /vote, by a player who is not silenced, against anybody in the list.    *)
HandleChat(u, kind, target, spammers) ==
  /\ left.polls > 0 /\ left' = [left EXCEPT !.polls = @ - 1]
  /\ \E p \in PlayersOf(server, u) : "silenced" \notin server.marks[p]
  /\ InGame(server, target)
  /\ Suggest(u, kind, target, FALSE, spammers)
  /\ UNCHANGED now

(* The menu of a client: the player may have left by now.                  *)
HandleKickVote(u, target, spammers) ==
  /\ left.polls > 0 /\ left' = [left EXCEPT !.polls = @ - 1]
  /\ Connected(server, u)
  /\ server.state[target] # "none"
  /\ Suggest(u, "kick", target, TRUE, spammers)
  /\ UNCHANGED now

-----------------------------------------------------------------------------
(* A ballot: the client forgets the poll when it casts it.                 *)

Cast(item, voter, approve) ==
  LET without == RemoveVoter(item, voter)
  IN  IF approve THEN [without EXCEPT !.pro = With(@, voter)]
      ELSE [without EXCEPT !.con = With(@, voter)]

GetControlMessage(u, approve, spammers) ==
  /\ \E i \in DOMAIN server.items :
       /\ server.items[i].id \in server.aware[u]
       /\ LET voter == GetVoter(server, u)
              heard == [Fresh EXCEPT !.aware[u] = @ \ {server.items[i].id}]
              counted == IF voter = NoMachine THEN heard
                         ELSE [heard EXCEPT !.items[i] = Cast(@, voter, approve)]
          IN  server' = Evaluate(counted, i, spammers)
  /\ UNCHANGED <<now, issued, left>>

-----------------------------------------------------------------------------
(* What the rest of the program does with users and players.               *)

(* A new user is sent the pending polls.                                   *)
Login(u, m) ==
  /\ ~Connected(server, u)
  /\ server' = [Fresh EXCEPT !.machine[u] = m,
                             !.aware[u] = {server.items[i].id : i \in DOMAIN server.items}]

Logout(u) ==
  /\ Connected(server, u)
  /\ server' = Disconnect(Fresh, u)

MyInitAfterCreation(u) ==
  LET s == ClearLegacySpectator(Fresh, u)
      p == Min({q \in Player : server.state[q] = "none"})
  IN  /\ Connected(server, u)
      /\ \E q \in Player : server.state[q] = "none"
      /\ server' = [s EXCEPT !.owner[p] = u, !.state[p] = "watching",
                             !.marks[p] = s.remembered[s.machine[u]]]

(* The last player of a client only becomes the server's: nobody leaves.   *)
BecomeLegacy(s, p) ==
  LET u == s.owner[p]
  IN  [ClearLegacySpectator(s, u) EXCEPT !.legacy[u] = p, !.owner[p] = Nobody,
                                         !.state[p] = "watching",
                                         !.deserted = @ \cup {s.machine[u]}]

ActionOnDelete(p) ==
  /\ InGame(server, p) /\ server.owner[p] # Nobody
  /\ server' = IF PlayersOf(server, server.owner[p]) = {p} THEN BecomeLegacy(Fresh, p)
               ELSE RemoveFromGame(Fresh, p)

(* The player gets a team, or loses it.                                    *)
UpdateTeam(p) ==
  /\ InGame(server, p) /\ server.owner[p] # Nobody
  /\ \/ /\ server.state[p] = "watching" /\ "suspended" \notin server.marks[p]
        /\ server' = [Fresh EXCEPT !.state[p] = "playing"]
     \/ /\ server.state[p] = "playing"
        /\ server' = [Fresh EXCEPT !.state[p] = "watching"]

se_CancelAllVotes ==
  /\ server.items # <<>>
  /\ server' = [Fresh EXCEPT !.items = <<>>, !.aware = [u \in User |-> {}]]

Elsewhere ==
  /\ left.moves > 0 /\ left' = [left EXCEPT !.moves = @ - 1]
  /\ UNCHANGED <<now, issued>>
  /\ \/ \E u \in User, m \in Machine : Login(u, m)
     \/ \E u \in User : Logout(u) \/ MyInitAfterCreation(u)
     \/ \E p \in Player : ActionOnDelete(p) \/ UpdateTeam(p)
     \/ se_CancelAllVotes

Tick ==
  /\ now < MaxTime
  /\ now' = now + 1
  /\ server' = Fresh
  /\ UNCHANGED <<issued, left>>

Next ==
  \/ \E u \in User, kind \in Kinds, p \in Player, spammers \in Spammers :
       HandleChat(u, kind, p, spammers)
  \/ \E u \in User, p \in Player, spammers \in Spammers : HandleKickVote(u, p, spammers)
  \/ \E u \in User, approve \in BOOLEAN, spammers \in Spammers :
       GetControlMessage(u, approve, spammers)
  \/ Elsewhere
  \/ Tick

Spec == Init /\ [][Next]_vars

-----------------------------------------------------------------------------
(* Properties.                                                             *)

Item ==
  [id : 1 .. MaxItems, kind : Harmful \cup {"voice"}, target : Player,
   at : Machine \cup {NoMachine}, suggestor : Machine \cup {NoMachine},
   user : 0 .. MaxUsers, pro : [Machine -> {0, 1}], con : [Machine -> {0, 1}],
   total : 1 .. MaxUsers, created : 0 .. MaxTime]

Server ==
  [machine : [User -> Machine \cup {NoMachine}], owner : [Player -> 0 .. MaxUsers],
   state : [Player -> {"none", "watching", "playing", "gone"}],
   legacy : [User -> 0 .. MaxPlayers],
   marks : [Player -> SUBSET Mark], remembered : [Machine -> SUBSET Mark],
   items : Seq(Item), aware : [User -> SUBSET (1 .. MaxItems)],
   lastHarm : [Machine -> -HarmTime .. MaxTime], harmCount : [Machine -> 0 .. KickMinHarm],
   deserted : SUBSET Machine,
   passed : SUBSET [kind : Harmful \cup {"voice"}, target : Player, pro : Nat, con : Nat]]

(* Who belongs to a user is in the game, and its user is there.            *)
Owned(s) ==
  \A p \in Player : s.owner[p] # Nobody => InGame(s, p) /\ Connected(s, s.owner[p])

(* Types of the variables; a voter has at most one ballot on either side,  *)
(* a player that is not in the game belongs to nobody, and what a client   *)
(* may vote on is pending.                                                 *)
TypeOK ==
  /\ server \in Server /\ Owned(server)
  /\ \A u \in User : server.aware[u] \subseteq {server.items[i].id : i \in DOMAIN server.items}
  /\ now \in 0 .. MaxTime /\ issued \in 0 .. MaxItems
  /\ left \in [polls : 0 .. MaxItems - issued, moves : Nat]

Ballots(item, m) == item.pro[m] + item.con[m]

(* A voter counts at most once in a poll, for or against it, however often *)
(* its users vote, leave and come back; and one without any user counts in *)
(* none, unless its last player was left behind as a legacy spectator.     *)
(* (RemoveVoter, eVoter::RemoveFromGame)                                   *)
OneVoice == \A i \in DOMAIN server.items, m \in Machine :
  /\ Ballots(server.items[i], m) <= 1
  /\ Ballots(server.items[i], m) = 1 =>
       m \in server.deserted \/ \E u \in User : server.machine[u] = m

(* Two harmful polls against one machine that are pending together were    *)
(* not suggested less than HarmTime apart, whether a kick was asked for in *)
(* the menu, turned into a suspension or typed, and though players leave   *)
(* and return.  Who had no voter when the poll was suggested (NoMachine)   *)
(* is not protected.  (eVoteItemHarm::DoCheckValid)                        *)
HarmsApart == \A i, j \in DOMAIN server.items :
  LET a == server.items[i]
      b == server.items[j]
  IN  i < j /\ a.at = b.at /\ a.at # NoMachine => a.created + HarmTime <= b.created
                                               \/ b.created + HarmTime <= a.created

(* A poll that was accepted had more voters for it than against it, though *)
(* the number needed for a majority decays; and whom a poll told to kick   *)
(* is not in the game, unless it became the server's before.               *)
(* (eVoteItem::Evaluate, eVoteItemKick::DoExecuteHarm)                     *)
PassedRightly == \A poll \in server.passed :
  /\ poll.pro > poll.con
  /\ poll.kind = "kick" /\ InGame(server, poll.target) =>
       server.owner[poll.target] = Nobody
=============================================================================
