# A verification project for arma-helper

arma-helper is a fork of Armagetron Advanced, a networked game of light cycles.
Its core is a server and up to 32 clients that replicate game objects over UDP
and go through the rounds of the game together.  This directory holds TLA+
modules translated from the C++ sources, TLC runs that check them on small
instances, and TLAPS proofs for all instances.  `PROJECT.json` maps every
definition to the lines it models and lists runs, findings, hazards and theorems.

Run `tlc -config MC_x.cfg Module` for a run, `tlapm Module.tla` for a proof module.

## 1. Inventory

All paths are below `src/src/`.

| Component | State | Operations | Talks to | Correct if |
|---|---|---|---|---|
| Reliable messages, `network/nNetwork.cpp` | `current_id`; per peer `send_queue`, `sn_pendingAcks`, `ackPending`, `highest_ack`, `lastacks`, `ackMess` | `nMessage::Send`, `sn_SendPlanned`, `nWaitForAck::Resend`, `rec_peer`, `ack_handler`, `sn_DisconnectUser` | everything above it | each message is handled once or the connection ends; the send window is kept; no deadlock of acknowledgements |
| Login and connections, `network/nNetwork.cpp` | slots `sn_Connections`, `sameIP` per slot, salt and id of the client | `login_handler`, `GetFreeSlot`, `login_accept_handler`, `login_deny_handler`, kicks, timeouts | reliable messages, all components with per-user state | one slot for a peer, a client is in under an id meant for it, both sides agree in the end |
| Cookies, spam, bans, `network/nSpamProtection.cpp` | cookies, per-machine accounts | check, decay, ban | login, voting, chat | a ban ends, an honest peer is not locked out |
| Priorities, bandwidth, `nPriorizing.cpp`, `tHeap.cpp` | heap of planned sends, bandwidth tasks | insert, replace, remove, age | reliable messages | heap order and back pointers |
| Object ids, `network/nNetObject.cpp` | id limit, freed ids, ring of reserved ids | `next_free`, `req_id_handler`, `id_req_handler`, `kill_id_hog` | network objects | no id for two live objects |
| Network objects, `network/nNetObject.cpp` | object lists, `knowsAbout`, `lastSyncID`, destroy lists | create, sync, destroy, `SyncAll`, relabel | ids, reliable messages | replicas agree at last; no message acts on another object |
| Game states, `tron/gGame.cpp`, `sn_Sync` in `nNetObject.cpp` | `state`, `stateNext`, `client_gamestate`, `sync_ack` | `StateUpdate`, `SetState`, `SyncState`, `ReadSync`, `sync_msg_handler` | network objects carry `stateNext`; reliable messages carry reports and barriers | nobody is in the wrong round |
| Deferred tasks and threads, `tools/tToDo.cpp`, `network/nAuthentication.cpp` | `tToDos`, its mutex, signal mark, `Pending()` | `st_ToDo`, `st_ToDoOnce`, `st_ToDo_Signal`, `st_DoToDo`, `ScheduleForeground/Background`, `FinishAll` | authentication, menus, signals | nothing postponed is forgotten |
| Authentication, `nAuthentication.cpp`, `nKrawall.cpp`, `engine/eAuthentication.cpp` | login processes, the client's answer in progress | request, fetch, password, authorize | deferred tasks, players | one result for one request |
| Players and teams, `engine/ePlayer.cpp`, `eTeam.cpp` | players, current and next team, invitations | join, leave, balance | game states (who is waited for) | team sizes within the rules |
| Voting, `engine/eVoter.cpp` | polls `items_`, ballots, voters per machine, marks, time of the last harm | suggest, cast, judge, kick, silence, suspend | players, login, spam | one voice for a voter, harm is rationed, the judging is right although it removes users |
| Settings, `nConfig.cpp`, `tConfiguration.cpp` | items, watchers, transmitted flags | set, send, receive, revert | login, versions | clients agree with the server |
| Server browser, `nServerInfo.cpp` | list of servers, queries under way | poll, answer, timeout | sockets | each server is asked a bounded number of times |
| Map rotation, races, queues, `gRotation.cpp`, `gRace.cpp` | position, queues | by round, by match | game states | order is kept |
| Physics, AI, rendering, menus, chat, parser, tools | | | | floating point geometry, text and I/O: not modelled |

**How they interact.**  One main thread runs everything: a frame receives
messages (handlers run inside `sn_Receive`), steps the game, writes syncs, sends
what the bandwidth allows, and calls `st_DoToDo`.  Waiting is done by a loop
that receives and sends inside a function, so handlers, logins, logouts and tasks
happen in the middle of state changes.  Messages on one connection arrive
reliably but unordered.  Threads exist for authentication and for signals only.

**What is hard.**  Ids of 16 bits and finite memories against duplicates and
delays; acknowledgements that share the limits of what they acknowledge; nested
receiving; unordered messages with no number of the round; timeouts after which
both sides go on; slots and ids that are used again.  The list is
`PROJECT.json`, "hazards", each at its line with the properties that cover it.

## 2. Modules

| Module | What it is |
|---|---|
| `MessageIds` | the arithmetic of message ids |
| `ReliableMessaging` | one connection: both ends and the network |
| `ReliableChannel` | the abstract specification it implements |
| `MCReliableMessaging`, `MCReliableDelivery`, `MCReliableLiveness` | instances for TLC; the second asserts `WideWindow`, the third adds fairness |
| `ReliableMessagingProofs` | proofs: ids, types and send window; delivery; the refinement |
| `DeferredTasks`, `DeferredTasksProofs` | tasks, threads and signals |
| `GameStates`, `GameStatesProofs` | the circle of game states and the barrier |
| `NetObjects`, `MCNetObjects`, `NetObjectProofs` | tables of replicated objects and the messages between them |
| `ReplicatedObjects`, `ReplicationProofs` | the abstract specification `NetObjects` implements, and the proof that it does; it extends `NetObjectProofs` |
| `ObjectIds`, `MCObjectIds`, `ObjectIdProofs` | how the server finds, reserves and frees the ids of objects |
| `Login`, `MCLogin`, `LoginProofs` | slots, logins, logouts, kicks |
| `Voting`, `MCVoting`, `VotingProofs` | polls about players |

How they fit together: `Login` ends where `ReliableMessaging` begins.
`ReliableMessaging` is shown to implement `ReliableChannel`, and `NetObjects`,
`ObjectIds`, `GameStates` and `Voting` use what that promises: acknowledged
messages arrive once and in any order.  `NetObjects` assumes of an id that it is
given again only when nothing knows the old object any more (`Fresh`); that it
takes many other freed ids first is `NotReusedSoon` of `ObjectIds`.

### ReliableMessaging

A message is its creation number; what travels and is compared is
`MessageID(n)`, the unsigned short.  `Create` is the constructor and `Send`
(ids are given at creation, long before sending; ids shared with other peers are
`SkipID`).  `Execute` and `Overflow` are `planned_send::execute`, `ExecuteAck`
and `SendAcks` the two ways of acknowledgements, `Resend` and `KillTimeout` the
branches of `nWaitForAck::Resend`, `ReceiveMessage` the duplicate test of
`rec_peer`, `ReceiveAck` is `ack_handler`, `Close` is
`sn_DisconnectUserNoWarn`.  One kind of message goes past the queue:
`CreateDestroyer` is the destructor of an object that begins a destroy message
(`nNetObject.cpp:1083`), `SendDestroyer` is `sn_SendDestroyer`, which asks for no
limit.  A disconnect sends the last one by a callback, into a buffer that is
cleared next, so `Close` leaves an entry in `pendingAcks` which `ackPending` does
not count; `DropClosed` and `KillClosed` are what `Resend` does with it while there
is no socket.  The next connection in the slot then starts with an `ackPending` that
is too small, which `Init` allows up to `MaxMissing`, and keeps it until it ends.
`destroyAcks` are the entries of class `nWaitForAckDestroy`.  Age is abstract: `TimePasses` says that a message
has waited longer than `killTimeout`.  The order in the send queue depends on
priorities and bandwidth, so any order is possible.  The network loses,
duplicates (a datagram stays on the wire until it is lost), delays and reorders.

The 16 bit ids work only if datagrams do not live too long.  `NetworkKeepsUp`
names that assumption, by `Lag`, `AckLag` and `Gap`; `WideWindow` says which
sizes of id space, window and ring it takes.  With the code's numbers (65536,
10000, 1000) it holds for `Lag = 500`, `AckLag = 65000`, `Gap = 9000`.

| Run | Shows |
|---|---|
| `rm_safety` | the server's ids come round: while a connection lasts the counter keeps up with the list and only destroy messages exceed the window, each message is handled once, nothing lost, surely new is new, and `ReliableChannel` is implemented |
| `rm_settles` | on any network every message is acknowledged or the connection closed; on a lossy but fair one, two full windows do not block the acknowledgements that open them |
| `rm_straddle` (violation) | ids of a client that reach the window of 10000 after the login: `highest_ack` lags and a copy counts as surely new |

Bounds: 7 messages one way over an id space of 7 usable ids is a whole turn of
the counter; the ring (3), the window of new ids (4) and `Lag` (2) are the smallest
that satisfy `WideWindow`.  With them two messages at most are unacknowledged, so
that the send window is 1: then a destroy message goes past a full window.
`MaxMissing = 1`: one entry of an earlier connection was counted off too late, or
none.  In `rm_settles`, where `Lag` is 3, the window of 1 makes every acknowledgement block.

Fairness is in `MCReliableLiveness`, whose variable `lossy` chooses the network of
a behaviour.  `LocalFairness` assumes only that the frame loop goes on sending
and that time passes, which the code does by itself.  `NetworkFairness` adds
what can only be assumed of a network: what is sent again and again arrives
again and again, before the kill timer, and nobody disconnects.  There each
entry of the queue is sent at last (`WF` of each `ExecuteAck`): `sn_SendPlanned1`
ages every entry that waits, so none is passed over for ever.  On both networks
`SyncAll` sends the destroy message when no other is unacknowledged
(`SyncDestroyer`); the other calls of `sn_SendDestroyer` may happen.  `SendAcks` needs
strong fairness since the collected acknowledgements may overflow into the queue
in between.

### DeferredTasks

`frames` is the C++ stack of `st_DoToDo` and the task it calls; `step` is where
the innermost call is, so that a signal may come between the test of the mark
(`Enter`), `PostSignal` and `ClearSignal`.  `depth` counts the recursive mutex.
`AddPending` and `PostFinishAll` are the two halves of `ScheduleForeground` in a
background thread, under two different locks.  It models a build with ZThread.

| Run | Shows |
|---|---|
| `tasks_server` | two login threads, a signal, nested calls, tasks that throw and a `st_ToDoOnce`: no job or signal is forgotten unless an exception kept the list, every job runs if the mutex is released, and no deadlock |
| `tasks_once` (violation) | after `st_ToDoOnce` found its task the mutex is never free and a background thread waits for ever |

`Budget` bounds requests to the main thread, nested calls included; 4 lets two
jobs, a signal and a nested call happen in one behaviour.  Fairness: the main loop
calls `st_DoToDo` for ever, tasks end, a thread goes on, and gets a mutex that is
free again and again (the scheduler of the platform).

### GameStates

The server's `SetState`, `SyncAgain` and `SyncStateEnds` are the three parts of
`gGame::SetState`: enter, repeat the barrier until no report is behind, announce
`stateNext`.  Between any two of them clients log in and out, players join and
leave teams, and messages arrive.  `StartSync`/`Synced` and `ReceiveSyncMsg`/`AnswerSync`
are the two sides of `sn_Sync`; the counter `c_sync` that should number the
barriers is never advanced, so answers carry no number in the model either.
`Advance` and `Report` are a client's turn of the `StateUpdate` loop.  Reports
and barriers are reliable and unordered (what `ReliableChannel` promises);
announcements are syncs of one object, of which an older one is dropped.
`Ready` is the wait of `GS_TRANSFER_OBJECTS`.  `Expires` is a wait that times
out.  Of grid and objects only the round they belong to is kept.  `round`,
`edition`, `grid` and `inStep` are history: the messages carry no number of the
round, which is what the properties are about.

| Run | Shows |
|---|---|
| `gs_rounds` | a client that was in `GS_PLAY` with the server is never left behind in the next round unless a wait expired; with a timeout at any point no client with a grid goes ahead of the announcements, and objects of a round go into a grid of that round |

Bounds: one client, because clients meet only in the server, whose conditions
are conjunctions over clients; two rounds, because a state of the circle can only
be taken for that of the next; one barrier message, two reports (the least that
can overtake) in flight; two unread announcements; one login.  No fairness: the
properties are safety.  `CHECK_DEADLOCK FALSE` since the last round does not end.

### NetObjects

Server and clients run the same code with a table `object[n][i]`; the tables
`sn_netObjects`, `knowsAbout`, `destroyers`, `sn_Destroyed`,
`sn_LocallyDestroyedIDs`, `sn_netObjectsOwner` are variables of these or shorter
names.  `SendCreation`, `SendSync` and `SendDestroyer` are what `SyncAll` does for
a peer, `ReceiveCreate`, `ReceiveSync` and `ReceiveDestroy` the three handlers,
`DoDestroy` and `ExpireDestroy` the two ends of an order in `sn_DoDestroy`
(`ReceiveCreate` removes nothing from `sn_LocallyDestroyedIDs`: where
`InitAfterCreation` is to do so the object has no id yet),
`ClearAllDeleted` the end of deleted objects, `Cheater` a disconnection.  An
object is its creation number, which the code does not have and no message
carries: `content[n][i].obj` says whose data a node shows under id `i`, and the
properties say that it is the data of `object[n][i]`.  A sync is lost or comes
late unless it waits for an acknowledgement (`budget.acks`).  `SyncIsNew`
compares what the expanded id of a message stands for: the object of the
sync and its version.  That `nMessageIDExpander` (`nNetwork.cpp:1145`) extends the
16 bits in the order in which messages were created, which it does while none is a
quarter of the id space late, is assumed.

| Run | Shows |
|---|---|
| `objects` | nobody shows another object's data under an id used again; a node that is sent only changes has or had the object; every copy of a deleted object has a destroy order on the way; local destructions are answered for before the id is that of another object; `ReplicatedObjects` is implemented; what stays is shown with its last change and what ended vanishes |
| `objects_accused` (violation) | an honest client is called a cheater when its sync overtakes nothing worse than its own destroy order |

Bounds: one id, which is what makes objects meet; two objects after one another
with a client that logs in twice, and one object that passes from a client
through the server to another.  More ids only add independent copies of this,
but for messages that create or destroy several at once.

Fairness: `SyncAll`, `sn_Receive` and `sn_DoDestroy` run in every frame.

### ObjectIds

`pool` holds what `next_free_server` and `net_kill` keep: owners, the current id,
the limit, the queue of freed ids.  `ring[c]` is `net_reserved_id` of a client,
`Login` its first request, `ReceiveRequest` and `ReceiveReply` the two handlers,
`NextFree` and `EndWait` the two ends of `next_free`, between which messages are
received.  `DestroyObject`/`DoDestroy` bring an id of a client back, `KillIdHog`
is the kick when ids have run out.  Who hogs more than the others is computed
as in the code, from reserved ids and used ones.

| Run | Shows |
|---|---|
| `ids` | no id is in two hands, whichever order logins, answers, creations and destructions come in; every id is free, used, reserved, on the way or known to be lost; a client that waits in `next_free` has an answer or a request under way; an id comes back only after `Keep` others |

Bounds: a ring of 8 with a first request of 3 and later ones of 2 overflows, runs
dry and fills again with 14 ids; the limit grows once.  `SizeAssumption` names what
the code's numbers (50, 40, 12) satisfy and the properties need.

### Login

`Connect`, `GiveUp`, `ReceiveAccept`, `ReceiveDeny` and `Logout` are the client,
`ReceiveLogin`, `Refuse`, `ReceiveAck`, `ReceiveLogout` and `KillTimeout` the
server.  `net` only grows: these datagrams are repeated by timers or sent without
an acknowledgement, so each may arrive any number of times, at any time, or
never.  A socket is its client and port, and a port may be used again.
`GetFreeSlot` is the set of the slot the code finds, or empty.  `Claimed` is the
test in `rec_peer` of the slot that a packet claims; a logout that claims the
login slot is ignored.  `sameIP` is the cache of `CountSameIP`.  A client whose
slot is gone gets no acknowledgements of what it sends (the login slot has no
socket to send them with) and times out by itself: `Timeout` with weak fairness,
which the resend timer of `ReliableMessaging` justifies (`EventuallySettled`).

| Run | Shows |
|---|---|
| `login` | one slot for an address; a client is in only under an id for this attempt; a login_accept is acknowledged only by a socket that took it up; the limits per address; nobody is logged out in the name of another; in the end client and server agree |
| `login_crowded` (violation) | a full server kicks by a cached number of neighbours a user that has none left |

Bounds: three worlds: three clients behind one address, a full server with
neighbours, a client that comes back with the same or another port while another
client comes; three logins are accepted, which lets a slot be given away and
given back.

### Voting

`server` is one record, since judging a poll can change all of it: a kick removes
the user, its players, and its ballots in all polls (`KickUser`, `Disconnect`,
`RemoveFromGame`, `VoterLeaves`) while `EvaluateAll` walks the list.  Functions on
that record translate the functions of the code, and an action applies them in
its order.  `HandleChat` and `HandleKickVote` are the two ways to suggest,
`GetControlMessage` a ballot, `Login`, `Logout`, `MyInitAfterCreation`,
`ActionOnDelete`, `UpdateTeam` and `se_CancelAllVotes` what the rest of the program
does meanwhile.  A voter is a machine; the two lists of a poll are functions that count the
ballots of each voter, as the lists of the code may hold a voter twice.  Whether a spam counter runs over, and whether a
player is mature enough to suggest a poll, is left to chance.

| Run | Shows |
|---|---|
| `voting` | a voter counts once in a poll although its users share it, leave and return; harmful polls against a machine that has a voter keep `VOTING_HARM_TIME` apart, a kick turned into a suspension included; what passes had a majority of those who voted, and whom it kicks is gone |

Bounds: two users of one machine and a third one with one poll and three moves
of users and players; three voters with two polls at once.  Times are ticks with
all spans 1.  Kinds are kick, silence and voice; suspensions come from kicks
suggested in the menu.

## 3. Proofs

TLAPS proves these for every value of the constants.

* `TypeCorrect` and `AckWindowCorrect`: the type invariant and the send window
  of `ReliableMessaging` for any window, ring and id space.  `AckWindow` is not
  inductive: the counter is only right if the message sent was not pending
  already.  `SendInv` adds that the queue, the destroy message under construction
  and the pending list are disjoint, that every number in them is at most
  `created`, and that the list is finite.  It claims nothing of the counter of a
  closed connection, which the entry that `Close` leaves makes negative; the next
  connection starts with that, so the limit is `MaxNoAck` and what the counter misses.
* `HandledOnce`, `NoneLost`, `SurelyNewCorrect`: delivery, assuming
  `WideWindow`.  The inductive `DeliveryInv` says that what lives is recent, that
  nothing was handled `Lag` after a newer message, that `highest_ack` is the id
  of the newest message handled and that one is not `Gap` behind, that the ring
  is the recent end of what was handled, and that only handled messages are
  acknowledged.  With these an arriving copy is either ahead of `highest_ack` and
  new, or within the ring and recognised (`HandledIsRemembered`,
  `UnhandledIsNotRemembered`).  The lemmas about remainders come first.
* `ChannelImplemented`: each step of `ReliableMessaging` is a step of
  `ReliableChannel` or a stutter under the mapping
  `waiting = Unacknowledged` (send queue, destroy message and pending list),
  `delivered = handled`.
* `DeferredTasksProofs`: `TypeCorrect` (with `Held`: the mutex is held at least
  once for each call in progress), `SignalAnswered`, and `NoJobForgotten`, whatever
  tasks throw, as long as the list was not kept by an exception.
* `GameStatesProofs`: `TypeCorrect` for any number of clients and any bounds;
  with it, that objects and teams only belong to connected clients.
  `NeverAheadCorrect`, for any number of clients, rounds,
  logins and waits that expire.  The inductive `OrderInv` adds to `TypeOK` the
  pairs of `state` and `stateNext` the server can be in (`PhaseInv`), that the
  announcements a client has not read are in the order of the rounds, none of
  them before the one it follows or after the last one made (`NewsInv`), and
  that a client with a grid is not past the one it follows (`GridInv`).  It is
  needed because a client only compares states of the circle, which have no
  round: what keeps it from going a whole round ahead is the order of syncs.
  `StaysInStepCorrect` and `OnlyIntoGrid`, likewise.  The server counts a client
  as there by a report that has no round and may be old, so `StepInv` dates the
  reports: one of state `t` was sent at the last place of the client in `t`
  (`Age`, `Since`), if it is younger than a turn of the circle.  A client that makes a grid has no older report
  on the way (`RoundReports`); one that answers a barrier has none at all.  An
  answer to an earlier barrier counts for the next one, but there is never more than
  one on the way, so after the second barrier of a state, which `SyncState`
  always holds, the client has flushed its reports since the state before
  (`Flushed`, or it still `Owes` the answer).  What the server takes for a report of
  this state or a later one is then less than 60 places old, and therefore one
  (`NotBehindIsThere`).
* `NetObjectProofs`, for any clients, ids, objects and logins: `TypeCorrect`,
  `ContentCorrect` and `KnowledgeCorrect` from `NetInv`, `OrphansOrdered` and
  `LocalsAnswered` from `OrderInv`.  `NetInv` says that there is one last object
  of each id (`Last`): every copy, and every message that is repeated until it
  is acknowledged, is of that one, since an id is only given again when nobody
  knows the old object (`Fresh`); syncs that are not acknowledged may be of
  older ones, which `SyncIsNew` drops.  Who has, sent or got an object is in
  `had`, so that acknowledgements, which name only the id, still tell of the
  right object.  `NoOrphan` needs far more: nobody had an object he was not told
  of (`UntoldIsNew`), so its creation reaches each node once (`CreatedOnce`);
  what the server was told of it gets (`ToldArrives`); while a client has an object
  that it made nobody else rules over it (`MakerRules`); and a destroy order to
  the server is about the last object of its id, which its maker has no more
  (`OrdersAreFor`).  Without the last one the order could hit an object that the
  same client made later with the same id, and `sn_LocallyDestroyedIDs` would
  swallow the wrong order.
* `ReplicationProofs`: `ReplicationCorrect`, for any clients, ids and bounds:
  each step of `NetObjects` makes, changes, shows or removes copies as
  `ReplicatedObjects` allows, or leaves them alone.  The mapping reads off the tables
  of each node which objects it has, had or never got (`Copies`), and in which
  version (`Versions`).  `EndInv`, over `OrderInv`, says who may
  change and end an object: what the server owns it made, or its maker ended it
  (`OwnOrEnded`); a client's own object that it has was not ended, and what it
  made and nobody ended it has (`OwnIsAlive`, `AliveIsThere`); no message is newer than the object at its
  sender, no copy on the server newer than the owner's (`SentIsNotNewer`,
  `CopyIsNotNewer`); and the server orders only the end of what it had
  (`OrderedIsGone`).  The attempt showed two faults of `ReplicatedObjects` as it
  was first stated: a server that takes over the objects of a client that left
  may do so for several in one step, which the one-object `Change` refused (TLC
  found it with two ids), and the reasons for which a copy may vanish overlap.
* `ObjectIdProofs`, for any clients, id space, limits and ring sizes:
  `TypeCorrect`, `IdsOwned`, `NothingLeaks`, `WaitsEnd` and `OldIdsRest`, through
  the loops of `next_free_server` and of the ring.  The inductive `IdInv` says
  that the queue of freed ids holds each id without an owner once, in the order
  they were freed (`QueueOf`); that an id of a client is in one place only
  (`OnePlace`); and that a connected client has ids or is owed two at least
  (`MoreComing`), so that the object that waits does not take the last one.
* `VotingProofs`, for any users, machines, players, settings and bounds:
  `TypeCorrect`, `VoiceCorrect`, `HarmsCorrect` and `PassedCorrect`.  `VotingInv` is
  about the record that all functions work on, so that it is proved of each
  function and carried through the loops: a machine has at most one ballot in a
  poll and then a player that takes it back, or has deserted (`Voices`); the
  last harm is no older than any poll that did one (`HarmKept`); who owns a player is
  there, and polls to vote on are pending.  `HarmKept` is what a kick turned
  into a suspension could break.
* `LoginProofs`, for any clients, ports, slots and number of logins:
  `TypeCorrect`, `OneSlotCorrect`, `OnlyOwnAcceptCorrect`, `AckedByOwnerCorrect`,
  `LogoutCorrect` and `SameIPCorrect`.  The inductive `LoginInv` conjoins the
  properties with what they need: a client that is not in has no id
  (`IdleHasNoID`), an acknowledgement on the wire that claims a slot comes from an
  address that was given this slot and took it up (`AcksAreOwned`), and a logout on the wire was
  sent by the address that it is from (`LogoutsAreOwn`).  The wire is needed in
  the invariant because old datagrams stay for ever; the salt alone keeps an old
  accept out.  `SameIPBounded` follows by counting the slots.

Assumptions on constants are the named `ASSUME`s of the modules; TLC evaluates
them in the runs.  `WideWindow` is a hypothesis of the theorems and evaluated by
`rm_safety`.

Loops are recursive functions or folds over finite sets and sequences.  The
induction theorems of the library take an operator as parameter and cannot be
used; what the proofs need of a loop follows from `SmallestMember` of
`ObjectIdProofs` (the well-founded order of the naturals, applied to the set of
counterexamples) and, for folds, from `SetInduction` and the existence of the
recursive function, both proved in the modules that use them.

Model-checked only: liveness (`EventuallySettled`, `EventuallyAcknowledged`,
`EveryJobRunsIfReleased`, `EventuallyAgree`, `EventuallyShown`, `EventuallyGone`),
which the prover does not reach under fairness.  Every invariant, action property
and refinement that a run checks is proved.

## 4. Findings

1. `rm_straddle`: the comment "it is surely new" in `rec_peer` is not true for a
   client whose ids reach 10000 after the login.
2. `tasks_once`: two early returns of `st_ToDoOnce` keep the mutex.
3. `objects_accused`: `net_sync_handler` disconnects an honest client whose sync
   is handled after its destroy order.
4. `login_crowded`: the number of users with the same address is cached and not
   renewed when one leaves; a full server kicks by the cache.

Met while modelling and translated as they are, without a run of their own:

* A poll suggested by a user whose last player became a legacy spectator keeps
  the number of its slot; if it is rejected, whoever has the slot by then is
  charged for the spam (`eVoter.cpp:595`).
* Polls are only looked at when somebody suggests one or votes: on a dedicated
  server a poll that nobody touches outlasts `VOTING_TIMEOUT` (`eVoter.cpp:608`).
* With exactly `MIN_VOTERS` voters a poll is let in (`eVoter.cpp:394`) and thrown
  away at once (559).  `VOTING_KICK_TIME` is never enforced on the server (1693).
* Of two players of one machine the one removed last decides whether the voter
  is remembered as silenced (`ePlayer.cpp:14176`).
* `GridIsReady` accepts a report of the round before, so a client that logs in
  between rounds may get new objects with an old grid (`gGame.cpp:6476`), and
  reports are stored in the order they arrive (4088).
* `InitAfterCreation` of an object clears id 0 from the locally destroyed ones,
  since the object has its id only later (`nNetObject.cpp:876`).  `LocalAnswered`
  shows that the entries are gone by then all the same, as long as an id is not
  given again before it is forgotten (`Fresh`).
* A harmful poll against a player whose user has no voter (no player in a team,
  `eVoter.cpp:2306`) is neither timed nor counted (1291), although `settings_dedicated.cfg:222` says
  of `VOTING_HARM_TIME` "Minimum time in seconds between harmful votes against the
  same player."  `HarmsApart` leaves these out (`NoMachine`).
* `sn_SendDestroyer` sends without regard to `sn_maxNoAck` (`nNetObject.cpp:1005`),
  the last destroy message of a disconnect even after the acknowledgements of the
  peer were dropped (1927, called from `nNetwork.cpp:4294`).  Its entry stays in
  `sn_pendingAcks`, while `ackPending` and `destroyersCount` are set to 0.  When
  `Resend` deletes it both are one too small: `destroyersCount` until the next
  login sets it, `ackPending` until the next connection of the slot ends (`Clear`),
  which so has one message more in flight, and in which `sn_Sync` (1993, 2045) may
  return with one message unacknowledged.  If the entry is older than `killTimeout`
  and the timeouts are over their limit, it is not deleted at all (`KillClosed`), and
  if another client gets the slot first it is sent to that one, whose acknowledgement
  then leaves `destroyersCount` at -1, which `SyncAll` (1593) takes for a destroy
  message under way: it sends no creation unless one really is.  The model has the
  entry, its end, and the next connection with such a counter, but not the resend to
  the next client.

## 5. Not modelled

* Reliable messages: `ACK_DELAY` (0 by default), the order in the send queue and
  the heap behind it.
* Login: versions, redirection, cookies, bans, the answers of login callbacks,
  changes of `MAX_CLIENTS`, a server that plays itself; waiting for pending
  messages before a new socket is opened.
* Object ids: requests of old clients for one id, the penalty for asking too
  often, `ClearAll`, the ids of objects made before the login.
* Network objects: control messages, `ClearAll`, priorities.
* Deferred tasks: builds without threads, where `Pending` is not shared.
* Game states: pausing, matches and winners; of grid and objects only the round.
* Voting: polls to include a file, run a command or challenge (`KRAWALL_SERVER`
  only), access levels, name changes, spam counters, `VOTES_SUSPEND`, the client's
  menus, the lifting of suspensions, the end of a machine's record.
* Whole components: cycles, walls, zones, artificial players, timer and lag
  compensation are floating point geometry and real arithmetic; chat, parser,
  recording, strings, menus and display are text and I/O.  Settings,
  authentication, server browser, spam and bans, teams, map rotation and the
  bandwidth heap are protocols or algorithms of their own which touch the
  modelled ones at the points named above.

The sources are large (some 180 000 lines, most of them geometry, display and
text); the modules cover the protocol core, which is where interleavings decide.

## 6. What would come next

1. `Authentication` over `DeferredTasks`: one result for one request of a user
   that may be gone.
2. `Heap` of `tHeap.cpp`, with its order and back pointers.
3. `Settings`: what a client has of the server's settings after logins, changes
   and reverts.
4. Spam accounts and bans, which `Login` and `Voting` leave to chance.
