----------------------------- MODULE GameStates -----------------------------
(***************************************************************************)
(* The states a game goes through in each round, src/src/tron/gGame.cpp,   *)
(* and the barrier sn_Sync of src/src/network/nNetObject.cpp.              *)
(*                                                                         *)
(* Server and clients each run gGame::StateUpdate: state goes round a      *)
(* circle as long as it is before stateNext.  The server announces its     *)
(* stateNext in syncs of the game object; a client reports each state it   *)
(* has entered.  In every state the server waits, for a limited time, for  *)
(* the barrier and for the reports.  It sends the objects of the round to  *)
(* the clients whose reports say that they have a grid for them.           *)
(*                                                                         *)
(* Reports, barrier messages and their answers arrive once and in any      *)
(* order (ReliableChannel); of the syncs of one object the receiver drops  *)
(* those that are older than one it has read.                              *)
(***************************************************************************)
EXTENDS Integers, Sequences, FiniteSets

CONSTANTS
  Server, Client,
  MaxRound,    \* bound: the last round, which is not ended
  MaxExpiry,   \* bound: how often a wait of any node times out
  MaxLogin,    \* bound: logins of a client
  MaxBarrier,  \* bound: barrier messages or answers in flight with a client
  MaxReports,  \* bound: reports of a client in flight
  MaxNews      \* bound: announcements a client has not read

Node == {Server} \cup Client

ASSUME NodeAssumption == Server \notin Client
ASSUME BoundAssumption ==
  /\ MaxRound \in Nat \ {0} /\ MaxExpiry \in Nat
  /\ MaxLogin \in Nat /\ MaxBarrier \in Nat \ {0}
  /\ MaxReports \in Nat \ {0} /\ MaxNews \in Nat \ {0}

GS_CREATED           == 0
GS_TRANSFER_SETTINGS == 7
GS_CREATE_GRID       == 10
GS_CREATE_OBJECTS    == 20
GS_TRANSFER_OBJECTS  == 30
GS_CAMERA            == 35
GS_SYNCING           == 40
GS_PLAY              == 50
GS_DELETE_OBJECTS    == 60
GS_DELETE_GRID       == 70
GS_STATE_MAX         == 80

GameState == {GS_CREATED, GS_TRANSFER_SETTINGS, GS_CREATE_GRID, GS_CREATE_OBJECTS,
              GS_TRANSFER_OBJECTS, GS_CAMERA, GS_SYNCING, GS_PLAY,
              GS_DELETE_OBJECTS, GS_DELETE_GRID}

(* sg_AbeforeB: b is one to three quarters of the circle ahead of a.       *)
AbeforeB(a, b) == (GS_STATE_MAX + a - b) % GS_STATE_MAX > GS_STATE_MAX \div 4

(* The arguments of SetState in each case of StateUpdate.                  *)
Entered(s) ==
  CASE s = GS_CREATED           -> GS_CREATE_GRID
    [] s = GS_TRANSFER_SETTINGS -> GS_CREATE_GRID
    [] s = GS_CREATE_GRID       -> GS_CREATE_OBJECTS
    [] s = GS_CREATE_OBJECTS    -> GS_TRANSFER_OBJECTS
    [] s = GS_TRANSFER_OBJECTS  -> GS_CAMERA
    [] s = GS_CAMERA            -> GS_SYNCING
    [] s = GS_SYNCING           -> GS_PLAY
    [] s = GS_PLAY              -> GS_DELETE_OBJECTS
    [] s = GS_DELETE_OBJECTS    -> GS_DELETE_GRID
    [] s = GS_DELETE_GRID       -> GS_TRANSFER_SETTINGS

Goal(s) ==
  CASE s \in {GS_CREATED, GS_TRANSFER_SETTINGS, GS_CREATE_GRID, GS_CREATE_OBJECTS} -> GS_CAMERA
    [] s = GS_TRANSFER_OBJECTS -> GS_SYNCING
    [] s \in {GS_CAMERA, GS_SYNCING} -> GS_PLAY
    [] s = GS_PLAY -> GS_DELETE_GRID
    [] s = GS_DELETE_OBJECTS -> GS_TRANSFER_SETTINGS
    [] s = GS_DELETE_GRID -> GS_CREATE_GRID

VARIABLES
  state, stateNext,  \* of the gGame object of each node
  wait,              \* where the server is: "run" in StateUpdate, "flush" in
                     \* sn_Sync before SetState, "sync" and "again" in the
                     \* first and the later sn_Sync of SyncState
  goal,              \* the second argument of the SetState in progress
  client_gamestate,  \* the last report the server has read of each client
  sync_ack,          \* the client has answered since sn_Sync began
  transmitted,       \* clients that know the objects of the round
  connected,         \* clients that are logged in
  playing,           \* clients with a player in a team: not in sg_GetSpecs
  asked,             \* clients that sn_Sync waits for
  just_connected,    \* clients that have not been in GS_TRANSFER_OBJECTS
  told,              \* the client has reported the state it is in
  syncing,           \* the client is in sn_Sync within sync_msg_handler
  news,              \* news[c]: values of stateNext c has not read, oldest first
  reports,           \* reports[c]: reports of c in flight
  syncMsgs,          \* syncMsgs[c]: barrier messages to c in flight
  syncAcks,          \* syncAcks[c]: answers of c in flight
  round,             \* history: the round of the server's grid
  inStep,            \* history: clients that were in GS_PLAY with the server;
                     \* none once a wait has expired
  edition,           \* history: edition[c]: the round of the stateNext that
                     \* c follows
  grid,              \* history: grid[c]: edition in which c made its grid
  expiries, logins   \* count what the bounds bound

serverVars == <<wait, goal, client_gamestate, asked, sync_ack, transmitted, round,
                inStep, expiries>>
clientVars == <<connected, playing, just_connected, told, syncing, edition, grid,
                logins>>
netVars    == <<news, reports, syncMsgs, syncAcks>>
vars       == <<state, stateNext, serverVars, clientVars, netVars>>

Init ==
  /\ state = [n \in Node |-> GS_CREATED]
  /\ stateNext = [n \in Node |-> GS_TRANSFER_SETTINGS]
  /\ wait = "run" /\ goal = GS_TRANSFER_SETTINGS
  /\ client_gamestate = [c \in Client |-> GS_CREATED]
  /\ sync_ack = [c \in Client |-> FALSE]
  /\ transmitted = {} /\ connected = {} /\ playing = {} /\ asked = {}
  /\ inStep = {} /\ just_connected = {}
  /\ told = [c \in Client |-> TRUE]
  /\ syncing = [c \in Client |-> FALSE]
  /\ news = [c \in Client |-> <<>>]
  /\ reports = [c \in Client |-> {}]
  /\ syncMsgs = [c \in Client |-> 0]
  /\ syncAcks = [c \in Client |-> 0]
  /\ round = 1
  /\ edition = [c \in Client |-> 0]
  /\ grid = [c \in Client |-> 0]
  /\ expiries = 0
  /\ logins = [c \in Client |-> 0]

-----------------------------------------------------------------------------
(* The server.                                                             *)

(* sn_Sync asks every client for an answer.  A round of the barrier is not *)
(* numbered: an answer to an earlier one counts.                           *)
StartSync ==
  /\ \A c \in connected : syncMsgs[c] < MaxBarrier
  /\ asked' = connected \cap playing
  /\ sync_ack' = [c \in Client |-> FALSE]
  /\ syncMsgs' = [c \in Client |-> IF c \in connected THEN syncMsgs[c] + 1 ELSE syncMsgs[c]]

(* sn_Sync ends when all players have answered and received what was sent  *)
(* to them; a sync of the game object may still wait for bandwidth.        *)
Synced == \A c \in asked \cap connected : sync_ack[c] /\ syncMsgs[c] = 0

(* The round of a state that the server announces.                         *)
RoundOf(next) ==
  IF AbeforeB(state[Server], next) /\ next < state[Server] THEN round + 1 ELSE round

Announce(next) ==
  /\ \A c \in connected : Len(news[c]) < MaxNews
  /\ news' = [c \in Client |-> IF c \in connected
                               THEN Append(news[c], [next |-> next, round |-> RoundOf(next)])
                               ELSE news[c]]

(* A wait times out.                                                       *)
Expires == expiries < MaxExpiry /\ expiries' = expiries + 1 /\ inStep' = {}

(* A round of StateUpdate begins.  Before a grid is made there is an       *)
(* extra barrier, before the camera is set the objects must have arrived.  *)
Flush ==
  /\ wait = "run" /\ AbeforeB(state[Server], stateNext[Server])
  /\ state[Server] \in {GS_CREATED, GS_TRANSFER_SETTINGS}
  /\ wait' = "flush"
  /\ StartSync
  /\ UNCHANGED <<state, stateNext, goal, client_gamestate, transmitted, round,
                 inStep, expiries, clientVars, news, reports, syncAcks>>

MayEnter ==
  CASE state[Server] \in {GS_CREATED, GS_TRANSFER_SETTINGS} -> wait = "flush"
    [] OTHER -> wait = "run" /\ AbeforeB(state[Server], stateNext[Server])

Ready ==
  CASE wait = "flush" -> Synced
    [] state[Server] = GS_TRANSFER_OBJECTS -> connected \cap playing \subseteq transmitted
    [] OTHER -> TRUE

(* SetState enters the state and waits in SyncState.                       *)
SetState ==
  LET act == Entered(state[Server]) IN
  /\ MayEnter
  /\ (Ready /\ UNCHANGED <<inStep, expiries>>) \/ (~Ready /\ Expires)
  /\ state' = [state EXCEPT ![Server] = act]
  /\ goal' = Goal(state[Server])
  /\ transmitted' = IF act = GS_DELETE_GRID THEN {} ELSE transmitted
  /\ round' = IF act = GS_TRANSFER_SETTINGS THEN round + 1 ELSE round
  /\ wait' = "sync"
  /\ StartSync
  /\ UNCHANGED <<stateNext, client_gamestate, clientVars, news, reports, syncAcks>>

(* gGame::Analysis ends the round.                                         *)
EndRound ==
  /\ wait = "run" /\ state[Server] = GS_PLAY /\ stateNext[Server] = GS_PLAY
  /\ round < MaxRound
  /\ goal' = GS_DELETE_OBJECTS
  /\ wait' = "sync"
  /\ StartSync
  /\ UNCHANGED <<state, stateNext, client_gamestate, transmitted, round,
                 inStep, expiries, clientVars, news, reports, syncAcks>>

(* SyncState repeats the barrier until every report says that the client   *)
(* is not before the state, or the time is up; then SetState announces     *)
(* what comes next.                                                        *)
InPlay(c) == state[c] = GS_PLAY /\ grid[c] = round

NoneBehind == {}
BehindInRound == {c \in connected :
  client_gamestate[c] < state[Server] /\ state[Server] <= GS_DELETE_OBJECTS}
Behind == {c \in connected : AbeforeB(client_gamestate[c], state[Server])}

SyncAgain ==
  /\ wait \in {"sync", "again"} /\ Synced
  /\ wait = "again" => Behind # {}
  /\ wait' = "again"
  /\ StartSync
  /\ UNCHANGED <<state, stateNext, goal, client_gamestate, transmitted, round,
                 inStep, expiries, clientVars, news, reports, syncAcks>>

SyncStateEnds ==
  /\ wait \in {"sync", "again"}
  /\ \/ /\ wait = "again" /\ Synced /\ Behind = {}
        /\ inStep' = IF state[Server] = GS_PLAY /\ expiries = 0
                     THEN inStep \cup {c \in asked \cap playing : InPlay(c)}
                     ELSE inStep
        /\ UNCHANGED expiries
     \/ Expires
  /\ wait' = "run"
  /\ stateNext' = [stateNext EXCEPT ![Server] = goal]
  /\ IF goal = stateNext[Server] THEN UNCHANGED news ELSE Announce(goal)
  /\ UNCHANGED <<state, goal, client_gamestate, asked, sync_ack, transmitted, round,
                 clientVars, reports, syncMsgs, syncAcks>>

(* gGame::GridIsReady; the transfer inhibitor holds back the objects of    *)
(* the round, made in GS_CREATE_OBJECTS, from other clients.               *)
GridIsReady(c) == client_gamestate[c] \in GS_TRANSFER_OBJECTS .. GS_DELETE_OBJECTS

Transmit(c) ==
  /\ c \in connected \ transmitted /\ GridIsReady(c)
  /\ state[Server] \in GS_TRANSFER_OBJECTS .. GS_DELETE_OBJECTS
  /\ transmitted' = transmitted \cup {c}
  /\ UNCHANGED <<state, stateNext, wait, goal, client_gamestate, asked, sync_ack, round,
                 inStep, expiries, clientVars, netVars>>

ReceiveReport(c, r) ==
  /\ r \in reports[c]
  /\ client_gamestate' = [client_gamestate EXCEPT ![c] = r.state]
  /\ reports' = [reports EXCEPT ![c] = @ \ {r}]
  /\ UNCHANGED <<state, stateNext, wait, goal, asked, sync_ack, transmitted, round,
                 inStep, expiries, clientVars, news, syncMsgs, syncAcks>>

ReceiveSyncAck(c) ==
  /\ syncAcks[c] > 0
  /\ syncAcks' = [syncAcks EXCEPT ![c] = @ - 1]
  /\ sync_ack' = [sync_ack EXCEPT ![c] = TRUE]
  /\ UNCHANGED <<state, stateNext, wait, goal, client_gamestate, asked, transmitted, round,
                 inStep, expiries, clientVars, news, reports, syncMsgs>>

-----------------------------------------------------------------------------
(* A client.                                                               *)

(* The game object arrives with the server's stateNext; LoginCallback      *)
(* forgets the reports of an earlier user of the slot.                     *)
ForgetReport(c) == client_gamestate' = [client_gamestate EXCEPT ![c] = GS_CREATED]

Login(c) ==
  /\ c \notin connected /\ logins[c] < MaxLogin
  /\ logins' = [logins EXCEPT ![c] = @ + 1]
  /\ connected' = connected \cup {c}
  /\ just_connected' = just_connected \cup {c}
  /\ state' = [state EXCEPT ![c] = GS_CREATED]
  /\ stateNext' = [stateNext EXCEPT ![c] = GS_TRANSFER_SETTINGS]
  /\ told' = [told EXCEPT ![c] = TRUE]
  /\ syncing' = [syncing EXCEPT ![c] = FALSE]
  /\ edition' = [edition EXCEPT ![c] = 0]
  /\ grid' = [grid EXCEPT ![c] = 0]
  /\ news' = [news EXCEPT ![c] =
                 <<[next |-> stateNext[Server], round |-> RoundOf(stateNext[Server])]>>]
  /\ ForgetReport(c)
  /\ UNCHANGED <<wait, goal, asked, sync_ack, transmitted, round, inStep, expiries,
                 playing, reports, syncMsgs, syncAcks>>

(* A player of the client joins or leaves a team.                          *)
JoinTeam(c) ==
  /\ c \in connected \ playing
  /\ playing' = playing \cup {c}
  /\ UNCHANGED inStep

LeaveTeam(c) ==
  /\ c \in playing
  /\ playing' = playing \ {c}
  /\ inStep' = inStep \ {c}

ChangeTeam(c) ==
  /\ JoinTeam(c) \/ LeaveTeam(c)
  /\ UNCHANGED <<state, stateNext, wait, goal, client_gamestate, asked, sync_ack,
                 transmitted, round, expiries, connected, just_connected, told, syncing,
                 edition, grid, logins, netVars>>

(* nNetObject::ClearKnows; what is in flight on a connection is lost with  *)
(* it.                                                                     *)
KeepKnown(c) == UNCHANGED transmitted
ClearKnows(c) == transmitted' = transmitted \ {c}

Logout(c) ==
  /\ c \in connected
  /\ connected' = connected \ {c}
  /\ playing' = playing \ {c}
  /\ inStep' = inStep \ {c}
  /\ ClearKnows(c)
  /\ news' = [news EXCEPT ![c] = <<>>]
  /\ reports' = [reports EXCEPT ![c] = {}]
  /\ syncMsgs' = [syncMsgs EXCEPT ![c] = 0]
  /\ syncAcks' = [syncAcks EXCEPT ![c] = 0]
  /\ ForgetReport(c)
  /\ UNCHANGED <<state, stateNext, wait, goal, asked, sync_ack, round, expiries,
                 just_connected, told, syncing, edition, grid, logins>>

(* gGame::ReadSync: "only update the state if it does not go back a few    *)
(* steps".                                                                 *)
ReadSync(c, i) ==
  LET new == news[c][i] IN
  /\ i \in 1 .. Len(news[c])
  /\ news' = [news EXCEPT ![c] = SubSeq(@, i + 1, Len(@))]
  /\ IF AbeforeB(stateNext[c], new.next)
     THEN /\ stateNext' = [stateNext EXCEPT ![c] = new.next]
          /\ edition' = [edition EXCEPT ![c] = new.round]
     ELSE UNCHANGED <<stateNext, edition>>
  /\ UNCHANGED <<state, serverVars, connected, playing, just_connected, told, syncing, grid,
                 logins, reports, syncMsgs, syncAcks>>

(* What sn_Sync waits for on a client: all it has sent is acknowledged.    *)
AllSentAlways(c) == TRUE
AllSent(c) == reports[c] = {} /\ syncAcks[c] = 0

AllSentOrExpires(c) == (AllSent(c) /\ UNCHANGED <<inStep, expiries>>) \/ (~AllSent(c) /\ Expires)

(* A round of StateUpdate: the case makes or deletes grid and objects and  *)
(* calls SetState, where a client leaves stateNext to the server; a client *)
(* too calls sn_Sync before it makes a grid ...                            *)
LeadsItself(c) == stateNext' = [stateNext EXCEPT ![c] = Goal(state[c])]
FollowsServer(c) == UNCHANGED stateNext

Advance(c) ==
  /\ c \in connected /\ ~syncing[c] /\ told[c]
  /\ AbeforeB(state[c], stateNext[c])
  /\ state' = [state EXCEPT ![c] = Entered(state[c])]
  /\ grid' = IF state[c] = GS_CREATE_GRID THEN [grid EXCEPT ![c] = edition[c]] ELSE grid
  /\ told' = [told EXCEPT ![c] = FALSE]
  /\ IF state[c] \in {GS_CREATED, GS_TRANSFER_SETTINGS}
     THEN AllSentOrExpires(c)
     ELSE UNCHANGED <<inStep, expiries>>
  /\ FollowsServer(c)
  /\ UNCHANGED <<wait, goal, client_gamestate, asked, sync_ack, transmitted, round, connected,
                 playing, just_connected, syncing, edition, logins, netVars>>

(* ... and after some receiving the state is reported, the first time the  *)
(* objects are transferred not before sn_Sync.                             *)
Report(c) ==
  /\ c \in connected /\ ~syncing[c] /\ ~told[c]
  /\ Cardinality(reports[c]) < MaxReports
  /\ IF state[c] = GS_TRANSFER_OBJECTS /\ c \in just_connected
     THEN AllSentOrExpires(c) /\ just_connected' = just_connected \ {c}
     ELSE UNCHANGED <<just_connected, inStep, expiries>>
  /\ told' = [told EXCEPT ![c] = TRUE]
  /\ reports' = [reports EXCEPT ![c] = @ \cup {[state |-> state[c], edition |-> edition[c]]}]
  /\ UNCHANGED <<state, stateNext, wait, goal, client_gamestate, asked, sync_ack, transmitted,
                 round, connected, playing, syncing, edition, grid, logins, news, syncMsgs,
                 syncAcks>>

(* sync_msg_handler calls sn_Sync, which receives on; a barrier message    *)
(* that arrives in it is dropped.                                          *)
ReceiveSyncMsg(c) ==
  /\ syncMsgs[c] > 0
  /\ syncMsgs' = [syncMsgs EXCEPT ![c] = @ - 1]
  /\ syncing' = [syncing EXCEPT ![c] = TRUE]
  /\ UNCHANGED <<state, stateNext, serverVars, connected, playing, just_connected, told,
                 edition, grid, logins, news, reports, syncAcks>>

(* It answers at the end of sn_Sync.                                       *)
AnswerSync(c) ==
  /\ c \in connected /\ syncing[c]
  /\ syncAcks[c] < MaxBarrier
  /\ AllSentOrExpires(c)
  /\ syncing' = [syncing EXCEPT ![c] = FALSE]
  /\ syncAcks' = [syncAcks EXCEPT ![c] = @ + 1]
  /\ UNCHANGED <<state, stateNext, wait, goal, client_gamestate, asked, sync_ack, transmitted,
                 round, connected, playing, just_connected, told, edition, grid, logins, news,
                 reports, syncMsgs>>

-----------------------------------------------------------------------------
ServerStep == Flush \/ SetState \/ SyncAgain \/ SyncStateEnds

ClientStep(c) ==
  \/ \E i \in 1 .. Len(news[c]) : ReadSync(c, i)
  \/ Advance(c) \/ Report(c) \/ ReceiveSyncMsg(c) \/ AnswerSync(c)

Arrival(c) == ReceiveSyncAck(c) \/ \E r \in reports[c] : ReceiveReport(c, r)

Next ==
  \/ ServerStep \/ EndRound
  \/ \E c \in Client : ClientStep(c) \/ Arrival(c) \/ Transmit(c)
                     \/ Login(c) \/ Logout(c) \/ ChangeTeam(c)

Spec == Init /\ [][Next]_vars

-----------------------------------------------------------------------------
(* Every variable keeps its shape; objects are only known to clients that  *)
(* are connected, which all players and clients in step are.               *)
StateTypes ==
  /\ state \in [Node -> GameState] /\ stateNext \in [Node -> GameState]
  /\ wait \in {"run", "flush", "sync", "again"} /\ goal \in GameState

RecordTypes ==
  /\ client_gamestate \in [Client -> GameState]
  /\ sync_ack \in [Client -> BOOLEAN]
  /\ asked \subseteq Client
  /\ round \in Nat /\ expiries \in Nat

MemberTypes ==
  /\ transmitted \subseteq connected /\ connected \subseteq Client
  /\ inStep \subseteq playing /\ playing \subseteq connected
  /\ just_connected \subseteq Client

ClientTypes ==
  /\ told \in [Client -> BOOLEAN] /\ syncing \in [Client -> BOOLEAN]
  /\ edition \in [Client -> Nat] /\ grid \in [Client -> Nat]
  /\ logins \in [Client -> Nat]

NetTypes ==
  /\ news \in [Client -> Seq([next : GameState, round : Nat])]
  /\ reports \in [Client -> SUBSET [state : GameState, edition : Nat]]
  /\ syncMsgs \in [Client -> Nat] /\ syncAcks \in [Client -> Nat]

TypeOK == StateTypes /\ RecordTypes /\ MemberTypes /\ ClientTypes /\ NetTypes

(* Where a node is, over all rounds.  A client in the first states of a    *)
(* round still has the grid of the one before.                             *)
Place(r, s) == GS_STATE_MAX * r + s
ServerPlace == Place(round, state[Server])
ClientPlace(c) ==
  IF state[c] <= GS_CREATE_GRID THEN Place(grid[c] + 1, state[c]) ELSE Place(grid[c], state[c])

(* A client that was in GS_PLAY together with the server enters every      *)
(* state of the next round before the server goes on to the one after it,  *)
(* while no wait expires: the reports carry no number of the round and are *)
(* not ordered, the barrier is not numbered, yet none of an earlier state  *)
(* is taken for one of this state.                                         *)
StaysInStep == \A c \in inStep :
  wait = "run" => ClientPlace(c) >= ServerPlace

(* With a grid a client enters no state that the server has not announced, *)
(* whatever waits expire and however far the client lags: an announcement  *)
(* says where in the circle to stop, not in which round.                   *)
Announced == Place(RoundOf(stateNext[Server]), stateNext[Server])

NeverAhead == \A c \in connected :
  state[c] > GS_CREATE_GRID => ClientPlace(c) <= Announced

(* "avoid transfer of game objects if the grid is not yes constructed":    *)
(* before the round ends objects go to clients with the grid of the round, *)
(* if the clients are in step.                                             *)
GoesIntoGrid(c) == state[Server] <= GS_PLAY => grid[c] = round

InStepOnlyIntoGrid ==
  [][\A c \in inStep \cap (transmitted' \ transmitted) : GoesIntoGrid(c)]_vars
=============================================================================
