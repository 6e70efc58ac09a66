------------------------- MODULE GameStatesProofs -------------------------
(***************************************************************************)
(* Proofs about GameStates, for any number of clients and any bounds.      *)
(***************************************************************************)
EXTENDS GameStates, TLAPS

-----------------------------------------------------------------------------
(* A function with one value replaced.                                     *)
LEMMA Update ==
  ASSUME NEW S, NEW T, NEW f \in [S -> T], NEW x \in S, NEW y \in T
  PROVE  [f EXCEPT ![x] = y] \in [S -> T]
OBVIOUS

(* The server is a node, and so is every client.                           *)
LEMMA Nodes == Server \in Node /\ Client \subseteq Node
BY DEF Node

(* SetState is called with states of the circle.                           *)
LEMMA CircleType ==
  /\ GS_CREATED \in GameState /\ GS_TRANSFER_SETTINGS \in GameState
  /\ GS_DELETE_OBJECTS \in GameState
  /\ \A s \in GameState : Entered(s) \in GameState /\ Goal(s) \in GameState
<1>1. /\ GS_CREATED \in GameState /\ GS_TRANSFER_SETTINGS \in GameState
      /\ GS_DELETE_OBJECTS \in GameState
  BY DEF GameState
<1>2. ASSUME NEW s \in GameState PROVE Entered(s) \in GameState
  BY <1>2 DEF GameState, Entered, GS_CREATED, GS_TRANSFER_SETTINGS, GS_CREATE_GRID,
     GS_CREATE_OBJECTS, GS_TRANSFER_OBJECTS, GS_CAMERA, GS_SYNCING, GS_PLAY,
     GS_DELETE_OBJECTS, GS_DELETE_GRID
<1>3. ASSUME NEW s \in GameState PROVE Goal(s) \in GameState
  BY <1>3 DEF GameState, Goal, GS_CREATED, GS_TRANSFER_SETTINGS, GS_CREATE_GRID,
     GS_CREATE_OBJECTS, GS_TRANSFER_OBJECTS, GS_CAMERA, GS_SYNCING, GS_PLAY,
     GS_DELETE_OBJECTS, GS_DELETE_GRID
<1> QED BY <1>1, <1>2, <1>3

-----------------------------------------------------------------------------
(* Pieces of several actions.                                              *)

(* A new barrier keeps its variables' shape ...                            *)
LEMMA StartSyncType ==
  ASSUME TypeOK, StartSync
  PROVE  /\ asked' \subseteq Client
         /\ sync_ack' \in [Client -> BOOLEAN]
         /\ syncMsgs' \in [Client -> Nat]
BY DEF TypeOK, MemberTypes, NetTypes, StartSync

(* ... and so does an announcement.                                        *)
LEMMA AnnounceType ==
  ASSUME TypeOK, NEW next \in GameState, Announce(next)
  PROVE  news' \in [Client -> Seq([next : GameState, round : Nat])]
<1> DEFINE News == [next : GameState, round : Nat]
<1>1. [next |-> next, round |-> RoundOf(next)] \in News
  BY DEF TypeOK, RecordTypes, RoundOf
<1>2. news \in [Client -> Seq(News)]  BY DEF TypeOK, NetTypes
<1> HIDE DEF News
<1>3. ASSUME NEW c \in Client
      PROVE  Append(news[c], [next |-> next, round |-> RoundOf(next)]) \in Seq(News)
  BY <1>1, <1>2, <1>3
<1>4. news' \in [Client -> Seq(News)]
  BY <1>2, <1>3 DEF Announce
<1> QED BY <1>4 DEF News

(* A wait that expires empties inStep, one that does not leaves it.        *)
LEMMA WaitType ==
  ASSUME TypeOK, Expires \/ UNCHANGED <<inStep, expiries>>
  PROVE  expiries' \in Nat /\ inStep' \subseteq inStep
BY DEF TypeOK, RecordTypes, Expires

-----------------------------------------------------------------------------
(* Type correctness.                                                       *)

(* At first every variable has its shape ...                               *)
LEMMA TypeInit == Init => TypeOK
<1> SUFFICES ASSUME Init PROVE TypeOK  OBVIOUS
<1>1. StateTypes  BY CircleType DEF Init, StateTypes
<1>2. RecordTypes  BY CircleType DEF Init, RecordTypes
<1>3. MemberTypes  BY DEF Init, MemberTypes
<1>4. ClientTypes  BY DEF Init, ClientTypes
<1>5. NetTypes
  <2>1. \A T : <<>> \in Seq(T)  OBVIOUS
  <2> QED BY <2>1 DEF Init, NetTypes
<1> QED BY <1>1, <1>2, <1>3, <1>4, <1>5 DEF TypeOK

(* ... which each step of the server keeps ...                             *)
LEMMA ServerTypeStep == TypeOK /\ (ServerStep \/ EndRound) => TypeOK'
<1> SUFFICES ASSUME TypeOK, ServerStep \/ EndRound PROVE TypeOK'  OBVIOUS
<1> USE DEF serverVars, clientVars, netVars
<1>1. CASE Flush
  <2>1. asked' \subseteq Client /\ sync_ack' \in [Client -> BOOLEAN]
        /\ syncMsgs' \in [Client -> Nat]
    BY <1>1, StartSyncType DEF Flush
  <2>2. StateTypes'  BY <1>1 DEF Flush, TypeOK, StateTypes
  <2>3. RecordTypes'  BY <1>1, <2>1 DEF Flush, TypeOK, RecordTypes
  <2>4. MemberTypes'  BY <1>1 DEF Flush, TypeOK, MemberTypes
  <2>5. ClientTypes'  BY <1>1 DEF Flush, TypeOK, ClientTypes
  <2>6. NetTypes'  BY <1>1, <2>1 DEF Flush, TypeOK, NetTypes
  <2> QED BY <2>2, <2>3, <2>4, <2>5, <2>6 DEF TypeOK
<1>2. CASE SetState
  <2>1. asked' \subseteq Client /\ sync_ack' \in [Client -> BOOLEAN]
        /\ syncMsgs' \in [Client -> Nat]
    BY <1>2, StartSyncType DEF SetState
  <2>2. expiries' \in Nat /\ inStep' \subseteq inStep
    BY <1>2, WaitType DEF SetState
  <2>3. StateTypes'
    <3>1. state[Server] \in GameState  BY Nodes DEF TypeOK, StateTypes
    <3>2. Entered(state[Server]) \in GameState /\ Goal(state[Server]) \in GameState
      BY <3>1, CircleType
    <3>3. state' \in [Node -> GameState]
      BY <1>2, <3>2, Nodes, Update DEF SetState, TypeOK, StateTypes
    <3> QED BY <1>2, <3>2, <3>3 DEF SetState, TypeOK, StateTypes
  <2>4. RecordTypes'
    <3>1. round' \in Nat  BY <1>2 DEF SetState, TypeOK, RecordTypes
    <3> QED BY <1>2, <2>1, <2>2, <3>1 DEF SetState, TypeOK, RecordTypes
  <2>5. MemberTypes'
    <3>1. transmitted' \subseteq transmitted  BY <1>2 DEF SetState
    <3> QED BY <1>2, <2>2, <3>1 DEF SetState, TypeOK, MemberTypes
  <2>6. ClientTypes'  BY <1>2 DEF SetState, TypeOK, ClientTypes
  <2>7. NetTypes'  BY <1>2, <2>1 DEF SetState, TypeOK, NetTypes
  <2> QED BY <2>3, <2>4, <2>5, <2>6, <2>7 DEF TypeOK
<1>3. CASE SyncAgain
  <2>1. asked' \subseteq Client /\ sync_ack' \in [Client -> BOOLEAN]
        /\ syncMsgs' \in [Client -> Nat]
    BY <1>3, StartSyncType DEF SyncAgain
  <2>2. StateTypes'  BY <1>3 DEF SyncAgain, TypeOK, StateTypes
  <2>3. RecordTypes'  BY <1>3, <2>1 DEF SyncAgain, TypeOK, RecordTypes
  <2>4. MemberTypes'  BY <1>3 DEF SyncAgain, TypeOK, MemberTypes
  <2>5. ClientTypes'  BY <1>3 DEF SyncAgain, TypeOK, ClientTypes
  <2>6. NetTypes'  BY <1>3, <2>1 DEF SyncAgain, TypeOK, NetTypes
  <2> QED BY <2>2, <2>3, <2>4, <2>5, <2>6 DEF TypeOK
<1>4. CASE SyncStateEnds
  <2>1. goal \in GameState  BY DEF TypeOK, StateTypes
  <2>2. StateTypes'
    <3>1. stateNext' \in [Node -> GameState]
      BY <1>4, <2>1, Nodes, Update DEF SyncStateEnds, TypeOK, StateTypes
    <3> QED BY <1>4, <3>1 DEF SyncStateEnds, TypeOK, StateTypes
  <2>3. expiries' \in Nat /\ inStep' \subseteq playing
    BY <1>4, WaitType DEF SyncStateEnds, TypeOK, RecordTypes, MemberTypes
  <2>4. RecordTypes'  BY <1>4, <2>3 DEF SyncStateEnds, TypeOK, RecordTypes
  <2>5. MemberTypes'  BY <1>4, <2>3 DEF SyncStateEnds, TypeOK, MemberTypes
  <2>6. ClientTypes'  BY <1>4 DEF SyncStateEnds, TypeOK, ClientTypes
  <2>7. news' \in [Client -> Seq([next : GameState, round : Nat])]
    <3>1. CASE goal = stateNext[Server]
      BY <1>4, <3>1 DEF SyncStateEnds, TypeOK, NetTypes
    <3>2. CASE goal # stateNext[Server]
      BY <1>4, <2>1, <3>2, AnnounceType DEF SyncStateEnds
    <3> QED BY <3>1, <3>2
  <2>8. NetTypes'  BY <1>4, <2>7 DEF SyncStateEnds, TypeOK, NetTypes
  <2> QED BY <2>2, <2>4, <2>5, <2>6, <2>8 DEF TypeOK
<1>5. CASE EndRound
  <2>1. asked' \subseteq Client /\ sync_ack' \in [Client -> BOOLEAN]
        /\ syncMsgs' \in [Client -> Nat]
    BY <1>5, StartSyncType DEF EndRound
  <2>2. StateTypes'  BY <1>5, CircleType DEF EndRound, TypeOK, StateTypes
  <2>3. RecordTypes'  BY <1>5, <2>1 DEF EndRound, TypeOK, RecordTypes
  <2>4. MemberTypes'  BY <1>5 DEF EndRound, TypeOK, MemberTypes
  <2>5. ClientTypes'  BY <1>5 DEF EndRound, TypeOK, ClientTypes
  <2>6. NetTypes'  BY <1>5, <2>1 DEF EndRound, TypeOK, NetTypes
  <2> QED BY <2>2, <2>3, <2>4, <2>5, <2>6 DEF TypeOK
<1> QED BY <1>1, <1>2, <1>3, <1>4, <1>5 DEF ServerStep

(* ... each message the server reads or object it sends ...                *)
LEMMA ArrivalTypeStep ==
  ASSUME TypeOK, NEW c \in Client, Arrival(c) \/ Transmit(c)
  PROVE  TypeOK'
<1> USE DEF serverVars, clientVars, netVars
<1>1. CASE ReceiveSyncAck(c)
  <2>1. sync_ack' \in [Client -> BOOLEAN]
    BY <1>1, Update DEF ReceiveSyncAck, TypeOK, RecordTypes
  <2>2. syncAcks[c] - 1 \in Nat
    BY <1>1 DEF ReceiveSyncAck, TypeOK, NetTypes
  <2>3. syncAcks' \in [Client -> Nat]
    BY <1>1, <2>2, Update DEF ReceiveSyncAck, TypeOK, NetTypes
  <2>4. StateTypes'  BY <1>1 DEF ReceiveSyncAck, TypeOK, StateTypes
  <2>5. RecordTypes'  BY <1>1, <2>1 DEF ReceiveSyncAck, TypeOK, RecordTypes
  <2>6. MemberTypes'  BY <1>1 DEF ReceiveSyncAck, TypeOK, MemberTypes
  <2>7. ClientTypes'  BY <1>1 DEF ReceiveSyncAck, TypeOK, ClientTypes
  <2>8. NetTypes'  BY <1>1, <2>3 DEF ReceiveSyncAck, TypeOK, NetTypes
  <2> QED BY <2>4, <2>5, <2>6, <2>7, <2>8 DEF TypeOK
<1>2. ASSUME NEW r \in reports[c], ReceiveReport(c, r) PROVE TypeOK'
  <2>1. r.state \in GameState
    BY <1>2 DEF TypeOK, NetTypes
  <2>2. client_gamestate' \in [Client -> GameState]
    BY <1>2, <2>1, Update DEF ReceiveReport, TypeOK, RecordTypes
  <2>3. reports' \in [Client -> SUBSET [state : GameState, edition : Nat]]
    BY <1>2 DEF ReceiveReport, TypeOK, NetTypes
  <2>4. StateTypes'  BY <1>2 DEF ReceiveReport, TypeOK, StateTypes
  <2>5. RecordTypes'  BY <1>2, <2>2 DEF ReceiveReport, TypeOK, RecordTypes
  <2>6. MemberTypes'  BY <1>2 DEF ReceiveReport, TypeOK, MemberTypes
  <2>7. ClientTypes'  BY <1>2 DEF ReceiveReport, TypeOK, ClientTypes
  <2>8. NetTypes'  BY <1>2, <2>3 DEF ReceiveReport, TypeOK, NetTypes
  <2> QED BY <2>4, <2>5, <2>6, <2>7, <2>8 DEF TypeOK
<1>3. CASE Transmit(c)
  <2>1. StateTypes'  BY <1>3 DEF Transmit, TypeOK, StateTypes
  <2>2. RecordTypes'  BY <1>3 DEF Transmit, TypeOK, RecordTypes
  <2>3. MemberTypes'  BY <1>3 DEF Transmit, TypeOK, MemberTypes
  <2>4. ClientTypes'  BY <1>3 DEF Transmit, TypeOK, ClientTypes
  <2>5. NetTypes'  BY <1>3 DEF Transmit, TypeOK, NetTypes
  <2> QED BY <2>1, <2>2, <2>3, <2>4, <2>5 DEF TypeOK
<1> QED BY <1>1, <1>2, <1>3 DEF Arrival

(* ... and each step of a client.                                          *)
LEMMA ClientTypeStep ==
  ASSUME TypeOK, NEW c \in Client, ClientStep(c) \/ Login(c) \/ Logout(c) \/ ChangeTeam(c)
  PROVE  TypeOK'
<1> USE DEF serverVars, clientVars, netVars
<1>a. c \in Node  BY Nodes
<1>1. ASSUME NEW i \in 1 .. Len(news[c]), ReadSync(c, i) PROVE TypeOK'
  <2>1. news[c][i] \in [next : GameState, round : Nat]
    <3> DEFINE News == [next : GameState, round : Nat]
    <3>1. news[c] \in Seq(News)  BY DEF TypeOK, NetTypes
    <3> HIDE DEF News
    <3>2. news[c][i] \in News  BY <3>1, <1>1
    <3> QED BY <3>2 DEF News
  <2>2. news[c][i].next \in GameState /\ news[c][i].round \in Nat
    BY <2>1
  <2>3. stateNext' \in [Node -> GameState]
    BY <1>1, <1>a, <2>2, Update DEF ReadSync, TypeOK, StateTypes
  <2>4. edition' \in [Client -> Nat]
    BY <1>1, <2>2, Update DEF ReadSync, TypeOK, ClientTypes
  <2>5. news' \in [Client -> Seq([next : GameState, round : Nat])]
    <3> DEFINE News == [next : GameState, round : Nat]
    <3>1. news \in [Client -> Seq(News)] /\ news[c] \in Seq(News)
      BY DEF TypeOK, NetTypes
    <3>2. news' = [news EXCEPT ![c] = SubSeq(news[c], i + 1, Len(news[c]))]
      BY <1>1 DEF ReadSync
    <3> HIDE DEF News
    <3>3. SubSeq(news[c], i + 1, Len(news[c])) \in Seq(News)
      BY <3>1, <1>1
    <3>4. news' \in [Client -> Seq(News)]  BY <3>1, <3>2, <3>3, Update
    <3> QED BY <3>4 DEF News
  <2>6. StateTypes'  BY <1>1, <2>3 DEF ReadSync, TypeOK, StateTypes
  <2>7. RecordTypes'  BY <1>1 DEF ReadSync, TypeOK, RecordTypes
  <2>8. MemberTypes'  BY <1>1 DEF ReadSync, TypeOK, MemberTypes
  <2>9. ClientTypes'  BY <1>1, <2>4 DEF ReadSync, TypeOK, ClientTypes
  <2>10. NetTypes'  BY <1>1, <2>5 DEF ReadSync, TypeOK, NetTypes
  <2> QED BY <2>6, <2>7, <2>8, <2>9, <2>10 DEF TypeOK
<1>2. CASE Advance(c)
  <2>1. expiries' \in Nat /\ inStep' \subseteq inStep
    BY <1>2, WaitType DEF Advance, AllSentOrExpires
  <2>2. Entered(state[c]) \in GameState
    BY <1>a, CircleType DEF TypeOK, StateTypes
  <2>3. state' \in [Node -> GameState]
    BY <1>2, <1>a, <2>2, Update DEF Advance, TypeOK, StateTypes
  <2>4. stateNext' \in [Node -> GameState]
    BY <1>2 DEF Advance, FollowsServer, TypeOK, StateTypes
  <2>5. told' \in [Client -> BOOLEAN]
    BY <1>2, Update DEF Advance, TypeOK, ClientTypes
  <2>6. grid' \in [Client -> Nat]
    BY <1>2, Update DEF Advance, TypeOK, ClientTypes
  <2>7. StateTypes'  BY <1>2, <2>3, <2>4 DEF Advance, TypeOK, StateTypes
  <2>8. RecordTypes'  BY <1>2, <2>1 DEF Advance, TypeOK, RecordTypes
  <2>9. MemberTypes'  BY <1>2, <2>1 DEF Advance, TypeOK, MemberTypes
  <2>10. ClientTypes'  BY <1>2, <2>5, <2>6 DEF Advance, TypeOK, ClientTypes
  <2>11. NetTypes'  BY <1>2 DEF Advance, TypeOK, NetTypes
  <2> QED BY <2>7, <2>8, <2>9, <2>10, <2>11 DEF TypeOK
<1>3. CASE Report(c)
  <2>1. expiries' \in Nat /\ inStep' \subseteq inStep
    BY <1>3, WaitType DEF Report, AllSentOrExpires
  <2>2. just_connected' \subseteq Client
    BY <1>3 DEF Report, TypeOK, MemberTypes
  <2>3. told' \in [Client -> BOOLEAN]
    BY <1>3, Update DEF Report, TypeOK, ClientTypes
  <2>4. [state |-> state[c], edition |-> edition[c]] \in [state : GameState, edition : Nat]
    BY <1>a DEF TypeOK, StateTypes, ClientTypes
  <2>5. reports' \in [Client -> SUBSET [state : GameState, edition : Nat]]
    BY <1>3, <2>4 DEF Report, TypeOK, NetTypes
  <2>6. StateTypes'  BY <1>3 DEF Report, TypeOK, StateTypes
  <2>7. RecordTypes'  BY <1>3, <2>1 DEF Report, TypeOK, RecordTypes
  <2>8. MemberTypes'  BY <1>3, <2>1, <2>2 DEF Report, TypeOK, MemberTypes
  <2>9. ClientTypes'  BY <1>3, <2>3 DEF Report, TypeOK, ClientTypes
  <2>10. NetTypes'  BY <1>3, <2>5 DEF Report, TypeOK, NetTypes
  <2> QED BY <2>6, <2>7, <2>8, <2>9, <2>10 DEF TypeOK
<1>4. CASE ReceiveSyncMsg(c)
  <2>1. syncing' \in [Client -> BOOLEAN]
    BY <1>4, Update DEF ReceiveSyncMsg, TypeOK, ClientTypes
  <2>2. syncMsgs[c] - 1 \in Nat
    BY <1>4 DEF ReceiveSyncMsg, TypeOK, NetTypes
  <2>3. syncMsgs' \in [Client -> Nat]
    BY <1>4, <2>2, Update DEF ReceiveSyncMsg, TypeOK, NetTypes
  <2>4. StateTypes'  BY <1>4 DEF ReceiveSyncMsg, TypeOK, StateTypes
  <2>5. RecordTypes'  BY <1>4 DEF ReceiveSyncMsg, TypeOK, RecordTypes
  <2>6. MemberTypes'  BY <1>4 DEF ReceiveSyncMsg, TypeOK, MemberTypes
  <2>7. ClientTypes'  BY <1>4, <2>1 DEF ReceiveSyncMsg, TypeOK, ClientTypes
  <2>8. NetTypes'  BY <1>4, <2>3 DEF ReceiveSyncMsg, TypeOK, NetTypes
  <2> QED BY <2>4, <2>5, <2>6, <2>7, <2>8 DEF TypeOK
<1>5. CASE AnswerSync(c)
  <2>1. expiries' \in Nat /\ inStep' \subseteq inStep
    BY <1>5, WaitType DEF AnswerSync, AllSentOrExpires
  <2>2. syncing' \in [Client -> BOOLEAN]
    BY <1>5, Update DEF AnswerSync, TypeOK, ClientTypes
  <2>3. syncAcks' \in [Client -> Nat]
    BY <1>5, Update DEF AnswerSync, TypeOK, NetTypes
  <2>4. StateTypes'  BY <1>5 DEF AnswerSync, TypeOK, StateTypes
  <2>5. RecordTypes'  BY <1>5, <2>1 DEF AnswerSync, TypeOK, RecordTypes
  <2>6. MemberTypes'  BY <1>5, <2>1 DEF AnswerSync, TypeOK, MemberTypes
  <2>7. ClientTypes'  BY <1>5, <2>2 DEF AnswerSync, TypeOK, ClientTypes
  <2>8. NetTypes'  BY <1>5, <2>3 DEF AnswerSync, TypeOK, NetTypes
  <2> QED BY <2>4, <2>5, <2>6, <2>7, <2>8 DEF TypeOK
<1>6. CASE Login(c)
  <2>1. state' \in [Node -> GameState] /\ stateNext' \in [Node -> GameState]
    BY <1>6, <1>a, CircleType, Update DEF Login, TypeOK, StateTypes
  <2>2. client_gamestate' \in [Client -> GameState]
    BY <1>6, CircleType, Update DEF Login, ForgetReport, TypeOK, RecordTypes
  <2>3. told' \in [Client -> BOOLEAN] /\ syncing' \in [Client -> BOOLEAN]
    BY <1>6, Update DEF Login, TypeOK, ClientTypes
  <2>4. edition' \in [Client -> Nat] /\ grid' \in [Client -> Nat]
    BY <1>6, Update DEF Login, TypeOK, ClientTypes
  <2>5. logins' \in [Client -> Nat]
    BY <1>6, Update DEF Login, TypeOK, ClientTypes
  <2>6. news' \in [Client -> Seq([next : GameState, round : Nat])]
    <3> DEFINE News == [next : GameState, round : Nat]
    <3> DEFINE first == [next |-> stateNext[Server], round |-> RoundOf(stateNext[Server])]
    <3>1. first \in News
      BY Nodes DEF TypeOK, StateTypes, RecordTypes, RoundOf
    <3>2. news \in [Client -> Seq(News)]  BY DEF TypeOK, NetTypes
    <3>3. news' = [news EXCEPT ![c] = <<first>>]
      BY <1>6 DEF Login
    <3> HIDE DEF News, first
    <3>4. <<first>> \in Seq(News)  BY <3>1
    <3>5. news' \in [Client -> Seq(News)]  BY <3>2, <3>3, <3>4, Update
    <3> QED BY <3>5 DEF News
  <2>7. StateTypes'  BY <1>6, <2>1 DEF Login, TypeOK, StateTypes
  <2>8. RecordTypes'  BY <1>6, <2>2 DEF Login, TypeOK, RecordTypes
  <2>9. MemberTypes'  BY <1>6 DEF Login, TypeOK, MemberTypes
  <2>10. ClientTypes'  BY <1>6, <2>3, <2>4, <2>5 DEF Login, TypeOK, ClientTypes
  <2>11. NetTypes'  BY <1>6, <2>6 DEF Login, TypeOK, NetTypes
  <2> QED BY <2>7, <2>8, <2>9, <2>10, <2>11 DEF TypeOK
<1>7. CASE Logout(c)
  <2>1. client_gamestate' \in [Client -> GameState]
    BY <1>7, CircleType, Update DEF Logout, ForgetReport, TypeOK, RecordTypes
  <2>2. transmitted' = transmitted \ {c}
    BY <1>7 DEF Logout, ClearKnows
  <2>3. syncMsgs' \in [Client -> Nat] /\ syncAcks' \in [Client -> Nat]
    BY <1>7, Update DEF Logout, TypeOK, NetTypes
  <2>4. reports' \in [Client -> SUBSET [state : GameState, edition : Nat]]
    BY <1>7 DEF Logout, TypeOK, NetTypes
  <2>5. news' \in [Client -> Seq([next : GameState, round : Nat])]
    <3>1. \A T : <<>> \in Seq(T)  OBVIOUS
    <3> QED BY <1>7, <3>1, Update DEF Logout, TypeOK, NetTypes
  <2>6. StateTypes'  BY <1>7 DEF Logout, TypeOK, StateTypes
  <2>7. RecordTypes'  BY <1>7, <2>1 DEF Logout, TypeOK, RecordTypes
  <2>8. MemberTypes'  BY <1>7, <2>2 DEF Logout, TypeOK, MemberTypes
  <2>9. ClientTypes'  BY <1>7 DEF Logout, TypeOK, ClientTypes
  <2>10. NetTypes'  BY <1>7, <2>3, <2>4, <2>5 DEF Logout, TypeOK, NetTypes
  <2> QED BY <2>6, <2>7, <2>8, <2>9, <2>10 DEF TypeOK
<1>8. CASE ChangeTeam(c)
  <2>1. inStep' \subseteq playing' /\ playing' \subseteq connected
    BY <1>8 DEF ChangeTeam, JoinTeam, LeaveTeam, TypeOK, MemberTypes
  <2>2. StateTypes'  BY <1>8 DEF ChangeTeam, TypeOK, StateTypes
  <2>3. RecordTypes'  BY <1>8 DEF ChangeTeam, TypeOK, RecordTypes
  <2>4. MemberTypes'  BY <1>8, <2>1 DEF ChangeTeam, TypeOK, MemberTypes
  <2>5. ClientTypes'  BY <1>8 DEF ChangeTeam, TypeOK, ClientTypes
  <2>6. NetTypes'  BY <1>8 DEF ChangeTeam, TypeOK, NetTypes
  <2> QED BY <2>2, <2>3, <2>4, <2>5, <2>6 DEF TypeOK
<1> QED BY <1>1, <1>2, <1>3, <1>4, <1>5, <1>6, <1>7, <1>8 DEF ClientStep

(* All variables of server, clients and messages keep their shape, for any *)
(* number of clients: TypeOK of gGame, sn_Sync and the login callbacks.    *)
THEOREM TypeCorrect == Spec => []TypeOK
<1>1. Init => TypeOK  BY TypeInit
<1>2. TypeOK /\ [Next]_vars => TypeOK'
  <2>1. TypeOK /\ Next => TypeOK'
    BY ServerTypeStep, ArrivalTypeStep, ClientTypeStep DEF Next
  <2>2. TypeOK /\ UNCHANGED vars => TypeOK'
    BY DEF TypeOK, StateTypes, RecordTypes, MemberTypes, ClientTypes, NetTypes, vars,
       serverVars, clientVars, netVars
  <2> QED BY <2>1, <2>2
<1> QED BY <1>1, <1>2, PTL DEF Spec

-----------------------------------------------------------------------------
(* No client with a grid goes ahead of the server: NeverAhead, for any     *)
(* number of clients and rounds, and with any waits that expire.           *)
(*                                                                         *)
(* The announcements a client has not read are in the order of the rounds, *)
(* none of them before the one it follows nor after the last one made; and *)
(* a client with a grid is not past the one it follows.                    *)

USE DEF GS_CREATED, GS_TRANSFER_SETTINGS, GS_CREATE_GRID, GS_CREATE_OBJECTS,
        GS_TRANSFER_OBJECTS, GS_CAMERA, GS_SYNCING, GS_PLAY, GS_DELETE_OBJECTS,
        GS_DELETE_GRID, GS_STATE_MAX

-----------------------------------------------------------------------------
(* The states and next states of the server: between two calls of          *)
(* SetState, and with the argument of the call in progress.                *)
Settled ==
  {<<0, 7>>, <<10, 35>>, <<20, 35>>, <<30, 35>>, <<35, 40>>, <<40, 50>>,
   <<50, 50>>, <<50, 60>>, <<60, 70>>, <<70, 7>>, <<7, 10>>}
Waiting ==
  {<<10, 7, 35>>, <<10, 10, 35>>, <<20, 35, 35>>, <<30, 35, 35>>, <<35, 35, 40>>,
   <<40, 40, 50>>, <<50, 50, 50>>, <<50, 50, 60>>, <<60, 60, 70>>, <<70, 70, 7>>,
   <<7, 7, 10>>}

PhaseInv ==
  IF wait \in {"run", "flush"}
  THEN <<state[Server], stateNext[Server]>> \in Settled
  ELSE <<state[Server], stateNext[Server], goal>> \in Waiting

(* RoundOf as a function of what it reads.                                 *)
RoundAt(s, r, n) == IF AbeforeB(s, n) /\ n < s THEN r + 1 ELSE r

(* A server in GS_PLAY for good does not go on.                            *)
LEMMA PlayIsNotBeforePlay == ~AbeforeB(50, 50)
BY DEF AbeforeB

(* Where SetState leads.                                                   *)
LEMMA EnterPhase ==
  ASSUME NEW s, NEW n, <<s, n>> \in Settled, <<s, n>> # <<50, 50>>
  PROVE  <<Entered(s), n, Goal(s)>> \in Waiting
<1>1. CASE s = 0  BY <1>1 DEF Settled, Waiting, Entered, Goal
<1>2. CASE s = 7  BY <1>2 DEF Settled, Waiting, Entered, Goal
<1>3. CASE s = 10  BY <1>3 DEF Settled, Waiting, Entered, Goal
<1>4. CASE s = 20  BY <1>4 DEF Settled, Waiting, Entered, Goal
<1>5. CASE s = 30  BY <1>5 DEF Settled, Waiting, Entered, Goal
<1>6. CASE s = 35  BY <1>6 DEF Settled, Waiting, Entered, Goal
<1>7. CASE s = 40  BY <1>7 DEF Settled, Waiting, Entered, Goal
<1>8. CASE s = 50  BY <1>8 DEF Settled, Waiting, Entered, Goal
<1>9. CASE s = 60  BY <1>9 DEF Settled, Waiting, Entered, Goal
<1>10. CASE s = 70  BY <1>10 DEF Settled, Waiting, Entered, Goal
<1> QED BY <1>1, <1>2, <1>3, <1>4, <1>5, <1>6, <1>7, <1>8, <1>9, <1>10 DEF Settled

(* The place announced does not change when the server enters a state ...  *)
LEMMA EnterPlace ==
  ASSUME NEW s, NEW n, NEW r \in Nat, <<s, n>> \in Settled, <<s, n>> # <<50, 50>>
  PROVE  LET r1 == IF Entered(s) = 7 THEN r + 1 ELSE r
         IN  Place(RoundAt(Entered(s), r1, n), n) = Place(RoundAt(s, r, n), n)
<1>1. CASE s = 0
  <2>1. n = 7 /\ Entered(s) = 10  BY <1>1 DEF Settled, Entered
  <2> QED BY <1>1, <2>1 DEF RoundAt, AbeforeB, Place
<1>2. CASE s = 7
  <2>1. n = 10 /\ Entered(s) = 10  BY <1>2 DEF Settled, Entered
  <2> QED BY <1>2, <2>1 DEF RoundAt, AbeforeB, Place
<1>3. CASE s = 70
  <2>1. n = 7 /\ Entered(s) = 7  BY <1>3 DEF Settled, Entered
  <2> QED BY <1>3, <2>1 DEF RoundAt, AbeforeB, Place
<1>4. CASE s \notin {0, 7, 70}
  <2>1. n \in Nat /\ s \in Nat /\ s < n  BY <1>4 DEF Settled
  <2>2. <<Entered(s), n, Goal(s)>> \in Waiting  BY EnterPhase
  <2>3. Entered(s) # 7
    BY <1>4, <2>1, <2>2 DEF Waiting, Settled
  <2>4. Entered(s) \in Nat /\ Entered(s) <= n
    BY <1>4, <2>1, <2>2 DEF Waiting, Settled
  <2> HIDE DEF Settled
  <2> QED BY <2>1, <2>3, <2>4 DEF RoundAt
<1> QED BY <1>1, <1>2, <1>3, <1>4

(* ... and goes on when it announces the next one.                         *)
LEMMA AnnouncePlace ==
  ASSUME NEW s, NEW n, NEW g, NEW r \in Nat, <<s, n, g>> \in Waiting
  PROVE  /\ <<s, g>> \in Settled
         /\ Place(RoundAt(s, r, n), n) <= Place(RoundAt(s, r, g), g)
<1>1. <<s, g>> \in Settled  BY DEF Waiting, Settled
<1>2. Place(RoundAt(s, r, n), n) <= Place(RoundAt(s, r, g), g)
  BY DEF Waiting, RoundAt, AbeforeB, Place
<1> QED BY <1>1, <1>2

(* A client that goes on does not pass the state it follows.               *)
LEMMA AdvancePlace ==
  ASSUME NEW s \in GameState, NEW n \in GameState, NEW g \in Nat, NEW e \in Nat,
         AbeforeB(s, n), s > 10 => Place(g, s) <= Place(e, n), Entered(s) > 10
  PROVE  Place(IF s = 10 THEN e ELSE g, Entered(s)) <= Place(e, n)
<1>1. CASE s = 10
  <2>1. Entered(s) = 20  BY <1>1 DEF Entered
  <2>2. n >= 20  BY <1>1 DEF AbeforeB, GameState
  <2> QED BY <1>1, <2>1, <2>2 DEF Place, GameState
<1>2. CASE s \in {20, 30, 35, 40, 50, 60}
  <2>1. s # n  BY <1>2 DEF AbeforeB
  <2>2. /\ s < Entered(s) /\ Entered(s) \in Nat /\ Entered(s) <= 70
        /\ \A m \in GameState : s < m => Entered(s) <= m
    <3>1. CASE s = 20  BY <3>1 DEF Entered, GameState
    <3>2. CASE s = 30  BY <3>2 DEF Entered, GameState
    <3>3. CASE s = 35  BY <3>3 DEF Entered, GameState
    <3>4. CASE s = 40  BY <3>4 DEF Entered, GameState
    <3>5. CASE s = 50  BY <3>5 DEF Entered, GameState
    <3>6. CASE s = 60  BY <3>6 DEF Entered, GameState
    <3> QED BY <1>2, <3>1, <3>2, <3>3, <3>4, <3>5, <3>6
  <2>3. n \in Nat /\ n <= 70 /\ s \in Nat /\ s >= 20 /\ s <= 70  BY <1>2 DEF GameState
  <2>4. Place(g, s) <= Place(e, n)  BY <2>3
  <2>5. CASE e > g  BY <1>2, <2>2, <2>3, <2>5 DEF Place
  <2>6. CASE e = g
    <3>1. s < n  BY <2>1, <2>3, <2>4, <2>6 DEF Place
    <3> QED BY <1>2, <2>2, <2>3, <2>6, <3>1 DEF Place
  <2>7. ~(e < g)  BY <2>3, <2>4 DEF Place
  <2> QED BY <2>5, <2>6, <2>7
<1>3. CASE s \in {0, 7, 70}
  <2>1. Entered(s) \in {7, 10}
    <3>1. CASE s = 0  BY <3>1 DEF Entered
    <3>2. CASE s = 7  BY <3>2 DEF Entered
    <3>3. CASE s = 70  BY <3>3 DEF Entered
    <3> QED BY <1>3, <3>1, <3>2, <3>3
  <2> QED BY <2>1
<1> QED BY <1>1, <1>2, <1>3 DEF GameState

-----------------------------------------------------------------------------
(* The invariant.                                                          *)

Target(c) == Place(edition[c], stateNext[c])
At(a) == Place(a.round, a.next)

NewsInv(c) ==
  /\ Target(c) <= Announced
  /\ \A i \in 1 .. Len(news[c]) : Target(c) <= At(news[c][i]) /\ At(news[c][i]) <= Announced
  /\ \A i, j \in 1 .. Len(news[c]) : i <= j => At(news[c][i]) <= At(news[c][j])

GridInv(c) == state[c] > 10 => Place(grid[c], state[c]) <= Target(c)

OrderInv == TypeOK /\ PhaseInv /\ \A c \in connected : NewsInv(c) /\ GridInv(c)

(* Announced reads the state of the server only.                           *)
LEMMA AnnouncedIs ==
  Announced = Place(RoundAt(state[Server], round, stateNext[Server]), stateNext[Server])
BY DEF Announced, RoundOf, RoundAt

(* What the server does to its place and to the news.                      *)
LEMMA ServerOrder ==
  ASSUME TypeOK, PhaseInv, ServerStep \/ EndRound
  PROVE  /\ PhaseInv' /\ Announced <= Announced'
         /\ connected' = connected /\ edition' = edition /\ grid' = grid
         /\ \A c \in Client : state'[c] = state[c] /\ stateNext'[c] = stateNext[c]
         /\ news' = news \/ (Announce(goal) /\ goal \in GameState
                             /\ Announced' = Place(RoundOf(goal), goal))
<1> DEFINE s == state[Server]
           n == stateNext[Server]
<1> USE DEF serverVars, clientVars, netVars
<1>a. s \in Nat /\ n \in Nat /\ round \in Nat
  BY Nodes DEF TypeOK, StateTypes, RecordTypes, GameState
<1>b. Announced \in Nat  BY <1>a DEF Announced, RoundOf, Place
<1>c. \A c \in Client : c # Server  BY NodeAssumption
<1>1. CASE Flush
  <2>1. state' = state /\ stateNext' = stateNext /\ round' = round /\ goal' = goal
        /\ wait = "run" /\ wait' = "flush" /\ news' = news
    BY <1>1 DEF Flush
  <2>2. PhaseInv'  BY <2>1 DEF PhaseInv
  <2>3. Announced' = Announced  BY <2>1 DEF Announced, RoundOf, AbeforeB, Place
  <2>4. connected' = connected /\ edition' = edition /\ grid' = grid  BY <1>1 DEF Flush
  <2> QED BY <1>b, <2>1, <2>2, <2>3, <2>4
<1>2. CASE SetState
  <2>1. <<s, n>> \in Settled /\ <<s, n>> # <<50, 50>>
    <3>1. wait \in {"run", "flush"}  BY <1>2 DEF SetState, MayEnter
    <3>2. <<s, n>> \in Settled  BY <3>1 DEF PhaseInv
    <3>3. s = 50 => AbeforeB(s, n)
      BY <1>2 DEF SetState, MayEnter
    <3> QED BY <3>2, <3>3, PlayIsNotBeforePlay
  <2>2. state' = [state EXCEPT ![Server] = Entered(s)] /\ stateNext' = stateNext
        /\ goal' = Goal(s) /\ wait' = "sync" /\ news' = news
        /\ round' = IF Entered(s) = 7 THEN round + 1 ELSE round
    BY <1>2 DEF SetState
  <2>3. state'[Server] = Entered(s) /\ stateNext'[Server] = n
    BY <2>2, Nodes DEF TypeOK, StateTypes
  <2>4. \A c \in Client : state'[c] = state[c]
    BY <1>c, <2>2, Nodes DEF TypeOK, StateTypes
  <2>5. <<Entered(s), n, Goal(s)>> \in Waiting  BY <2>1, EnterPhase
  <2>6. PhaseInv'  BY <2>2, <2>3, <2>5 DEF PhaseInv
  <2>7. Place(RoundAt(Entered(s), round', n), n) = Place(RoundAt(s, round, n), n)
    BY <1>a, <2>1, <2>2, EnterPlace
  <2>8. Announced' = Announced
    <3>1. Announced' = Place(RoundAt(Entered(s), round', n), n)
      BY <2>3 DEF Announced, RoundOf, RoundAt, AbeforeB, Place
    <3> QED BY <2>7, <3>1, AnnouncedIs
  <2>9. connected' = connected /\ edition' = edition /\ grid' = grid  BY <1>2 DEF SetState
  <2> HIDE DEF s, n
  <2> QED BY <1>b, <2>2, <2>4, <2>6, <2>8, <2>9
<1>3. CASE SyncAgain
  <2>1. state' = state /\ stateNext' = stateNext /\ round' = round /\ goal' = goal
        /\ wait \in {"sync", "again"} /\ wait' = "again" /\ news' = news
    BY <1>3 DEF SyncAgain
  <2>2. PhaseInv'  BY <2>1 DEF PhaseInv
  <2>3. Announced' = Announced  BY <2>1 DEF Announced, RoundOf, AbeforeB, Place
  <2>4. connected' = connected /\ edition' = edition /\ grid' = grid  BY <1>3 DEF SyncAgain
  <2> QED BY <1>b, <2>1, <2>2, <2>3, <2>4
<1>4. CASE SyncStateEnds
  <2>1. /\ wait \in {"sync", "again"} /\ wait' = "run" /\ state' = state /\ round' = round
        /\ stateNext' = [stateNext EXCEPT ![Server] = goal]
        /\ IF goal = n THEN UNCHANGED news ELSE Announce(goal)
    BY <1>4 DEF SyncStateEnds
  <2>2. stateNext'[Server] = goal  BY <2>1, Nodes DEF TypeOK, StateTypes
  <2>3. \A c \in Client : stateNext'[c] = stateNext[c]
    BY <1>c, <2>1, Nodes DEF TypeOK, StateTypes
  <2>4. <<s, n, goal>> \in Waiting  BY <2>1 DEF PhaseInv
  <2>5. <<s, goal>> \in Settled
        /\ Place(RoundAt(s, round, n), n) <= Place(RoundAt(s, round, goal), goal)
    BY <1>a, <2>4, AnnouncePlace
  <2>6. PhaseInv'  BY <2>1, <2>2, <2>5 DEF PhaseInv
  <2>7. Announced' = Place(RoundAt(s, round, goal), goal)
    BY <2>1, <2>2 DEF Announced, RoundOf, RoundAt, AbeforeB, Place
  <2>8. Announced <= Announced'  BY <2>5, <2>7, AnnouncedIs
  <2>9. Announced' = Place(RoundOf(goal), goal)  BY <2>7 DEF RoundOf, RoundAt
  <2>10. goal \in GameState  BY DEF TypeOK, StateTypes
  <2>11. connected' = connected /\ edition' = edition /\ grid' = grid
    BY <1>4 DEF SyncStateEnds
  <2> QED BY <2>1, <2>3, <2>6, <2>8, <2>9, <2>10, <2>11
<1>5. CASE EndRound
  <2>1. state' = state /\ stateNext' = stateNext /\ round' = round /\ goal' = 60
        /\ s = 50 /\ n = 50 /\ wait' = "sync" /\ news' = news
    BY <1>5 DEF EndRound
  <2>2. PhaseInv'  BY <2>1 DEF PhaseInv, Waiting
  <2>3. Announced' = Announced  BY <2>1 DEF Announced, RoundOf, AbeforeB, Place
  <2>4. connected' = connected /\ edition' = edition /\ grid' = grid  BY <1>5 DEF EndRound
  <2> QED BY <1>b, <2>1, <2>2, <2>3, <2>4
<1> QED BY <1>1, <1>2, <1>3, <1>4, <1>5 DEF ServerStep

(* Places are numbers.                                                     *)
LEMMA PlaceType ==
  ASSUME TypeOK
  PROVE  /\ Announced \in Nat
         /\ \A c \in Client : Target(c) \in Nat
         /\ \A c \in Client : \A i \in 1 .. Len(news[c]) :
               /\ news[c][i] \in [next : GameState, round : Nat]
               /\ At(news[c][i]) \in Nat
<1>a. GameState \subseteq Nat  BY DEF GameState
<1>1. Announced \in Nat
  <2>1. stateNext[Server] \in Nat /\ round \in Nat
    BY <1>a, Nodes DEF TypeOK, StateTypes, RecordTypes
  <2> QED BY <2>1 DEF Announced, RoundOf, Place
<1>2. ASSUME NEW c \in Client PROVE Target(c) \in Nat
  <2>1. stateNext[c] \in Nat /\ edition[c] \in Nat
    BY <1>a, Nodes DEF TypeOK, StateTypes, ClientTypes
  <2> QED BY <2>1 DEF Target, Place
<1>3. ASSUME NEW c \in Client, NEW i \in 1 .. Len(news[c])
      PROVE  /\ news[c][i] \in [next : GameState, round : Nat]
             /\ At(news[c][i]) \in Nat
  <2> DEFINE News == [next : GameState, round : Nat]
  <2>1. news[c] \in Seq(News)  BY DEF TypeOK, NetTypes
  <2> HIDE DEF News
  <2>2. news[c][i] \in News  BY <2>1
  <2>3. news[c][i].next \in Nat /\ news[c][i].round \in Nat  BY <1>a, <2>2 DEF News
  <2> QED BY <2>2, <2>3 DEF At, Place, News
<1> QED BY <1>1, <1>2, <1>3

(* The server keeps the order: it appends what it announces to the news.   *)
LEMMA ServerOrderStep ==
  ASSUME OrderInv, ServerStep \/ EndRound
  PROVE  OrderInv'
<1> DEFINE News == [next : GameState, round : Nat]
           a == [next |-> goal, round |-> RoundOf(goal)]
<1>1. TypeOK /\ PhaseInv /\ \A c \in connected : NewsInv(c) /\ GridInv(c)
  BY DEF OrderInv
<1>2. TypeOK' /\ PhaseInv'  BY <1>1, ServerTypeStep, ServerOrder
<1>3. /\ Announced <= Announced'
      /\ connected' = connected /\ edition' = edition /\ grid' = grid
      /\ \A c \in Client : state'[c] = state[c] /\ stateNext'[c] = stateNext[c]
      /\ news' = news \/ (Announce(goal) /\ goal \in GameState
                          /\ Announced' = Place(RoundOf(goal), goal))
  BY <1>1, ServerOrder
<1>4. Announced \in Nat /\ Announced' \in Nat
  <2>1. Announced \in Nat  BY <1>1, PlaceType
  <2>2. stateNext'[Server] \in GameState /\ round' \in Nat
    BY <1>2, Nodes DEF TypeOK, StateTypes, RecordTypes
  <2>3. stateNext'[Server] \in Nat  BY <2>2 DEF GameState
  <2>4. Announced' \in Nat  BY <2>2, <2>3 DEF Announced, RoundOf, Place
  <2> QED BY <2>1, <2>4
<1>5. connected \subseteq Client  BY <1>1 DEF TypeOK, MemberTypes
<1>6. ASSUME NEW c \in connected PROVE NewsInv(c)' /\ GridInv(c)'
  <2>1. Target(c)' = Target(c) /\ c \in Client
    BY <1>3, <1>5 DEF Target, Place
  <2>2. GridInv(c)'  BY <1>1, <1>3, <2>1 DEF GridInv, Place
  <2>3. Target(c) \in Nat /\ \A i \in 1 .. Len(news[c]) : At(news[c][i]) \in Nat
    BY <1>1, <2>1, PlaceType
  <2>4. NewsInv(c)  BY <1>1
  <2>5. CASE news' = news
    <3> HIDE <2>5
    <3>1. news'[c] = news[c]  BY <2>5
    <3>2. Target(c) <= Announced'  BY <1>3, <1>4, <2>3, <2>4 DEF NewsInv
    <3>3. \A i \in 1 .. Len(news[c]) :
            Target(c) <= At(news[c][i]) /\ At(news[c][i]) <= Announced'
      BY <1>3, <1>4, <2>3, <2>4 DEF NewsInv
    <3>4. \A i, j \in 1 .. Len(news[c]) : i <= j => At(news[c][i]) <= At(news[c][j])
      BY <2>4 DEF NewsInv
    <3>5. NewsInv(c)'
      BY <2>1, <3>1, <3>2, <3>3, <3>4 DEF NewsInv, At, Place
    <3> QED BY <2>2, <3>5
  <2>6. CASE Announce(goal) /\ goal \in GameState /\ Announced' = Place(RoundOf(goal), goal)
    <3>1. At(a) = Announced'  BY <2>6 DEF At
    <3>2. a \in News
      <4>1. round \in Nat  BY <1>1 DEF TypeOK, RecordTypes
      <4> QED BY <2>6, <4>1 DEF RoundOf
    <3>3. news[c] \in Seq(News)  BY <1>1, <2>1 DEF TypeOK, NetTypes
    <3>4. news'[c] = Append(news[c], a)  BY <2>1, <2>6 DEF Announce
    <3> HIDE DEF News, a
    <3>5. /\ Len(news[c]) \in Nat /\ Len(news'[c]) = Len(news[c]) + 1
          /\ \A i \in 1 .. Len(news[c]) : news'[c][i] = news[c][i]
          /\ news'[c][Len(news[c]) + 1] = a
      BY <3>2, <3>3, <3>4
    <3>6. \A i \in 1 .. Len(news'[c]) : i \in 1 .. Len(news[c]) \/ i = Len(news[c]) + 1
      BY <3>5
    <3>7. \A i \in 1 .. Len(news'[c]) :
            At(news'[c][i]) \in Nat /\ Target(c) <= At(news'[c][i])
            /\ At(news'[c][i]) <= Announced'
      <4> SUFFICES ASSUME NEW i \in 1 .. Len(news'[c])
                   PROVE  At(news'[c][i]) \in Nat /\ Target(c) <= At(news'[c][i])
                          /\ At(news'[c][i]) <= Announced'
        OBVIOUS
      <4>1. Target(c) <= Announced  BY <2>4 DEF NewsInv
      <4>2. CASE i \in 1 .. Len(news[c])
        <5>1. Target(c) <= At(news[c][i]) /\ At(news[c][i]) <= Announced
          BY <2>4, <4>2 DEF NewsInv
        <5>2. At(news'[c][i]) = At(news[c][i]) /\ At(news[c][i]) \in Nat
          BY <2>3, <3>5, <4>2
        <5> HIDE <4>2
        <5> QED BY <1>3, <1>4, <5>1, <5>2
      <4>3. CASE i = Len(news[c]) + 1
        <5>1. At(news'[c][i]) = Announced'  BY <3>1, <3>5, <4>3
        <5> QED BY <1>3, <1>4, <2>3, <4>1, <5>1
      <4> QED BY <3>6, <4>2, <4>3
    <3>8. \A i, j \in 1 .. Len(news'[c]) : i <= j => At(news'[c][i]) <= At(news'[c][j])
      <4> SUFFICES ASSUME NEW i \in 1 .. Len(news'[c]), NEW j \in 1 .. Len(news'[c]), i <= j
                   PROVE  At(news'[c][i]) <= At(news'[c][j])
        OBVIOUS
      <4>1. CASE j \in 1 .. Len(news[c])
        BY <2>4, <3>5, <3>6, <4>1 DEF NewsInv
      <4>2. CASE j = Len(news[c]) + 1
        BY <3>1, <3>5, <3>7, <4>2
      <4> QED BY <3>6, <4>1, <4>2
    <3>9. Target(c) <= Announced'  BY <1>3, <1>4, <2>3, <2>4 DEF NewsInv
    <3>10. \A x : At(x)' = At(x)  BY DEF At, Place
    <3> QED BY <2>1, <2>2, <3>7, <3>8, <3>9 DEF NewsInv, At, Place
  <2> QED BY <1>3, <2>2, <2>5, <2>6
<1> QED BY <1>2, <1>3, <1>6 DEF OrderInv

-----------------------------------------------------------------------------
(* Steps of one client leave the server and the other clients alone.       *)
Same(d) ==
  /\ state'[d] = state[d] /\ stateNext'[d] = stateNext[d]
  /\ edition'[d] = edition[d] /\ grid'[d] = grid[d] /\ news'[d] = news[d]

ServerStays ==
  /\ wait' = wait /\ goal' = goal /\ round' = round
  /\ state'[Server] = state[Server] /\ stateNext'[Server] = stateNext[Server]

(* The steps that change the place of a client, and the others.            *)
Moves(c) ==
  \/ \E i \in 1 .. Len(news[c]) : ReadSync(c, i)
  \/ Advance(c) \/ Login(c) \/ Logout(c)
Rests(c) ==
  Report(c) \/ ReceiveSyncMsg(c) \/ AnswerSync(c) \/ Arrival(c) \/ Transmit(c) \/ ChangeTeam(c)

LEMMA ClientAlone ==
  ASSUME TypeOK, NEW c \in Client, Moves(c) \/ Rests(c)
  PROVE  /\ ServerStays
         /\ \A d \in Client \ {c} : Same(d)
         /\ connected' \ {c} = connected \ {c}
         /\ Rests(c) => Same(c) /\ connected' = connected
<1> USE DEF serverVars, clientVars, netVars
<1>a. c # Server /\ c \in Node /\ Server \in Node /\ \A d \in Client : d \in Node
  BY NodeAssumption, Nodes
<1>b. /\ state \in [Node -> GameState] /\ stateNext \in [Node -> GameState]
  BY DEF TypeOK, StateTypes
<1>c. /\ DOMAIN edition = Client /\ DOMAIN grid = Client /\ DOMAIN news = Client
  BY DEF TypeOK, ClientTypes, NetTypes
<1>1. ASSUME Rests(c)
      PROVE  /\ UNCHANGED <<wait, goal, round, state, stateNext, edition, grid, news, connected>>
  <2>1. CASE Report(c)  BY <2>1 DEF Report
  <2>2. CASE ReceiveSyncMsg(c)  BY <2>2 DEF ReceiveSyncMsg
  <2>3. CASE AnswerSync(c)  BY <2>3 DEF AnswerSync
  <2>4. CASE ReceiveSyncAck(c)  BY <2>4 DEF ReceiveSyncAck
  <2>5. ASSUME NEW r \in reports[c], ReceiveReport(c, r)
        PROVE  UNCHANGED <<wait, goal, round, state, stateNext, edition, grid, news, connected>>
    BY <2>5 DEF ReceiveReport
  <2>6. CASE Transmit(c)  BY <2>6 DEF Transmit
  <2>7. CASE ChangeTeam(c)  BY <2>7 DEF ChangeTeam
  <2> QED BY <1>1, <2>1, <2>2, <2>3, <2>4, <2>5, <2>6, <2>7 DEF Rests, Arrival
<1>2. CASE Rests(c)
  BY <1>1, <1>2 DEF ServerStays, Same
<1>3. ASSUME NEW i \in 1 .. Len(news[c]), ReadSync(c, i)
      PROVE  /\ ServerStays /\ connected' = connected
             /\ \A d \in Client \ {c} : Same(d)
  <2>1. /\ wait' = wait /\ goal' = goal /\ round' = round /\ state' = state
        /\ grid' = grid /\ connected' = connected
    BY <1>3 DEF ReadSync
  <2>2. \A d \in Client \ {c} : news'[d] = news[d]
    BY <1>3, <1>c DEF ReadSync
  <2>3. stateNext'[Server] = stateNext[Server]
        /\ \A d \in Client \ {c} : stateNext'[d] = stateNext[d]
    BY <1>3, <1>a, <1>b DEF ReadSync
  <2>4. \A d \in Client \ {c} : edition'[d] = edition[d]
    BY <1>3, <1>c DEF ReadSync
  <2> QED BY <2>1, <2>2, <2>3, <2>4 DEF ServerStays, Same
<1>4. CASE Advance(c)
  <2>1. /\ wait' = wait /\ goal' = goal /\ round' = round /\ stateNext' = stateNext
        /\ edition' = edition /\ news' = news /\ connected' = connected
    BY <1>4 DEF Advance, FollowsServer
  <2>2. state'[Server] = state[Server]
        /\ \A d \in Client \ {c} : state'[d] = state[d]
    BY <1>4, <1>a, <1>b DEF Advance
  <2>3. \A d \in Client \ {c} : grid'[d] = grid[d]
    BY <1>4, <1>c DEF Advance
  <2> QED BY <1>1, <2>1, <2>2, <2>3 DEF ServerStays, Same
<1>5. CASE Login(c)
  <2>1. /\ wait' = wait /\ goal' = goal /\ round' = round
        /\ connected' = connected \cup {c}
    BY <1>5 DEF Login
  <2>2. state'[Server] = state[Server] /\ stateNext'[Server] = stateNext[Server]
        /\ \A d \in Client \ {c} : state'[d] = state[d] /\ stateNext'[d] = stateNext[d]
    BY <1>5, <1>a, <1>b DEF Login
  <2>3. \A d \in Client \ {c} :
          edition'[d] = edition[d] /\ grid'[d] = grid[d] /\ news'[d] = news[d]
    BY <1>5, <1>c DEF Login
  <2> QED BY <1>1, <2>1, <2>2, <2>3 DEF ServerStays, Same
<1>6. CASE Logout(c)
  <2>1. /\ wait' = wait /\ goal' = goal /\ round' = round /\ state' = state
        /\ stateNext' = stateNext /\ edition' = edition /\ grid' = grid
        /\ connected' = connected \ {c}
    BY <1>6 DEF Logout
  <2>2. \A d \in Client \ {c} : news'[d] = news[d]
    BY <1>6, <1>c DEF Logout
  <2> QED BY <1>1, <2>1, <2>2 DEF ServerStays, Same
<1>7. ASSUME Rests(c) PROVE Same(c) /\ connected' = connected
  BY <1>1, <1>7 DEF Same
<1> QED BY <1>2, <1>3, <1>4, <1>5, <1>6, <1>7 DEF Moves

(* Where the server stays, what is announced does; a client that stays the *)
(* same keeps its order.                                                   *)
LEMMA StaysInOrder ==
  ASSUME PhaseInv, ServerStays
  PROVE  /\ PhaseInv' /\ Announced' = Announced
         /\ \A d \in Client : Same(d) /\ NewsInv(d) => NewsInv(d)'
         /\ \A d \in Client : Same(d) /\ GridInv(d) => GridInv(d)'
<1>1. PhaseInv'  BY DEF PhaseInv, ServerStays
<1>2. Announced' = Announced
  BY DEF Announced, RoundOf, AbeforeB, Place, ServerStays
<1>3. ASSUME NEW d \in Client, Same(d) PROVE Target(d)' = Target(d)
  BY <1>3 DEF Same, Target, Place
<1>4. ASSUME NEW d \in Client, Same(d), NewsInv(d) PROVE NewsInv(d)'
  BY <1>2, <1>3, <1>4 DEF NewsInv, Same, At, Place
<1>5. ASSUME NEW d \in Client, Same(d), GridInv(d) PROVE GridInv(d)'
  BY <1>3, <1>5 DEF GridInv, Same, Place
<1> QED BY <1>1, <1>2, <1>4, <1>5

(* A client that moves keeps the order:                                    *)
(* what it reads is not before what it followed, and what is left to read  *)
(* is not before that.                                                     *)
LEMMA ReadSyncOrder ==
  ASSUME OrderInv, NEW c \in connected, NEW i \in 1 .. Len(news[c]), ReadSync(c, i),
         Announced' = Announced
  PROVE  NewsInv(c)' /\ GridInv(c)'
<1> USE DEF serverVars, clientVars, netVars
<1> DEFINE News == [next : GameState, round : Nat]
<1>1. TypeOK /\ NewsInv(c) /\ GridInv(c) /\ c \in Client
  BY DEF OrderInv, TypeOK, MemberTypes
<1>2. c \in Node /\ stateNext \in [Node -> GameState] /\ edition \in [Client -> Nat]
      /\ news \in [Client -> Seq(News)]
  BY <1>1, Nodes DEF TypeOK, StateTypes, ClientTypes, NetTypes
<1>3. Announced \in Nat /\ Target(c) \in Nat
      /\ \A k \in 1 .. Len(news[c]) : At(news[c][k]) \in Nat
  BY <1>1, PlaceType
<1>4. state' = state /\ grid' = grid /\ news'[c] = SubSeq(news[c], i + 1, Len(news[c]))
  BY <1>1, <1>2 DEF ReadSync
<1>5. Target(c)' = At(news[c][i]) \/ Target(c)' = Target(c)
  <2>1. CASE AbeforeB(stateNext[c], news[c][i].next)
    <3>1. stateNext'[c] = news[c][i].next /\ edition'[c] = news[c][i].round
      BY <1>1, <1>2, <2>1 DEF ReadSync
    <3> QED BY <3>1 DEF Target, At, Place
  <2>2. CASE ~AbeforeB(stateNext[c], news[c][i].next)
    <3>1. stateNext' = stateNext /\ edition' = edition  BY <2>2 DEF ReadSync
    <3> QED BY <3>1 DEF Target, Place
  <2> QED BY <2>1, <2>2
<1>6. /\ Target(c) <= At(news[c][i]) /\ At(news[c][i]) <= Announced
      /\ Target(c) <= Announced
  BY <1>1 DEF NewsInv
<1>7. Target(c)' \in Nat /\ Target(c) <= Target(c)' /\ Target(c)' <= At(news[c][i])
      /\ Target(c)' <= Announced'
  BY <1>3, <1>5, <1>6
<1>8. news[c] \in Seq(News)  BY <1>1, <1>2
<1> HIDE DEF News
<1>9. /\ Len(news[c]) \in Nat /\ Len(news'[c]) = Len(news[c]) - i
      /\ \A k \in 1 .. Len(news'[c]) :
            k + i \in 1 .. Len(news[c]) /\ news'[c][k] = news[c][k + i]
  BY <1>4, <1>8
<1>10. \A k \in 1 .. Len(news'[c]) :
         Target(c)' <= At(news'[c][k]) /\ At(news'[c][k]) <= Announced'
  <2> SUFFICES ASSUME NEW k \in 1 .. Len(news'[c])
               PROVE  Target(c)' <= At(news'[c][k]) /\ At(news'[c][k]) <= Announced'
    OBVIOUS
  <2>1. news'[c][k] = news[c][k + i] /\ k + i \in 1 .. Len(news[c]) /\ i <= k + i
    BY <1>9
  <2>2. At(news[c][i]) <= At(news[c][k + i]) /\ At(news[c][k + i]) <= Announced
    BY <1>1, <2>1 DEF NewsInv
  <2>3. At(news[c][i]) \in Nat /\ At(news[c][k + i]) \in Nat  BY <1>3, <2>1
  <2> QED BY <1>3, <1>7, <2>1, <2>2, <2>3
<1>11. \A k, m \in 1 .. Len(news'[c]) : k <= m => At(news'[c][k]) <= At(news'[c][m])
  <2> SUFFICES ASSUME NEW k \in 1 .. Len(news'[c]), NEW m \in 1 .. Len(news'[c]), k <= m
               PROVE  At(news'[c][k]) <= At(news'[c][m])
    OBVIOUS
  <2>1. /\ news'[c][k] = news[c][k + i] /\ k + i \in 1 .. Len(news[c])
        /\ news'[c][m] = news[c][m + i] /\ m + i \in 1 .. Len(news[c])
    BY <1>9
  <2>2. k + i <= m + i  BY <1>9
  <2>3. At(news[c][k + i]) <= At(news[c][m + i])
    BY <1>1, <2>1, <2>2 DEF NewsInv
  <2> QED BY <2>1, <2>3
<1>12. NewsInv(c)'
  BY <1>7, <1>10, <1>11 DEF NewsInv, At, Place
<1>13. GridInv(c)'
  <2>1. CASE state[c] > 10
    <3>1. Place(grid[c], state[c]) <= Target(c)  BY <1>1, <2>1 DEF GridInv
    <3>2. grid[c] \in Nat /\ state[c] \in GameState
      BY <1>1, Nodes DEF TypeOK, StateTypes, ClientTypes
    <3>a. state[c] \in Nat  BY <3>2 DEF GameState
    <3>3. Place(grid[c], state[c]) \in Nat
      <4> HIDE DEF GameState
      <4> QED BY <3>2, <3>a DEF Place
    <3>4. Place(grid[c], state[c]) <= Target(c)'  BY <1>3, <1>7, <3>1, <3>3
    <3> QED BY <1>4, <3>4 DEF GridInv, Place
  <2>2. CASE ~(state[c] > 10)  BY <1>4, <2>2 DEF GridInv
  <2> QED BY <2>1, <2>2
<1> QED BY <1>12, <1>13

(* It enters no state after what it follows.                               *)
LEMMA AdvanceOrder ==
  ASSUME OrderInv, NEW c \in connected, Advance(c), Announced' = Announced
  PROVE  NewsInv(c)' /\ GridInv(c)'
<1> USE DEF serverVars, clientVars, netVars
<1>1. TypeOK /\ NewsInv(c) /\ GridInv(c) /\ c \in Client
  BY DEF OrderInv, TypeOK, MemberTypes
<1>2. /\ c \in Node /\ state \in [Node -> GameState] /\ stateNext[c] \in GameState
      /\ edition[c] \in Nat /\ grid \in [Client -> Nat]
  BY <1>1, Nodes DEF TypeOK, StateTypes, ClientTypes
<1>3. stateNext' = stateNext /\ edition' = edition /\ news' = news
  BY DEF Advance, FollowsServer
<1>4. Target(c)' = Target(c)  BY <1>3 DEF Target, Place
<1>5. NewsInv(c)'  BY <1>1, <1>3, <1>4 DEF NewsInv, At, Place
<1>6. /\ state'[c] = Entered(state[c])
      /\ grid'[c] = IF state[c] = 10 THEN edition[c] ELSE grid[c]
      /\ AbeforeB(state[c], stateNext[c])
  BY <1>1, <1>2 DEF Advance
<1>7. GridInv(c)'
  <2>1. CASE Entered(state[c]) > 10
    <3>1. state[c] > 10 => Place(grid[c], state[c]) <= Place(edition[c], stateNext[c])
      BY <1>1 DEF GridInv, Target
    <3>2. grid[c] \in Nat /\ state[c] \in GameState  BY <1>1, <1>2
    <3>3. Place(IF state[c] = 10 THEN edition[c] ELSE grid[c], Entered(state[c]))
            <= Place(edition[c], stateNext[c])
      BY <1>2, <1>6, <2>1, <3>1, <3>2, AdvancePlace
    <3> QED BY <1>4, <1>6, <3>3 DEF GridInv, Target, Place
  <2>2. CASE ~(Entered(state[c]) > 10)  BY <1>6, <2>2 DEF GridInv
  <2> QED BY <2>1, <2>2
<1> QED BY <1>5, <1>7

(* It begins with nothing before it but the last announcement.             *)
LEMMA LoginOrder ==
  ASSUME OrderInv, NEW c \in Client, Login(c), Announced' = Announced
  PROVE  NewsInv(c)' /\ GridInv(c)'
<1> DEFINE first == [next |-> stateNext[Server], round |-> RoundOf(stateNext[Server])]
<1>1. TypeOK /\ PhaseInv  BY DEF OrderInv
<1>2. /\ state'[c] = 0 /\ stateNext'[c] = 7 /\ edition'[c] = 0 /\ news'[c] = <<first>>
  BY <1>1, Nodes DEF Login, TypeOK, StateTypes, ClientTypes, NetTypes
<1>3. Target(c)' = 7  BY <1>2 DEF Target, Place
<1>4. At(first) = Announced  BY DEF At, Announced
<1>5. Announced \in Nat /\ 7 <= Announced
  <2>1. Announced \in Nat  BY <1>1, PlaceType
  <2>2. stateNext[Server] \in Nat /\ 7 <= stateNext[Server]
    BY <1>1 DEF PhaseInv, Settled, Waiting
  <2>3. round \in Nat  BY <1>1 DEF TypeOK, RecordTypes
  <2>4. RoundOf(stateNext[Server]) \in Nat  BY <2>3 DEF RoundOf
  <2>5. 7 <= Announced  BY <2>2, <2>4 DEF Announced, Place
  <2> QED BY <2>1, <2>5
<1>6. Len(news'[c]) = 1 /\ \A i \in 1 .. Len(news'[c]) : news'[c][i] = first
  <2> HIDE DEF first
  <2> QED BY <1>2
<1> HIDE DEF first
<1>7. /\ Target(c)' <= Announced'
      /\ \A i \in 1 .. Len(news'[c]) :
            Target(c)' <= At(news'[c][i]) /\ At(news'[c][i]) <= Announced'
      /\ \A i, j \in 1 .. Len(news'[c]) : i <= j => At(news'[c][i]) <= At(news'[c][j])
  BY <1>3, <1>4, <1>5, <1>6
<1>8. NewsInv(c)'  BY <1>7 DEF NewsInv, At, Place
<1>9. GridInv(c)'  BY <1>2 DEF GridInv
<1> QED BY <1>8, <1>9

LEMMA ClientOrderStep ==
  ASSUME OrderInv, NEW c \in Client, Moves(c) \/ Rests(c)
  PROVE  OrderInv'
<1>1. TypeOK /\ PhaseInv /\ connected \subseteq Client
      /\ \A d \in connected : NewsInv(d) /\ GridInv(d)
  BY DEF OrderInv, TypeOK, MemberTypes
<1>2. TypeOK'
  BY <1>1, ArrivalTypeStep, ClientTypeStep DEF Moves, Rests, ClientStep
<1>3. /\ ServerStays
      /\ \A d \in Client \ {c} : Same(d)
      /\ connected' \ {c} = connected \ {c}
      /\ Rests(c) => Same(c) /\ connected' = connected
  BY <1>1, ClientAlone
<1>4. /\ PhaseInv' /\ Announced' = Announced
      /\ \A d \in Client : Same(d) /\ NewsInv(d) => NewsInv(d)'
      /\ \A d \in Client : Same(d) /\ GridInv(d) => GridInv(d)'
  BY <1>1, <1>3, StaysInOrder
<1>5. ASSUME NEW d \in connected', d # c PROVE NewsInv(d)' /\ GridInv(d)'
  <2>1. d \in connected /\ d \in Client \ {c}  BY <1>1, <1>3, <1>5
  <2> QED BY <1>1, <1>3, <1>4, <2>1
<1>6. ASSUME c \in connected' PROVE NewsInv(c)' /\ GridInv(c)'
  <2>1. CASE Rests(c)  BY <1>1, <1>3, <1>4, <1>6, <2>1
  <2>2. ASSUME NEW i \in 1 .. Len(news[c]), ReadSync(c, i) PROVE NewsInv(c)' /\ GridInv(c)'
    <3>1. connected' = connected
      BY <2>2 DEF ReadSync, serverVars, clientVars
    <3> QED BY <1>4, <1>6, <2>2, <3>1, ReadSyncOrder
  <2>3. CASE Advance(c)
    <3>1. connected' = connected  BY <2>3 DEF Advance
    <3> QED BY <1>4, <1>6, <2>3, <3>1, AdvanceOrder
  <2>4. CASE Login(c)  BY <1>4, <2>4, LoginOrder
  <2>5. CASE Logout(c)
    <3>1. c \notin connected'  BY <2>5 DEF Logout
    <3> QED BY <1>6, <3>1
  <2> QED BY <2>1, <2>2, <2>3, <2>4, <2>5 DEF Moves
<1>7. \A d \in connected' : NewsInv(d)' /\ GridInv(d)'
  BY <1>5, <1>6
<1> QED BY <1>2, <1>4, <1>7 DEF OrderInv

-----------------------------------------------------------------------------
(* The invariant holds at first, and says what it was made for.            *)
LEMMA OrderInit == Init => OrderInv
<1> SUFFICES ASSUME Init PROVE OrderInv  OBVIOUS
<1>1. TypeOK  BY TypeInit
<1>2. connected = {}  BY DEF Init
<1>3. state[Server] = 0 /\ stateNext[Server] = 7 /\ wait = "run"
  BY Nodes DEF Init
<1>4. PhaseInv  BY <1>3 DEF PhaseInv, Settled
<1> QED BY <1>1, <1>2, <1>4 DEF OrderInv

LEMMA OrderMeans == OrderInv => NeverAhead
<1> SUFFICES ASSUME OrderInv, NEW c \in connected, state[c] > 10
             PROVE  ClientPlace(c) <= Announced
  BY DEF NeverAhead
<1>1. TypeOK /\ NewsInv(c) /\ GridInv(c) /\ c \in Client
  BY DEF OrderInv, TypeOK, MemberTypes
<1>2. state[c] \in GameState /\ grid[c] \in Nat
  BY <1>1, Nodes DEF TypeOK, StateTypes, ClientTypes
<1>a. state[c] \in Nat  BY <1>2 DEF GameState
<1>3. Place(grid[c], state[c]) \in Nat  BY <1>2, <1>a DEF Place
<1>4. Target(c) \in Nat /\ Announced \in Nat  BY <1>1, PlaceType
<1>5. Place(grid[c], state[c]) <= Target(c) /\ Target(c) <= Announced
  BY <1>1 DEF GridInv, NewsInv
<1>6. ~(state[c] <= 10)  BY <1>2 DEF GameState
<1>7. ClientPlace(c) = Place(grid[c], state[c])  BY <1>6 DEF ClientPlace
<1> QED BY <1>3, <1>4, <1>5, <1>7

(* Every step keeps the order.                                             *)
LEMMA OrderInvStep == OrderInv /\ [Next]_vars => OrderInv'
<1>1. OrderInv /\ Next => OrderInv'
  BY ServerOrderStep, ClientOrderStep DEF Next, ClientStep, Moves, Rests
<1>2. OrderInv /\ UNCHANGED vars => OrderInv'
  <2> SUFFICES ASSUME OrderInv, UNCHANGED vars PROVE OrderInv'  OBVIOUS
  <2> USE DEF vars, serverVars, clientVars, netVars
  <2>1. TypeOK /\ PhaseInv /\ connected \subseteq Client
        /\ \A d \in connected : NewsInv(d) /\ GridInv(d)
    BY DEF OrderInv, TypeOK, MemberTypes
  <2>2. TypeOK'
    BY <2>1 DEF TypeOK, StateTypes, RecordTypes, MemberTypes, ClientTypes, NetTypes
  <2>3. ServerStays /\ connected' = connected /\ \A d \in Client : Same(d)
    BY DEF ServerStays, Same
  <2>4. PhaseInv' /\ \A d \in connected' : NewsInv(d)' /\ GridInv(d)'
    BY <2>1, <2>3, StaysInOrder
  <2> QED BY <2>2, <2>4 DEF OrderInv
<1> QED BY <1>1, <1>2

(* A client with a grid enters no state that the server has not announced, *)
(* for any number of clients, rounds, logins and waits that expire:        *)
(* gGame::ReadSync, SetState and StateUpdate.                              *)
THEOREM NeverAheadCorrect == Spec => []NeverAhead
BY OrderInit, OrderInvStep, OrderMeans, PTL DEF Spec

-----------------------------------------------------------------------------
(* Clients stay in step: StaysInStep and InStepOnlyIntoGrid, for any       *)
(* number of clients, rounds and messages in flight.                       *)
(*                                                                         *)
(* A report is a state of the circle.  It was sent at the last place of    *)
(* the client in that state, if it is younger than a turn of the circle.   *)

(* How far behind state s the last t is.                                   *)
Age(s, t) == IF t <= s THEN s - t ELSE 80 + s - t

(* Client c was in state t at place x or later.                            *)
Since(c, x, t) == Age(state[c], t) <= ClientPlace(c) - x

ReportsSince(c, x) == \A r \in reports[c] : Since(c, x, r.state)
KnownSince(c, x) == Since(c, x, client_gamestate[c])

(* The client is at x at least, and its reports are of y or later.         *)
Follows(c, x, y) ==
  /\ ClientPlace(c) >= x
  /\ ReportsSince(c, y)
  /\ reports[c] = {} => KnownSince(c, y)

(* All reports the client made before x have arrived; of them the server   *)
(* knows one of y or later.                                                *)
Flushed(c, x, y) == ReportsSince(c, x) /\ KnownSince(c, y)

(* An answer the client sent before this barrier counts once only: there   *)
(* is at most one, and the second barrier needs another.                   *)
MayOwe(c) == syncAcks[c] = 0 \/ ~sync_ack[c]
Owes(c) == syncAcks[c] = 0 /\ ~sync_ack[c]

(* No step of the server is longer than 17 places, none of its windows     *)
(* for reports begins less than 60 places before it.                       *)
InStepInv(c) ==
  /\ c \in asked /\ state[c] # 0 /\ ClientPlace(c) <= Target(c)
  /\ wait \in {"run", "flush"} => Follows(c, ServerPlace, ServerPlace - 40)
  /\ wait \in {"sync", "again"} => Follows(c, ServerPlace - 17, ServerPlace - 57)
  /\ wait = "sync" => Flushed(c, ServerPlace - 17, ServerPlace - 57) \/ MayOwe(c)
  /\ wait = "again" => Flushed(c, ServerPlace - 17, ServerPlace - 57) \/ Owes(c)

(* A client with a grid has only reports of the round of that grid on the  *)
(* way, or known to the server if it has none on the way.                  *)
RoundReports(c) ==
  c \in connected /\ state[c] >= 10 =>
    /\ \A r \in reports[c] : r.state \in 10 .. state[c]
    /\ (state[c] > 10 \/ told[c]) /\ reports[c] = {} => client_gamestate[c] \in 10 .. state[c]

TimelyInv == expiries = 0 => \A c \in Client : syncAcks[c] \in {0, 1} /\ RoundReports(c)

(* Nobody is told to go to the state in which a node begins.               *)
NamedNext(c) ==
  stateNext[c] # 0 /\ \A i \in 1 .. Len(news[c]) : news[c][i].next # 0

StepInv ==
  /\ OrderInv /\ TimelyInv /\ \A c \in connected : NamedNext(c)
  /\ inStep # {} => expiries = 0
  /\ \A c \in inStep : InStepInv(c)

-----------------------------------------------------------------------------
(* The circle.                                                             *)

(* States are numbers.                                                     *)
LEMMA StatesAre ==
  /\ GameState \subseteq Nat
  /\ \A s \in GameState : s >= 0 /\ s <= 70
BY DEF GameState

(* AbeforeB without the remainder.                                         *)
LEMMA BeforeIs ==
  ASSUME NEW a \in GameState, NEW b \in GameState
  PROVE  AbeforeB(a, b) <=> IF b <= a THEN a - b > 20 ELSE b - a < 60
<1>1. a \in Nat /\ b \in Nat /\ a <= 70 /\ b <= 70  BY StatesAre
<1> HIDE DEF GameState
<1>2. CASE b <= a
  <2>1. (80 + a - b) % 80 = a - b  BY <1>1, <1>2
  <2> QED BY <1>1, <1>2, <2>1 DEF AbeforeB
<1>3. CASE ~(b <= a)
  <2>1. (80 + a - b) % 80 = 80 + a - b  BY <1>1, <1>3
  <2> QED BY <1>1, <1>3, <2>1 DEF AbeforeB
<1> QED BY <1>2, <1>3

(* From a state to the next one.                                           *)
Stride(s) == IF s = 70 THEN 17 ELSE Entered(s) - s

(* Strides are short, and no state is left out.                            *)
LEMMA StrideIs ==
  ASSUME NEW s \in GameState
  PROVE  /\ Stride(s) \in 1 .. 17 /\ Entered(s) \in GameState /\ Entered(s) # 0
         /\ s = 70 => Entered(s) = 7
         /\ s # 70 => Entered(s) = s + Stride(s) /\ Entered(s) # 7
         /\ \A t \in GameState : s # 0 /\ s < t => Entered(s) <= t
<1>1. CASE s = 0  BY <1>1 DEF Stride, Entered, GameState
<1>2. CASE s = 7  BY <1>2 DEF Stride, Entered, GameState
<1>3. CASE s = 10  BY <1>3 DEF Stride, Entered, GameState
<1>4. CASE s = 20  BY <1>4 DEF Stride, Entered, GameState
<1>5. CASE s = 30  BY <1>5 DEF Stride, Entered, GameState
<1>6. CASE s = 35  BY <1>6 DEF Stride, Entered, GameState
<1>7. CASE s = 40  BY <1>7 DEF Stride, Entered, GameState
<1>8. CASE s = 50  BY <1>8 DEF Stride, Entered, GameState
<1>9. CASE s = 60  BY <1>9 DEF Stride, Entered, GameState
<1>10. CASE s = 70  BY <1>10 DEF Stride, Entered, GameState
<1> QED BY <1>1, <1>2, <1>3, <1>4, <1>5, <1>6, <1>7, <1>8, <1>9, <1>10 DEF GameState

(* What was said grows no older than the client goes.                      *)
LEMMA AgeStep ==
  ASSUME NEW s \in GameState, NEW t \in GameState
  PROVE  /\ Age(s, t) \in 0 .. 79
         /\ Age(s, s) = 0
         /\ Age(Entered(s), t) \in Int
         /\ Age(Entered(s), t) <= Age(s, t) + Stride(s)
<1>1. s \in Nat /\ t \in Nat /\ s <= 70 /\ t <= 70  BY StatesAre
<1>2. Entered(s) \in Nat /\ Entered(s) <= 70 /\ Stride(s) \in 1 .. 17
  BY StrideIs, StatesAre
<1>3. (s = 70 /\ Entered(s) = 7 /\ Stride(s) = 17) \/ Entered(s) = s + Stride(s)
  BY StrideIs DEF Stride
<1> HIDE DEF GameState
<1>4. Age(s, t) \in 0 .. 79 /\ Age(s, s) = 0  BY <1>1 DEF Age
<1>5. Age(Entered(s), t) \in Int  BY <1>1, <1>2 DEF Age
<1>6. Age(Entered(s), t) <= Age(s, t) + Stride(s)
  BY <1>1, <1>2, <1>3 DEF Age
<1> QED BY <1>4, <1>5, <1>6

(* A report that is taken for one of state s or later, and is not too old, *)
(* is one.                                                                 *)
LEMMA NotBehindIsThere ==
  ASSUME NEW k \in Int, NEW s \in GameState, NEW q \in Int, NEW z \in GameState,
         NEW t \in GameState, ~AbeforeB(t, z),
         Age(s, t) <= Place(k, s) - (Place(q, z) - 57)
  PROVE  Place(k, s) >= Place(q, z) /\ Age(s, t) <= Place(k, s) - Place(q, z)
<1>1. /\ s \in Nat /\ t \in Nat /\ z \in Nat
      /\ s <= 70 /\ t <= 70 /\ z <= 70
  BY StatesAre
<1>2. IF z <= t THEN t - z <= 20 ELSE z - t >= 60  BY <1>1, BeforeIs
<1> HIDE DEF GameState
<1>3. CASE t <= s
  <2>1. s - t <= 80 * k + s - (80 * q + z - 57)  BY <1>1, <1>3 DEF Age, Place
  <2>2. 80 * (k - q) >= z - t - 57  BY <1>1, <2>1
  <2>4. z - t <= 80 * (k - q)
    <3>1. CASE z <= t
      <4>1. k - q >= 0  BY <1>1, <1>2, <2>2, <3>1
      <4> QED BY <1>1, <1>2, <2>2, <3>1, <4>1
    <3>2. CASE ~(z <= t)
      <4>1. k - q >= 1  BY <1>1, <1>2, <2>2, <3>2
      <4> QED BY <1>1, <1>2, <2>2, <3>2, <4>1
    <3> QED BY <3>1, <3>2
  <2> QED BY <1>1, <1>3, <2>4 DEF Age, Place
<1>4. CASE ~(t <= s)
  <2>1. 80 + s - t <= 80 * k + s - (80 * q + z - 57)  BY <1>1, <1>4 DEF Age, Place
  <2>2. 80 * (k - q - 1) >= z - t - 57  BY <1>1, <2>1
  <2>4. z - t <= 80 * (k - q - 1)
    <3>1. CASE z <= t
      <4>1. k - q - 1 >= 0  BY <1>1, <1>2, <2>2, <3>1
      <4> QED BY <1>1, <1>2, <2>2, <3>1, <4>1
    <3>2. CASE ~(z <= t)
      <4>1. k - q - 1 >= 1  BY <1>1, <1>2, <2>2, <3>2
      <4> QED BY <1>1, <1>2, <2>2, <3>2, <4>1
    <3> QED BY <3>1, <3>2
  <2> QED BY <1>1, <1>4, <2>4 DEF Age, Place
<1> QED BY <1>3, <1>4

-----------------------------------------------------------------------------
(* Places.                                                                 *)

(* Places are numbers, and a client's is in the round of its grid or the   *)
(* one after it.                                                           *)
LEMMA PlacesAre ==
  ASSUME TypeOK
  PROVE  /\ ServerPlace \in Nat /\ state[Server] \in GameState /\ round \in Nat
         /\ \A c \in Client :
              /\ state[c] \in GameState /\ stateNext[c] \in GameState
              /\ client_gamestate[c] \in GameState
              /\ grid[c] \in Nat /\ edition[c] \in Nat
              /\ ClientPlace(c) \in Nat
              /\ ClientPlace(c) = Place(IF state[c] <= 10 THEN grid[c] + 1 ELSE grid[c], state[c])
              /\ \A r \in reports[c] : r.state \in GameState
<1>1. state[Server] \in GameState /\ round \in Nat
  BY Nodes DEF TypeOK, StateTypes, RecordTypes
<1>2. state[Server] \in Nat  BY <1>1, StatesAre
<1>3. ServerPlace \in Nat
  <2> HIDE DEF GameState
  <2> QED BY <1>1, <1>2 DEF ServerPlace, Place
<1>4. ASSUME NEW c \in Client
      PROVE  /\ state[c] \in GameState /\ stateNext[c] \in GameState
             /\ client_gamestate[c] \in GameState
             /\ grid[c] \in Nat /\ edition[c] \in Nat
             /\ \A r \in reports[c] : r.state \in GameState
  BY Nodes DEF TypeOK, StateTypes, RecordTypes, ClientTypes, NetTypes
<1>5. ASSUME NEW c \in Client
      PROVE  /\ ClientPlace(c) \in Nat
             /\ ClientPlace(c) = Place(IF state[c] <= 10 THEN grid[c] + 1 ELSE grid[c], state[c])
  <2>1. state[c] \in Nat /\ grid[c] \in Nat  BY <1>4, StatesAre
  <2> HIDE DEF GameState
  <2>2. ClientPlace(c) = Place(IF state[c] <= 10 THEN grid[c] + 1 ELSE grid[c], state[c])
    BY DEF ClientPlace
  <2> QED BY <2>1, <2>2 DEF Place
<1> QED BY <1>1, <1>3, <1>4, <1>5

(* The server announces states shortly before it enters them.              *)
LEMMA AnnouncedIsNear ==
  ASSUME TypeOK, PhaseInv
  PROVE  Announced <= ServerPlace + 25
<1> DEFINE s == state[Server]
           n == stateNext[Server]
<1>1. s \in GameState /\ round \in Nat /\ s \in Nat  BY PlacesAre, StatesAre
<1>2. n \in GameState /\ n \in Nat  BY Nodes, StatesAre DEF TypeOK, StateTypes
<1>3. \/ (s = 70 /\ n = 7) \/ (s = 10 /\ n = 7) \/ (s <= n /\ n <= s + 25)
  BY DEF PhaseInv, Settled, Waiting
<1>4. Announced = Place(RoundAt(s, round, n), n)  BY AnnouncedIs
<1>5. ServerPlace = Place(round, s)  BY DEF ServerPlace
<1>6. CASE s = 70 /\ n = 7
  <2>1. RoundAt(s, round, n) = round + 1  BY <1>6 DEF RoundAt, AbeforeB
  <2> QED BY <1>1, <1>4, <1>5, <1>6, <2>1 DEF Place
<1>7. CASE s <= n /\ n <= s + 25
  <2>1. RoundAt(s, round, n) = round  BY <1>1, <1>2, <1>7 DEF RoundAt
  <2> HIDE DEF s, n, GameState
  <2> QED BY <1>1, <1>2, <1>4, <1>5, <1>7, <2>1 DEF Place
<1>8. CASE s = 10 /\ n = 7
  <2>1. RoundAt(s, round, n) = round  BY <1>8 DEF RoundAt, AbeforeB
  <2> QED BY <1>1, <1>4, <1>5, <1>8, <2>1 DEF Place
<1> QED BY <1>3, <1>6, <1>7, <1>8

(* SetState takes the server one stride further.                           *)
LEMMA SetStatePlace ==
  ASSUME TypeOK, SetState
  PROVE  /\ ServerPlace' = ServerPlace + Stride(state[Server])
         /\ Stride(state[Server]) \in 1 .. 17
<1> DEFINE s == state[Server]
<1>1. s \in GameState /\ round \in Nat /\ s \in Nat  BY PlacesAre, StatesAre
<1>2. state'[Server] = Entered(s) /\ round' = IF Entered(s) = 7 THEN round + 1 ELSE round
  BY Nodes DEF SetState, TypeOK, StateTypes
<1>3. /\ Stride(s) \in 1 .. 17 /\ Entered(s) \in GameState
      /\ s = 70 => Entered(s) = 7
      /\ s # 70 => Entered(s) = s + Stride(s) /\ Entered(s) # 7
  BY <1>1, StrideIs
<1>4. s = 70 => Stride(s) = 17  BY DEF Stride
<1> HIDE DEF s, GameState
<1>5. CASE s = 70  BY <1>1, <1>2, <1>3, <1>4, <1>5 DEF ServerPlace, Place, s
<1>6. CASE s # 70  BY <1>1, <1>2, <1>3, <1>6 DEF ServerPlace, Place, s
<1> QED BY <1>3, <1>5, <1>6 DEF s

(* A client that follows in step takes one stride too, in the round it     *)
(* follows, and not past what it follows.                                  *)
LEMMA AdvanceInStep ==
  ASSUME TypeOK, PhaseInv, NEW c \in Client, Advance(c), state[c] # 0,
         stateNext[c] # 0, ClientPlace(c) <= Target(c), Target(c) <= Announced,
         ClientPlace(c) >= ServerPlace - 17
  PROVE  /\ state'[c] = Entered(state[c])
         /\ ClientPlace(c)' = ClientPlace(c) + Stride(state[c])
         /\ ClientPlace(c)' <= Target(c) /\ Target(c)' = Target(c)
<1> DEFINE s == state[c]
           n == stateNext[c]
           k == IF s <= 10 THEN grid[c] + 1 ELSE grid[c]
<1>1. /\ s \in GameState /\ n \in GameState /\ grid[c] \in Nat /\ edition[c] \in Nat
      /\ ClientPlace(c) = Place(k, s) /\ ClientPlace(c) \in Nat /\ ServerPlace \in Nat
  BY PlacesAre
<1>2. s \in Nat /\ n \in Nat /\ s <= 70 /\ n <= 70  BY <1>1, StatesAre
<1>3. /\ state'[c] = Entered(s) /\ AbeforeB(s, n)
      /\ grid'[c] = IF s = 10 THEN edition[c] ELSE grid[c]
      /\ stateNext' = stateNext /\ edition' = edition
  BY Nodes DEF Advance, FollowsServer, TypeOK, StateTypes, ClientTypes
<1>4. Target(c)' = Target(c)  BY <1>3 DEF Target, Place
<1>5. /\ Stride(s) \in 1 .. 17 /\ Entered(s) \in GameState
      /\ s = 70 => Entered(s) = 7
      /\ s # 70 => Entered(s) = s + Stride(s) /\ Entered(s) # 7
      /\ s < n => Entered(s) <= n
  BY <1>1, StrideIs
<1>6. s = 70 => Stride(s) = 17  BY DEF Stride
<1>7. IF n <= s THEN s - n > 20 ELSE n - s < 60  BY <1>1, <1>3, BeforeIs
<1>8. s = 10 => Entered(s) = 20  BY DEF Entered
<1>9. s # 70 /\ s # 7 => s >= 10 /\ (s > 10 => Entered(s) > 10)
  BY <1>1 DEF GameState, Entered
<1>10. s = 7 => Entered(s) = 10  BY DEF Entered
<1>11. Target(c) = Place(edition[c], n)  BY DEF Target
<1>12. Target(c) <= Place(k, s) + 42
  <2>1. Announced <= ServerPlace + 25  BY AnnouncedIsNear
  <2>2. Announced \in Nat /\ Target(c) \in Nat  BY PlaceType
  <2> QED BY <1>1, <2>1, <2>2
<1>13. k \in Nat  BY <1>1
<1>a. Entered(s) \in Nat /\ Entered(s) <= 70  BY <1>5, StatesAre
<1>b. n >= 7  BY <1>1 DEF GameState
<1> HIDE DEF GameState, s, n, k
<1>14. 80 * k + s <= 80 * edition[c] + n /\ 80 * edition[c] + n <= 80 * k + s + 42
  BY <1>1, <1>11, <1>12 DEF Place
<1>15. IF n <= s THEN edition[c] = k + 1 ELSE edition[c] = k
  <2>1. CASE n <= s
    <3>1. 80 * (edition[c] - k) > 20 /\ 80 * (edition[c] - k) <= 112
      BY <1>1, <1>2, <1>7, <1>13, <1>14, <2>1
    <3> QED BY <1>1, <1>13, <2>1, <3>1
  <2>2. CASE ~(n <= s)
    <3>1. 80 * (edition[c] - k) > -60 /\ 80 * (edition[c] - k) <= 42
      BY <1>1, <1>2, <1>7, <1>13, <1>14, <2>2
    <3> QED BY <1>1, <1>13, <2>2, <3>1
  <2> QED BY <2>1, <2>2
<1>16. ~(n <= s) => Place(k, s) + Stride(s) <= Place(edition[c], n)
  <2> SUFFICES ASSUME ~(n <= s) PROVE Place(k, s) + Stride(s) <= Place(edition[c], n)
    OBVIOUS
  <2>1. s # 70 /\ Entered(s) = s + Stride(s) /\ Entered(s) <= n  BY <1>2, <1>5
  <2> QED BY <1>2, <1>5, <1>13, <1>15, <2>1 DEF Place
<1>17. n <= s => Place(k, s) + Stride(s) <= Place(edition[c], n)
  <2> SUFFICES ASSUME n <= s PROVE Place(k, s) + Stride(s) <= Place(edition[c], n)
    OBVIOUS
  <2>1. edition[c] = k + 1 /\ 80 + n <= s + 42  BY <1>1, <1>2, <1>13, <1>14, <1>15
  <2>2. CASE s = 70
    BY <1>2, <1>6, <1>b, <1>13, <2>1, <2>2 DEF Place
  <2>3. CASE s # 70
    <3>1. s + Stride(s) <= 70  BY <1>5, <1>a, <2>3
    <3> QED BY <1>2, <1>5, <1>13, <2>1, <2>3, <3>1 DEF Place
  <2> QED BY <2>2, <2>3
<1>18. Place(k, s) + Stride(s) <= Target(c)  BY <1>11, <1>16, <1>17
<1>19. ClientPlace(c)' = Place(k, s) + Stride(s)
  <2>1. ClientPlace(c)' = Place(IF Entered(s) <= 10 THEN grid'[c] + 1 ELSE grid'[c], Entered(s))
    BY <1>3 DEF ClientPlace, Place
  <2>2. CASE s = 70
    BY <1>1, <1>3, <1>5, <1>6, <2>1, <2>2 DEF Place, k
  <2>3. CASE s = 10
    <3>1. edition[c] = grid[c] + 1 /\ k = grid[c] + 1
      BY <1>b, <1>2, <1>7, <1>15, <2>3 DEF k
    <3> QED BY <1>1, <1>3, <1>5, <1>8, <2>1, <2>3, <3>1 DEF Place
  <2>4. CASE s = 7
    BY <1>1, <1>3, <1>5, <1>10, <2>1, <2>4 DEF Place, k
  <2>5. CASE s \notin {7, 10, 70}
    <3>1. s > 10 /\ Entered(s) > 10  BY <1>2, <1>9, <2>5
    <3> QED BY <1>1, <1>2, <1>3, <1>5, <1>a, <2>1, <2>5, <3>1 DEF Place, k
  <2> QED BY <2>2, <2>3, <2>4, <2>5
<1> QED BY <1>1, <1>3, <1>4, <1>18, <1>19 DEF s

-----------------------------------------------------------------------------
(* What a client's steps do to what is known of it.                        *)

SameReports(c) ==
  /\ reports'[c] = reports[c] /\ client_gamestate'[c] = client_gamestate[c]
  /\ syncAcks'[c] = syncAcks[c] /\ sync_ack'[c] = sync_ack[c] /\ told'[c] = told[c]

(* The client goes on to follow, and its debt is not forgotten.            *)
KeepsFollowing(c) ==
  \A x, y \in Int : y <= x /\ Follows(c, x, y) =>
    /\ Follows(c, x, y)'
    /\ Flushed(c, x, y) => Flushed(c, x, y)'
    /\ MayOwe(c) => Flushed(c, x, y)' \/ MayOwe(c)'
    /\ Owes(c) => Flushed(c, x, y)' \/ Owes(c)'

(* As long as the server stays where it is, that keeps it in step.         *)
LEMMA KeptInStep ==
  ASSUME TypeOK, NEW c \in Client, InStepInv(c), ServerStays, c \in asked',
         KeepsFollowing(c), state'[c] # 0, ClientPlace(c)' <= Target(c)'
  PROVE  InStepInv(c)'
<1>1. PICK q \in Int : q = ServerPlace  BY PlacesAre
<1>2. ServerPlace' = q /\ wait' = wait
  BY <1>1 DEF ServerStays, ServerPlace, Place
<1>3. /\ q - 17 \in Int /\ q - 57 \in Int /\ q - 40 \in Int
      /\ q - 57 <= q - 17 /\ q - 40 <= q
  OBVIOUS
<1>4. /\ wait \in {"run", "flush"} => Follows(c, q, q - 40)
      /\ wait \in {"sync", "again"} => Follows(c, q - 17, q - 57)
      /\ wait = "sync" => Flushed(c, q - 17, q - 57) \/ MayOwe(c)
      /\ wait = "again" => Flushed(c, q - 17, q - 57) \/ Owes(c)
  BY <1>1 DEF InStepInv
<1>5. /\ wait \in {"run", "flush"} => Follows(c, q, q - 40)'
      /\ wait \in {"sync", "again"} => Follows(c, q - 17, q - 57)'
      /\ wait = "sync" => Flushed(c, q - 17, q - 57)' \/ MayOwe(c)'
      /\ wait = "again" => Flushed(c, q - 17, q - 57)' \/ Owes(c)'
  BY <1>3, <1>4 DEF KeepsFollowing
<1> QED
  BY <1>2, <1>5 DEF InStepInv, Follows, Flushed, ReportsSince, KnownSince, Since, MayOwe, Owes

(* A client of which nothing changes but what it follows.                  *)
LEMMA SameFollows ==
  ASSUME NEW c \in Client, SameReports(c), state'[c] = state[c], grid'[c] = grid[c]
  PROVE  KeepsFollowing(c) /\ ClientPlace(c)' = ClientPlace(c)
<1>1. ClientPlace(c)' = ClientPlace(c)  BY DEF ClientPlace, Place
<1>2. ASSUME NEW x, NEW y
      PROVE  Follows(c, x, y)' = Follows(c, x, y) /\ Flushed(c, x, y)' = Flushed(c, x, y)
  BY <1>1 DEF SameReports, Follows, Flushed, ReportsSince, KnownSince, Since
<1>3. MayOwe(c)' = MayOwe(c) /\ Owes(c)' = Owes(c)
  BY DEF SameReports, MayOwe, Owes
<1> QED BY <1>1, <1>2, <1>3 DEF KeepsFollowing

(* A client that goes on: its reports are no older than it goes.           *)
LEMMA AdvanceFollows ==
  ASSUME TypeOK, NEW c \in Client, state'[c] = Entered(state[c]),
         reports'[c] = reports[c], client_gamestate'[c] = client_gamestate[c],
         syncAcks'[c] = syncAcks[c], sync_ack'[c] = sync_ack[c],
         ClientPlace(c)' = ClientPlace(c) + Stride(state[c])
  PROVE  KeepsFollowing(c)
<1>1. ClientPlace(c) \in Int /\ Stride(state[c]) \in 1 .. 17 /\ state[c] \in GameState
  BY PlacesAre, StrideIs
<1>2. ASSUME NEW x \in Int, NEW t \in GameState, Since(c, x, t) PROVE Since(c, x, t)'
  <2>1. /\ Age(state[c], t) \in 0 .. 79 /\ Age(Entered(state[c]), t) \in Int
        /\ Age(Entered(state[c]), t) <= Age(state[c], t) + Stride(state[c])
    BY <1>1, AgeStep
  <2>2. Age(state[c], t) <= ClientPlace(c) - x  BY <1>2 DEF Since
  <2>3. Age(Entered(state[c]), t) <= ClientPlace(c)' - x  BY <1>1, <2>1, <2>2
  <2> QED BY <2>3 DEF Since, Age
<1>3. client_gamestate[c] \in GameState /\ \A r \in reports[c] : r.state \in GameState
  BY PlacesAre
<1>4. ASSUME NEW x \in Int
      PROVE  /\ ReportsSince(c, x) => ReportsSince(c, x)'
             /\ KnownSince(c, x) => KnownSince(c, x)'
  <2>1. KnownSince(c, x) => Since(c, x, client_gamestate[c])'
    <3>1. PICK t \in GameState : t = client_gamestate[c]  BY <1>3
    <3>2. Since(c, x, t) => Since(c, x, t)'  BY <1>2
    <3> QED BY <3>1, <3>2 DEF KnownSince, Since
  <2>2. ReportsSince(c, x) => ReportsSince(c, x)'
    <3> SUFFICES ASSUME ReportsSince(c, x), NEW r \in reports'[c]
                 PROVE  Since(c, x, r.state)'
      BY DEF ReportsSince
    <3>1. r \in reports[c]  OBVIOUS
    <3>2. r.state \in GameState /\ Since(c, x, r.state)  BY <1>3, <3>1 DEF ReportsSince
    <3> QED BY <1>2, <3>2
  <2> QED BY <2>1, <2>2 DEF KnownSince
<1>5. MayOwe(c)' = MayOwe(c) /\ Owes(c)' = Owes(c)
  BY DEF MayOwe, Owes
<1>6. ASSUME NEW x \in Int, NEW y \in Int, Follows(c, x, y)
      PROVE  Follows(c, x, y)'
  <2>1. ClientPlace(c)' >= x  BY <1>1, <1>6 DEF Follows
  <2>2. ReportsSince(c, y)'  BY <1>4, <1>6 DEF Follows
  <2>3. (reports[c] = {} => KnownSince(c, y))'  BY <1>4, <1>6 DEF Follows
  <2> QED BY <2>1, <2>2, <2>3 DEF Follows
<1>7. ASSUME NEW x \in Int, NEW y \in Int, Flushed(c, x, y)
      PROVE  Flushed(c, x, y)'
  BY <1>4, <1>7 DEF Flushed
<1> QED BY <1>5, <1>6, <1>7 DEF KeepsFollowing

(* A report is of the place where it is sent.                              *)
LEMMA ReportFollows ==
  ASSUME TypeOK, NEW c \in Client, NEW e,
         state'[c] = state[c], grid'[c] = grid[c],
         syncAcks'[c] = syncAcks[c], sync_ack'[c] = sync_ack[c],
         client_gamestate'[c] = client_gamestate[c],
         reports'[c] = reports[c] \cup {[state |-> state[c], edition |-> e]}
  PROVE  KeepsFollowing(c) /\ ClientPlace(c)' = ClientPlace(c)
<1>1. ClientPlace(c)' = ClientPlace(c)  BY DEF ClientPlace, Place
<1>2. ClientPlace(c) \in Int /\ Age(state[c], state[c]) = 0
  BY PlacesAre, AgeStep
<1>3. ASSUME NEW x, NEW t PROVE Since(c, x, t)' = Since(c, x, t)
  BY <1>1 DEF Since
<1>4. ASSUME NEW x \in Int, ClientPlace(c) >= x, ReportsSince(c, x)
      PROVE  ReportsSince(c, x)'
  <2>1. Since(c, x, state[c])  BY <1>2, <1>4 DEF Since
  <2> QED BY <1>3, <1>4, <2>1 DEF ReportsSince
<1>5. ASSUME NEW x PROVE KnownSince(c, x)' = KnownSince(c, x)
  BY <1>1 DEF KnownSince, Since
<1>6. MayOwe(c)' = MayOwe(c) /\ Owes(c)' = Owes(c)
  BY DEF MayOwe, Owes
<1>7. ASSUME NEW x \in Int, NEW y \in Int, y <= x, Follows(c, x, y)
      PROVE  Follows(c, x, y)' /\ (Flushed(c, x, y) => Flushed(c, x, y)')
  <2>1. ClientPlace(c) >= x /\ ClientPlace(c) >= y /\ ReportsSince(c, y)
    BY <1>2, <1>7 DEF Follows
  <2>2. reports'[c] # {}  OBVIOUS
  <2>3. ReportsSince(c, y)'  BY <1>4, <2>1
  <2>4. Follows(c, x, y)'  BY <1>1, <2>1, <2>2, <2>3 DEF Follows
  <2>5. Flushed(c, x, y) => Flushed(c, x, y)'
    BY <1>4, <1>5, <2>1 DEF Flushed
  <2> QED BY <2>4, <2>5
<1> QED BY <1>1, <1>6, <1>7 DEF KeepsFollowing

(* One that arrives was on the way.                                        *)
LEMMA ArrivalFollows ==
  ASSUME NEW c \in Client, NEW r \in reports[c],
         state'[c] = state[c], grid'[c] = grid[c],
         syncAcks'[c] = syncAcks[c], sync_ack'[c] = sync_ack[c],
         client_gamestate'[c] = r.state, reports'[c] = reports[c] \ {r}
  PROVE  KeepsFollowing(c) /\ ClientPlace(c)' = ClientPlace(c)
<1>1. ClientPlace(c)' = ClientPlace(c)  BY DEF ClientPlace, Place
<1>3. ASSUME NEW x, NEW t PROVE Since(c, x, t)' = Since(c, x, t)
  BY <1>1 DEF Since
<1>4. ASSUME NEW x, ReportsSince(c, x)
      PROVE  ReportsSince(c, x)' /\ KnownSince(c, x)'
  <2>1. ReportsSince(c, x)'  BY <1>3, <1>4 DEF ReportsSince
  <2>2. Since(c, x, r.state)  BY <1>4 DEF ReportsSince
  <2>3. KnownSince(c, x)'  BY <1>1, <2>2 DEF KnownSince, Since
  <2> QED BY <2>1, <2>3
<1>6. MayOwe(c)' = MayOwe(c) /\ Owes(c)' = Owes(c)
  BY DEF MayOwe, Owes
<1>7. ASSUME NEW x \in Int, NEW y \in Int, y <= x, Follows(c, x, y)
      PROVE  Follows(c, x, y)' /\ (Flushed(c, x, y) => Flushed(c, x, y)')
  BY <1>1, <1>4, <1>7 DEF Follows, Flushed
<1> QED BY <1>1, <1>6, <1>7 DEF KeepsFollowing

(* An answer is sent when no report is on the way any more ...             *)
LEMMA AnswerFollows ==
  ASSUME NEW c \in Client, reports[c] = {},
         state'[c] = state[c], grid'[c] = grid[c],
         client_gamestate'[c] = client_gamestate[c], reports'[c] = reports[c]
  PROVE  KeepsFollowing(c) /\ ClientPlace(c)' = ClientPlace(c)
<1>1. ClientPlace(c)' = ClientPlace(c)  BY DEF ClientPlace, Place
<1>2. ASSUME NEW x PROVE ReportsSince(c, x)' /\ KnownSince(c, x)' = KnownSince(c, x)
  BY <1>1 DEF ReportsSince, KnownSince, Since
<1>3. ASSUME NEW x \in Int, NEW y \in Int, Follows(c, x, y)
      PROVE  Follows(c, x, y)' /\ Flushed(c, x, y)'
  BY <1>1, <1>2, <1>3 DEF Follows, Flushed
<1> QED BY <1>1, <1>3 DEF KeepsFollowing

(* ... and counts once.                                                    *)
LEMMA AckFollows ==
  ASSUME NEW c \in Client, syncAcks[c] = 1, syncAcks'[c] = 0,
         state'[c] = state[c], grid'[c] = grid[c],
         client_gamestate'[c] = client_gamestate[c], reports'[c] = reports[c]
  PROVE  KeepsFollowing(c) /\ ClientPlace(c)' = ClientPlace(c)
<1>1. ClientPlace(c)' = ClientPlace(c)  BY DEF ClientPlace, Place
<1>2. ASSUME NEW x, NEW y
      PROVE  Follows(c, x, y)' = Follows(c, x, y) /\ Flushed(c, x, y)' = Flushed(c, x, y)
  BY <1>1 DEF Follows, Flushed, ReportsSince, KnownSince, Since
<1>3. MayOwe(c)' /\ ~Owes(c)
  BY DEF MayOwe, Owes
<1> QED BY <1>1, <1>2, <1>3 DEF KeepsFollowing

(* What a client follows is no earlier after it has read what comes next.  *)
LEMMA ReadTarget ==
  ASSUME TypeOK, NEW c \in Client, NewsInv(c),
         NEW i \in 1 .. Len(news[c]), ReadSync(c, i)
  PROVE  Target(c) <= Target(c)' /\ Target(c)' \in Nat
<1> DEFINE a == news[c][i]
<1>1. /\ stateNext \in [Node -> GameState] /\ edition \in [Client -> Nat]
      /\ c \in Node
  BY Nodes DEF TypeOK, StateTypes, ClientTypes
<1>2. Target(c) \in Nat /\ At(a) \in Nat  BY PlaceType
<1>3. Target(c) <= At(a)  BY DEF NewsInv
<1>4. CASE AbeforeB(stateNext[c], a.next)
  <2>1. stateNext'[c] = a.next /\ edition'[c] = a.round  BY <1>1, <1>4 DEF ReadSync
  <2>2. Target(c)' = At(a)  BY <2>1 DEF Target, At, Place
  <2> HIDE DEF a
  <2> QED BY <1>2, <1>3, <2>2
<1>5. CASE ~AbeforeB(stateNext[c], a.next)
  <2>1. stateNext' = stateNext /\ edition' = edition  BY <1>5 DEF ReadSync
  <2>2. Target(c)' = Target(c)  BY <2>1 DEF Target, Place
  <2> QED BY <1>2, <2>2
<1> QED BY <1>4, <1>5

-----------------------------------------------------------------------------
(* What the steps of one client leave alone here.                          *)
LEMMA ClientReportsAlone ==
  ASSUME TypeOK, NEW c \in Client, Moves(c) \/ Rests(c)
  PROVE  /\ asked' = asked /\ inStep' \subseteq inStep
         /\ \A d \in Client \ {c} : SameReports(d)
         /\ expiries' = expiries \/ (expiries' = expiries + 1 /\ inStep' = {})
<1> USE DEF serverVars, clientVars, netVars
<1>a. /\ DOMAIN reports = Client /\ DOMAIN client_gamestate = Client
      /\ DOMAIN syncAcks = Client /\ DOMAIN sync_ack = Client /\ DOMAIN told = Client
  BY DEF TypeOK, RecordTypes, ClientTypes, NetTypes
<1>1. ASSUME NEW i \in 1 .. Len(news[c]), ReadSync(c, i)
      PROVE  /\ UNCHANGED <<asked, inStep, expiries, reports, client_gamestate,
                            syncAcks, sync_ack, told>>
  BY <1>1 DEF ReadSync
<1>2. CASE Advance(c)
  <2>1. UNCHANGED <<asked, reports, client_gamestate, syncAcks, sync_ack>>
        /\ told' = [told EXCEPT ![c] = FALSE]
    BY <1>2 DEF Advance
  <2>2. UNCHANGED <<inStep, expiries>> \/ (expiries' = expiries + 1 /\ inStep' = {})
    BY <1>2 DEF Advance, AllSentOrExpires, Expires
  <2> QED BY <1>a, <2>1, <2>2 DEF SameReports
<1>3. CASE Report(c)
  <2>1. /\ UNCHANGED <<asked, client_gamestate, syncAcks, sync_ack>>
        /\ told' = [told EXCEPT ![c] = TRUE]
        /\ \A d \in Client \ {c} : reports'[d] = reports[d]
    BY <1>a, <1>3 DEF Report
  <2>2. UNCHANGED <<inStep, expiries>> \/ (expiries' = expiries + 1 /\ inStep' = {})
    BY <1>3 DEF Report, AllSentOrExpires, Expires
  <2> QED BY <1>a, <2>1, <2>2 DEF SameReports
<1>4. CASE ReceiveSyncMsg(c)
  BY <1>4 DEF ReceiveSyncMsg, SameReports
<1>5. CASE AnswerSync(c)
  <2>1. /\ UNCHANGED <<asked, reports, client_gamestate, sync_ack, told>>
        /\ \A d \in Client \ {c} : syncAcks'[d] = syncAcks[d]
    BY <1>a, <1>5 DEF AnswerSync
  <2>2. UNCHANGED <<inStep, expiries>> \/ (expiries' = expiries + 1 /\ inStep' = {})
    BY <1>5 DEF AnswerSync, AllSentOrExpires, Expires
  <2> QED BY <2>1, <2>2 DEF SameReports
<1>6. CASE ReceiveSyncAck(c)
  <2>1. /\ UNCHANGED <<asked, inStep, expiries, reports, client_gamestate, told>>
        /\ \A d \in Client \ {c} : syncAcks'[d] = syncAcks[d] /\ sync_ack'[d] = sync_ack[d]
    BY <1>a, <1>6 DEF ReceiveSyncAck
  <2> QED BY <2>1 DEF SameReports
<1>7. ASSUME NEW r \in reports[c], ReceiveReport(c, r)
      PROVE  /\ UNCHANGED <<asked, inStep, expiries, syncAcks, sync_ack, told>>
             /\ \A d \in Client \ {c} : reports'[d] = reports[d]
                                        /\ client_gamestate'[d] = client_gamestate[d]
  BY <1>a, <1>7 DEF ReceiveReport
<1>8. CASE Transmit(c)  BY <1>8 DEF Transmit, SameReports
<1>9. CASE ChangeTeam(c)
  <2>1. inStep' \subseteq inStep
    BY <1>9 DEF ChangeTeam, JoinTeam, LeaveTeam
  <2> QED BY <1>9, <2>1 DEF ChangeTeam, SameReports
<1>10. CASE Login(c)
  <2>1. /\ UNCHANGED <<asked, inStep, expiries, reports, syncAcks, sync_ack>>
        /\ \A d \in Client \ {c} : told'[d] = told[d]
                                   /\ client_gamestate'[d] = client_gamestate[d]
    BY <1>a, <1>10 DEF Login, ForgetReport
  <2> QED BY <2>1 DEF SameReports
<1>11. CASE Logout(c)
  <2>1. /\ UNCHANGED <<asked, expiries, sync_ack, told>> /\ inStep' \subseteq inStep
        /\ \A d \in Client \ {c} : reports'[d] = reports[d] /\ syncAcks'[d] = syncAcks[d]
                                   /\ client_gamestate'[d] = client_gamestate[d]
    BY <1>a, <1>11 DEF Logout, ForgetReport
  <2> QED BY <2>1 DEF SameReports
<1>12. ASSUME Arrival(c)
       PROVE  /\ asked' = asked /\ inStep' \subseteq inStep
              /\ \A d \in Client \ {c} : SameReports(d)
              /\ expiries' = expiries \/ (expiries' = expiries + 1 /\ inStep' = {})
  BY <1>6, <1>7, <1>12 DEF Arrival, SameReports
<1>13. ASSUME NEW i \in 1 .. Len(news[c]), ReadSync(c, i)
       PROVE  /\ asked' = asked /\ inStep' \subseteq inStep
              /\ \A d \in Client \ {c} : SameReports(d)
              /\ expiries' = expiries \/ (expiries' = expiries + 1 /\ inStep' = {})
  BY <1>1, <1>13 DEF SameReports
<1> QED
  BY <1>2, <1>3, <1>4, <1>5, <1>8, <1>9, <1>10, <1>11, <1>12, <1>13 DEF Moves, Rests

-----------------------------------------------------------------------------
(* Reports of the round.                                                   *)
LEMMA SameRound ==
  ASSUME NEW c \in Client, RoundReports(c), state'[c] = state[c],
         reports'[c] = reports[c], client_gamestate'[c] = client_gamestate[c],
         told'[c] = told[c], c \in connected' => c \in connected
  PROVE  RoundReports(c)'
BY DEF RoundReports

(* A client makes no grid before its reports have arrived, and reports     *)
(* each state before it goes on.                                           *)
LEMMA AdvanceRound ==
  ASSUME TypeOK, NEW c \in Client, Advance(c), expiries' = expiries, RoundReports(c)
  PROVE  RoundReports(c)'
<1> DEFINE s == state[c]
<1>1. /\ s \in GameState /\ expiries \in Nat /\ state'[c] = Entered(s)
      /\ told[c] /\ ~told'[c] /\ reports' = reports
      /\ client_gamestate' = client_gamestate /\ connected' = connected
      /\ s \in {0, 7} => reports[c] = {}
  <2>1. s \in GameState /\ expiries \in Nat /\ state'[c] = Entered(s)
    BY Nodes DEF Advance, TypeOK, StateTypes, RecordTypes
  <2>2. /\ told[c] /\ ~told'[c] /\ reports' = reports
        /\ client_gamestate' = client_gamestate /\ connected' = connected
    BY DEF Advance, TypeOK, ClientTypes, netVars
  <2>3. ASSUME s \in {0, 7} PROVE reports[c] = {}
    <3>1. AllSentOrExpires(c)  BY <2>3 DEF Advance
    <3> QED BY <2>1, <3>1 DEF AllSentOrExpires, AllSent, Expires
  <2> QED BY <2>1, <2>2, <2>3
<1>2. CASE s \in {0, 7}
  <2>1. state'[c] = 10  BY <1>1, <1>2 DEF Entered
  <2> QED BY <1>1, <1>2, <2>1 DEF RoundReports
<1>3. CASE s = 70
  <2>1. state'[c] = 7  BY <1>1, <1>3 DEF Entered
  <2> QED BY <2>1 DEF RoundReports
<1>4. CASE s \notin {0, 7, 70}
  <2>1. s >= 10 /\ s \in Nat  BY <1>1, <1>4 DEF GameState
  <2>2. state'[c] \in Nat /\ state'[c] > s
    BY <1>1, <1>4, <2>1, StrideIs
  <2>3. c \in connected =>
          /\ \A r \in reports[c] : r.state \in 10 .. s
          /\ reports[c] = {} => client_gamestate[c] \in 10 .. s
    BY <1>1, <2>1 DEF RoundReports
  <2>4. \A t : t \in 10 .. s => t \in 10 .. state'[c]  BY <2>1, <2>2
  <2> HIDE DEF s
  <2> QED BY <1>1, <2>3, <2>4 DEF RoundReports
<1> QED BY <1>2, <1>3, <1>4

(* So every step keeps the reports of the round.                           *)
LEMMA ClientRound ==
  ASSUME TypeOK, NEW c \in Client, Moves(c) \/ Rests(c), expiries' = expiries,
         syncAcks[c] \in {0, 1}, RoundReports(c)
  PROVE  syncAcks'[c] \in {0, 1} /\ RoundReports(c)'
<1> USE DEF serverVars, clientVars, netVars
<1>a. /\ DOMAIN reports = Client /\ DOMAIN client_gamestate = Client /\ expiries \in Nat
      /\ DOMAIN syncAcks = Client /\ DOMAIN told = Client /\ state \in [Node -> GameState]
      /\ c \in Node
  BY Nodes DEF TypeOK, StateTypes, RecordTypes, ClientTypes, NetTypes
<1>1. ASSUME NEW i \in 1 .. Len(news[c]), ReadSync(c, i)
      PROVE  syncAcks'[c] \in {0, 1} /\ RoundReports(c)'
  BY <1>1, SameRound DEF ReadSync
<1>2. CASE Advance(c)
  <2>1. syncAcks' = syncAcks  BY <1>2 DEF Advance
  <2> QED BY <1>2, <2>1, AdvanceRound
<1>3. CASE Report(c)
  <2>1. /\ state' = state /\ syncAcks' = syncAcks /\ connected' = connected
        /\ client_gamestate' = client_gamestate
        /\ reports'[c] = reports[c] \cup {[state |-> state[c], edition |-> edition[c]]}
    BY <1>a, <1>3 DEF Report
  <2>2. state[c] \in Nat  BY <1>a, StatesAre
  <2>3. state[c] >= 10 => state[c] \in 10 .. state[c]
    <3> HIDE DEF GameState
    <3> QED BY <2>2
  <2>4. ASSUME c \in connected, state[c] >= 10, NEW r \in reports'[c]
        PROVE  r.state \in 10 .. state[c]
    <3>1. CASE r \in reports[c]  BY <2>4, <3>1 DEF RoundReports
    <3>2. CASE r = [state |-> state[c], edition |-> edition[c]]
      BY <2>3, <2>4, <3>2
    <3> QED BY <2>1, <3>1, <3>2
  <2>5. reports'[c] # {}  BY <2>1
  <2> QED BY <2>1, <2>4, <2>5 DEF RoundReports
<1>4. CASE ReceiveSyncMsg(c)  BY <1>4, SameRound DEF ReceiveSyncMsg
<1>5. CASE AnswerSync(c)
  <2>1. AllSent(c)  BY <1>a, <1>5 DEF AnswerSync, AllSentOrExpires, Expires
  <2>2. syncAcks'[c] = 1  BY <1>a, <1>5, <2>1 DEF AnswerSync, AllSent
  <2>3. RoundReports(c)'  BY <1>5, SameRound DEF AnswerSync
  <2> QED BY <2>2, <2>3
<1>6. CASE ReceiveSyncAck(c)
  <2>1. syncAcks'[c] = 0  BY <1>a, <1>6 DEF ReceiveSyncAck
  <2>2. RoundReports(c)'  BY <1>6, SameRound DEF ReceiveSyncAck
  <2> QED BY <2>1, <2>2
<1>7. ASSUME NEW r \in reports[c], ReceiveReport(c, r)
      PROVE  syncAcks'[c] \in {0, 1} /\ RoundReports(c)'
  <2>1. /\ state' = state /\ syncAcks' = syncAcks /\ connected' = connected
        /\ client_gamestate'[c] = r.state /\ reports'[c] = reports[c] \ {r}
    BY <1>a, <1>7 DEF ReceiveReport
  <2> QED BY <1>7, <2>1 DEF RoundReports
<1>8. CASE Transmit(c)  BY <1>8, SameRound DEF Transmit
<1>9. CASE ChangeTeam(c)  BY <1>9, SameRound DEF ChangeTeam
<1>10. CASE Login(c)
  <2>1. state'[c] = 0 /\ syncAcks' = syncAcks  BY <1>a, <1>10 DEF Login
  <2> QED BY <2>1 DEF RoundReports
<1>11. CASE Logout(c)
  <2>1. c \notin connected' /\ syncAcks'[c] = 0  BY <1>a, <1>11 DEF Logout
  <2> QED BY <2>1 DEF RoundReports
<1>12. CASE Arrival(c)  BY <1>6, <1>7, <1>12 DEF Arrival
<1> QED
  BY <1>1, <1>2, <1>3, <1>4, <1>5, <1>8, <1>9, <1>10, <1>11, <1>12 DEF Moves, Rests

-----------------------------------------------------------------------------
(* Nobody is told to go back to the beginning.                             *)
LEMMA ClientNamed ==
  ASSUME TypeOK, PhaseInv, NEW c \in Client, Moves(c) \/ Rests(c),
         c \in connected', c \in connected => NamedNext(c)
  PROVE  NamedNext(c)'
<1> USE DEF serverVars, clientVars, netVars
<1>a. /\ DOMAIN news = Client /\ stateNext \in [Node -> GameState]
      /\ c \in Node /\ Server \in Node
  BY Nodes DEF TypeOK, StateTypes, NetTypes
<1>1. ASSUME NEW i \in 1 .. Len(news[c]), ReadSync(c, i) PROVE NamedNext(c)'
  <2> DEFINE News == [next : GameState, round : Nat]
  <2>1. c \in connected  BY <1>1 DEF ReadSync
  <2>2. NamedNext(c)  BY <2>1
  <2>3. news[c] \in Seq(News)  BY DEF TypeOK, NetTypes
  <2>4. news'[c] = SubSeq(news[c], i + 1, Len(news[c]))  BY <1>1, <1>a DEF ReadSync
  <2>5. stateNext'[c] = news[c][i].next \/ stateNext'[c] = stateNext[c]
    BY <1>1, <1>a DEF ReadSync
  <2> HIDE DEF News
  <2>6. \A j \in 1 .. Len(news'[c]) : j + i \in 1 .. Len(news[c]) /\ news'[c][j] = news[c][j + i]
    BY <2>3, <2>4
  <2> QED BY <2>2, <2>5, <2>6 DEF NamedNext
<1>2. CASE Advance(c) \/ Rests(c)
  <2>1. UNCHANGED <<connected, stateNext, news>>
    BY <1>2 DEF Advance, FollowsServer, Rests, Arrival, Report, ReceiveSyncMsg, AnswerSync,
       ReceiveSyncAck, ReceiveReport, Transmit, ChangeTeam
  <2> QED BY <2>1 DEF NamedNext
<1>3. CASE Login(c)
  <2> DEFINE first == [next |-> stateNext[Server], round |-> RoundOf(stateNext[Server])]
  <2>1. stateNext'[c] = 7 /\ news'[c] = <<first>>  BY <1>3, <1>a DEF Login
  <2>2. stateNext[Server] # 0  BY DEF PhaseInv, Settled, Waiting
  <2>3. first.next # 0  BY <2>2
  <2> HIDE DEF first
  <2>4. \A i \in 1 .. Len(news'[c]) : news'[c][i] = first  BY <2>1
  <2> QED BY <2>1, <2>3, <2>4 DEF NamedNext
<1>4. CASE Logout(c)  BY <1>4 DEF Logout
<1> QED BY <1>1, <1>2, <1>3, <1>4 DEF Moves

(* A client stays in step with a server that stays.                        *)
LEMMA ClientInStep ==
  ASSUME StepInv, NEW c \in Client, Moves(c) \/ Rests(c), c \in inStep'
  PROVE  InStepInv(c)'
<1> USE DEF serverVars, clientVars, netVars
<1>a. TypeOK /\ PhaseInv  BY DEF StepInv, OrderInv
<1>1. /\ ServerStays /\ asked' = asked /\ inStep' \subseteq inStep
      /\ expiries' = expiries \/ (expiries' = expiries + 1 /\ inStep' = {})
  BY <1>a, ClientAlone, ClientReportsAlone
<1>2. c \in inStep /\ c \in connected /\ c \in playing /\ expiries = 0 /\ expiries' = 0
  BY <1>1, <1>a DEF StepInv, TypeOK, MemberTypes
<1>3. /\ InStepInv(c) /\ NamedNext(c) /\ NewsInv(c) /\ syncAcks[c] \in {0, 1}
  BY <1>2 DEF StepInv, OrderInv, TimelyInv
<1>4. c \in asked' /\ state[c] # 0 /\ ClientPlace(c) <= Target(c)
  BY <1>1, <1>3 DEF InStepInv
<1>b. /\ DOMAIN reports = Client /\ DOMAIN client_gamestate = Client
      /\ DOMAIN syncAcks = Client /\ DOMAIN sync_ack = Client /\ DOMAIN told = Client
  BY <1>a DEF TypeOK, RecordTypes, ClientTypes, NetTypes
<1>5. ASSUME KeepsFollowing(c), state'[c] # 0, ClientPlace(c)' <= Target(c)'
      PROVE  InStepInv(c)'
  BY <1>a, <1>1, <1>3, <1>4, <1>5, KeptInStep
<1>6. ASSUME UNCHANGED <<state, stateNext, edition>>, KeepsFollowing(c),
             ClientPlace(c)' = ClientPlace(c)
      PROVE  InStepInv(c)'
  <2>1. Target(c)' = Target(c)  BY <1>6 DEF Target, Place
  <2> QED BY <1>4, <1>5, <1>6, <2>1
<1>11. ASSUME NEW i \in 1 .. Len(news[c]), ReadSync(c, i) PROVE InStepInv(c)'
  <2>1. SameReports(c) /\ state' = state /\ grid' = grid
    BY <1>11 DEF ReadSync, SameReports
  <2>2. KeepsFollowing(c) /\ ClientPlace(c)' = ClientPlace(c)  BY <2>1, SameFollows
  <2>3. Target(c) <= Target(c)' /\ Target(c)' \in Nat
    BY <1>a, <1>3, <1>11, ReadTarget
  <2>4. ClientPlace(c) \in Nat /\ Target(c) \in Nat  BY <1>a, PlacesAre, PlaceType
  <2>5. ClientPlace(c)' <= Target(c)'  BY <1>4, <2>2, <2>3, <2>4
  <2> QED BY <1>4, <1>5, <2>1, <2>2, <2>5
<1>12. CASE Advance(c)
  <2>1. Target(c) <= Announced  BY <1>3 DEF NewsInv
  <2>2. ClientPlace(c) >= ServerPlace - 17
    <3>1. ClientPlace(c) \in Nat /\ ServerPlace \in Nat  BY <1>a, PlacesAre
    <3>2. ClientPlace(c) >= ServerPlace \/ ClientPlace(c) >= ServerPlace - 17
      BY <1>3, <1>a DEF InStepInv, Follows, TypeOK, StateTypes
    <3> QED BY <3>1, <3>2
  <2>3. stateNext[c] # 0  BY <1>3 DEF NamedNext
  <2>4. /\ state'[c] = Entered(state[c])
        /\ ClientPlace(c)' = ClientPlace(c) + Stride(state[c])
        /\ ClientPlace(c)' <= Target(c) /\ Target(c)' = Target(c)
    BY <1>a, <1>4, <1>12, <2>1, <2>2, <2>3, AdvanceInStep
  <2>5. state'[c] # 0
    <3>1. state[c] \in GameState  BY <1>a, PlacesAre
    <3> QED BY <2>4, <3>1, StrideIs
  <2>6. UNCHANGED <<reports, client_gamestate, syncAcks, sync_ack>>  BY <1>12 DEF Advance
  <2> QED BY <1>5, <1>a, <2>4, <2>5, <2>6, AdvanceFollows
<1>13. CASE Report(c)
  <2>1. /\ UNCHANGED <<state, stateNext, edition, grid, syncAcks, sync_ack, client_gamestate>>
        /\ reports'[c] = reports[c] \cup {[state |-> state[c], edition |-> edition[c]]}
    BY <1>b, <1>13 DEF Report
  <2> QED BY <1>a, <1>6, <2>1, ReportFollows
<1>14. CASE AnswerSync(c)
  <2>1. reports[c] = {}
    BY <1>2, <1>14 DEF AnswerSync, AllSentOrExpires, AllSent, Expires
  <2>2. UNCHANGED <<state, stateNext, edition, grid, client_gamestate, reports>>
    BY <1>14 DEF AnswerSync
  <2> QED BY <1>6, <2>1, <2>2, AnswerFollows
<1>15. CASE ReceiveSyncAck(c)
  <2>1. UNCHANGED <<state, stateNext, edition, grid, client_gamestate, reports>>
        /\ syncAcks[c] = 1 /\ syncAcks'[c] = 0
    BY <1>b, <1>3, <1>15 DEF ReceiveSyncAck
  <2> QED BY <1>6, <2>1, AckFollows
<1>16. ASSUME NEW r \in reports[c], ReceiveReport(c, r) PROVE InStepInv(c)'
  <2>1. /\ UNCHANGED <<state, stateNext, edition, grid, syncAcks, sync_ack>>
        /\ client_gamestate'[c] = r.state /\ reports'[c] = reports[c] \ {r}
    BY <1>b, <1>16 DEF ReceiveReport
  <2> QED BY <1>6, <2>1, ArrivalFollows
<1>17. CASE ReceiveSyncMsg(c) \/ Transmit(c) \/ ChangeTeam(c)
  <2>1. UNCHANGED <<state, stateNext, edition, grid>> /\ SameReports(c)
    BY <1>17 DEF ReceiveSyncMsg, Transmit, ChangeTeam, SameReports
  <2> QED BY <1>6, <2>1, SameFollows
<1>18. ~Login(c)  BY <1>2 DEF Login
<1>19. ~Logout(c)
  <2>1. ASSUME Logout(c) PROVE FALSE
    BY <1>2, <2>1 DEF Logout
  <2> QED BY <2>1
<1> QED
  BY <1>11, <1>12, <1>13, <1>14, <1>15, <1>16, <1>17, <1>18, <1>19
  DEF Moves, Rests, Arrival

-----------------------------------------------------------------------------
(* What was so since a place was so since any earlier one.                 *)
LEMMA SinceEarlier ==
  ASSUME TypeOK, NEW c \in Client, NEW x \in Int, NEW y \in Int, y <= x
  PROVE  /\ ReportsSince(c, x) => ReportsSince(c, y)
         /\ KnownSince(c, x) => KnownSince(c, y)
<1>1. /\ ClientPlace(c) \in Int /\ state[c] \in GameState /\ client_gamestate[c] \in GameState
      /\ \A r \in reports[c] : r.state \in GameState
  BY PlacesAre
<1>2. ASSUME NEW t \in GameState, Since(c, x, t) PROVE Since(c, y, t)
  <2>1. Age(state[c], t) \in 0 .. 79  BY <1>1, AgeStep
  <2>2. Age(state[c], t) <= ClientPlace(c) - x  BY <1>2 DEF Since
  <2>3. Age(state[c], t) <= ClientPlace(c) - y  BY <1>1, <2>1, <2>2
  <2> QED BY <2>3 DEF Since
<1> QED BY <1>1, <1>2 DEF ReportsSince, KnownSince

(* What the server's steps leave alone.                                    *)
LEMMA ServerAlone ==
  ASSUME TypeOK, PhaseInv, ServerStep \/ EndRound
  PROVE  /\ UNCHANGED <<connected, playing, edition, grid, reports, client_gamestate,
                        syncAcks, told>>
         /\ expiries' = expiries \/ (expiries' = expiries + 1 /\ inStep' = {})
         /\ \A c \in Client :
              /\ state'[c] = state[c] /\ stateNext'[c] = stateNext[c]
              /\ ClientPlace(c)' = ClientPlace(c) /\ Target(c)' = Target(c)
              /\ \A x : ReportsSince(c, x)' = ReportsSince(c, x)
                        /\ KnownSince(c, x)' = KnownSince(c, x)
<1> USE DEF serverVars, clientVars, netVars
<1>1. /\ connected' = connected /\ edition' = edition /\ grid' = grid
      /\ \A c \in Client : state'[c] = state[c] /\ stateNext'[c] = stateNext[c]
  BY ServerOrder
<1>2. UNCHANGED <<playing, reports, client_gamestate, syncAcks, told>>
  BY DEF ServerStep, Flush, SetState, SyncAgain, SyncStateEnds, EndRound
<1>3. expiries' = expiries \/ (expiries' = expiries + 1 /\ inStep' = {})
  BY DEF ServerStep, Flush, SetState, SyncAgain, SyncStateEnds, EndRound, Expires
<1>4. ASSUME NEW c \in Client
      PROVE  ClientPlace(c)' = ClientPlace(c) /\ Target(c)' = Target(c)
  BY <1>1, <1>4 DEF ClientPlace, Target, Place
<1>5. ASSUME NEW c \in Client, NEW x
      PROVE  /\ ReportsSince(c, x)' = ReportsSince(c, x)
             /\ KnownSince(c, x)' = KnownSince(c, x)
  BY <1>1, <1>2, <1>4, <1>5 DEF ReportsSince, KnownSince, Since
<1> QED BY <1>1, <1>2, <1>3, <1>4, <1>5

(* The next state announced is not the first.                              *)
LEMMA ServerNamed ==
  ASSUME TypeOK, PhaseInv, ServerStep \/ EndRound, NEW c \in connected, NamedNext(c)
  PROVE  NamedNext(c)'
<1> DEFINE a == [next |-> goal, round |-> RoundOf(goal)]
           News == [next : GameState, round : Nat]
<1> USE DEF serverVars, clientVars, netVars
<1>1. c \in Client /\ stateNext'[c] = stateNext[c]
  BY ServerAlone DEF TypeOK, MemberTypes
<1>2. CASE news' = news  BY <1>1, <1>2 DEF NamedNext
<1>3. CASE news' # news
  <2>1. wait \in {"sync", "again"} /\ Announce(goal)
    BY <1>3 DEF ServerStep, Flush, SetState, SyncAgain, SyncStateEnds, EndRound
  <2>2. goal # 0  BY <2>1 DEF PhaseInv, Waiting
  <2>3. news'[c] = Append(news[c], a)  BY <1>1, <2>1 DEF Announce
  <2>4. news[c] \in Seq(News) /\ a \in News
    <3>1. goal \in GameState /\ round \in Nat  BY DEF TypeOK, StateTypes, RecordTypes
    <3>2. RoundOf(goal) \in Nat  BY <3>1 DEF RoundOf
    <3>3. a \in News  BY <3>1, <3>2
    <3>4. news[c] \in Seq(News)  BY <1>1 DEF TypeOK, NetTypes
    <3> QED BY <3>3, <3>4
  <2>5. a.next # 0  BY <2>2
  <2> HIDE DEF a, News
  <2>6. \A i \in 1 .. Len(news'[c]) : news'[c][i] = a \/ (i \in 1 .. Len(news[c])
                                                          /\ news'[c][i] = news[c][i])
    BY <2>3, <2>4
  <2> QED BY <1>1, <2>5, <2>6 DEF NamedNext
<1> QED BY <1>2, <1>3

-----------------------------------------------------------------------------
(* The server's steps keep the clients in step.                            *)

(* A barrier begins for all players.                                       *)
LEMMA BarrierAsks ==
  ASSUME TypeOK, StartSync, NEW c \in inStep
  PROVE  c \in asked' /\ ~sync_ack'[c]
BY DEF TypeOK, MemberTypes, StartSync

(* One stride further, what is known is a stride older.                    *)
LEMMA StrideInStep ==
  ASSUME TypeOK, PhaseInv, ServerStep \/ EndRound, StartSync, NEW c \in inStep, InStepInv(c),
         wait \in {"run", "flush"}, wait' = "sync",
         NEW d \in 0 .. 17, ServerPlace' = ServerPlace + d
  PROVE  InStepInv(c)'
<1>1. PICK q \in Int : q = ServerPlace  BY PlacesAre
<1>2. c \in Client  BY DEF TypeOK, MemberTypes
<1>3. /\ state[c] # 0 /\ ClientPlace(c) <= Target(c)
      /\ ClientPlace(c) >= q /\ ReportsSince(c, q - 40)
      /\ reports[c] = {} => KnownSince(c, q - 40)
  BY <1>1 DEF InStepInv, Follows
<1>4. PICK z \in Int : z = q + d  OBVIOUS
<1>5. /\ ClientPlace(c) >= z - 17 /\ ReportsSince(c, z - 57)
      /\ reports[c] = {} => KnownSince(c, z - 57)
  <2>1. z - 57 \in Int /\ q - 40 \in Int /\ z - 57 <= q - 40  BY <1>4
  <2>2. ClientPlace(c) \in Int  BY <1>2, PlacesAre
  <2>3. ClientPlace(c) >= z - 17  BY <1>3, <1>4, <2>2
  <2> QED BY <1>2, <1>3, <2>1, <2>3, SinceEarlier
<1>6. /\ state'[c] = state[c] /\ ClientPlace(c)' = ClientPlace(c) /\ Target(c)' = Target(c)
      /\ reports' = reports
      /\ ReportsSince(c, z - 57)' = ReportsSince(c, z - 57)
      /\ KnownSince(c, z - 57)' = KnownSince(c, z - 57)
  BY <1>2, ServerAlone
<1>7. c \in asked' /\ MayOwe(c)'  BY BarrierAsks DEF MayOwe
<1>8. ServerPlace' = z  BY <1>1, <1>4
<1>9. Follows(c, z - 17, z - 57)'  BY <1>3, <1>5, <1>6 DEF Follows
<1> QED
  BY <1>3, <1>6, <1>7, <1>8, <1>9
  DEF InStepInv, Follows, ReportsSince, KnownSince, Since

(* A barrier ends only after an answer of the client: if it is not the one *)
(* that it owed, all its reports had arrived.                              *)
LEMMA AgainInStep ==
  ASSUME TypeOK, PhaseInv, SyncAgain, NEW c \in inStep, InStepInv(c)
  PROVE  InStepInv(c)'
<1> USE DEF serverVars, clientVars, netVars
<1>1. PICK q \in Int : q = ServerPlace  BY PlacesAre
<1>2. c \in Client /\ c \in connected  BY DEF TypeOK, MemberTypes
<1>3. /\ StartSync /\ Synced /\ wait \in {"sync", "again"} /\ wait' = "again"
      /\ state' = state /\ round' = round
  BY DEF SyncAgain
<1>4. /\ c \in asked /\ state[c] # 0 /\ ClientPlace(c) <= Target(c)
      /\ Follows(c, q - 17, q - 57)
      /\ wait = "sync" => Flushed(c, q - 17, q - 57) \/ MayOwe(c)
      /\ wait = "again" => Flushed(c, q - 17, q - 57) \/ Owes(c)
  BY <1>1, <1>3 DEF InStepInv
<1>5. sync_ack[c]  BY <1>2, <1>3, <1>4 DEF Synced
<1>6. Flushed(c, q - 17, q - 57) \/ syncAcks[c] = 0
  BY <1>3, <1>4, <1>5 DEF MayOwe, Owes
<1>7. /\ ClientPlace(c)' = ClientPlace(c) /\ Target(c)' = Target(c)
      /\ reports' = reports /\ syncAcks' = syncAcks
      /\ \A x : ReportsSince(c, x)' = ReportsSince(c, x)
                /\ KnownSince(c, x)' = KnownSince(c, x)
  BY <1>2, ServerAlone DEF ServerStep
<1>8. c \in asked' /\ ~sync_ack'[c]  BY <1>3, BarrierAsks
<1>9. ServerPlace' = q  BY <1>1, <1>3 DEF ServerPlace, Place
<1>10. Follows(c, q - 17, q - 57)'  BY <1>4, <1>7 DEF Follows
<1>11. Flushed(c, q - 17, q - 57)' \/ Owes(c)'
  BY <1>6, <1>7, <1>8 DEF Flushed, Owes
<1> QED
  BY <1>3, <1>4, <1>7, <1>8, <1>9, <1>10, <1>11
  DEF InStepInv, Follows, Flushed, ReportsSince, KnownSince, Since

(* After the second barrier a report that is not behind is of the place    *)
(* where the server is, or a later one.                                    *)
LEMMA EndsInStep ==
  ASSUME TypeOK, PhaseInv, NEW c \in inStep, InStepInv(c),
         SyncStateEnds, wait = "again", Synced, Behind = {}
  PROVE  InStepInv(c)'
<1> USE DEF serverVars, clientVars, netVars
<1>1. PICK q \in Int : q = ServerPlace  BY PlacesAre
<1>2. c \in Client /\ c \in connected  BY DEF TypeOK, MemberTypes
<1>3. /\ wait' = "run" /\ state'[Server] = state[Server] /\ round' = round /\ asked' = asked
  BY DEF SyncStateEnds
<1>4. /\ c \in asked /\ state[c] # 0 /\ ClientPlace(c) <= Target(c)
      /\ Flushed(c, q - 17, q - 57) \/ Owes(c)
  BY <1>1 DEF InStepInv
<1>5. sync_ack[c]  BY <1>2, <1>4 DEF Synced
<1>6. ReportsSince(c, q - 17) /\ KnownSince(c, q - 57)
  BY <1>4, <1>5 DEF Owes, Flushed
<1>7. ClientPlace(c) >= q /\ KnownSince(c, q)
  <2> DEFINE k == IF state[c] <= 10 THEN grid[c] + 1 ELSE grid[c]
             z == state[Server]
             t == client_gamestate[c]
  <2>1. ~AbeforeB(t, z)  BY <1>2 DEF Behind
  <2>2. /\ k \in Int /\ round \in Int /\ z \in GameState /\ t \in GameState
        /\ state[c] \in GameState /\ ClientPlace(c) = Place(k, state[c])
    BY <1>2, PlacesAre
  <2>3. q = Place(round, z)  BY <1>1 DEF ServerPlace
  <2>4. Age(state[c], t) <= Place(k, state[c]) - (Place(round, z) - 57)
    BY <1>6, <2>2, <2>3 DEF KnownSince, Since
  <2> HIDE DEF k, z, t
  <2>5. Place(k, state[c]) >= Place(round, z)
        /\ Age(state[c], t) <= Place(k, state[c]) - Place(round, z)
    BY <2>1, <2>2, <2>4, NotBehindIsThere
  <2> QED BY <2>2, <2>3, <2>5 DEF KnownSince, Since, t
<1>8. ReportsSince(c, q - 40) /\ KnownSince(c, q - 40)
  <2>1. q - 40 \in Int /\ q - 17 \in Int /\ q - 40 <= q - 17 /\ q - 40 <= q  OBVIOUS
  <2> QED BY <1>2, <1>6, <1>7, <2>1, SinceEarlier
<1>9. /\ ClientPlace(c)' = ClientPlace(c) /\ Target(c)' = Target(c) /\ state'[c] = state[c]
      /\ reports' = reports
      /\ \A x : ReportsSince(c, x)' = ReportsSince(c, x)
                /\ KnownSince(c, x)' = KnownSince(c, x)
  BY <1>2, ServerAlone DEF ServerStep
<1>10. ServerPlace' = q  BY <1>1, <1>3 DEF ServerPlace, Place
<1>11. Follows(c, q, q - 40)'  BY <1>7, <1>8, <1>9 DEF Follows
<1> QED
  BY <1>3, <1>4, <1>9, <1>10, <1>11
  DEF InStepInv, Follows, ReportsSince, KnownSince, Since

(* A client in GS_PLAY with the server gets in step.                       *)
LEMMA GetsInStep ==
  ASSUME OrderInv, TimelyInv, expiries = 0, NEW c \in asked \cap playing, InPlay(c),
         state[Server] = 50, SyncStateEnds
  PROVE  InStepInv(c)'
<1> USE DEF serverVars, clientVars, netVars
<1>a. TypeOK /\ PhaseInv  BY DEF OrderInv
<1>1. PICK q \in Int : q = ServerPlace  BY <1>a, PlacesAre
<1>2. c \in Client /\ c \in connected  BY <1>a DEF TypeOK, MemberTypes
<1>3. /\ wait' = "run" /\ state'[Server] = state[Server] /\ round' = round /\ asked' = asked
  BY DEF SyncStateEnds
<1>4. RoundReports(c) /\ GridInv(c)  BY <1>2 DEF TimelyInv, OrderInv
<1>5. state[c] = 50 /\ grid[c] = round  BY DEF InPlay
<1>6. ClientPlace(c) = Place(grid[c], 50)  BY <1>5 DEF ClientPlace
<1>7. ClientPlace(c) = q  BY <1>1, <1>5, <1>6 DEF ServerPlace
<1>8. ClientPlace(c) <= Target(c)  BY <1>5, <1>6 , <1>4 DEF GridInv
<1>9. ASSUME NEW t \in 10 .. 50 PROVE Since(c, q - 40, t)
  <2>1. Age(50, t) = 50 - t  BY DEF Age
  <2> QED BY <1>5, <1>7, <2>1 DEF Since
<1>10. ReportsSince(c, q - 40) /\ (reports[c] = {} => KnownSince(c, q - 40))
  BY <1>2, <1>4, <1>5, <1>9 DEF RoundReports, ReportsSince, KnownSince
<1>11. /\ ClientPlace(c)' = ClientPlace(c) /\ Target(c)' = Target(c) /\ state'[c] = state[c]
      /\ reports' = reports
      /\ \A x : ReportsSince(c, x)' = ReportsSince(c, x)
                /\ KnownSince(c, x)' = KnownSince(c, x)
  BY <1>2, <1>a, ServerAlone DEF ServerStep
<1>12. ServerPlace' = q  BY <1>1, <1>3 DEF ServerPlace, Place
<1>13. Follows(c, q, q - 40)'  BY <1>7, <1>10, <1>11 DEF Follows
<1> QED
  BY <1>3, <1>5, <1>8, <1>11, <1>12, <1>13
  DEF InStepInv, Follows, ReportsSince, KnownSince, Since

(* All steps of the server.                                                *)
LEMMA ServerInStep ==
  ASSUME StepInv, ServerStep \/ EndRound, NEW c \in inStep'
  PROVE  InStepInv(c)' /\ expiries' = 0
<1> USE DEF serverVars, clientVars, netVars
<1>1. OrderInv /\ TypeOK /\ PhaseInv /\ TimelyInv  BY DEF StepInv, OrderInv
<1>2. c \in inStep => InStepInv(c) /\ expiries = 0  BY DEF StepInv
<1>3. expiries' = expiries  BY <1>1, ServerAlone
<1>a. expiries \in Nat /\ ServerPlace \in Nat  BY <1>1, PlacesAre DEF TypeOK, RecordTypes
<1>4. CASE Flush
  <2>1. /\ c \in inStep /\ StartSync /\ wait = "run" /\ wait' = "flush"
        /\ state' = state /\ round' = round
    BY <1>4 DEF Flush
  <2>2. c \in asked' /\ c \in Client  BY <1>1, <2>1, BarrierAsks DEF TypeOK, MemberTypes
  <2>3. /\ ClientPlace(c)' = ClientPlace(c) /\ Target(c)' = Target(c)
        /\ reports' = reports
        /\ \A x : ReportsSince(c, x)' = ReportsSince(c, x)
                  /\ KnownSince(c, x)' = KnownSince(c, x)
    BY <1>1, <2>2, ServerAlone
  <2>4. PICK q \in Int : q = ServerPlace  BY <1>a
  <2>5. ServerPlace' = q  BY <2>1, <2>4 DEF ServerPlace, Place
  <2>6. state[c] # 0 /\ ClientPlace(c) <= Target(c) /\ Follows(c, q, q - 40)
    BY <1>2, <2>1, <2>4 DEF InStepInv
  <2>7. Follows(c, q, q - 40)'  BY <2>3, <2>6 DEF Follows
  <2>8. InStepInv(c)'
    BY <2>1, <2>2, <2>3, <2>5, <2>6, <2>7
    DEF InStepInv, Follows, ReportsSince, KnownSince, Since
  <2> QED BY <1>2, <1>3, <2>1, <2>8
<1>5. CASE SetState
  <2>1. /\ c \in inStep /\ StartSync /\ wait \in {"run", "flush"} /\ wait' = "sync"
    BY <1>1, <1>5, <1>3, <1>a DEF SetState, MayEnter, Expires
  <2>2. ServerPlace' = ServerPlace + Stride(state[Server]) /\ Stride(state[Server]) \in 0 .. 17
    BY <1>1, <1>5, SetStatePlace
  <2>3. InStepInv(c)'  BY <1>1, <1>2, <2>1, <2>2, StrideInStep
  <2> QED BY <1>2, <1>3, <2>1, <2>3
<1>6. CASE EndRound
  <2>1. /\ c \in inStep /\ StartSync /\ wait = "run" /\ wait' = "sync"
        /\ state' = state /\ round' = round
    BY <1>6 DEF EndRound
  <2>2. ServerPlace' = ServerPlace + 0  BY <1>a, <2>1 DEF ServerPlace, Place
  <2>3. 0 \in 0 .. 17  OBVIOUS
  <2>4. InStepInv(c)'
    <3> HIDE <1>6
    <3> QED BY <1>1, <1>2, <2>1, <2>2, <2>3, StrideInStep
  <2> QED BY <1>2, <1>3, <2>1, <2>4
<1>7. CASE SyncAgain
  <2>1. c \in inStep  BY <1>7 DEF SyncAgain
  <2> QED BY <1>1, <1>2, <1>3, <1>7, <2>1, AgainInStep
<1>8. CASE SyncStateEnds
  <2>1. /\ wait = "again" /\ Synced /\ Behind = {}
        /\ inStep' = IF state[Server] = 50 /\ expiries = 0
                     THEN inStep \cup {d \in asked \cap playing : InPlay(d)}
                     ELSE inStep
    BY <1>3, <1>8, <1>a DEF SyncStateEnds, Expires
  <2>2. CASE c \in inStep  BY <1>1, <1>2, <1>3, <1>8, <2>1, <2>2, EndsInStep
  <2>3. CASE c \notin inStep
    <3>1. state[Server] = 50 /\ expiries = 0 /\ c \in asked \cap playing /\ InPlay(c)
      BY <2>1, <2>3
    <3> QED BY <1>1, <1>3, <1>8, <3>1, GetsInStep
  <2> QED BY <2>2, <2>3
<1> QED BY <1>4, <1>5, <1>6, <1>7, <1>8 DEF ServerStep

(* It holds at first.                                                      *)
LEMMA StepInvInit == Init => StepInv
<1> SUFFICES ASSUME Init PROVE StepInv  OBVIOUS
<1>1. OrderInv  BY OrderInit
<1>2. connected = {} /\ inStep = {} /\ \A c \in Client : syncAcks[c] = 0  BY DEF Init
<1>3. \A c \in Client : RoundReports(c)  BY <1>2 DEF RoundReports
<1> QED BY <1>1, <1>2, <1>3 DEF StepInv, TimelyInv

(* The server's steps keep the whole invariant ...                         *)
LEMMA StepInvServer ==
  ASSUME StepInv, ServerStep \/ EndRound
  PROVE  StepInv'
<1>1. OrderInv /\ TypeOK /\ PhaseInv /\ TimelyInv  BY DEF StepInv, OrderInv
<1>2. OrderInv'  BY <1>1, ServerOrderStep
<1>3. /\ UNCHANGED <<connected, reports, client_gamestate, syncAcks, told>>
      /\ expiries' = expiries \/ (expiries' = expiries + 1 /\ inStep' = {})
      /\ \A c \in Client : state'[c] = state[c]
  BY <1>1, ServerAlone
<1>4. expiries \in Nat  BY <1>1 DEF TypeOK, RecordTypes
<1>5. TimelyInv'
  <2> SUFFICES ASSUME expiries' = 0, NEW c \in Client
               PROVE  syncAcks'[c] \in {0, 1} /\ RoundReports(c)'
    BY DEF TimelyInv
  <2>1. expiries = 0  BY <1>3, <1>4
  <2>2. syncAcks[c] \in {0, 1} /\ RoundReports(c)  BY <1>1, <2>1 DEF TimelyInv
  <2>3. state'[c] = state[c]  BY <1>3
  <2> QED BY <1>3, <2>2, <2>3, SameRound
<1>6. \A c \in connected' : NamedNext(c)'
  BY <1>1, <1>3, ServerNamed DEF StepInv
<1>7. \A c \in inStep' : InStepInv(c)' /\ expiries' = 0
  BY ServerInStep
<1> QED BY <1>2, <1>5, <1>6, <1>7 DEF StepInv

(* ... and so do the clients'.                                             *)
LEMMA StepInvClient ==
  ASSUME StepInv, NEW c \in Client, Moves(c) \/ Rests(c)
  PROVE  StepInv'
<1>1. OrderInv /\ TypeOK /\ PhaseInv /\ TimelyInv  BY DEF StepInv, OrderInv
<1>2. OrderInv'  BY <1>1, ClientOrderStep
<1>3. /\ ServerStays
      /\ \A d \in Client \ {c} : Same(d)
      /\ connected' \ {c} = connected \ {c}
      /\ asked' = asked /\ inStep' \subseteq inStep
      /\ \A d \in Client \ {c} : SameReports(d)
      /\ expiries' = expiries \/ (expiries' = expiries + 1 /\ inStep' = {})
  BY <1>1, ClientAlone, ClientReportsAlone
<1>4. expiries \in Nat /\ connected' \subseteq Client /\ inStep \subseteq Client
  BY <1>1, <1>2 DEF TypeOK, RecordTypes, MemberTypes, OrderInv
<1>5. TimelyInv'
  <2> SUFFICES ASSUME expiries' = 0, NEW d \in Client
               PROVE  syncAcks'[d] \in {0, 1} /\ RoundReports(d)'
    BY DEF TimelyInv
  <2>1. expiries = 0 /\ expiries' = expiries  BY <1>3, <1>4
  <2>2. syncAcks[d] \in {0, 1} /\ RoundReports(d)  BY <1>1, <2>1 DEF TimelyInv
  <2>3. CASE d = c  BY <1>1, <2>1, <2>2, <2>3, ClientRound
  <2>4. CASE d # c
    <3>1. Same(d) /\ SameReports(d) /\ (d \in connected' => d \in connected)
      BY <1>3, <2>4
    <3> QED BY <2>2, <3>1, SameRound DEF Same, SameReports
  <2> QED BY <2>3, <2>4
<1>6. ASSUME NEW d \in connected' PROVE NamedNext(d)'
  <2>1. CASE d = c  BY <1>1, <1>6, <2>1, ClientNamed DEF StepInv
  <2>2. CASE d # c
    <3>1. d \in connected /\ Same(d)  BY <1>3, <1>4, <2>2
    <3> QED BY <3>1 DEF StepInv, NamedNext, Same
  <2> QED BY <2>1, <2>2
<1>7. ASSUME NEW d \in inStep' PROVE InStepInv(d)' /\ expiries' = 0
  <2>1. d \in inStep /\ expiries = 0 /\ InStepInv(d) /\ d \in Client
    BY <1>3, <1>4 DEF StepInv
  <2>2. expiries' = 0  BY <1>3, <2>1
  <2>3. CASE d = c  BY <2>2, <2>3, ClientInStep
  <2>4. CASE d # c
    <3>1. Same(d) /\ SameReports(d)  BY <1>3, <2>1, <2>4
    <3>2. state'[d] = state[d] /\ grid'[d] = grid[d] /\ Target(d)' = Target(d)
      BY <3>1 DEF Same, Target, Place
    <3>3. KeepsFollowing(d) /\ ClientPlace(d)' = ClientPlace(d)
      BY <2>1, <3>1, <3>2, SameFollows
    <3>4. /\ d \in asked' /\ state'[d] # 0 /\ ClientPlace(d)' <= Target(d)'
      BY <1>3, <2>1, <3>2, <3>3 DEF InStepInv
    <3> QED BY <1>1, <1>3, <2>1, <2>2, <3>3, <3>4, KeptInStep
  <2> QED BY <2>3, <2>2, <2>4
<1> QED BY <1>2, <1>5, <1>6, <1>7 DEF StepInv

(* Every step keeps the invariant.                                         *)
LEMMA StepInvStep == StepInv /\ [Next]_vars => StepInv'
<1>1. StepInv /\ Next => StepInv'
  BY StepInvServer, StepInvClient DEF Next, ClientStep, Moves, Rests
<1>2. ASSUME StepInv, UNCHANGED vars PROVE StepInv'
  <2> USE <1>2 DEF vars, serverVars, clientVars, netVars
  <2>1. OrderInv'
    BY OrderInvStep DEF StepInv
  <2>2. TimelyInv'  BY DEF StepInv, TimelyInv, RoundReports
  <2>3. \A c \in connected' : NamedNext(c)'  BY DEF StepInv, NamedNext
  <2>4. \A c \in inStep' : InStepInv(c)'
    BY DEF StepInv, InStepInv, Follows, Flushed, ReportsSince, KnownSince, Since, MayOwe, Owes,
       ClientPlace, ServerPlace, Target, Place
  <2> QED BY <2>1, <2>2, <2>3, <2>4 DEF StepInv
<1> QED BY <1>1, <1>2

(* The inductive invariant: while no wait has expired, whoever got in step *)
(* with the server is at most one stride behind it, and no report older    *)
(* than most of a turn of the circle is on its way or known of it.         *)
THEOREM StepInvHolds == Spec => []StepInv
BY StepInvInit, StepInvStep, PTL DEF Spec

(* Between two calls of SetState nobody in step is behind the server.      *)
LEMMA StepMeans == StepInv => StaysInStep
BY DEF StepInv, StaysInStep, InStepInv, Follows

(* No client that was in GS_PLAY with the server is left behind in the     *)
(* next rounds while no wait expires, for any number of clients, rounds    *)
(* and messages in flight: SetState, SyncState, sn_Sync and the reports    *)
(* without a number.                                                       *)
THEOREM StaysInStepCorrect == Spec => []StaysInStep
BY StepInvHolds, StepMeans, PTL

(* In the states in which objects are sent, a client in step has the grid  *)
(* of the round.                                                           *)
LEMMA InStepHasGrid ==
  ASSUME StepInv, NEW c \in inStep, state[Server] >= 30
  PROVE  GoesIntoGrid(c)
<1> DEFINE s == state[c]
           z == state[Server]
           k == IF s <= 10 THEN grid[c] + 1 ELSE grid[c]
<1>1. TypeOK /\ PhaseInv /\ InStepInv(c) /\ c \in Client /\ c \in connected
  BY DEF StepInv, OrderInv, TypeOK, MemberTypes
<1>2. /\ s \in GameState /\ z \in GameState /\ round \in Nat /\ grid[c] \in Nat
      /\ ClientPlace(c) \in Nat /\ ClientPlace(c) = Place(k, s) /\ ServerPlace \in Nat
  BY <1>1, PlacesAre
<1>3. s \in Nat /\ s <= 70 /\ z \in Nat /\ k \in Nat
  <2>1. s \in Nat /\ s <= 70 /\ z \in Nat  BY <1>2, StatesAre
  <2>2. k \in Nat  BY <1>2
  <2> QED BY <2>1, <2>2
<1>4. ClientPlace(c) >= ServerPlace - 17
  <2>1. ClientPlace(c) >= ServerPlace \/ ClientPlace(c) >= ServerPlace - 17
    BY <1>1 DEF InStepInv, Follows, TypeOK, StateTypes
  <2> QED BY <1>2, <2>1
<1>5. ClientPlace(c) <= ServerPlace + 25
  <2>1. ClientPlace(c) <= Target(c)  BY <1>1 DEF InStepInv
  <2>2. Target(c) <= Announced  BY <1>1 DEF StepInv, OrderInv, NewsInv
  <2>3. Announced <= ServerPlace + 25  BY <1>1, AnnouncedIsNear
  <2>4. Target(c) \in Nat /\ Announced \in Nat  BY <1>1, PlaceType
  <2> QED BY <1>2, <2>1, <2>2, <2>3, <2>4
<1>6. ServerPlace = 80 * round + z /\ ClientPlace(c) = 80 * k + s
  BY <1>2 DEF ServerPlace, Place
<1>7. ASSUME z <= 50 PROVE grid[c] = round
  <2>1. z >= 30  OBVIOUS
  <2> HIDE DEF s, z, k, GameState
  <2>2. 80 * (k - round) >= -57 /\ 80 * (k - round) <= 75
    BY <1>2, <1>3, <1>4, <1>5, <1>6, <1>7, <2>1
  <2>3. k = round  BY <1>2, <1>3, <2>2
  <2>4. s >= 13  BY <1>2, <1>3, <1>4, <1>6, <2>1, <2>3
  <2> QED BY <1>3, <2>3, <2>4 DEF k
<1> QED BY <1>7 DEF GoesIntoGrid

(* Objects are only sent to clients whose grid is theirs, if they are in   *)
(* step: the transfer inhibitor of gGame and nNetObject::SyncAll.          *)
THEOREM OnlyIntoGrid == Spec => InStepOnlyIntoGrid
<1> DEFINE A == \A c \in inStep \cap (transmitted' \ transmitted) : GoesIntoGrid(c)
<1>1. ASSUME StepInv, [Next]_vars PROVE [A]_vars
  <2> USE DEF serverVars, clientVars, netVars
  <2> SUFFICES ASSUME Next, NEW c \in inStep, c \notin transmitted, c \in transmitted'
               PROVE  GoesIntoGrid(c)
    BY <1>1
  <2>1. ~(ServerStep \/ EndRound)
    <3> SUFFICES ASSUME ServerStep \/ EndRound PROVE transmitted' \subseteq transmitted
      OBVIOUS
    <3> QED BY DEF ServerStep, Flush, SetState, SyncAgain, SyncStateEnds, EndRound
  <2>2. PICK d \in Client : ClientStep(d) \/ Arrival(d) \/ Transmit(d)
                            \/ Login(d) \/ Logout(d) \/ ChangeTeam(d)
    BY <2>1 DEF Next
  <2>3. CASE Transmit(d)
    <3>1. state[Server] >= 30  BY <2>3 DEF Transmit
    <3> QED BY <1>1, <3>1, InStepHasGrid
  <2>4. CASE ~Transmit(d)
    <3>1. transmitted' \subseteq transmitted
      BY <2>2, <2>4 DEF ClientStep, Arrival, ReadSync, Advance, Report, ReceiveSyncMsg, AnswerSync,
         ReceiveSyncAck, ReceiveReport, Login, Logout, ClearKnows, ChangeTeam
    <3> QED BY <3>1
  <2> QED BY <2>3, <2>4
<1>2. Spec => [][A]_vars  BY <1>1, StepInvHolds, PTL DEF Spec
<1> QED BY <1>2 DEF InStepOnlyIntoGrid
=============================================================================
