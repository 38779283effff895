------------------------------- MODULE Lobby -------------------------------
(***************************************************************************)
(* The lobby: GameManager, which owns the rooms and hands every message to *)
(* the room its author sits in, SessionManager::interpret, which sends the *)
(* answers to the addressees' sessions, and the part of the browser client *)
(* that asks for rooms, enters and leaves them.                            *)
(*                                                                         *)
(* The server handles one message at a time.  Each client has a connection *)
(* of its own that keeps messages in order in both directions; messages of *)
(* different clients, and of the two directions, cross.  A connection may  *)
(* be closed, or break and lose what the client has sent last; a write to  *)
(* a client that has gone may fail, before the server reads that it has.   *)
(*                                                                         *)
(* Of a room only the seats are kept: what it does with ready, bid, deal   *)
(* and play messages is the business of module Room and changes no seat.   *)
(* Chat stands for all of them here, as a message that is routed to the    *)
(* author's room and on to the other seats.                                *)
(***************************************************************************)
EXTENDS Naturals, FiniteSets, SequencesExt

CONSTANTS
  Clients,   \* the ids the server gives to its sessions
  Clicks,    \* requests for a seat a user sends before the first is answered
  Capacity,  \* bound on the messages of one client that are on their way
  Inbox,     \* bound on the messages on their way to all clients
  Actions,   \* bounds on what the users do, closing the page included
  Unsteady   \* bound: the clients whose connections may end

ASSUME ClientsAssumption == Clients # {} /\ 0 \notin Clients
ASSUME ClicksAssumption == Clicks \in Nat \ {0}
ASSUME BoundsAssumption ==
  Capacity \in Nat \ {0, 1} /\ Inbox \in Nat \ {0} /\ Actions \in [Clients -> Nat]

MAX_PLAYERS == 3
NewRoom == 0    \* the id -1 of a request to create a room
Nowhere == 0    \* findGameId's -1
NoGame == <<0>> \* Controller.game when it is null

VARIABLES
  \* GameManager and SessionManager
  activeGames,  \* active_games_: the ids seated in each room, in their order
  players,      \* players_: the ids of each room
  sessions,     \* the ids in SessionManager::sessions_
  fault,        \* what has ended the server's thread, "none" while it runs
  \* the connections
  link,         \* "new", "open" or "closed"
  writing,      \* the clients that have gone while a session writes to them
  broken,       \* those to whom a write has failed
  toServer,     \* messages on their way from each client
  toClient,     \* messages on their way to each client
  \* Controller and View of each client
  scene,        \* the panel that is shown: "lobby" or "game_panel"
  roomList,     \* the rooms whose buttons can be clicked
  game,         \* Controller.game's players, or NoGame
  index,        \* SelfPlayer.index, counted from 1; 0 before it is set
  \* the users
  waiting,      \* the requests for a seat whose answer has not been seen
  acts          \* what the user has done so far, counted for the bound

serverVars == <<activeGames, players, sessions, broken, fault>>
clientVars == <<scene, roomList, game, index>>
userVars == <<waiting, acts>>
vars == <<serverVars, link, writing, toServer, toClient, clientVars, userVars>>

Occurrences(c, s) == Cardinality({i \in DOMAIN s : s[i] = c})

Init ==
  /\ activeGames = << >> /\ players = << >> /\ sessions = {} /\ fault = "none"
  /\ link = [c \in Clients |-> "new"] /\ writing = {} /\ broken = {}
  /\ toServer = [c \in Clients |-> << >>]
  /\ toClient = [c \in Clients |-> << >>]
  /\ scene = [c \in Clients |-> "lobby"]
  /\ roomList = [c \in Clients |-> {}]
  /\ game = [c \in Clients |-> NoGame]
  /\ index = [c \in Clients |-> 0]
  /\ waiting = [c \in Clients |-> 0]
  /\ acts = [c \in Clients |-> 0]
-----------------------------------------------------------------------------
(***************************************************************************)
(* The server.                                                             *)
(***************************************************************************)

\* The first room whose list has c.
FindGameId(c) ==
  LET with == {i \in DOMAIN players : Contains(players[i], c)}
  IN  IF with = {} THEN Nowhere ELSE CHOOSE i \in with : \A j \in with : i =< j

(***************************************************************************)
(* SessionManager::interpret: each <<addressees, message>> of `out' goes   *)
(* to the sessions of its addressees, once for every time one is named.  A *)
(* session whose client has gone writes in vain.  An addressee without a   *)
(* session makes sessions_.at throw out of the handler: the thread ends.   *)
(***************************************************************************)
Interpret(out) ==
  IF \E i \in DOMAIN out : ~ ToSet(out[i][1]) \subseteq sessions'
    THEN fault' = "no_session" /\ UNCHANGED <<toClient, writing>>
    ELSE LET copies(c, i) == [k \in 1 .. Occurrences(c, out[i][1]) |-> out[i][2]]
         IN  /\ toClient' = [c \in Clients |->
                   IF link[c] # "open" THEN << >>
                   ELSE FoldLeftDomain(LAMBDA s, i : s \o copies(c, i),
                                       toClient[c], out)]
             /\ writing' = writing \cup {c \in Clients : /\ link[c] # "open"
                               /\ \E i \in DOMAIN out : c \in ToSet(out[i][1])}
             /\ UNCHANGED fault

\* The seats that are not c's: who is told of what c does.
Others(c, seats) == RestrictValues(seats, LAMBDA d : d # c)

\* Mutants of Accepted and Refused: the second of a room is not announced to
\* the first (size() > 1 written > 2), and a refusal is not answered.
AcceptedUnannounced(c, seats) ==
  << <<IF Len(seats) > 2 THEN Others(c, seats) ELSE << >>,
       [action |-> "new_player", data |-> c]>>,
     <<<<c>>, [action |-> "add", error |-> FALSE, data |-> seats]>> >>
RefusedSilently(c) == << >>

\* What a room answers to a request for a seat.
Accepted(c, seats) ==
  << <<Others(c, seats), [action |-> "new_player", data |-> c]>>,
     <<<<c>>, [action |-> "add", error |-> FALSE, data |-> seats]>> >>
Refused(c) == << <<<<c>>, [action |-> "add", error |-> TRUE]>> >>

(***************************************************************************)
(* GameManager::useEmptyRoom: the first empty room is used again.          *)
(***************************************************************************)
UseEmptyRoom(c) ==
  \E i \in DOMAIN activeGames :
    /\ activeGames[i] = << >>
    /\ \A j \in 1 .. i - 1 : activeGames[j] # << >>
    /\ activeGames' = [activeGames EXCEPT ![i] = <<c>>]
    /\ players' = [players EXCEPT ![i] = Append(@, c)]

\* Mutant of CreateNewRoom: the empty rooms are not looked for.
CreateNewRoomAlways(c) ==
  /\ activeGames' = Append(activeGames, <<c>>)
  /\ players' = Append(players, <<c>>)

(***************************************************************************)
(* GameManager::createNewRoom.                                             *)
(***************************************************************************)
CreateNewRoom(c) ==
  /\ \A i \in DOMAIN activeGames : activeGames[i] # << >>
  /\ activeGames' = Append(activeGames, <<c>>)
  /\ players' = Append(players, <<c>>)

HandleCreate(c) ==
  /\ UseEmptyRoom(c) \/ CreateNewRoom(c)
  /\ UNCHANGED sessions
  /\ Interpret(Accepted(c, <<c>>))

\* Mutant of Seat: a fourth player is let in.
SeatUnchecked(c, i) ==
  /\ Len(activeGames[i]) =< MAX_PLAYERS
  /\ activeGames' = [activeGames EXCEPT ![i] = Append(@, c)]
  /\ players' = [players EXCEPT ![i] = Append(@, c)]
  /\ UNCHANGED sessions
  /\ Interpret(Accepted(c, activeGames'[i]))

(***************************************************************************)
(* GameManager::addPlayer for a room of the list; an id beyond the rooms   *)
(* is not answered.  Nothing looks whether c is seated already.            *)
(***************************************************************************)
Seat(c, i) ==
  /\ Len(activeGames[i]) < MAX_PLAYERS
  /\ activeGames' = [activeGames EXCEPT ![i] = Append(@, c)]
  /\ players' = [players EXCEPT ![i] = Append(@, c)]
  /\ UNCHANGED sessions
  /\ Interpret(Accepted(c, activeGames'[i]))

Refuse(c, i) ==
  /\ Len(activeGames[i]) = MAX_PLAYERS
  /\ UNCHANGED <<activeGames, players, sessions>>
  /\ Interpret(Refused(c))

HandleAdd(c, i) ==
  \/ i \in DOMAIN activeGames /\ (Seat(c, i) \/ Refuse(c, i))
  \/ /\ i \notin DOMAIN activeGames
     /\ UNCHANGED <<activeGames, players, sessions, fault, toClient, writing>>

\* The rooms with somebody inside; the client makes a full one's button inert.
HandleShow(c) ==
  /\ UNCHANGED <<activeGames, players, sessions>>
  /\ Interpret(<< <<<<c>>,
       [action |-> "show",
        data |-> {i \in DOMAIN activeGames :
                    Len(activeGames[i]) \in 1 .. MAX_PLAYERS - 1}]>> >>)

\* Mutant of RemoveIfLeaveCalled: the list keeps the player.
RemoveNobody(c) == UNCHANGED players

\* GameManager::removeIfLeaveCalled: c's first entry goes.
RemoveIfLeaveCalled(c) ==
  players' = [players EXCEPT ![FindGameId(c)] = RemoveFirst(@, c)]

(***************************************************************************)
(* A message of a seated player goes to the room of the first list that    *)
(* has him.  active_games_[-1] of one who is nowhere is undefined.         *)
(***************************************************************************)
NoRoom(c) ==
  /\ FindGameId(c) = Nowhere
  /\ fault' = "no_room"
  /\ UNCHANGED <<activeGames, players, sessions, toClient, writing>>

HandleChat(c) ==
  \/ NoRoom(c)
  \/ /\ FindGameId(c) # Nowhere
     /\ UNCHANGED <<activeGames, players, sessions>>
     /\ Interpret(<< <<Others(c, activeGames[FindGameId(c)]),
                       [action |-> "chat", player |-> c]>> >>)

\* LeaveBuster: one seat of c is freed and those that are left are told.
FreeSeat(c, i) ==
  /\ activeGames' = [activeGames EXCEPT ![i] = RemoveFirst(@, c)]
  /\ Interpret(<< <<activeGames'[i], [action |-> "leave", data |-> c]>> >>)

HandleLeave(c) ==
  \/ NoRoom(c)
  \/ /\ FindGameId(c) # Nowhere
     /\ UNCHANGED sessions
     /\ FreeSeat(c, FindGameId(c))
     /\ RemoveIfLeaveCalled(c)

\* Mutant of Disconnect: the room is not told.
DisconnectQuietly(c) ==
  /\ sessions' = sessions \ {c}
  /\ UNCHANGED <<activeGames, players, fault, toClient, writing>>

(***************************************************************************)
(* Session::disconnect: the session is gone before the room is told, and   *)
(* players_ keeps the player.  It is called when a read ends and when a    *)
(* write fails; the second call finds no session, and its exception leaves *)
(* the handler.                                                            *)
(***************************************************************************)
Disconnect(c) ==
  \/ /\ c \notin sessions
     /\ fault' = "not_registered"
     /\ UNCHANGED <<activeGames, players, sessions, toClient, writing>>
  \/ /\ c \in sessions
     /\ sessions' = sessions \ {c}
     /\ UNCHANGED players
     /\ \/ FindGameId(c) = Nowhere /\ UNCHANGED <<activeGames, fault, toClient, writing>>
        \/ FindGameId(c) # Nowhere /\ FreeSeat(c, FindGameId(c))

(***************************************************************************)
(* A write to a client that has gone fails: writeHandler disconnects, and  *)
(* what the client had sent before it went is still to be read.            *)
(***************************************************************************)
WriteFails(c) ==
  /\ fault = "none" /\ link[c] = "closed" /\ c \in writing \ broken
  /\ broken' = broken \cup {c}
  /\ Disconnect(c)
  /\ UNCHANGED <<link, toServer, clientVars, userVars>>

(***************************************************************************)
(* GameManager::doWork on the next message of c.                           *)
(***************************************************************************)
DoWork(c) ==
  /\ fault = "none" /\ toServer[c] # << >>
  /\ MapThenSumSet(LAMBDA d : Len(toClient[d]), Clients) < Inbox
  /\ toServer' = [toServer EXCEPT ![c] = Tail(@)]
  /\ LET msg == Head(toServer[c])
     IN  \/ msg.action = "add" /\ msg.id = NewRoom /\ HandleCreate(c)
         \/ msg.action = "add" /\ msg.id # NewRoom /\ HandleAdd(c, msg.id)
         \/ msg.action = "show" /\ HandleShow(c)
         \/ msg.action = "chat" /\ HandleChat(c)
         \/ msg.action = "leave" /\ HandleLeave(c)
         \/ msg.action = "closed" /\ Disconnect(c)
  /\ UNCHANGED <<broken, link, clientVars, userVars>>
-----------------------------------------------------------------------------
(***************************************************************************)
(* The clients.                                                            *)
(***************************************************************************)
Send(c, msgs) ==
  /\ Len(toServer[c]) + Len(msgs) =< Capacity
  /\ toServer' = [toServer EXCEPT ![c] = @ \o msgs]

(***************************************************************************)
(* The connection is upgraded: Session::acceptHandler registers it and     *)
(* welcomes the client, whose onopen asks for the rooms.                   *)
(***************************************************************************)
Connect(c) ==
  /\ link[c] = "new" /\ fault = "none"
  /\ link' = [link EXCEPT ![c] = "open"]
  /\ sessions' = sessions \cup {c}
  /\ toClient' = [toClient EXCEPT ![c] = <<[action |-> "welcome"]>>]
  /\ Send(c, <<[action |-> "show"]>>)
  /\ UNCHANGED <<activeGames, players, broken, fault, writing, clientVars, userVars>>

(***************************************************************************)
(* requestRoom, by the button of a room on the list or the one for a new   *)
(* room; requestRefresh; sendMessage; leaveRoom.                           *)
(***************************************************************************)
RequestRoom(c) ==
  /\ scene[c] = "lobby" /\ waiting[c] < Clicks
  /\ \E id \in roomList[c] \cup {NewRoom} :
       Send(c, <<[action |-> "add", id |-> id]>>)
  /\ waiting' = [waiting EXCEPT ![c] = @ + 1]
  /\ UNCHANGED <<toClient, clientVars>>

RequestRefresh(c) ==
  /\ scene[c] = "lobby"
  /\ Send(c, <<[action |-> "show"]>>)
  /\ UNCHANGED <<toClient, clientVars, waiting>>

SendMessage(c) ==
  /\ scene[c] = "game_panel"
  /\ Send(c, <<[action |-> "chat"]>>)
  /\ UNCHANGED <<toClient, clientVars, waiting>>

ChangeScene(c) ==
  scene' = [scene EXCEPT ![c] = IF @ = "lobby" THEN "game_panel" ELSE "lobby"]

LeaveRoom(c) ==
  /\ scene[c] = "game_panel"
  /\ Send(c, <<[action |-> "leave"], [action |-> "show"]>>)
  /\ game' = [game EXCEPT ![c] = NoGame]
  /\ ChangeScene(c)
  /\ UNCHANGED <<toClient, roomList, index, waiting>>

(***************************************************************************)
(* Incoming messages.  joinRoom makes a new Game and toggles the scene,    *)
(* whichever it is; a message about a game the client is not in throws     *)
(* before it changes anything.                                             *)
(***************************************************************************)
ReceiveAdd(c, msg) ==
  /\ waiting' = [waiting EXCEPT ![c] = @ - 1]
  /\ \/ /\ ~ msg.error
        /\ game' = [game EXCEPT ![c] = msg.data]
        /\ index' = [index EXCEPT ![c] = Len(msg.data)]
        /\ ChangeScene(c)
        /\ UNCHANGED <<roomList, toServer>>
     \/ /\ msg.error
        /\ Send(c, <<[action |-> "show"]>>)
        /\ UNCHANGED clientVars

ReceiveShow(c, msg) ==
  /\ roomList' = [roomList EXCEPT ![c] = msg.data]
  /\ UNCHANGED <<scene, game, index, toServer, waiting>>

\* What a message of the room does to the client's list of players.
NewPlayer(g, id) == IF g = NoGame THEN g ELSE Append(g, id)
PlayerLeft(g, id) == IF g = NoGame THEN g ELSE RemoveFirst(g, id)

ReceiveNewPlayer(c, msg) ==
  /\ game' = [game EXCEPT ![c] = NewPlayer(@, msg.data)]
  /\ UNCHANGED <<scene, roomList, index, toServer, waiting>>

\* Mutant of IndexAfterLeave: the client keeps the index it came with.
IndexKept(c, g) == index[c]

\* handleLeave looks at the first of at most two players who are left.
IndexAfterLeave(c, g) == IF g[1] = c THEN 1 ELSE 2

ReceiveLeave(c, msg) ==
  /\ game' = [game EXCEPT ![c] = PlayerLeft(@, msg.data)]
  /\ index' = IF Contains(game[c], msg.data) /\ game'[c] # << >>
                THEN [index EXCEPT ![c] = IndexAfterLeave(c, game'[c])]
                ELSE index
  /\ UNCHANGED <<scene, roomList, toServer, waiting>>

Receive(c) ==
  /\ toClient[c] # << >>
  /\ toClient' = [toClient EXCEPT ![c] = Tail(@)]
  /\ LET msg == Head(toClient[c])
     IN  \/ msg.action = "add" /\ ReceiveAdd(c, msg)
         \/ msg.action = "show" /\ ReceiveShow(c, msg)
         \/ msg.action = "new_player" /\ ReceiveNewPlayer(c, msg)
         \/ msg.action = "leave" /\ ReceiveLeave(c, msg)
         \/ /\ msg.action \in {"welcome", "chat"}
            /\ UNCHANGED <<clientVars, toServer, waiting>>
  /\ UNCHANGED <<serverVars, link, writing, acts>>

User(c) ==
  /\ link[c] = "open" /\ acts[c] < Actions[c]
  /\ acts' = [acts EXCEPT ![c] = @ + 1]
  /\ RequestRoom(c) \/ RequestRefresh(c) \/ SendMessage(c) \/ LeaveRoom(c)
  /\ UNCHANGED <<serverVars, link, writing>>

(***************************************************************************)
(* The page is closed, or the connection breaks and what was sent last is  *)
(* lost.  Reading, the server learns of it after the messages that got     *)
(* through; what it has sent and the client has not taken may be a write   *)
(* that fails.                                                             *)
(***************************************************************************)
Close(c) ==
  /\ link[c] = "open" /\ acts[c] < Actions[c] /\ c \in Unsteady
  /\ link' = [link EXCEPT ![c] = "closed"]
  /\ \E k \in 0 .. Len(toServer[c]) :
       toServer' = [toServer EXCEPT ![c] =
                      Append(SubSeq(@, 1, k), [action |-> "closed"])]
  /\ writing' = IF toClient[c] # << >> THEN writing \cup {c} ELSE writing
  /\ toClient' = [toClient EXCEPT ![c] = << >>]
  /\ scene' = [scene EXCEPT ![c] = "lobby"]
  /\ roomList' = [roomList EXCEPT ![c] = {}]
  /\ game' = [game EXCEPT ![c] = NoGame]
  /\ index' = [index EXCEPT ![c] = 0]
  /\ waiting' = [waiting EXCEPT ![c] = 0]
  /\ acts' = [acts EXCEPT ![c] = 0]
  /\ UNCHANGED serverVars

Next == \E c \in Clients :
          \/ Connect(c) \/ User(c) \/ Receive(c) \/ Close(c)
          \/ DoWork(c) \/ WriteFails(c)

Spec == Init /\ [][Next]_vars
=============================================================================
