-------------------------- MODULE LobbyProperties --------------------------
(***************************************************************************)
(* What the lobby promises: properties of module Lobby.                    *)
(***************************************************************************)
EXTENDS Lobby, TLC

ToServerMessage == [action : {"show", "leave", "chat", "closed"}]
                   \cup [action : {"add"}, id : 0 .. Len(activeGames)]

TypeOK ==
  /\ \A i \in DOMAIN activeGames : /\ activeGames[i] \in Seq(Clients)
                                   /\ Len(activeGames[i]) =< MAX_PLAYERS
  /\ DOMAIN players = DOMAIN activeGames
  /\ \A i \in DOMAIN players : players[i] \in Seq(Clients)
  /\ sessions \subseteq Clients
  /\ fault \in {"none", "no_session", "no_room", "not_registered"}
  /\ link \in [Clients -> {"new", "open", "closed"}]
  /\ writing \subseteq Clients /\ broken \subseteq writing
  /\ \A c \in Clients :
       /\ toServer[c] \in Seq(ToServerMessage)
       /\ Len(toServer[c]) =< Capacity + 1
       /\ \A i \in DOMAIN toClient[c] :
            toClient[c][i].action \in {"welcome", "show", "add", "new_player",
                                       "leave", "chat"}
  /\ scene \in [Clients -> {"lobby", "game_panel"}]
  /\ roomList \in [Clients -> SUBSET (DOMAIN activeGames)]
  /\ \A c \in Clients : game[c] \in Seq(Clients) \cup {NoGame}
  /\ index \in [Clients -> 0 .. MAX_PLAYERS]

(***************************************************************************)
(* The server stops only over a client to whom a write has failed: as long *)
(* as none has, every addressee has a session, no session is taken off the *)
(* books twice, and every message about a room comes from somebody the     *)
(* lists find.                                                             *)
(***************************************************************************)
StaysUp == fault # "none" => broken # {}

(***************************************************************************)
(* GameManager keeps who sits where twice.  For every player with a        *)
(* session, players_ lists him in a room as often as he has a seat there.  *)
(***************************************************************************)
ListsAgree ==
  \A c \in sessions, i \in DOMAIN activeGames :
    Occurrences(c, players[i]) = Occurrences(c, activeGames[i])

(***************************************************************************)
(* The client's list of players when it will have read all it was sent.    *)
(***************************************************************************)
AfterReading(c) ==
  FoldLeft(LAMBDA g, msg :
             CASE msg.action = "add" -> IF msg.error THEN g ELSE msg.data
               [] msg.action = "new_player" -> NewPlayer(g, msg.data)
               [] msg.action = "leave" -> PlayerLeft(g, msg.data)
               [] OTHER -> g,
           game[c], toClient[c])

Leaving(c) == \E i \in DOMAIN toServer[c] : toServer[c][i].action = "leave"

Room(c) == {i \in DOMAIN activeGames : Contains(activeGames[i], c)}

(***************************************************************************)
(* While the server runs, a client that has read all messages on their way *)
(* to it, and whose leave is not on its way, shows the seats of the room   *)
(* it sits in, or the lobby if it sits nowhere.                            *)
(***************************************************************************)
ViewCatchesUp ==
  \A c \in Clients :
    fault = "none" /\ link[c] = "open" /\ ~ Leaving(c) =>
      \/ Room(c) = {} /\ AfterReading(c) = NoGame
      \/ \E i \in Room(c) : Room(c) = {i} /\ AfterReading(c) = activeGames[i]

(***************************************************************************)
(* The seat from which a client at a table counts its left and right       *)
(* neighbours is its own, and the scene it shows fits.                     *)
(***************************************************************************)
IndexIsOwn ==
  \A c \in Clients :
    /\ game[c] # NoGame => index[c] \in DOMAIN game[c] /\ game[c][index[c]] = c
    /\ scene[c] = "game_panel" <=> game[c] # NoGame

(***************************************************************************)
(* The rooms are the tables of a hall in which nobody sits twice: a        *)
(* client changes rooms only by leaving, one client moves at a time, and a *)
(* room is made only when none is empty.                                   *)
(***************************************************************************)
HallView == INSTANCE Hall WITH
  Visitors <- Clients, MaxSeats <- MAX_PLAYERS,
  tables <- [i \in DOMAIN activeGames |-> ToSet(activeGames[i])]

ImplementsHall == HallView!Spec

(***************************************************************************)
(* No request for a seat is dropped: one whose user still waits is on its  *)
(* way to the server or its answer on the way back.                        *)
(***************************************************************************)
Adds(s) == Cardinality({i \in DOMAIN s : s[i].action = "add"})

RequestsAreAnswered ==
  \A c \in Clients :
    link[c] = "open" => waiting[c] = Adds(toServer[c]) + Adds(toClient[c])

(***************************************************************************)
(* interpret never comes to "trying to send data to non-existing session". *)
(***************************************************************************)
AddresseesAreConnected == fault # "no_session"
=============================================================================
