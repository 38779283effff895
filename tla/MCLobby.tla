------------------------------ MODULE MCLobby ------------------------------
(***************************************************************************)
(* Users for the model checking of Lobby.                                  *)
(***************************************************************************)
EXTENDS LobbyProperties

CONSTANTS c1, c2, c3, c4

\* One user who does three things, and as many others as fill a room and are
\* refused a seat, who do one each; it is the first who may go away.
Users == {c1, c2, c3, c4}
Doings == [c \in Users |-> IF c = c1 THEN 3 ELSE 1]
Fickle == {c1}
Alike == Permutations({c2, c3, c4})

\* Two users who click twice.
TwoUsers == {c1, c2}
FourTimes == [c \in TwoUsers |-> 4]
=============================================================================
