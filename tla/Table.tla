------------------------------- MODULE Table -------------------------------
(***************************************************************************)
(* A room and the clients at it.  A client acts when the server has asked  *)
(* it to: the messages a handler sends put a question to one client (or,   *)
(* before a game, to all of them), the client's user answers with one of   *)
(* the offered values, and that answer is the next message the room        *)
(* handles.  Besides that a client may leave, and one that looks at an old *)
(* list of rooms may ask for a seat at a full table, at any moment the     *)
(* constants LeaveIn and JoinFullIn allow.                                 *)
(*                                                                         *)
(* An answer reaches the room before anything else happens there; answers  *)
(* that cross another message on the way are not modelled here.            *)
(***************************************************************************)
EXTENDS Room

CONSTANTS
  Bids,       \* the values on the bid buttons: the tens from 100 on
  LeaveIn,    \* the questions under which a player may leave
  JoinFullIn  \* the questions under which a full room may be asked for a seat

MIN_RAISE == 10

Questions == {"seating", "ready", "bid", "give", "final", "lead", "follow", "none"}

ASSUME BidsAssumption == Bids \subseteq Nat \ (0 .. 99) /\ 100 \in Bids
ASSUME WhenAssumption ==
  LeaveIn \subseteq Questions /\ JoinFullIn \subseteq Questions

(***************************************************************************)
(* The question the clients have been asked last:                          *)
(*   "seating"  the room waits for players                                 *)
(*   "ready"    every player who has not answered: are you ready?          *)
(*   "bid"      CURRENT: raise or pass                                     *)
(*   "give"     HIGHEST: which two cards for the left and right player?    *)
(*   "final"    HIGHEST: the final bid                                     *)
(*   "lead"     CURRENT: any card                                          *)
(*   "follow"   CURRENT: one of the cards the server lists                 *)
(*   "none"     nobody is asked anything                                   *)
(***************************************************************************)
VARIABLE asked

vars == <<roomVars, asked>>

Init == RoomInit /\ asked = "seating"

(***************************************************************************)
(* The buttons and cards the clients offer their users.                    *)
(***************************************************************************)
BidOffers == {b \in Bids : /\ claim[it.HIGHEST] + MIN_RAISE =< b
                           /\ b =< MaxValue(hand[it.CURRENT])}
             \cup {PASS}

FinalOffers == {b \in Bids : /\ claim[it.HIGHEST] =< b
                             /\ b =< MaxValue(hand[it.HIGHEST])}

CardOffers == IF asked = "lead" THEN Unused(it.CURRENT)
              ELSE AllValidCards(Unused(it.CURRENT), TableCards, superSuit)

(***************************************************************************)
(* The third player's arrival makes every client ask whether its user is   *)
(* ready.                                                                  *)
(***************************************************************************)
Join(c) ==
  /\ c \notin Seated /\ Len(players) < MAX_PLAYERS
  /\ HandleAdd(c)
  /\ asked' = IF Len(players') = MAX_PLAYERS THEN "ready" ELSE "seating"

JoinFull(c) ==
  /\ c \notin Seated /\ Len(players) = MAX_PLAYERS
  /\ asked \in JoinFullIn
  /\ HandleAdd(c)
  /\ UNCHANGED asked

PressReady(c) ==
  /\ asked = "ready" /\ c \in Seated \ ready
  /\ HandleReady(c)
  /\ asked' = IF stage' = "BIDDING" THEN "bid" ELSE "ready"

PlaceBid(b) ==
  /\ \/ asked = "bid" /\ b \in BidOffers
     \/ asked = "final" /\ b \in FinalOffers
  /\ HandleBid(it.CURRENT, b)
  /\ asked' = CASE stage' = "BIDDING" -> "bid"
                [] stage' = "DEALING" -> "give"
                [] stage' = "PLAYING" -> "lead"

Give(x, y) ==
  LET left == NextOf(it.HIGHEST)
  IN  /\ asked = "give"
      /\ HandleDeal(left, x, NextOf(left), y)
      /\ asked' = "final"

(***************************************************************************)
(* A card is answered with the next question, with a new round's bidding,  *)
(* or, after the end message, with nothing: that message names no winner   *)
(* and its handler in the client fails before it asks anything.  Nobody is *)
(* asked either when handling the card has failed.                         *)
(***************************************************************************)
PlayCard(card) ==
  /\ asked \in {"lead", "follow"} /\ card \in CardOffers
  /\ HandlePlay(it.CURRENT, card)
  /\ asked' = CASE stage' = "BIDDING" -> "bid"
                [] stage' = "ADDING"  -> "none"
                [] OTHER -> IF vec' = << >> THEN "lead"
                            ELSE IF Len(vec') = MAX_PLAYERS THEN "none" ELSE "follow"

Leave(c) ==
  /\ asked \in LeaveIn
  /\ HandleLeave(c)
  /\ asked' = "seating"

Answer == \/ \E c \in Clients : PressReady(c)
          \/ \E b \in Bids \cup {PASS} : PlaceBid(b)
          \/ \E x, y \in Deck : Give(x, y)
          \/ \E card \in Deck : PlayCard(card)

Next == \/ Answer
        \/ \E c \in Clients : Join(c) \/ JoinFull(c) \/ Leave(c)

Spec == Init /\ [][Next]_vars

(***************************************************************************)
(* The users who are asked answer, sooner or later; nobody has to join, to *)
(* leave or to look at an old list of rooms.                               *)
(***************************************************************************)
Fairness == WF_vars(Answer)

FairSpec == Spec /\ Fairness
=============================================================================
