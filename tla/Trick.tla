------------------------------- MODULE Trick -------------------------------
(***************************************************************************)
(* One trick of the game, for the card algorithms alone: three cards are   *)
(* laid one after the other on an empty table, under any trump.  The hands *)
(* are not part of the state: the invariants quantify over every hand a    *)
(* player who has to answer may hold (see Table for the game itself).      *)
(***************************************************************************)
EXTENDS Cards

CONSTANTS
  Deck,      \* the cards of the game, Card in the program
  HandSizes  \* the sizes of the hands the invariants look at

ASSUME DeckAssumption == Deck \subseteq Card
ASSUME SizesAssumption == HandSizes \subseteq Nat \ {0}

MAX_PLAYERS == 3

VARIABLES
  cardsOnTable,  \* Game::vec_, without the players
  superSuit      \* Game::super_suit_

vars == <<cardsOnTable, superSuit>>

OnTable == {cardsOnTable[i] : i \in DOMAIN cardsOnTable}

Init == cardsOnTable = << >> /\ superSuit \in Suits \cup {NONE}

(***************************************************************************)
(* The first card.  A king or a queen whose partner is in the hand it came *)
(* from makes its suit trump; the hand may or may not hold the partner.    *)
(***************************************************************************)
Lead(c) ==
  /\ cardsOnTable = << >>
  /\ cardsOnTable' = <<c>>
  /\ \E hand \in {Deck, {}} :
       superSuit' = IF c.figure \in {KING, QUEEN} /\ DoesHavePair(hand \ {c}, c.suit)
                      THEN c.suit ELSE superSuit

(***************************************************************************)
(* The second and the third card, any card a player could hold.            *)
(***************************************************************************)
Answer(c) ==
  /\ cardsOnTable # << >> /\ Len(cardsOnTable) < MAX_PLAYERS
  /\ c \notin OnTable
  /\ cardsOnTable' = Append(cardsOnTable, c)
  /\ UNCHANGED superSuit

(***************************************************************************)
(* The trick is taken and the table cleared.                               *)
(***************************************************************************)
Take ==
  /\ Len(cardsOnTable) = MAX_PLAYERS
  /\ cardsOnTable' = << >>
  /\ UNCHANGED superSuit

Next == \/ \E c \in Deck : Lead(c) \/ Answer(c)
        \/ Take

Spec == Init /\ [][Next]_vars

-----------------------------------------------------------------------------
TypeOK ==
  /\ cardsOnTable \in Seq(Deck) /\ Len(cardsOnTable) =< MAX_PLAYERS
  /\ superSuit \in Suits \cup {NONE}

(***************************************************************************)
(* The pairwise comparisons of findSuperiorCard pick the card that the     *)
(* rule of the game names, whatever the order of suits on the table.       *)
(***************************************************************************)
SuperiorCardWins ==
  Len(cardsOnTable) = MAX_PLAYERS =>
    \A i \in DOMAIN cardsOnTable :
      (cardsOnTable[i] = FindSuperiorCard(cardsOnTable, superSuit))
        <=> IsTrickWinner(i, cardsOnTable, superSuit)

HandsToAnswer ==
  IF Len(cardsOnTable) \in {1, 2}
    THEN UNION {kSubset(n, Deck \ OnTable) : n \in HandSizes}
    ELSE {}

Valid(hand) == AllValidCards(hand, cardsOnTable, superSuit)

(***************************************************************************)
(* Whether the card, laid now, would be ahead of every card on the table.  *)
(***************************************************************************)
Wins(c) ==
  IsTrickWinner(Len(cardsOnTable) + 1, Append(cardsOnTable, c), superSuit)

(***************************************************************************)
(* A player who answers is never left without a card to play, and the      *)
(* cards he is offered either all take the lead or none does: a player is  *)
(* never free to choose between winning and losing.                        *)
(***************************************************************************)
OffersAreUniform ==
  \A hand \in HandsToAnswer :
    /\ Valid(hand) # {} /\ Valid(hand) \subseteq hand
    /\ \/ \A c \in Valid(hand) : Wins(c)
       \/ \A c \in Valid(hand) : ~ Wins(c)

(***************************************************************************)
(* A player who is offered only losing cards either follows the suit that  *)
(* was led, or holds neither that suit nor a card that could win.          *)
(***************************************************************************)
LosingOffersFollowSuit ==
  \A hand \in HandsToAnswer :
    (\A c \in Valid(hand) : ~ Wins(c)) =>
      \/ \A c \in Valid(hand) : c.suit = cardsOnTable[1].suit
      \/ \A c \in hand : ~ Wins(c) /\ c.suit # cardsOnTable[1].suit
=============================================================================
