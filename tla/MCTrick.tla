------------------------------ MODULE MCTrick ------------------------------
(***************************************************************************)
(* Decks for the model checking of Trick.                                  *)
(***************************************************************************)
EXTENDS Trick

\* Three suits are enough for a led suit, a trump and a third one; the
\* fourth trump value, a suit nobody holds, behaves like no trump.
ThreeSuitDeck == CardsOf({NINE, QUEEN, KING, ACE}, {SPADES, DIAMONDS, HEARTS})
=============================================================================
