------------------------------ MODULE MCTable ------------------------------
(***************************************************************************)
(* Decks, orders of the deck and questions for the model checking of       *)
(* Table.  A small deck has three cards more than the hands take, as the   *)
(* real one has.                                                           *)
(***************************************************************************)
EXTENDS TableProperties

F(n) == [figure |-> n, suit |-> SPADES]
H(n) == [figure |-> n, suit |-> HEARTS]

\* Two cards each: nine cards with both marriages, three tricks.
NineCards == {F(KING), F(QUEEN), F(ACE), F(NINE), H(KING), H(QUEEN), H(TEN),
              H(JACK), H(NINE)}

\* The first hand holds the marriage of spades; then one that is made by the
\* stock; then one marriage split between two hands and the other in the stock.
NineOrders ==
  { <<F(KING), F(QUEEN), H(TEN), F(NINE), H(JACK), F(ACE), H(KING), H(QUEEN), H(NINE)>>,
    <<F(KING), H(TEN), H(QUEEN), F(NINE), H(JACK), H(NINE), F(QUEEN), H(KING), F(ACE)>>,
    <<F(ACE), F(KING), F(QUEEN), H(NINE), H(TEN), F(NINE), H(KING), H(QUEEN), H(JACK)>> }

\* One card each: six cards, two tricks.
SixCards == {H(KING), H(QUEEN), H(NINE), F(ACE), F(TEN), F(JACK)}
SixOrders ==
  { <<H(KING), F(ACE), H(NINE), H(QUEEN), F(TEN), F(JACK)>>,
    <<F(JACK), H(QUEEN), F(ACE), H(KING), H(NINE), F(TEN)>> }

OneOrder == {<<H(KING), F(ACE), H(NINE), H(QUEEN), F(TEN), F(JACK)>>}

Always   == Questions
\* In the middle of a trick.
MidTrick == {"follow"}
\* Before, in and after the auction.
NowAndThen == {"ready", "bid", "lead"}
\* A player who leaves while cards are on the table leaves them there: see
\* the run for TableCleared.
BetweenTricks == Questions \ {"follow"}
=============================================================================
