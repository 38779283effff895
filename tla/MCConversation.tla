--------------------------- MODULE MCConversation ---------------------------
(***************************************************************************)
(* A deck, its order and the questions under which players leave, for the  *)
(* model checking of Conversation.                                         *)
(***************************************************************************)
EXTENDS ConversationProperties

H(n) == [figure |-> n, suit |-> HEARTS]
F(n) == [figure |-> n, suit |-> SPADES]

\* One card each: six cards, two tricks.
SixCards == {H(KING), H(QUEEN), H(NINE), F(ACE), F(TEN), F(JACK)}
OneOrder == {<<H(KING), F(ACE), H(NINE), H(QUEEN), F(TEN), F(JACK)>>}

\* Leaves in the middle of a trick are the business of module Table.
BetweenTricks == Questions \ {"follow"}
=============================================================================
