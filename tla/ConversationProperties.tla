----------------------- MODULE ConversationProperties -----------------------
(***************************************************************************)
(* What a room and its clients promise each other: properties of module    *)
(* Conversation.                                                           *)
(***************************************************************************)
EXTENDS Conversation

Questions == {"seating", "ready", "bid", "give", "final", "lead", "follow", "none"}

TypeOK ==
  /\ \A c \in Clients :
       /\ deck[c] \in Seq(Deck) /\ ToSet(deck[c]) = hand[c]
       /\ client[c].cards \in Seq(Deck)
       /\ client[c].gone \cup client[c].available \cup client[c].drawn \subseteq DOMAIN client[c].cards
       /\ client[c].windows \subseteq {"ready", "bids", "win"}
       /\ client[c].bids \subseteq Bids \cup {PASS}
       /\ client[c].game \in Seq(Clients) \cup {NoGame}
  /\ asked \in Questions

\* What c keeps when it will have read all it was sent.
AfterReading(c) == FoldLeft(Read, client[c], toClient[c])

Sent(c, actions) == \E i \in DOMAIN toServer[c] : toServer[c][i].action \in actions

\* A game is on and nobody's leave is under way.
Undisturbed == it # NoIt /\ ~ mixed /\ \A c \in Clients : ~ Sent(c, {"leave"})

(***************************************************************************)
(* The room and its clients are a table: as long as no outdated answer has *)
(* reached a full table, every step of the room is one of a table whose    *)
(* players answer the question they were asked last, with the values       *)
(* offered, before anything else happens.  A leave may cross anything.     *)
(***************************************************************************)
TableView == INSTANCE Table WITH LeaveIn <- Questions, JoinFullIn <- {}

ImplementsTable == TableView!Spec

(***************************************************************************)
(* The room accepts every answer that is not outdated: the checks of the   *)
(* controllers throw on nothing the clients offer.                         *)
(***************************************************************************)
AnswersFit ==
  Idle /\ ~ mixed =>
    \A c \in Clients :
      toServer[c] # << >> /\ Head(toServer[c]).action \in Answers => ENABLED Take(c)

(***************************************************************************)
(* An index means the same card to a client and to the room: a client that *)
(* has read all its messages has the cards of its deck_ in their order,    *)
(* and those it still shows are those the room thinks unused, but for the  *)
(* ones it is about to be sent.                                            *)
(***************************************************************************)
CardsAgree ==
  Undisturbed => \A c \in Seated :
    LET k == AfterReading(c)
    IN  /\ k.cards = deck[c]
        /\ IndicesOf(c, used[c]) \subseteq k.gone
        /\ k.gone # IndicesOf(c, used[c]) => k.available # {} \/ Sent(c, {"deal", "play"})

(***************************************************************************)
(* While a game is on one player has the question: it is on its way to     *)
(* him, on his screen, or his answer is on its way back, and he is the one *)
(* the room waits for.  It is lost when handling a card has failed.        *)
(***************************************************************************)
HasQuestion(c) ==
  LET k == AfterReading(c)
  IN  Sent(c, Answers) \/ k.bids # {} \/ k.available \cap k.drawn # {}

OneQuestion ==
  Undisturbed /\ asked # "none" => \A c \in Clients : HasQuestion(c) <=> c = it.CURRENT
=============================================================================
