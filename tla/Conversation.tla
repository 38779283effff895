---------------------------- MODULE Conversation ----------------------------
(***************************************************************************)
(* A room and the browsers of its players, message by message.  Each       *)
(* client has a connection that keeps messages in order in both            *)
(* directions; messages of different clients and directions cross.         *)
(*                                                                         *)
(* The room is the one of module Room.  A client is what Controller, Game, *)
(* SelfPlayer and View keep: the players, its own cards with their         *)
(* indices, and the windows and buttons that are shown.  A message that    *)
(* only redraws the page is left out, and so is one that is copied to      *)
(* players it asks nothing: bids, tricks and the stock of others.          *)
(***************************************************************************)
EXTENDS Room

CONSTANTS
  Bids,    \* the values on the bid buttons
  Leaves,  \* bound on the times the players leave
  LeaveIn, \* the questions of module Table under which players leave
  Slow     \* the clients whose messages may be on their way while others act

MIN_RAISE == 10

ASSUME FewAssumption ==
  /\ IsFiniteSet(Clients) /\ Cardinality(Clients) =< MAX_PLAYERS
  /\ Leaves \in Nat /\ Slow \subseteq Clients
ASSUME BidsAssumption == Bids \subseteq Nat \ (0 .. 99) /\ 100 \in Bids

VARIABLES
  deck,      \* PlayersDeck::deck_ of each player: the cards of `hand' in order
  toServer,  \* messages on their way from each client
  toClient,  \* messages on their way to each client
  client,    \* what each client keeps
  asked,     \* history: the question of module Table the room has put last
  mixed,     \* history: an outdated answer has reached a table that is full again
  left       \* the times a player has left, counted for the bound

netVars == <<toServer, toClient>>
vars == <<roomVars, deck, netVars, client, asked, mixed, left>>

NoGame == <<None>>

\* Controller.game's players and whether its round is not 0; SelfPlayer's cards,
\* the indices of the used, of the available and of the drawn ones; the windows
\* that are shown, and the buttons in the one for bids.
NewClient == [game |-> NoGame, begun |-> FALSE, cards |-> << >>, gone |-> {},
              available |-> {}, drawn |-> {}, windows |-> {}, bids |-> {}]

Init ==
  /\ RoomInit /\ asked = "seating"
  /\ deck = [c \in Clients |-> << >>]
  /\ toServer = [c \in Clients |-> << >>] /\ toClient = [c \in Clients |-> << >>]
  /\ client = [c \in Clients |-> NewClient] /\ mixed = FALSE /\ left = 0

-----------------------------------------------------------------------------
(***************************************************************************)
(* The server.                                                             *)
(***************************************************************************)
Silence == [c \in Clients |-> << >>]
To(c, msg) == [Silence EXCEPT ![c] = <<msg>>]

\* Each client is sent what `out' has for it.
Tell(out) == toClient' = [c \in Clients |-> toClient[c] \o out[c]]

\* Cards are added at the end of a deck; a new deal begins a new one.
Stack ==
  deck' = [c \in Clients |->
             IF hand[c] \subseteq hand'[c] THEN deck[c] \o SetToSeq(hand'[c] \ hand[c])
                                           ELSE SetToSeq(hand'[c])]

IndicesOf(c, cards) == {i \in DOMAIN deck[c] : deck[c][i] \in cards}

\* Bidder::constructAdvancedBidMessage
BidQuestion == [action |-> "bid", min |-> claim'[it'.HIGHEST] + MIN_RAISE,
                max |-> MaxValue(hand'[it'.CURRENT])]

\* createCardDealingMessages and firstBid
Opening(c) ==
  IF c \notin Seated THEN << >>
  ELSE <<[action |-> "deal", data |-> deck'[c]]>>
       \o (IF c = it'.CURRENT THEN <<BidQuestion>> ELSE << >>)

\* An answer is outdated when somebody has left the table it was given at.
Answers == {"ready", "bid", "deal", "play"}
Outdated(msg) == msg.action \in Answers /\ msg.old

TakeAdd(c) ==
  /\ HandleAdd(c)
  /\ asked' = IF Len(players') = MAX_PLAYERS THEN "ready" ELSE "seating"
  /\ Tell([d \in Clients |->
             IF d = c THEN <<[action |-> "add", data |-> players']>>
             ELSE IF d \in Seated THEN <<[action |-> "new_player", data |-> c]>> ELSE << >>])
  /\ UNCHANGED deck

TakeReady(c) ==
  /\ HandleReady(c)
  /\ \/ stage' = "BIDDING" /\ asked' = "bid" /\ Stack /\ Tell([d \in Clients |-> Opening(d)])
     \/ stage' # "BIDDING" /\ UNCHANGED <<asked, deck, toClient>>

TakeBid(c, b) ==
  /\ HandleBid(c, b)
  /\ Stack
  /\ \/ stage' = "BIDDING" /\ asked' = "bid" /\ Tell(To(it'.CURRENT, BidQuestion))
     \/ /\ stage' = "DEALING" /\ asked' = "give"
        /\ Tell(To(it'.HIGHEST, [action |-> "stock", data |-> SetToSeq(stock)]))
     \/ stage' = "PLAYING" /\ asked' = "lead" /\ Tell(To(it'.HIGHEST, [action |-> "start"]))

\* The players' cards in a message are indices into the author's deck_.
TakeDeal(c, gift) ==
  LET x == deck[c][gift.first]
      y == deck[c][gift.second]
  IN  /\ HandleDeal(gift.left, x, gift.right, y)
      /\ Stack
      /\ asked' = "final"
      /\ Tell([[Silence EXCEPT ![gift.left] = <<[action |-> "deal", data |-> <<x>>]>>,
                               ![gift.right] = <<[action |-> "deal", data |-> <<y>>]>>]
                 EXCEPT ![c] = <<[action |-> "bid", min |-> claim[c], max |-> MaxValue(hand[c])]>>])

\* Mutant of AvailableNext: the cards are looked for before the table is cleared.
AvailableBefore ==
  AllValidCards(hand[it'.CURRENT] \ used'[it'.CURRENT], TableCards, superSuit')

\* getAllValidCards for the player who is next
AvailableNext ==
  AllValidCards(hand[it'.CURRENT] \ used'[it'.CURRENT],
                [i \in DOMAIN vec' |-> vec'[i].card], superSuit')

\* The end message, and whether a client finds the player it is about: it looks
\* for a winner, and for nobody after a leave.
End(found) == [action |-> "end", data |-> found]

TakePlay(c, i) ==
  /\ HandlePlay(c, deck[c][i])
  /\ Stack
  /\ \/ /\ report'.sent /\ ~ report'.over
        /\ asked' = "bid"
        /\ Tell([d \in Clients |-> IF d \in Seated
                                     THEN <<[action |-> "score"]>> \o Opening(d) ELSE << >>])
     \/ /\ report'.sent /\ report'.over
        /\ asked' = "none"
        /\ Tell([d \in Clients |-> IF d \in Seated
                                     THEN <<[action |-> "score"], End(report'.winner # None)>>
                                     ELSE << >>])
     \/ /\ ~ report'.sent /\ Len(vec') # MAX_PLAYERS
        /\ asked' = IF vec' = << >> THEN "lead" ELSE "follow"
        /\ Tell(To(it'.CURRENT, [action |-> "play",
                                 available |-> IndicesOf(it'.CURRENT, AvailableNext)]))
     \/ ~ report'.sent /\ Len(vec') = MAX_PLAYERS /\ asked' = "none" /\ UNCHANGED toClient

\* LeaveBuster::createMessages: the end of a game follows the leave.
TakeLeave(c) ==
  /\ asked \in LeaveIn
  /\ HandleLeave(c)
  /\ asked' = "seating"
  /\ deck' = [d \in Clients |-> << >>]
  /\ Tell([d \in Clients |->
             IF d \notin Seated \ {c} THEN << >>
             ELSE <<[action |-> "leave", data |-> c]>>
                  \o (IF stage # "ADDING" THEN <<End(TRUE)>> ELSE << >>)])

(***************************************************************************)
(* A leave makes every answer on its way an outdated one.  At a table that *)
(* is not full getPlayer throws on it.  At a full one nothing tells it     *)
(* from an answer to the present question: the model ends there.           *)
(***************************************************************************)
Aged(s) ==
  [i \in DOMAIN s |-> IF s[i].action \in Answers
                       THEN [action |-> s[i].action, data |-> s[i].data, old |-> TRUE]
                       ELSE s[i]]

TakeOutdated ==
  /\ mixed' = (Len(players) = MAX_PLAYERS)
  /\ UNCHANGED <<roomVars, deck, toClient, asked>>

TakeMessage(c, msg) ==
  \/ msg.action = "add" /\ TakeAdd(c)
  \/ msg.action = "leave" /\ TakeLeave(c)
  \/ msg.action = "ready" /\ TakeReady(c)
  \/ msg.action = "bid" /\ TakeBid(c, msg.data)
  \/ msg.action = "deal" /\ TakeDeal(c, msg.data)
  \/ msg.action = "play" /\ TakePlay(c, msg.data)

Take(c) ==
  /\ ~ mixed /\ toServer[c] # << >>
  /\ LET msg == Head(toServer[c])
         rest == [toServer EXCEPT ![c] = Tail(@)]
     IN  \/ /\ Outdated(msg) /\ TakeOutdated
            /\ toServer' = rest
         \/ /\ ~ Outdated(msg) /\ TakeMessage(c, msg)
            /\ toServer' = IF msg.action = "leave" THEN [d \in Clients |-> Aged(rest[d])]
                                                   ELSE rest
            /\ UNCHANGED mixed
  /\ UNCHANGED <<client, left>>

-----------------------------------------------------------------------------
(***************************************************************************)
(* A client reads a message: k is what it keeps.  Without a game the       *)
(* handlers throw before they change anything.                             *)
(***************************************************************************)

\* Game.checkReady
AskReady(windows, game) ==
  IF Len(game) = MAX_PLAYERS THEN windows \cup {"ready"} ELSE windows

\* addCard for each card of a message, and drawCards
AddCards(k, cards) ==
  [k EXCEPT !.cards = @ \o cards, !.drawn = 1 .. Len(k.cards \o cards)]

\* Mutant of ClearCardData: the cards are forgotten, what is known of them is not.
ClearCardsOnly(k) == [k EXCEPT !.cards = << >>]

\* A card that is still drawn is clicked in vain when its data is gone.
ClearCardData(k) ==
  [k EXCEPT !.cards = << >>, !.gone = {}, !.available = {}, !.drawn = {}]

ClearTable(k) == [k EXCEPT !.drawn = {}]

HideModals(k) == [k EXCEPT !.windows = {}, !.bids = {}]

AllAvailable(k) == [k EXCEPT !.available = DOMAIN k.cards]

ReadAdd(k, game) ==
  [k EXCEPT !.game = game, !.begun = FALSE, !.windows = AskReady(@, game)]

ReadNewPlayer(k, id) ==
  [k EXCEPT !.game = Append(@, id), !.windows = AskReady(@, Append(k.game, id))]

\* The first deal of a game begins a round; those of later rounds follow a score.
ReadDeal(k, cards) ==
  IF k.begun THEN AddCards(k, cards)
  ELSE AddCards([ClearCardData(k) EXCEPT !.begun = TRUE], cards)

\* View.showBids: a player with the stock bids for the last time and cannot pass.
ReadBid(k, min, max) ==
  [k EXCEPT !.windows = @ \cup {"bids"},
            !.bids = {b \in Bids : min =< b /\ b =< max}
                     \cup (IF Len(k.cards) # HandSize + 3 THEN {PASS} ELSE {})]

\* Mutant of ReadScore: the cards stay.
ReadScoreKeeps(k) == [k EXCEPT !.begun = TRUE]

ReadScore(k) == [ClearCardData(k) EXCEPT !.begun = TRUE]

\* Without the player the handler throws before it shows the window.
ReadEnd(k, found) ==
  [k EXCEPT !.begun = FALSE, !.windows = IF found THEN @ \cup {"win"} ELSE @]

ReadLeave(k, id) == [ClearCardData(HideModals(k)) EXCEPT !.game = RemoveFirst(@, id)]

Read(k, msg) ==
  CASE msg.action = "add" -> ReadAdd(k, msg.data)
    [] msg.action # "add" /\ k.game = NoGame -> k
    [] msg.action = "new_player" /\ k.game # NoGame -> ReadNewPlayer(k, msg.data)
    [] msg.action = "deal" /\ k.game # NoGame -> ReadDeal(k, msg.data)
    [] msg.action = "bid" /\ k.game # NoGame -> ReadBid(k, msg.min, msg.max)
    [] msg.action = "stock" /\ k.game # NoGame -> AllAvailable(AddCards(k, msg.data))
    [] msg.action = "start" /\ k.game # NoGame -> AllAvailable(k)
    [] msg.action = "play" /\ k.game # NoGame -> [k EXCEPT !.available = msg.available]
    [] msg.action = "score" /\ k.game # NoGame -> ReadScore(k)
    [] msg.action = "end" /\ k.game # NoGame -> ReadEnd(k, msg.data)
    [] msg.action = "leave" /\ k.game # NoGame -> ReadLeave(k, msg.data)

Receive(c) ==
  /\ toClient[c] # << >>
  /\ client' = [client EXCEPT ![c] = Read(@, Head(toClient[c]))]
  /\ toClient' = [toClient EXCEPT ![c] = Tail(@)]
  /\ UNCHANGED <<roomVars, deck, toServer, asked, mixed, left>>

-----------------------------------------------------------------------------
(***************************************************************************)
(* The users.                                                              *)
(***************************************************************************)
Send(c, msg) ==
  /\ toServer' = [toServer EXCEPT ![c] = Append(@, msg)]
  /\ UNCHANGED <<roomVars, deck, toClient, asked, mixed>>

\* An answer, and whether somebody's leave has not been read by then.
Reply(c, action, data) ==
  Send(c, [action |-> action, data |-> data,
           old |-> \E i \in DOMAIN toClient[c] : toClient[c][i].action = "leave"])

Update(c, k) == client' = [client EXCEPT ![c] = k]

\* A user who waits for the answer does not ask for a seat again.
RequestRoom(c) ==
  /\ client[c].game = NoGame
  /\ \A msg \in ToSet(toServer[c]) \cup ToSet(toClient[c]) : msg.action # "add"
  /\ Send(c, [action |-> "add"])
  /\ UNCHANGED client

SendReady(c) ==
  /\ "ready" \in client[c].windows
  /\ Update(c, HideModals(client[c]))
  /\ Reply(c, "ready", None)

SendBid(c) ==
  \E b \in client[c].bids :
    /\ Update(c, HideModals(client[c]))
    /\ Reply(c, "bid", b)

\* The button of the window that announces the end of a game.
DismissEnd(c) ==
  /\ "win" \in client[c].windows
  /\ Update(c, [ClearTable(HideModals(client[c]))
                 EXCEPT !.windows = AskReady({}, client[c].game)])
  /\ UNCHANGED <<roomVars, deck, netVars, asked, mixed>>

\* The left and the right player, in the order of the client's own list.
Neighbour(c, n) ==
  LET game == client[c].game
      index == CHOOSE i \in DOMAIN game : game[i] = c
  IN  game[((index + n - 1) % MAX_PLAYERS) + 1]

GiveAwayCards(c, first, second) ==
  Reply(c, "deal", [left |-> Neighbour(c, 1), first |-> first,
                    right |-> Neighbour(c, 2), second |-> second])

\* Mutant of NoneAvailable: the cards can still be clicked.
SomeAvailable(k) == k

NoneAvailable(k) == [k EXCEPT !.available = {}]

\* SelfPlayer.useCard: of the ten cards the first two are given away, together.
UseCard(c) ==
  \E i \in client[c].available \cap client[c].drawn :
    LET k == [client[c] EXCEPT !.gone = @ \cup {i}, !.available = @ \ {i},
                               !.drawn = @ \ {i}]
        gives == Len(k.cards) = HandSize + 3 /\ Cardinality(k.gone) = 2
        plays == Len(k.cards) = HandSize + 1 \/ Cardinality(k.gone) > 2
    IN  \/ /\ gives
           /\ Update(c, NoneAvailable(k))
           /\ \E first \in k.gone \ {i} : GiveAwayCards(c, first, i)
        \/ /\ ~ gives /\ plays
           /\ Update(c, NoneAvailable(k))
           /\ Reply(c, "play", i)
        \/ /\ ~ gives /\ ~ plays
           /\ Update(c, k)
           /\ UNCHANGED <<roomVars, deck, netVars, asked, mixed>>

LeaveRoom(c) ==
  /\ left < Leaves /\ asked \in LeaveIn
  /\ client[c].game # NoGame
  /\ left' = left + 1
  /\ Update(c, [ClearTable(HideModals(client[c])) EXCEPT !.game = NoGame])
  /\ Send(c, [action |-> "leave"])

User(c) ==
  \/ /\ RequestRoom(c) \/ SendReady(c) \/ SendBid(c) \/ DismissEnd(c) \/ UseCard(c)
     /\ UNCHANGED left
  \/ LeaveRoom(c)

(***************************************************************************)
(* The messages from and to a client that is not slow arrive before        *)
(* anybody else does anything.                                             *)
(***************************************************************************)
Idle == \A c \in Clients \ Slow : toServer[c] = << >> /\ toClient[c] = << >>

Next ==
  \E c \in Clients :
    \/ (c \in Slow => Idle) /\ (Take(c) \/ Receive(c))
    \/ Idle /\ User(c)

Spec == Init /\ [][Next]_vars
=============================================================================
