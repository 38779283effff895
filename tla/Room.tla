------------------------------- MODULE Room -------------------------------
(***************************************************************************)
(* One room of the server: class Room and the controllers it dispatches a  *)
(* message to (Adder, Bidder with its Starter, Dealer, Game with its       *)
(* SumScore, LeaveBuster), over the players, the cards and the score.      *)
(*                                                                         *)
(* Room::runGame handles one message at a time, so each operator below is  *)
(* one message handled to its end: the controller's changeModel, what its  *)
(* createMessages changes, the new stage, and after the last trick of a    *)
(* round the next deal.  A message a controller throws on changes nothing  *)
(* unless an operator says otherwise; a chat message never does.           *)
(*                                                                         *)
(* The module has handlers and no next-state relation: who sends which     *)
(* message when is the business of the modules that extend this one.       *)
(*                                                                         *)
(* Attributes of a Player object are functions of its id; an id that is    *)
(* not seated has the values a new Player is made with.                    *)
(***************************************************************************)
EXTENDS Cards, SequencesExt

CONSTANTS
  Clients,           \* the ids the server gave to its sessions
  Deck,              \* the cards of the game: Card in the program
  HandSize,          \* MAX_CARDS, the cards dealt to each player: 7
  Shuffles,          \* the orders std::shuffle may leave the deck in
  PointsWinningCap,  \* POINTS_WINNING_CAP: 1000
  NoTaxCap           \* NO_TAX_CAP: 800

MAX_PLAYERS == 3
\* Mutant of MaxTurns: a round of one trick more than a hand has cards.
MaxTurnsOneMore == HandSize + 2

MaxTurns    == HandSize + 1  \* MAX_TURNS: 8
PASS        == -1
None        == -1            \* no player
DeckSize    == MAX_PLAYERS * HandSize + 3

ASSUME ClientsAssumption == Clients \subseteq Nat
ASSUME DeckAssumption    == Deck \subseteq Card
ASSUME HandAssumption    == HandSize \in Nat \ {0}
ASSUME WholeDeckAssumption == Cardinality(Deck) = DeckSize
ASSUME CapsAssumption    == PointsWinningCap \in Nat \ {0} /\ NoTaxCap \in Nat
ASSUME ShuffleAssumption ==
  /\ Shuffles # {}
  /\ \A s \in Shuffles :
       /\ s \in [1 .. DeckSize -> Deck]
       /\ \A i, j \in 1 .. DeckSize : s[i] = s[j] => i = j

VARIABLES
  stage,      \* Room::stage_
  players,    \* the ids of PlayersCollection::players_, in their order
  ready,      \* the ids whose Player::ready_ is set
  claim,      \* Score::claim_
  temp,       \* Score::temp_score_
  score,      \* Score::score_
  hand,       \* the cards in PlayersDeck::deck_, used ones included
  used,       \* those of them whose is_used_ is set
  it,         \* PlayersCollection::it_, NoIt when it has been cleared
  stock,      \* the cards from Deck::deck_it_ on, {} when it is at begin
  gifts,      \* Dealer::counter, 2 standing for every number from 2 on
  vec,        \* Game::vec_
  turn,       \* Game::turn_counter_
  superSuit,  \* Game::super_suit_
  report,     \* the score and end messages the last step sent
  undefined   \* whether it_ has been read while it was empty

cardVars == <<hand, used, stock>>
gameVars == <<vec, turn, superSuit>>
roomVars == <<stage, players, ready, claim, temp, score, cardVars, it, gifts,
              gameVars, report, undefined>>

Stages == {"FAIL", "ADDING", "BIDDING", "DEALING", "PLAYING"}
NoIt == [CURRENT |-> None, COMPULSORY |-> None, HIGHEST |-> None]
NoReport == [sent |-> FALSE]
Zero == [c \in Clients |-> 0]
NoCards == [c \in Clients |-> {}]

Seated    == {players[i] : i \in DOMAIN players}
SeatOf(c) == CHOOSE i \in DOMAIN players : players[i] = c
NextOf(c) == players[(SeatOf(c) % MAX_PLAYERS) + 1]
Unused(c) == hand[c] \ used[c]
TableCards == [i \in DOMAIN vec |-> vec[i].card]

RoomInit ==
  /\ stage = "ADDING" /\ players = << >> /\ ready = {}
  /\ claim = Zero /\ temp = Zero /\ score = Zero
  /\ hand = NoCards /\ used = NoCards /\ stock = {}
  /\ it = NoIt /\ gifts = 0
  /\ vec = << >> /\ turn = 0 /\ superSuit = NONE
  /\ report = NoReport /\ undefined = FALSE
-----------------------------------------------------------------------------
(***************************************************************************)
(* Add.  A full room refuses, and the refusal becomes the room's stage.    *)
(***************************************************************************)
HandleAdd(c) ==
  /\ report' = NoReport
  /\ IF Len(players) < MAX_PLAYERS
       THEN /\ players' = Append(players, c)
            /\ stage' = "ADDING"
       ELSE /\ stage' = "FAIL"
            /\ UNCHANGED players
  /\ UNCHANGED <<ready, claim, temp, score, cardVars, it, gifts, gameVars,
                 undefined>>

(***************************************************************************)
(* The start of a round with the compulsory bid at seat i: prepareGame and *)
(* dealCards, `bids' being the claims they start from.  Deck::dealCards    *)
(* shuffles and gives every seat, in order, its next HandSize cards.       *)
(***************************************************************************)
PrepareGame(i, bids) ==
  /\ it' = [CURRENT    |-> players[(i % MAX_PLAYERS) + 1],
            COMPULSORY |-> players[i],
            HIGHEST    |-> players[i]]
  /\ claim' = [bids EXCEPT ![players[i]] = 100]

\* Mutant of DealCards: the deck's iterator stays on a seat's last card.
DealCardsTwice ==
  /\ \E s \in Shuffles :
       LET Portion(k) == {s[j] : j \in (k - 1) * HandSize + 1 .. k * HandSize + 1}
       IN  /\ hand' = [c \in Clients |->
                         IF c \in Seated THEN Portion(SeatOf(c)) ELSE {}]
           /\ stock' = {s[j] : j \in MAX_PLAYERS * HandSize + 1 .. DeckSize}
  /\ used' = NoCards

DealCards ==
  /\ \E s \in Shuffles :
       LET Portion(k) == {s[j] : j \in (k - 1) * HandSize + 1 .. k * HandSize}
       IN  /\ hand' = [c \in Clients |->
                         IF c \in Seated THEN Portion(SeatOf(c)) ELSE {}]
           /\ stock' = {s[j] : j \in MAX_PLAYERS * HandSize + 1 .. DeckSize}
  /\ used' = NoCards

\* Mutant of IsReadyToStart: the size is compared with one more player.
IsReadyForFourth == Cardinality(ready') > MAX_PLAYERS

(***************************************************************************)
(* Starter::isReadyToStart at a full table.                                *)
(***************************************************************************)
IsReadyToStart == ready' = Seated

(***************************************************************************)
(* Ready, which the room sends to the Bidder.  In ADDING it is the         *)
(* Starter's; in any other stage the Bidder takes it for a bid, and when   *)
(* no game is on it looks up the current player in an empty it_.           *)
(***************************************************************************)
HandleReady(c) ==
  /\ Len(players) = MAX_PLAYERS /\ c \in Seated
  /\ report' = NoReport
  /\ \/ /\ stage = "ADDING"
        /\ ready' = ready \cup {c}
        /\ IF IsReadyToStart
             THEN PrepareGame(1, claim) /\ DealCards /\ stage' = "BIDDING"
             ELSE stage' = "ADDING" /\ UNCHANGED <<it, claim, cardVars>>
        /\ UNCHANGED undefined
     \/ /\ stage # "ADDING" /\ it = NoIt
        /\ undefined' = TRUE
        /\ UNCHANGED <<stage, ready, claim, it, cardVars>>
  /\ UNCHANGED <<players, temp, score, gifts, gameVars>>
-----------------------------------------------------------------------------
\* Mutants of NextBidder: the player who has passed is not skipped; only the
\* next player is looked at.
NextBidderPassed(c, bids) == NextOf(c)
NextBidderOnce(c, bids) == IF bids[NextOf(c)] # PASS THEN NextOf(c) ELSE c

(***************************************************************************)
(* Bid.  The next bidder is the next player at the table who has not       *)
(* passed; when that is the player with the highest bid, the bidding is    *)
(* over and he takes the stock.                                            *)
(***************************************************************************)
NextBidder(c, bids) ==
  LET n == NextOf(c)
  IN  IF bids[n] # PASS THEN n
      ELSE IF bids[NextOf(n)] # PASS THEN NextOf(n) ELSE c

\* Mutant of BidIsCorrect: a pass is refused for being less than the highest bid.
BidIsCorrectNoPass(c, b) == it.CURRENT = c /\ claim[it.HIGHEST] =< b

BidIsCorrect(c, b) == it.CURRENT = c /\ (claim[it.HIGHEST] =< b \/ b = PASS)

RegularBid(c, b) ==
  /\ it.CURRENT # it.HIGHEST
  /\ b > claim[c] \/ b = PASS
  /\ claim' = [claim EXCEPT ![c] = b]
  /\ it' = [it EXCEPT !.HIGHEST = IF b = PASS THEN @ ELSE c,
                      !.CURRENT = NextBidder(c, claim')]
  /\ IF it'.CURRENT = it'.HIGHEST
       THEN /\ hand' = [hand EXCEPT ![it'.HIGHEST] = @ \cup stock]
            /\ stock' = {}
            /\ stage' = "DEALING"
       ELSE stage' = "BIDDING" /\ UNCHANGED <<hand, stock>>

FinalBid(c, b) ==
  /\ it.CURRENT = it.HIGHEST
  /\ b >= claim[c] \/ b = PASS
  /\ claim' = [claim EXCEPT ![c] = b]
  /\ stage' = "PLAYING"
  /\ UNCHANGED <<it, hand, stock>>

HandleBid(c, b) ==
  /\ stage # "ADDING" /\ it # NoIt
  /\ BidIsCorrect(c, b)
  /\ RegularBid(c, b) \/ FinalBid(c, b)
  /\ report' = NoReport
  /\ UNCHANGED <<players, ready, temp, score, used, gifts, gameVars, undefined>>

(***************************************************************************)
(* Deal: the player with the highest bid gives card x to p and card y to   *)
(* q.  Each copy goes unused into the peer's hand; the original stays,     *)
(* marked used.  Dealer::user_id_ is compared between the two gifts only.  *)
(***************************************************************************)
HandleDeal(p, x, q, y) ==
  LET h == it.HIGHEST
  IN  /\ {p, q} \subseteq Seated \ {h}
      /\ gifts = 0 => p # q
      /\ x # y /\ {x, y} \subseteq Unused(h)
      /\ hand' = [c \in Clients |-> hand[c] \cup (IF c = p THEN {x} ELSE {})
                                            \cup (IF c = q THEN {y} ELSE {})]
      /\ used' = [used EXCEPT ![h] = @ \cup {x, y}]
      /\ gifts' = 2
      /\ stage' = "DEALING"
      /\ report' = NoReport
      /\ UNCHANGED <<players, ready, claim, temp, score, stock, it, gameVars,
                     undefined>>
-----------------------------------------------------------------------------
(***************************************************************************)
(* The end of a round.                                                     *)
(***************************************************************************)
RoundTen(n) == LET r == n % 10 IN IF r >= 5 THEN n + 10 - r ELSE n - r

RoundScore(t, bid, total) ==
  IF bid # PASS THEN IF t >= bid THEN bid ELSE -bid
  ELSE IF total >= NoTaxCap THEN 0 ELSE RoundTen(t)

(***************************************************************************)
(* SumScore::sumUpScore over the turn scores t, as a record of what is     *)
(* left behind: the loop rounds and adds player by player and returns at   *)
(* the first one who reaches the cap, so the players after him keep their  *)
(* scores as they were.                                                    *)
(***************************************************************************)
SummedUp(t) ==
  LET rounded(i) == RoundScore(t[players[i]], claim[players[i]], score[players[i]])
      stops == {i \in DOMAIN players :
                  score[players[i]] + rounded(i) >= PointsWinningCap}
      reached(c) == c \in Seated /\ \A i \in stops : SeatOf(c) =< i
  IN  [temp |-> [c \in Clients |-> IF reached(c) THEN rounded(SeatOf(c)) ELSE t[c]],
       over |-> stops # {}]

\* Mutants of NextRound: the stage stays the one the Game has returned; the
\* same player is compulsory again.
NextRoundUnstaged ==
  /\ stage' = "SUMMING_UP"
  /\ PrepareGame(((it.COMPULSORY + 1) % MAX_PLAYERS) + 1, Zero)
  /\ DealCards
  /\ UNCHANGED gifts
NextRoundSamePlayer ==
  /\ stage' = "BIDDING"
  /\ PrepareGame((it.COMPULSORY % MAX_PLAYERS) + 1, Zero)
  /\ DealCards
  /\ UNCHANGED gifts

(***************************************************************************)
(* Nobody has reached the cap: the room has the next round dealt.  Its     *)
(* compulsory seat is the id of the last compulsory player plus one, used  *)
(* as an index.  it_ has been cleared by then and that id is read from the *)
(* cleared vector, whose storage a release build leaves alone.             *)
(***************************************************************************)
NextRound ==
  /\ stage' = "BIDDING"
  /\ PrepareGame(((it.COMPULSORY + 1) % MAX_PLAYERS) + 1, Zero)
  /\ DealCards
  /\ UNCHANGED gifts

(***************************************************************************)
(* The end message, after which every controller is reset.                 *)
(***************************************************************************)
GameOver ==
  /\ stage' = "ADDING"
  /\ it' = NoIt /\ claim' = Zero
  /\ hand' = NoCards /\ used' = NoCards /\ UNCHANGED stock
  /\ gifts' = 0

(***************************************************************************)
(* SumScore::createMessage: the score message is followed by a reset of    *)
(* every attribute, the total scores included.  After that the end message *)
(* looks for the winner among the totals, or the next round is dealt.      *)
(***************************************************************************)
EndOfRound(t) ==
  LET sum == SummedUp(t)
      winners == {c \in Seated : score'[c] >= PointsWinningCap}
  IN  /\ temp' = Zero /\ score' = Zero /\ ready' = {}
      /\ report' = [sent |-> TRUE, scores |-> sum.temp, over |-> sum.over,
                    winner |-> IF winners = {} THEN None
                               ELSE CHOOSE c \in winners : TRUE]
      /\ turn' = 0 /\ superSuit' = NONE /\ vec' = << >>
      /\ IF sum.over THEN GameOver ELSE NextRound

\* Mutant of Announces: the pair is looked for before the card is marked used.
AnnouncesAlone(c, card) ==
  /\ vec = << >> /\ card.figure \in {KING, QUEEN}
  /\ DoesHavePair(Unused(c), card.suit)

(***************************************************************************)
(* The card a player puts on the table: it may announce a marriage, which  *)
(* scores at once and sets the trump.                                      *)
(***************************************************************************)
Announces(c, card) ==
  /\ vec = << >> /\ card.figure \in {KING, QUEEN}
  /\ DoesHavePair(Unused(c) \ {card}, card.suit)

Points(table) ==
  table[1].card.figure + table[2].card.figure + table[3].card.figure

(***************************************************************************)
(* The player whose card takes a full table; the code's search ends at the *)
(* last card that equals the winning one.                                  *)
(***************************************************************************)
TakenBy(c, table, trump) ==
  LET best == FindSuperiorCard([i \in DOMAIN table |-> table[i].card], trump)
  IN  \E i \in DOMAIN table :
        /\ table[i].player = c /\ table[i].card = best
        /\ \A k \in DOMAIN table : table[k].card = best => k =< i

\* Mutant of PlayOn: the turn does not pass to the next player.
PlayOnSamePlayer(c, card, table) ==
  /\ Len(table) # MAX_PLAYERS
  /\ vec' = table /\ stage' = "PLAYING"
  /\ used' = [used EXCEPT ![c] = @ \cup {card}]
  /\ report' = NoReport
  /\ UNCHANGED <<ready, claim, score, hand, stock, gifts, turn, it>>

(***************************************************************************)
(* Fewer than three cards on the table, or more.                           *)
(***************************************************************************)
PlayOn(c, card, table) ==
  /\ Len(table) # MAX_PLAYERS
  /\ vec' = table /\ stage' = "PLAYING"
  /\ it' = [it EXCEPT !.CURRENT = NextOf(c)]
  /\ used' = [used EXCEPT ![c] = @ \cup {card}]
  /\ report' = NoReport
  /\ UNCHANGED <<ready, claim, score, hand, stock, gifts, turn>>

(***************************************************************************)
(* The winning card is of a player who has left: nobody can be given the   *)
(* points, and the exception leaves what has been done so far.             *)
(***************************************************************************)
PlayFails(c, card, table) ==
  /\ \A w \in Seated : ~ TakenBy(w, table, superSuit')
  /\ vec' = table
  /\ it' = [it EXCEPT !.CURRENT = NextOf(c)]
  /\ used' = [used EXCEPT ![c] = @ \cup {card}]
  /\ report' = NoReport
  /\ UNCHANGED <<stage, ready, claim, score, hand, stock, gifts, turn>>

(***************************************************************************)
(* The trick is taken and its winner leads the next one.                   *)
(***************************************************************************)
TakeTrick(c, card, winner) ==
  /\ turn + 1 # MaxTurns
  /\ turn' = turn + 1 /\ vec' = << >> /\ stage' = "PLAYING"
  /\ it' = [it EXCEPT !.CURRENT = winner]
  /\ used' = [used EXCEPT ![c] = @ \cup {card}]
  /\ report' = NoReport
  /\ UNCHANGED <<ready, claim, score, hand, stock, gifts>>

HandlePlay(c, card) ==
  LET table  == Append(vec, [player |-> c, card |-> card])
      trump  == IF Announces(c, card) THEN card.suit ELSE superSuit
      scored == [temp EXCEPT ![c] = @ + (IF Announces(c, card) THEN card.suit ELSE 0)]
  IN  /\ it.CURRENT = c /\ c \in Seated
      /\ card \in Unused(c)
      /\ \/ /\ superSuit' = trump /\ temp' = scored
            /\ PlayOn(c, card, table)
         \/ /\ Len(table) = MAX_PLAYERS
            /\ superSuit' = trump /\ temp' = scored
            /\ PlayFails(c, card, table)
         \/ /\ Len(table) = MAX_PLAYERS
            /\ \E w \in Seated :
                 /\ TakenBy(w, table, trump)
                 /\ \E taken \in {[scored EXCEPT ![w] = @ + Points(table)]} :
                      \/ /\ superSuit' = trump /\ temp' = taken
                         /\ TakeTrick(c, card, w)
                      \/ turn + 1 = MaxTurns /\ EndOfRound(taken)
      /\ UNCHANGED <<players, undefined>>
-----------------------------------------------------------------------------
\* Mutant of ResetIfGameHadStarted: the test on the stage is the wrong way round.
ResetIfNotStarted ==
  IF stage = "ADDING"
    THEN gifts' = 0 /\ turn' = 0 /\ superSuit' = NONE
    ELSE UNCHANGED <<gifts, turn, superSuit>>

(***************************************************************************)
(* Leave or disconnect: the player's seat goes, every attribute of the     *)
(* others and the deck's position are reset, and, unless the stage was     *)
(* ADDING, every controller.  Game::reset leaves vec_ as it is.            *)
(***************************************************************************)
ResetIfGameHadStarted ==
  IF stage # "ADDING"
    THEN gifts' = 0 /\ turn' = 0 /\ superSuit' = NONE
    ELSE UNCHANGED <<gifts, turn, superSuit>>

\* Mutants of ResetPlayers: the deck's iterator, or the claims, are not reset.
ResetPlayersNotDeck ==
  /\ ready' = {} /\ claim' = Zero /\ temp' = Zero /\ score' = Zero
  /\ hand' = NoCards /\ used' = NoCards /\ it' = NoIt /\ UNCHANGED stock
ResetPlayersNotClaims ==
  /\ ready' = {} /\ temp' = Zero /\ score' = Zero
  /\ hand' = NoCards /\ used' = NoCards /\ stock' = {} /\ it' = NoIt
  /\ UNCHANGED claim

ResetPlayers ==
  /\ ready' = {} /\ claim' = Zero /\ temp' = Zero /\ score' = Zero
  /\ hand' = NoCards /\ used' = NoCards /\ stock' = {} /\ it' = NoIt

HandleLeave(c) ==
  /\ c \in Seated
  /\ players' = RemoveAt(players, SeatOf(c))
  /\ ResetIfGameHadStarted /\ ResetPlayers
  /\ stage' = "ADDING" /\ report' = NoReport
  /\ UNCHANGED <<vec, undefined>>
=============================================================================
