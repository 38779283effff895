# TysiacOnline in TLA+

TysiacOnline is a server for the card game *tysiąc* (a thousand): a C++ engine behind
WebSocket sessions, and a browser client. This directory holds a specification of it,
model-checked with TLC and in part proved with TLAPS. The comments in the modules name the
C++ and JavaScript code that each definition stands for; `PROJECT.json` maps every
definition to its lines.

## The system

| Part | State | Operations | Correct when |
|---|---|---|---|
| `Card`, `PlayersDeck` | a hand, its used cards | compare, playable cards, pairs, maximal bid | a trick goes to the card that wins by the rule of the game; a player who must win a trick may not lose it |
| `Deck` | order of 24 cards, `deck_it_` | deal, hand out the stock | every card is in one place |
| `PlayersCollection`, `Player`, `Score` | seats, `it_` (current, compulsory, highest), ready, claim, turn score, total | prepare a round, reset | `it_` names seated players whenever it is read; totals grow from round to round |
| `Room` | `stage_` | one message: change the model, make the messages, set the stage, maybe deal again | the stage agrees with what the players were asked |
| `Adder`, `Starter` | — | add, refuse a fourth player, ready, first deal | three ready players get their cards |
| `Bidder` | — | regular bid, final bid | the auction ends with one contract, held by the highest bidder |
| `Dealer` | counter of gifts | two gifts of cards | eight cards for everybody; the final bid is possible |
| `Game` | cards on the table, turn counter, trump | play a card, take a trick, announce a marriage | points equal the cards taken plus the marriages announced |
| `SumScore` | — | round and sum up, score and end messages | totals, winner |
| `LeaveBuster` | — | leave, disconnect | the table is as new |
| `ChatBox` | — | pass a text on | |
| `GameManager` | rooms, ids per room | create, reuse, join, list, route, leave, disconnect | a player's messages reach his room |
| `Session`, `SessionManager` | write queue, `busy_`, registered sessions | read, write, disconnect | every message goes out once and in order; one disconnect per session |
| `Server` | acceptor, I/O thread | run, accept, stop | it keeps accepting; it stops |
| WebSocket stream (Beast) | `rd_op_`, `wr_op_`, `wr_block_`, `failed_` | read a message, write a message, answer control frames | one writer at a time; nothing after a close frame |
| Browser client | players, own cards with their flags, windows and buttons | reads a message, shows a question, sends the answer | its cards are those of the room; it answers what it was asked, once |

How they interact. A `Session` reads a message, `SessionManager::interpret` gives it to
`GameManager::doWork`, which finds the author's room and calls `Room::runGame`; the answers
are pushed back through the manager and written to their addressees' sessions, which queue
them behind the one write in flight. The browser's handlers change what is shown, and the
user's next click sends the next message.

All handlers of the server run on one I/O thread. A message is therefore handled to its end
before the next one, and what is concurrent is the rest: which client acts next, who leaves
when, messages of different clients and directions that cross, the read and the write of a
session that share a socket, a connection that breaks, `stop` called from the main thread.
The other hard behaviours are protocol ones: what kind of message a bid is depends on the
stage and on who holds the highest bid; resets happen in many places and leave different
things behind; the end of a round does summing up, resetting and dealing in one step.
`PROJECT.json` lists these hazards at their lines.

## The modules

| Module | Models |
|---|---|
| `Cards` | the pure algorithms of `card.cpp`, `players_deck.cpp` and `Game::findSuperiorCard`, and as a reference the rule of the game (`IsTrickWinner`), which compares no two cards |
| `Trick` | three cards laid on a table, for those algorithms alone |
| `Room` | a room: its state and one operator per message, each the whole handler |
| `Table` | a room with its clients: one action per answer, the question asked last in `asked` |
| `TableProperties` | what a table promises |
| `Auction` | the auction a table promises, without turns, seats, cards and messages |
| `Conversation` | a room and its browsers with messages on their way: the room's handlers with the questions they send, the client's handlers, windows, cards and clicks |
| `ConversationProperties` | what the two promise each other; `Table` as the specification of both |
| `Lobby` | `GameManager`, `SessionManager::interpret`, and the part of the client that asks for rooms, enters and leaves them, with messages on their way |
| `LobbyProperties`, `Hall` | what the lobby promises; a hall with tables, as its specification |
| `WebSocket` | Beast's `async_read` and `async_write` as a session uses them: functions on the state of a stream |
| `Session` | one connection: `Session`, its registration, its stream and the client's end |
| `Server` | the accept loop and `stop` with one connection |
| `ServerProperties`, `Channel` | what a connection promises; a FIFO channel, as its specification |
| `TrickProofs`, `TableProofs`, `CardProofs`, `ClientProofs`, `ConversationProofs`, `LobbyProofs`, `HallProofs`, `ServerProofs` | the theorems |
| `MCTrick`, `MCTable`, `MCConversation`, `MCLobby` | decks, orders, moments and users for TLC |

They compose in two ways. `Table` and `Conversation` are both built from the handlers of `Room`,
and the first is the specification of the second: `Table` says who is asked what, and lets the
answer arrive before anything else happens; `Conversation` lets everything cross and is checked
and proved to do nothing else (`ImplementsTable`). `Server` is built from `Session` and
`WebSocket`. `Lobby` reduces a room to its seats and a connection to two queues; that a
connection is a queue is what `Server` is checked and proved for (`ImplementsChannel`).

Operators whose names are announced by a comment "Mutant of ..." are wrong on purpose. They
take no part in the specification; each shows that a property notices when the definition
below it is replaced by the wrong one.

### State and code

Attributes of a `Player` object are functions of the client's id, with the values of a new
`Player` for ids that are not seated; `players` is the order of the seats. A hand is a set:
indices into `deck_` matter only as names of cards. `hand` and `used` stand for `deck_` and
the `is_used_` flags, so a card that was given away is still in the giver's `hand`, as in the
code. `stock` is what lies from `deck_it_` on after a deal. `it` is a record, `NoIt` when the
vector has been cleared. `gifts` is `Dealer::counter`, 2 standing for all larger numbers: the
code only compares it with 1 and with 2, and nothing depends on the result of the latter.

Variables of the code without a counterpart, and why: `Starter::is_full_` selects messages
only; `Dealer::user_id_` is compared within one message, where it is the first peer;
`Bidder::additional_cards_` and `Game::is_marriage_` live within one message;
`PlayersDeck::max_value_` caches a value that cannot change before it is cleared;
`current_starting_player_` is never read for a decision.

Two reads the language does not define are modelled as what a release build does. After a
round `it_` is cleared and then read to find the next compulsory player; the cleared vector's
storage still holds the old id. And a ready in a room whose stage is not `ADDING`, with no
game on, is taken for a bid and looks up the current player in an empty `it_`. What that read
gives is not modelled at all: the flag `undefined` is set, and the other variables stay.

### Questions

`Table` adds `asked`, the question the last messages put to the clients, from
`controller.js` and the messages the controllers create. A client acts when asked, with a
value its user interface offers: `BidOffers` and `FinalOffers` are the buttons between the
minimum and the maximum the server sent, `CardOffers` the cards it listed. Joining, leaving
and asking for a seat at a full table (from an old list of rooms) may happen under the
questions the constants `LeaveIn` and `JoinFullIn` name. An answer is handled before
anything else happens in the room; that this is no loss is what `Conversation` shows.

### Conversation

The server's side is one action, `Take`: the head of a client's queue goes through
`Room::parse` to a handler of `Room`, and `Tell` sends the questions the handler's messages
contain. `deck` is `deck_` of each player as a sequence, since the client names cards by
index. The client's side is `Receive`, one case per handler of `controller.js`, and `User`,
one action per button and card. A client `k` keeps `Controller.game`'s players, `begun` for
`round != 0`, the cards with the sets of used, available and drawn ones (a card whose image
is gone cannot be clicked), the windows and the bid buttons. Messages that only redraw the
page, or tell players what others do, are left out.

`asked`, `mixed` and the tag `old` of an answer are history: `old` marks an answer that was
given at a table somebody has left since. The room cannot see the tag; it is there to say
when the promise ends. At a table that is not full every such answer throws in `getPlayer`
and changes nothing. At a table that is full again nothing tells it from an answer to the new
game's question, because messages carry no number; `mixed` records that, and the model ends
there.

### Lobby

`activeGames` holds the ids seated in each room and `players` is `players_`; a disconnect
takes the id out of the first, a leave out of both. `HandleAdd`, `HandleShow`, `HandleLeave`
and `HandleChat` are the handlers of messages; chat stands for every message that is routed
to the author's room and on to others. `Disconnect` is reached in both ways of the code: by
`readHandler`, which learns that a client has gone after the messages that got through
(`"closed"`, at the end of its queue), and by `writeHandler` (`WriteFails`), at any moment
after the client has gone with a write to it outstanding (`writing`), once (`broken`). So it
may come twice, and messages may be read after it. An exception that leaves a handler is
`fault`: a message to an id without a session, one from a client that no list finds, a second
disconnect. Clients have the scene, the list of rooms (which may be old), the players and the
index; a user sends at most `Clicks` requests for a seat before the first is answered.

### Session, WebSocket, Server

A stream is a record of where its read and its write stand; every composed operation of Beast is
cut at the points where it returns to the event loop, so a step is one handler run by the thread.
The operation that finds `wr_block_` taken parks itself and is resumed by a posted handler;
`posted` is asio's queue of them. Frames are messages' parts and control frames; their bytes,
masking, UTF-8 and compression are left out. The client may send text in one or more frames,
pings, pongs, close and frames that break the protocol, close the TCP connection or lose it, all
at any time. A failed assertion and an exception that leaves a handler set `fault` and stop the
thread. `Unfit` says which of the client's messages the game cannot take (`CannotTake`): text that
is no JSON object, which `parseMessage` throws on outside the `try` of `doWork`; an object without
the fields that are looked up in it; a message for a room from a client in no list, whose room is
`active_games_[-1]`. The last two are undefined behaviour, so reading such a message may end the
server, or be answered, or not. `Session` has both handlers with `queue_`, `busy_`, `buffer_` and
the two ways into `disconnect`; `Server` has the accept loop and the main thread's `stop`.

## The runs

| Run | Question | Instance | Result |
|---|---|---|---|
| `Trick` | are trick and playable cards right? | 12 cards of three suits, any trump, hands of 1–3 | holds |
| `Table_round` | auction, cards, points, tricks, compulsory bid over rounds | 3 clients, 9 cards, 2 per hand, bids 100/110/160, three orders of the deck | holds |
| `Table_live` | clean table and no lost card when players leave and games end; do games start, auctions and rounds end? | 4 clients, 6 cards, 1 per hand, cap 100, leaving between tricks, a full room asked for a seat | holds, with the fairness below |
| `Table_any` | auction and its invariant, leaving in the middle of a trick | 4 clients, 6 cards | holds |
| `Conversation` | is the room with its clients a table, whatever crosses? same cards on both sides, one question, no answer refused | 3 clients, 6 cards, two with slow connections, one leave between tricks | holds |
| `Lobby` | does the server stay up unless a write fails, do its lists and the clients' views agree, are requests answered, do rooms make a hall? | 4 users, rooms of 3 | holds |
| `Server` | one writer, whole messages in order both ways, does the queue drain and `stop` return, what ends the server? | 3 messages out, one of two frames; 3 frames in, one message unfit | holds, with the fairness below |
| `Table_scores` | do totals accumulate? | 3 clients, nobody leaves | no |
| `Table_refused` | is `it_` ever read while empty? | 4 clients | yes |
| `Table_cleared` | is the table cleared when a player leaves? | 3 clients | no |
| `Lobby_doubled` | has every addressee a session, if users click twice? | 2 users | no |
| `Server_closing` | is a session unregistered once? | 2 messages out, nothing in | no |

The last five state what a comment or a test of the repository says; `PROJECT.json` quotes it
under `findings`.

**Bounds of the table runs.** The program's three players, three stock cards and one more
trick than cards in a hand are kept; the hands shrink from seven cards to two or one. Two
cards each (three tricks with the stock) are enough for a marriage led in the first, middle
and last trick, for a trump that is set, replaced and used, for a hand that runs out of the
led suit, and for points of several tricks. The orders of the deck put the marriages into one
hand, into the stock and across hands. Bids reach above and below what the hands allow. Four
clients let one replace another and one be refused. The turn counter and the rounds need no
bound: a round ends in the code, and what is left of it is erased. Nothing in a run is
unbounded, because totals are erased too. `PointsWinningCap` is scaled to 100 where games are
to end. `Trick` uses three suits: one led, one trump, one neither; a trump of the fourth suit
is one that nobody holds. No symmetry is used: ids are used as seat indices by the code.
`Table_live` and `Table_any` share the leaves between them: all questions but the one in the
middle of a trick, and only that one.

**Bounds of `Conversation`.** Messages of clients in `Slow` stay on their way as long as they
like; those of the third are delivered at once. Two slow clients give every crossing of two:
an answer and a leave, a leave and a question, two readies, gifts and what they are given for.
One leave (`Leaves`) gives a second game at the same table; `LeaveIn` keeps it between tricks,
since what a trick interrupted does is the business of `Table_any` and `Table_cleared`. `asked`
occurs in a guard for this bound only. Hands have one card, so that the stock makes four and
the gifts leave two. Queues need no bound: a client answers one question at a time.

**Bounds of `Lobby`.** One user does three things (enter, leave and enter another room; be
refused and try again; close the page) and three others one each, which is what it takes to fill
a room, to have it refuse somebody, to leave an empty room for reuse and to have a second room.
At most two messages of a client, and two to all clients (`Inbox`), are on their way. The three
are interchangeable (ids are only compared here), hence the symmetry. Only the connection of the
first may end (`Unsteady`): with one thing each the others could only go before they have sat
down. `Lobby_doubled` has two users who click twice (`Clicks`), and either may go.

**Bounds of `Server`.** Three messages to the client, the second of two frames (`Long`), let a
message be queued behind one in flight and behind a parked one, and a control frame be
answered between two frames. Three frames from the client are a message in two frames and a
ping, or a ping, a pong and a close, or a bad frame after a message. A message that ends with the
second is one the game cannot take (`Unfit`), alone or after another. One connection is enough:
sessions share nothing but the registry, which `Lobby` has with several clients.

**Fairness.** `Table_live` assumes weak fairness of `Answer`: if somebody is asked something
for ever, somebody who is asked answers. The server contributes no delay of its own, since it
handles a message in one step; that a user answers in the end is an assumption about people
and not something the code enforces (it has no timeout). Nobody is assumed to join or leave.
`GameStarts` excepts the state after a fourth player's request that was refused while three
got ready, after which no game starts (`Table_refused`).

`Server` assumes weak fairness of what its thread does when something is ready: the next step
of the read, of the write, the first posted handler, the end of a handshake with a client that
is gone, the closing of the acceptor, the accept it cancels, the return of `join`. asio serves
its queue first come, first served, and a network that works takes what is written. Of clients
nothing is assumed: `QueueDrains` excepts a write that waits for the client's next message, and
`StopReturns` a client that stays.

**Deadlock** is not looked for where the system may stop. In `Table_any`, after a trick whose
winner has left, handling the card fails and nobody is asked anything any more. In
`Conversation` a game that is over leaves clients that fail before they ask whether the players
are ready, and `mixed` ends the model. In `Lobby` all users may have done what they wanted, and
in `Server` the bounds may be reached and the connection closed.

## What the runs show

* With players who stay, every auction ends with exactly one contract, cards and points are
  conserved, every trick goes to the right player. What is wrong lies between rounds:
  `SumScore::reset` erases the totals, so scores never accumulate and no game can end; behind
  that waits an end message that looks for its winner after the reset, finds none, and stops the
  clients' handler before it shows the window; and the Dealer's counter is not reset "after
  every round" (dealer.cpp:97) but between games only.
* Leaving between tricks leaves nothing behind. Leaving in the middle of a trick leaves the
  cards on the table for the next game. The auction of that game is still right (`Table_any`);
  its tricks need not be, and a trick whose winner has left ends all play.
* A refused fourth player changes the stage of the room. During a game the next answer sets it
  right; while players get ready it does not.
* The compulsory bid rotates when ids are seats modulo three, and lands on *some* seat
  otherwise: an id is used as an index. The maximum of a final bid may count half of a marriage
  that was given away, and "the attacker's suit" of a comment in `players_deck.cpp` is in fact
  the suit of the highest card on the table.
* A player is asked one question at a time, and that keeps a room and its clients together
  although no message says what it answers: while nobody leaves, no handler needs the stage
  check it does not have. After a leave, answers on their way are harmless as long as the table
  is not full. A crossed answer at a table that is full again, though, counts for the new game:
  a bid counted as ready starts a game while its author is still asked whether he is ready, his
  ready button then sends a message without data into the auction, and the button of the last
  game's end window takes the new game's cards off his screen.
* As long as users wait for an answer before they click again, and no write to a client that has
  gone fails, the server stays up (`StaysUp`). Once a write has failed it need not: the session
  is unregistered a second time, or a request the client had sent before it went is answered to
  a session that is no more. `Lobby` reaches both; `Server_closing` shows the first by itself.
  `GameManager`'s two lists of who sits where agree for everybody who is connected. A disconnect
  leaves an entry behind in `players_` for good; ids are not used twice, so only a message read
  after a failed write can meet it. Two clicks are enough to sit twice, and then to end the
  server's thread.
* The session's queue is a FIFO channel. A client that stays, keeps the protocol and says only
  what the game can take never brings the server down (`HarmlessWhileOpen`). One message that
  is not JSON does: `parseMessage` throws before the `try` of `doWork` (game_manager.cpp:19), and
  the exception passes through `interpret` and `readHandler` out of the I/O thread; so may one
  for a room from a client without a seat (game_manager.cpp:22). The browser client of `Lobby`
  sends neither: while no write has failed, all who talk to a room sit in one. A client that goes
  away while something is written brings the server down (`Server_closing`). Two more ends are
  reached only by a closed or failing connection, or by a frame that breaks the protocol: a
  message read after a failed write is interpreted for a session that is not registered any
  more, and a read that waited to fail the connection does not take `wr_block_` when it is
  resumed (an assertion of Beast). A write that
  is parked behind a pong goes out only with the client's next message. A single failed accept
  ends the accept loop while `isAccepting` stays true.

## The proofs

`TrickProofs` proves all three properties of `Trick`, for every deck of the game's cards:
`findSuperiorCard` names the winner (`SuperiorCard`), and does so in every reachable trick
(`SuperiorCardAlwaysWins`, from the invariant that the cards on the table are distinct); and what
`getAllValidCards` offers, whatever the hand, is uniform (`OffersAlwaysUniform`) and follows suit
where it loses (`LosersAlwaysFollow`). The two rest on `WinsIsHigher`: a card laid now is ahead of
one or two cards exactly if it beats the card `highestCardOnTheTable` names; `OfferedCards` then
goes through the four searches.

`TableProofs` proves, for any set of ids, deck, hand size, orders, bids, caps and moments of
leaving, that `AuctionInv` is inductive (`Invariance`), and from it `Typing`, `BidderIsNext`
and `ContractIsOne`. The argument: at a full table of three different players `NextOf` is a
cycle of length three (`Neighbours`). `AuctionOrder` says that everyone between the holder of
the highest bid and the bidder has passed. When the next bidder who has not passed turns out
to be the holder, the third player was skipped because he passed, or is the one between
holder and bidder; so only the holder has a claim (`RegularBidInv`). For `AuctionOrder` to be
inductive the claims must be zero at the deal (`ClaimsCleared`), the table full
(`TableFull`), the seats distinct (`Distinct`), `it_` seated (`RolesSeated`) and the stage known
where the handlers branch on it (`StageAgrees`). There is one lemma per action; `IdleInv`,
`RoundStartInv` and `MidRoundInv` share what several of them need. That `AuctionInv` is an
invariant was checked first, in `Table_any`. Two action properties follow from it as well: that the
compulsory bid goes round the table (`CompulsoryGoesRound`: `SeatAfter` computes the successor's
seat, `ReportSent` says which steps end a round), and that a trick goes to its best card whatever
is on the table (`BestCardTakes`, through `PickedCardWins` of `TrickProofs`).

`CardProofs` proves, for tables that nobody leaves in the middle of a trick (`"follow" \notin
LeaveIn`; otherwise `Table_cleared` shows what goes wrong), that no card is lost (`NoCardLost`),
that the hands stay level (`HandsStayLevel`) and that games leave nothing behind
(`TablesLeftClean`). `CardsConserved` only adds up what all have, so it is not inductive.
`CardInv` says how many cards each player holds under each question (`Held`), that hands, stock
and table share none (`Apart`), and that the cards on the table are those of the players before
the current one (`TrickInOrder`); from the last follows that somebody can always be found who
takes a trick (`SomebodyTakes`), so `PlayFails` never happens there. The deal is the only place
that depends on the deck (`DealtApart`). That `CardInv` is an invariant was tried with TLC on
the instances of `Table_round` and `Table_live` first.

`TableProofs` proves that the bidding implements `Auction` (`Refinement`, the property
`ImplementsAuction`), with `AuctionInv` before and after each step. What an auction looks like
from each question is settled once (`ClosedAuction`, `RunningAuction`); then the room's actions
map as follows.

| action | maps to |
|---|---|
| `PressReady`, `PlayCard`: a round is dealt | `Open` |
| `PlaceBid`, a bid in the auction | `Raise`; that the phase stays open follows from `OneContract'`: the former holder has not passed |
| `PlaceBid`, a pass | `Pass`; it is the winning one exactly if the next bidder is the holder, by `OneContract'` and `AuctionOrder'` |
| `PlaceBid`, the final bid | `Contract` |
| `PlayCard`: the game is over or nobody can be asked; `Leave` | `Close`, or a stutter where no auction is on |
| `Join`, `JoinFull`, `Give`, every other `PlayCard` | a stutter |

The second half of `CardProofs` is about sums. The operators `Total` and `IsTotal` say what the
sum over a finite set is without recursion: a function on the subsets, which exists and is
unique; the folds the model uses are equal to it. Induction over data, for which the library's
induction theorems cannot be instantiated here, is done with a smallest counterexample
(`LeastSet`, `Smallest`), which only needs that the order is well founded. It proves two things.
* `FinalBidAlwaysPossible`: from the auction to the final bid, the highest bid is one that has a
  button, and its holder's cards are worth it (`BidIsCovered`). Cards only come to him before he
  gives two away, and a card more makes a hand worth no less.
* `PointsAlwaysConserved`, under the same assumption that nobody leaves in the middle of a
  trick. `PointInv` says that nothing is scored before the first card (`NothingScored`), that
  the cards on the table are different (`TableCardsDiffer`), and that the scores are the figures
  of the cards taken and the announced marriages (`Accounts`), where a marriage can have been
  announced only if its king and queen are no longer in one hand. From the last follows that no
  suit is announced twice.

`ClientProofs` and `ConversationProofs` are about a room and its browsers. They hold for any
deck, orders, bids, hand size, number of leaves, speed of the connections and at most three
clients (a fourth has no seat, and a full room's refusal is `Lobby`'s and `Table`'s business).
The room knows a client only by what it has sent to it, and the client knows the room by what it
has read, so no property of the two is inductive as it stands. `IInv` has two parts.
* `RoomInv` is about the room: `AuctionInv` of the table it is (module `TP`), which stage goes
  with which question (`PhaseInv`), how many cards each player has and what he has used
  (`HandsFit`), and that `deck_` is the hand in an order without repetition (`DeckFits`), so
  that an index names one card.
* `ClientsInv` is about each client's two queues and screen (`CInv`). *On the way to the room*
  (`Waiting`): each answer was given to the question put last (`Fits`) and is the only one, or
  is outdated and harmless; a leave is followed by no answer; a request for a seat comes last.
  *On the way to the client* (`Ends`): reading the messages one after the other leads from what
  it keeps to an end `e`, and unless a leave is still to come there is nothing to click before
  the last is read. *At the end* (`Shown`): `e` is what the room thinks the client shows: the
  seats as they are, its cards in the room's order, of which those are gone that are used or in
  an answer under way, and the buttons or cards of the question exactly if the question is the
  client's and it has not answered. A client without a seat takes no notice of what it is sent
  (`Off`).

That `IInv` is an invariant was checked with TLC on the instance of `Conversation` first.
`ClientProofs` has one lemma for each message a client reads (`ReadDealIs`, `ReadBidIs`, ...),
says what appending to a queue and reading its head do to `Ends`, and goes through the clients'
steps (`ReceiveStep`, `UserStep`). The hard ones are clicks while a leave is on its way: the
client and the room go on with different questions, and what was clicked in vain must be gone
when the leave has been read (`EndsStale`). Nor may the button of the window that announces the
end of a game change more than that window (`EndsAlike`). `ConversationProofs` goes through the
room's steps (`TakeStep`): for each, what the room's part becomes, which action of the table it
is, and for every client that the messages it is told lead from the old end to the new one
(`Chain`). The theorems:
* `TableImplemented`, the refinement: each `Take` of a fresh message is the table's action of
  that name with a value the table offers; reading, clicking and taking an outdated answer are
  stutters. What is proved of `Table` thereby holds of the room with its clients.
* `HandsShownAgree`: an index means the same card to both sides.
* `AnswersAccepted`: no check of Bidder, Dealer, Game, Score and PlayersDeck throws on an answer
  that is not outdated (`Accepted` lists them). `AnswersFit` asks the same with ENABLED and is
  left to TLC. That a button's bid is above the author's own claim needs that no claim is above
  the holder's (`HighestIsHolders` of `CardProofs`).
* `QuestionNeverLost`: exactly the player the room waits for has the question. Here nobody may
  leave in the middle of a trick; that he has a card or a bid to choose is `CardInv` and
  `BidIsCovered` of the table (`Answerable`), carried over by the refinement.
* `ConversationTyping`, for the rest of the state.

`LobbyProofs` proves, for any set of clients, number of clicks and bounds, that `players_` and the
rooms agree on every connected client (`ListsAlwaysAgree`). `ListsAgree` is not inductive: a
handler finds the author's room in one list and changes both, so the two must have the same
length, and a client that has not connected yet must be in neither. `BooksInv` adds that; the
lemmas on `Occurrences` say what appending to and removing from a sequence does to the number of
times a client is in it. `LobbyTyping` adds the messages: `TypedInv` says that what is on its way
names rooms that exist and lists of at most three. A handler delivers to one or two groups of
clients, which `DeliverOne` and `DeliverTwo` say without a fold.

`HallProofs` is about the lobby whose users wait for an answer before they click again. The
server relies on what its clients send, so `SeatInv` is about both: no one has two seats
(`SeatedOnce`), who has joined has a session (`HasSession`), and for each client its queue is in
order (`InOrder`: the end of the connection comes last, a chat or leave is sent from a seat and
stands before any request for another, and a seated client's request stands behind the leave
that frees its seat) and at most one request is open, on its way there or back (`OpenClient`).
`Joins`, `Parts` and `SeatWork` say what the server's step does to the seats, and there is one
lemma per action of a client. A client to whom a write has failed is the exception: it may have
messages to be read behind its end (`StaleKeeps`, `BreakKeeps`), so that what is said of its
session and its queue is said of the others only. From the invariant follow:
* the server stays up as long as no write has failed (`ServerStaysUp`), and every request is
  answered, once (`EveryRequestAnswered`);
* the rooms implement a hall with tables (`LobbyIsHall`), step by step: a request seats one
  client, opens a table if none is free, a leave or a lost connection frees a seat, all else is
  a stutter;
* nobody sits twice (`NobodySitsTwice`): in a hall nobody does, which is a lemma about `Hall`
  alone (`HallSeatsOnce`), and the rooms are one.

They assume `Clicks = 1`: with two clicks on their way the run `Lobby_doubled` shows the
server's thread end, so they are false without it.

The second half of `HallProofs` builds on `SeatInv` and proves that, while the server runs, what a
client shows when it will have read all that was sent to it is its room (`ViewAlwaysCatchesUp`)
and that its index is that of its own seat (`IndexAlwaysOwn`). `ViewCatchesUp` speaks of the end
of the reading only, but a `leave` or `new_player` in the middle may be about a list that is not
there yet. So `ViewInv` is about the whole sequence of lists the client goes through (`Reading`):
each is either none or a list of at most three with the client in it (`Good`), the last is its
room as it is (`Shows`), each answer lists the client last (`AnswersOwn`), and the scene and the
index are those of the list shown (`SceneFits`). `ReadingEnds` connects the sequence to the fold
of the property. TLC checked `SeatInv` and `ViewInv` on the instance of `Lobby` before they were
proved.

`ServerProofs` proves, for any number of messages and frames, that the socket has one writer
(`SocketHasOneWriter`) and that no queued message is without a write that will send it
(`NoMessageForgotten`). Both follow from `ConnectionInv`: the turns of the stream (`Turns`), the
agreement of `busy_`, `queue_` and the write (`QueueInv`), and that a stream that is not open yet
is fresh. There is one lemma per function of `WebSocket` saying what it does to the turns, and one
per handler. The turns must be kept by every function separately, since a handler calls several.

Five more theorems build on `ConnectionInv`, each with an invariant of its own.
* Nothing follows the server's close frame on the wire (`NothingAfterClose`). `CloseIsLast` is
  not inductive: it says nothing of what may still be written. `ClosingInv` adds that a stream
  that closes does not read on and has no write in the socket (`Calm`), and that the read is
  past writing the close frame once that is on the wire. Every function of `WebSocket` leads to
  a `Later` stream, which does not reopen and does not begin a second close; so an action leaves
  the wire alone (`SilentStep`) or sends one frame that may still be sent (`FrameStep`).
* While a client stays, the server's thread ends only over a stream that has failed, a frame
  that breaks the protocol, or a message that the game cannot take (`NoHarmWhileOpen`).
  `BlameInv` traces whatever makes a read or a write give up to the first two or to the
  client's going; `SpoiledInv` says that a bad message is the last one that was read.
* What is handed to the game is whole messages in the order the client began them
  (`ReadsWholeMessages`). `ReadInv` numbers the frames: those handed over, those of the message
  being read and those still coming are in ever greater numbers, and only a message's last frame
  is final.
* The session implements `Channel` (`SessionIsChannel`). `DeliveryInv`: what is delivered and
  what is queued together are the accepted messages in order, and the queue's head is the next
  one.
* `ServerTyping`, for the rest of the state.

The assumptions are those named in the modules: ids are natural numbers, the deck consists of
cards and is all that is dealt out, hands and stock, an order of the deck repeats no card, hands
are not empty, bids start at 100, a game is won with a positive number of points, and a
`Conversation` has at most three clients. Theorems state two more themselves: that nobody leaves
in the middle of a trick (`"follow" \notin LeaveIn`; `CardProofs` where it says so, and
`QuestionNeverLost`), and that users wait for an answer (`Clicks = 1`; `HallProofs`).

Only model-checked: the liveness properties of `Table_live` and `Server`, and `AnswersFit`, which
uses ENABLED; both are out of the prover's reach (`AnswersAccepted` is what can be proved of the
second). So is what a RECURSIVE operator computes; no theorem needs one. Every other invariant and
action property of the passing runs, and every refinement, is stated by a theorem.

## Not modelled, and what could follow

* What an outdated answer does to a game at a table that is full again, beyond the fact that
  nothing recognises it.
* Nicknames, scores and bids as they are shown, the other players' card counts, the drawing of
  a trick and its timer.
* No property is about `sumUpScore` stopping at the first player who reaches the cap, without
  rounding the scores behind him: it is modelled (`SummedUp`), but nothing the server does
  depends on it while totals are erased.
* Most of the repository's lines are vendored: `json.hpp`, Beast's HTTP parser and its copy of
  zlib, its buffers and traits. They carry no logic of this program. Of Beast only the parts of the
  WebSocket stream that decide who reads and writes when are modelled. Compression is off in this
  server, so the zlib code never runs; the handshake is an action that succeeds or fails;
  header bytes, masking and UTF-8 are inside the action that reads a frame.
* The tests were read as statements of intent, the generated documentation not at all.

What could follow: a model of a table that is full again while outdated answers are on their way,
which ends the model now; four clients in `Conversation`; and a room of `Conversation`
in place of the seats that `Lobby` reduces it to.
