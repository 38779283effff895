-------------------------- MODULE TableProperties --------------------------
(***************************************************************************)
(* What a table promises its players.                                      *)
(***************************************************************************)
EXTENDS Table

InHand == {"give", "final", "lead", "follow"}  \* after the auction
InPlay == {"lead", "follow"}
InRound == InHand \cup {"bid"}

TypeOK ==
  /\ stage \in Stages
  /\ players \in Seq(Clients) /\ Len(players) =< MAX_PLAYERS
  /\ ready \subseteq Clients
  /\ claim \in [Clients -> Int] /\ temp \in [Clients -> Int]
  /\ score \in [Clients -> Int]
  /\ hand \in [Clients -> SUBSET Deck] /\ used \in [Clients -> SUBSET Deck]
  /\ stock \subseteq Deck
  /\ it \in [CURRENT : Clients \cup {None}, COMPULSORY : Clients \cup {None},
             HIGHEST : Clients \cup {None}]
  /\ gifts \in {0, 2}
  /\ vec \in Seq([player : Clients, card : Deck])
  /\ turn \in Nat /\ superSuit \in Suits \cup {NONE}
  /\ undefined \in BOOLEAN
  /\ asked \in Questions

-----------------------------------------------------------------------------
(***************************************************************************)
(* The auction, Bidder::bid.                                               *)
(***************************************************************************)

(***************************************************************************)
(* While bids are asked for, the player asked is in the auction and does   *)
(* not hold the highest bid (the room would take his answer for the final  *)
(* bid and skip the stock), and everyone between the holder of the highest *)
(* bid and him, in the order of the seats, has passed.                     *)
(***************************************************************************)
AuctionOrder ==
  asked = "bid" =>
    /\ {it.CURRENT, it.HIGHEST} \subseteq Seated /\ Len(players) = MAX_PLAYERS
    /\ it.CURRENT # it.HIGHEST
    /\ claim[it.CURRENT] # PASS /\ claim[it.HIGHEST] >= 100
    /\ it.CURRENT = NextOf(it.HIGHEST) \/ claim[NextOf(it.HIGHEST)] = PASS

(***************************************************************************)
(* From the stock to the last card, exactly one player has a contract: the *)
(* holder of the highest bid, which is 100 at least; and until he has      *)
(* placed his final bid it is his turn.                                    *)
(***************************************************************************)
OneContract ==
  asked \in InHand =>
    /\ it.HIGHEST \in Seated /\ Len(players) = MAX_PLAYERS
    /\ claim[it.HIGHEST] >= 100
    /\ \A c \in Seated \ {it.HIGHEST} : claim[c] = PASS
    /\ asked \in {"give", "final"} => it.CURRENT = it.HIGHEST

(***************************************************************************)
(* The inductive invariant behind the two: a room never seats a player     *)
(* twice, from the first ready question on it is full, it_ names seated    *)
(* players from the deal to the end of the round, and a deal starts from   *)
(* claims of zero.                                                         *)
(***************************************************************************)
Distinct == \A i, j \in DOMAIN players : players[i] = players[j] => i = j

TableFull == asked # "seating" => Len(players) = MAX_PLAYERS

RolesSeated ==
  asked \in InRound =>
    it \in [CURRENT : Seated, COMPULSORY : Seated, HIGHEST : Seated]

StageAgrees ==
  /\ asked \in InPlay => stage \in {"PLAYING", "FAIL"}
  /\ asked \in {"seating", "ready"} => stage \in {"ADDING", "FAIL"}

ClaimsCleared == asked \in {"seating", "ready"} => claim = Zero

AuctionInv ==
  /\ TypeOK /\ Distinct /\ TableFull /\ RolesSeated /\ StageAgrees
  /\ ClaimsCleared /\ AuctionOrder /\ OneContract

(***************************************************************************)
(* The final bid's minimum and maximum, which the Dealer computes from the *)
(* claim and from the ten cards, always leave a button to press.           *)
(***************************************************************************)
FinalBidPossible == asked = "final" => FinalOffers # {}

(***************************************************************************)
(* The bidding at a table implements the abstract auction: a bid is raised *)
(* by ten at least, a pass is final, the last player left has the contract *)
(* and nothing but his own final bid changes it before it is played.       *)
(***************************************************************************)
AuctionPhase ==
  CASE asked \in {"seating", "ready", "none"} -> "closed"
    [] asked = "bid" -> "open"
    [] asked \in {"give", "final"} -> "won"
    [] asked \in InPlay -> "contracted"

AuctionActive ==
  IF asked \in InRound THEN {c \in Seated : claim[c] # PASS} ELSE {}
AuctionHolder == IF asked \in InRound THEN it.HIGHEST ELSE None
AuctionPrice  == IF asked \in InRound THEN claim[it.HIGHEST] ELSE 0

Bidding == INSTANCE Auction WITH
  Bidders  <- Clients,
  NoBidder <- None,
  MinRaise <- MIN_RAISE,
  phase    <- AuctionPhase,
  active   <- AuctionActive,
  holder   <- AuctionHolder,
  price    <- AuctionPrice

ImplementsAuction == Bidding!Spec

-----------------------------------------------------------------------------
(***************************************************************************)
(* Cards and points.                                                       *)
(***************************************************************************)
OnTable == {vec[i].card : i \in DOMAIN vec}

(***************************************************************************)
(* No card is duplicated or lost from the deal to the end of the round: a  *)
(* card is playable in one hand, in the stock, on the table or taken.      *)
(***************************************************************************)
CardsConserved ==
  asked \in InRound =>
    /\ \A c, d \in Seated : c # d => Unused(c) \cap Unused(d) = {}
    /\ \A c \in Seated : Unused(c) \cap (stock \cup OnTable) = {}
    /\ stock \cap OnTable = {}
    /\ Cardinality(UNION {Unused(c) : c \in Seated}) + Cardinality(stock)
         + Len(vec) + MAX_PLAYERS * turn = DeckSize

(***************************************************************************)
(* In play every hand has one card for each trick that is left, so nobody  *)
(* runs out of cards before the others.                                    *)
(***************************************************************************)
HandsLevel ==
  asked \in InPlay =>
    \A c \in Seated :
      Cardinality(Unused(c)) =
        MaxTurns - turn - (IF \E i \in DOMAIN vec : vec[i].player = c THEN 1 ELSE 0)

(***************************************************************************)
(* The points scored in a round are those of the cards taken plus those of *)
(* the marriages announced, each suit at most once; a trump is the suit of *)
(* one of these marriages.                                                 *)
(***************************************************************************)
Taken == Deck \ (OnTable \cup UNION {Unused(c) : c \in Seated})

PointsConserved ==
  asked \in InPlay =>
    \E announced \in SUBSET Marriages(Deck) :
      /\ MapThenSumSet(LAMBDA c : temp[c], Seated) =
           MapThenSumSet(LAMBDA card : card.figure, Taken) + SumSet(announced)
      /\ superSuit # NONE <=> superSuit \in announced

(***************************************************************************)
(* A trick is taken by the player of the card that wins it by the rule of  *)
(* the game, and he leads the next one.                                    *)
(***************************************************************************)
TrickToBestCard ==
  [][ asked = "follow" /\ asked' = "lead" =>
        LET last  == CHOOSE card \in used'[it.CURRENT] : card \notin used[it.CURRENT]
            table == Append(vec, [player |-> it.CURRENT, card |-> last])
        IN  \E i \in DOMAIN table :
              /\ IsTrickWinner(i, [k \in DOMAIN table |-> table[k].card], superSuit)
              /\ it'.CURRENT = table[i].player ]_vars

-----------------------------------------------------------------------------
(***************************************************************************)
(* Rounds and games.                                                       *)
(***************************************************************************)

(***************************************************************************)
(* A table where no game is on has nothing left of the game before, so the *)
(* next deal starts from the top of the deck and the next round from its   *)
(* first trick.                                                            *)
(***************************************************************************)
CleanTable ==
  asked \in {"seating", "ready", "none"} =>
    /\ stock = {} /\ hand = NoCards /\ claim = Zero /\ temp = Zero
    /\ gifts = 0 /\ turn = 0 /\ superSuit = NONE /\ vec = << >>

(***************************************************************************)
(* When the ids of the players are those of their seats, modulo three, the *)
(* compulsory bid moves to the next player from round to round.            *)
(***************************************************************************)
CompulsoryRotates ==
  [][ report'.sent /\ asked' = "bid"
      /\ (\A i \in DOMAIN players : players[i] % MAX_PLAYERS = i - 1)
        => it'.COMPULSORY = NextOf(it.COMPULSORY) ]_vars

(***************************************************************************)
(* Three players who answer get their cards; an auction ends with a stock  *)
(* and a round with the next one or the end of the game, unless somebody   *)
(* leaves.  The first fails too when a fourth has asked for a seat while   *)
(* the players got ready: the next ready reads what is not there.          *)
(***************************************************************************)
GameStarts  == asked = "ready" ~> asked \in {"bid", "seating"} \/ undefined
AuctionEnds == asked = "bid" ~> asked \in {"give", "seating"}
RoundEnds   == asked = "give" ~> asked \in {"bid", "none", "seating"}

-----------------------------------------------------------------------------
(***************************************************************************)
(* What comments of the code say and the code does not do.                 *)
(***************************************************************************)

(***************************************************************************)
(* PlayersCollection::resetPlayerAttributes, and Score::reset: the total   *)
(* scores are erased when the game is over, and only then.  So after a     *)
(* round that does not end the game a player's total has grown by what the *)
(* score message said.                                                     *)
(***************************************************************************)
ScoresAccumulate ==
  [][ report'.sent /\ ~ report'.over =>
        \A c \in Seated : score'[c] = score[c] + report'.scores[c] ]_vars

(***************************************************************************)
(* Game::reset clears all variables' values, vec_ among them.              *)
(***************************************************************************)
TableCleared == asked = "seating" => vec = << >>

(***************************************************************************)
(* stage_ is the game's current stage, so a ready at a table of three      *)
(* players without a game is never looked up in an empty it_.              *)
(***************************************************************************)
NoEmptyLookup == ~ undefined
=============================================================================
