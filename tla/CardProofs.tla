----------------------------- MODULE CardProofs -----------------------------
(***************************************************************************)
(* Proofs about Table for any clients, any deck and hand size and any      *)
(* orders of the deck: no card is lost or duplicated in a round, the hands *)
(* stay level, a round or a game leaves nothing behind, what a hand can be *)
(* bid up to, and the points of a round.  Most of this ends when a player  *)
(* leaves in the middle of a trick, since Game::reset keeps the cards on   *)
(* the table; those theorems assume that nobody does.                      *)
(***************************************************************************)
EXTENDS TableProofs, WellFoundedInduction

USE DEF MAX_PLAYERS, PASS, None

-----------------------------------------------------------------------------
(***************************************************************************)
(* The inductive invariant: how many cards each player holds under each    *)
(* question, and whose cards lie on the table.                             *)
(***************************************************************************)
Size(S, n) == IsFiniteSet(S) /\ Cardinality(S) = n

Played(c) == \E i \in DOMAIN vec : vec[i].player = c

Held(c) ==
  CASE asked = "bid" -> HandSize
    [] asked = "give" -> IF c = it.HIGHEST THEN HandSize + 3 ELSE HandSize
    [] asked = "final" -> HandSize + 1
    [] asked \in InPlay -> MaxTurns - turn - (IF Played(c) THEN 1 ELSE 0)

HandsSized == asked \in InRound => \A c \in Seated : Size(Unused(c), Held(c))

StockSized == asked \in InRound => IF asked = "bid" THEN Size(stock, 3) ELSE stock = {}

Apart ==
  asked \in InRound =>
    /\ \A c, d \in Seated : c # d => Unused(c) \cap Unused(d) = {}
    /\ \A c \in Seated : Unused(c) \cap (stock \cup OnTable) = {}
    /\ stock \cap OnTable = {}

RoundClock ==
  /\ asked \in {"bid", "give", "final", "lead"} => vec = << >>
  /\ asked \in {"bid", "give", "final"} => turn = 0
  /\ asked \in {"bid", "give"} => used = NoCards
  /\ asked \in InPlay => turn < MaxTurns
  /\ asked \in InRound => stage # "ADDING"

TrickInOrder ==
  asked = "follow" =>
    /\ Len(vec) \in {1, 2} /\ vec[1].player \in Seated
    /\ Len(vec) = 1 => it.CURRENT = NextOf(vec[1].player)
    /\ Len(vec) = 2 => /\ vec[2].player = NextOf(vec[1].player)
                       /\ it.CURRENT = NextOf(vec[2].player)

CardInv ==
  CleanTable /\ HandsSized /\ StockSized /\ Apart /\ RoundClock /\ TrickInOrder

-----------------------------------------------------------------------------
(***************************************************************************)
(* Sizes of sets of cards.                                                 *)
(***************************************************************************)
LEMMA SizeUnion ==
  ASSUME NEW S, NEW T, NEW m \in Nat, NEW n \in Nat, Size(S, m), Size(T, n), S \cap T = {}
  PROVE  Size(S \cup T, m + n)
<1>1. IsFiniteSet(S \cup T) /\ Cardinality(S \cup T) = m + n - Cardinality(S \cap T)
  BY FS_Union DEF Size
<1>2. Cardinality(S \cap T) = 0
  BY FS_EmptySet
<1> QED  BY <1>1, <1>2 DEF Size

LEMMA SizeAdd ==
  ASSUME NEW S, NEW x, NEW n \in Nat, Size(S, n), x \notin S
  PROVE  Size(S \cup {x}, n + 1)
  BY FS_AddElement DEF Size

LEMMA SizeRemove ==
  ASSUME NEW S, NEW x \in S, NEW n \in Nat, Size(S, n)
  PROVE  Size(S \ {x}, n - 1)
  BY FS_RemoveElement DEF Size

LEMMA SizeEmpty == Size({}, 0)
  BY FS_EmptySet DEF Size

\* A run of positions of a shuffled deck holds as many cards as positions.
LEMMA SizeSlice ==
  ASSUME NEW s \in Shuffles, NEW m \in 1 .. DeckSize + 1, NEW n \in Nat, m + n =< DeckSize + 1
  PROVE  Size({s[j] : j \in m .. m + n - 1}, n)
<1> DEFINE I == m .. m + n - 1
           f == [j \in I |-> s[j]]
           T == {s[j] : j \in I}
<1>1. DeckSize \in Nat
  BY HandAssumption DEF DeckSize
<1>2. I \subseteq 1 .. DeckSize
  BY <1>1
<1>3. IsFiniteSet(I) /\ Cardinality(I) = n
  <2>1. IsFiniteSet(m .. m + n - 1) /\ Cardinality(m .. m + n - 1) =
          IF m > m + n - 1 THEN 0 ELSE m + n - 1 - m + 1
    BY <1>1, FS_Interval
  <2> QED  BY <1>1, <2>1
<1> HIDE DEF I
<1>4. \A i, j \in I : s[i] = s[j] => i = j
  BY <1>2, ShuffleAssumption
<1>5. f \in Surjection(I, T) /\ f \in Injection(I, T)
  BY <1>4 DEF Surjection, Injection, IsInjective
<1> HIDE DEF f, T
<1>6. IsFiniteSet(T) /\ Cardinality(T) = n
  BY <1>3, <1>5, FS_Surjection
<1> QED  BY <1>6 DEF Size, T, I

LEMMA SlicesApart ==
  ASSUME NEW s \in Shuffles, NEW m \in Nat \ {0}, NEW n \in Nat, NEW p \in Nat, NEW q \in Nat,
         n < p, q =< DeckSize
  PROVE  {s[j] : j \in m .. n} \cap {s[j] : j \in p .. q} = {}
<1>1. DeckSize \in Nat
  BY HandAssumption DEF DeckSize
<1>2. \A i, j \in 1 .. DeckSize : s[i] = s[j] => i = j
  BY ShuffleAssumption
<1>3. \A i \in m .. n, j \in p .. q : s[i] # s[j]
  <2> SUFFICES ASSUME NEW i \in m .. n, NEW j \in p .. q PROVE s[i] # s[j]
    OBVIOUS
  <2>1. i \in 1 .. DeckSize /\ j \in 1 .. DeckSize /\ i # j
    BY <1>1
  <2> QED  BY <1>2, <2>1
<1> QED  BY <1>3

(***************************************************************************)
(* The cards are dealt once each.                                          *)
(***************************************************************************)
LEMMA DealtApart ==
  ASSUME FullTable, DealCards
  PROVE  /\ \A c \in Seated : Size(hand'[c], HandSize) /\ hand'[c] \cap stock' = {}
         /\ \A c, d \in Seated : c # d => hand'[c] \cap hand'[d] = {}
         /\ Size(stock', 3) /\ used' = NoCards
<1> USE HandAssumption
<1> DEFINE From(k) == (k - 1) * HandSize + 1
           Portion(s, k) == {s[j] : j \in (k - 1) * HandSize + 1 .. k * HandSize}
<1>1. PICK s \in Shuffles :
        /\ hand' = [c \in Clients |-> IF c \in Seated THEN Portion(s, SeatOf(c)) ELSE {}]
        /\ stock' = {s[j] : j \in 3 * HandSize + 1 .. DeckSize}
  BY DEF DealCards
<1>2. DeckSize = 3 * HandSize + 3 /\ DeckSize \in Nat
  BY DEF DeckSize
<1>4. ASSUME NEW c \in Seated
      PROVE  /\ hand'[c] = Portion(s, SeatOf(c)) /\ SeatOf(c) \in 1 .. 3
             /\ players[SeatOf(c)] = c
  BY <1>1, Seats
<1>5. /\ Portion(s, 1) = {s[j] : j \in 1 .. HandSize}
      /\ Portion(s, 2) = {s[j] : j \in HandSize + 1 .. 2 * HandSize}
      /\ Portion(s, 3) = {s[j] : j \in 2 * HandSize + 1 .. 3 * HandSize}
  OBVIOUS
<1> HIDE DEF Portion
<1>6. \A k \in 1 .. 3 : Size(Portion(s, k), HandSize)
  <2>1. Size(Portion(s, 1), HandSize)
    <3>1. Size({s[j] : j \in 1 .. 1 + HandSize - 1}, HandSize)
      BY <1>2, SizeSlice
    <3>2. 1 + HandSize - 1 = HandSize
      OBVIOUS
    <3> QED  BY <1>5, <3>1, <3>2
  <2>2. Size(Portion(s, 2), HandSize)
    <3>1. Size({s[j] : j \in HandSize + 1 .. HandSize + 1 + HandSize - 1}, HandSize)
      <4>1. HandSize + 1 \in 1 .. DeckSize + 1 /\ HandSize + 1 + HandSize =< DeckSize + 1
        BY <1>2
      <4> QED  BY <4>1, SizeSlice
    <3>2. HandSize + 1 + HandSize - 1 = 2 * HandSize
      OBVIOUS
    <3> QED  BY <1>5, <3>1, <3>2
  <2>3. Size(Portion(s, 3), HandSize)
    <3>1. Size({s[j] : j \in 2 * HandSize + 1 .. 2 * HandSize + 1 + HandSize - 1}, HandSize)
      <4>1. 2 * HandSize + 1 \in 1 .. DeckSize + 1 /\ 2 * HandSize + 1 + HandSize =< DeckSize + 1
        BY <1>2
      <4> QED  BY <4>1, SizeSlice
    <3>2. 2 * HandSize + 1 + HandSize - 1 = 3 * HandSize
      OBVIOUS
    <3> QED  BY <1>5, <3>1, <3>2
  <2> QED  BY <2>1, <2>2, <2>3
<1>7. Size(stock', 3)
  <2>1. Size({s[j] : j \in 3 * HandSize + 1 .. 3 * HandSize + 1 + 3 - 1}, 3)
    <3>1. 3 * HandSize + 1 \in 1 .. DeckSize + 1 /\ 3 * HandSize + 1 + 3 =< DeckSize + 1
      BY <1>2
    <3> QED  BY <3>1, SizeSlice
  <2>2. 3 * HandSize + 1 + 3 - 1 = DeckSize
    BY <1>2
  <2> QED  BY <1>1, <2>1, <2>2
<1>8. /\ Portion(s, 1) \cap Portion(s, 2) = {} /\ Portion(s, 1) \cap Portion(s, 3) = {}
      /\ Portion(s, 2) \cap Portion(s, 3) = {}
      /\ \A k \in 1 .. 3 : Portion(s, k) \cap stock' = {}
  <2> DEFINE N == HandSize
  <2>1. /\ 1 \in Nat \ {0} /\ N + 1 \in Nat \ {0} /\ 2 * N + 1 \in Nat \ {0} /\ 3 * N + 1 \in Nat
        /\ N \in Nat /\ 2 * N \in Nat /\ 3 * N \in Nat
        /\ N < N + 1 /\ N < 2 * N + 1 /\ N < 3 * N + 1 /\ 2 * N < 2 * N + 1
        /\ 2 * N < 3 * N + 1 /\ 3 * N < 3 * N + 1
        /\ 2 * N =< DeckSize /\ 3 * N =< DeckSize
    BY <1>2
  <2>2. Portion(s, 1) \cap Portion(s, 2) = {}
    BY <1>5, <2>1, SlicesApart
  <2>3. Portion(s, 1) \cap Portion(s, 3) = {}
    BY <1>5, <2>1, SlicesApart
  <2>4. Portion(s, 2) \cap Portion(s, 3) = {}
    BY <1>5, <2>1, SlicesApart
  <2>5. DeckSize =< DeckSize
    BY <1>2
  <2>6. Portion(s, 1) \cap stock' = {}
    BY <1>1, <1>2, <1>5, <2>1, <2>5, SlicesApart
  <2>7. Portion(s, 2) \cap stock' = {}
    BY <1>1, <1>2, <1>5, <2>1, <2>5, SlicesApart
  <2>8. Portion(s, 3) \cap stock' = {}
    BY <1>1, <1>2, <1>5, <2>1, <2>5, SlicesApart
  <2>9. \A k \in 1 .. 3 : Portion(s, k) \cap stock' = {}
    BY <2>6, <2>7, <2>8
  <2> QED  BY <2>2, <2>3, <2>4, <2>9
<1>9. \A c, d \in Seated : c # d => hand'[c] \cap hand'[d] = {}
  BY <1>4, <1>8
<1>10. used' = NoCards
  BY DEF DealCards
<1>11. \A c \in Seated : Size(hand'[c], HandSize) /\ hand'[c] \cap stock' = {}
  BY <1>4, <1>6, <1>8
<1> QED  BY <1>7, <1>9, <1>10, <1>11

-----------------------------------------------------------------------------
(***************************************************************************)
(* Tables where no game is on, and rounds that have just been dealt.       *)
(***************************************************************************)
LEMMA QuietCards ==
  ASSUME asked' \in Quiet, stock' = {}, hand' = NoCards, claim' = Zero, temp' = Zero,
         gifts' = 0, turn' = 0, superSuit' = NONE, vec' = << >>
  PROVE  CardInv'
<1>1. asked' \notin InRound /\ asked' \notin {"bid", "give", "final", "lead", "follow"}
  BY DEF Quiet, InRound, InHand
<1>2. CleanTable'
  BY DEF CleanTable, NoCards, Zero
<1>3. HandsSized' /\ StockSized' /\ Apart' /\ RoundClock' /\ TrickInOrder'
  BY <1>1 DEF HandsSized, StockSized, Apart, RoundClock, TrickInOrder, InPlay
<1> QED  BY <1>2, <1>3 DEF CardInv

LEMMA RoundStartCards ==
  ASSUME FullTable, players' = players, asked' = "bid", DealCards,
         vec' = << >>, turn' = 0, stage' # "ADDING"
  PROVE  CardInv'
<1>1. Seated' = Seated /\ Seated \subseteq Clients
  BY Unmoved, Seats
<1>2. asked' \in InRound /\ asked' \notin InPlay
  BY DEF InRound, InPlay
<1>3. \A c \in Seated : Unused(c)' = hand'[c]
  <2>1. \A c \in Seated : used'[c] = {}
    BY <1>1, DealtApart DEF NoCards
  <2> QED  BY <2>1 DEF Unused
<1>4. OnTable' = {}
  BY DEF OnTable
<1>5. HandsSized'
  BY <1>1, <1>2, <1>3, DealtApart DEF HandsSized, Held
<1>6. StockSized'
  BY DealtApart DEF StockSized
<1>7. Apart'
  BY <1>1, <1>3, <1>4, DealtApart DEF Apart
<1>8. CleanTable' /\ RoundClock' /\ TrickInOrder'
  BY <1>1, <1>2, DealtApart DEF CleanTable, RoundClock, TrickInOrder
<1> QED  BY <1>5, <1>6, <1>7, <1>8 DEF CardInv

-----------------------------------------------------------------------------
(***************************************************************************)
(* The actions before the first trick.                                     *)
(***************************************************************************)
LEMMA HeldBefore ==
  ASSUME NEW c
  PROVE  /\ asked = "bid" => Held(c) = HandSize
         /\ asked = "give" => Held(c) = IF c = it.HIGHEST THEN HandSize + 3 ELSE HandSize
         /\ asked = "final" => Held(c) = HandSize + 1
         /\ asked \in InPlay => Held(c) = MaxTurns - turn - (IF Played(c) THEN 1 ELSE 0)
  BY DEF Held, InPlay

LEMMA HeldAfter ==
  ASSUME NEW c
  PROVE  /\ asked' = "bid" => Held(c)' = HandSize
         /\ asked' = "give" => Held(c)' = IF c = it'.HIGHEST THEN HandSize + 3 ELSE HandSize
         /\ asked' = "final" => Held(c)' = HandSize + 1
         /\ asked' \in InPlay =>
              Held(c)' = MaxTurns - turn' - (IF Played(c)' THEN 1 ELSE 0)
  BY DEF Held, InPlay

LEMMA StillCards ==
  ASSUME CardInv, asked' = asked, stage' = stage \/ stage' # "ADDING",
         UNCHANGED <<players, claim, temp, hand, used, stock, it, gifts, vec, turn, superSuit>>
  PROVE  CardInv'
<1>1. Seated' = Seated /\ (\A c : NextOf(c)' = NextOf(c)) /\ OnTable' = OnTable
      /\ \A c : Unused(c)' = Unused(c) /\ Held(c)' = Held(c)
  BY Unmoved DEF OnTable, Unused, Held, Played
<1>2. CleanTable' /\ HandsSized' /\ StockSized' /\ Apart' /\ RoundClock' /\ TrickInOrder'
  BY <1>1 DEF CardInv, CleanTable, HandsSized, StockSized, Apart, RoundClock, TrickInOrder,
     Zero, NoCards
<1> QED  BY <1>2 DEF CardInv

LEMMA JoinCards ==
  ASSUME AuctionInv, CardInv, NEW c \in Clients, Join(c) \/ JoinFull(c)
  PROVE  CardInv'
<1>1. CASE Join(c)
  <2>1. /\ UNCHANGED <<claim, temp, hand, stock, gifts, vec, turn, superSuit>>
        /\ asked' \in {"seating", "ready"} /\ Len(players) < 3
    BY <1>1 DEF Join, HandleAdd, cardVars, gameVars
  <2>2. asked = "seating"
    BY <2>1 DEF AuctionInv, TableFull
  <2> QED  BY <2>1, <2>2, QuietCards DEF CardInv, CleanTable, Quiet
<1>2. CASE JoinFull(c)
  BY <1>2, StillCards DEF JoinFull, HandleAdd, cardVars, gameVars
<1> QED  BY <1>1, <1>2

LEMMA ReadyCards ==
  ASSUME AuctionInv, CardInv, NEW c \in Clients, PressReady(c)
  PROVE  CardInv'
<1>1. /\ asked = "ready" /\ HandleReady(c)
      /\ asked' = IF stage' = "BIDDING" THEN "bid" ELSE "ready"
      /\ UNCHANGED <<players, temp, score, gifts, vec, turn, superSuit>>
  BY DEF PressReady, HandleReady, gameVars
<1>2. FullTable
  BY <1>1, FullWhenAsked
<1>3. vec = << >> /\ turn = 0
  BY <1>1 DEF CardInv, CleanTable
<1>4. CASE stage' = "BIDDING" /\ DealCards
  BY <1>1, <1>2, <1>3, <1>4, RoundStartCards
<1>5. CASE UNCHANGED <<it, claim, hand, used, stock>> /\ stage' = stage
  <2>1. stage \in {"ADDING", "FAIL"}
    BY <1>1 DEF AuctionInv, StageAgrees
  <2> QED  BY <1>1, <1>5, <2>1, StillCards
<1> QED  BY <1>1, <1>4, <1>5 DEF HandleReady, cardVars

(***************************************************************************)
(* A bid moves no card, or the stock into the hand of the contract's       *)
(* holder.                                                                 *)
(***************************************************************************)
LEMMA BidCards ==
  ASSUME AuctionInv, AuctionInv', CardInv, NEW b \in Bids \cup {PASS}, asked = "bid", PlaceBid(b)
  PROVE  CardInv'
<1> USE HandAssumption
<1> DEFINE h == it'.HIGHEST
<1>1. it.CURRENT # it.HIGHEST
  BY DEF AuctionInv, AuctionOrder
<1>2. /\ UNCHANGED <<players, used, temp, gifts, vec, turn, superSuit>>
      /\ asked' = CASE stage' = "BIDDING" -> "bid"
                    [] stage' = "DEALING" -> "give"
                    [] stage' = "PLAYING" -> "lead"
      /\ IF it'.CURRENT = h
           THEN hand' = [hand EXCEPT ![h] = @ \cup stock] /\ stock' = {} /\ stage' = "DEALING"
           ELSE stage' = "BIDDING" /\ UNCHANGED <<hand, stock>>
  BY <1>1 DEF PlaceBid, HandleBid, RegularBid, FinalBid, gameVars
<1>3. Seated' = Seated /\ Seated \subseteq Clients /\ OnTable' = OnTable
  BY <1>2, Unmoved, Seats, FullWhenAsked DEF OnTable
<1>4. /\ vec = << >> /\ turn = 0 /\ used = NoCards /\ OnTable = {} /\ Size(stock, 3)
      /\ \A c \in Seated : Size(Unused(c), HandSize)
      /\ \A c, d \in Seated : c # d => Unused(c) \cap Unused(d) = {}
      /\ \A c \in Seated : Unused(c) \cap stock = {}
  <2>1. asked \in InRound
    BY DEF InRound
  <2>2. vec = << >> /\ turn = 0 /\ used = NoCards /\ Size(stock, 3)
    BY <2>1 DEF CardInv, RoundClock, StockSized
  <2>3. OnTable = {}
    BY <2>2 DEF OnTable
  <2>4. \A c \in Seated : Size(Unused(c), HandSize)
    BY <2>1, HeldBefore DEF CardInv, HandsSized
  <2> QED  BY <2>1, <2>2, <2>3, <2>4 DEF CardInv, Apart
<1>5. \A c \in Seated : Unused(c) = hand[c] /\ Unused(c)' = hand'[c]
  <2>1. \A c \in Seated : used[c] = {} /\ used'[c] = {}
    BY <1>2, <1>3, <1>4 DEF NoCards
  <2> QED  BY <2>1 DEF Unused
<1>6. CASE it'.CURRENT # h
  <2>1. asked' = "bid" /\ stage' = "BIDDING" /\ UNCHANGED <<hand, stock>>
    BY <1>2, <1>6
  <2>2. HandsSized' /\ StockSized' /\ Apart'
    BY <1>3, <1>4, <1>5, <2>1, HeldAfter DEF HandsSized, StockSized, Apart
  <2>3. CleanTable' /\ RoundClock' /\ TrickInOrder'
    BY <1>2, <1>4, <2>1 DEF CleanTable, RoundClock, TrickInOrder, InPlay, NoCards
  <2> QED  BY <2>2, <2>3 DEF CardInv
<1>7. CASE it'.CURRENT = h
  <2>1. /\ asked' = "give" /\ stage' = "DEALING" /\ stock' = {}
        /\ hand' = [hand EXCEPT ![h] = @ \cup stock]
    BY <1>2, <1>7
  <2>2. h \in Seated
    BY <1>3, <2>1 DEF AuctionInv, RolesSeated, InRound, InHand
  <2>3. \A c \in Seated : hand'[c] = IF c = h THEN hand[c] \cup stock ELSE hand[c]
    BY <1>3, <2>1 DEF AuctionInv, TypeOK
  <2> HIDE DEF h
  <2>4. Size(hand[h] \cup stock, HandSize + 3)
    BY <1>4, <1>5, <2>2, SizeUnion
  <2>5. \A c \in Seated : Size(hand'[c], IF c = h THEN HandSize + 3 ELSE HandSize)
    BY <1>4, <1>5, <2>3, <2>4
  <2>6. HandsSized'
    BY <1>3, <1>5, <2>1, <2>5, HeldAfter DEF HandsSized, h
  <2>7. Apart'
    BY <1>3, <1>4, <1>5, <2>1, <2>3 DEF Apart
  <2>8. CleanTable' /\ StockSized' /\ RoundClock' /\ TrickInOrder'
    BY <1>2, <1>4, <2>1 DEF CleanTable, StockSized, RoundClock, TrickInOrder, InPlay, NoCards
  <2> QED  BY <2>6, <2>7, <2>8 DEF CardInv
<1> QED  BY <1>6, <1>7

LEMMA FinalBidCards ==
  ASSUME AuctionInv, CardInv, NEW b \in Bids \cup {PASS}, asked = "final", PlaceBid(b)
  PROVE  CardInv'
<1> USE HandAssumption
<1>1. it.CURRENT = it.HIGHEST
  BY DEF AuctionInv, OneContract, InHand
<1>2. /\ UNCHANGED <<players, hand, used, stock, it, temp, gifts, vec, turn, superSuit>>
      /\ stage' = "PLAYING" /\ asked' = "lead"
  BY <1>1 DEF PlaceBid, HandleBid, RegularBid, FinalBid, gameVars
<1>3. Seated' = Seated /\ OnTable' = OnTable /\ \A c : Unused(c)' = Unused(c)
  BY <1>2, Unmoved DEF OnTable, Unused
<1>4. /\ vec = << >> /\ turn = 0 /\ stock = {}
      /\ \A c \in Seated : Size(Unused(c), HandSize + 1)
  <2>1. asked \in InRound
    BY DEF InRound, InHand
  <2>2. \A c \in Seated : Size(Unused(c), HandSize + 1)
    BY <2>1, HeldBefore DEF CardInv, HandsSized
  <2> QED  BY <2>1, <2>2 DEF CardInv, RoundClock, StockSized
<1>5. \A c : Held(c)' = HandSize + 1
  <2>1. \A c : ~ Played(c)'
    BY <1>2, <1>4 DEF Played
  <2> QED  BY <1>2, <1>4, <2>1 DEF Held, InPlay, MaxTurns
<1>6. HandsSized' /\ StockSized' /\ Apart'
  BY <1>2, <1>3, <1>4, <1>5 DEF CardInv, HandsSized, StockSized, Apart, InRound, InHand
<1>7. CleanTable' /\ RoundClock' /\ TrickInOrder'
  BY <1>2, <1>4 DEF CleanTable, RoundClock, TrickInOrder, MaxTurns
<1> QED  BY <1>6, <1>7 DEF CardInv

(***************************************************************************)
(* The gifts go from the holder's hand to the two others.                  *)
(***************************************************************************)
LEMMA GiveCards ==
  ASSUME AuctionInv, CardInv, NEW x \in Deck, NEW y \in Deck, Give(x, y)
  PROVE  CardInv'
<1> USE HandAssumption
<1> DEFINE h == it.HIGHEST
           p == NextOf(h)
           q == NextOf(p)
<1>1. /\ asked = "give" /\ asked' = "final" /\ stage' = "DEALING"
      /\ UNCHANGED <<players, stock, it, vec, turn>>
      /\ x # y /\ x \in Unused(h) /\ y \in Unused(h)
      /\ hand' = [c \in Clients |-> hand[c] \cup (IF c = p THEN {x} ELSE {})
                                            \cup (IF c = q THEN {y} ELSE {})]
      /\ used' = [used EXCEPT ![h] = @ \cup {x, y}]
  BY DEF Give, HandleDeal, gameVars
<1>2. FullTable /\ TypeOK
  BY <1>1, FullWhenAsked DEF AuctionInv
<1>3. Seated' = Seated /\ Seated \subseteq Clients /\ OnTable' = OnTable
  BY <1>1, <1>2, Unmoved, Seats DEF OnTable
<1>4. asked \in InRound
  BY <1>1 DEF InRound, InHand
<1>5. h \in Seated
  BY <1>4 DEF AuctionInv, RolesSeated
<1>6. Seated = {h, p, q} /\ h # p /\ h # q /\ p # q
  BY <1>2, <1>5, Neighbours
<1>7. /\ vec = << >> /\ turn = 0 /\ stock = {} /\ used = NoCards /\ OnTable = {}
      /\ \A c, d \in Seated : c # d => Unused(c) \cap Unused(d) = {}
  BY <1>1, <1>4 DEF CardInv, RoundClock, StockSized, Apart, OnTable
<1>8. Size(Unused(h), HandSize + 3) /\ Size(Unused(p), HandSize) /\ Size(Unused(q), HandSize)
  BY <1>1, <1>4, <1>6, HeldBefore DEF CardInv, HandsSized
<1> HIDE DEF h, p, q
<1>9. \A c \in Seated :
        /\ used[c] = {} /\ used'[c] = IF c = h THEN {x, y} ELSE {}
        /\ hand'[c] = hand[c] \cup (IF c = p THEN {x} ELSE {}) \cup (IF c = q THEN {y} ELSE {})
  BY <1>1, <1>2, <1>3, <1>7 DEF NoCards
<1>10. \A c \in Seated : Unused(c)' = IF c = h THEN (Unused(h) \ {x}) \ {y}
                                     ELSE IF c = p THEN Unused(p) \cup {x}
                                     ELSE Unused(q) \cup {y}
  <2>1. \A c \in Seated : Unused(c) = hand[c] /\ Unused(c)' = hand'[c] \ used'[c]
    BY <1>9 DEF Unused
  <2> QED  BY <1>6, <1>9, <2>1
<1>11. x \notin Unused(p) /\ y \notin Unused(q) /\ y \in Unused(h) \ {x}
  BY <1>1, <1>6, <1>7
<1>12. Size((Unused(h) \ {x}) \ {y}, HandSize + 1)
  <2>1. IsFiniteSet(Unused(h)) /\ Cardinality(Unused(h)) = HandSize + 3
    BY <1>8 DEF Size
  <2>2. IsFiniteSet(Unused(h) \ {x}) /\ Cardinality(Unused(h) \ {x}) = HandSize + 2
    <3>1. x \in Unused(h)
      BY <1>1 DEF h
    <3> QED  BY <2>1, <3>1, FS_RemoveElement
  <2> QED  BY <1>11, <2>2, FS_RemoveElement DEF Size
<1>13. \A c \in Seated : Size(Unused(c)', HandSize + 1)
  <2>1. Size(Unused(p) \cup {x}, HandSize + 1) /\ Size(Unused(q) \cup {y}, HandSize + 1)
    BY <1>8, <1>11, SizeAdd
  <2> QED  BY <1>10, <1>12, <2>1
<1>14. HandsSized'
  BY <1>1, <1>3, <1>13, HeldAfter DEF HandsSized
<1>15. Apart'
  BY <1>1, <1>3, <1>6, <1>7, <1>10 DEF Apart
<1>16. CleanTable' /\ StockSized' /\ RoundClock' /\ TrickInOrder'
  BY <1>1, <1>7 DEF CleanTable, StockSized, RoundClock, TrickInOrder, InPlay
<1> QED  BY <1>14, <1>15, <1>16 DEF CardInv

(***************************************************************************)
(* A player who leaves, not in the middle of a trick, leaves a clean table.*)
(***************************************************************************)
LEMMA LeaveCards ==
  ASSUME AuctionInv, CardInv, "follow" \notin LeaveIn, NEW c \in Clients, Leave(c)
  PROVE  CardInv'
<1>1. /\ asked' = "seating" /\ asked \in LeaveIn
      /\ claim' = Zero /\ temp' = Zero /\ hand' = NoCards /\ stock' = {} /\ vec' = vec
      /\ IF stage # "ADDING" THEN gifts' = 0 /\ turn' = 0 /\ superSuit' = NONE
                             ELSE UNCHANGED <<gifts, turn, superSuit>>
  BY DEF Leave, HandleLeave, ResetIfGameHadStarted, ResetPlayers
<1>2. asked \in Questions /\ asked # "follow"
  BY <1>1 DEF AuctionInv, TypeOK
<1>3. vec = << >> /\ (stage = "ADDING" => gifts = 0 /\ turn = 0 /\ superSuit = NONE)
  <2>1. CASE asked \in Quiet
    BY <2>1 DEF Quiet, CardInv, CleanTable
  <2>2. CASE asked \in {"bid", "give", "final", "lead"}
    BY <2>2 DEF CardInv, RoundClock, InRound, InHand
  <2> QED  BY <1>2, <2>1, <2>2 DEF Questions, Quiet
<1> QED  BY <1>1, <1>3, QuietCards DEF Quiet

-----------------------------------------------------------------------------
(***************************************************************************)
(* A card in play.                                                         *)
(***************************************************************************)

\* The cards on the table are of the players before the current one.
LEMMA WhoPlayed ==
  ASSUME AuctionInv, CardInv, asked \in InPlay
  PROVE  /\ FullTable /\ TypeOK /\ it.CURRENT \in Seated
         /\ Len(vec) \in {0, 1, 2} /\ DOMAIN vec = 1 .. Len(vec)
         /\ asked = "lead" => vec = << >>
         /\ \A i \in DOMAIN vec : vec[i].player \in Seated
         /\ ~ Played(it.CURRENT)
         /\ Len(vec) = 0 => \A d \in Seated : ~ Played(d)
         /\ Len(vec) = 1 => it.CURRENT = NextOf(vec[1].player)
         /\ Len(vec) = 2 => \A d \in Seated : d # it.CURRENT => Played(d)
<1>1. FullTable /\ TypeOK
  BY FullWhenAsked DEF AuctionInv, InPlay
<1>2. it.CURRENT \in Seated
  BY DEF AuctionInv, RolesSeated, InRound, InHand, InPlay
<1>3. vec \in Seq([player : Clients, card : Deck]) /\ DOMAIN vec = 1 .. Len(vec)
  BY <1>1 DEF TypeOK
<1>4. CASE asked = "lead"
  <2>1. vec = << >> /\ DOMAIN vec = {} /\ Len(vec) = 0
    BY <1>4 DEF CardInv, RoundClock
  <2> QED  BY <1>1, <1>2, <1>3, <1>4, <2>1 DEF Played
<1>5. CASE asked = "follow"
  <2> DEFINE v == vec[1].player
  <2>1. /\ Len(vec) \in {1, 2} /\ v \in Seated
        /\ Len(vec) = 1 => it.CURRENT = NextOf(v)
        /\ Len(vec) = 2 => vec[2].player = NextOf(v) /\ it.CURRENT = NextOf(vec[2].player)
    BY <1>5 DEF CardInv, TrickInOrder
  <2>2. /\ NextOf(v) \in Seated /\ Seated = {v, NextOf(v), NextOf(NextOf(v))}
        /\ v # NextOf(v) /\ v # NextOf(NextOf(v)) /\ NextOf(v) # NextOf(NextOf(v))
    BY <1>1, <2>1, Neighbours
  <2>3. CASE Len(vec) = 1
    <3>1. DOMAIN vec = {1}
      BY <1>3, <2>3
    <3> QED  BY <1>1, <1>2, <1>3, <1>5, <2>1, <2>2, <2>3, <3>1 DEF Played
  <2>4. CASE Len(vec) = 2
    <3>1. DOMAIN vec = {1, 2}
      BY <1>3, <2>4
    <3> QED  BY <1>1, <1>2, <1>3, <1>5, <2>1, <2>2, <2>4, <3>1 DEF Played
  <2> QED  BY <2>1, <2>3, <2>4
<1> QED  BY <1>4, <1>5 DEF InPlay

\* The card that takes a full table of seated players is one player's.
LEMMA SomebodyTakes ==
  ASSUME NEW table, DOMAIN table = 1 .. 3, \A i \in 1 .. 3 : table[i].player \in Seated, NEW trump
  PROVE  \E w \in Seated : TakenBy(w, table, trump)
<1> DEFINE cards == [i \in DOMAIN table |-> table[i].card]
           best == FindSuperiorCard(cards, trump)
           Is(i) == table[i].card = best
<1>1. best \in {table[1].card, table[2].card, table[3].card}
  BY DEF FindSuperiorCard, IsBigger
<1> HIDE DEF best
<1>2. \E i \in 1 .. 3 : Is(i) /\ \A k \in 1 .. 3 : Is(k) => k =< i
  <2>1. Is(1) \/ Is(2) \/ Is(3)
    BY <1>1
  <2>2. CASE Is(3)
    BY <2>2
  <2>3. CASE ~ Is(3) /\ Is(2)
    BY <2>3
  <2>4. CASE ~ Is(3) /\ ~ Is(2) /\ Is(1)
    BY <2>4
  <2> QED  BY <2>1, <2>2, <2>3, <2>4
<1>3. PICK i \in 1 .. 3 : Is(i) /\ \A k \in 1 .. 3 : Is(k) => k =< i
  BY <1>2
<1>4. TakenBy(table[i].player, table, trump)
  BY <1>3 DEF TakenBy, best
<1> QED  BY <1>4

LEMMA PlayCards ==
  ASSUME AuctionInv, CardInv, NEW card \in Deck, PlayCard(card)
  PROVE  CardInv'
<1> USE HandAssumption
<1> DEFINE c == it.CURRENT
           rec == [player |-> c, card |-> card]
           table == Append(vec, rec)
<1>1. asked \in InPlay /\ asked \in InRound
  BY DEF PlayCard, InPlay, InRound, InHand
<1>2. /\ FullTable /\ TypeOK /\ c \in Seated /\ ~ Played(c)
      /\ Len(vec) \in {0, 1, 2} /\ DOMAIN vec = 1 .. Len(vec)
      /\ asked = "lead" => vec = << >>
      /\ \A i \in DOMAIN vec : vec[i].player \in Seated
      /\ Len(vec) = 0 => \A d \in Seated : ~ Played(d)
      /\ Len(vec) = 1 => c = NextOf(vec[1].player)
      /\ Len(vec) = 2 => \A d \in Seated : d # c => Played(d)
  BY <1>1, WhoPlayed
<1>3. stage \in {"PLAYING", "FAIL"} /\ turn \in Nat /\ turn < MaxTurns /\ MaxTurns \in Nat
      /\ stock = {}
  BY <1>1, <1>2 DEF AuctionInv, StageAgrees, TypeOK, CardInv, RoundClock, StockSized, MaxTurns,
     InPlay
<1>4. /\ players' = players /\ card \in Unused(c)
      /\ asked' = CASE stage' = "BIDDING" -> "bid"
                    [] stage' = "ADDING"  -> "none"
                    [] OTHER -> IF vec' = << >> THEN "lead"
                                ELSE IF Len(vec') = 3 THEN "none" ELSE "follow"
  BY DEF PlayCard, HandlePlay
<1>5. Seated' = Seated /\ Seated \subseteq Clients /\ \A d : NextOf(d)' = NextOf(d)
  BY <1>2, <1>4, Unmoved, Seats
<1>6. /\ Len(table) = Len(vec) + 1 /\ DOMAIN table = 1 .. Len(vec) + 1 /\ table # << >>
      /\ \A i \in 1 .. Len(vec) : table[i] = vec[i]
      /\ table[Len(vec) + 1] = rec
  <2>1. vec \in Seq([player : Clients, card : Deck]) /\ rec \in [player : Clients, card : Deck]
    BY <1>2, <1>5 DEF TypeOK
  <2> HIDE DEF rec
  <2>2. table \in Seq([player : Clients, card : Deck]) /\ Len(table) = Len(vec) + 1
    BY <2>1, AppendProperties
  <2>3. /\ \A i \in 1 .. Len(vec) : table[i] = vec[i]
        /\ table[Len(vec) + 1] = rec
    BY <2>1, AppendProperties
  <2> HIDE DEF table
  <2>4. DOMAIN table = 1 .. Len(table)
    BY <2>2
  <2> QED  BY <1>2, <2>2, <2>3, <2>4
<1>7. rec.player = c /\ rec.card = card
  OBVIOUS
<1> HIDE DEF rec, table
<1>8. /\ \A d \in Seated : Size(Unused(d), MaxTurns - turn - (IF Played(d) THEN 1 ELSE 0))
      /\ \A d, e \in Seated : d # e => Unused(d) \cap Unused(e) = {}
      /\ \A d \in Seated : Unused(d) \cap OnTable = {}
  BY <1>1, HeldBefore DEF CardInv, HandsSized, Apart
\* What a card does to the hands when the round goes on.
<1>9. ASSUME used' = [used EXCEPT ![c] = @ \cup {card}], hand' = hand
      PROVE  /\ \A d \in Seated : Unused(d)' = IF d = c THEN Unused(d) \ {card} ELSE Unused(d)
             /\ \A d \in Seated :
                  Size(Unused(d)', MaxTurns - turn - (IF d = c \/ Played(d) THEN 1 ELSE 0))
  <2>1. \A d \in Seated : Unused(d)' = IF d = c THEN Unused(d) \ {card} ELSE Unused(d)
    <3>1. \A d \in Seated : used'[d] = IF d = c THEN used[d] \cup {card} ELSE used[d]
      BY <1>2, <1>5, <1>9 DEF TypeOK
    <3> QED  BY <1>9, <3>1 DEF Unused
  <2>2. Size(Unused(c) \ {card}, MaxTurns - turn - 1)
    <3>1. IsFiniteSet(Unused(c)) /\ Cardinality(Unused(c)) = MaxTurns - turn
      BY <1>2, <1>3, <1>8 DEF Size
    <3>2. /\ IsFiniteSet(Unused(c) \ {card})
          /\ Cardinality(Unused(c) \ {card}) = Cardinality(Unused(c)) - 1
      BY <1>4, <3>1, FS_RemoveElement
    <3> QED  BY <3>1, <3>2 DEF Size
  <2> QED  BY <1>2, <1>8, <2>1, <2>2
<1>10. ASSUME PlayOn(c, card, table)
       PROVE  CardInv'
  <2>1. /\ vec' = table /\ stage' = "PLAYING" /\ Len(table) # 3
        /\ it' = [it EXCEPT !.CURRENT = NextOf(c)]
        /\ used' = [used EXCEPT ![c] = @ \cup {card}]
        /\ UNCHANGED <<hand, stock, turn>>
    BY <1>10 DEF PlayOn
  <2>2. asked' = "follow" /\ Len(vec) \in {0, 1}
    <3>1. Len(vec) \in {0, 1}
      BY <1>2, <1>6, <2>1
    <3>2. asked' = "follow"
      BY <1>4, <1>6, <2>1
    <3> QED  BY <3>1, <3>2
  <2>3. \A d \in Seated : Played(d)' <=> d = c \/ Played(d)
    <3>1. \A d \in Seated : Played(d)' <=> \E i \in 1 .. Len(vec) + 1 : table[i].player = d
      BY <1>6, <2>1 DEF Played
    <3>2. \A d \in Seated : Played(d) <=> \E i \in 1 .. Len(vec) : table[i].player = d
      BY <1>2, <1>6 DEF Played
    <3>3. table[Len(vec) + 1].player = c
      BY <1>6, <1>7
    <3> QED  BY <1>2, <3>1, <3>2, <3>3
  <2>4. HandsSized'
    <3>1. \A d \in Seated : Held(d)' = MaxTurns - turn - (IF d = c \/ Played(d) THEN 1 ELSE 0)
      <4>1. asked' \in InPlay /\ turn' = turn
        BY <2>1, <2>2 DEF InPlay
      <4>2. MaxTurns' = MaxTurns
        BY DEF MaxTurns
      <4> QED  BY <2>3, <4>1, <4>2, HeldAfter
    <3> QED  BY <1>5, <1>9, <2>1, <3>1 DEF HandsSized
  <2>5. OnTable' = OnTable \cup {card}
    <3>1. OnTable' = {table[i].card : i \in 1 .. Len(vec) + 1}
      BY <1>6, <2>1 DEF OnTable
    <3>2. OnTable = {table[i].card : i \in 1 .. Len(vec)}
      BY <1>2, <1>6 DEF OnTable
    <3>3. table[Len(vec) + 1].card = card
      BY <1>6, <1>7
    <3> QED  BY <1>2, <3>1, <3>2, <3>3
  <2>6. Apart'
    <3>1. \A d \in Seated : Unused(d)' \cap (OnTable \cup {card}) = {}
      BY <1>2, <1>4, <1>8, <1>9, <2>1
    <3>2. \A d, e \in Seated : d # e => Unused(d)' \cap Unused(e)' = {}
      BY <1>8, <1>9, <2>1
    <3> QED  BY <1>3, <1>5, <2>1, <2>5, <3>1, <3>2 DEF Apart
  <2>7. TrickInOrder'
    <3>1. it'.CURRENT = NextOf(c)
      BY <1>2, <2>1 DEF TypeOK
    <3>2. CASE Len(vec) = 0
      <4>1. Len(vec') = 1 /\ vec'[1].player = c
        BY <1>6, <1>7, <2>1, <3>2
      <4> QED  BY <1>2, <1>5, <3>1, <4>1 DEF TrickInOrder
    <3>3. CASE Len(vec) = 1
      <4>1. Len(vec') = 2 /\ vec'[1] = vec[1] /\ vec'[2].player = c
        BY <1>6, <1>7, <2>1, <3>3
      <4>2. vec'[1].player \in Seated /\ vec'[2].player = NextOf(vec'[1].player)
        BY <1>2, <3>3, <4>1
      <4> QED  BY <1>5, <3>1, <4>1, <4>2 DEF TrickInOrder
    <3> QED  BY <2>2, <3>2, <3>3
  <2>8. CleanTable' /\ StockSized' /\ RoundClock'
    BY <1>3, <2>1, <2>2 DEF CleanTable, StockSized, RoundClock, InPlay, MaxTurns
  <2> QED  BY <2>4, <2>6, <2>7, <2>8 DEF CardInv
<1>11. ASSUME Len(table) = 3, PlayFails(c, card, table)
       PROVE  FALSE
  <2>1. DOMAIN table = 1 .. 3 /\ \A i \in 1 .. 3 : table[i].player \in Seated
    BY <1>2, <1>6, <1>7, <1>11
  <2> QED  BY <1>11, <2>1, SomebodyTakes DEF PlayFails
<1>12. ASSUME NEW w \in Seated, Len(table) = 3, TakeTrick(c, card, w)
       PROVE  CardInv'
  <2>1. /\ vec' = << >> /\ stage' = "PLAYING" /\ turn' = turn + 1 /\ turn + 1 # MaxTurns
        /\ used' = [used EXCEPT ![c] = @ \cup {card}]
        /\ UNCHANGED <<hand, stock>>
    BY <1>12 DEF TakeTrick
  <2>2. asked' = "lead" /\ OnTable' = {} /\ \A d : ~ Played(d)'
    BY <1>4, <2>1 DEF OnTable, Played
  <2>3. \A d \in Seated : d = c \/ Played(d)
    <3>1. Len(vec) = 2
      <4>1. Len(vec) \in {0, 1, 2} /\ Len(vec) + 1 = 3
        BY <1>2, <1>6, <1>12
      <4>2. \A n \in {0, 1, 2} : n + 1 = 3 => n = 2
        OBVIOUS
      <4> QED  BY <4>1, <4>2
    <3> QED  BY <1>2, <3>1
  <2>4. HandsSized'
    <3>1. \A d \in Seated : Size(Unused(d)', MaxTurns - turn - 1)
      BY <1>9, <2>1, <2>3
    <3>2. \A d \in Seated : Held(d)' = MaxTurns - turn - 1
      <4>1. asked' \in InPlay
        BY <2>2 DEF InPlay
      <4>2. \A d : Held(d)' = MaxTurns - (turn + 1) - 0
        BY <2>1, <2>2, <4>1, HeldAfter DEF MaxTurns
      <4> QED  BY <1>3, <4>2
    <3> QED  BY <1>5, <3>1, <3>2 DEF HandsSized
  <2>5. Apart'
    <3>1. \A d, e \in Seated : d # e => Unused(d)' \cap Unused(e)' = {}
      BY <1>8, <1>9, <2>1
    <3> QED  BY <1>3, <1>5, <2>1, <2>2, <3>1 DEF Apart
  <2>6. turn' < MaxTurns'
    BY <1>3, <2>1 DEF MaxTurns
  <2>7. CleanTable' /\ StockSized' /\ RoundClock' /\ TrickInOrder'
    BY <1>3, <2>1, <2>2, <2>6 DEF CleanTable, StockSized, RoundClock, TrickInOrder
  <2> QED  BY <2>4, <2>5, <2>7 DEF CardInv
<1>13. ASSUME NEW t, EndOfRound(t)
       PROVE  CardInv'
  <2>1. /\ temp' = Zero /\ turn' = 0 /\ superSuit' = NONE /\ vec' = << >>
        /\ \/ /\ stage' = "ADDING" /\ claim' = Zero
              /\ hand' = NoCards /\ stock' = stock /\ gifts' = 0
           \/ stage' = "BIDDING" /\ DealCards
    BY <1>13 DEF EndOfRound, NextRound, GameOver
  <2>2. CASE stage' = "ADDING"
    BY <1>3, <1>4, <2>1, <2>2, QuietCards DEF Quiet
  <2>3. CASE stage' = "BIDDING" /\ DealCards
    BY <1>2, <1>4, <2>1, <2>3, RoundStartCards
  <2> QED  BY <2>1, <2>2, <2>3
<1>14. \/ PlayOn(c, card, table)
       \/ Len(table) = 3 /\ PlayFails(c, card, table)
       \/ Len(table) = 3 /\ \E w \in Seated : TakeTrick(c, card, w) \/ \E t : EndOfRound(t)
  BY DEF PlayCard, HandlePlay, table, rec
<1> QED  BY <1>10, <1>11, <1>12, <1>13, <1>14

-----------------------------------------------------------------------------
(***************************************************************************)
(* The theorems.                                                           *)
(***************************************************************************)
LEMMA InitCards == Init => CardInv
<1> SUFFICES ASSUME Init PROVE CardInv
  OBVIOUS
<1>1. asked = "seating" /\ asked \notin InRound /\ asked \notin InPlay
  BY DEF Init, InRound, InHand, InPlay
<1>2. CleanTable
  BY DEF Init, RoomInit, CleanTable
<1>3. HandsSized /\ StockSized /\ Apart /\ RoundClock /\ TrickInOrder
  BY <1>1 DEF HandsSized, StockSized, Apart, RoundClock, TrickInOrder
<1> QED  BY <1>2, <1>3 DEF CardInv

LEMMA NextCards ==
  ASSUME AuctionInv, CardInv, "follow" \notin LeaveIn, [Next]_vars
  PROVE  CardInv'
<1>1. CASE UNCHANGED vars
  BY <1>1, StillCards DEF vars, roomVars, cardVars, gameVars
<1>2. ASSUME NEW b \in Bids \cup {PASS}, PlaceBid(b) PROVE CardInv'
  <2>1. asked \in {"bid", "final"}
    BY <1>2 DEF PlaceBid
  <2>2. CASE asked = "bid"
    BY <1>2, <2>2, RegularBidInv, BidCards
  <2>3. CASE asked = "final"
    BY <1>2, <2>3, FinalBidCards
  <2> QED  BY <2>1, <2>2, <2>3
<1> QED
  BY <1>1, <1>2, ReadyCards, GiveCards, PlayCards, JoinCards, LeaveCards DEF Next, Answer

\* The cards counted: those of the three hands, the stock and the tricks.
LEMMA Counted ==
  ASSUME AuctionInv, CardInv
  PROVE  CardsConserved
<1> USE HandAssumption
<1> SUFFICES ASSUME asked \in InRound
             PROVE  Cardinality(UNION {Unused(c) : c \in Seated}) + Cardinality(stock)
                      + Len(vec) + 3 * turn = DeckSize
  BY DEF CardInv, Apart, CardsConserved
<1> DEFINE a == it.CURRENT
           b == NextOf(a)
           e == NextOf(b)
<1>1. FullTable /\ TypeOK
  BY FullWhenAsked DEF AuctionInv, InRound, InHand
<1>2. a \in Seated
  BY DEF AuctionInv, RolesSeated
<1>3. Seated = {a, b, e} /\ a # b /\ a # e /\ b # e
  BY <1>1, <1>2, Neighbours
<1>4. \A c \in Seated : Size(Unused(c), Held(c))
  BY DEF CardInv, HandsSized
<1>5. \A c, d \in Seated : c # d => Unused(c) \cap Unused(d) = {}
  BY DEF CardInv, Apart
<1> HIDE DEF a, b, e
<1>6. ASSUME NEW m \in Nat, NEW n \in Nat, NEW k \in Nat, Held(a) = m, Held(b) = n, Held(e) = k
      PROVE  Cardinality(UNION {Unused(c) : c \in Seated}) = m + n + k
  <2>1. Size(Unused(a) \cup Unused(b), m + n)
    BY <1>3, <1>4, <1>5, <1>6, SizeUnion
  <2>2. (Unused(a) \cup Unused(b)) \cap Unused(e) = {} /\ m + n \in Nat
    BY <1>3, <1>5
  <2>3. Size((Unused(a) \cup Unused(b)) \cup Unused(e), m + n + k)
    BY <1>3, <1>4, <1>6, <2>1, <2>2, SizeUnion
  <2>4. UNION {Unused(c) : c \in Seated} = (Unused(a) \cup Unused(b)) \cup Unused(e)
    BY <1>3
  <2> QED  BY <2>3, <2>4 DEF Size
<1>7. DeckSize = 3 * HandSize + 3 /\ MaxTurns = HandSize + 1
  BY DEF DeckSize, MaxTurns
<1>8. asked # "bid" => Cardinality(stock) = 0
  BY FS_EmptySet DEF CardInv, StockSized
<1>9. asked \in {"bid", "give", "final"} => turn = 0 /\ Len(vec) = 0
  BY DEF CardInv, RoundClock
<1>10. CASE asked = "bid"
  <2>1. Held(a) = HandSize /\ Held(b) = HandSize /\ Held(e) = HandSize
    BY <1>10, HeldBefore
  <2>2. Cardinality(stock) = 3
    BY <1>10 DEF CardInv, StockSized, Size
  <2>3. Cardinality(UNION {Unused(c) : c \in Seated}) = HandSize + HandSize + HandSize
    BY <1>6, <2>1
  <2> QED  BY <1>7, <1>9, <1>10, <2>2, <2>3
<1>11. CASE asked = "give"
  <2>1. a = it.HIGHEST
    BY <1>11 DEF AuctionInv, OneContract, InHand, a
  <2>2. Held(a) = HandSize + 3 /\ Held(b) = HandSize /\ Held(e) = HandSize
    BY <1>3, <1>11, <2>1, HeldBefore
  <2>3. Cardinality(UNION {Unused(c) : c \in Seated}) = HandSize + 3 + HandSize + HandSize
    BY <1>6, <2>2
  <2> QED  BY <1>7, <1>8, <1>9, <1>11, <2>3
<1>12. CASE asked = "final"
  <2>1. Held(a) = HandSize + 1 /\ Held(b) = HandSize + 1 /\ Held(e) = HandSize + 1
    BY <1>12, HeldBefore
  <2>2. Cardinality(UNION {Unused(c) : c \in Seated}) = HandSize + 1 + (HandSize + 1) + (HandSize + 1)
    BY <1>6, <2>1
  <2> QED  BY <1>7, <1>8, <1>9, <1>12, <2>2
<1>13. CASE asked \in InPlay
  <2>1. /\ ~ Played(a) /\ Len(vec) \in {0, 1, 2}
        /\ Len(vec) = 0 => ~ Played(b) /\ ~ Played(e)
        /\ Len(vec) = 1 => ~ Played(b) /\ Played(e)
        /\ Len(vec) = 2 => Played(b) /\ Played(e)
    <3>1. /\ ~ Played(a) /\ Len(vec) \in {0, 1, 2} /\ DOMAIN vec = 1 .. Len(vec)
          /\ \A i \in DOMAIN vec : vec[i].player \in Seated
          /\ Len(vec) = 0 => \A d \in Seated : ~ Played(d)
          /\ Len(vec) = 1 => a = NextOf(vec[1].player)
          /\ Len(vec) = 2 => \A d \in Seated : d # a => Played(d)
      BY <1>13, WhoPlayed DEF a
    <3>2. CASE Len(vec) = 1
      <4>1. DOMAIN vec = {1} /\ vec[1].player \in Seated /\ a = NextOf(vec[1].player)
        BY <3>1, <3>2
      <4>2. vec[1].player = e
        BY <1>1, <4>1, Neighbours DEF b, e
      <4> QED  BY <1>3, <3>1, <3>2, <4>1, <4>2 DEF Played
    <3> QED  BY <1>3, <3>1, <3>2
  <2>2. turn \in Nat /\ turn < MaxTurns /\ Cardinality(stock) = 0
    BY <1>1, <1>8, <1>13 DEF TypeOK, CardInv, RoundClock, InPlay
  <2>3. /\ Held(a) = MaxTurns - turn
        /\ Held(b) = MaxTurns - turn - (IF Played(b) THEN 1 ELSE 0)
        /\ Held(e) = MaxTurns - turn - (IF Played(e) THEN 1 ELSE 0)
    BY <1>7, <1>13, <2>1, <2>2, HeldBefore
  <2>4. Held(a) \in Nat /\ Held(b) \in Nat /\ Held(e) \in Nat
    BY <1>7, <2>2, <2>3
  <2>5. Cardinality(UNION {Unused(c) : c \in Seated}) = Held(a) + Held(b) + Held(e)
    BY <1>6, <2>4
  <2>6. Held(a) + Held(b) + Held(e) = 3 * (MaxTurns - turn) - Len(vec)
    <3>1. CASE Len(vec) = 0  BY <1>7, <2>1, <2>2, <2>3, <3>1
    <3>2. CASE Len(vec) = 1  BY <1>7, <2>1, <2>2, <2>3, <3>2
    <3>3. CASE Len(vec) = 2  BY <1>7, <2>1, <2>2, <2>3, <3>3
    <3> QED  BY <2>1, <3>1, <3>2, <3>3
  <2>7. Len(vec) \in Nat
    BY <2>1
  <2> QED  BY <1>7, <2>2, <2>5, <2>6, <2>7
<1> QED  BY <1>10, <1>11, <1>12, <1>13 DEF InRound, InHand, InPlay

(***************************************************************************)
(* CardInv is an invariant of a table that nobody leaves in the middle of  *)
(* a trick.                                                                *)
(***************************************************************************)
THEOREM CardsAlways ==
  ASSUME "follow" \notin LeaveIn
  PROVE  Spec => []CardInv
<1>1. Init => CardInv
  BY InitCards
<1>2. AuctionInv /\ CardInv /\ [Next]_vars => CardInv'
  BY NextCards
<1> QED  BY <1>1, <1>2, Invariance, PTL DEF Spec

(***************************************************************************)
(* From the deal to the end of the round no card is lost or duplicated.    *)
(***************************************************************************)
THEOREM NoCardLost ==
  ASSUME "follow" \notin LeaveIn
  PROVE  Spec => []CardsConserved
<1>1. AuctionInv /\ CardInv => CardsConserved
  BY Counted
<1> QED  BY <1>1, Invariance, CardsAlways, PTL

(***************************************************************************)
(* In play every hand has one card for each trick that is left.            *)
(***************************************************************************)
THEOREM HandsStayLevel ==
  ASSUME "follow" \notin LeaveIn
  PROVE  Spec => []HandsLevel
<1>1. CardInv => HandsLevel
  BY HeldBefore DEF CardInv, HandsSized, Size, HandsLevel, Played, InRound, InHand, InPlay
<1> QED  BY <1>1, CardsAlways, PTL

(***************************************************************************)
(* A table where no game is on has nothing left of the game before.        *)
(***************************************************************************)
THEOREM TablesLeftClean ==
  ASSUME "follow" \notin LeaveIn
  PROVE  Spec => []CleanTable
<1>1. CardInv => CleanTable
  BY DEF CardInv
<1> QED  BY <1>1, CardsAlways, PTL
-----------------------------------------------------------------------------
(***************************************************************************)
(* The maximum of a hand and the points of a round are sums over sets of   *)
(* cards, suits or players: what a sum over a finite set is.               *)
(***************************************************************************)

(***************************************************************************)
(* Among subsets of a finite set one contains no other: the form in which  *)
(* the proofs below do induction.                                          *)
(***************************************************************************)
LEMMA LeastSet ==
  ASSUME NEW S, IsFiniteSet(S), NEW B, B \subseteq SUBSET S, B # {}
  PROVE  \E s \in B : \A t \in B : t \subseteq s => t = s
<1>1. IsWellFoundedOn(StrictSubsetOrdering(S), SUBSET S)
  BY FS_StrictSubsetOrderingWellFounded, FS_FiniteSubsetsOfFinite
<1>2. PICK s \in B : \A t \in B : ~ (<<t, s>> \in StrictSubsetOrdering(S))
  BY <1>1, WFMin
<1>3. ASSUME NEW t \in B, t \subseteq s
      PROVE  t = s
  <2>1. t \in SUBSET S /\ s \in SUBSET S /\ <<t, s>> \notin StrictSubsetOrdering(S)
    BY <1>2
  <2> QED  BY <1>3, <2>1 DEF StrictSubsetOrdering
<1> QED  BY <1>3

(***************************************************************************)
(* The function with which the folds of the community modules sum the      *)
(* values of f over the subsets of S.                                      *)
(***************************************************************************)
Pick(s) == CHOOSE x \in s : TRUE

IsTotal(g, f, S) ==
  g = [s \in SUBSET S |-> IF s = {} THEN 0 ELSE f[Pick(s)] + g[s \ {Pick(s)}]]

Total(f, S) == (CHOOSE g : IsTotal(g, f, S))[S]

LEMMA PickIn ==
  ASSUME NEW s, s # {}
  PROVE  Pick(s) \in s
  BY DEF Pick

LEMMA TotalAt ==
  ASSUME NEW g, NEW f, NEW S, IsTotal(g, f, S), NEW s, s \subseteq S
  PROVE  g[s] = IF s = {} THEN 0 ELSE f[Pick(s)] + g[s \ {Pick(s)}]
  BY DEF IsTotal

LEMMA TotalsAgree ==
  ASSUME NEW f, NEW e, NEW g, NEW h, NEW S, NEW T, IsFiniteSet(S),
         IsTotal(g, f, S), IsTotal(h, e, T), \A x \in S \cap T : f[x] = e[x]
  PROVE  \A s \in SUBSET (S \cap T) : g[s] = h[s]
<1> DEFINE Bad == {s \in SUBSET (S \cap T) : g[s] # h[s]}
<1>1. SUFFICES ASSUME Bad # {} PROVE FALSE
  OBVIOUS
<1>2. Bad \subseteq SUBSET S
  OBVIOUS
<1>3. PICK s \in Bad : \A t \in Bad : t \subseteq s => t = s
  <2> HIDE DEF Bad
  <2> QED  BY <1>1, <1>2, LeastSet
<1>4. s \subseteq S /\ s \subseteq T /\ s \subseteq S \cap T /\ g[s] # h[s]
  BY <1>3
<1>5. g[s] = IF s = {} THEN 0 ELSE f[Pick(s)] + g[s \ {Pick(s)}]
  BY <1>4, TotalAt
<1>6. h[s] = IF s = {} THEN 0 ELSE e[Pick(s)] + h[s \ {Pick(s)}]
  BY <1>4, TotalAt
<1>7. s # {} /\ Pick(s) \in s
  BY <1>4, <1>5, <1>6, PickIn
<1>8. s \ {Pick(s)} \notin Bad
  BY <1>3, <1>7
<1>9. g[s \ {Pick(s)}] = h[s \ {Pick(s)}]
  BY <1>4, <1>8
<1>10. f[Pick(s)] = e[Pick(s)]
  BY <1>4, <1>7
<1> QED  BY <1>4, <1>5, <1>6, <1>9, <1>10

LEMMA TotalExists ==
  ASSUME NEW f, NEW S, IsFiniteSet(S)
  PROVE  \E g : IsTotal(g, f, S)
<1> DEFINE Bad == {s \in SUBSET S : ~ \E g : IsTotal(g, f, s)}
<1>1. SUFFICES ASSUME Bad # {} PROVE FALSE
  <2>1. S \notin Bad => \E g : IsTotal(g, f, S)
    OBVIOUS
  <2> QED  BY <2>1
<1>2. PICK s \in Bad : \A t \in Bad : t \subseteq s => t = s
  <2>1. Bad \subseteq SUBSET S
    OBVIOUS
  <2> HIDE DEF Bad
  <2> QED  BY <1>1, <2>1, LeastSet
<1>3. s \subseteq S /\ ~ \E g : IsTotal(g, f, s)
  BY <1>2
<1> DEFINE G(t) == CHOOSE g : IsTotal(g, f, t)
           h == [t \in SUBSET s |-> IF t = {} THEN 0
                                    ELSE f[Pick(t)] + G(t \ {Pick(t)})[t \ {Pick(t)}]]
<1>4. ASSUME NEW t, t \subseteq s, t # s
      PROVE  IsTotal(G(t), f, t)
  <2>1. t \notin Bad /\ t \in SUBSET S
    BY <1>2, <1>3, <1>4
  <2>2. \E g : IsTotal(g, f, t)
    BY <2>1
  <2> QED  BY <2>2
<1> HIDE DEF G, Bad
<1>5. ASSUME NEW t \in SUBSET s, t # {}
      PROVE  h[t] = f[Pick(t)] + h[t \ {Pick(t)}]
  <2> DEFINE u == t \ {Pick(t)}
             v == u \ {Pick(u)}
  <2>1. Pick(t) \in t /\ u \subseteq s /\ u # s /\ u \subseteq t
    BY <1>5, PickIn
  <2>2. h[t] = f[Pick(t)] + G(u)[u]
    BY <1>5
  <2>3. IsTotal(G(u), f, u)
    BY <1>4, <2>1
  <2>4. G(u)[u] = IF u = {} THEN 0 ELSE f[Pick(u)] + G(u)[v]
    BY <2>3, TotalAt
  <2>5. h[u] = IF u = {} THEN 0 ELSE f[Pick(u)] + G(v)[v]
    BY <2>1
  <2>6. u # {} => G(u)[v] = G(v)[v]
    <3>1. SUFFICES ASSUME u # {} PROVE G(u)[v] = G(v)[v]
      OBVIOUS
    <3>2. v \subseteq u /\ v \subseteq s /\ v # s
      BY <2>1
    <3>3. IsTotal(G(v), f, v)
      BY <1>4, <3>2
    <3>4. IsFiniteSet(u)
      BY <1>3, <2>1, FS_Subset
    <3> HIDE DEF u, v, h
    <3> QED  BY <2>3, <3>2, <3>3, <3>4, TotalsAgree
  <2> HIDE DEF h, v
  <2> QED  BY <2>2, <2>4, <2>5, <2>6
<1>6. h = [t \in SUBSET s |-> IF t = {} THEN 0 ELSE f[Pick(t)] + h[t \ {Pick(t)}]]
  <2>1. \A t \in SUBSET s : h[t] = IF t = {} THEN 0 ELSE f[Pick(t)] + h[t \ {Pick(t)}]
    BY <1>5
  <2>2. h = [t \in SUBSET s |-> h[t]]
    OBVIOUS
  <2> HIDE DEF h
  <2> QED  BY <2>1, <2>2
<1>7. IsTotal(h, f, s)
  <2> HIDE DEF h
  <2> QED  BY <1>6 DEF IsTotal
<1> QED  BY <1>3, <1>7

LEMMA TotalIs ==
  ASSUME NEW f, NEW S, IsFiniteSet(S)
  PROVE  \E g : IsTotal(g, f, S) /\ Total(f, S) = g[S]
<1>1. \E g : IsTotal(g, f, S)
  BY TotalExists
<1> QED  BY <1>1 DEF Total

LEMMA TotalEmpty ==
  ASSUME NEW f
  PROVE  Total(f, {}) = 0
<1>1. PICK g : IsTotal(g, f, {}) /\ Total(f, {}) = g[{}]
  BY TotalIs, FS_EmptySet
<1> QED  BY <1>1, TotalAt

\* Only the values on the set itself count.
LEMMA TotalEqual ==
  ASSUME NEW f, NEW e, NEW S, IsFiniteSet(S), \A x \in S : f[x] = e[x]
  PROVE  Total(f, S) = Total(e, S)
<1>1. PICK g : IsTotal(g, f, S) /\ Total(f, S) = g[S]
  BY TotalIs
<1>2. PICK h : IsTotal(h, e, S) /\ Total(e, S) = h[S]
  BY TotalIs
<1>3. S \in SUBSET (S \cap S) /\ \A x \in S \cap S : f[x] = e[x]
  OBVIOUS
<1>4. \A s \in SUBSET (S \cap S) : g[s] = h[s]
  BY <1>1, <1>2, <1>3, TotalsAgree
<1> QED  BY <1>1, <1>2, <1>3, <1>4

LEMMA TotalPicked ==
  ASSUME NEW f, NEW S, IsFiniteSet(S), S # {}
  PROVE  Total(f, S) = f[Pick(S)] + Total(f, S \ {Pick(S)})
<1> DEFINE T == S \ {Pick(S)}
<1>1. PICK g : IsTotal(g, f, S) /\ Total(f, S) = g[S]
  BY TotalIs
<1>2. IsFiniteSet(T)
  BY FS_Subset
<1>3. PICK h : IsTotal(h, f, T) /\ Total(f, T) = h[T]
  BY <1>2, TotalIs
<1>4. g[T] = h[T]
  <2>1. T \in SUBSET (S \cap T) /\ \A x \in S \cap T : f[x] = f[x]
    OBVIOUS
  <2> HIDE DEF T
  <2>2. \A s \in SUBSET (S \cap T) : g[s] = h[s]
    BY <1>1, <1>3, <2>1, TotalsAgree
  <2> QED  BY <2>1, <2>2
<1>5. g[S] = f[Pick(S)] + g[T]
  BY <1>1, TotalAt
<1> QED  BY <1>1, <1>3, <1>4, <1>5

LEMMA TotalInt ==
  ASSUME NEW D, NEW f \in [D -> Int], NEW S, S \subseteq D, IsFiniteSet(S)
  PROVE  Total(f, S) \in Int
<1> DEFINE Bad == {s \in SUBSET S : Total(f, s) \notin Int}
<1>1. SUFFICES ASSUME Bad # {} PROVE FALSE
  <2>1. S \notin Bad => Total(f, S) \in Int
    OBVIOUS
  <2> QED  BY <2>1
<1>2. PICK s \in Bad : \A t \in Bad : t \subseteq s => t = s
  <2>1. Bad \subseteq SUBSET S
    OBVIOUS
  <2> HIDE DEF Bad
  <2> QED  BY <1>1, <2>1, LeastSet
<1>3. s \subseteq S /\ Total(f, s) \notin Int /\ IsFiniteSet(s)
  BY FS_Subset
<1>4. s # {}
  BY <1>3, TotalEmpty
<1>5. Pick(s) \in s /\ f[Pick(s)] \in Int
  BY <1>3, <1>4, PickIn
<1>6. Total(f, s \ {Pick(s)}) \in Int
  BY <1>2, <1>3, <1>5
<1>7. Total(f, s) = f[Pick(s)] + Total(f, s \ {Pick(s)})
  BY <1>3, <1>4, TotalPicked
<1> QED  BY <1>3, <1>5, <1>6, <1>7

(***************************************************************************)
(* The order in which the elements are picked does not matter.             *)
(***************************************************************************)
LEMMA TotalRemove ==
  ASSUME NEW D, NEW f \in [D -> Int], NEW S, S \subseteq D, IsFiniteSet(S), NEW a \in S
  PROVE  Total(f, S) = f[a] + Total(f, S \ {a})
<1> DEFINE Bad == {s \in SUBSET S : \E x \in s : Total(f, s) # f[x] + Total(f, s \ {x})}
<1>1. SUFFICES ASSUME Bad # {} PROVE FALSE
  <2>1. S \notin Bad => Total(f, S) = f[a] + Total(f, S \ {a})
    OBVIOUS
  <2> QED  BY <2>1
<1>2. PICK s \in Bad : \A t \in Bad : t \subseteq s => t = s
  <2>1. Bad \subseteq SUBSET S
    OBVIOUS
  <2> HIDE DEF Bad
  <2> QED  BY <1>1, <2>1, LeastSet
<1>3. PICK x \in s : s \subseteq S /\ Total(f, s) # f[x] + Total(f, s \ {x})
  BY <1>2
<1> DEFINE y == Pick(s)
           both == (s \ {x}) \ {y}
<1>4. y \in s
  BY <1>3, PickIn
<1>5. IsFiniteSet(s) /\ IsFiniteSet(s \ {x}) /\ IsFiniteSet(s \ {y}) /\ IsFiniteSet(both)
  BY <1>3, FS_Subset
<1>6. Total(f, s) = f[y] + Total(f, s \ {y})
  BY <1>3, <1>5, TotalPicked
<1>7. x # y
  BY <1>3, <1>6
<1>8. /\ Total(f, s \ {y}) = f[x] + Total(f, (s \ {y}) \ {x})
      /\ Total(f, s \ {x}) = f[y] + Total(f, both)
  <2>1. s \ {y} \in SUBSET S /\ s \ {x} \in SUBSET S
    BY <1>3
  <2>2. s \ {y} # s /\ s \ {x} # s
    BY <1>3, <1>4
  <2>3. s \ {y} \notin Bad /\ s \ {x} \notin Bad
    <3> HIDE DEF Bad, y
    <3> QED  BY <1>2, <2>2
  <2>4. \A t \in SUBSET S : t \notin Bad => \A z \in t : Total(f, t) = f[z] + Total(f, t \ {z})
    OBVIOUS
  <2>5. x \in s \ {y} /\ y \in s \ {x}
    BY <1>3, <1>4, <1>7
  <2> HIDE DEF Bad, y
  <2> QED  BY <2>1, <2>3, <2>4, <2>5
<1>9. (s \ {y}) \ {x} = both
  OBVIOUS
<1>10. f[x] \in Int /\ f[y] \in Int /\ Total(f, both) \in Int
  <2>1. both \subseteq D
    BY <1>3
  <2> HIDE DEF y, both
  <2> QED  BY <1>3, <1>4, <1>5, <2>1, TotalInt
<1>11. Total(f, s \ {y}) = f[x] + Total(f, both)
  BY <1>8, <1>9
<1>12. Total(f, s) = f[y] + (f[x] + Total(f, both)) /\ Total(f, s \ {x}) = f[y] + Total(f, both)
  BY <1>6, <1>8, <1>11
<1>13. Total(f, s) # f[x] + Total(f, s \ {x})
  BY <1>3
<1> HIDE DEF y, both, Bad
<1> QED  BY <1>10, <1>12, <1>13

LEMMA TotalAdd ==
  ASSUME NEW D, NEW f \in [D -> Int], NEW S, S \subseteq D, IsFiniteSet(S),
         NEW a \in D, a \notin S
  PROVE  Total(f, S \cup {a}) = f[a] + Total(f, S)
<1>1. S \cup {a} \subseteq D /\ IsFiniteSet(S \cup {a}) /\ a \in S \cup {a}
  BY FS_AddElement
<1>2. (S \cup {a}) \ {a} = S
  OBVIOUS
<1> QED  BY <1>1, <1>2, TotalRemove

LEMMA TotalZero ==
  ASSUME NEW f, NEW S, IsFiniteSet(S), \A x \in S : f[x] = 0
  PROVE  Total(f, S) = 0
<1> DEFINE Bad == {s \in SUBSET S : Total(f, s) # 0}
<1>1. SUFFICES ASSUME Bad # {} PROVE FALSE
  <2>1. S \notin Bad => Total(f, S) = 0
    OBVIOUS
  <2> QED  BY <2>1
<1>2. PICK s \in Bad : \A t \in Bad : t \subseteq s => t = s
  <2>1. Bad \subseteq SUBSET S
    OBVIOUS
  <2> HIDE DEF Bad
  <2> QED  BY <1>1, <2>1, LeastSet
<1>3. s \subseteq S /\ Total(f, s) # 0 /\ IsFiniteSet(s)
  BY FS_Subset
<1>4. s # {}
  BY <1>3, TotalEmpty
<1>5. Pick(s) \in s /\ f[Pick(s)] = 0
  BY <1>3, <1>4, PickIn
<1>6. Total(f, s \ {Pick(s)}) = 0
  BY <1>2, <1>3, <1>5
<1>7. Total(f, s) = f[Pick(s)] + Total(f, s \ {Pick(s)})
  BY <1>3, <1>4, TotalPicked
<1> QED  BY <1>3, <1>5, <1>6, <1>7

\* A sum of numbers that are not negative grows with its set.
LEMMA TotalGrows ==
  ASSUME NEW D, NEW f \in [D -> Nat], NEW S, NEW T, S \subseteq T, T \subseteq D,
         IsFiniteSet(T)
  PROVE  Total(f, S) =< Total(f, T)
<1> DEFINE Bad == {t \in SUBSET T : S \subseteq t /\ ~ (Total(f, S) =< Total(f, t))}
<1>1. SUFFICES ASSUME Bad # {} PROVE FALSE
  <2>1. T \notin Bad => Total(f, S) =< Total(f, T)
    OBVIOUS
  <2> QED  BY <2>1
<1>2. PICK s \in Bad : \A t \in Bad : t \subseteq s => t = s
  <2>1. Bad \subseteq SUBSET T
    OBVIOUS
  <2> HIDE DEF Bad
  <2> QED  BY <1>1, <2>1, LeastSet
<1>3. s \subseteq T /\ S \subseteq s /\ ~ (Total(f, S) =< Total(f, s))
  OBVIOUS
<1>4. f \in [D -> Int] /\ IsFiniteSet(s) /\ IsFiniteSet(S) /\ s \subseteq D /\ S \subseteq D
  BY <1>3, FS_Subset
<1>5. Total(f, S) \in Int
  BY <1>4, TotalInt
<1>6. s # S
  BY <1>3, <1>5
<1>7. PICK a \in s : a \notin S
  BY <1>3, <1>6
<1>8. IsFiniteSet(s \ {a}) /\ s \ {a} \subseteq D /\ s \ {a} # s /\ s \ {a} \subseteq T
      /\ S \subseteq s \ {a}
  BY <1>3, <1>4, <1>7, FS_Subset
<1>9. Total(f, S) =< Total(f, s \ {a})
  <2>1. s \ {a} \notin Bad
    <3> HIDE DEF Bad
    <3> QED  BY <1>2, <1>8
  <2> QED  BY <1>8, <2>1
<1>10. Total(f, s) = f[a] + Total(f, s \ {a})
  BY <1>4, <1>7, TotalRemove
<1>11. Total(f, s \ {a}) \in Int /\ f[a] \in Nat
  BY <1>4, <1>7, <1>8, TotalInt
<1> QED  BY <1>3, <1>5, <1>9, <1>10, <1>11

-----------------------------------------------------------------------------
(***************************************************************************)
(* The model's sums: marriages, points of cards and scores of players.     *)
(***************************************************************************)
Worth  == [s \in Suits |-> s]
Figure == [card \in Card |-> card.figure]

LEMMA FiniteCards == IsFiniteSet(Suits) /\ IsFiniteSet(Card) /\ IsFiniteSet(Deck)
<1>1. IsFiniteSet(Suits)
  <2>1. Suits = ((({} \cup {SPADES}) \cup {CLUBS}) \cup {DIAMONDS}) \cup {HEARTS}
    BY DEF Suits
  <2> QED  BY <2>1, FS_EmptySet, FS_AddElement
<1>2. IsFiniteSet(Figures)
  <2>1. Figures = ((((({} \cup {NINE}) \cup {JACK}) \cup {QUEEN}) \cup {KING}) \cup {TEN}) \cup {ACE}
    BY DEF Figures
  <2> QED  BY <2>1, FS_EmptySet, FS_AddElement
<1>3. IsFiniteSet(Card)
  <2>1. IsFiniteSet(Figures \X Suits)
    BY <1>1, <1>2, FS_Product
  <2> DEFINE card == [p \in Figures \X Suits |-> [figure |-> p[1], suit |-> p[2]]]
  <2>2. card \in Surjection(Figures \X Suits, Card)
    <3>1. card \in [Figures \X Suits -> Card]
      BY DEF Card
    <3>2. ASSUME NEW k \in Card
          PROVE  \E p \in Figures \X Suits : card[p] = k
      <4>1. <<k.figure, k.suit>> \in Figures \X Suits /\ k = [figure |-> k.figure, suit |-> k.suit]
        BY DEF Card
      <4>2. card[<<k.figure, k.suit>>] = k
        BY <4>1
      <4> QED  BY <4>1, <4>2
    <3> QED  BY <3>1, <3>2 DEF Surjection
  <2> HIDE DEF card
  <2> QED  BY <2>1, <2>2, FS_Surjection
<1> QED  BY <1>1, <1>3, DeckAssumption, FS_Subset

LEMMA Numbers ==
  /\ Worth \in [Suits -> Nat] /\ Worth \in [Suits -> Int]
  /\ Figure \in [Card -> Nat] /\ Figure \in [Card -> Int]
  BY DEF Worth, Figure, Suits, SPADES, CLUBS, DIAMONDS, HEARTS, Card, Figures,
     NINE, JACK, QUEEN, KING, TEN, ACE

LEMMA SumOfSuits ==
  ASSUME NEW S, S \subseteq Suits
  PROVE  SumSet(S) = Total(Worth, S)
<1> DEFINE IsSum(g) == g = [s \in SUBSET S |->
                              IF s = {} THEN 0 ELSE Pick(s) + g[s \ {Pick(s)}]]
<1>1. SumSet(S) = (CHOOSE g : IsSum(g))[S]
  BY DEF SumSet, FoldSet, MapThenFoldSet, Pick
<1>2. ASSUME NEW g
      PROVE  IsSum(g) <=> IsTotal(g, Worth, S)
  <2>1. \A s \in SUBSET S : s # {} => Worth[Pick(s)] = Pick(s)
    BY PickIn DEF Worth
  <2>2. [s \in SUBSET S |-> IF s = {} THEN 0 ELSE Pick(s) + g[s \ {Pick(s)}]]
          = [s \in SUBSET S |-> IF s = {} THEN 0 ELSE Worth[Pick(s)] + g[s \ {Pick(s)}]]
    BY <2>1
  <2> QED  BY <2>2 DEF IsTotal
<1>3. IsFiniteSet(S)
  BY FiniteCards, FS_Subset
<1>4. PICK h : IsTotal(h, Worth, S) /\ Total(Worth, S) = h[S]
  BY <1>3, TotalIs
<1> HIDE DEF IsSum
<1>5. PICK g : IsSum(g) /\ SumSet(S) = g[S]
  BY <1>1, <1>2, <1>4
<1>6. g[S] = h[S]
  <2>1. \A s \in SUBSET (S \cap S) : g[s] = h[s]
    BY <1>2, <1>3, <1>4, <1>5, TotalsAgree
  <2> QED  BY <2>1
<1> QED  BY <1>4, <1>5, <1>6

LEMMA SumOfFigures ==
  ASSUME NEW S, S \subseteq Card
  PROVE  MapThenSumSet(LAMBDA card : card.figure, S) = Total(Figure, S)
<1> DEFINE IsSum(g) == g = [s \in SUBSET S |->
                              IF s = {} THEN 0 ELSE Pick(s).figure + g[s \ {Pick(s)}]]
<1>1. MapThenSumSet(LAMBDA card : card.figure, S) = (CHOOSE g : IsSum(g))[S]
  BY DEF MapThenSumSet, MapThenFoldSet, Pick
<1>2. ASSUME NEW g
      PROVE  IsSum(g) <=> IsTotal(g, Figure, S)
  <2>1. \A s \in SUBSET S : s # {} => Figure[Pick(s)] = Pick(s).figure
    BY PickIn DEF Figure
  <2>2. [s \in SUBSET S |-> IF s = {} THEN 0 ELSE Pick(s).figure + g[s \ {Pick(s)}]]
          = [s \in SUBSET S |-> IF s = {} THEN 0 ELSE Figure[Pick(s)] + g[s \ {Pick(s)}]]
    BY <2>1
  <2> QED  BY <2>2 DEF IsTotal
<1>3. IsFiniteSet(S)
  BY FiniteCards, FS_Subset
<1>4. PICK h : IsTotal(h, Figure, S) /\ Total(Figure, S) = h[S]
  BY <1>3, TotalIs
<1> HIDE DEF IsSum
<1>5. PICK g : IsSum(g) /\ MapThenSumSet(LAMBDA card : card.figure, S) = g[S]
  BY <1>1, <1>2, <1>4
<1>6. g[S] = h[S]
  <2>1. \A s \in SUBSET (S \cap S) : g[s] = h[s]
    BY <1>2, <1>3, <1>4, <1>5, TotalsAgree
  <2> QED  BY <2>1
<1> QED  BY <1>4, <1>5, <1>6

LEMMA SumOfScores ==
  ASSUME NEW S
  PROVE  MapThenSumSet(LAMBDA c : temp[c], S) = Total(temp, S)
  BY DEF MapThenSumSet, MapThenFoldSet, Total, IsTotal, Pick

(***************************************************************************)
(* A hand can be bid up to MIN_VALUE at least, and a card more makes it    *)
(* worth no less.                                                          *)
(***************************************************************************)
LEMMA MaxValueGrows ==
  ASSUME NEW S, NEW T, S \subseteq T
  PROVE  MaxValue(S) \in Int /\ 120 =< MaxValue(S) /\ MaxValue(S) =< MaxValue(T)
<1>1. /\ {} \subseteq Marriages(S) /\ Marriages(S) \subseteq Marriages(T)
      /\ Marriages(S) \subseteq Suits /\ Marriages(T) \subseteq Suits
  BY DEF Marriages
<1>2. IsFiniteSet(Marriages(S)) /\ IsFiniteSet(Marriages(T))
  BY <1>1, FiniteCards, FS_Subset
<1>3. /\ Total(Worth, {}) =< Total(Worth, Marriages(S))
      /\ Total(Worth, Marriages(S)) =< Total(Worth, Marriages(T))
      /\ Total(Worth, Marriages(S)) \in Int /\ Total(Worth, Marriages(T)) \in Int
  BY <1>1, <1>2, Numbers, TotalGrows, TotalInt
<1>4. /\ MaxValue(S) = 120 + Total(Worth, Marriages(S))
      /\ MaxValue(T) = 120 + Total(Worth, Marriages(T))
  BY <1>1, SumOfSuits DEF MaxValue, MIN_VALUE
<1>5. Total(Worth, {}) = 0
  BY TotalEmpty
<1> QED  BY <1>3, <1>4, <1>5

-----------------------------------------------------------------------------
(***************************************************************************)
(* The final bid.  The highest bid is one that has a button, and until the *)
(* final bid its holder's cards are worth it: he has bid no more than they *)
(* were worth, and no card leaves PlayersDeck::deck_ after that.           *)
(***************************************************************************)
Bargaining == {"bid", "give", "final"}

BidIsCovered ==
  asked \in Bargaining =>
    claim[it.HIGHEST] \in Bids /\ claim[it.HIGHEST] =< MaxValue(hand[it.HIGHEST])

LEMMA BidNumbers ==
  ASSUME NEW b \in Bids
  PROVE  b \in Int /\ b =< b
<1>1. b \in Nat
  BY BidsAssumption
<1> QED  BY <1>1

LEMMA RoundStartCovered ==
  ASSUME FullTable, NEW i \in 1 .. 3, PrepareGame(i, Zero)
  PROVE  BidIsCovered'
<1>1. claim'[it'.HIGHEST] = 100
  BY PreparedGame
<1>2. MaxValue(hand'[it'.HIGHEST]) \in Int /\ 120 =< MaxValue(hand'[it'.HIGHEST])
  BY MaxValueGrows
<1> QED  BY <1>1, <1>2, BidsAssumption DEF BidIsCovered

LEMMA RegularBidCovered ==
  ASSUME AuctionInv, BidIsCovered, NEW b \in Bids \cup {PASS}, asked = "bid", PlaceBid(b)
  PROVE  BidIsCovered'
<1> DEFINE c == it.CURRENT
           h == it.HIGHEST
           g == it'.HIGHEST
<1>1. FullTable /\ TypeOK
  BY FullWhenAsked DEF AuctionInv
<1>2. /\ c \in Seated /\ h \in Seated /\ c # h /\ Seated \subseteq Clients
      /\ it \in [CURRENT : Seated, COMPULSORY : Seated, HIGHEST : Seated]
  BY <1>1, Seats DEF AuctionInv, AuctionOrder, RolesSeated, InRound
<1>3. RegularBid(c, b) /\ (b # PASS => b \in Bids /\ b =< MaxValue(hand[c]))
  BY <1>2 DEF PlaceBid, HandleBid, FinalBid, BidOffers
<1>4. /\ claim' = [claim EXCEPT ![c] = b]
      /\ g = IF b = PASS THEN h ELSE c
      /\ \/ hand' = [hand EXCEPT ![g] = @ \cup stock]
         \/ hand' = hand
  BY <1>2, <1>3 DEF RegularBid
<1>5. claim \in [Clients -> Int] /\ hand \in [Clients -> SUBSET Deck]
  BY <1>1 DEF TypeOK
<1>6. g \in Clients /\ claim'[g] = IF b = PASS THEN claim[h] ELSE b
  BY <1>2, <1>4, <1>5
<1>7. hand[g] \subseteq hand'[g]
  <2> HIDE DEF g, c, h
  <2> QED  BY <1>4, <1>5, <1>6
<1>8. /\ MaxValue(hand[g]) \in Int /\ MaxValue(hand'[g]) \in Int
      /\ MaxValue(hand[g]) =< MaxValue(hand'[g])
  BY <1>7, MaxValueGrows
<1>9. claim'[g] \in Bids /\ claim'[g] =< MaxValue(hand[g])
  <2>1. CASE b = PASS
    BY <1>4, <1>6, <2>1 DEF BidIsCovered, Bargaining
  <2>2. CASE b # PASS
    BY <1>3, <1>4, <1>6, <2>2
  <2> QED  BY <2>1, <2>2
<1>10. claim'[g] \in Int
  BY <1>9, BidNumbers
<1> HIDE DEF g
<1>11. claim'[g] =< MaxValue(hand'[g])
  BY <1>8, <1>9, <1>10
<1> QED  BY <1>9, <1>11 DEF BidIsCovered, g

LEMMA NextCovered ==
  ASSUME AuctionInv, BidIsCovered, [Next]_vars
  PROVE  BidIsCovered'
<1>1. CASE UNCHANGED vars
  BY <1>1 DEF vars, roomVars, cardVars, BidIsCovered
<1>2. ASSUME NEW c \in Clients, PressReady(c)
      PROVE  BidIsCovered'
  <2>1. asked = "ready" /\ HandleReady(c) /\ asked' = IF stage' = "BIDDING" THEN "bid" ELSE "ready"
    BY <1>2 DEF PressReady
  <2>2. FullTable /\ claim = Zero /\ stage # "BIDDING"
    BY <2>1, FullWhenAsked DEF AuctionInv, ClaimsCleared, StageAgrees
  <2>3. CASE PrepareGame(1, claim)
    BY <2>2, <2>3, RoundStartCovered
  <2>4. CASE asked' = "ready"
    BY <2>4 DEF BidIsCovered, Bargaining
  <2> QED  BY <2>1, <2>2, <2>3, <2>4 DEF HandleReady
<1>3. ASSUME NEW b \in Bids \cup {PASS}, PlaceBid(b)
      PROVE  BidIsCovered'
  <2>1. asked \in {"bid", "final"}
    BY <1>3 DEF PlaceBid
  <2>2. CASE asked = "bid"
    BY <1>3, <2>2, RegularBidCovered
  <2>3. CASE asked = "final"
    <3>1. it.CURRENT = it.HIGHEST
      BY <2>3 DEF AuctionInv, OneContract, InHand
    <3>2. asked' = "lead"
      BY <1>3, <3>1 DEF PlaceBid, HandleBid, RegularBid, FinalBid
    <3> QED  BY <3>2 DEF BidIsCovered, Bargaining
  <2> QED  BY <2>1, <2>2, <2>3
<1>4. ASSUME NEW x \in Deck, NEW y \in Deck, Give(x, y)
      PROVE  BidIsCovered'
  <2> DEFINE h == it.HIGHEST
  <2>1. asked = "give" /\ UNCHANGED <<claim, it>>
    BY <1>4 DEF Give, HandleDeal
  <2>2. \A c \in Clients : hand[c] \subseteq hand'[c]
    BY <1>4 DEF Give, HandleDeal
  <2>3. h \in Clients
    BY <2>1, FullWhenAsked, Seats DEF AuctionInv, OneContract, InHand
  <2>4. claim[h] \in Bids /\ claim[h] =< MaxValue(hand[h])
    BY <2>1 DEF BidIsCovered, Bargaining
  <2>5. /\ MaxValue(hand[h]) \in Int /\ MaxValue(hand'[h]) \in Int
        /\ MaxValue(hand[h]) =< MaxValue(hand'[h]) /\ claim[h] \in Int
    BY <2>2, <2>3, <2>4, MaxValueGrows, BidNumbers
  <2>6. claim[h] =< MaxValue(hand'[h])
    <3> HIDE DEF h
    <3> QED  BY <2>4, <2>5
  <2> QED  BY <2>1, <2>4, <2>6 DEF BidIsCovered
<1>5. ASSUME NEW card \in Deck, PlayCard(card)
      PROVE  BidIsCovered'
  <2>1. CASE asked' = "bid"
    <3>1. asked \in InPlay /\ FullTable
      BY <1>5, FullWhenAsked DEF PlayCard, InPlay
    <3>2. \E t : EndOfRound(t)
      BY <1>5, <2>1 DEF PlayCard, HandlePlay, PlayOn, PlayFails, TakeTrick, AuctionInv,
         StageAgrees, InPlay
    <3>3. PrepareGame(((it.COMPULSORY + 1) % 3) + 1, Zero)
      <4>1. stage' # "ADDING"
        BY <1>5, <2>1 DEF PlayCard
      <4> QED  BY <3>2, <4>1 DEF EndOfRound, NextRound, GameOver
    <3>4. ((it.COMPULSORY + 1) % 3) + 1 \in 1 .. 3
      <4>1. it.COMPULSORY \in Nat
        BY <3>1, Seats, ClientsAssumption DEF AuctionInv, RolesSeated, InRound, InHand, InPlay
      <4> QED  BY <4>1
    <3> QED  BY <3>1, <3>3, <3>4, RoundStartCovered
  <2>2. CASE asked' # "bid"
    <3>1. asked' \notin Bargaining
      BY <1>5, <2>2 DEF PlayCard, Bargaining
    <3> QED  BY <3>1 DEF BidIsCovered
  <2> QED  BY <2>1, <2>2
<1>6. ASSUME NEW c \in Clients, Join(c) \/ JoinFull(c) \/ Leave(c)
      PROVE  BidIsCovered'
  <2>1. CASE Join(c) \/ Leave(c)
    BY <2>1 DEF Join, Leave, BidIsCovered, Bargaining
  <2>2. CASE JoinFull(c)
    BY <2>2 DEF JoinFull, HandleAdd, cardVars, BidIsCovered
  <2> QED  BY <1>6, <2>1, <2>2
<1> QED  BY <1>1, <1>2, <1>3, <1>4, <1>5, <1>6 DEF Next, Answer

(***************************************************************************)
(* Whatever was dealt, bid and given, the Dealer's minimum and maximum     *)
(* leave the holder of the contract a button to press: the bid he won the  *)
(* auction with is still one of them.                                      *)
(***************************************************************************)
THEOREM FinalBidAlwaysPossible == Spec => []FinalBidPossible
<1>1. Init => BidIsCovered
  BY DEF Init, RoomInit, BidIsCovered, Bargaining
<1>2. AuctionInv /\ BidIsCovered /\ [Next]_vars => BidIsCovered'
  BY NextCovered
<1>3. AuctionInv /\ BidIsCovered => FinalBidPossible
  <2> SUFFICES ASSUME BidIsCovered, asked = "final" PROVE FinalOffers # {}
    BY DEF FinalBidPossible
  <2>1. claim[it.HIGHEST] \in Bids /\ claim[it.HIGHEST] =< MaxValue(hand[it.HIGHEST])
    BY DEF BidIsCovered, Bargaining
  <2>2. claim[it.HIGHEST] =< claim[it.HIGHEST]
    BY <2>1, BidNumbers
  <2> QED  BY <2>1, <2>2 DEF FinalOffers
<1> QED  BY <1>1, <1>2, <1>3, Invariance, PTL DEF Spec

(***************************************************************************)
(* In the auction no claim is above the holder's: what is offered to the   *)
(* next bidder is more than he has bid himself.                            *)
(***************************************************************************)
HighestIsHolders == asked = "bid" => \A c \in Seated : claim[c] =< claim[it.HIGHEST]

LEMMA RoundStartHighest ==
  ASSUME FullTable, NEW i \in 1 .. 3, PrepareGame(i, Zero), players' = players
  PROVE  HighestIsHolders'
<1>1. claim' = [Zero EXCEPT ![players[i]] = 100] /\ it'.HIGHEST = players[i]
  BY DEF PrepareGame
<1>2. players[i] \in Clients /\ Seated' \subseteq Clients
  BY Seats DEF Seated
<1>3. claim'[players[i]] = 100 /\ \A c \in Clients : claim'[c] \in {0, 100}
  BY <1>1, <1>2 DEF Zero
<1> QED  BY <1>1, <1>2, <1>3 DEF HighestIsHolders

LEMMA RegularBidHighest ==
  ASSUME AuctionInv, HighestIsHolders, NEW b \in Bids \cup {PASS}, asked = "bid", PlaceBid(b)
  PROVE  HighestIsHolders'
<1>1. TypeOK /\ FullTable
  BY FullWhenAsked DEF AuctionInv
<1>2. PICK c, h : c = it.CURRENT /\ h = it.HIGHEST
  OBVIOUS
<1>3. /\ c \in Clients /\ h \in Clients /\ c # h /\ claim[h] >= 100 /\ Seated \subseteq Clients
      /\ it \in [CURRENT : Seated, COMPULSORY : Seated, HIGHEST : Seated]
  BY <1>1, <1>2, Seats DEF AuctionInv, AuctionOrder, RolesSeated, InRound
<1>4. RegularBid(c, b) /\ (b # PASS => b \in Bids /\ claim[h] + MIN_RAISE =< b)
  BY <1>2, <1>3 DEF PlaceBid, HandleBid, FinalBid, BidOffers
<1>5. claim' = [claim EXCEPT ![c] = b] /\ it'.HIGHEST = (IF b = PASS THEN h ELSE c)
  BY <1>2, <1>3, <1>4 DEF RegularBid
<1>6. claim \in [Clients -> Int] /\ Seated' = Seated
  BY <1>1 DEF TypeOK, PlaceBid, HandleBid, Seated
<1>7. \A d \in Seated : claim[d] \in Int /\ claim[d] =< claim[h]
  BY <1>2, <1>3, <1>6 DEF HighestIsHolders
<1>8. claim'[c] = b /\ \A d \in Clients : d # c => claim'[d] = claim[d]
  BY <1>3, <1>5, <1>6
<1>9. claim[h] \in Int
  BY <1>3, <1>6
<1>10. CASE b = PASS
  <2>1. b =< claim[h]
    BY <1>3, <1>9, <1>10
  <2>2. claim'[h] = claim[h] /\ it'.HIGHEST = h
    BY <1>3, <1>5, <1>8, <1>10
  <2>3. \A d \in Seated : claim'[d] =< claim[h]
    BY <1>3, <1>7, <1>8, <2>1
  <2> QED  BY <1>6, <2>2, <2>3 DEF HighestIsHolders
<1>11. CASE b # PASS
  <2>1. b \in Int /\ claim[h] =< b /\ b =< b
    <3>1. b \in Int /\ b =< b
      BY <1>4, <1>11, BidNumbers
    <3> QED  BY <1>4, <1>9, <1>11, <3>1 DEF MIN_RAISE
  <2>2. \A d \in Seated : claim[d] =< b
    BY <1>7, <1>9, <2>1
  <2>3. it'.HIGHEST = c
    BY <1>5, <1>11
  <2>4. \A d \in Seated : claim'[d] =< b
    BY <1>3, <1>8, <2>1, <2>2
  <2> QED  BY <1>6, <1>8, <2>3, <2>4 DEF HighestIsHolders
<1> QED  BY <1>10, <1>11

LEMMA NextHighest ==
  ASSUME AuctionInv, HighestIsHolders, [Next]_vars
  PROVE  HighestIsHolders'
<1>1. CASE UNCHANGED vars
  BY <1>1 DEF vars, roomVars, HighestIsHolders, Seated
<1>2. ASSUME NEW c \in Clients, PressReady(c)
      PROVE  HighestIsHolders'
  <2>1. /\ asked = "ready" /\ HandleReady(c) /\ players' = players
        /\ asked' = IF stage' = "BIDDING" THEN "bid" ELSE "ready"
    BY <1>2 DEF PressReady, HandleReady
  <2>2. FullTable /\ claim = Zero /\ stage # "BIDDING"
    BY <2>1, FullWhenAsked DEF AuctionInv, ClaimsCleared, StageAgrees
  <2>3. CASE PrepareGame(1, claim)
    BY <2>1, <2>2, <2>3, RoundStartHighest
  <2>4. CASE asked' = "ready"
    BY <2>4 DEF HighestIsHolders
  <2> QED  BY <2>1, <2>2, <2>3, <2>4 DEF HandleReady
<1>3. ASSUME NEW b \in Bids \cup {PASS}, PlaceBid(b)
      PROVE  HighestIsHolders'
  <2>1. CASE asked = "bid"
    BY <1>3, <2>1, RegularBidHighest
  <2>2. CASE asked = "final"
    <3>1. it.CURRENT = it.HIGHEST
      BY <2>2 DEF AuctionInv, OneContract, InHand
    <3>2. asked' = "lead"
      BY <1>3, <3>1 DEF PlaceBid, HandleBid, RegularBid, FinalBid
    <3> QED  BY <3>2 DEF HighestIsHolders
  <2> QED  BY <1>3, <2>1, <2>2 DEF PlaceBid
<1>4. ASSUME NEW card \in Deck, PlayCard(card)
      PROVE  HighestIsHolders'
  <2> SUFFICES ASSUME asked' = "bid" PROVE HighestIsHolders'
    BY DEF HighestIsHolders
  <2>1. asked \in InPlay /\ FullTable /\ players' = players
    BY <1>4, FullWhenAsked DEF PlayCard, HandlePlay, InPlay
  <2>2. \E t : EndOfRound(t)
    BY <1>4 DEF PlayCard, HandlePlay, PlayOn, PlayFails, TakeTrick, AuctionInv, StageAgrees, InPlay
  <2>3. PrepareGame(((it.COMPULSORY + 1) % 3) + 1, Zero)
    <3>1. stage' # "ADDING"
      BY <1>4 DEF PlayCard
    <3> QED  BY <2>2, <3>1 DEF EndOfRound, NextRound, GameOver
  <2>4. ((it.COMPULSORY + 1) % 3) + 1 \in 1 .. 3
    <3>1. it.COMPULSORY \in Nat
      BY <2>1, Seats, ClientsAssumption DEF AuctionInv, RolesSeated, InRound, InHand, InPlay
    <3> QED  BY <3>1
  <2> QED  BY <2>1, <2>3, <2>4, RoundStartHighest
<1>5. ASSUME NEW c \in Clients, JoinFull(c)
      PROVE  HighestIsHolders'
  BY <1>5 DEF JoinFull, HandleAdd, HighestIsHolders, Seated
<1>6. ASSUME NEW c \in Clients, Join(c) \/ Leave(c)
      PROVE  HighestIsHolders'
  BY <1>6 DEF Join, Leave, HighestIsHolders
<1>7. ASSUME NEW x \in Deck, NEW y \in Deck, Give(x, y)
      PROVE  HighestIsHolders'
  BY <1>7 DEF Give, HighestIsHolders
<1> QED  BY <1>1, <1>2, <1>3, <1>4, <1>5, <1>6, <1>7 DEF Next, Answer

LEMMA InitHighest == Init => HighestIsHolders
  BY DEF Init, HighestIsHolders

-----------------------------------------------------------------------------
(***************************************************************************)
(* The points of a round.  The announced marriages of the property are     *)
(* those of suits whose king and queen are no longer in one hand, so no    *)
(* suit is announced again; nothing is scored before the first card, and   *)
(* the cards of a trick are different cards.                               *)
(***************************************************************************)
MarriageCards(s) == {[figure |-> KING, suit |-> s], [figure |-> QUEEN, suit |-> s]}

Accounts(announced) ==
  /\ announced \subseteq Marriages(Deck)
  /\ Total(temp, Seated) = Total(Figure, Taken) + Total(Worth, announced)
  /\ superSuit # NONE <=> superSuit \in announced
  /\ \A s \in announced, c \in Seated : ~ (MarriageCards(s) \subseteq Unused(c))

NothingScored == asked \in Bargaining => temp = Zero /\ superSuit = NONE

TableCardsDiffer ==
  asked = "follow" => \A i, j \in DOMAIN vec : vec[i].card = vec[j].card => i = j

PointInv ==
  /\ NothingScored /\ TableCardsDiffer
  /\ asked \in InPlay => \E announced : Accounts(announced)

\* A number added to one player's score is added to the sum.
LEMMA TotalChanged ==
  ASSUME NEW D, NEW f \in [D -> Int], NEW g \in [D -> Int], NEW S, S \subseteq D,
         IsFiniteSet(S), NEW a \in S, NEW n \in Int,
         g[a] = f[a] + n, \A x \in S : x # a => g[x] = f[x]
  PROVE  Total(g, S) = Total(f, S) + n
<1> DEFINE T == S \ {a}
<1>1. T \subseteq D /\ IsFiniteSet(T) /\ \A x \in T : g[x] = f[x]
  BY FS_Subset
<1>2. Total(f, S) = f[a] + Total(f, T) /\ Total(g, S) = g[a] + Total(g, T)
  BY TotalRemove
<1>3. Total(g, T) = Total(f, T) /\ Total(f, T) \in Int /\ f[a] \in Int
  <2> HIDE DEF T
  <2>1. Total(g, T) = Total(f, T)
    BY <1>1, TotalEqual
  <2> QED  BY <1>1, <2>1, TotalInt
<1> HIDE DEF T
<1> QED  BY <1>2, <1>3

\* A card more, and its points are added.
LEMMA FigureAdd ==
  ASSUME NEW S, S \subseteq Card, NEW a \in Card, a \notin S
  PROVE  Total(Figure, S \cup {a}) = a.figure + Total(Figure, S)
<1>1. IsFiniteSet(S) /\ Figure \in [Card -> Int]
  BY FiniteCards, FS_Subset, Numbers
<1>2. Figure[a] = a.figure
  BY DEF Figure
<1> QED  BY <1>1, <1>2, TotalAdd

LEMMA FinitePlayers ==
  ASSUME FullTable
  PROVE  IsFiniteSet(Seated) /\ Seated \subseteq Clients
<1>1. Seated = (({} \cup {players[1]}) \cup {players[2]}) \cup {players[3]}
  BY Seats
<1>2. IsFiniteSet(Seated)
  <2>1. \A x, y, z : IsFiniteSet((({} \cup {x}) \cup {y}) \cup {z})
    BY FS_EmptySet, FS_AddElement
  <2> QED  BY <1>1, <2>1
<1> QED  BY <1>2, Seats

\* What a player scores, the players of the table score together.
LEMMA ScoreAdded ==
  ASSUME TypeOK, FullTable, NEW c \in Seated, NEW n \in Int,
         temp' = [temp EXCEPT ![c] = @ + n]
  PROVE  Total(temp', Seated) = Total(temp, Seated) + n
<1>1. IsFiniteSet(Seated) /\ Seated \subseteq Clients
  BY FinitePlayers
<1>2. temp \in [Clients -> Int] /\ c \in Clients
  BY <1>1 DEF TypeOK
<1>3. temp' \in [Clients -> Int] /\ temp'[c] = temp[c] + n
  BY <1>2
<1>4. \A d \in Seated : d # c => temp'[d] = temp[d]
  BY <1>1, <1>2
<1> DEFINE g == temp'
<1>5. g \in [Clients -> Int] /\ g[c] = temp[c] + n /\ \A d \in Seated : d # c => g[d] = temp[d]
  BY <1>3, <1>4
<1> HIDE DEF g
<1>6. Total(g, Seated) = Total(temp, Seated) + n
  BY <1>1, <1>2, <1>5, TotalChanged
<1> QED  BY <1>6 DEF g

\* What a card does to the hands while the round goes on.
LEMMA CardLeavesHand ==
  ASSUME TypeOK, NEW c \in Clients, NEW card \in Unused(c),
         hand' = hand, used' = [used EXCEPT ![c] = @ \cup {card}]
  PROVE  \A d \in Clients : Unused(d)' = IF d = c THEN Unused(d) \ {card} ELSE Unused(d)
<1>1. \A d \in Clients : used'[d] = IF d = c THEN used[d] \cup {card} ELSE used[d]
  BY DEF TypeOK
<1> QED  BY <1>1 DEF Unused

\* The table with one card more.
LEMMA CardOnTable ==
  ASSUME TypeOK, NEW c \in Clients, NEW card \in Deck
  PROVE  LET table == Append(vec, [player |-> c, card |-> card])
         IN  /\ Len(vec) \in Nat /\ DOMAIN vec = 1 .. Len(vec)
             /\ DOMAIN table = 1 .. Len(vec) + 1 /\ Len(table) = Len(vec) + 1
             /\ \A i \in 1 .. Len(vec) : table[i] = vec[i] /\ vec[i].card \in Deck
             /\ table[Len(vec) + 1].card = card
             /\ table # << >>
<1> DEFINE rec == [player |-> c, card |-> card]
           table == Append(vec, rec)
<1>1. vec \in Seq([player : Clients, card : Deck]) /\ rec \in [player : Clients, card : Deck]
  BY DEF TypeOK
<1>2. rec.card = card
  OBVIOUS
<1> HIDE DEF rec
<1>3. /\ table \in Seq([player : Clients, card : Deck]) /\ Len(table) = Len(vec) + 1
      /\ \A i \in 1 .. Len(vec) : table[i] = vec[i]
      /\ table[Len(vec) + 1] = rec
  BY <1>1, AppendProperties
<1>4. Len(vec) \in Nat /\ DOMAIN vec = 1 .. Len(vec) /\ \A i \in 1 .. Len(vec) : vec[i].card \in Deck
  <2>1. \A i \in 1 .. Len(vec) : vec[i] \in [player : Clients, card : Deck]
    BY <1>1, ElementOfSeq
  <2> QED  BY <1>1, <2>1, LenProperties
<1> HIDE DEF table
<1>5. DOMAIN table = 1 .. Len(vec) + 1 /\ table # << >>
  BY <1>3, <1>4
<1> QED  BY <1>2, <1>3, <1>4, <1>5 DEF table, rec

(***************************************************************************)
(* Before the first trick nothing is scored and nothing is taken: the      *)
(* hands hold the whole deck.                                              *)
(***************************************************************************)
LEMMA FirstTrickPoints ==
  ASSUME AuctionInv, CardInv, PointInv, NEW b \in Bids \cup {PASS}, asked = "final", PlaceBid(b)
  PROVE  PointInv'
<1>1. it.CURRENT = it.HIGHEST
  BY DEF AuctionInv, OneContract, InHand
<1>2. /\ UNCHANGED <<players, hand, used, temp, vec, superSuit>> /\ asked' = "lead"
  BY <1>1 DEF PlaceBid, HandleBid, RegularBid, FinalBid, gameVars
<1>3. FullTable /\ TypeOK
  BY FullWhenAsked DEF AuctionInv
<1>4. temp = Zero /\ superSuit = NONE /\ vec = << >> /\ turn = 0 /\ stock = {}
  BY DEF PointInv, NothingScored, Bargaining, CardInv, RoundClock, StockSized, InRound, InHand
<1>5. Seated' = Seated /\ OnTable' = {} /\ \A c : Unused(c)' = Unused(c)
  BY <1>2, <1>4, Unmoved DEF OnTable, Unused
<1>6. Taken' = {}
  <2> DEFINE U == UNION {Unused(c) : c \in Seated}
  <2>1. U \subseteq Deck
    BY <1>3, Seats DEF TypeOK, Unused
  <2>2. Cardinality(U) = DeckSize
    <3>1. Cardinality(U) + Cardinality(stock) + Len(vec) + 3 * turn = DeckSize
      BY Counted DEF CardsConserved, InRound, InHand
    <3>2. Cardinality(stock) = 0 /\ Len(vec) = 0 /\ IsFiniteSet(U)
      BY <1>4, <2>1, FiniteCards, FS_EmptySet, FS_Subset
    <3>3. Cardinality(U) \in Nat
      BY <3>2, FS_CardinalityType
    <3> HIDE DEF U
    <3> QED  BY <1>4, <3>1, <3>2, <3>3
  <2> HIDE DEF U
  <2>3. U = Deck
    BY <2>1, <2>2, FiniteCards, WholeDeckAssumption, FS_Subset
  <2> QED  BY <1>5, <2>3 DEF Taken, U
<1>7. Total(temp, Seated) = 0
  <2>1. IsFiniteSet(Seated) /\ Seated \subseteq Clients
    BY <1>3, FinitePlayers
  <2>2. Zero \in [Clients -> Int] /\ \A c \in Seated : Zero[c] = 0
    BY <2>1 DEF Zero
  <2> QED  BY <1>4, <2>1, <2>2, TotalZero
<1>8. Accounts({})'
  <2>1. Total(temp', Seated') = 0 /\ Total(Figure, Taken') = 0 /\ Total(Worth, {}) = 0
    BY <1>2, <1>5, <1>6, <1>7, TotalEmpty
  <2> QED  BY <1>2, <1>4, <2>1 DEF Accounts
<1>9. NothingScored' /\ TableCardsDiffer'
  BY <1>2 DEF NothingScored, TableCardsDiffer, Bargaining
<1> QED  BY <1>8, <1>9 DEF PointInv

(***************************************************************************)
(* A card that leads or answers moves from a hand to the table.  A         *)
(* marriage is announced with both cards in the hand, so for the first     *)
(* time, and what it scores is what it adds to the sum.                    *)
(***************************************************************************)
LEMMA PlayOnPoints ==
  ASSUME AuctionInv, CardInv, PointInv, asked \in InPlay, asked' = "follow",
         players' = players, NEW card \in Unused(it.CURRENT),
         superSuit' = IF Announces(it.CURRENT, card) THEN card.suit ELSE superSuit,
         temp' = [temp EXCEPT ![it.CURRENT] =
                    @ + (IF Announces(it.CURRENT, card) THEN card.suit ELSE 0)],
         PlayOn(it.CURRENT, card, Append(vec, [player |-> it.CURRENT, card |-> card]))
  PROVE  PointInv'
<1> DEFINE c == it.CURRENT
           table == Append(vec, [player |-> c, card |-> card])
<1>1. /\ FullTable /\ TypeOK /\ c \in Seated /\ Seated \subseteq Clients /\ c \in Clients
      /\ IsFiniteSet(Seated)
  BY WhoPlayed, FinitePlayers
<1>2. card \in Deck /\ card \in Card /\ card.suit \in Suits /\ card.suit \in Nat
  BY <1>1, CardNumbers, DeckAssumption DEF TypeOK, Unused
<1>3. /\ vec' = table /\ hand' = hand
      /\ used' = [used EXCEPT ![c] = @ \cup {card}]
  BY DEF PlayOn
<1>4. Seated' = Seated
  BY Unmoved
<1>5. \A d \in Clients : Unused(d)' = IF d = c THEN Unused(d) \ {card} ELSE Unused(d)
  BY <1>1, <1>3, CardLeavesHand
<1>6. /\ Len(vec) \in Nat /\ DOMAIN vec = 1 .. Len(vec)
      /\ DOMAIN table = 1 .. Len(vec) + 1
      /\ \A i \in 1 .. Len(vec) : table[i] = vec[i]
      /\ table[Len(vec) + 1].card = card
  BY <1>1, <1>2, CardOnTable
<1> HIDE DEF table
<1>7. OnTable' = OnTable \cup {card} /\ card \notin OnTable
  <2>1. OnTable' = {table[i].card : i \in 1 .. Len(vec) + 1}
    BY <1>3, <1>6 DEF OnTable
  <2>2. OnTable = {table[i].card : i \in 1 .. Len(vec)}
    BY <1>6 DEF OnTable
  <2>3. OnTable' = OnTable \cup {card}
    BY <1>6, <2>1, <2>2
  <2>4. card \notin OnTable
    BY <1>1 DEF CardInv, Apart, InRound, InHand, InPlay
  <2> QED  BY <2>3, <2>4
<1>7a. NothingScored' /\ TableCardsDiffer'
  <2>1. NothingScored'
    BY DEF NothingScored, Bargaining
  <2>2. \A i, j \in 1 .. Len(vec) : table[i].card = table[j].card => i = j
    <3>1. asked = "follow" \/ vec = << >>
      BY DEF CardInv, RoundClock, InPlay
    <3>2. CASE vec = << >>
      BY <1>6, <3>2
    <3>3. CASE asked = "follow"
      BY <1>6, <3>3 DEF PointInv, TableCardsDiffer
    <3> QED  BY <3>1, <3>2, <3>3
  <2>3. \A i \in 1 .. Len(vec) : table[i].card # card
    BY <1>6, <1>7 DEF OnTable
  <2>4. TableCardsDiffer'
    BY <1>3, <1>6, <2>2, <2>3 DEF TableCardsDiffer
  <2> QED  BY <2>1, <2>4
<1>8. Taken' = Taken
  <2>1. (UNION {Unused(d)' : d \in Seated}) \cup {card} = UNION {Unused(d) : d \in Seated}
    <3>1. \A d \in Seated : Unused(d)' = IF d = c THEN Unused(d) \ {card} ELSE Unused(d)
      BY <1>1, <1>5
    <3>2. card \in Unused(c)
      OBVIOUS
    <3> HIDE DEF c
    <3>3. UNION {Unused(d)' : d \in Seated} \subseteq UNION {Unused(d) : d \in Seated}
      BY <3>1
    <3>4. ASSUME NEW x \in UNION {Unused(d) : d \in Seated}, x # card
          PROVE  x \in UNION {Unused(d)' : d \in Seated}
      <4>1. PICK d \in Seated : x \in Unused(d)
        BY <3>4
      <4>2. x \in Unused(d)'
        BY <3>1, <3>4, <4>1
      <4> QED  BY <4>2
    <3>5. card \in UNION {Unused(d) : d \in Seated}
      BY <1>1, <3>2 DEF c
    <3> QED  BY <3>3, <3>4, <3>5
  <2>2. Taken' = Deck \ (OnTable' \cup UNION {Unused(d)' : d \in Seated})
    BY <1>4 DEF Taken
  <2>3. \A A, B, C : Deck \ ((A \cup C) \cup B) = Deck \ (A \cup (B \cup C))
    OBVIOUS
  <2>4. Taken' = Deck \ (OnTable \cup ((UNION {Unused(d)' : d \in Seated}) \cup {card}))
    BY <1>7, <2>2, <2>3
  <2> QED  BY <2>1, <2>4 DEF Taken
<1>9. PICK announced : Accounts(announced)
  BY DEF PointInv
<1>10. /\ announced \subseteq Suits /\ IsFiniteSet(announced)
       /\ temp \in [Clients -> Int]
       /\ Total(temp, Seated) \in Int /\ Total(Figure, Taken) \in Int
       /\ Total(Worth, announced) \in Int
  <2>1. announced \subseteq Suits /\ IsFiniteSet(announced)
    BY <1>9, FiniteCards, FS_Subset DEF Accounts, Marriages
  <2>2. Taken \subseteq Card /\ IsFiniteSet(Taken)
    BY DeckAssumption, FiniteCards, FS_Subset DEF Taken
  <2>3. temp \in [Clients -> Int]
    BY <1>1 DEF TypeOK
  <2> QED  BY <1>1, <2>1, <2>2, <2>3, Numbers, TotalInt
<1>11. \A s \in announced, d \in Seated : ~ (MarriageCards(s) \subseteq Unused(d)')
  <2>1. \A d \in Seated : Unused(d)' \subseteq Unused(d)
    BY <1>1, <1>5
  <2>2. \A s \in announced, d \in Seated : ~ (MarriageCards(s) \subseteq Unused(d))
    BY <1>9 DEF Accounts
  <2> QED  BY <2>1, <2>2
<1>12. CASE ~ Announces(c, card)
  <2>1. superSuit' = superSuit /\ temp' = temp
    BY <1>1, <1>10, <1>12
  <2>2. Accounts(announced)'
    BY <1>4, <1>8, <1>9, <1>11, <2>1 DEF Accounts
  <2> QED  BY <1>7a, <2>2 DEF PointInv
<1>13. CASE Announces(c, card)
  <2> DEFINE s == card.suit
             more == announced \cup {s}
  <2>1. superSuit' = s /\ temp' = [temp EXCEPT ![c] = @ + s]
    BY <1>13
  <2>2. MarriageCards(s) \subseteq Unused(c) /\ card \in MarriageCards(s)
    <3>1. PICK other \in Unused(c) \ {card} : other.suit = s /\ other.figure \in {KING, QUEEN}
      BY <1>13 DEF Announces, DoesHavePair
    <3>2. card.figure \in {KING, QUEEN} /\ other \in Card
      BY <1>1, <1>13, DeckAssumption DEF Announces, TypeOK, Unused
    <3>3. /\ card = [figure |-> card.figure, suit |-> s]
          /\ other = [figure |-> other.figure, suit |-> s]
      BY <1>2, <3>1, <3>2 DEF Card
    <3>4. card.figure # other.figure
      BY <3>1, <3>3
    <3> QED  BY <3>1, <3>2, <3>3, <3>4 DEF MarriageCards
  <2>3. s \notin announced
    BY <1>1, <1>9, <2>2 DEF Accounts
  <2>4. s \in Marriages(Deck)
    BY <1>1, <1>2, <2>2 DEF Marriages, MarriageCards, TypeOK, Unused
  <2>5. Total(Worth, more) = s + Total(Worth, announced)
    <3>1. Worth[s] = s
      BY <1>2 DEF Worth
    <3> HIDE DEF s
    <3>2. s \in Suits
      BY <1>2 DEF s
    <3>3. Worth \in [Suits -> Int]
      BY Numbers
    <3>4. Total(Worth, announced \cup {s}) = Worth[s] + Total(Worth, announced)
      BY <1>10, <2>3, <3>2, <3>3, TotalAdd
    <3> QED  BY <3>1, <3>4
  <2>6. Total(temp', Seated) = Total(temp, Seated) + s
    <3>1. s \in Int
      BY <1>2
    <3> HIDE DEF s, c
    <3>2. c \in Seated
      BY <1>1 DEF c
    <3> QED  BY <1>1, <2>1, <3>1, <3>2, ScoreAdded
  <2>7. \A d \in Seated : ~ (MarriageCards(s) \subseteq Unused(d)')
    <3>1. \A d \in Seated : card \notin Unused(d)'
      <4>1. \A d \in Seated : d # c => Unused(d) \cap Unused(c) = {}
        BY <1>1 DEF CardInv, Apart, InRound, InHand, InPlay
      <4> QED  BY <1>1, <1>5, <4>1
    <3> QED  BY <2>2, <3>1
  <2>8. Total(temp', Seated) = Total(Figure, Taken) + Total(Worth, more)
    <3>1. Total(temp, Seated) = Total(Figure, Taken) + Total(Worth, announced)
      BY <1>9 DEF Accounts
    <3> HIDE DEF s, more
    <3>2. s \in Int
      BY <1>2 DEF s
    <3> QED  BY <1>10, <2>5, <2>6, <3>1, <3>2
  <2>9. s # NONE
    BY <1>2 DEF Suits, NONE, SPADES, CLUBS, DIAMONDS, HEARTS
  <2>10. more \subseteq Marriages(Deck) /\ s \in more
    BY <1>9, <2>4 DEF Accounts
  <2>11. \A t \in more, d \in Seated : ~ (MarriageCards(t) \subseteq Unused(d)')
    BY <1>11, <2>7
  <2> HIDE DEF more, s
  <2>12. Accounts(more)'
    BY <1>4, <1>8, <2>1, <2>8, <2>9, <2>10, <2>11 DEF Accounts
  <2> QED  BY <1>7a, <2>12 DEF PointInv
<1> QED  BY <1>12, <1>13

(***************************************************************************)
(* A trick adds its three cards to those taken, and their points to the    *)
(* sum.                                                                    *)
(***************************************************************************)
LEMMA TakeTrickPoints ==
  ASSUME AuctionInv, CardInv, PointInv, asked \in InPlay, asked' = "lead",
         players' = players, NEW card \in Unused(it.CURRENT), NEW w \in Seated,
         Len(Append(vec, [player |-> it.CURRENT, card |-> card])) = 3,
         superSuit' = superSuit,
         temp' = [temp EXCEPT ![w] =
                    @ + Points(Append(vec, [player |-> it.CURRENT, card |-> card]))],
         TakeTrick(it.CURRENT, card, w)
  PROVE  PointInv'
<1> DEFINE c == it.CURRENT
           table == Append(vec, [player |-> c, card |-> card])
           x == table[1].card
           y == table[2].card
<1>1. /\ FullTable /\ TypeOK /\ c \in Seated /\ Seated \subseteq Clients /\ c \in Clients
      /\ IsFiniteSet(Seated)
  BY WhoPlayed, FinitePlayers
<1>2. card \in Deck /\ card \in Card
  BY <1>1, DeckAssumption DEF TypeOK, Unused
<1>3. /\ vec' = << >> /\ hand' = hand
      /\ used' = [used EXCEPT ![c] = @ \cup {card}]
  BY DEF TakeTrick
<1>4. Seated' = Seated
  BY Unmoved
<1>5. \A d \in Clients : Unused(d)' = IF d = c THEN Unused(d) \ {card} ELSE Unused(d)
  BY <1>1, <1>3, CardLeavesHand
<1>6. /\ Len(vec) \in Nat /\ DOMAIN vec = 1 .. Len(vec) /\ Len(table) = Len(vec) + 1
      /\ \A i \in 1 .. Len(vec) : table[i] = vec[i] /\ vec[i].card \in Deck
      /\ table[Len(vec) + 1].card = card
  BY <1>1, <1>2, CardOnTable
<1>7. Len(table) = 3
  OBVIOUS
<1> HIDE DEF table
<1>8. DOMAIN vec = {1, 2} /\ table[1] = vec[1] /\ table[2] = vec[2] /\ table[3].card = card
  <2>1. Len(vec) = 2
    BY <1>6, <1>7
  <2> QED  BY <1>6, <2>1
<1>9. /\ OnTable = {x, y} /\ x # y /\ x \in Deck /\ y \in Deck
      /\ Points(table) = x.figure + y.figure + card.figure
  <2>1. asked = "follow"
    <3>1. vec # << >>
      BY <1>8
    <3> QED  BY <3>1 DEF CardInv, RoundClock, InPlay
  <2>2. x # y
    BY <1>8, <2>1 DEF PointInv, TableCardsDiffer
  <2> QED  BY <1>6, <1>8, <2>2 DEF OnTable, Points
<1> HIDE DEF x, y
<1>10. \A d \in Seated : Unused(d) \cap {x, y} = {}
  BY <1>9 DEF CardInv, Apart, InRound, InHand, InPlay
<1>11. Taken' = ((Taken \cup {x}) \cup {y}) \cup {card}
  <2>1. Taken' = Deck \ UNION {Unused(d)' : d \in Seated}
    BY <1>3, <1>4 DEF Taken, OnTable
  <2>2. UNION {Unused(d)' : d \in Seated} = (UNION {Unused(d) : d \in Seated}) \ {card}
    <3>1. \A d \in Seated : Unused(d)' = Unused(d) \ {card}
      <4>1. \A d \in Seated : d # c => Unused(d) \cap Unused(c) = {}
        BY <1>1 DEF CardInv, Apart, InRound, InHand, InPlay
      <4> QED  BY <1>1, <1>5, <4>1
    <3> QED  BY <3>1
  <2>3. x \notin UNION {Unused(d) : d \in Seated} /\ y \notin UNION {Unused(d) : d \in Seated}
    BY <1>10
  <2>4. Taken = Deck \ ({x, y} \cup UNION {Unused(d) : d \in Seated})
    BY <1>9 DEF Taken
  <2> QED  BY <1>2, <1>9, <2>1, <2>2, <2>3, <2>4
<1>12. x \notin Taken /\ y \notin Taken /\ card \notin Taken /\ x # y /\ card # x /\ card # y
  <2>1. card \in UNION {Unused(d) : d \in Seated}
    BY <1>1
  <2>2. card \notin {x, y}
    BY <1>1, <1>10
  <2> QED  BY <1>9, <2>1, <2>2 DEF Taken
<1>13. /\ Total(Figure, Taken') = card.figure + (y.figure + (x.figure + Total(Figure, Taken)))
       /\ x.figure \in Int /\ y.figure \in Int /\ card.figure \in Int
       /\ Total(Figure, Taken) \in Int
  <2>1. Taken \subseteq Card /\ x \in Card /\ y \in Card
    BY <1>9, DeckAssumption DEF Taken
  <2>2. Total(Figure, Taken \cup {x}) = x.figure + Total(Figure, Taken)
    BY <1>12, <2>1, FigureAdd
  <2>3. Total(Figure, (Taken \cup {x}) \cup {y}) = y.figure + Total(Figure, Taken \cup {x})
    <3>1. Taken \cup {x} \subseteq Card /\ y \notin Taken \cup {x}
      BY <1>12, <2>1
    <3> QED  BY <2>1, <3>1, FigureAdd
  <2>4. Total(Figure, Taken') = card.figure + Total(Figure, (Taken \cup {x}) \cup {y})
    <3>1. (Taken \cup {x}) \cup {y} \subseteq Card /\ card \notin (Taken \cup {x}) \cup {y}
      BY <1>12, <2>1
    <3> QED  BY <1>2, <1>11, <3>1, FigureAdd
  <2>5. Total(Figure, Taken) \in Int
    BY <2>1, FiniteCards, FS_Subset, Numbers, TotalInt
  <2>6. x.figure \in Int /\ y.figure \in Int /\ card.figure \in Int
    BY <1>2, <1>9, CardNumbers
  <2> QED  BY <2>2, <2>3, <2>4, <2>5, <2>6
<1>14. PICK announced : Accounts(announced)
  BY DEF PointInv
<1>15. Total(temp', Seated) = Total(temp, Seated) + Points(table)
  <2>1. Points(table) \in Int
    BY <1>9, <1>13
  <2>2. temp \in [Clients -> Int] /\ temp' = [temp EXCEPT ![w] = @ + Points(table)]
    BY <1>1 DEF TypeOK, table
  <2> DEFINE n == Points(table)
  <2> HIDE DEF n
  <2>3. n \in Int
    BY <2>1 DEF n
  <2>4. temp' = [temp EXCEPT ![w] = @ + n]
    BY <2>2 DEF n
  <2>5. Total(temp', Seated) = Total(temp, Seated) + n
    BY <1>1, <2>3, <2>4, ScoreAdded
  <2> QED  BY <2>5 DEF n
<1>16. Total(Worth, announced) \in Int
  <2>1. announced \subseteq Suits /\ IsFiniteSet(announced)
    BY <1>14, FiniteCards, FS_Subset DEF Accounts, Marriages
  <2> QED  BY <2>1, Numbers, TotalInt
<1>17. Total(temp', Seated) = Total(Figure, Taken') + Total(Worth, announced)
  <2>1. Total(temp, Seated) = Total(Figure, Taken) + Total(Worth, announced)
    BY <1>14 DEF Accounts
  <2> QED  BY <1>9, <1>13, <1>15, <1>16, <2>1
<1>18. \A s \in announced, d \in Seated : ~ (MarriageCards(s) \subseteq Unused(d)')
  <2>1. \A d \in Seated : Unused(d)' \subseteq Unused(d)
    BY <1>1, <1>5
  <2>2. \A s \in announced, d \in Seated : ~ (MarriageCards(s) \subseteq Unused(d))
    BY <1>14 DEF Accounts
  <2> QED  BY <2>1, <2>2
<1>19. Accounts(announced)'
  BY <1>4, <1>14, <1>17, <1>18 DEF Accounts
<1> QED  BY <1>19 DEF PointInv, NothingScored, TableCardsDiffer, Bargaining

(***************************************************************************)
(* Steps that leave the points alone, and questions before the first card. *)
(***************************************************************************)
LEMMA StillPoints ==
  ASSUME PointInv, UNCHANGED <<players, hand, used, temp, vec, superSuit, asked>>
  PROVE  PointInv'
<1>1. NothingScored' /\ TableCardsDiffer'
  BY DEF PointInv, NothingScored, TableCardsDiffer, Bargaining
<1>2. ASSUME asked' \in InPlay PROVE \E announced : Accounts(announced)'
  <2>1. PICK announced : Accounts(announced)
    BY <1>2 DEF PointInv
  <2>2. Seated' = Seated /\ Taken' = Taken /\ \A c : Unused(c)' = Unused(c)
    BY DEF Seated, Taken, OnTable, Unused
  <2>3. Accounts(announced)'
    BY <2>1, <2>2 DEF Accounts
  <2> QED  BY <2>3
<1> QED  BY <1>1, <1>2 DEF PointInv, InPlay

LEMMA NoPoints ==
  ASSUME asked' \in Quiet \/ (asked' \in Bargaining /\ temp' = Zero /\ superSuit' = NONE)
  PROVE  PointInv'
<1>1. asked' \notin InPlay /\ asked' # "follow"
  BY DEF Quiet, Bargaining, InPlay
<1>2. NothingScored' /\ TableCardsDiffer'
  <2>1. asked' \in Bargaining => temp' = Zero /\ superSuit' = NONE
    BY DEF Quiet, Bargaining
  <2> QED  BY <1>1, <2>1 DEF NothingScored, TableCardsDiffer, Zero, Bargaining
<1> QED  BY <1>1, <1>2 DEF PointInv, InPlay

LEMMA BargainPoints ==
  ASSUME AuctionInv, CardInv, PointInv,
         \/ \E c \in Clients : PressReady(c)
         \/ \E b \in Bids \cup {PASS} : asked = "bid" /\ PlaceBid(b)
         \/ \E x, y \in Deck : Give(x, y)
  PROVE  PointInv'
<1>1. temp' = temp /\ superSuit' = superSuit
  BY DEF PressReady, HandleReady, PlaceBid, HandleBid, Give, HandleDeal, gameVars
<1>2. asked' \in Bargaining \cup {"ready"}
  <2>1. ASSUME NEW c \in Clients, PressReady(c) PROVE asked' \in {"bid", "ready"}
    BY <2>1 DEF PressReady
  <2>2. ASSUME NEW b \in Bids \cup {PASS}, asked = "bid", PlaceBid(b) PROVE asked' \in {"bid", "give"}
    <3>1. it.CURRENT # it.HIGHEST
      BY <2>2 DEF AuctionInv, AuctionOrder
    <3>2. stage' \in {"BIDDING", "DEALING"}
      BY <2>2, <3>1 DEF PlaceBid, HandleBid, RegularBid, FinalBid
    <3> QED  BY <2>2, <3>2 DEF PlaceBid
  <2>3. ASSUME NEW x \in Deck, NEW y \in Deck, Give(x, y) PROVE asked' = "final"
    BY <2>3 DEF Give
  <2> QED  BY <2>1, <2>2, <2>3 DEF Bargaining
<1>3. temp = Zero /\ superSuit = NONE
  <2>1. asked \in {"ready", "bid", "give"}
    BY DEF PressReady, Give
  <2> QED  BY <2>1 DEF CardInv, CleanTable, PointInv, NothingScored, Bargaining
<1> QED  BY <1>1, <1>2, <1>3, NoPoints DEF Quiet

LEMMA PlayCardPoints ==
  ASSUME AuctionInv, CardInv, PointInv, NEW card \in Deck, PlayCard(card)
  PROVE  PointInv'
<1> DEFINE c == it.CURRENT
           table == Append(vec, [player |-> c, card |-> card])
           trump  == IF Announces(c, card) THEN card.suit ELSE superSuit
           scored == [temp EXCEPT ![c] = @ + (IF Announces(c, card) THEN card.suit ELSE 0)]
<1>1. /\ asked \in InPlay /\ players' = players /\ card \in Unused(c)
      /\ asked' = CASE stage' = "BIDDING" -> "bid"
                    [] stage' = "ADDING"  -> "none"
                    [] OTHER -> IF vec' = << >> THEN "lead"
                                ELSE IF Len(vec') = 3 THEN "none" ELSE "follow"
  BY DEF PlayCard, HandlePlay, InPlay
<1>2. FullTable /\ TypeOK /\ c \in Seated /\ c \in Clients
  BY <1>1, WhoPlayed, FinitePlayers
<1>3. /\ table # << >> /\ Len(table) = Len(vec) + 1 /\ Len(vec) \in Nat
  BY <1>1, <1>2, CardOnTable
<1>4. stage # "BIDDING" /\ stage # "ADDING"
  BY <1>1 DEF AuctionInv, StageAgrees, InPlay
<1> HIDE DEF table, trump, scored
<1>5. ASSUME PlayOn(c, card, table), superSuit' = trump, temp' = scored
      PROVE  PointInv'
  <2>1. asked' = "follow"
    BY <1>1, <1>3, <1>5 DEF PlayOn
  <2> QED  BY <1>1, <1>5, <2>1, PlayOnPoints DEF table, trump, scored
<1>6. ASSUME PlayFails(c, card, table), Len(table) = 3
      PROVE  PointInv'
  <2>1. asked' = "none"
    BY <1>1, <1>3, <1>4, <1>6 DEF PlayFails
  <2> QED  BY <2>1, NoPoints DEF Quiet
<1>7. ASSUME NEW w \in Seated, Len(table) = 3, superSuit' = trump,
             temp' = [scored EXCEPT ![w] = @ + Points(table)], TakeTrick(c, card, w)
      PROVE  PointInv'
  <2>1. asked' = "lead"
    BY <1>1, <1>7 DEF TakeTrick
  <2>2. ~ Announces(c, card)
    <3>1. Len(vec) # 0
      BY <1>3, <1>7
    <3> QED  BY <3>1 DEF Announces
  <2>3. trump = superSuit /\ scored = temp
    <3>1. temp \in [Clients -> Int]
      BY <1>2 DEF TypeOK
    <3>2. \A f \in [Clients -> Int] : [f EXCEPT ![c] = @ + 0] = f
      BY <1>2
    <3> QED  BY <2>2, <3>1, <3>2 DEF trump, scored
  <2> QED  BY <1>1, <1>7, <2>1, <2>3, TakeTrickPoints DEF table
<1>8. ASSUME NEW t, EndOfRound(t)
      PROVE  PointInv'
  <2>1. temp' = Zero /\ superSuit' = NONE /\ stage' \in {"BIDDING", "ADDING"}
    BY <1>8 DEF EndOfRound, NextRound, GameOver
  <2>2. asked' \in {"bid", "none"}
    BY <1>1, <2>1
  <2> QED  BY <2>1, <2>2, NoPoints DEF Quiet, Bargaining
<1>9. \/ PlayOn(c, card, table) /\ superSuit' = trump /\ temp' = scored
      \/ PlayFails(c, card, table) /\ Len(table) = 3
      \/ /\ Len(table) = 3
         /\ \E w \in Seated :
              \/ /\ superSuit' = trump /\ temp' = [scored EXCEPT ![w] = @ + Points(table)]
                 /\ TakeTrick(c, card, w)
              \/ \E t : EndOfRound(t)
  BY DEF PlayCard, HandlePlay, table, trump, scored
<1> QED  BY <1>5, <1>6, <1>7, <1>8, <1>9

LEMMA NextPoints ==
  ASSUME AuctionInv, CardInv, PointInv, [Next]_vars
  PROVE  PointInv'
<1>1. CASE UNCHANGED vars
  BY <1>1, StillPoints DEF vars, roomVars, cardVars, gameVars
<1>2. ASSUME NEW c \in Clients, Join(c) \/ Leave(c)
      PROVE  PointInv'
  BY <1>2, NoPoints DEF Join, Leave, Quiet
<1>3. ASSUME NEW c \in Clients, JoinFull(c)
      PROVE  PointInv'
  <2>1. UNCHANGED <<players, hand, used, temp, vec, superSuit, asked>>
    BY <1>3 DEF JoinFull, HandleAdd, cardVars, gameVars
  <2> QED  BY <2>1, StillPoints
<1>4. ASSUME NEW b \in Bids \cup {PASS}, PlaceBid(b)
      PROVE  PointInv'
  <2>1. asked \in {"bid", "final"}
    BY <1>4 DEF PlaceBid
  <2> QED  BY <1>4, <2>1, BargainPoints, FirstTrickPoints
<1> QED  BY <1>1, <1>2, <1>3, <1>4, BargainPoints, PlayCardPoints DEF Next, Answer

(***************************************************************************)
(* While cards are played, the scores of a round are the cards taken and   *)
(* the marriages announced, for any deck, hand size and players: no trick  *)
(* is counted twice or lost, and no marriage is announced again.           *)
(***************************************************************************)
THEOREM PointsAlwaysConserved ==
  ASSUME "follow" \notin LeaveIn
  PROVE  Spec => []PointsConserved
<1>1. Init => PointInv
  BY DEF Init, PointInv, NothingScored, TableCardsDiffer, Bargaining, InPlay
<1>2. AuctionInv /\ CardInv /\ PointInv /\ [Next]_vars => PointInv'
  BY NextPoints
<1>3. PointInv => PointsConserved
  <2> SUFFICES ASSUME PointInv, asked \in InPlay
               PROVE  \E announced \in SUBSET Marriages(Deck) :
                        /\ MapThenSumSet(LAMBDA c : temp[c], Seated) =
                             MapThenSumSet(LAMBDA card : card.figure, Taken) + SumSet(announced)
                        /\ superSuit # NONE <=> superSuit \in announced
    BY DEF PointsConserved
  <2>1. PICK announced : Accounts(announced)
    BY DEF PointInv
  <2>2. announced \in SUBSET Marriages(Deck) /\ announced \subseteq Suits
    BY <2>1 DEF Accounts, Marriages
  <2>3. MapThenSumSet(LAMBDA c : temp[c], Seated) = Total(temp, Seated)
    BY SumOfScores
  <2>4. MapThenSumSet(LAMBDA card : card.figure, Taken) = Total(Figure, Taken)
    BY DeckAssumption, SumOfFigures DEF Taken
  <2>5. SumSet(announced) = Total(Worth, announced)
    BY <2>2, SumOfSuits
  <2> QED  BY <2>1, <2>2, <2>3, <2>4, <2>5 DEF Accounts
<1> QED  BY <1>1, <1>2, <1>3, Invariance, CardsAlways, PTL DEF Spec
=============================================================================
