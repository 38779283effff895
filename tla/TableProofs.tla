---------------------------- MODULE TableProofs ----------------------------
(***************************************************************************)
(* Proofs about Table for any clients, any deck and hand size, any bids    *)
(* and any moments at which players leave and full rooms are asked for a   *)
(* seat: its type and its auction.                                         *)
(***************************************************************************)
EXTENDS TableProperties, SequenceTheorems, FiniteSetTheorems, TLAPS

USE DEF MAX_PLAYERS, PASS, None

-----------------------------------------------------------------------------
(***************************************************************************)
(* The seats of a full table.                                              *)
(***************************************************************************)
FullTable == players \in Seq(Clients) /\ Len(players) = 3 /\ Distinct

LEMMA Seats ==
  ASSUME FullTable
  PROVE  /\ DOMAIN players = 1 .. 3
         /\ Seated = {players[1], players[2], players[3]}
         /\ Seated \subseteq Clients
         /\ \A c \in Seated : SeatOf(c) \in 1 .. 3 /\ players[SeatOf(c)] = c
         /\ SeatOf(players[1]) = 1 /\ SeatOf(players[2]) = 2 /\ SeatOf(players[3]) = 3
<1>1. DOMAIN players = 1 .. 3
  BY DEF FullTable
<1>2. Seated = {players[1], players[2], players[3]}
  BY <1>1 DEF Seated
<1>3. Seated \subseteq Clients
  <2>1. \A i \in 1 .. 3 : players[i] \in Clients
    BY ElementOfSeq DEF FullTable
  <2> QED  BY <1>2, <2>1
<1>4. ASSUME NEW c \in Seated
      PROVE  SeatOf(c) \in 1 .. 3 /\ players[SeatOf(c)] = c
  <2>1. PICK i \in DOMAIN players : players[i] = c
    BY DEF Seated
  <2> QED  BY <1>1, <2>1 DEF SeatOf
<1>5. players[1] \in Seated /\ players[2] \in Seated /\ players[3] \in Seated
  BY <1>2
<1>6. SeatOf(players[1]) = 1 /\ SeatOf(players[2]) = 2 /\ SeatOf(players[3]) = 3
  BY <1>1, <1>4, <1>5 DEF FullTable, Distinct
<1> QED  BY <1>1, <1>2, <1>3, <1>4, <1>6

(***************************************************************************)
(* The players in the order of their seats, from any one of them.          *)
(***************************************************************************)
LEMMA Neighbours ==
  ASSUME FullTable, NEW c \in Seated
  PROVE  /\ NextOf(c) \in Seated /\ NextOf(NextOf(c)) \in Seated
         /\ Seated = {c, NextOf(c), NextOf(NextOf(c))}
         /\ c # NextOf(c) /\ c # NextOf(NextOf(c))
         /\ NextOf(c) # NextOf(NextOf(c))
         /\ NextOf(NextOf(NextOf(c))) = c
<1>1. /\ players[1] # players[2] /\ players[1] # players[3] /\ players[2] # players[3]
  BY Seats DEF FullTable, Distinct
<1>2. /\ NextOf(players[1]) = players[2] /\ NextOf(players[2]) = players[3]
      /\ NextOf(players[3]) = players[1]
  BY Seats DEF NextOf
<1>3. c = players[1] \/ c = players[2] \/ c = players[3]
  BY Seats
<1> QED  BY <1>1, <1>2, <1>3, Seats

LEMMA Unmoved ==
  ASSUME players' = players
  PROVE  /\ Seated' = Seated /\ (FullTable' <=> FullTable)
         /\ \A c : NextOf(c)' = NextOf(c)
  BY DEF Seated, FullTable, Distinct, NextOf, SeatOf

-----------------------------------------------------------------------------
(***************************************************************************)
(* The handlers' parts that need arithmetic.                               *)
(***************************************************************************)

(***************************************************************************)
(* The player who bids next after c is the next one who has not passed,    *)
(* and c himself only when both others have.                               *)
(***************************************************************************)
LEMMA NextBidders ==
  ASSUME FullTable, NEW c \in Seated, NEW bids
  PROVE  /\ NextBidder(c, bids) \in Seated
         /\ NextBidder(c, bids) = c =>
              \A d \in Seated \ {c} : bids[d] = PASS
         /\ NextBidder(c, bids) # c =>
              /\ bids[NextBidder(c, bids)] # PASS
              /\ NextBidder(c, bids) = NextOf(c) \/ bids[NextOf(c)] = PASS
  BY Neighbours DEF NextBidder

(***************************************************************************)
(* Every seat's portion and the stock are cards of the deck.               *)
(***************************************************************************)
LEMMA DealtCards ==
  ASSUME FullTable, DealCards
  PROVE  /\ hand' \in [Clients -> SUBSET Deck]
         /\ used' \in [Clients -> SUBSET Deck]
         /\ stock' \subseteq Deck
<1> USE HandAssumption
<1> DEFINE Portion(s, k) == {s[j] : j \in (k - 1) * HandSize + 1 .. k * HandSize}
<1>1. PICK s \in Shuffles :
        /\ hand' = [c \in Clients |-> IF c \in Seated THEN Portion(s, SeatOf(c)) ELSE {}]
        /\ stock' = {s[j] : j \in 3 * HandSize + 1 .. DeckSize}
  BY DEF DealCards
<1>2. DeckSize = 3 * HandSize + 3 /\ DeckSize \in Nat
  BY DEF DeckSize
<1>3. \A j \in 1 .. DeckSize : s[j] \in Deck
  BY ShuffleAssumption
<1>4. ASSUME NEW k \in 1 .. 3 PROVE Portion(s, k) \subseteq Deck
  <2>1. CASE k = 1  BY <2>1, <1>2, <1>3
  <2>2. CASE k = 2  BY <2>2, <1>2, <1>3
  <2>3. CASE k = 3  BY <2>3, <1>2, <1>3
  <2> QED  BY <2>1, <2>2, <2>3
<1>5. hand' \in [Clients -> SUBSET Deck]
  <2> HIDE DEF Portion
  <2>1. \A c \in Seated : Portion(s, SeatOf(c)) \subseteq Deck
    BY <1>4, Seats
  <2> QED  BY <1>1, <2>1
<1>6. stock' \subseteq Deck
  BY <1>1, <1>2, <1>3
<1> QED  BY <1>5, <1>6 DEF DealCards, NoCards

(***************************************************************************)
(* A round starts with a compulsory bid of 100, the turn of the player     *)
(* after it, and nobody passed.                                            *)
(***************************************************************************)
LEMMA PreparedGame ==
  ASSUME FullTable, NEW i \in 1 .. 3, PrepareGame(i, Zero)
  PROVE  /\ it' \in [CURRENT : Seated, COMPULSORY : Seated, HIGHEST : Seated]
         /\ it'.CURRENT = NextOf(it'.HIGHEST) /\ it'.CURRENT # it'.HIGHEST
         /\ claim' \in [Clients -> Int]
         /\ claim'[it'.HIGHEST] = 100
         /\ \A c \in Seated : claim'[c] # PASS
<1>1. players[i] \in Seated /\ players[(i % 3) + 1] \in Seated
  BY Seats
<1>2. SeatOf(players[i]) = i
  BY Seats
<1>3. NextOf(players[i]) = players[(i % 3) + 1]
  BY <1>2 DEF NextOf
<1>4. players[i] # NextOf(players[i])
  BY <1>1, Neighbours
<1>5. it' = [CURRENT |-> players[(i % 3) + 1], COMPULSORY |-> players[i],
             HIGHEST |-> players[i]]
  BY DEF PrepareGame
<1>6. claim' = [Zero EXCEPT ![players[i]] = 100]
  BY DEF PrepareGame
<1>7. Seated \subseteq Clients
  BY Seats
<1> QED  BY <1>1, <1>3, <1>4, <1>5, <1>6, <1>7 DEF Zero

-----------------------------------------------------------------------------
(***************************************************************************)
(* The inductive invariant, one lemma for each action.                     *)
(***************************************************************************)
LEMMA InitInv == Init => AuctionInv
<1> SUFFICES ASSUME Init PROVE AuctionInv
  OBVIOUS
<1>1. asked = "seating" /\ players = << >> /\ claim = Zero
  BY DEF Init, RoomInit
<1>2. TypeOK
  <2>1. /\ stage = "ADDING" /\ ready = {} /\ temp = Zero /\ score = Zero
        /\ hand = NoCards /\ used = NoCards /\ stock = {} /\ it = NoIt
        /\ gifts = 0 /\ vec = << >> /\ turn = 0 /\ superSuit = NONE
        /\ undefined = FALSE
    BY DEF Init, RoomInit
  <2>2. Zero \in [Clients -> Int] /\ NoCards \in [Clients -> SUBSET Deck]
    BY DEF Zero, NoCards
  <2>3. << >> \in Seq(Clients) /\ << >> \in Seq([player : Clients, card : Deck])
        /\ Len(<< >>) =< 3
    OBVIOUS
  <2> QED  BY <1>1, <2>1, <2>2, <2>3 DEF TypeOK, Stages, Questions, NoIt
<1>3. Distinct
  BY <1>1 DEF Distinct
<1>4. asked \notin InRound
  BY <1>1 DEF InRound, InHand
<1>5. TableFull /\ RolesSeated /\ AuctionOrder
  BY <1>4, <1>1 DEF TableFull, RolesSeated, AuctionOrder
<1>6. StageAgrees /\ OneContract
  BY <1>1 DEF StageAgrees, OneContract, InPlay, InHand, Init, RoomInit
<1>7. ClaimsCleared
  BY <1>1 DEF ClaimsCleared
<1> QED  BY <1>2, <1>3, <1>5, <1>6, <1>7 DEF AuctionInv

(***************************************************************************)
(* Between games only the seats and the claims matter.                     *)
(***************************************************************************)
LEMMA IdleInv ==
  ASSUME TypeOK', Distinct', asked' \in {"seating", "ready", "none"},
         asked' # "seating" => Len(players') = 3,
         asked' # "none" => claim' = Zero /\ stage' \in {"ADDING", "FAIL"}
  PROVE  AuctionInv'
<1>1. asked' \notin InRound
  BY DEF InRound, InHand
<1>2. asked' \notin InHand /\ asked' \notin InPlay /\ asked' # "bid"
  BY DEF InPlay, InHand
<1>3. TableFull' /\ RolesSeated' /\ StageAgrees'
  BY <1>1, <1>2 DEF TableFull, RolesSeated, StageAgrees
<1>4. ClaimsCleared' /\ AuctionOrder' /\ OneContract'
  BY <1>2 DEF ClaimsCleared, AuctionOrder, OneContract
<1> QED  BY <1>3, <1>4 DEF AuctionInv

LEMMA StutterInv == AuctionInv /\ UNCHANGED vars => AuctionInv'
<1> SUFFICES ASSUME AuctionInv, UNCHANGED vars PROVE AuctionInv'
  OBVIOUS
<1>1. /\ UNCHANGED <<stage, players, ready, claim, temp, score, hand, used, stock>>
      /\ UNCHANGED <<it, gifts, vec, turn, superSuit, report, undefined, asked>>
  BY DEF vars, roomVars, cardVars, gameVars
<1>2. Seated' = Seated /\ \A c : NextOf(c)' = NextOf(c)
  BY <1>1, Unmoved
<1>3. TypeOK' /\ Distinct' /\ TableFull' /\ StageAgrees' /\ ClaimsCleared'
  BY <1>1 DEF AuctionInv, TypeOK, Distinct, TableFull, StageAgrees, ClaimsCleared
<1>4. RolesSeated' /\ AuctionOrder' /\ OneContract'
  BY <1>1, <1>2 DEF AuctionInv, RolesSeated, AuctionOrder, OneContract
<1> QED  BY <1>3, <1>4 DEF AuctionInv

LEMMA JoinInv ==
  ASSUME AuctionInv, NEW c \in Clients, Join(c)
  PROVE  AuctionInv'
<1>1. /\ players' = Append(players, c) /\ stage' = "ADDING" /\ Len(players) < 3
      /\ UNCHANGED <<ready, claim, temp, score, hand, used, stock, it, gifts, vec,
                     turn, superSuit, undefined>>
      /\ asked' = IF Len(players') = 3 THEN "ready" ELSE "seating"
      /\ c \notin Seated
  BY DEF Join, HandleAdd, cardVars, gameVars
<1>2. Len(players) \in Nat /\ players \in Seq(Clients)
  BY DEF AuctionInv, TypeOK
<1>3. asked = "seating"
  BY <1>1, <1>2 DEF AuctionInv, TableFull
<1>4. players' \in Seq(Clients) /\ Len(players') =< 3
  BY <1>1, <1>2
<1>5. TypeOK'
  BY <1>1, <1>4 DEF AuctionInv, TypeOK, Stages, Questions
<1>6. Distinct'
  <2>1. \A i \in 1 .. Len(players) : players'[i] = players[i] /\ players[i] # c
    BY <1>1, <1>2 DEF Seated
  <2>2. DOMAIN players' = 1 .. Len(players) + 1 /\ players'[Len(players) + 1] = c
    BY <1>1, <1>2
  <2> QED  BY <1>2, <2>1, <2>2 DEF AuctionInv, Distinct
<1>7. claim' = Zero
  BY <1>1, <1>3 DEF AuctionInv, ClaimsCleared
<1>8. /\ asked' \in {"seating", "ready"} /\ stage' = "ADDING"
      /\ asked' # "seating" => Len(players') = 3
  BY <1>1
<1> QED  BY <1>5, <1>6, <1>7, <1>8, IdleInv

LEMMA JoinFullInv ==
  ASSUME AuctionInv, NEW c \in Clients, JoinFull(c)
  PROVE  AuctionInv'
<1>1. /\ stage' = "FAIL" /\ Len(players) = 3
      /\ UNCHANGED <<players, ready, claim, temp, score, hand, used, stock, it, gifts>>
      /\ UNCHANGED <<vec, turn, superSuit, undefined, asked>>
  BY DEF JoinFull, HandleAdd, cardVars, gameVars
<1>2. Seated' = Seated /\ \A d : NextOf(d)' = NextOf(d)
  BY <1>1, Unmoved
<1>3. TypeOK'
  BY <1>1 DEF AuctionInv, TypeOK, Stages
<1>4. Distinct' /\ TableFull' /\ StageAgrees' /\ ClaimsCleared'
  BY <1>1 DEF AuctionInv, Distinct, TableFull, StageAgrees, ClaimsCleared
<1>5. RolesSeated' /\ AuctionOrder' /\ OneContract'
  BY <1>1, <1>2 DEF AuctionInv, RolesSeated, AuctionOrder, OneContract
<1> QED  BY <1>3, <1>4, <1>5 DEF AuctionInv

LEMMA FullWhenAsked == AuctionInv /\ asked # "seating" => FullTable
  BY DEF AuctionInv, TypeOK, TableFull, FullTable

(***************************************************************************)
(* A round that has just been dealt.                                       *)
(***************************************************************************)
LEMMA RoundStartInv ==
  ASSUME FullTable, players' = players, asked' = "bid", TypeOK',
         NEW i \in 1 .. 3, PrepareGame(i, Zero)
  PROVE  AuctionInv'
<1>1. Seated' = Seated /\ FullTable' /\ \A d : NextOf(d)' = NextOf(d)
  BY Unmoved
<1>2. /\ it' \in [CURRENT : Seated, COMPULSORY : Seated, HIGHEST : Seated]
      /\ it'.CURRENT = NextOf(it'.HIGHEST) /\ it'.CURRENT # it'.HIGHEST
      /\ claim'[it'.HIGHEST] = 100
      /\ \A c \in Seated : claim'[c] # PASS
  BY PreparedGame
<1>3. asked' \notin InHand /\ asked' \notin InPlay
  BY DEF InHand, InPlay
<1>4. Distinct' /\ TableFull' /\ StageAgrees' /\ ClaimsCleared' /\ OneContract'
  BY <1>1, <1>3 DEF FullTable, TableFull, StageAgrees, ClaimsCleared, OneContract
<1>5. RolesSeated'
  BY <1>1, <1>2 DEF RolesSeated
<1>6. AuctionOrder'
  BY <1>1, <1>2 DEF AuctionOrder, FullTable
<1> QED  BY <1>4, <1>5, <1>6 DEF AuctionInv

LEMMA PressReadyInv ==
  ASSUME AuctionInv, NEW c \in Clients, PressReady(c)
  PROVE  AuctionInv'
<1>1. /\ asked = "ready" /\ c \in Seated /\ HandleReady(c)
      /\ asked' = IF stage' = "BIDDING" THEN "bid" ELSE "ready"
      /\ UNCHANGED <<players, temp, score, gifts, vec, turn, superSuit>>
  BY DEF PressReady, HandleReady, gameVars
<1>2. FullTable /\ claim = Zero
  BY <1>1, FullWhenAsked DEF AuctionInv, ClaimsCleared
<1>3. Distinct' /\ Len(players') = 3 /\ players' \in Seq(Clients)
  BY <1>1, <1>2 DEF FullTable, Distinct
<1>4. CASE stage = "ADDING" /\ ready' = Seated
  <2>1. /\ PrepareGame(1, Zero) /\ DealCards /\ stage' = "BIDDING"
        /\ undefined' = undefined
    BY <1>1, <1>2, <1>4 DEF HandleReady, IsReadyToStart
  <2>2. /\ hand' \in [Clients -> SUBSET Deck] /\ used' \in [Clients -> SUBSET Deck]
        /\ stock' \subseteq Deck
    BY <1>2, <2>1, DealtCards
  <2>3. /\ it' \in [CURRENT : Seated, COMPULSORY : Seated, HIGHEST : Seated]
        /\ claim' \in [Clients -> Int]
    BY <1>2, <2>1, PreparedGame
  <2>4. TypeOK'
    BY <1>1, <1>2, <1>3, <1>4, <2>1, <2>2, <2>3, Seats
       DEF AuctionInv, TypeOK, Stages, Questions
  <2> QED  BY <1>1, <1>2, <2>1, <2>4, RoundStartInv
<1>5. CASE ~ (stage = "ADDING" /\ ready' = Seated)
  <2>1. /\ UNCHANGED <<it, claim, hand, used, stock>>
        /\ stage' = stage
        /\ ready' \in {ready, ready \cup {c}}
        /\ undefined' \in {undefined, TRUE}
    BY <1>1, <1>5 DEF HandleReady, IsReadyToStart, cardVars
  <2>2. stage \in {"ADDING", "FAIL"}
    BY <1>1 DEF AuctionInv, StageAgrees
  <2>3. asked' = "ready"
    BY <1>1, <2>1, <2>2
  <2>4. TypeOK'
    BY <1>1, <1>3, <2>1, <2>3 DEF AuctionInv, TypeOK
  <2> QED  BY <1>2, <1>3, <2>1, <2>2, <2>3, <2>4, IdleInv
<1> QED  BY <1>4, <1>5

(***************************************************************************)
(* A bid or a pass in the auction.  When the holder of the highest bid is  *)
(* reached the two others have passed: the one in between because he was   *)
(* skipped, and the one behind because everyone between the holder and the *)
(* bidder has passed.                                                      *)
(***************************************************************************)
LEMMA RegularBidInv ==
  ASSUME AuctionInv, NEW b \in Bids \cup {PASS}, asked = "bid", PlaceBid(b)
  PROVE  AuctionInv'
<1> USE BidsAssumption
<1> DEFINE c == it.CURRENT
           h == it.HIGHEST
           n == NextBidder(c, claim')
<1>1. FullTable /\ TypeOK
  BY FullWhenAsked DEF AuctionInv
<1>2. /\ c \in Seated /\ h \in Seated /\ c # h /\ claim[c] # PASS /\ claim[h] >= 100
      /\ c = NextOf(h) \/ claim[NextOf(h)] = PASS
      /\ it \in [CURRENT : Seated, COMPULSORY : Seated, HIGHEST : Seated]
  BY DEF AuctionInv, AuctionOrder, RolesSeated, InRound
<1>3. /\ UNCHANGED <<players, ready, temp, score, used, gifts, undefined>>
      /\ UNCHANGED <<vec, turn, superSuit>>
      /\ asked' = CASE stage' = "BIDDING" -> "bid"
                    [] stage' = "DEALING" -> "give"
                    [] stage' = "PLAYING" -> "lead"
      /\ RegularBid(c, b)
  BY <1>2 DEF PlaceBid, HandleBid, FinalBid, gameVars
<1>4. /\ claim' = [claim EXCEPT ![c] = b]
      /\ it' = [it EXCEPT !.HIGHEST = IF b = PASS THEN @ ELSE c, !.CURRENT = n]
      /\ IF it'.CURRENT = it'.HIGHEST
           THEN /\ hand' = [hand EXCEPT ![it'.HIGHEST] = @ \cup stock]
                /\ stock' = {} /\ stage' = "DEALING"
           ELSE stage' = "BIDDING" /\ UNCHANGED <<hand, stock>>
  BY <1>3 DEF RegularBid
<1>5. Seated' = Seated /\ FullTable' /\ \A d : NextOf(d)' = NextOf(d)
  BY <1>1, <1>3, Unmoved
<1>6. claim \in [Clients -> Int] /\ Seated \subseteq Clients
  BY <1>1, Seats DEF TypeOK
<1>7. /\ claim' \in [Clients -> Int]
      /\ \A d \in Seated : claim'[d] = IF d = c THEN b ELSE claim[d]
      /\ b # PASS => b >= 100
  BY <1>2, <1>4, <1>6
<1>8. /\ n \in Seated
      /\ n = c => \A d \in Seated \ {c} : claim'[d] = PASS
      /\ n # c => claim'[n] # PASS /\ (n = NextOf(c) \/ claim'[NextOf(c)] = PASS)
  BY <1>1, <1>2, NextBidders
<1> HIDE DEF n
<1>9. it'.CURRENT = n /\ it'.HIGHEST = IF b = PASS THEN h ELSE c
  BY <1>2, <1>4
<1>10. it' \in [CURRENT : Seated, COMPULSORY : Seated, HIGHEST : Seated]
  BY <1>2, <1>4, <1>8
<1>11. claim'[it'.HIGHEST] >= 100
  BY <1>2, <1>7, <1>9
<1>12. /\ NextOf(c) \in Seated /\ NextOf(NextOf(c)) \in Seated
       /\ Seated = {c, NextOf(c), NextOf(NextOf(c))}
       /\ c # NextOf(c) /\ c # NextOf(NextOf(c)) /\ NextOf(c) # NextOf(NextOf(c))
       /\ NextOf(NextOf(NextOf(c))) = c
  BY <1>1, <1>2, Neighbours
<1>13. /\ asked' \in {"bid", "give"}
       /\ asked' = "give" <=> it'.CURRENT = it'.HIGHEST
       /\ stage' \in {"BIDDING", "DEALING"}
  BY <1>3, <1>4
<1>14. TypeOK'
  <2>1. hand' \in [Clients -> SUBSET Deck] /\ stock' \subseteq Deck
    <3>1. hand \in [Clients -> SUBSET Deck] /\ stock \subseteq Deck
      BY <1>1 DEF TypeOK
    <3>2. CASE it'.CURRENT = it'.HIGHEST
      <4>1. hand' = [hand EXCEPT ![it'.HIGHEST] = @ \cup stock] /\ stock' = {}
        BY <1>4, <3>2
      <4> QED  BY <3>1, <4>1
    <3>3. CASE it'.CURRENT # it'.HIGHEST
      BY <1>4, <3>1, <3>3
    <3> QED  BY <3>2, <3>3
  <2>2. it' \in [CURRENT : Clients \cup {None}, COMPULSORY : Clients \cup {None},
                HIGHEST : Clients \cup {None}]
    BY <1>6, <1>10
  <2>3. players' \in Seq(Clients) /\ Len(players') =< 3
    BY <1>1, <1>3 DEF TypeOK
  <2> QED  BY <1>1, <1>3, <1>7, <1>13, <2>1, <2>2, <2>3 DEF TypeOK, Stages, Questions
<1>15. CASE asked' = "give"
  <2>1. it'.CURRENT = it'.HIGHEST
    BY <1>13, <1>15
  <2>2. \A d \in Seated \ {it'.HIGHEST} : claim'[d] = PASS
    <3>1. CASE b = PASS
      <4>1. n = h /\ n # c /\ claim'[c] = PASS
        BY <3>1, <2>1, <1>2, <1>7, <1>9
      <4>2. CASE h = NextOf(c)
        BY <4>1, <4>2, <3>1, <1>2, <1>7, <1>9, <1>12
      <4>3. CASE h # NextOf(c)
        BY <4>1, <4>3, <3>1, <1>8, <1>9, <1>12
      <4> QED  BY <4>2, <4>3
    <3>2. CASE b # PASS
      BY <3>2, <2>1, <1>8, <1>9
    <3> QED  BY <3>1, <3>2
  <2>3. OneContract'
    BY <1>5, <1>10, <1>11, <1>15, <2>1, <2>2 DEF OneContract, FullTable
  <2>4. RolesSeated'
    BY <1>5, <1>10 DEF RolesSeated
  <2>5. AuctionOrder' /\ StageAgrees' /\ ClaimsCleared' /\ TableFull' /\ Distinct'
    BY <1>5, <1>15 DEF AuctionOrder, StageAgrees, ClaimsCleared, TableFull, InPlay,
       FullTable
  <2> QED  BY <1>14, <2>3, <2>4, <2>5 DEF AuctionInv
<1>16. CASE asked' = "bid"
  <2>1. it'.CURRENT # it'.HIGHEST
    BY <1>13, <1>16
  <2>2. n # c
    <3>1. CASE b = PASS  BY <3>1, <1>2, <1>7, <1>8
    <3>2. CASE b # PASS  BY <3>2, <2>1, <1>9
    <3> QED  BY <3>1, <3>2
  <2>3. claim'[n] # PASS
    BY <2>2, <1>8
  <2>4. n = NextOf(it'.HIGHEST) \/ claim'[NextOf(it'.HIGHEST)] = PASS
    <3>1. CASE b # PASS  BY <3>1, <2>2, <1>8, <1>9
    <3>2. CASE b = PASS
      <4>1. it'.HIGHEST = h /\ n # h /\ claim'[h] # PASS /\ claim'[c] = PASS
        BY <3>2, <2>1, <1>2, <1>7, <1>9
      <4>2. h = NextOf(NextOf(c))
        BY <4>1, <2>2, <1>2, <1>8, <1>12
      <4>3. NextOf(h) = c
        BY <4>2, <1>12
      <4> QED  BY <4>1, <4>3
    <3> QED  BY <3>1, <3>2
  <2>5. AuctionOrder'
    BY <1>5, <1>9, <1>10, <1>11, <2>1, <2>3, <2>4 DEF AuctionOrder, FullTable
  <2>6. RolesSeated'
    BY <1>5, <1>10 DEF RolesSeated
  <2>7. OneContract' /\ StageAgrees' /\ ClaimsCleared' /\ TableFull' /\ Distinct'
    BY <1>5, <1>16 DEF OneContract, StageAgrees, ClaimsCleared, TableFull, InPlay,
       InHand, FullTable
  <2> QED  BY <1>14, <2>5, <2>6, <2>7 DEF AuctionInv
<1> QED  BY <1>13, <1>15, <1>16

(***************************************************************************)
(* The final bid and the gifts leave the contract with the same player.    *)
(***************************************************************************)
LEMMA FinalBidInv ==
  ASSUME AuctionInv, NEW b \in Bids \cup {PASS}, asked = "final", PlaceBid(b)
  PROVE  AuctionInv'
<1> USE BidsAssumption
<1> DEFINE h == it.HIGHEST
<1>1. FullTable /\ TypeOK
  BY FullWhenAsked DEF AuctionInv
<1>2. /\ h \in Seated /\ it.CURRENT = h /\ \A c \in Seated \ {h} : claim[c] = PASS
      /\ it \in [CURRENT : Seated, COMPULSORY : Seated, HIGHEST : Seated]
  BY DEF AuctionInv, OneContract, RolesSeated, InRound, InHand
<1>3. /\ UNCHANGED <<players, ready, temp, score, hand, used, stock, it, gifts>>
      /\ UNCHANGED <<vec, turn, superSuit, undefined>>
      /\ claim' = [claim EXCEPT ![h] = b] /\ b \in Bids
      /\ stage' = "PLAYING" /\ asked' = "lead"
  BY <1>2 DEF PlaceBid, HandleBid, FinalBid, RegularBid, FinalOffers, gameVars
<1>4. claim \in [Clients -> Int] /\ Seated \subseteq Clients
  BY <1>1, Seats DEF TypeOK
<1>5. /\ claim' \in [Clients -> Int] /\ claim'[h] >= 100
      /\ \A c \in Seated \ {h} : claim'[c] = PASS
  BY <1>2, <1>3, <1>4
<1>6. Seated' = Seated /\ FullTable'
  BY <1>1, <1>3, Unmoved
<1>7. TypeOK'
  BY <1>1, <1>3, <1>5 DEF TypeOK, Stages, Questions
<1>8. OneContract'
  BY <1>2, <1>3, <1>5, <1>6 DEF OneContract, FullTable
<1>9. RolesSeated'
  BY <1>2, <1>3, <1>6 DEF RolesSeated
<1>10. AuctionOrder' /\ StageAgrees' /\ ClaimsCleared' /\ TableFull' /\ Distinct'
  BY <1>3, <1>6 DEF AuctionOrder, StageAgrees, ClaimsCleared, TableFull, InPlay,
     FullTable
<1> QED  BY <1>7, <1>8, <1>9, <1>10 DEF AuctionInv

LEMMA GiveInv ==
  ASSUME AuctionInv, NEW x \in Deck, NEW y \in Deck, Give(x, y)
  PROVE  AuctionInv'
<1> DEFINE h == it.HIGHEST
           p == NextOf(h)
           q == NextOf(p)
<1>1. FullTable /\ TypeOK
  BY FullWhenAsked DEF AuctionInv, Give
<1>2. /\ asked = "give" /\ asked' = "final" /\ stage' = "DEALING" /\ gifts' = 2
      /\ UNCHANGED <<players, ready, claim, temp, score, stock, it>>
      /\ UNCHANGED <<vec, turn, superSuit, undefined>>
      /\ hand' = [c \in Clients |-> hand[c] \cup (IF c = p THEN {x} ELSE {})
                                            \cup (IF c = q THEN {y} ELSE {})]
      /\ used' = [used EXCEPT ![h] = @ \cup {x, y}]
  BY DEF Give, HandleDeal, gameVars
<1>3. Seated' = Seated /\ FullTable'
  BY <1>1, <1>2, Unmoved
<1>4. hand' \in [Clients -> SUBSET Deck] /\ used' \in [Clients -> SUBSET Deck]
  <2>1. hand \in [Clients -> SUBSET Deck] /\ used \in [Clients -> SUBSET Deck]
    BY <1>1 DEF TypeOK
  <2> HIDE DEF p, q
  <2>2. hand' \in [Clients -> SUBSET Deck]
    BY <1>2, <2>1
  <2>3. used' \in [Clients -> SUBSET Deck]
    BY <1>2, <2>1
  <2> QED  BY <2>2, <2>3
<1>5. TypeOK'
  BY <1>1, <1>2, <1>4 DEF TypeOK, Stages, Questions
<1>6. OneContract' /\ RolesSeated'
  BY <1>2, <1>3 DEF AuctionInv, OneContract, RolesSeated, InHand, InRound, FullTable
<1>7. AuctionOrder' /\ StageAgrees' /\ ClaimsCleared' /\ TableFull' /\ Distinct'
  BY <1>2, <1>3 DEF AuctionOrder, StageAgrees, ClaimsCleared, TableFull, InPlay,
     FullTable
<1> QED  BY <1>5, <1>6, <1>7 DEF AuctionInv

(***************************************************************************)
(* A sequence without its i-th element.                                    *)
(***************************************************************************)
LEMMA OneRemoved ==
  ASSUME NEW S, NEW q \in Seq(S), NEW i \in 1 .. Len(q)
  PROVE  /\ RemoveAt(q, i) \in Seq(S) /\ Len(RemoveAt(q, i)) = Len(q) - 1
         /\ \A j \in 1 .. Len(RemoveAt(q, i)) :
              RemoveAt(q, i)[j] = IF j < i THEN q[j] ELSE q[j + 1]
<1> DEFINE s == SubSeq(q, 1, i - 1)
           t == SubSeq(q, i + 1, Len(q))
           r == RemoveAt(q, i)
<1>1. Len(q) \in Nat
  BY LenProperties
<1>2. /\ s \in Seq(S) /\ Len(s) = i - 1
      /\ \A j \in 1 .. i - 1 : s[j] = q[j]
  <2>1. \A j \in 1 .. i - 1 : q[j] \in S
    BY <1>1, ElementOfSeq
  <2> QED  BY <1>1, <2>1, SubSeqProperties
<1>3. /\ t \in Seq(S) /\ Len(t) = Len(q) - i
      /\ \A j \in 1 .. Len(q) - i : t[j] = q[i + j]
  <2>1. \A j \in i + 1 .. Len(q) : q[j] \in S
    BY <1>1, ElementOfSeq
  <2> QED  BY <1>1, <2>1, SubSeqProperties
<1>4. r = s \o t
  BY DEF RemoveAt
<1> HIDE DEF s, t, r
<1>5. /\ r \in Seq(S) /\ Len(r) = Len(s) + Len(t)
      /\ \A j \in 1 .. Len(s) + Len(t) :
           r[j] = IF j =< Len(s) THEN s[j] ELSE t[j - Len(s)]
  BY <1>2, <1>3, <1>4, ConcatProperties
<1>6. Len(r) = Len(q) - 1
  BY <1>1, <1>2, <1>3, <1>5
<1>7. ASSUME NEW j \in 1 .. Len(r)
      PROVE  r[j] = IF j < i THEN q[j] ELSE q[j + 1]
  <2>1. CASE j < i
    BY <1>1, <1>2, <1>3, <1>5, <2>1
  <2>2. CASE ~ j < i
    <3>1. r[j] = t[j - (i - 1)]
      BY <1>1, <1>2, <1>3, <1>5, <2>2
    <3>2. j - (i - 1) \in 1 .. Len(q) - i /\ i + (j - (i - 1)) = j + 1
      BY <1>1, <1>6, <2>2
    <3>3. t[j - (i - 1)] = q[i + (j - (i - 1))]
      BY <1>3, <3>2
    <3> QED  BY <2>2, <3>1, <3>2, <3>3
  <2> QED  BY <2>1, <2>2
<1> QED  BY <1>5, <1>6, <1>7 DEF r

(***************************************************************************)
(* A player who leaves takes his seat with him and nothing else is kept.   *)
(***************************************************************************)
LEMMA LeaveInv ==
  ASSUME AuctionInv, NEW c \in Clients, Leave(c)
  PROVE  AuctionInv'
<1> DEFINE i == SeatOf(c)
<1>1. TypeOK /\ Distinct
  BY DEF AuctionInv
<1>2. /\ asked' = "seating" /\ stage' = "ADDING"
      /\ players' = RemoveAt(players, i) /\ c \in Seated
      /\ ready' = {} /\ claim' = Zero /\ temp' = Zero /\ score' = Zero
      /\ hand' = NoCards /\ used' = NoCards /\ stock' = {} /\ it' = NoIt
      /\ gifts' \in {0, gifts} /\ turn' \in {0, turn}
      /\ superSuit' \in {NONE, superSuit}
      /\ UNCHANGED <<vec, undefined>>
  BY DEF Leave, HandleLeave, ResetIfGameHadStarted, ResetPlayers
<1>3. i \in DOMAIN players
  BY <1>2 DEF Seated, SeatOf
<1> HIDE DEF i
<1>4. players \in Seq(Clients) /\ Len(players) \in Nat /\ Len(players) =< 3
      /\ i \in 1 .. Len(players)
  <2>1. players \in Seq(Clients) /\ Len(players) =< 3
    BY <1>1 DEF TypeOK
  <2>2. Len(players) \in Nat /\ DOMAIN players = 1 .. Len(players)
    BY <2>1
  <2> QED  BY <1>3, <2>1, <2>2
<1>5. /\ players' \in Seq(Clients) /\ Len(players') = Len(players) - 1
      /\ \A j \in 1 .. Len(players') :
           players'[j] = IF j < i THEN players[j] ELSE players[j + 1]
  BY <1>2, <1>4, OneRemoved
<1>6. Distinct'
  <2> SUFFICES ASSUME NEW j \in DOMAIN players', NEW k \in DOMAIN players',
                      players'[j] = players'[k]
               PROVE  j = k
    BY DEF Distinct
  <2>1. j \in 1 .. Len(players') /\ k \in 1 .. Len(players')
    BY <1>5
  <2>2. \A m, n \in 1 .. Len(players) : players[m] = players[n] => m = n
    BY <1>1, <1>4 DEF Distinct
  <2> QED  BY <1>4, <1>5, <2>1, <2>2
<1>7. TypeOK'
  <2>1. Zero \in [Clients -> Int] /\ NoCards \in [Clients -> SUBSET Deck]
    BY DEF Zero, NoCards
  <2>2. NoIt \in [CURRENT : Clients \cup {None}, COMPULSORY : Clients \cup {None},
                 HIGHEST : Clients \cup {None}]
    BY DEF NoIt
  <2>3. gifts' \in {0, 2} /\ turn' \in Nat /\ superSuit' \in Suits \cup {NONE}
    BY <1>1, <1>2 DEF TypeOK
  <2>4. Len(players') =< 3
    BY <1>4, <1>5
  <2> QED  BY <1>1, <1>2, <1>5, <2>1, <2>2, <2>3, <2>4 DEF TypeOK, Stages, Questions
<1> QED  BY <1>2, <1>6, <1>7, IdleInv

(***************************************************************************)
(* A card in the middle of a round changes no claim and no holder.         *)
(***************************************************************************)
LEMMA MidRoundInv ==
  ASSUME FullTable, AuctionInv, TypeOK', asked \in InPlay, asked' \in InPlay,
         UNCHANGED <<players, claim>>, stage' = "PLAYING",
         NEW n \in Seated, it' = [it EXCEPT !.CURRENT = n]
  PROVE  AuctionInv'
<1>1. Seated' = Seated /\ FullTable'
  BY Unmoved
<1>2. /\ it \in [CURRENT : Seated, COMPULSORY : Seated, HIGHEST : Seated]
      /\ claim[it.HIGHEST] >= 100
      /\ \A d \in Seated \ {it.HIGHEST} : claim[d] = PASS
  BY DEF AuctionInv, OneContract, RolesSeated, InRound, InHand, InPlay
<1>3. /\ it' \in [CURRENT : Seated, COMPULSORY : Seated, HIGHEST : Seated]
      /\ it'.HIGHEST = it.HIGHEST
  BY <1>2
<1>4. asked' \notin {"give", "final", "bid", "seating", "ready"}
  BY DEF InPlay
<1>5. RolesSeated'
  BY <1>1, <1>3 DEF RolesSeated
<1>6. OneContract'
  BY <1>1, <1>2, <1>3, <1>4 DEF OneContract, FullTable
<1>7. AuctionOrder' /\ StageAgrees' /\ ClaimsCleared' /\ TableFull' /\ Distinct'
  BY <1>1, <1>4 DEF AuctionOrder, StageAgrees, ClaimsCleared, TableFull, FullTable
<1> QED  BY <1>5, <1>6, <1>7 DEF AuctionInv

LEMMA CardNumbers ==
  ASSUME NEW k \in Deck
  PROVE  k.suit \in Suits /\ k.suit \in Nat /\ k.figure \in Nat
  BY DeckAssumption DEF Card, Suits, Figures, SPADES, CLUBS, DIAMONDS, HEARTS,
     NINE, JACK, QUEEN, KING, TEN, ACE

LEMMA PlayCardInv ==
  ASSUME AuctionInv, NEW card \in Deck, PlayCard(card)
  PROVE  AuctionInv'
<1> DEFINE c == it.CURRENT
           table  == Append(vec, [player |-> c, card |-> card])
           trump  == IF Announces(c, card) THEN card.suit ELSE superSuit
           scored == [temp EXCEPT ![c] = @ + (IF Announces(c, card) THEN card.suit ELSE 0)]
           taken(w) == [scored EXCEPT ![w] = @ + Points(table)]
<1>1. asked \in InPlay /\ asked # "seating"
  BY DEF PlayCard, InPlay
<1>2. FullTable /\ TypeOK
  BY <1>1, FullWhenAsked DEF AuctionInv
<1>3. it \in [CURRENT : Seated, COMPULSORY : Seated, HIGHEST : Seated]
  BY <1>1 DEF AuctionInv, RolesSeated, InRound, InHand, InPlay
<1>4. Seated \subseteq Clients /\ c \in Clients
  BY <1>2, <1>3, Seats
<1>5. stage \in {"PLAYING", "FAIL"}
  BY <1>1 DEF AuctionInv, StageAgrees
<1>6. /\ UNCHANGED <<players, undefined>>
      /\ asked' = CASE stage' = "BIDDING" -> "bid"
                    [] stage' = "ADDING"  -> "none"
                    [] OTHER -> IF vec' = << >> THEN "lead"
                                ELSE IF Len(vec') = 3 THEN "none" ELSE "follow"
  BY DEF PlayCard, HandlePlay
<1>7. /\ players' \in Seq(Clients) /\ Len(players') = 3
      /\ Distinct'
  BY <1>2, <1>6 DEF FullTable, Distinct
<1>8. /\ table \in Seq([player : Clients, card : Deck])
      /\ table # << >>
  <2>1. vec \in Seq([player : Clients, card : Deck])
    BY <1>2 DEF TypeOK
  <2>2. [player |-> c, card |-> card] \in [player : Clients, card : Deck]
    BY <1>4
  <2> HIDE DEF c
  <2>3. Append(vec, [player |-> c, card |-> card]) # << >>
    BY <2>1, <2>2, AppendProperties
  <2> QED  BY <2>1, <2>2, <2>3, AppendProperties
<1>9. card.suit \in Suits /\ card.suit \in Nat /\ card.figure \in Nat
  BY CardNumbers
<1>10. trump \in Suits \cup {NONE}
  BY <1>2, <1>9 DEF TypeOK
<1>11. scored \in [Clients -> Int]
  <2>1. temp \in [Clients -> Int]
    BY <1>2 DEF TypeOK
  <2> HIDE DEF c
  <2>2. (IF Announces(c, card) THEN card.suit ELSE 0) \in Int
    BY <1>9
  <2> QED  BY <1>4, <2>1, <2>2
<1>12. ASSUME NEW w \in Seated, Len(table) = 3 PROVE taken(w) \in [Clients -> Int]
  <2> HIDE DEF scored, table
  <2>1. \A i \in 1 .. 3 : table[i] \in [player : Clients, card : Deck]
    BY <1>8, <1>12, ElementOfSeq
  <2>2. \A i \in 1 .. 3 : table[i].card.figure \in Nat
    BY <2>1, CardNumbers
  <2>3. Points(table) \in Nat
    BY <2>2 DEF Points
  <2> QED  BY <1>4, <1>11, <2>3
<1>13. [used EXCEPT ![c] = @ \cup {card}] \in [Clients -> SUBSET Deck]
  BY <1>2 DEF TypeOK
<1> HIDE DEF table, trump, scored, taken
<1>14. ASSUME PlayOn(c, card, table), superSuit' = trump, temp' = scored
       PROVE  AuctionInv'
  <2>1. /\ vec' = table /\ stage' = "PLAYING" /\ Len(table) # 3
        /\ it' = [it EXCEPT !.CURRENT = NextOf(c)]
        /\ used' = [used EXCEPT ![c] = @ \cup {card}]
        /\ UNCHANGED <<ready, claim, score, hand, stock, gifts, turn>>
    BY <1>14 DEF PlayOn
  <2>2. asked' = "follow" /\ NextOf(c) \in Seated
    BY <1>2, <1>3, <1>6, <1>8, <2>1, Neighbours
  <2>3. it' \in [CURRENT : Clients \cup {None}, COMPULSORY : Clients \cup {None},
                HIGHEST : Clients \cup {None}]
    BY <1>3, <1>4, <2>1, <2>2
  <2>4. TypeOK'
    BY <1>2, <1>6, <1>7, <1>8, <1>10, <1>11, <1>13, <1>14, <2>1, <2>2, <2>3
       DEF TypeOK, Stages, Questions
  <2> QED  BY <1>1, <1>2, <1>6, <2>1, <2>2, <2>4, MidRoundInv DEF InPlay
<1>15. ASSUME PlayFails(c, card, table), superSuit' = trump, temp' = scored,
              Len(table) = 3
       PROVE  AuctionInv'
  <2>1. /\ vec' = table
        /\ it' = [it EXCEPT !.CURRENT = NextOf(c)]
        /\ used' = [used EXCEPT ![c] = @ \cup {card}]
        /\ UNCHANGED <<stage, ready, claim, score, hand, stock, gifts, turn>>
    BY <1>15 DEF PlayFails
  <2>2. asked' = "none" /\ NextOf(c) \in Seated
    BY <1>2, <1>3, <1>5, <1>6, <1>8, <1>15, <2>1, Neighbours
  <2>3. it' \in [CURRENT : Clients \cup {None}, COMPULSORY : Clients \cup {None},
                HIGHEST : Clients \cup {None}]
    BY <1>3, <1>4, <2>1, <2>2
  <2>4. TypeOK'
    BY <1>2, <1>6, <1>7, <1>8, <1>10, <1>11, <1>13, <1>15, <2>1, <2>2, <2>3
       DEF TypeOK, Stages, Questions
  <2> QED  BY <1>7, <2>2, <2>4, IdleInv
<1>16. ASSUME NEW w \in Seated, Len(table) = 3, TakeTrick(c, card, w),
              superSuit' = trump, temp' = taken(w)
       PROVE  AuctionInv'
  <2>1. /\ vec' = << >> /\ stage' = "PLAYING" /\ turn' = turn + 1
        /\ it' = [it EXCEPT !.CURRENT = w]
        /\ used' = [used EXCEPT ![c] = @ \cup {card}]
        /\ UNCHANGED <<ready, claim, score, hand, stock, gifts>>
    BY <1>16 DEF TakeTrick
  <2>2. asked' = "lead"
    BY <1>6, <2>1
  <2>3. it' \in [CURRENT : Clients \cup {None}, COMPULSORY : Clients \cup {None},
                HIGHEST : Clients \cup {None}]
    BY <1>3, <1>4, <2>1, <1>16
  <2>4. temp' \in [Clients -> Int]
    BY <1>12, <1>16
  <2>5. turn' \in Nat /\ superSuit' \in Suits \cup {NONE}
        /\ vec' \in Seq([player : Clients, card : Deck])
        /\ used' \in [Clients -> SUBSET Deck]
    BY <1>2, <1>10, <1>13, <1>16, <2>1 DEF TypeOK
  <2>6. TypeOK'
    BY <1>2, <1>6, <1>7, <2>1, <2>2, <2>3, <2>4, <2>5 DEF TypeOK, Stages, Questions
  <2> QED  BY <1>1, <1>2, <1>6, <1>16, <2>1, <2>2, <2>6, MidRoundInv DEF InPlay
<1>17. ASSUME NEW t, EndOfRound(t)
       PROVE  AuctionInv'
  <2> DEFINE i == ((it.COMPULSORY + 1) % 3) + 1
  <2>1. /\ temp' = Zero /\ score' = Zero /\ ready' = {}
        /\ turn' = 0 /\ superSuit' = NONE /\ vec' = << >>
        /\ \/ /\ stage' = "ADDING" /\ it' = NoIt /\ claim' = Zero
              /\ hand' = NoCards /\ used' = NoCards /\ stock' = stock /\ gifts' = 0
           \/ /\ stage' = "BIDDING" /\ PrepareGame(i, Zero) /\ DealCards
              /\ gifts' = gifts
    BY <1>17 DEF EndOfRound, NextRound, GameOver
  <2>2. Zero \in [Clients -> Int] /\ NoCards \in [Clients -> SUBSET Deck]
    BY DEF Zero, NoCards
  <2>3. << >> \in Seq([player : Clients, card : Deck])
    OBVIOUS
  <2>4. CASE stage' = "ADDING"
    <3>1. /\ it' = NoIt /\ claim' = Zero /\ hand' = NoCards /\ used' = NoCards
          /\ stock' = stock /\ gifts' = 0
      BY <2>1, <2>4
    <3>2. asked' = "none"
      BY <1>6, <2>4
    <3>3. NoIt \in [CURRENT : Clients \cup {None}, COMPULSORY : Clients \cup {None},
                   HIGHEST : Clients \cup {None}]
      BY DEF NoIt
    <3>4. TypeOK'
      BY <1>2, <1>6, <1>7, <2>1, <2>2, <2>3, <2>4, <3>1, <3>2, <3>3
         DEF TypeOK, Stages, Questions
    <3> QED  BY <1>7, <3>2, <3>4, IdleInv
  <2>5. CASE stage' # "ADDING"
    <3>1. stage' = "BIDDING" /\ PrepareGame(i, Zero) /\ DealCards /\ gifts' = gifts
      BY <2>1, <2>5
    <3>2. asked' = "bid"
      BY <1>6, <3>1
    <3>3. i \in 1 .. 3
      <4>1. it.COMPULSORY \in Nat
        BY <1>3, <1>4, ClientsAssumption
      <4> QED  BY <4>1
    <3>4. /\ hand' \in [Clients -> SUBSET Deck] /\ used' \in [Clients -> SUBSET Deck]
          /\ stock' \subseteq Deck
      BY <1>2, <3>1, DealtCards
    <3> HIDE DEF i
    <3>5. /\ it' \in [CURRENT : Seated, COMPULSORY : Seated, HIGHEST : Seated]
          /\ claim' \in [Clients -> Int]
      BY <1>2, <3>1, <3>3, PreparedGame
    <3>6. it' \in [CURRENT : Clients \cup {None}, COMPULSORY : Clients \cup {None},
                  HIGHEST : Clients \cup {None}]
      BY <1>4, <3>5
    <3>7. TypeOK'
      BY <1>2, <1>6, <1>7, <2>1, <2>2, <2>3, <3>1, <3>2, <3>4, <3>5, <3>6
         DEF TypeOK, Stages, Questions
    <3> QED  BY <1>2, <1>6, <3>1, <3>2, <3>3, <3>7, RoundStartInv
  <2> QED  BY <2>4, <2>5
<1>18. \/ superSuit' = trump /\ temp' = scored /\ PlayOn(c, card, table)
       \/ Len(table) = 3 /\ superSuit' = trump /\ temp' = scored /\ PlayFails(c, card, table)
       \/ /\ Len(table) = 3
          /\ \E w \in Seated :
               \/ superSuit' = trump /\ temp' = taken(w) /\ TakeTrick(c, card, w)
               \/ EndOfRound(taken(w))
  BY DEF PlayCard, HandlePlay, table, trump, scored, taken
<1> QED  BY <1>14, <1>15, <1>16, <1>17, <1>18

-----------------------------------------------------------------------------
(***************************************************************************)
(* The theorems.                                                           *)
(***************************************************************************)
LEMMA Inductive == AuctionInv /\ [Next]_vars => AuctionInv'
<1> SUFFICES ASSUME AuctionInv, [Next]_vars PROVE AuctionInv'
  OBVIOUS
<1>1. CASE UNCHANGED vars
  BY <1>1, StutterInv
<1>2. ASSUME NEW c \in Clients, PressReady(c) PROVE AuctionInv'
  BY <1>2, PressReadyInv
<1>3. ASSUME NEW b \in Bids \cup {PASS}, PlaceBid(b) PROVE AuctionInv'
  <2>1. asked \in {"bid", "final"}
    BY <1>3 DEF PlaceBid
  <2> QED  BY <1>3, <2>1, RegularBidInv, FinalBidInv
<1>4. ASSUME NEW x \in Deck, NEW y \in Deck, Give(x, y) PROVE AuctionInv'
  BY <1>4, GiveInv
<1>5. ASSUME NEW card \in Deck, PlayCard(card) PROVE AuctionInv'
  BY <1>5, PlayCardInv
<1>6. ASSUME NEW c \in Clients, Join(c) \/ JoinFull(c) \/ Leave(c) PROVE AuctionInv'
  BY <1>6, JoinInv, JoinFullInv, LeaveInv
<1> QED  BY <1>1, <1>2, <1>3, <1>4, <1>5, <1>6 DEF Next, Answer

(***************************************************************************)
(* AuctionInv is an invariant of every table.                              *)
(***************************************************************************)
THEOREM Invariance == Spec => []AuctionInv
<1>1. Init => AuctionInv
  BY InitInv
<1>2. AuctionInv /\ [Next]_vars => AuctionInv'
  BY Inductive
<1> QED  BY <1>1, <1>2, PTL DEF Spec

(***************************************************************************)
(* The state of a room and its question always have their types.           *)
(***************************************************************************)
THEOREM Typing == Spec => []TypeOK
<1>1. AuctionInv => TypeOK
  BY DEF AuctionInv
<1> QED  BY <1>1, Invariance, PTL

(***************************************************************************)
(* The bidder asked never holds the highest bid, and everyone between its  *)
(* holder and him has passed.                                              *)
(***************************************************************************)
THEOREM BidderIsNext == Spec => []AuctionOrder
<1>1. AuctionInv => AuctionOrder
  BY DEF AuctionInv
<1> QED  BY <1>1, Invariance, PTL

(***************************************************************************)
(* From the stock to the last card there is one contract, the holder's.    *)
(***************************************************************************)
THEOREM ContractIsOne == Spec => []OneContract
<1>1. AuctionInv => OneContract
  BY DEF AuctionInv
<1> QED  BY <1>1, Invariance, PTL

(***************************************************************************)
(* A score message is sent at the end of a round and at no other moment;   *)
(* when bids are asked for after it the next round has been dealt.         *)
(***************************************************************************)
LEMMA ReportSent ==
  ASSUME AuctionInv, Next, report'.sent, asked' = "bid"
  PROVE  /\ asked \in InPlay /\ players' = players
         /\ PrepareGame(((it.COMPULSORY + 1) % 3) + 1, Zero)
<1>1. report' # NoReport
  BY DEF NoReport
<1>2. PICK card \in Deck : PlayCard(card)
  BY <1>1 DEF Next, Answer, PressReady, HandleReady, PlaceBid, HandleBid, Give, HandleDeal,
     Join, JoinFull, HandleAdd, Leave, HandleLeave
<1>3. asked \in InPlay /\ players' = players
  BY <1>2 DEF PlayCard, HandlePlay, InPlay
<1>4. PICK t : EndOfRound(t)
  BY <1>1, <1>2 DEF PlayCard, HandlePlay, PlayOn, PlayFails, TakeTrick
<1>5. stage' = "BIDDING"
  <2>1. CASE stage' = "ADDING"
    BY <1>2, <2>1 DEF PlayCard
  <2>2. CASE stage' # "ADDING"
    BY <1>4, <2>2 DEF EndOfRound, NextRound, GameOver
  <2> QED  BY <2>1, <2>2
<1>6. NextRound
  BY <1>4, <1>5 DEF EndOfRound, GameOver
<1> QED  BY <1>3, <1>6 DEF NextRound

(***************************************************************************)
(* The seat after seat k, as the ids give it to the next round.            *)
(***************************************************************************)
LEMMA SeatAfter ==
  ASSUME NEW k \in 1 .. 3, NEW id \in Nat, id % 3 = k - 1
  PROVE  ((id + 1) % 3) + 1 = (k % 3) + 1
  OBVIOUS

(***************************************************************************)
(* With ids that are those of the seats modulo three the compulsory bid    *)
(* goes round the table, although the next round takes the last player's   *)
(* id, and not his seat, for an index.                                     *)
(***************************************************************************)
THEOREM CompulsoryGoesRound == Spec => CompulsoryRotates
<1>1. ASSUME AuctionInv, Next, report'.sent, asked' = "bid",
             \A i \in DOMAIN players : players[i] % 3 = i - 1
      PROVE  it'.COMPULSORY = NextOf(it.COMPULSORY)
  <2> DEFINE last == it.COMPULSORY
             k == SeatOf(last)
  <2>1. /\ asked \in InPlay /\ players' = players
        /\ it'.COMPULSORY = players[((last + 1) % 3) + 1]
    BY <1>1, ReportSent DEF PrepareGame
  <2>2. FullTable /\ last \in Seated
    BY <1>1, <2>1, FullWhenAsked DEF AuctionInv, RolesSeated, InRound, InHand, InPlay
  <2>3. k \in 1 .. 3 /\ players[k] = last /\ last \in Nat /\ DOMAIN players = 1 .. 3
    BY <2>2, Seats, ClientsAssumption
  <2>4. last % 3 = k - 1
    BY <1>1, <2>3
  <2> HIDE DEF k, last
  <2>5. ((last + 1) % 3) + 1 = (k % 3) + 1
    BY <2>3, <2>4, SeatAfter
  <2>6. NextOf(last) = players[(k % 3) + 1]
    BY DEF NextOf, k
  <2> QED  BY <2>1, <2>5, <2>6 DEF last
<1>2. AuctionInv /\ [Next]_vars
        => [report'.sent /\ asked' = "bid"
            /\ (\A i \in DOMAIN players : players[i] % 3 = i - 1)
              => it'.COMPULSORY = NextOf(it.COMPULSORY)]_vars
  BY <1>1
<1> QED  BY <1>2, Invariance, PTL DEF Spec, CompulsoryRotates

(***************************************************************************)
(* The card the code picks from a full table, two equal ones included, is  *)
(* the one that takes the trick by the rule of the game.                   *)
(***************************************************************************)
LEMMA PickedCardWins ==
  ASSUME NEW t \in [1 .. 3 -> Card], NEW trump \in Int,
         NEW i \in 1 .. 3, t[i] = FindSuperiorCard(t, trump)
  PROVE  IsTrickWinner(i, t, trump)
<1> DEFINE a == t[1]
           b == t[2]
           c == t[3]
<1>1. /\ a.figure \in Int /\ b.figure \in Int /\ c.figure \in Int
      /\ \A k \in 1 .. 3 : k = 1 \/ k = 2 \/ k = 3
  BY DEF Card, Figures, NINE, JACK, QUEEN, KING, TEN, ACE
<1>2. DOMAIN t = 1 .. 3
  OBVIOUS
<1>3. t[i] = IsBigger(IsBigger(a, b, trump), IsBigger(a, c, trump), trump)
  BY DEF FindSuperiorCard
<1>4. ASSUME NEW led, \A k \in 1 .. 3 : t[k].suit = trump => led = trump,
             (\E k \in 1 .. 3 : t[k].suit = trump) \/ led = a.suit
      PROVE  /\ t[i].suit = led
             /\ \A k \in 1 .. 3 : t[k].suit = led => t[k].figure =< t[i].figure
  <2>1. /\ a.suit = trump => led = trump
        /\ b.suit = trump => led = trump
        /\ c.suit = trump => led = trump
        /\ a.suit = trump \/ b.suit = trump \/ c.suit = trump \/ led = a.suit
    BY <1>1, <1>4
  <2>2. /\ t[i].suit = led
        /\ a.suit = led => a.figure =< t[i].figure
        /\ b.suit = led => b.figure =< t[i].figure
        /\ c.suit = led => c.figure =< t[i].figure
    <3> HIDE DEF a, b, c
    <3> QED  BY <1>1, <1>3, <2>1 DEF IsBigger
  <2> QED  BY <1>1, <2>2
<1>5. CASE \E k \in 1 .. 3 : t[k].suit = trump
  <2>1. /\ t[i].suit = trump
        /\ \A k \in 1 .. 3 : t[k].suit = trump => t[k].figure =< t[i].figure
    BY <1>4, <1>5
  <2> QED  BY <1>2, <1>5, <2>1 DEF IsTrickWinner
<1>6. CASE ~ \E k \in 1 .. 3 : t[k].suit = trump
  <2>1. /\ t[i].suit = a.suit
        /\ \A k \in 1 .. 3 : t[k].suit = a.suit => t[k].figure =< t[i].figure
    BY <1>4, <1>6
  <2> QED  BY <1>2, <1>6, <2>1 DEF IsTrickWinner
<1> QED  BY <1>5, <1>6

(***************************************************************************)
(* Whoever has taken a trick has taken it with the best card, and he leads *)
(* the next one: at every table, also one with cards left on it by players *)
(* who went away in the middle of a trick.                                 *)
(***************************************************************************)
THEOREM BestCardTakes == Spec => TrickToBestCard
<1> DEFINE mine == CHOOSE card \in used'[it.CURRENT] : card \notin used[it.CURRENT]
           laid(k) == Append(vec, [player |-> it.CURRENT, card |-> k])
           cards(k) == [j \in DOMAIN laid(k) |-> laid(k)[j].card]
<1>1. ASSUME AuctionInv, Next, asked = "follow", asked' = "lead"
      PROVE  \E i \in DOMAIN laid(mine) :
               /\ IsTrickWinner(i, cards(mine), superSuit)
               /\ it'.CURRENT = laid(mine)[i].player
  <2>1. FullTable /\ TypeOK
    BY <1>1, FullWhenAsked DEF AuctionInv
  <2>2. it.CURRENT \in Seated /\ it.CURRENT \in Clients
        /\ it \in [CURRENT : Seated, COMPULSORY : Seated, HIGHEST : Seated]
    BY <1>1, <2>1, Seats DEF AuctionInv, RolesSeated, InRound, InHand
  <2>3. PICK card \in Deck : PlayCard(card)
    BY <1>1 DEF Next, Answer, PressReady, PlaceBid, Give, Join, JoinFull, Leave
  <2> HIDE DEF mine
  <2>4. card \in Unused(it.CURRENT) /\ HandlePlay(it.CURRENT, card)
        /\ stage' # "BIDDING" /\ stage' # "ADDING" /\ vec' = << >>
    BY <1>1, <2>3 DEF PlayCard, HandlePlay
  <2>5. [player |-> it.CURRENT, card |-> card] \in [player : Clients, card : Deck]
    BY <2>2
  <2>6. /\ laid(card) \in Seq([player : Clients, card : Deck])
        /\ Len(laid(card)) = Len(vec) + 1 /\ Len(vec) \in Nat
        /\ laid(card) # << >>
    <3>1. vec \in Seq([player : Clients, card : Deck])
      BY <2>1 DEF TypeOK
    <3> QED  BY <2>5, <3>1, AppendProperties
  <2>7. PICK w \in Seated : /\ Len(laid(card)) = 3
                             /\ TakenBy(w, laid(card), IF Announces(it.CURRENT, card) THEN card.suit
                                                        ELSE superSuit)
                             /\ TakeTrick(it.CURRENT, card, w)
    <3>1. ~ PlayOn(it.CURRENT, card, laid(card)) /\ ~ PlayFails(it.CURRENT, card, laid(card))
      BY <2>4, <2>6 DEF PlayOn, PlayFails
    <3>2. \A t : ~ EndOfRound(t)
      BY <2>4 DEF EndOfRound, NextRound, GameOver
    <3> QED  BY <2>4, <3>1, <3>2 DEF HandlePlay
  <2>8. ~ Announces(it.CURRENT, card)
    BY <2>6, <2>7 DEF Announces
  <2>9. it'.CURRENT = w /\ used' = [used EXCEPT ![it.CURRENT] = @ \cup {card}]
    BY <2>2, <2>7 DEF TakeTrick
  <2>10. mine = card
    <3>1. used'[it.CURRENT] = used[it.CURRENT] \cup {card} /\ card \notin used[it.CURRENT]
      BY <2>1, <2>2, <2>4, <2>9 DEF TypeOK, Unused
    <3> QED  BY <3>1 DEF mine
  <2>11. PICK i \in DOMAIN laid(card) :
           laid(card)[i].player = w
           /\ laid(card)[i].card = FindSuperiorCard(cards(card), superSuit)
    BY <2>7, <2>8 DEF TakenBy
  <2>12. DOMAIN laid(card) = 1 .. 3
    BY <2>6, <2>7
  <2>13. superSuit \in Int
    BY <2>1 DEF TypeOK, Suits, NONE, SPADES, CLUBS, DIAMONDS, HEARTS
  <2> HIDE DEF laid
  <2>14. cards(card) \in [1 .. 3 -> Card] /\ cards(card)[i] = laid(card)[i].card
    <3>1. \A j \in 1 .. 3 : laid(card)[j] \in [player : Clients, card : Deck]
      BY <2>6, <2>7, ElementOfSeq
    <3> QED  BY <2>11, <2>12, <3>1, DeckAssumption
  <2>15. IsTrickWinner(i, cards(card), superSuit)
    <3> HIDE DEF cards
    <3> QED  BY <2>11, <2>12, <2>13, <2>14, PickedCardWins
  <2> QED  BY <2>9, <2>10, <2>11, <2>15
<1>2. AuctionInv /\ [Next]_vars
        => [asked = "follow" /\ asked' = "lead" =>
              LET last  == CHOOSE card \in used'[it.CURRENT] : card \notin used[it.CURRENT]
                  table == Append(vec, [player |-> it.CURRENT, card |-> last])
              IN  \E i \in DOMAIN table :
                    /\ IsTrickWinner(i, [k \in DOMAIN table |-> table[k].card], superSuit)
                    /\ it'.CURRENT = table[i].player]_vars
  BY <1>1
<1> QED  BY <1>2, Invariance, PTL DEF Spec, TrickToBestCard

-----------------------------------------------------------------------------
(***************************************************************************)
(* What the auction looks like from each question.                         *)
(***************************************************************************)
Quiet == {"seating", "ready", "none"}

LEMMA ClosedAuction ==
  ASSUME asked \in Quiet
  PROVE  /\ AuctionPhase = "closed" /\ AuctionActive = {}
         /\ AuctionHolder = None /\ AuctionPrice = 0
  BY DEF Quiet, AuctionPhase, AuctionActive, AuctionHolder, AuctionPrice, InRound,
     InHand, InPlay

LEMMA RunningAuction ==
  ASSUME asked \in InRound
  PROVE  /\ AuctionActive = {c \in Seated : claim[c] # PASS}
         /\ AuctionHolder = it.HIGHEST /\ AuctionPrice = claim[it.HIGHEST]
         /\ asked = "bid" => AuctionPhase = "open"
         /\ asked \in {"give", "final"} => AuctionPhase = "won"
         /\ asked \in InPlay => AuctionPhase = "contracted"
         /\ AuctionPhase # "closed"
  BY DEF AuctionPhase, AuctionActive, AuctionHolder, AuctionPrice, InRound, InHand,
     InPlay

(***************************************************************************)
(* Between two questions of the same phase nothing happens to the auction  *)
(* unless claims, seats or the holder change.                              *)
(***************************************************************************)
LEMMA SamePhase ==
  ASSUME asked \in InRound, asked' \in InRound,
         AuctionPhase' = AuctionPhase, UNCHANGED <<players, claim>>,
         it'.HIGHEST = it.HIGHEST
  PROVE  UNCHANGED Bidding!vars
<1>1. Seated' = Seated
  BY Unmoved
<1>2. /\ AuctionActive' = AuctionActive /\ AuctionHolder' = AuctionHolder
      /\ AuctionPrice' = AuctionPrice
  BY <1>1 DEF AuctionActive, AuctionHolder, AuctionPrice
<1> QED  BY <1>2 DEF Bidding!vars

LEMMA StaysClosed ==
  ASSUME asked \in Quiet, asked' \in Quiet
  PROVE  UNCHANGED Bidding!vars
<1>1. /\ AuctionPhase = "closed" /\ AuctionActive = {}
      /\ AuctionHolder = None /\ AuctionPrice = 0
  BY ClosedAuction
<1>2. /\ AuctionPhase' = "closed" /\ AuctionActive' = {}
      /\ AuctionHolder' = None /\ AuctionPrice' = 0
  BY DEF Quiet, AuctionPhase, AuctionActive, AuctionHolder, AuctionPrice, InRound,
     InHand, InPlay
<1> QED  BY <1>1, <1>2 DEF Bidding!vars

LEMMA Closes ==
  ASSUME asked \in Questions, asked' \in Quiet
  PROVE  [Bidding!Next]_Bidding!vars
<1>1. CASE asked \in Quiet
  BY <1>1, StaysClosed
<1>2. CASE asked \notin Quiet
  <2>1. AuctionPhase # "closed"
    BY <1>2, RunningAuction DEF Quiet, Questions, InRound, InHand
  <2>2. /\ AuctionPhase' = "closed" /\ AuctionActive' = {}
        /\ AuctionHolder' = None /\ AuctionPrice' = 0
    BY DEF Quiet, AuctionPhase, AuctionActive, AuctionHolder, AuctionPrice, InRound,
       InHand, InPlay
  <2> QED  BY <2>1, <2>2 DEF Bidding!Next, Bidding!Close
<1> QED  BY <1>1, <1>2

LEMMA ThreeSeated ==
  ASSUME FullTable
  PROVE  Cardinality(Seated) = 3
<1>1. Seated = {players[1], players[2], players[3]}
  BY Seats
<1>2. players[1] # players[2] /\ players[1] # players[3] /\ players[2] # players[3]
  BY Seats DEF FullTable, Distinct
<1>3. /\ IsFiniteSet({players[1]}) /\ Cardinality({players[1]}) = 1
  BY FS_Singleton
<1>4. /\ IsFiniteSet({players[1]} \cup {players[2]})
      /\ Cardinality({players[1]} \cup {players[2]}) = 2
  BY <1>2, <1>3, FS_AddElement
<1>5. Cardinality(({players[1]} \cup {players[2]}) \cup {players[3]}) = 3
  BY <1>2, <1>4, FS_AddElement
<1>6. ({players[1]} \cup {players[2]}) \cup {players[3]} = Seated
  BY <1>1
<1> QED  BY <1>5, <1>6

LEMMA Opens ==
  ASSUME FullTable, players' = players, asked \in {"ready", "lead", "follow"},
         asked' = "bid", NEW i \in 1 .. 3, PrepareGame(i, Zero)
  PROVE  Bidding!Next
<1>1. AuctionPhase \in {"closed", "contracted"}
  BY ClosedAuction, RunningAuction DEF Quiet, InRound, InHand, InPlay
<1>2. Seated' = Seated
  BY Unmoved
<1>3. /\ it'.HIGHEST \in Seated /\ claim'[it'.HIGHEST] = 100
      /\ \A c \in Seated : claim'[c] # PASS
  BY PreparedGame
<1>4. /\ AuctionPhase' = "open" /\ AuctionActive' = Seated
      /\ AuctionHolder' = it'.HIGHEST /\ AuctionPrice' = 100
  BY <1>2, <1>3 DEF AuctionPhase, AuctionActive, AuctionHolder, AuctionPrice, InRound,
     InHand, InPlay
<1>5. Seated \subseteq Clients /\ Cardinality(Seated) = 3
  BY Seats, ThreeSeated
<1>6. AuctionActive' \subseteq Clients /\ Cardinality(AuctionActive') = 3
  BY <1>4, <1>5
<1>7. AuctionHolder' \in AuctionActive'
  BY <1>3, <1>4
<1>8. Bidding!Open
  BY <1>1, <1>4, <1>6, <1>7 DEF Bidding!Open, Bidding!Cardinality, Cardinality
<1> QED  BY <1>8 DEF Bidding!Next

-----------------------------------------------------------------------------
(***************************************************************************)
(* The initial states and the steps, one lemma for each action.            *)
(***************************************************************************)
LEMMA InitOpens == Init => Bidding!Init
<1> SUFFICES ASSUME Init PROVE Bidding!Init
  OBVIOUS
<1>1. asked \in Quiet
  BY DEF Init, Quiet
<1> QED  BY <1>1, ClosedAuction DEF Bidding!Init

LEMMA JoinStep ==
  ASSUME AuctionInv, NEW c \in Clients, Join(c)
  PROVE  [Bidding!Next]_Bidding!vars
<1>1. Len(players) < 3 /\ asked' \in {"seating", "ready"}
  BY DEF Join
<1>2. Len(players) \in Nat
  BY DEF AuctionInv, TypeOK
<1>3. asked = "seating"
  BY <1>1, <1>2 DEF AuctionInv, TableFull
<1> QED  BY <1>1, <1>3, StaysClosed DEF Quiet

LEMMA JoinFullStep ==
  ASSUME AuctionInv, NEW c \in Clients, JoinFull(c)
  PROVE  [Bidding!Next]_Bidding!vars
<1>1. UNCHANGED <<players, claim, it, asked>> /\ asked \in Questions
  BY DEF JoinFull, HandleAdd, AuctionInv, TypeOK
<1>2. AuctionPhase' = AuctionPhase
  BY <1>1 DEF AuctionPhase
<1>3. CASE asked \in Quiet
  BY <1>1, <1>3, StaysClosed
<1>4. CASE asked \notin Quiet
  BY <1>1, <1>2, <1>4, SamePhase DEF Quiet, Questions, InRound, InHand
<1> QED  BY <1>3, <1>4

LEMMA PressReadyStep ==
  ASSUME AuctionInv, NEW c \in Clients, PressReady(c)
  PROVE  [Bidding!Next]_Bidding!vars
<1>1. /\ asked = "ready" /\ HandleReady(c) /\ players' = players
      /\ asked' = IF stage' = "BIDDING" THEN "bid" ELSE "ready"
  BY DEF PressReady, HandleReady
<1>2. FullTable /\ claim = Zero /\ stage \in {"ADDING", "FAIL"}
  BY <1>1, FullWhenAsked DEF AuctionInv, ClaimsCleared, StageAgrees
<1>3. CASE asked' = "ready"
  BY <1>1, <1>3, StaysClosed DEF Quiet
<1>4. CASE asked' = "bid"
  <2>1. PrepareGame(1, Zero)
    BY <1>1, <1>2, <1>4 DEF HandleReady
  <2> QED  BY <1>1, <1>2, <1>4, <2>1, Opens
<1> QED  BY <1>1, <1>3, <1>4

(***************************************************************************)
(* A bid in the auction raises the price by the minimum raise and makes    *)
(* its bidder the holder; a pass removes him, and it is the last one that  *)
(* ends the auction.                                                       *)
(***************************************************************************)
LEMMA RegularBidStep ==
  ASSUME AuctionInv, AuctionInv', NEW b \in Bids \cup {PASS}, asked = "bid", PlaceBid(b)
  PROVE  Bidding!Next
<1> USE BidsAssumption
<1> DEFINE c == it.CURRENT
           h == it.HIGHEST
<1>1. FullTable /\ TypeOK
  BY FullWhenAsked DEF AuctionInv
<1>2. /\ c \in Seated /\ h \in Seated /\ c # h /\ claim[c] # PASS /\ claim[h] >= 100
      /\ it \in [CURRENT : Seated, COMPULSORY : Seated, HIGHEST : Seated]
  BY DEF AuctionInv, AuctionOrder, RolesSeated, InRound
<1>3. /\ players' = players /\ RegularBid(c, b) /\ b \in BidOffers
      /\ asked' = CASE stage' = "BIDDING" -> "bid"
                    [] stage' = "DEALING" -> "give"
                    [] stage' = "PLAYING" -> "lead"
  BY <1>2 DEF PlaceBid, HandleBid, FinalBid
<1>4. /\ claim' = [claim EXCEPT ![c] = b]
      /\ it'.HIGHEST = IF b = PASS THEN h ELSE c
      /\ stage' = IF it'.CURRENT = it'.HIGHEST THEN "DEALING" ELSE "BIDDING"
  BY <1>2, <1>3 DEF RegularBid
<1>5. claim \in [Clients -> Int] /\ Seated \subseteq Clients /\ Seated' = Seated
  BY <1>1, <1>3, Seats, Unmoved DEF TypeOK
<1>6. \A d \in Seated : claim'[d] = IF d = c THEN b ELSE claim[d]
  BY <1>2, <1>4, <1>5
<1>7. asked' = IF it'.CURRENT = it'.HIGHEST THEN "give" ELSE "bid"
  BY <1>3, <1>4
<1>8. /\ AuctionPhase = "open" /\ AuctionHolder = h /\ AuctionPrice = claim[h]
      /\ AuctionActive = {d \in Seated : claim[d] # PASS}
  BY RunningAuction DEF InRound
<1>9. /\ AuctionActive' = {d \in Seated : claim'[d] # PASS}
      /\ AuctionHolder' = it'.HIGHEST /\ AuctionPrice' = claim'[it'.HIGHEST]
      /\ AuctionPhase' = IF it'.CURRENT = it'.HIGHEST THEN "won" ELSE "open"
  BY <1>5, <1>7 DEF AuctionPhase, AuctionActive, AuctionHolder, AuctionPrice, InRound,
     InHand, InPlay
<1>10. c \in AuctionActive /\ h \in AuctionActive /\ c # h
  BY <1>2, <1>8
<1>11. asked' = "give" => \A d \in Seated \ {it'.HIGHEST} : claim'[d] = PASS
  BY <1>5 DEF AuctionInv, OneContract, InHand
<1> HIDE DEF c, h
<1>12. CASE b # PASS
  <2>1. b \in Nat /\ b >= claim[h] + MIN_RAISE
    BY <1>3, <1>12 DEF BidOffers, h
  <2>2. AuctionHolder' = c /\ AuctionPrice' = b
    BY <1>2, <1>4, <1>6, <1>9, <1>12
  <2>3. AuctionActive' = AuctionActive
    BY <1>2, <1>6, <1>8, <1>9, <1>12
  <2>4. AuctionPhase' = "open"
    <3>1. claim'[h] # PASS /\ h \in Seated \ {it'.HIGHEST}
      BY <1>2, <1>4, <1>6, <1>12
    <3> QED  BY <1>7, <1>9, <1>11, <3>1
  <2> QED  BY <1>8, <1>10, <2>1, <2>2, <2>3, <2>4 DEF Bidding!Next, Bidding!Raise
<1>13. CASE b = PASS
  <2>1. AuctionHolder' = h /\ AuctionPrice' = claim[h]
    BY <1>2, <1>4, <1>6, <1>9, <1>13
  <2>2. AuctionActive' = AuctionActive \ {c}
    BY <1>2, <1>6, <1>8, <1>9, <1>13
  <2>3. AuctionPhase' = IF AuctionActive' = {h} THEN "won" ELSE "open"
    <3>1. CASE it'.CURRENT = it'.HIGHEST
      <4>1. AuctionActive' \subseteq {h}
        BY <1>4, <1>7, <1>9, <1>11, <1>13, <3>1
      <4> QED  BY <1>9, <1>10, <2>2, <3>1, <4>1
    <3>2. CASE it'.CURRENT # it'.HIGHEST
      <4>1. it'.CURRENT \in AuctionActive' /\ it'.CURRENT # h
        BY <1>4, <1>5, <1>7, <1>9, <1>13, <3>2 DEF AuctionInv, AuctionOrder
      <4> QED  BY <1>9, <3>2, <4>1
    <3> QED  BY <3>1, <3>2
  <2> QED  BY <1>8, <1>10, <2>1, <2>2, <2>3 DEF Bidding!Next, Bidding!Pass
<1> QED  BY <1>12, <1>13

LEMMA FinalBidStep ==
  ASSUME AuctionInv, NEW b \in Bids \cup {PASS}, asked = "final", PlaceBid(b)
  PROVE  Bidding!Next
<1> DEFINE h == it.HIGHEST
<1>1. FullTable /\ TypeOK
  BY FullWhenAsked DEF AuctionInv
<1>2. h \in Seated /\ it.CURRENT = h /\ claim[h] >= 100
  BY DEF AuctionInv, OneContract, InHand
<1>3. /\ UNCHANGED <<players, it>> /\ claim' = [claim EXCEPT ![h] = b]
      /\ asked' = "lead" /\ b \in FinalOffers /\ b \in Bids
  BY <1>2 DEF PlaceBid, HandleBid, FinalBid, RegularBid, FinalOffers
<1>4. claim \in [Clients -> Int] /\ Seated \subseteq Clients /\ Seated' = Seated
  BY <1>1, <1>3, Seats, Unmoved DEF TypeOK
<1>5. /\ AuctionPhase = "won" /\ AuctionHolder = h /\ AuctionPrice = claim[h]
      /\ AuctionActive = {d \in Seated : claim[d] # PASS}
  BY RunningAuction DEF InRound, InHand
<1>6. /\ AuctionPhase' = "contracted" /\ AuctionHolder' = h
      /\ AuctionPrice' = claim'[h]
      /\ AuctionActive' = {d \in Seated : claim'[d] # PASS}
  BY <1>3, <1>4 DEF AuctionPhase, AuctionActive, AuctionHolder, AuctionPrice, InRound,
     InHand, InPlay
<1>7. /\ claim'[h] = b /\ b >= claim[h] /\ b # PASS /\ claim[h] # PASS
      /\ \A d \in Seated \ {h} : claim'[d] = claim[d]
  BY <1>2, <1>3, <1>4, BidsAssumption DEF FinalOffers
<1> HIDE DEF h
<1>8. AuctionActive' = AuctionActive
  BY <1>2, <1>5, <1>6, <1>7
<1> QED  BY <1>5, <1>6, <1>7, <1>8 DEF Bidding!Next, Bidding!Contract

LEMMA GiveStep ==
  ASSUME NEW x \in Deck, NEW y \in Deck, Give(x, y)
  PROVE  UNCHANGED Bidding!vars
<1>1. asked = "give" /\ asked' = "final" /\ UNCHANGED <<players, claim, it>>
  BY DEF Give, HandleDeal
<1>2. AuctionPhase' = AuctionPhase
  BY <1>1 DEF AuctionPhase, InPlay
<1> QED  BY <1>1, <1>2, SamePhase DEF InRound, InHand

(***************************************************************************)
(* A card leaves the contract alone, unless it is the last one of a round: *)
(* then the next auction opens or the game is over.  It closes the auction *)
(* as well when nobody can be asked for another card.                      *)
(***************************************************************************)
LEMMA PlayCardStep ==
  ASSUME AuctionInv, NEW card \in Deck, PlayCard(card)
  PROVE  [Bidding!Next]_Bidding!vars
<1> DEFINE c == it.CURRENT
           table == Append(vec, [player |-> c, card |-> card])
<1>1. asked \in InPlay /\ players' = players
  BY DEF PlayCard, HandlePlay, InPlay
<1>2. asked \in Questions /\ asked \in InRound /\ asked # "seating"
  BY <1>1 DEF Questions, InPlay, InRound, InHand
<1>3. FullTable
  BY <1>2, FullWhenAsked
<1>4. it \in [CURRENT : Seated, COMPULSORY : Seated, HIGHEST : Seated]
  BY <1>2 DEF AuctionInv, RolesSeated
<1>5. asked' = CASE stage' = "BIDDING" -> "bid"
                 [] stage' = "ADDING"  -> "none"
                 [] OTHER -> IF vec' = << >> THEN "lead"
                             ELSE IF Len(vec') = 3 THEN "none" ELSE "follow"
  BY DEF PlayCard
<1>6. ASSUME NEW n, it' = [it EXCEPT !.CURRENT = n], claim' = claim,
             stage' \in {"PLAYING", "FAIL"}
      PROVE  [Bidding!Next]_Bidding!vars
  <2>1. it'.HIGHEST = it.HIGHEST /\ asked' \in InPlay \cup {"none"}
    BY <1>4, <1>5, <1>6 DEF InPlay
  <2>2. CASE asked' = "none"
    BY <1>2, <2>2, Closes DEF Quiet
  <2>3. CASE asked' \in InPlay
    <3>1. AuctionPhase' = AuctionPhase
      BY <1>1, <2>3 DEF AuctionPhase, InPlay
    <3>2. asked' \in InRound
      BY <2>3 DEF InRound, InHand, InPlay
    <3> QED  BY <1>1, <1>2, <1>6, <2>1, <3>1, <3>2, SamePhase
  <2> QED  BY <2>1, <2>2, <2>3
<1>7. ASSUME NEW t, EndOfRound(t)
      PROVE  [Bidding!Next]_Bidding!vars
  <2> DEFINE i == ((it.COMPULSORY + 1) % 3) + 1
  <2>1. CASE GameOver
    <3>1. asked' = "none"
      BY <1>5, <2>1 DEF GameOver
    <3> QED  BY <1>2, <3>1, Closes DEF Quiet
  <2>2. CASE NextRound
    <3>1. asked' = "bid" /\ PrepareGame(i, Zero)
      BY <1>5, <2>2 DEF NextRound
    <3>2. i \in 1 .. 3
      <4>1. it.COMPULSORY \in Nat
        BY <1>3, <1>4, Seats, ClientsAssumption
      <4> QED  BY <4>1
    <3> HIDE DEF i
    <3> QED  BY <1>1, <1>3, <3>1, <3>2, Opens DEF InPlay
  <2> QED  BY <1>7, <2>1, <2>2 DEF EndOfRound
<1>8. \/ PlayOn(c, card, table) \/ PlayFails(c, card, table)
      \/ \E w \in Seated : TakeTrick(c, card, w)
      \/ \E t : EndOfRound(t)
  BY DEF PlayCard, HandlePlay
<1>9. stage \in {"PLAYING", "FAIL"}
  BY <1>1 DEF AuctionInv, StageAgrees
<1> HIDE DEF table
<1>10. CASE PlayOn(c, card, table)
  BY <1>6, <1>10 DEF PlayOn
<1>11. CASE PlayFails(c, card, table)
  BY <1>6, <1>9, <1>11 DEF PlayFails
<1>12. ASSUME NEW w \in Seated, TakeTrick(c, card, w)
       PROVE  [Bidding!Next]_Bidding!vars
  BY <1>6, <1>12 DEF TakeTrick
<1> QED  BY <1>7, <1>8, <1>10, <1>11, <1>12

LEMMA StutterStep == UNCHANGED vars => UNCHANGED Bidding!vars
<1> SUFFICES ASSUME UNCHANGED vars PROVE UNCHANGED Bidding!vars
  OBVIOUS
<1>1. UNCHANGED <<players, claim, it, asked>>
  BY DEF vars, roomVars
<1>2. Seated' = Seated
  BY <1>1, Unmoved
<1> QED  BY <1>1, <1>2 DEF Bidding!vars, AuctionPhase, AuctionActive, AuctionHolder,
         AuctionPrice

LEMMA Step == AuctionInv /\ AuctionInv' /\ [Next]_vars => [Bidding!Next]_Bidding!vars
<1> SUFFICES ASSUME AuctionInv, AuctionInv', [Next]_vars
             PROVE  [Bidding!Next]_Bidding!vars
  OBVIOUS
<1>1. CASE UNCHANGED vars
  BY <1>1, StutterStep
<1>2. ASSUME NEW c \in Clients, PressReady(c) PROVE [Bidding!Next]_Bidding!vars
  BY <1>2, PressReadyStep
<1>3. ASSUME NEW b \in Bids \cup {PASS}, PlaceBid(b) PROVE [Bidding!Next]_Bidding!vars
  <2>1. asked \in {"bid", "final"}
    BY <1>3 DEF PlaceBid
  <2> QED  BY <1>3, <2>1, RegularBidStep, FinalBidStep
<1>4. ASSUME NEW x \in Deck, NEW y \in Deck, Give(x, y)
      PROVE  [Bidding!Next]_Bidding!vars
  BY <1>4, GiveStep
<1>5. ASSUME NEW card \in Deck, PlayCard(card) PROVE [Bidding!Next]_Bidding!vars
  BY <1>5, PlayCardStep
<1>6. ASSUME NEW c \in Clients, Join(c) \/ JoinFull(c) \/ Leave(c)
      PROVE  [Bidding!Next]_Bidding!vars
  <2>1. CASE Leave(c)
    BY <2>1, Closes DEF Leave, Quiet, AuctionInv, TypeOK
  <2> QED  BY <1>6, <2>1, JoinStep, JoinFullStep
<1> QED  BY <1>1, <1>2, <1>3, <1>4, <1>5, <1>6 DEF Next, Answer

(***************************************************************************)
(* The bidding at every table implements the abstract auction.             *)
(***************************************************************************)
THEOREM Refinement == Spec => ImplementsAuction
<1>1. Init => Bidding!Init
  BY InitOpens
<1>2. AuctionInv /\ AuctionInv' /\ [Next]_vars => [Bidding!Next]_Bidding!vars
  BY Step
<1> QED  BY <1>1, <1>2, Invariance, PTL DEF Spec, ImplementsAuction, Bidding!Spec
=============================================================================
