---------------------------- MODULE TrickProofs ----------------------------
(***************************************************************************)
(* The winner of a trick and the cards a player is offered, for every deck *)
(* and every hand: the pairwise comparisons of Game::findSuperiorCard name *)
(* the card the rule of the game names, and PlayersDeck::getAllValidCards  *)
(* offers either winning cards or losing ones.                             *)
(***************************************************************************)
EXTENDS Trick, FiniteSetTheorems, SequenceTheorems, TLAPS

(***************************************************************************)
(* Of two cards, the higher one is the one the rule prefers when the first *)
(* one attacks: the higher figure of one suit, a trump over anything else, *)
(* the attacker over a card that is neither.                               *)
(***************************************************************************)
LEMMA BiggerCard ==
  ASSUME NEW a \in Card, NEW b \in Card, NEW trump \in Int
  PROVE  /\ IsBigger(a, b, trump) \in {a, b}
         /\ a.suit = b.suit => /\ IsBigger(a, b, trump).suit = a.suit
                               /\ IsBigger(a, b, trump).figure >= a.figure
                               /\ IsBigger(a, b, trump).figure >= b.figure
         /\ a.suit # b.suit => IsBigger(a, b, trump) = IF b.suit = trump THEN b ELSE a
  BY DEF IsBigger, Card, Figures, NINE, JACK, QUEEN, KING, TEN, ACE

LEMMA SameCard ==
  ASSUME NEW a \in Card, NEW b \in Card, a.suit = b.suit, a.figure = b.figure
  PROVE  a = b
  BY DEF Card

(***************************************************************************)
(* Three different cards: the card the code picks is the card of the rule. *)
(***************************************************************************)
THEOREM SuperiorCard ==
  ASSUME NEW a \in Card, NEW b \in Card, NEW c \in Card, NEW trump \in Int,
         a # b, a # c, b # c,
         NEW i \in 1 .. 3
  PROVE  <<a, b, c>>[i] = FindSuperiorCard(<<a, b, c>>, trump)
           <=> IsTrickWinner(i, <<a, b, c>>, trump)
<1> DEFINE t == <<a, b, c>>
<1>1. /\ a.figure \in Int /\ b.figure \in Int /\ c.figure \in Int
  BY DEF Card, Figures, NINE, JACK, QUEEN, KING, TEN, ACE
<1>2. /\ a.suit = b.suit => a.figure # b.figure
      /\ a.suit = c.suit => a.figure # c.figure
      /\ b.suit = c.suit => b.figure # c.figure
  BY SameCard
<1>3. DOMAIN t = {1, 2, 3} /\ t[1] = a /\ t[2] = b /\ t[3] = c
  OBVIOUS
<1>4. IsTrickWinner(i, t, trump) <=>
        LET trumped == a.suit = trump \/ b.suit = trump \/ c.suit = trump
            led     == IF trumped THEN trump ELSE a.suit
        IN  /\ t[i].suit = led
            /\ a.suit = led => a.figure =< t[i].figure
            /\ b.suit = led => b.figure =< t[i].figure
            /\ c.suit = led => c.figure =< t[i].figure
  <2> HIDE DEF t
  <2> QED  BY <1>3 DEF IsTrickWinner
<1>5. FindSuperiorCard(t, trump) =
        IsBigger(IsBigger(a, b, trump), IsBigger(a, c, trump), trump)
  BY DEF FindSuperiorCard
<1>6. CASE i = 1
  BY <1>1, <1>2, <1>3, <1>4, <1>5, <1>6 DEF IsBigger
<1>7. CASE i = 2
  BY <1>1, <1>2, <1>3, <1>4, <1>5, <1>7 DEF IsBigger
<1>8. CASE i = 3
  BY <1>1, <1>2, <1>3, <1>4, <1>5, <1>8 DEF IsBigger
<1> QED  BY <1>6, <1>7, <1>8

(***************************************************************************)
(* The cards on the table are different cards of the deck.                 *)
(***************************************************************************)
IInv ==
  /\ TypeOK
  /\ \A i, j \in DOMAIN cardsOnTable :
       cardsOnTable[i] = cardsOnTable[j] => i = j

LEMMA Invariance == Spec => []IInv
<1>1. Init => IInv
  BY DEF Init, IInv, TypeOK, MAX_PLAYERS
<1>2. IInv /\ [Next]_vars => IInv'
  <2> SUFFICES ASSUME IInv, [Next]_vars PROVE IInv'
    OBVIOUS
  <2> USE DEF IInv, TypeOK, MAX_PLAYERS
  <2>1. CASE UNCHANGED vars
    BY <2>1 DEF vars
  <2>2. CASE Take
    BY <2>2 DEF Take
  <2>3. ASSUME NEW c \in Deck, Lead(c) PROVE IInv'
    <3>1. c.suit \in Suits
      BY DeckAssumption DEF Card
    <3>2. superSuit' \in Suits \cup {NONE}
      BY <2>3, <3>1 DEF Lead
    <3>3. cardsOnTable' = <<c>>
      BY <2>3 DEF Lead
    <3> QED  BY <3>2, <3>3
  <2>4. ASSUME NEW c \in Deck, Answer(c) PROVE IInv'
    <3>1. cardsOnTable' = Append(cardsOnTable, c) /\ superSuit' = superSuit
      BY <2>4 DEF Answer
    <3>2. \A i \in DOMAIN cardsOnTable : cardsOnTable[i] # c
      BY <2>4 DEF Answer, OnTable
    <3>3. Len(cardsOnTable) \in Nat /\ Len(cardsOnTable) < 3
      <4>1. Len(cardsOnTable) \in Nat
        OBVIOUS
      <4>2. Len(cardsOnTable) < 3
        BY <2>4 DEF Answer
      <4> QED  BY <4>1, <4>2
    <3>4. cardsOnTable' \in Seq(Deck) /\ Len(cardsOnTable') =< 3
      BY <3>1, <3>3
    <3>5. /\ DOMAIN cardsOnTable = 1 .. Len(cardsOnTable)
          /\ DOMAIN cardsOnTable' = 1 .. Len(cardsOnTable) + 1
          /\ cardsOnTable'[Len(cardsOnTable) + 1] = c
          /\ \A i \in 1 .. Len(cardsOnTable) : cardsOnTable'[i] = cardsOnTable[i]
      BY <3>1, <3>3
    <3>6. ASSUME NEW i \in DOMAIN cardsOnTable', NEW j \in DOMAIN cardsOnTable',
                 cardsOnTable'[i] = cardsOnTable'[j]
          PROVE  i = j
      BY <3>2, <3>3, <3>5, <3>6
    <3> QED  BY <3>1, <3>4, <3>6
  <2> QED  BY <2>1, <2>2, <2>3, <2>4 DEF Next
<1> QED  BY <1>1, <1>2, PTL DEF Spec

(***************************************************************************)
(* Whatever the deck, the card the code picks on a full table is the card  *)
(* the rule of the game names.                                             *)
(***************************************************************************)
THEOREM SuperiorCardAlwaysWins == Spec => []SuperiorCardWins
<1>1. IInv => SuperiorCardWins
  <2> SUFFICES ASSUME IInv, Len(cardsOnTable) = 3, NEW i \in DOMAIN cardsOnTable
               PROVE  (cardsOnTable[i] = FindSuperiorCard(cardsOnTable, superSuit))
                        <=> IsTrickWinner(i, cardsOnTable, superSuit)
    BY DEF SuperiorCardWins, MAX_PLAYERS
  <2> DEFINE a == cardsOnTable[1]
             b == cardsOnTable[2]
             c == cardsOnTable[3]
  <2>1. cardsOnTable = <<a, b, c>> /\ i \in 1 .. 3
    BY DEF IInv, TypeOK
  <2>2. a \in Card /\ b \in Card /\ c \in Card
    BY DeckAssumption DEF IInv, TypeOK
  <2>3. a # b /\ a # c /\ b # c
    BY DEF IInv, TypeOK
  <2>4. superSuit \in Int
    BY DEF IInv, TypeOK, Suits, SPADES, CLUBS, DIAMONDS, HEARTS, NONE
  <2> HIDE DEF a, b, c
  <2> QED  BY <2>1, <2>2, <2>3, <2>4, SuperiorCard
<1> QED  BY <1>1, Invariance, PTL

-----------------------------------------------------------------------------
(***************************************************************************)
(* A card laid now is ahead of the table exactly if it beats the card that *)
(* highestCardOnTheTable names.                                            *)
(***************************************************************************)
Highest == HighestCardOnTheTable(cardsOnTable, superSuit)

ToAnswer == IInv /\ Len(cardsOnTable) \in {1, 2}

LEMMA Table1Or2 ==
  ASSUME ToAnswer
  PROVE  /\ cardsOnTable[1] \in Card /\ Highest \in Card /\ superSuit \in Int
         /\ Len(cardsOnTable) = 1 => cardsOnTable = <<cardsOnTable[1]>>
         /\ Len(cardsOnTable) = 2 => /\ cardsOnTable[2] \in Card
                                     /\ cardsOnTable = <<cardsOnTable[1], cardsOnTable[2]>>
<1>1. superSuit \in Int
  BY DEF ToAnswer, IInv, TypeOK, Suits, SPADES, CLUBS, DIAMONDS, HEARTS, NONE
<1>2. /\ cardsOnTable[1] \in Card
      /\ Len(cardsOnTable) = 2 => cardsOnTable[2] \in Card
  BY DeckAssumption DEF ToAnswer, IInv, TypeOK
<1>3. /\ Len(cardsOnTable) = 1 => cardsOnTable = <<cardsOnTable[1]>>
      /\ Len(cardsOnTable) = 2 => cardsOnTable = <<cardsOnTable[1], cardsOnTable[2]>>
  BY DEF ToAnswer, IInv, TypeOK
<1>4. Highest \in Card
  BY <1>1, <1>2, BiggerCard DEF Highest, HighestCardOnTheTable
<1> QED  BY <1>1, <1>2, <1>3, <1>4

LEMMA AppendCards ==
  ASSUME NEW x \in Card, NEW y \in Card, NEW z \in Card
  PROVE  Append(<<x>>, y) = <<x, y>> /\ Append(<<x, y>>, z) = <<x, y, z>>
<1>1. Append(<<x>>, y) = <<x, y>>
  <2> DEFINE s == Append(<<x>>, y)
  <2>1. s \in Seq(Card) /\ Len(s) = 2 /\ s[1] = x /\ s[2] = y
    <3>1. <<x>> \in Seq(Card) /\ Len(<<x>>) = 1
      OBVIOUS
    <3> QED  BY <3>1, AppendProperties
  <2> DEFINE t == <<x, y>>
  <2>2. t \in Seq(Card) /\ Len(t) = 2 /\ t[1] = x /\ t[2] = y
    OBVIOUS
  <2> HIDE DEF s, t
  <2>3. s = t
    BY <2>1, <2>2, SeqEqual
  <2> QED  BY <2>3 DEF s, t
<1>2. Append(<<x, y>>, z) = <<x, y, z>>
  <2> DEFINE s == Append(<<x, y>>, z)
  <2>1. s \in Seq(Card) /\ Len(s) = 3 /\ s[1] = x /\ s[2] = y /\ s[3] = z
    <3>1. <<x, y>> \in Seq(Card) /\ Len(<<x, y>>) = 2
      OBVIOUS
    <3> QED  BY <3>1, AppendProperties
  <2> DEFINE t == <<x, y, z>>
  <2>2. t \in Seq(Card) /\ Len(t) = 3 /\ t[1] = x /\ t[2] = y /\ t[3] = z
    OBVIOUS
  <2> HIDE DEF s, t
  <2>3. s = t
    BY <2>1, <2>2, SeqEqual
  <2> QED  BY <2>3 DEF s, t
<1> QED  BY <1>1, <1>2

LEMMA WinsIsHigher ==
  ASSUME ToAnswer, NEW c \in Card, c \notin OnTable
  PROVE  Wins(c) <=> IsHigher(Highest, c, superSuit)
<1> DEFINE a == cardsOnTable[1]
           b == cardsOnTable[2]
<1>1. CASE Len(cardsOnTable) = 1
  <2> DEFINE t == <<a, c>>
  <2>1. Append(cardsOnTable, c) = t /\ Len(cardsOnTable) + 1 = 2 /\ Highest = a
    <3>1. cardsOnTable = <<a>>
      BY <1>1, Table1Or2
    <3>2. Append(<<a>>, c) = <<a, c>>
      BY <1>1, Table1Or2, AppendCards
    <3>3. Highest = a
      BY <1>1 DEF Highest, HighestCardOnTheTable
    <3> HIDE DEF a
    <3> QED  BY <1>1, <3>1, <3>2, <3>3
  <2>2. a # c /\ a \in Card
    BY <1>1, Table1Or2 DEF OnTable
  <2>3. DOMAIN t = {1, 2} /\ t[1] = a /\ t[2] = c
    OBVIOUS
  <2> HIDE DEF t, a
  <2>4. Wins(c) <=> IsTrickWinner(2, t, superSuit)
    BY <2>1 DEF Wins
  <2>5. IsTrickWinner(2, t, superSuit) <=>
          LET led == IF a.suit = superSuit \/ c.suit = superSuit THEN superSuit ELSE a.suit
          IN  c.suit = led /\ (a.suit = led => a.figure =< c.figure) /\ c.figure =< c.figure
    BY <2>3 DEF IsTrickWinner
  <2>6. a.figure \in Int /\ c.figure \in Int /\ (a.suit = c.suit => a.figure # c.figure)
    BY <2>2, SameCard DEF Card, Figures, NINE, JACK, QUEEN, KING, TEN, ACE
  <2> QED  BY <2>1, <2>4, <2>5, <2>6 DEF IsHigher
<1>2. CASE Len(cardsOnTable) = 2
  <2> DEFINE t == <<a, b, c>>
  <2>1. /\ Append(cardsOnTable, c) = t /\ Len(cardsOnTable) + 1 = 3
        /\ Highest = IsBigger(a, b, superSuit)
    <3>1. cardsOnTable = <<a, b>>
      BY <1>2, Table1Or2
    <3>2. Append(<<a, b>>, c) = <<a, b, c>>
      BY <1>2, Table1Or2, AppendCards
    <3>3. Highest = IsBigger(a, b, superSuit)
      BY <1>2 DEF Highest, HighestCardOnTheTable
    <3> HIDE DEF a, b
    <3> QED  BY <1>2, <3>1, <3>2, <3>3
  <2>2. a \in Card /\ b \in Card /\ a # b /\ a # c /\ b # c
    BY <1>2, Table1Or2 DEF OnTable, ToAnswer, IInv
  <2>3. DOMAIN t = {1, 2, 3} /\ t[1] = a /\ t[2] = b /\ t[3] = c
    OBVIOUS
  <2> HIDE DEF t, a, b
  <2>4. Wins(c) <=> IsTrickWinner(3, t, superSuit)
    BY <2>1 DEF Wins
  <2>5. IsTrickWinner(3, t, superSuit) <=>
          LET trumped == a.suit = superSuit \/ b.suit = superSuit \/ c.suit = superSuit
              led     == IF trumped THEN superSuit ELSE a.suit
          IN  /\ c.suit = led /\ c.figure =< c.figure
              /\ a.suit = led => a.figure =< c.figure
              /\ b.suit = led => b.figure =< c.figure
    BY <2>3 DEF IsTrickWinner
  <2>6. /\ a.figure \in Int /\ b.figure \in Int /\ c.figure \in Int
        /\ a.suit = c.suit => a.figure # c.figure
        /\ b.suit = c.suit => b.figure # c.figure
        /\ a.suit = b.suit => a.figure # b.figure
    BY <2>2, SameCard DEF Card, Figures, NINE, JACK, QUEEN, KING, TEN, ACE
  <2> QED  BY <2>1, <2>4, <2>5, <2>6 DEF IsHigher, IsBigger
<1> QED  BY <1>1, <1>2 DEF ToAnswer

(***************************************************************************)
(* The four searches of getAllValidCards, by what they can find.           *)
(***************************************************************************)
LEMMA OfferedCards ==
  ASSUME ToAnswer, NEW hand \in SUBSET (Deck \ OnTable), hand # {}
  PROVE  /\ Valid(hand) # {} /\ Valid(hand) \subseteq hand
         /\ \/ \A c \in Valid(hand) : Wins(c)
            \/ /\ \A c \in Valid(hand) : ~ Wins(c)
               /\ \/ \A c \in Valid(hand) : c.suit = cardsOnTable[1].suit
                  \/ \A c \in hand : ~ Wins(c) /\ c.suit # cardsOnTable[1].suit
<1> DEFINE first == cardsOnTable[1]
           above(c) == IsHigher(Highest, c, superSuit)
           sameSuitHigher == {c \in hand : c.suit = Highest.suit /\ above(c)}
           sameSuit == {c \in hand : c.suit = first.suit}
           anyHigher == {c \in hand : above(c)}
<1>1. \A c \in hand : Wins(c) <=> above(c)
  BY DeckAssumption, WinsIsHigher
<1>2. Valid(hand) = IF sameSuitHigher # {} THEN sameSuitHigher
                    ELSE IF sameSuit # {} THEN sameSuit
                    ELSE IF anyHigher # {} THEN anyHigher ELSE hand
  BY DEF Valid, AllValidCards, Highest, ToAnswer
\* A card that is higher without being of the highest card's suit is a trump
\* over the suit that was led.
<1>3. ASSUME NEW c \in hand, above(c), c.suit # Highest.suit
      PROVE  c.suit # first.suit
  <2>1. c.suit = superSuit /\ Highest.suit # superSuit
    BY <1>3 DEF IsHigher
  <2>2. Highest.suit = first.suit \/ Highest.suit = superSuit
    BY Table1Or2, BiggerCard DEF Highest, HighestCardOnTheTable, IsBigger
  <2> QED  BY <2>1, <2>2, <1>3
<1> HIDE DEF above
<1>4. CASE sameSuitHigher # {}
  BY <1>1, <1>2, <1>4
<1>5. CASE sameSuitHigher = {} /\ sameSuit # {}
  <2>1. Valid(hand) = sameSuit
    BY <1>2, <1>5
  <2>2. \A c \in sameSuit : ~ above(c)
    BY <1>3, <1>5
  <2> QED  BY <1>1, <1>5, <2>1, <2>2
<1>6. CASE sameSuitHigher = {} /\ sameSuit = {} /\ anyHigher # {}
  BY <1>1, <1>2, <1>6
<1>7. CASE sameSuitHigher = {} /\ sameSuit = {} /\ anyHigher = {}
  BY <1>1, <1>2, <1>7
<1> QED  BY <1>4, <1>5, <1>6, <1>7

LEMMA HandsAreHands ==
  ASSUME NEW hand \in HandsToAnswer
  PROVE  /\ hand \in SUBSET (Deck \ OnTable) /\ hand # {}
         /\ Len(cardsOnTable) \in {1, 2}
<1>1. Len(cardsOnTable) \in {1, 2}
  BY DEF HandsToAnswer
<1>2. PICK n \in HandSizes : hand \in SUBSET (Deck \ OnTable) /\ Cardinality(hand) = n
  BY <1>1 DEF HandsToAnswer, kSubset
<1>3. hand # {}
  BY <1>2, SizesAssumption, FS_EmptySet
<1> QED  BY <1>1, <1>2, <1>3

(***************************************************************************)
(* Whatever the deck, the order of the cards on the table, the trump and   *)
(* the hand: a player who answers has a card to play, and the cards he is  *)
(* offered all take the lead or none does.                                 *)
(***************************************************************************)
THEOREM OffersAlwaysUniform == Spec => []OffersAreUniform
<1>1. IInv => OffersAreUniform
  BY HandsAreHands, OfferedCards DEF OffersAreUniform, ToAnswer
<1> QED  BY <1>1, Invariance, PTL

(***************************************************************************)
(* Offered losing cards only, a player follows suit or holds neither the   *)
(* suit that was led nor a card that could win.                            *)
(***************************************************************************)
THEOREM LosersAlwaysFollow == Spec => []LosingOffersFollowSuit
<1>1. IInv => LosingOffersFollowSuit
  <2> SUFFICES ASSUME IInv, NEW hand \in HandsToAnswer,
                      \A c \in Valid(hand) : ~ Wins(c)
               PROVE  \/ \A c \in Valid(hand) : c.suit = cardsOnTable[1].suit
                      \/ \A c \in hand : ~ Wins(c) /\ c.suit # cardsOnTable[1].suit
    BY DEF LosingOffersFollowSuit
  <2>1. ToAnswer /\ hand \in SUBSET (Deck \ OnTable) /\ hand # {}
    BY HandsAreHands DEF ToAnswer
  <2> QED  BY <2>1, OfferedCards
<1> QED  BY <1>1, Invariance, PTL
=============================================================================
