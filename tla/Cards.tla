------------------------------- MODULE Cards -------------------------------
(***************************************************************************)
(* The pure card algorithms of the engine: card.cpp (which of two cards is *)
(* higher), game.cpp (who takes a trick) and players_deck.cpp (which cards *)
(* may be played, what a hand can be bid up to).  A card is a record of    *)
(* its figure and its suit, each with the number card.hpp gives it: the    *)
(* number of a figure is the points it scores, the number of a suit the    *)
(* points of its marriage.  A hand is the set of its cards.                *)
(***************************************************************************)
EXTENDS Integers, Sequences, FiniteSetsExt

NINE  == 0
JACK  == 2
QUEEN == 3
KING  == 4
TEN   == 10
ACE   == 11
Figures == {NINE, JACK, QUEEN, KING, TEN, ACE}

NONE     == 0
SPADES   == 40
CLUBS    == 60
DIAMONDS == 80
HEARTS   == 100
Suits == {SPADES, CLUBS, DIAMONDS, HEARTS}

MIN_VALUE == 120

Card == [figure : Figures, suit : Suits]

CardsOf(figures, suits) == [figure : figures, suit : suits]

\* Mutant of IsBigger: trumps are forgotten.
IsBiggerNoTrump(a, b, trump) ==
  IF a.suit = b.suit /\ b.figure > a.figure THEN b ELSE a

(***************************************************************************)
(* The higher of two cards, `a' being the attacking one.                   *)
(***************************************************************************)
IsBigger(a, b, trump) ==
  IF a.suit = b.suit
    THEN IF a.figure > b.figure THEN a ELSE b
    ELSE IF b.suit = trump THEN b ELSE a

\* Mutant of FindSuperiorCard: the two answers are compared with each other first.
SuperiorOfAnswers(table, trump) ==
  IsBigger(table[1], IsBigger(table[2], table[3], trump), trump)

(***************************************************************************)
(* The winner of a full table <<c1, c2, c3>> of cards: the two answers are *)
(* compared with the first card, then the two results with each other.     *)
(***************************************************************************)
FindSuperiorCard(table, trump) ==
  IsBigger(IsBigger(table[1], table[2], trump),
           IsBigger(table[1], table[3], trump), trump)

\* Mutants of HighestCardOnTheTable: the attacker's card; the last card.
HighestIsFirst(table, trump) == table[1]
HighestIsLast(table, trump) == table[Len(table)]

(***************************************************************************)
(* What a player who has to answer compares his cards with.  The test is   *)
(* on a table of exactly two cards: any other table gives its first card.  *)
(***************************************************************************)
HighestCardOnTheTable(table, trump) ==
  IF Len(table) = 2 THEN IsBigger(table[1], table[2], trump) ELSE table[1]

IsHigher(played, mine, trump) ==
  \/ played.suit = mine.suit /\ played.figure < mine.figure
  \/ played.suit # mine.suit /\ played.suit # trump /\ mine.suit = trump

(***************************************************************************)
(* The cards of a hand that may be played: the first non-empty search      *)
(* wins.  `unused' are the cards not played yet, `table' the cards that    *)
(* lie on the table, in the order they were played.                        *)
(***************************************************************************)
AllValidCards(unused, table, trump) ==
  LET top == HighestCardOnTheTable(table, trump)
      sameSuitHigherFigure ==
        {c \in unused : c.suit = top.suit /\ IsHigher(top, c, trump)}
      sameSuit  == {c \in unused : c.suit = table[1].suit}
      anyHigher == {c \in unused : IsHigher(top, c, trump)}
  IN  IF table = << >> THEN unused
      ELSE IF sameSuitHigherFigure # {} THEN sameSuitHigherFigure
      ELSE IF sameSuit # {} THEN sameSuit
      ELSE IF anyHigher # {} THEN anyHigher
      ELSE unused

(***************************************************************************)
(* Whether a king or a queen of the suit is left in the hand: with the     *)
(* other one just led, that makes a marriage.                              *)
(***************************************************************************)
DoesHavePair(unused, suit) ==
  \E c \in unused : c.suit = suit /\ c.figure \in {KING, QUEEN}

Marriages(cards) ==
  {s \in Suits : {[figure |-> KING, suit |-> s],
                  [figure |-> QUEEN, suit |-> s]} \subseteq cards}

\* Mutant of MaxValue: the points of the cards are not counted.
MaxValueOfMarriages(cards) == SumSet(Marriages(cards))

(***************************************************************************)
(* The highest bid the server offers for a hand.  The code caches it until *)
(* the hand is cleared; no card comes or goes while the cache is in use.   *)
(***************************************************************************)
MaxValue(cards) == MIN_VALUE + SumSet(Marriages(cards))

-----------------------------------------------------------------------------
(***************************************************************************)
(* Reference: the rule of the game, stated without comparing two cards.    *)
(* The trick goes to the highest trump on the table or, when there is      *)
(* none, to the highest card of the suit that was led.                     *)
(***************************************************************************)
IsTrickWinner(i, table, trump) ==
  LET trumps   == {k \in DOMAIN table : table[k].suit = trump}
      eligible == IF trumps # {} THEN trumps
                  ELSE {k \in DOMAIN table : table[k].suit = table[1].suit}
  IN  /\ i \in eligible
      /\ \A k \in eligible : table[k].figure =< table[i].figure
=============================================================================
