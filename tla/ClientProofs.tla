---------------------------- MODULE ClientProofs ----------------------------
(***************************************************************************)
(* The clients of a room: what a client will keep when it has read all it  *)
(* was sent, and what the room knows of it.  The invariant of module       *)
(* Conversation says of each client what its two queues hold and that it   *)
(* ends where the room thinks it is; here the steps of the clients keep    *)
(* it, in ConversationProofs those of the room do.                         *)
(***************************************************************************)
EXTENDS ConversationProperties, SequenceTheorems, FiniteSetTheorems,
        WellFoundedInduction, TLAPS

USE DEF MAX_PLAYERS, PASS, None

-----------------------------------------------------------------------------
(***************************************************************************)
(* Sequences whose elements are of no matter.                              *)
(***************************************************************************)
IsSeq(q) == \E S : q \in Seq(S)

Has(s, a) == \E i \in 1 .. Len(s) : s[i].action = a

LEMMA AppendIs ==
  ASSUME NEW q, IsSeq(q), NEW m
  PROVE  LET t == Append(q, m)
         IN  /\ IsSeq(t) /\ t = q \o <<m>> /\ t # << >>
             /\ Len(q) \in Nat /\ Len(t) = Len(q) + 1
             /\ (\A i \in 1 .. Len(q) : t[i] = q[i]) /\ t[Len(q) + 1] = m
             /\ \A a : Has(t, a) <=> Has(q, a) \/ m.action = a
<1> DEFINE t == Append(q, m)
<1>1. PICK S : q \in Seq(S)
  BY DEF IsSeq
<1>2. q \in Seq(S \cup {m}) /\ m \in S \cup {m}
  BY <1>1
<1>3. /\ t \in Seq(S \cup {m}) /\ t = q \o <<m>> /\ t # << >>
      /\ Len(q) \in Nat /\ Len(t) = Len(q) + 1
      /\ (\A i \in 1 .. Len(q) : t[i] = q[i]) /\ t[Len(q) + 1] = m
  BY <1>2, AppendProperties, LenProperties
<1> HIDE DEF t
<1>4. 1 .. Len(t) = (1 .. Len(q)) \cup {Len(q) + 1}
  BY <1>3
<1>5. \A a : Has(t, a) <=> Has(q, a) \/ m.action = a
  BY <1>3, <1>4 DEF Has
<1> QED  BY <1>3, <1>5 DEF IsSeq, t

LEMMA TailIs ==
  ASSUME NEW q, IsSeq(q), q # << >>
  PROVE  LET t == Tail(q)
         IN  /\ IsSeq(t) /\ Len(t) = Len(q) - 1 /\ Len(q) \in Nat \ {0}
             /\ (\A i \in 1 .. Len(t) : t[i] = q[i + 1]) /\ Head(q) = q[1]
             /\ \A a : Has(q, a) <=> Has(t, a) \/ Head(q).action = a
<1> DEFINE t == Tail(q)
<1>1. PICK S : q \in Seq(S)
  BY DEF IsSeq
<1>2. /\ t \in Seq(S) /\ Len(t) = Len(q) - 1 /\ Len(q) \in Nat \ {0}
      /\ (\A i \in 1 .. Len(t) : t[i] = q[i + 1]) /\ Head(q) = q[1]
  BY <1>1, HeadTailProperties, EmptySeq
<1> HIDE DEF t
<1>3. ASSUME NEW a
      PROVE  Has(q, a) <=> Has(t, a) \/ Head(q).action = a
  <2>1. ASSUME NEW i \in 1 .. Len(q), q[i].action = a, i # 1
        PROVE  Has(t, a)
    <3>1. i - 1 \in 1 .. Len(t) /\ (i - 1) + 1 = i
      BY <1>2, <2>1
    <3>2. t[i - 1] = q[i]
      BY <1>2, <3>1
    <3> QED  BY <2>1, <3>1, <3>2 DEF Has
  <2>2. ASSUME NEW i \in 1 .. Len(t), t[i].action = a
        PROVE  Has(q, a)
    <3>1. i + 1 \in 1 .. Len(q) /\ q[i + 1] = t[i]
      BY <1>2
    <3> QED  BY <2>2, <3>1 DEF Has
  <2>3. 1 \in 1 .. Len(q)
    BY <1>2
  <2> QED  BY <1>2, <2>1, <2>2, <2>3 DEF Has
<1> QED  BY <1>2, <1>3 DEF IsSeq, t

LEMMA EmptyIs ==
  /\ IsSeq(<< >>) /\ Len(<< >>) = 0
  /\ \A a : ~ Has(<< >>, a)
  /\ \A q : IsSeq(q) => Len(q) \in Nat /\ (Len(q) = 0 <=> q = << >>) /\ q \o << >> = q
<1>1. IsSeq(<< >>) /\ Len(<< >>) = 0
  BY EmptySeq DEF IsSeq
<1>2. ASSUME NEW q, IsSeq(q)
      PROVE  Len(q) \in Nat /\ (Len(q) = 0 <=> q = << >>) /\ q \o << >> = q
  <2>1. PICK S : q \in Seq(S)
    BY <1>2 DEF IsSeq
  <2> QED  BY <2>1, EmptySeq, LenProperties, ConcatEmptySeq
<1> QED  BY <1>1, <1>2 DEF Has

LEMMA ConcatIs ==
  ASSUME NEW q, IsSeq(q), NEW a, NEW b, NEW d
  PROVE  /\ q \o <<a>> = Append(q, a)
         /\ q \o (<<a>> \o <<b>>) = Append(Append(q, a), b)
         /\ q \o <<a, b>> = Append(Append(q, a), b)
         /\ q \o (<<a>> \o << >>) = Append(q, a)
         /\ q \o (<<a>> \o (<<b>> \o <<d>>)) = Append(Append(Append(q, a), b), d)
         /\ q \o (<<a>> \o (<<b>> \o << >>)) = Append(Append(q, a), b)
<1>1. PICK S : q \in Seq(S)
  BY DEF IsSeq
<1> DEFINE T == S \cup {a, b, d}
<1>2. q \in Seq(T) /\ a \in T /\ b \in T /\ d \in T
  BY <1>1
<1> HIDE DEF T
<1>3. \A s \in Seq(T), x, y \in T : /\ s \o <<x>> = Append(s, x) /\ Append(s, x) \in Seq(T)
                                    /\ s \o <<x, y>> = Append(Append(s, x), y)
  OBVIOUS
<1>4. <<a>> \in Seq(T) /\ <<b>> \in Seq(T) /\ <<d>> \in Seq(T) /\ << >> \in Seq(T)
  BY <1>2
<1>5. <<a>> \o << >> = <<a>> /\ <<b>> \o << >> = <<b>>
  BY <1>4, ConcatEmptySeq
<1>6. /\ q \o (<<a>> \o <<b>>) = (q \o <<a>>) \o <<b>>
      /\ q \o (<<a>> \o (<<b>> \o <<d>>)) = ((q \o <<a>>) \o <<b>>) \o <<d>>
  <2>1. \A r, s, t \in Seq(T) : (r \o s) \o t = r \o (s \o t) /\ r \o s \in Seq(T)
    BY ConcatAssociative, ConcatProperties
  <2> QED  BY <1>2, <1>4, <2>1
<1>7. q \o <<a>> = Append(q, a) /\ Append(q, a) \in Seq(T) /\ q \o <<a, b>> = Append(Append(q, a), b)
  BY <1>2, <1>3
<1>8. Append(q, a) \o <<b>> = Append(Append(q, a), b) /\ Append(Append(q, a), b) \in Seq(T)
  BY <1>2, <1>3, <1>7
<1>9. Append(Append(q, a), b) \o <<d>> = Append(Append(Append(q, a), b), d)
  BY <1>2, <1>3, <1>8
<1>10. q \o (<<a>> \o <<b>>) = Append(Append(q, a), b)
  BY ONLY <1>6, <1>7, <1>8
<1>11. q \o (<<a>> \o (<<b>> \o <<d>>)) = Append(Append(Append(q, a), b), d)
  BY ONLY <1>6, <1>7, <1>8, <1>9
<1> QED  BY <1>5, <1>7, <1>10, <1>11

(***************************************************************************)
(* A set of natural numbers has a smallest one.                            *)
(***************************************************************************)
LEMMA Smallest ==
  ASSUME NEW T, T \subseteq Nat, T # {}
  PROVE  \E x \in T : \A y \in T : x =< y
<1>1. PICK x \in T : \A y \in T : ~ (<<y, x>> \in OpToRel(<, Nat))
  BY NatLessThanWellFounded, WFMin
<1>2. \A y \in T : ~ (y < x)
  BY <1>1 DEF OpToRel
<1> QED  BY <1>2

(***************************************************************************)
(* Going up from 0 to n: what holds at 0, and at each number after one     *)
(* where it holds, holds at all of them.                                   *)
(***************************************************************************)
LEMMA Upwards ==
  ASSUME NEW n \in Nat, NEW T, 0 \in T, \A i \in 1 .. n : i - 1 \in T => i \in T
  PROVE  \A i \in 0 .. n : i \in T
<1> DEFINE B == {i \in 0 .. n : i \notin T}
<1> SUFFICES ASSUME B # {} PROVE FALSE
  OBVIOUS
<1>1. B \subseteq Nat
  OBVIOUS
<1>2. PICK m \in B : \A y \in B : m =< y
  BY <1>1, Smallest
<1>3. m # 0 /\ m \in 1 .. n /\ m - 1 \in 0 .. n /\ ~ (m =< m - 1)
  BY <1>2
<1>4. m - 1 \in T
  BY <1>2, <1>3
<1> QED  BY <1>2, <1>3, <1>4

(***************************************************************************)
(* The table the room and its clients make, with all that is proved of it. *)
(***************************************************************************)
TP == INSTANCE CardProofs WITH LeaveIn <- LeaveIn \cap Questions, JoinFullIn <- {}

LEMMA TableAssumptions ==
  /\ Deck \subseteq TP!Card
  /\ TP!Cardinality(Deck) = TP!DeckSize
  /\ \A s \in Shuffles : /\ s \in [1 .. TP!DeckSize -> Deck]
                         /\ \A i, j \in 1 .. TP!DeckSize : s[i] = s[j] => i = j
  /\ LeaveIn \cap Questions \subseteq TP!Questions /\ {} \subseteq TP!Questions
<1>1. Card = TP!Card
  BY DEF Card, TP!Card, Figures, TP!Figures, Suits, TP!Suits, NINE, TP!NINE, JACK, TP!JACK,
         QUEEN, TP!QUEEN, KING, TP!KING, TEN, TP!TEN, ACE, TP!ACE, SPADES, TP!SPADES,
         CLUBS, TP!CLUBS, DIAMONDS, TP!DIAMONDS, HEARTS, TP!HEARTS
<1>2. DeckSize = TP!DeckSize
  BY DEF DeckSize, TP!DeckSize, TP!MAX_PLAYERS
<1>3. Questions = TP!Questions
  BY DEF Questions, TP!Questions
<1>4. Cardinality(Deck) = TP!Cardinality(Deck)
  BY DEF Cardinality, TP!Cardinality
<1> QED  BY <1>1, <1>2, <1>3, <1>4, DeckAssumption, WholeDeckAssumption, ShuffleAssumption

LEMMA RemoveAtIs ==
  ASSUME NEW S, NEW q \in Seq(S), NEW i \in 1 .. Len(q)
  PROVE  /\ RemoveAt(q, i) \in Seq(S) /\ Len(RemoveAt(q, i)) = Len(q) - 1
         /\ \A j \in 1 .. Len(RemoveAt(q, i)) :
              RemoveAt(q, i)[j] = IF j < i THEN q[j] ELSE q[j + 1]
<1>1. RemoveAt(q, i) = TP!RemoveAt(q, i)
  BY DEF RemoveAt, TP!RemoveAt
<1> QED
  BY <1>1, TP!OneRemoved, TableAssumptions, ClientsAssumption, DeckAssumption, HandAssumption,
     WholeDeckAssumption, CapsAssumption, ShuffleAssumption, BidsAssumption

LEMMA RemoveFirstIs ==
  ASSUME NEW S, NEW q \in Seq(S), NEW e
  PROVE  /\ RemoveFirst(q, e) \in Seq(S)
         /\ \A i \in 1 .. Len(q) :
              q[i] = e /\ (\A j \in 1 .. Len(q) : q[j] = e => j = i)
                => RemoveFirst(q, e) = RemoveAt(q, i)
<1> DEFINE I == {i \in 1 .. Len(q) : q[i] = e}
           k == SelectInSeq(q, LAMBDA v : v = e)
<1>1. CASE I = {}
  BY <1>1 DEF RemoveFirst
<1>2. CASE I # {}
  <2>1. k = Min(I) /\ I \subseteq Nat
    BY <1>2 DEF SelectInSeq
  <2>2. k \in I
    BY <1>2, <2>1, Smallest DEF Min
  <2>3. RemoveFirst(q, e) = RemoveAt(q, k)
    BY <1>2 DEF RemoveFirst
  <2> HIDE DEF k
  <2> QED  BY <2>2, <2>3, RemoveAtIs
<1> QED  BY <1>1, <1>2

-----------------------------------------------------------------------------
(***************************************************************************)
(* What a client keeps, and the messages it can be sent.                   *)
(***************************************************************************)
States == [game : Seq(Clients) \cup {NoGame}, begun : BOOLEAN, cards : Seq(Deck),
           gone : SUBSET Nat, available : SUBSET Nat, drawn : SUBSET Nat,
           windows : SUBSET {"ready", "bids", "win"}, bids : SUBSET (Bids \cup {PASS})]

Kept(k) ==
  /\ k \in States
  /\ k.gone \cup k.available \cup k.drawn \subseteq DOMAIN k.cards
  /\ k.game = NoGame => k.windows = {} /\ k.bids = {} /\ k.drawn = {}

ClientActions == {"add", "new_player", "deal", "bid", "stock", "start", "play", "score",
                  "end", "leave"}

Sane(msg) ==
  /\ msg.action \in ClientActions
  /\ msg.action = "new_player" => msg.data \in Clients
  /\ msg.action \in {"deal", "stock"} => msg.data \in Seq(Deck)
  /\ msg.action = "end" => msg.data \in BOOLEAN

LEMMA SameState ==
  ASSUME NEW k \in States, NEW l \in States,
         k.game = l.game, k.begun = l.begun, k.cards = l.cards, k.gone = l.gone,
         k.available = l.available, k.drawn = l.drawn, k.windows = l.windows, k.bids = l.bids
  PROVE  k = l
  BY DEF States

LEMMA NoGameIs ==
  /\ \A s \in Seq(Clients) : s # NoGame
  /\ \A s \in Seq(Clients), id \in Clients : Append(s, id) \in Seq(Clients)
  /\ \A s \in Seq(Clients) : \A id : RemoveFirst(s, id) \in Seq(Clients)
<1>1. ASSUME NEW s \in Seq(Clients), s = NoGame
      PROVE  FALSE
  <2>1. Len(<<None>>) = 1 /\ <<None>>[1] = None
    OBVIOUS
  <2>2. None \in Clients
    BY <1>1, <2>1, ElementOfSeq DEF NoGame
  <2> QED  BY <2>2, ClientsAssumption
<1>2. \A s \in Seq(Clients) : \A id : RemoveFirst(s, id) \in Seq(Clients)
  BY RemoveFirstIs
<1> QED  BY <1>1, <1>2

-----------------------------------------------------------------------------
(***************************************************************************)
(* What a client makes of each message.                                    *)
(***************************************************************************)
LEMMA ReadNoGame ==
  ASSUME NEW k, NEW m, k.game = NoGame, m.action \in ClientActions \ {"add"}
  PROVE  Read(k, m) = k
  BY DEF Read, ClientActions

LEMMA ReadIs ==
  ASSUME NEW k, NEW m
  PROVE  /\ m.action = "add" => Read(k, m) = ReadAdd(k, m.data)
         /\ k.game # NoGame =>
              /\ m.action = "new_player" => Read(k, m) = ReadNewPlayer(k, m.data)
              /\ m.action = "deal" => Read(k, m) = ReadDeal(k, m.data)
              /\ m.action = "bid" => Read(k, m) = ReadBid(k, m.min, m.max)
              /\ m.action = "stock" => Read(k, m) = AllAvailable(AddCards(k, m.data))
              /\ m.action = "start" => Read(k, m) = AllAvailable(k)
              /\ m.action = "play" => Read(k, m) = [k EXCEPT !.available = m.available]
              /\ m.action = "score" => Read(k, m) = ReadScore(k)
              /\ m.action = "end" => Read(k, m) = ReadEnd(k, m.data)
              /\ m.action = "leave" => Read(k, m) = ReadLeave(k, m.data)
  BY DEF Read

LEMMA SeqDomain ==
  ASSUME NEW S, NEW s \in Seq(S)
  PROVE  DOMAIN s = 1 .. Len(s) /\ Len(s) \in Nat /\ DOMAIN s \subseteq Nat
  BY LenProperties

LEMMA EmptyCards == << >> \in Seq(Deck) /\ DOMAIN << >> = {} /\ 1 .. 0 = {}
<1>1. << >> \in Seq(Deck) /\ Len(<< >>) = 0
  BY EmptySeq
<1>2. 1 .. 0 = {}
  OBVIOUS
<1> QED  BY <1>1, <1>2, SeqDomain

LEMMA MoreCards ==
  ASSUME NEW s \in Seq(Deck), NEW t \in Seq(Deck)
  PROVE  /\ s \o t \in Seq(Deck) /\ DOMAIN (s \o t) = 1 .. Len(s \o t)
         /\ DOMAIN s \subseteq DOMAIN (s \o t) /\ << >> \o t = t
<1>1. s \o t \in Seq(Deck) /\ Len(s \o t) = Len(s) + Len(t)
  BY ConcatProperties
<1>2. << >> \o t = t
  BY ConcatEmptySeq
<1> QED  BY <1>1, <1>2, SeqDomain

LEMMA AskReadyIs ==
  ASSUME NEW w, NEW s
  PROVE  /\ Len(s) = 3 => AskReady(w, s) = w \cup {"ready"}
         /\ Len(s) # 3 => AskReady(w, s) = w
         /\ w \subseteq AskReady(w, s) /\ AskReady(w, s) \subseteq w \cup {"ready"}
  BY DEF AskReady

LEMMA ReadAddIs ==
  ASSUME NEW k, Kept(k), NEW m, m.action = "add", m.data \in Seq(Clients)
  PROVE  LET f == Read(k, m)
         IN  /\ Kept(f) /\ f.game = m.data /\ f.begun = FALSE
             /\ f.windows = AskReady(k.windows, m.data)
             /\ f.bids = k.bids /\ f.drawn = k.drawn /\ f.available = k.available
             /\ f.cards = k.cards /\ f.gone = k.gone
<1> DEFINE w == AskReady(k.windows, m.data)
           f == [k EXCEPT !.game = m.data, !.begun = FALSE, !.windows = w]
<1>1. Read(k, m) = f
  BY ReadIs DEF ReadAdd
<1>2. m.data # NoGame
  BY NoGameIs
<1>3. w \subseteq {"ready", "bids", "win"}
  BY AskReadyIs DEF Kept, States
<1> HIDE DEF w
<1>4. /\ Kept(f) /\ f.game = m.data /\ f.begun = FALSE /\ f.windows = w
      /\ f.bids = k.bids /\ f.drawn = k.drawn /\ f.available = k.available
      /\ f.cards = k.cards /\ f.gone = k.gone
  BY <1>2, <1>3 DEF Kept, States
<1> QED  BY <1>1, <1>4 DEF w

LEMMA ReadNewPlayerIs ==
  ASSUME NEW k, Kept(k), k.game # NoGame, NEW m, m.action = "new_player", m.data \in Clients
  PROVE  LET f == Read(k, m)
         IN  /\ Kept(f) /\ f.game = Append(k.game, m.data) /\ f.begun = k.begun
             /\ f.windows = AskReady(k.windows, f.game)
             /\ f.bids = k.bids /\ f.drawn = k.drawn /\ f.available = k.available
             /\ f.cards = k.cards /\ f.gone = k.gone
<1> DEFINE s == Append(k.game, m.data)
           w == AskReady(k.windows, s)
           f == [k EXCEPT !.game = s, !.windows = w]
<1>1. Read(k, m) = f
  BY ReadIs DEF ReadNewPlayer
<1>2. k.game \in Seq(Clients)
  BY DEF Kept, States
<1>3. s \in Seq(Clients) /\ s # NoGame
  BY <1>2, NoGameIs
<1>4. w \subseteq {"ready", "bids", "win"}
  BY AskReadyIs DEF Kept, States
<1> HIDE DEF w, s
<1>5. /\ Kept(f) /\ f.game = s /\ f.begun = k.begun /\ f.windows = w
      /\ f.bids = k.bids /\ f.drawn = k.drawn /\ f.available = k.available
      /\ f.cards = k.cards /\ f.gone = k.gone
  BY <1>3, <1>4 DEF Kept, States
<1> QED  BY <1>1, <1>5 DEF w, s

LEMMA AddCardsIs ==
  ASSUME NEW k, Kept(k), k.game # NoGame, NEW data, data \in Seq(Deck)
  PROVE  LET f == AddCards(k, data)
         IN  /\ Kept(f) /\ f.cards = k.cards \o data /\ f.drawn = DOMAIN f.cards
             /\ f.game = k.game /\ f.begun = k.begun /\ f.windows = k.windows
             /\ f.bids = k.bids /\ f.available = k.available /\ f.gone = k.gone
<1>1. k.cards \in Seq(Deck)
  BY DEF Kept, States
<1> DEFINE t == k.cards \o data
<1>2. /\ t \in Seq(Deck) /\ DOMAIN t = 1 .. Len(t) /\ DOMAIN k.cards \subseteq DOMAIN t
  BY <1>1, MoreCards
<1>3. DOMAIN t \subseteq Nat
  BY <1>2, SeqDomain
<1> HIDE DEF t
<1> QED  BY <1>2, <1>3 DEF AddCards, Kept, States, t

LEMMA ClearCardDataIs ==
  ASSUME NEW k, Kept(k)
  PROVE  LET f == ClearCardData(k)
         IN  /\ Kept(f) /\ f.cards = << >> /\ f.gone = {} /\ f.available = {} /\ f.drawn = {}
             /\ f.game = k.game /\ f.begun = k.begun /\ f.windows = k.windows
             /\ f.bids = k.bids
  BY EmptyCards DEF ClearCardData, Kept, States

LEMMA BegunIs ==
  ASSUME NEW k, Kept(k)
  PROVE  LET f == [k EXCEPT !.begun = TRUE]
         IN  /\ Kept(f) /\ f.begun = TRUE
             /\ f.cards = k.cards /\ f.gone = k.gone /\ f.available = k.available
             /\ f.drawn = k.drawn /\ f.game = k.game /\ f.windows = k.windows
             /\ f.bids = k.bids
  BY DEF Kept, States

\* What a deal adds its cards to.
Dealt(k) == IF k.begun THEN k ELSE ClearCardData(k)

LEMMA DealtIs ==
  ASSUME NEW k, Kept(k)
  PROVE  LET f == Dealt(k)
         IN  /\ Kept(f) /\ f.game = k.game /\ f.windows = k.windows /\ f.bids = k.bids
             /\ k.begun = TRUE => f = k
             /\ k.begun = FALSE =>
                  f.cards = << >> /\ f.gone = {} /\ f.available = {} /\ f.drawn = {}
<1>1. k.begun = TRUE \/ k.begun = FALSE
  BY DEF Kept, States
<1>2. CASE k.begun = TRUE
  BY <1>2 DEF Dealt
<1>3. CASE k.begun = FALSE
  <2>1. Dealt(k) = ClearCardData(k)
    BY <1>3 DEF Dealt
  <2> QED  BY <1>3, <2>1, ClearCardDataIs
<1> QED  BY <1>1, <1>2, <1>3

LEMMA ReadDealIs ==
  ASSUME NEW k, Kept(k), k.game # NoGame, NEW m, m.action = "deal", m.data \in Seq(Deck)
  PROVE  LET f == Read(k, m)
         IN  /\ Kept(f) /\ f.begun = TRUE /\ f.drawn = DOMAIN f.cards
             /\ f.game = k.game /\ f.windows = k.windows /\ f.bids = k.bids
             /\ f.cards = Dealt(k).cards \o m.data
             /\ f.gone = Dealt(k).gone /\ f.available = Dealt(k).available
<1> DEFINE a == Dealt(k)
           b == [a EXCEPT !.begun = TRUE]
           f == AddCards(b, m.data)
<1>1. Kept(a) /\ a.game = k.game /\ a.windows = k.windows /\ a.bids = k.bids
  BY DealtIs
<1>2. Read(k, m) = f
  <2>1. Read(k, m) = ReadDeal(k, m.data) /\ k.begun \in BOOLEAN
    BY ReadIs DEF Kept, States
  <2>2. CASE k.begun = TRUE
    <3>1. b = k
      BY <2>2 DEF Dealt, Kept, States
    <3> QED  BY <2>1, <2>2, <3>1 DEF ReadDeal
  <2>3. CASE k.begun = FALSE
    BY <2>1, <2>3 DEF ReadDeal, Dealt
  <2> QED  BY <2>1, <2>2, <2>3
<1> HIDE DEF a
<1>3. Kept(b) /\ b.cards = a.cards /\ b.gone = a.gone /\ b.available = a.available
      /\ b.begun = TRUE /\ b.game = a.game /\ b.windows = a.windows /\ b.bids = a.bids
  BY <1>1, BegunIs
<1> HIDE DEF b
<1>4. b.game # NoGame
  BY <1>1, <1>3
<1>5. /\ Kept(f) /\ f.cards = b.cards \o m.data /\ f.drawn = DOMAIN f.cards
      /\ f.game = b.game /\ f.begun = b.begun /\ f.windows = b.windows
      /\ f.bids = b.bids /\ f.available = b.available /\ f.gone = b.gone
  BY <1>3, <1>4, AddCardsIs
<1> HIDE DEF f
<1> QED  BY <1>1, <1>2, <1>3, <1>5 DEF a

LEMMA AllAvailableIs ==
  ASSUME NEW k, Kept(k)
  PROVE  LET f == AllAvailable(k)
         IN  /\ Kept(f) /\ f.available = DOMAIN k.cards
             /\ f.game = k.game /\ f.begun = k.begun /\ f.windows = k.windows
             /\ f.bids = k.bids /\ f.gone = k.gone /\ f.cards = k.cards /\ f.drawn = k.drawn
<1>1. DOMAIN k.cards \subseteq Nat
  BY SeqDomain DEF Kept, States
<1> QED  BY <1>1 DEF AllAvailable, Kept, States

LEMMA ReadStockIs ==
  ASSUME NEW k, Kept(k), k.game # NoGame, NEW m, m.action = "stock", m.data \in Seq(Deck)
  PROVE  LET f == Read(k, m)
         IN  /\ Kept(f) /\ f.cards = k.cards \o m.data
             /\ f.drawn = DOMAIN f.cards /\ f.available = DOMAIN f.cards
             /\ f.game = k.game /\ f.begun = k.begun /\ f.windows = k.windows
             /\ f.bids = k.bids /\ f.gone = k.gone
<1> DEFINE a == AddCards(k, m.data)
           f == AllAvailable(a)
<1>1. Read(k, m) = f
  BY ReadIs
<1>2. /\ Kept(a) /\ a.cards = k.cards \o m.data /\ a.drawn = DOMAIN a.cards
      /\ a.game = k.game /\ a.begun = k.begun /\ a.windows = k.windows
      /\ a.bids = k.bids /\ a.gone = k.gone
  BY AddCardsIs
<1> HIDE DEF a
<1>3. /\ Kept(f) /\ f.available = DOMAIN a.cards /\ f.cards = a.cards /\ f.drawn = a.drawn
      /\ f.game = a.game /\ f.begun = a.begun /\ f.windows = a.windows
      /\ f.bids = a.bids /\ f.gone = a.gone
  BY <1>2, AllAvailableIs
<1> HIDE DEF f
<1> QED  BY <1>1, <1>2, <1>3

LEMMA ReadStartIs ==
  ASSUME NEW k, Kept(k), k.game # NoGame, NEW m, m.action = "start"
  PROVE  LET f == Read(k, m)
         IN  /\ Kept(f) /\ f.available = DOMAIN k.cards
             /\ f.game = k.game /\ f.begun = k.begun /\ f.windows = k.windows
             /\ f.bids = k.bids /\ f.gone = k.gone /\ f.cards = k.cards /\ f.drawn = k.drawn
<1>1. Read(k, m) = AllAvailable(k)
  BY ReadIs
<1> QED  BY <1>1, AllAvailableIs

\* Whether the button to pass is shown.
Passing(cards) == IF Len(cards) # HandSize + 3 THEN {PASS} ELSE {}

LEMMA ReadBidIs ==
  ASSUME NEW k, Kept(k), k.game # NoGame, NEW m, m.action = "bid"
  PROVE  LET f == Read(k, m)
         IN  /\ Kept(f) /\ f.windows = k.windows \cup {"bids"}
             /\ f.bids = {b \in Bids : m.min =< b /\ b =< m.max} \cup Passing(k.cards)
             /\ f.game = k.game /\ f.begun = k.begun /\ f.available = k.available
             /\ f.gone = k.gone /\ f.cards = k.cards /\ f.drawn = k.drawn
<1> DEFINE w == k.windows \cup {"bids"}
           o == {b \in Bids : m.min =< b /\ b =< m.max} \cup Passing(k.cards)
           f == [k EXCEPT !.windows = w, !.bids = o]
<1>1. Read(k, m) = f
  <2>1. Read(k, m) = ReadBid(k, m.min, m.max)
    BY ReadIs
  <2> QED  BY <2>1, Zenon DEF ReadBid, Passing
<1>2. w \subseteq {"ready", "bids", "win"} /\ o \subseteq Bids \cup {PASS}
  BY DEF Kept, States, Passing
<1> HIDE DEF w, o
<1>3. /\ Kept(f) /\ f.windows = w /\ f.bids = o
      /\ f.game = k.game /\ f.begun = k.begun /\ f.available = k.available
      /\ f.gone = k.gone /\ f.cards = k.cards /\ f.drawn = k.drawn
  BY <1>2 DEF Kept, States
<1> QED  BY <1>1, <1>3 DEF w, o

LEMMA ReadPlayIs ==
  ASSUME NEW k, Kept(k), k.game # NoGame, NEW m, m.action = "play"
  PROVE  LET f == Read(k, m)
         IN  /\ m.available \subseteq DOMAIN k.cards <=> Kept(f)
             /\ f.available = m.available
             /\ f.game = k.game /\ f.begun = k.begun /\ f.windows = k.windows
             /\ f.bids = k.bids /\ f.gone = k.gone /\ f.cards = k.cards /\ f.drawn = k.drawn
<1>1. DOMAIN k.cards \subseteq Nat
  BY SeqDomain DEF Kept, States
<1>2. Read(k, m) = [k EXCEPT !.available = m.available]
  BY ReadIs
<1> QED  BY <1>1, <1>2 DEF Kept, States

LEMMA ReadScoreIs ==
  ASSUME NEW k, Kept(k), k.game # NoGame, NEW m, m.action = "score"
  PROVE  LET f == Read(k, m)
         IN  /\ Kept(f) /\ f.cards = << >> /\ f.gone = {} /\ f.available = {} /\ f.drawn = {}
             /\ f.game = k.game /\ f.begun = TRUE /\ f.windows = k.windows /\ f.bids = k.bids
<1> DEFINE a == ClearCardData(k)
<1>1. Kept(a) /\ a.cards = << >> /\ a.gone = {} /\ a.available = {} /\ a.drawn = {}
      /\ a.game = k.game /\ a.windows = k.windows /\ a.bids = k.bids
  BY ClearCardDataIs
<1>2. Read(k, m) = [a EXCEPT !.begun = TRUE]
  BY ReadIs DEF ReadScore
<1> HIDE DEF a
<1> QED  BY <1>1, <1>2, BegunIs

\* The windows after a message of the end of a game.
Announced(windows, found) == IF found THEN windows \cup {"win"} ELSE windows

LEMMA ReadEndIs ==
  ASSUME NEW k, Kept(k), k.game # NoGame, NEW m, m.action = "end"
  PROVE  LET f == Read(k, m)
         IN  /\ Kept(f) /\ f.begun = FALSE
             /\ f.windows = Announced(k.windows, m.data)
             /\ f.game = k.game /\ f.available = k.available /\ f.bids = k.bids
             /\ f.gone = k.gone /\ f.cards = k.cards /\ f.drawn = k.drawn
<1> DEFINE w == Announced(k.windows, m.data)
           f == [k EXCEPT !.begun = FALSE, !.windows = w]
<1>1. Read(k, m) = f
  BY ReadIs DEF ReadEnd, Announced
<1>2. w \subseteq {"ready", "bids", "win"}
  BY DEF Kept, States, Announced
<1> HIDE DEF w
<1>3. /\ Kept(f) /\ f.begun = FALSE /\ f.windows = w
      /\ f.game = k.game /\ f.available = k.available /\ f.bids = k.bids
      /\ f.gone = k.gone /\ f.cards = k.cards /\ f.drawn = k.drawn
  BY <1>2 DEF Kept, States
<1> QED  BY <1>1, <1>3 DEF w

LEMMA HideModalsIs ==
  ASSUME NEW k, Kept(k)
  PROVE  LET f == HideModals(k)
         IN  /\ Kept(f) /\ f.windows = {} /\ f.bids = {}
             /\ f.game = k.game /\ f.begun = k.begun /\ f.available = k.available
             /\ f.gone = k.gone /\ f.cards = k.cards /\ f.drawn = k.drawn
  BY DEF HideModals, Kept, States

LEMMA ReadLeaveIs ==
  ASSUME NEW k, Kept(k), k.game # NoGame, NEW m, m.action = "leave"
  PROVE  LET f == Read(k, m)
         IN  /\ Kept(f) /\ f.game = RemoveFirst(k.game, m.data) /\ f.game \in Seq(Clients)
             /\ f.begun = k.begun /\ f.windows = {} /\ f.bids = {}
             /\ f.cards = << >> /\ f.gone = {} /\ f.available = {} /\ f.drawn = {}
<1> DEFINE a == HideModals(k)
           b == ClearCardData(a)
<1>1. Kept(a) /\ a.windows = {} /\ a.bids = {} /\ a.game = k.game /\ a.begun = k.begun
  BY HideModalsIs
<1> HIDE DEF a
<1>2. /\ Kept(b) /\ b.windows = {} /\ b.bids = {} /\ b.game = k.game /\ b.begun = k.begun
      /\ b.cards = << >> /\ b.gone = {} /\ b.available = {} /\ b.drawn = {}
  BY <1>1, ClearCardDataIs
<1>3. Read(k, m) = [b EXCEPT !.game = RemoveFirst(b.game, m.data)]
  <2>1. ReadLeave(k, m.data) = [b EXCEPT !.game = RemoveFirst(@, m.data)]
    BY DEF ReadLeave, a
  <2> QED  BY <2>1, ReadIs
<1> HIDE DEF b
<1>4. RemoveFirst(b.game, m.data) \in Seq(Clients)
  BY <1>2, NoGameIs DEF Kept, States
<1> QED  BY <1>2, <1>3, <1>4 DEF Kept, States

-----------------------------------------------------------------------------
(***************************************************************************)
(* What a client goes through as it reads the messages on their way to it. *)
(***************************************************************************)
Reading(k, r, v) == v[0] = k /\ \A i \in 1 .. Len(r) : v[i] = Read(v[i - 1], r[i])

\* The last message is the one the fold reads last.
LEMMA MaxLast ==
  ASSUME NEW m \in Nat, NEW s, s \subseteq 1 .. m + 1, m + 1 \in s
  PROVE  Max(s) = m + 1
<1> DEFINE k == m + 1
<1>1. k \in s /\ \A y \in s : y \in Int /\ y =< k /\ k >= y
  OBVIOUS
<1>2. \A x \in s : (\A y \in s : x >= y) => x = k
  BY <1>1
<1> HIDE DEF k
<1>3. Max(s) = k
  BY <1>1, <1>2 DEF Max
<1> QED  BY <1>3 DEF k

(***************************************************************************)
(* The fold that is the state after reading ends where the reading ends.    *)
(***************************************************************************)
LEMMA ReadingEnds ==
  ASSUME NEW c, IsSeq(toClient[c]), NEW v, Reading(client[c], toClient[c], v)
  PROVE  AfterReading(c) = v[Len(toClient[c])]
<1> DEFINE r == toClient[c]
           base == client[c]
           n == Len(r)
           Fold(m, h) == h = [s \in SUBSET (1 .. m) |->
                                IF s = {} THEN base ELSE Read(h[s \ {Max(s)}], r[Max(s)])]
<1>1. n \in Nat /\ DOMAIN r = 1 .. n
  BY LenProperties DEF IsSeq
<1>2. AfterReading(c) = (CHOOSE h : Fold(n, h))[1 .. n]
  BY <1>1 DEF AfterReading, FoldLeft, MapThenFoldSet
<1>3. \A m \in 0 .. n : \E h : Fold(m, h)
  <2> DEFINE T == {m \in 0 .. n : ~ \E h : Fold(m, h)}
  <2> SUFFICES ASSUME T # {} PROVE FALSE
    OBVIOUS
  <2>1. T \subseteq Nat
    BY <1>1
  <2>2. PICK m \in T : \A y \in T : m =< y
    BY <2>1, Smallest
  <2>3. m # 0
    <3>1. SUBSET (1 .. 0) = {{}}
      OBVIOUS
    <3> DEFINE h == [s \in {{}} |-> base]
    <3>2. Fold(0, h)
      BY <3>1
    <3> QED  BY <2>2, <3>2
  <2> DEFINE l == m - 1
  <2>4. l \in 0 .. n /\ m = l + 1 /\ l \in Nat /\ ~ (m =< l)
    BY <1>1, <2>2, <2>3
  <2>5. PICK g : Fold(l, g)
    <3> HIDE DEF Fold
    <3> QED  BY <2>2, <2>4
  <2> DEFINE h == [s \in SUBSET (1 .. m) |-> IF m \in s THEN Read(g[s \ {m}], r[m]) ELSE g[s]]
  <2>6. \A s \in SUBSET (1 .. l) : g[s] = IF s = {} THEN base ELSE Read(g[s \ {Max(s)}], r[Max(s)])
    BY <2>5
  <2>7. ASSUME NEW s \in SUBSET (1 .. m)
        PROVE  h[s] = IF s = {} THEN base ELSE Read(h[s \ {Max(s)}], r[Max(s)])
    <3>1. CASE m \in s
      <4>1. Max(s) = m
        BY <2>4, <3>1, MaxLast
      <4>2. s \ {m} \in SUBSET (1 .. m) /\ m \notin s \ {m} /\ s # {}
        BY <3>1
      <4>3. h[s] = Read(g[s \ {m}], r[m]) /\ h[s \ {m}] = g[s \ {m}]
        BY <3>1, <4>2
      <4> HIDE DEF h
      <4> QED  BY <4>1, <4>2, <4>3
    <3>2. CASE m \notin s
      <4>1. s \in SUBSET (1 .. l)
        BY <2>4, <3>2
      <4>2. s # {} => s \ {Max(s)} \in SUBSET (1 .. m) /\ m \notin s \ {Max(s)}
        BY <3>2
      <4>3. h[s] = g[s] /\ (s # {} => h[s \ {Max(s)}] = g[s \ {Max(s)}])
        BY <3>2, <4>2
      <4> HIDE DEF h
      <4> QED  BY <2>6, <4>1, <4>3
    <3> QED  BY <3>1, <3>2
  <2>8. h = [s \in SUBSET (1 .. m) |-> h[s]]
    OBVIOUS
  <2> HIDE DEF h
  <2>9. Fold(m, h)
    BY <2>7, <2>8
  <2> HIDE DEF Fold
  <2> QED  BY <2>2, <2>9
<1>4. ASSUME NEW h, Fold(n, h)
      PROVE  h[1 .. n] = v[n]
  <2>1. \A s \in SUBSET (1 .. n) : h[s] = IF s = {} THEN base ELSE Read(h[s \ {Max(s)}], r[Max(s)])
    BY <1>4
  <2> DEFINE T == {m \in 0 .. n : h[1 .. m] # v[m]}
  <2> SUFFICES ASSUME T # {} PROVE FALSE
    BY <1>1
  <2>2. T \subseteq Nat
    BY <1>1
  <2>3. PICK m \in T : \A y \in T : m =< y
    BY <2>2, Smallest
  <2>4. m # 0
    <3>1. 1 .. 0 = {} /\ {} \in SUBSET (1 .. n)
      OBVIOUS
    <3>2. h[{}] = base
      BY <2>1, <3>1
    <3> QED  BY <2>3, <3>1, <3>2 DEF Reading
  <2> DEFINE l == m - 1
  <2>5. l \in 0 .. n /\ m = l + 1 /\ l \in Nat /\ ~ (m =< l) /\ m \in 1 .. n
    BY <1>1, <2>3, <2>4
  <2>6. h[1 .. l] = v[l]
    BY <2>3, <2>5
  <2>7. 1 .. m \in SUBSET (1 .. n) /\ 1 .. m # {} /\ (1 .. m) \ {m} = 1 .. l /\ m \in 1 .. m
    <3> HIDE DEF n, l
    <3>1. n \in Nat /\ m \in 1 .. n /\ l \in Nat /\ m = l + 1
      BY <1>1, <2>5
    <3>2. \A x : x \in 1 .. m => x \in 1 .. n
      BY <3>1
    <3>3. m \in 1 .. m
      BY <3>1
    <3>4. \A x : x \in (1 .. m) \ {m} <=> x \in 1 .. l
      BY <3>1
    <3> QED  BY <3>2, <3>3, <3>4
  <2>8. Max(1 .. m) = m
    BY <2>5, <2>7, MaxLast
  <2>9. h[1 .. m] = Read(h[1 .. l], r[m])
    BY <2>1, <2>7, <2>8
  <2>10. v[m] = Read(v[l], r[m])
    BY <2>5 DEF Reading
  <2> QED  BY <2>3, <2>6, <2>9, <2>10
<1>5. (CHOOSE h : Fold(n, h))[1 .. n] = v[n]
  <2> HIDE DEF Fold
  <2>1. Fold(n, CHOOSE h : Fold(n, h))
    BY <1>1, <1>3
  <2> QED  BY <1>4, <2>1
<1> QED  BY <1>2, <1>5

LEMMA ReadingExists ==
  ASSUME NEW k, NEW r, IsSeq(r)
  PROVE  \E v : Reading(k, r, v)
<1> DEFINE n == Len(r)
           Up(m) == \E v : v[0] = k /\ \A i \in 1 .. m : v[i] = Read(v[i - 1], r[i])
           T == {m \in 0 .. n : Up(m)}
<1>1. n \in Nat
  BY EmptyIs
<1>2. 0 \in T
  <2>1. [i \in {0} |-> k][0] = k /\ 1 .. 0 = {}
    OBVIOUS
  <2>2. Up(0)
    BY <2>1
  <2> QED  BY <1>1, <2>2
<1>3. ASSUME NEW m \in 1 .. n, m - 1 \in T
      PROVE  m \in T
  <2> DEFINE l == m - 1
  <2>1. l \in Nat /\ m = l + 1 /\ m \in 0 .. n
    BY <1>1
  <2>2. PICK v : v[0] = k /\ \A i \in 1 .. l : v[i] = Read(v[i - 1], r[i])
    BY <1>3
  <2> HIDE DEF l
  <2> DEFINE w == [i \in 0 .. m |-> IF i = m THEN Read(v[l], r[m]) ELSE v[i]]
  <2>3. (\A i \in 0 .. l : w[i] = v[i]) /\ w[m] = Read(v[l], r[m])
    BY <2>1
  <2> HIDE DEF w
  <2>4. ASSUME NEW i \in 1 .. m
        PROVE  w[i] = Read(w[i - 1], r[i])
    <3>1. CASE i = m
      <4>1. i - 1 = l /\ l \in 0 .. l
        BY <2>1, <3>1
      <4> QED  BY <2>3, <3>1, <4>1
    <3>2. CASE i # m
      <4>1. i \in 1 .. l /\ i \in 0 .. l /\ i - 1 \in 0 .. l
        BY <2>1, <3>2
      <4> QED  BY <2>2, <2>3, <4>1
    <3> QED  BY <3>1, <3>2
  <2>5. w[0] = k
    BY <2>1, <2>2, <2>3
  <2>6. Up(m)
    BY <2>4, <2>5
  <2> HIDE DEF Up
  <2> QED  BY <2>1, <2>6
<1> HIDE DEF T
<1>4. n \in T
  <2>1. n \in 0 .. n /\ \A m \in 1 .. n : m - 1 \in T => m \in T
    BY <1>1, <1>3
  <2> QED  BY <1>1, <1>2, <2>1, Upwards
<1>5. Up(n)
  BY <1>4 DEF T
<1> QED  BY <1>5 DEF Reading

LEMMA ReadingAppend ==
  ASSUME NEW r, IsSeq(r), NEW m, NEW k, NEW v, Reading(k, r, v)
  PROVE  \E w : /\ Reading(k, Append(r, m), w)
                /\ \A i \in 0 .. Len(r) : w[i] = v[i]
                /\ w[Len(r) + 1] = Read(v[Len(r)], m)
<1> DEFINE n == Len(r)
           t == Append(r, m)
           w == [i \in 0 .. n + 1 |-> IF i = n + 1 THEN Read(v[n], m) ELSE v[i]]
<1>1. n \in Nat /\ Len(t) = n + 1 /\ (\A i \in 1 .. n : t[i] = r[i]) /\ t[n + 1] = m
  BY AppendIs
<1> HIDE DEF n, t
<1>2. (\A i \in 0 .. n : w[i] = v[i]) /\ w[n + 1] = Read(v[n], m)
  BY <1>1
<1> HIDE DEF w
<1>3. ASSUME NEW i \in 1 .. n + 1
      PROVE  w[i] = Read(w[i - 1], t[i])
  <2>1. CASE i \in 1 .. n
    <3>1. i - 1 \in 0 .. n /\ i \in 0 .. n
      BY <1>1, <2>1
    <3> QED  BY <1>1, <1>2, <2>1, <3>1 DEF Reading, n
  <2>2. CASE i = n + 1
    <3>1. i - 1 = n /\ n \in 0 .. n
      BY <1>1, <2>2
    <3> QED  BY <1>1, <1>2, <2>2, <3>1
  <2> QED  BY <1>1, <2>1, <2>2
<1>4. w[0] = k
  BY <1>1, <1>2 DEF Reading
<1> QED  BY <1>1, <1>2, <1>3, <1>4 DEF Reading, n, t

LEMMA ReadingTail ==
  ASSUME NEW r, IsSeq(r), r # << >>, NEW k, NEW v, Reading(k, r, v)
  PROVE  \E w : /\ Reading(Read(k, Head(r)), Tail(r), w)
                /\ \A i \in 0 .. Len(r) - 1 : w[i] = v[i + 1]
<1> DEFINE n == Len(r)
           t == Tail(r)
           w == [i \in 0 .. n - 1 |-> v[i + 1]]
<1>1. n \in Nat \ {0} /\ Len(t) = n - 1 /\ (\A i \in 1 .. n - 1 : t[i] = r[i + 1]) /\ Head(r) = r[1]
  BY TailIs
<1> HIDE DEF n, t
<1>2. \A i \in 0 .. n - 1 : w[i] = v[i + 1]
  OBVIOUS
<1> HIDE DEF w
<1>3. ASSUME NEW i \in 1 .. n - 1
      PROVE  w[i] = Read(w[i - 1], t[i])
  <2>1. i \in 0 .. n - 1 /\ i - 1 \in 0 .. n - 1 /\ (i - 1) + 1 = i /\ i + 1 \in 1 .. n
        /\ (i + 1) - 1 = i
    BY <1>1
  <2>2. w[i] = v[i + 1] /\ w[i - 1] = v[i] /\ t[i] = r[i + 1]
    BY <1>1, <1>2, <2>1
  <2> DEFINE l == i + 1
  <2>3. l \in 1 .. n /\ l - 1 = i
    BY <2>1
  <2> HIDE DEF l
  <2>4. v[l] = Read(v[i], r[l])
    BY <2>3 DEF Reading, n
  <2> QED  BY <2>2, <2>4 DEF l
<1>4. w[0] = v[1]
  BY <1>1, <1>2
<1>5. v[1] = Read(k, Head(r))
  <2>1. 1 \in 1 .. n /\ 1 - 1 = 0
    BY <1>1
  <2> QED  BY <1>1, <2>1 DEF Reading, n
<1> QED  BY <1>1, <1>2, <1>3, <1>4, <1>5 DEF Reading, n, t

-----------------------------------------------------------------------------
(***************************************************************************)
(* A client with nothing to click, and one in whose window of the end of a *)
(* game there is nothing else to lose.                                     *)
(***************************************************************************)
Mute(k) == "ready" \notin k.windows /\ k.bids = {} /\ k.available \cap k.drawn = {}

Calm(k) ==
  "win" \in k.windows => /\ k.drawn = {} /\ k.bids = {} /\ "bids" \notin k.windows
                         /\ Len(k.game) = 3 => "ready" \in k.windows

\* After the i-th message of r no leave is left to read.
Live(r, i) == \A j \in i + 1 .. Len(r) : r[j].action # "leave"

(***************************************************************************)
(* Messages that fit a client that keeps k: it is sent a list of players   *)
(* once, when it has no game.                                              *)
(***************************************************************************)
Mail(k, r) ==
  /\ IsSeq(r)
  /\ \A i \in 1 .. Len(r) :
       /\ Sane(r[i])
       /\ r[i].action = "add" => /\ k.game = NoGame
                                 /\ \A j \in 1 .. Len(r) : r[j].action = "add" => j = i

(***************************************************************************)
(* A client that keeps k will keep e when it has read r.  Unless a leave   *)
(* is still to come, it has nothing to click before that.                  *)
(***************************************************************************)
Ends(k, r, e) ==
  /\ Mail(k, r)
  /\ \E v : /\ Reading(k, r, v) /\ v[Len(r)] = e
            /\ \A i \in 0 .. Len(r) :
                 /\ Kept(v[i])
                 /\ Live(r, i) => Calm(v[i]) /\ (i < Len(r) => Mute(v[i]))

\* A client that has left, or has not come yet.
Off(k, r) == Mail(k, r) /\ Kept(k) /\ k.game = NoGame /\ ~ Has(r, "add")

LEMMA EndsKept ==
  ASSUME NEW k, NEW r, NEW e, Ends(k, r, e)
  PROVE  /\ Kept(k) /\ Kept(e) /\ Calm(e) /\ Mail(k, r)
         /\ ~ Has(r, "leave") => Calm(k) /\ (r # << >> => Mute(k)) /\ (r = << >> => e = k)
<1>1. PICK v : /\ Reading(k, r, v) /\ v[Len(r)] = e
               /\ \A i \in 0 .. Len(r) :
                    /\ Kept(v[i])
                    /\ Live(r, i) => Calm(v[i]) /\ (i < Len(r) => Mute(v[i]))
  BY DEF Ends
<1>2. Mail(k, r) /\ Len(r) \in Nat /\ (Len(r) = 0 <=> r = << >>)
  BY EmptyIs DEF Ends, Mail
<1>3. 0 \in 0 .. Len(r) /\ Len(r) \in 0 .. Len(r) /\ Live(r, Len(r))
  BY <1>2 DEF Live
<1>4. v[0] = k
  BY <1>1 DEF Reading
<1>5. ~ Has(r, "leave") => Live(r, 0)
  BY DEF Has, Live
<1>6. r # << >> => 0 < Len(r)
  BY <1>2
<1> QED  BY <1>1, <1>2, <1>3, <1>4, <1>5, <1>6

LEMMA EndsNow ==
  ASSUME NEW k, Kept(k), Calm(k)
  PROVE  Ends(k, << >>, k)
<1> DEFINE v == [i \in {0} |-> k]
<1>1. v[0] = k /\ Len(<< >>) = 0 /\ IsSeq(<< >>) /\ 0 .. 0 = {0} /\ 1 .. 0 = {}
  BY EmptyIs
<1> HIDE DEF v
<1>2. Reading(k, << >>, v) /\ Mail(k, << >>)
  BY <1>1 DEF Reading, Mail
<1>3. \A i \in 0 .. Len(<< >>) : i = 0
  BY <1>1
<1>4. \A i \in 0 .. Len(<< >>) : Kept(v[i]) /\ Calm(v[i]) /\ ~ (i < Len(<< >>))
  BY <1>1, <1>3
<1> QED  BY <1>1, <1>2, <1>4 DEF Ends

LEMMA MailAppend ==
  ASSUME NEW k, NEW r, Mail(k, r), NEW m, Sane(m),
         m.action = "add" => k.game = NoGame /\ ~ Has(r, "add")
  PROVE  Mail(k, Append(r, m))
<1> DEFINE t == Append(r, m)
<1>1. /\ IsSeq(t) /\ Len(r) \in Nat /\ Len(t) = Len(r) + 1
      /\ (\A i \in 1 .. Len(r) : t[i] = r[i]) /\ t[Len(r) + 1] = m
  BY AppendIs DEF Mail
<1> HIDE DEF t
<1>2. \A i \in 1 .. Len(t) : i \in 1 .. Len(r) \/ i = Len(r) + 1
  BY <1>1
<1> QED  BY <1>1, <1>2 DEF Mail, Has, t

LEMMA EndsAppend ==
  ASSUME NEW k, NEW r, NEW e, Ends(k, r, e), NEW m, Sane(m),
         m.action = "add" => k.game = NoGame /\ ~ Has(r, "add"),
         m.action # "leave" => Mute(e), Kept(Read(e, m)), Calm(Read(e, m))
  PROVE  Ends(k, Append(r, m), Read(e, m))
<1> DEFINE n == Len(r)
           t == Append(r, m)
           f == Read(e, m)
<1>1. PICK v : /\ Reading(k, r, v) /\ v[n] = e
               /\ \A i \in 0 .. n : /\ Kept(v[i])
                                    /\ Live(r, i) => Calm(v[i]) /\ (i < n => Mute(v[i]))
  BY DEF Ends
<1>2. Mail(k, r) /\ IsSeq(r) /\ n \in Nat
  BY EmptyIs DEF Ends, Mail
<1>3. Mail(k, t)
  BY <1>2, MailAppend
<1>4. PICK w : Reading(k, t, w) /\ (\A i \in 0 .. n : w[i] = v[i]) /\ w[n + 1] = Read(v[n], m)
  BY <1>1, <1>2, ReadingAppend
<1>5. Len(t) = n + 1 /\ (\A i \in 1 .. n : t[i] = r[i]) /\ t[n + 1] = m
  BY <1>2, AppendIs
<1> HIDE DEF t, f
<1>6. w[n + 1] = f
  BY <1>1, <1>4 DEF f
<1>7. ASSUME NEW i \in 0 .. n + 1
      PROVE  Kept(w[i]) /\ (Live(t, i) => Calm(w[i]) /\ (i < n + 1 => Mute(w[i])))
  <2>1. CASE i = n + 1
    <3>1. ~ (i < n + 1)
      BY <1>2, <2>1
    <3> QED  BY <1>6, <2>1, <3>1 DEF f
  <2>2. CASE i # n + 1
    <3>1. i \in 0 .. n /\ w[i] = v[i]
      BY <1>2, <1>4, <2>2
    <3>2. ASSUME Live(t, i)
          PROVE  Live(r, i) /\ m.action # "leave"
      <4>1. \A j \in i + 1 .. n : j \in i + 1 .. n + 1 /\ j \in 1 .. n
        BY <1>2, <3>1
      <4>2. n + 1 \in i + 1 .. n + 1
        BY <1>2, <3>1
      <4> QED  BY <1>5, <3>2, <4>1, <4>2 DEF Live, n
    <3>3. i < n \/ i = n
      BY <1>2, <3>1
    <3> QED  BY <1>1, <3>1, <3>2, <3>3
  <2> QED  BY <2>1, <2>2
<1>8. \A i \in 0 .. Len(t) : Kept(w[i]) /\ (Live(t, i) => Calm(w[i]) /\ (i < Len(t) => Mute(w[i])))
  BY <1>5, <1>7
<1>9. w[Len(t)] = f
  BY <1>5, <1>6
<1> QED  BY <1>3, <1>4, <1>8, <1>9 DEF Ends, t, f

LEMMA EndsTail ==
  ASSUME NEW k, NEW r, NEW e, Ends(k, r, e), r # << >>
  PROVE  Ends(Read(k, Head(r)), Tail(r), e)
<1> DEFINE n == Len(r)
           t == Tail(r)
           l == Read(k, Head(r))
<1>1. PICK v : /\ Reading(k, r, v) /\ v[n] = e
               /\ \A i \in 0 .. n : /\ Kept(v[i])
                                    /\ Live(r, i) => Calm(v[i]) /\ (i < n => Mute(v[i]))
  BY DEF Ends
<1>2. Mail(k, r) /\ IsSeq(r)
  BY DEF Ends, Mail
<1>3. /\ IsSeq(t) /\ Len(t) = n - 1 /\ n \in Nat \ {0}
      /\ (\A i \in 1 .. Len(t) : t[i] = r[i + 1]) /\ Head(r) = r[1]
  BY <1>2, TailIs
<1>4. PICK w : Reading(l, t, w) /\ \A i \in 0 .. n - 1 : w[i] = v[i + 1]
  BY <1>1, <1>2, ReadingTail
<1>5. Sane(r[1]) /\ (k.game = NoGame /\ r[1].action # "add" => l = k)
  <2>1. 1 \in 1 .. n
    BY <1>3
  <2> QED  BY <1>2, <1>3, <2>1, ReadNoGame DEF Mail, Sane
<1> HIDE DEF n, t, l
<1>6. Mail(l, t)
  <2>1. ASSUME NEW i \in 1 .. Len(t)
        PROVE  /\ Sane(t[i])
               /\ t[i].action = "add" => /\ l.game = NoGame
                                         /\ \A j \in 1 .. Len(t) : t[j].action = "add" => j = i
    <3>1. \A j \in 1 .. Len(t) : j + 1 \in 1 .. n /\ t[j] = r[j + 1] /\ j + 1 # 1
      BY <1>3
    <3>2. Sane(t[i])
      BY <1>2, <3>1 DEF Mail, n
    <3>3. ASSUME t[i].action = "add"
          PROVE  l.game = NoGame /\ \A j \in 1 .. Len(t) : t[j].action = "add" => j = i
      <4>1. k.game = NoGame /\ \A j \in 1 .. n : r[j].action = "add" => j = i + 1
        BY <1>2, <3>1, <3>3 DEF Mail, n
      <4>2. 1 \in 1 .. n /\ 1 # i + 1
        BY <1>3
      <4>3. l.game = NoGame
        BY <1>5, <4>1, <4>2
      <4>4. \A j \in 1 .. Len(t) : t[j].action = "add" => j + 1 = i + 1
        BY <3>1, <4>1
      <4>5. \A j \in 1 .. Len(t) : j + 1 = i + 1 => j = i
        OBVIOUS
      <4> QED  BY <4>3, <4>4, <4>5
    <3> QED  BY <3>2, <3>3
  <2> QED  BY <1>3, <2>1 DEF Mail
<1>7. ASSUME NEW i \in 0 .. Len(t)
      PROVE  Kept(w[i]) /\ (Live(t, i) => Calm(w[i]) /\ (i < Len(t) => Mute(w[i])))
  <2>1. i \in 0 .. n - 1 /\ i + 1 \in 0 .. n /\ w[i] = v[i + 1]
    BY <1>3, <1>4
  <2>2. ASSUME Live(t, i)
        PROVE  Live(r, i + 1)
    <3>1. SUFFICES ASSUME NEW j \in (i + 1) + 1 .. n
                   PROVE  r[j].action # "leave"
      BY DEF Live, n
    <3>2. j - 1 \in i + 1 .. Len(t) /\ j - 1 \in 1 .. Len(t) /\ (j - 1) + 1 = j
      BY <1>3, <2>1
    <3>3. t[j - 1] = r[j]
      BY <1>3, <3>2
    <3> QED  BY <2>2, <3>2, <3>3 DEF Live
  <2>3. i < Len(t) => i + 1 < n
    BY <1>3, <2>1
  <2> QED  BY <1>1, <2>1, <2>2, <2>3
<1>8. w[Len(t)] = e
  <2>1. Len(t) \in 0 .. n - 1 /\ Len(t) + 1 = n
    BY <1>3
  <2> QED  BY <1>1, <1>4, <2>1
<1> QED  BY <1>4, <1>6, <1>7, <1>8 DEF Ends, t, l

(***************************************************************************)
(* A client without a game stays as it is.                                 *)
(***************************************************************************)
LEMMA OffReads ==
  ASSUME NEW k, NEW r, Mail(k, r), k.game = NoGame, ~ Has(r, "add"), NEW v, Reading(k, r, v)
  PROVE  \A i \in 0 .. Len(r) : v[i] = k
<1> DEFINE T == {i \in 0 .. Len(r) : v[i] = k}
<1>1. Len(r) \in Nat
  BY EmptyIs DEF Mail
<1>2. 0 \in T
  BY <1>1 DEF Reading
<1>3. ASSUME NEW i \in 1 .. Len(r), i - 1 \in T
      PROVE  i \in T
  <2>1. v[i] = Read(k, r[i]) /\ i \in 0 .. Len(r)
    BY <1>1, <1>3 DEF Reading
  <2>2. r[i].action \in ClientActions \ {"add"}
    BY DEF Mail, Sane, Has
  <2>3. Read(k, r[i]) = k
    BY <2>2, ReadNoGame
  <2> QED  BY <2>1, <2>3
<1> HIDE DEF T
<1>4. \A i \in 0 .. Len(r) : i \in T
  BY <1>1, <1>2, <1>3, Upwards
<1> QED  BY <1>4 DEF T

LEMMA EndsOff ==
  ASSUME NEW k, NEW r, Mail(k, r), k.game = NoGame, ~ Has(r, "add")
  PROVE  /\ \A e : Ends(k, r, e) => e = k
         /\ Kept(k) => Ends(k, r, k)
<1>1. Len(r) \in Nat /\ Len(r) \in 0 .. Len(r)
  BY EmptyIs DEF Mail
<1>2. ASSUME NEW e, Ends(k, r, e)
      PROVE  e = k
  <2>1. PICK v : Reading(k, r, v) /\ v[Len(r)] = e
    BY <1>2 DEF Ends
  <2> QED  BY <1>1, <2>1, OffReads
<1>3. ASSUME Kept(k)
      PROVE  Ends(k, r, k)
  <2>1. PICK v : Reading(k, r, v)
    BY ReadingExists DEF Mail
  <2>2. \A i \in 0 .. Len(r) : v[i] = k
    BY <2>1, OffReads
  <2>3. Calm(k) /\ Mute(k)
    BY <1>3 DEF Kept, Calm, Mute
  <2> QED  BY <1>1, <1>3, <2>1, <2>2, <2>3 DEF Ends
<1> QED  BY <1>2, <1>3

LEMMA OffTail ==
  ASSUME NEW k, NEW r, Off(k, r), r # << >>
  PROVE  Off(Read(k, Head(r)), Tail(r)) /\ Read(k, Head(r)) = k
<1>1. Kept(k) /\ Mail(k, r) /\ k.game = NoGame /\ ~ Has(r, "add") /\ IsSeq(r)
  BY DEF Off, Mail
<1>2. Ends(k, r, k)
  BY <1>1, EndsOff
<1>3. Ends(Read(k, Head(r)), Tail(r), k)
  BY <1>2, EndsTail
<1>4. ~ Has(Tail(r), "add") /\ Head(r).action # "add" /\ Head(r) = r[1] /\ 1 \in 1 .. Len(r)
  BY <1>1, TailIs
<1>5. Read(k, Head(r)) = k
  BY <1>1, <1>4, ReadNoGame DEF Mail, Sane
<1>6. Mail(k, Tail(r))
  BY <1>3, <1>5 DEF Ends
<1> QED  BY <1>1, <1>4, <1>5, <1>6 DEF Off

LEMMA OffAppend ==
  ASSUME NEW k, NEW r, Off(k, r), NEW m, Sane(m), m.action # "add"
  PROVE  Off(k, Append(r, m))
<1>1. Mail(k, Append(r, m))
  BY MailAppend DEF Off
<1>2. ~ Has(Append(r, m), "add")
  BY AppendIs DEF Off, Mail
<1> QED  BY <1>1, <1>2 DEF Off

(***************************************************************************)
(* Two states that differ in what a leave wipes out: clicks and windows    *)
(* before it has been read come to nothing.                                *)
(***************************************************************************)
Similar(a, b) == a.cards = b.cards /\ a.game = b.game /\ a.begun = b.begun

LEMMA ReadGameKept ==
  ASSUME NEW k, Kept(k), k.game # NoGame, NEW m, Sane(m), m.action # "add"
  PROVE  Read(k, m).game # NoGame
<1>1. k.game \in Seq(Clients)
  BY DEF Kept, States
<1>2. CASE m.action = "new_player"
  BY SMTT(30), <1>1, <1>2, ReadNewPlayerIs, NoGameIs DEF Sane
<1>3. CASE m.action = "leave"
  BY <1>1, <1>3, ReadLeaveIs, NoGameIs
<1>4. CASE m.action \in {"deal", "stock"}
  <2>1. m.data \in Seq(Deck)
    BY <1>4 DEF Sane
  <2>2. m.action = "deal" => Read(k, m).game = k.game
    BY <2>1, ReadDealIs
  <2>3. m.action = "stock" => Read(k, m).game = k.game
    BY <2>1, ReadStockIs
  <2> QED  BY <1>4, <2>2, <2>3
<1>5. CASE m.action \in {"bid", "start", "play"}
  BY <1>5, ReadBidIs, ReadStartIs, ReadPlayIs
<1>6. CASE m.action \in {"score", "end"}
  BY ZenonT(60), <1>6, ReadScoreIs, ReadEndIs
<1>7. m.action \in ClientActions /\ m.action # "add"
  BY DEF Sane
<1> QED  BY <1>2, <1>3, <1>4, <1>5, <1>6, <1>7 DEF ClientActions

LEMMA ReadSimilar ==
  ASSUME NEW k, Kept(k), k.game # NoGame, NEW l, Kept(l), Similar(l, k),
         NEW m, Sane(m), m.action # "add", Kept(Read(k, m))
  PROVE  /\ Kept(Read(l, m)) /\ Similar(Read(l, m), Read(k, m))
         /\ m.action = "leave" => Read(l, m) = Read(k, m)
<1>1. l.cards = k.cards /\ l.game = k.game /\ l.begun = k.begun /\ l.game # NoGame
  BY DEF Similar
<1>2. CASE m.action = "new_player"
  <2>1. m.data \in Clients
    BY <1>2 DEF Sane
  <2> QED  BY SMTT(30), <1>1, <1>2, <2>1, ReadNewPlayerIs DEF Similar
<1>3. CASE m.action = "leave"
  <2> DEFINE f == Read(k, m)
             g == Read(l, m)
  <2>2. /\ Kept(f) /\ f.game = RemoveFirst(k.game, m.data) /\ f.begun = k.begun
        /\ f.windows = {} /\ f.bids = {}
        /\ f.cards = << >> /\ f.gone = {} /\ f.available = {} /\ f.drawn = {}
    BY <1>3, ReadLeaveIs
  <2>3. /\ Kept(g) /\ g.game = RemoveFirst(l.game, m.data) /\ g.begun = l.begun
        /\ g.windows = {} /\ g.bids = {}
        /\ g.cards = << >> /\ g.gone = {} /\ g.available = {} /\ g.drawn = {}
    BY <1>1, <1>3, ReadLeaveIs
  <2> HIDE DEF f, g
  <2>4. g = f
    BY ZenonT(60), <1>1, <2>2, <2>3, SameState DEF Kept
  <2> QED  BY <2>3, <2>4 DEF Similar, f, g
<1>4. CASE m.action = "deal"
  <2>1. m.data \in Seq(Deck)
    BY <1>4 DEF Sane
  <2>2. /\ Kept(Read(k, m)) /\ Read(k, m).begun = TRUE /\ Read(k, m).game = k.game
        /\ Read(k, m).cards = Dealt(k).cards \o m.data
    BY <1>4, <2>1, ReadDealIs
  <2>3. /\ Kept(Read(l, m)) /\ Read(l, m).begun = TRUE /\ Read(l, m).game = l.game
        /\ Read(l, m).cards = Dealt(l).cards \o m.data
    BY <1>1, <1>4, <2>1, ReadDealIs
  <2>4. Dealt(l).cards = Dealt(k).cards
    BY <1>1, DealtIs DEF Kept, States
  <2> QED  BY <1>1, <1>4, <2>2, <2>3, <2>4 DEF Similar
<1>5. CASE m.action = "stock"
  <2>1. m.data \in Seq(Deck)
    BY <1>5 DEF Sane
  <2>2. /\ Kept(Read(k, m)) /\ Read(k, m).begun = k.begun /\ Read(k, m).game = k.game
        /\ Read(k, m).cards = k.cards \o m.data
    BY <1>5, <2>1, ReadStockIs, Zenon
  <2>3. /\ Kept(Read(l, m)) /\ Read(l, m).begun = l.begun /\ Read(l, m).game = l.game
        /\ Read(l, m).cards = l.cards \o m.data
    BY <1>1, <1>5, <2>1, ReadStockIs, Zenon
  <2> QED  BY <1>1, <1>5, <2>2, <2>3 DEF Similar
<1>6. CASE m.action = "play"
  <2>1. m.available \subseteq DOMAIN k.cards
    BY <1>6, ReadPlayIs
  <2> QED  BY <1>1, <1>6, <2>1, ReadPlayIs DEF Similar
<1>7. CASE m.action = "bid"
  BY <1>1, <1>7, ReadBidIs DEF Similar
<1>8. CASE m.action = "start"
  <2>1. /\ Kept(Read(k, m)) /\ Read(k, m).begun = k.begun
        /\ Read(k, m).game = k.game /\ Read(k, m).cards = k.cards
    BY <1>8, ReadStartIs
  <2>2. /\ Kept(Read(l, m)) /\ Read(l, m).begun = l.begun
        /\ Read(l, m).game = l.game /\ Read(l, m).cards = l.cards
    BY <1>1, <1>8, ReadStartIs
  <2> QED  BY <1>1, <1>8, <2>1, <2>2 DEF Similar
<1>9. CASE m.action = "score"
  <2>1. /\ Kept(Read(k, m)) /\ Read(k, m).begun = TRUE
        /\ Read(k, m).game = k.game /\ Read(k, m).cards = << >>
    BY <1>9, ReadScoreIs
  <2>2. /\ Kept(Read(l, m)) /\ Read(l, m).begun = TRUE
        /\ Read(l, m).game = l.game /\ Read(l, m).cards = << >>
    BY <1>1, <1>9, ReadScoreIs
  <2> QED  BY <1>1, <1>9, <2>1, <2>2 DEF Similar
<1>10. CASE m.action = "end"
  <2>1. /\ Kept(Read(k, m)) /\ Read(k, m).begun = FALSE
        /\ Read(k, m).game = k.game /\ Read(k, m).cards = k.cards
    BY <1>10, ReadEndIs
  <2>2. /\ Kept(Read(l, m)) /\ Read(l, m).begun = FALSE
        /\ Read(l, m).game = l.game /\ Read(l, m).cards = l.cards
    BY <1>1, <1>10, ReadEndIs
  <2> QED  BY <1>1, <1>10, <2>1, <2>2 DEF Similar
<1>11. m.action \in ClientActions /\ m.action # "add"
  BY DEF Sane
<1> QED
  BY <1>2, <1>3, <1>4, <1>5, <1>6, <1>7, <1>8, <1>9, <1>10, <1>11 DEF ClientActions

(***************************************************************************)
(* Clicks before a leave has been read change nothing of what comes after. *)
(***************************************************************************)
LEMMA EndsStale ==
  ASSUME NEW k, NEW r, NEW e, Ends(k, r, e), Has(r, "leave"), k.game # NoGame,
         NEW l, Kept(l), Similar(l, k)
  PROVE  Ends(l, r, e)
<1> DEFINE n == Len(r)
<1>1. PICK v : /\ Reading(k, r, v) /\ v[n] = e
               /\ \A i \in 0 .. n : /\ Kept(v[i])
                                    /\ Live(r, i) => Calm(v[i]) /\ (i < n => Mute(v[i]))
  BY DEF Ends
<1>2. Mail(k, r) /\ n \in Nat /\ IsSeq(r)
  BY EmptyIs DEF Ends, Mail
<1>3. PICK w : Reading(l, r, w)
  BY <1>2, ReadingExists
<1> DEFINE T == {i \in 0 .. n : /\ Kept(w[i]) /\ Similar(w[i], v[i]) /\ v[i].game # NoGame
                                /\ (\E j \in 1 .. i : r[j].action = "leave") => w[i] = v[i]}
<1>4. 0 \in T
  BY <1>1, <1>2, <1>3 DEF Reading
<1>5. ASSUME NEW i \in 1 .. n, i - 1 \in T
      PROVE  i \in T
  <2> DEFINE h == i - 1
  <2>1. h \in 0 .. n /\ i \in 0 .. n /\ \A j \in 1 .. i : j \in 1 .. h \/ j = i
    BY <1>2
  <2>2. v[i] = Read(v[h], r[i]) /\ w[i] = Read(w[h], r[i])
    BY <1>1, <1>3 DEF Reading
  <2>3. /\ Kept(w[h]) /\ Similar(w[h], v[h]) /\ v[h].game # NoGame
        /\ (\E j \in 1 .. h : r[j].action = "leave") => w[h] = v[h]
    BY <1>5
  <2> HIDE DEF h
  <2>4. Sane(r[i]) /\ r[i].action # "add"
    BY <1>2 DEF Mail
  <2>5. Kept(v[h]) /\ Kept(v[i])
    BY <1>1, <2>1
  <2>6. /\ Kept(w[i]) /\ Similar(w[i], v[i])
        /\ r[i].action = "leave" => w[i] = v[i]
    BY <2>2, <2>3, <2>4, <2>5, ReadSimilar
  <2>7. v[i].game # NoGame
    BY <2>2, <2>3, <2>4, <2>5, ReadGameKept
  <2> QED  BY <2>1, <2>2, <2>3, <2>6, <2>7
<1> HIDE DEF T
<1>6. \A i \in 0 .. n : i \in T
  BY <1>2, <1>4, <1>5, Upwards
<1>7. ASSUME NEW i \in 0 .. n, Live(r, i)
      PROVE  w[i] = v[i]
  <2>1. PICK j \in 1 .. n : r[j].action = "leave"
    BY DEF Has
  <2>2. j \in 1 .. i
    BY <1>2, <1>7, <2>1 DEF Live
  <2> QED  BY <1>6, <2>1, <2>2 DEF T
<1>8. n \in 0 .. n /\ Live(r, n)
  BY <1>2 DEF Live
<1>9. w[n] = e
  BY <1>1, <1>7, <1>8
<1>10. \A i \in 0 .. n : Kept(w[i]) /\ (Live(r, i) => Calm(w[i]) /\ (i < n => Mute(w[i])))
  BY <1>1, <1>6, <1>7 DEF T
<1>11. Mail(l, r)
  <2>1. l.game = k.game
    BY DEF Similar
  <2> QED  BY <1>2, <2>1 DEF Mail
<1> QED  BY <1>3, <1>9, <1>10, <1>11 DEF Ends

(***************************************************************************)
(* Two states that differ in the window of the end of a game at most.      *)
(***************************************************************************)
Alike(a, b) ==
  /\ a.game = b.game /\ a.begun = b.begun /\ a.cards = b.cards /\ a.gone = b.gone
  /\ a.available = b.available /\ a.drawn = b.drawn /\ a.bids = b.bids
  /\ a.windows \subseteq b.windows /\ b.windows \subseteq a.windows \cup {"win"}

LEMMA AlikeCalm ==
  ASSUME NEW a, NEW b, Alike(a, b)
  PROVE  (Calm(b) => Calm(a)) /\ (Mute(b) => Mute(a))
  BY DEF Alike, Calm, Mute

LEMMA ReadAlike ==
  ASSUME NEW k, Kept(k), NEW l, Kept(l), Alike(l, k),
         NEW m, Sane(m), m.action # "add", Kept(Read(k, m))
  PROVE  Kept(Read(l, m)) /\ Alike(Read(l, m), Read(k, m))
<1> DEFINE f == Read(k, m)
           g == Read(l, m)
<1>1. /\ l.game = k.game /\ l.begun = k.begun /\ l.cards = k.cards /\ l.gone = k.gone
      /\ l.available = k.available /\ l.drawn = k.drawn /\ l.bids = k.bids
      /\ l.windows \subseteq k.windows /\ k.windows \subseteq l.windows \cup {"win"}
  BY DEF Alike
<1>0. CASE k.game = NoGame
  <2>1. m.action \in ClientActions \ {"add"}
    BY DEF Sane
  <2>2. f = k /\ g = l
    BY <1>0, <1>1, <2>1, ReadNoGame
  <2> QED  BY <2>2
<1> USE <1>1
<1>2. CASE k.game # NoGame
  <2>0. l.game # NoGame
    BY <1>2
  <2>1. CASE m.action = "new_player"
    <3>1. m.data \in Clients
      BY <2>1 DEF Sane
    <3>2. /\ Kept(f) /\ f.game = Append(k.game, m.data) /\ f.begun = k.begun
          /\ f.windows = AskReady(k.windows, f.game)
          /\ f.bids = k.bids /\ f.drawn = k.drawn /\ f.available = k.available
          /\ f.cards = k.cards /\ f.gone = k.gone
      BY <1>2, <2>1, <3>1, ReadNewPlayerIs
    <3>3. /\ Kept(g) /\ g.game = Append(l.game, m.data) /\ g.begun = l.begun
          /\ g.windows = AskReady(l.windows, g.game)
          /\ g.bids = l.bids /\ g.drawn = l.drawn /\ g.available = l.available
          /\ g.cards = l.cards /\ g.gone = l.gone
      BY <2>0, <2>1, <3>1, ReadNewPlayerIs
    <3> HIDE DEF f, g
    <3>4. f.game = g.game
      BY <3>2, <3>3
    <3>5. g.windows \subseteq f.windows /\ f.windows \subseteq g.windows \cup {"win"}
      BY <3>2, <3>3, <3>4, AskReadyIs
    <3> QED  BY <3>2, <3>3, <3>5 DEF Alike, f, g
  <2>2. CASE m.action = "leave"
    <3>2. /\ Kept(f) /\ f.game = RemoveFirst(k.game, m.data) /\ f.begun = k.begun
          /\ f.windows = {} /\ f.bids = {}
          /\ f.cards = << >> /\ f.gone = {} /\ f.available = {} /\ f.drawn = {}
      BY <1>2, <2>2, ReadLeaveIs
    <3>3. /\ Kept(g) /\ g.game = RemoveFirst(l.game, m.data) /\ g.begun = l.begun
          /\ g.windows = {} /\ g.bids = {}
          /\ g.cards = << >> /\ g.gone = {} /\ g.available = {} /\ g.drawn = {}
      BY <2>0, <2>2, ReadLeaveIs
    <3> HIDE DEF f, g
    <3> QED  BY <3>2, <3>3 DEF Alike, f, g
  <2>3. CASE m.action = "deal"
    <3>1. m.data \in Seq(Deck)
      BY <2>3 DEF Sane
    <3>2. /\ Kept(f) /\ f.begun = TRUE /\ f.drawn = DOMAIN f.cards
          /\ f.game = k.game /\ f.windows = k.windows /\ f.bids = k.bids
          /\ f.cards = Dealt(k).cards \o m.data
          /\ f.gone = Dealt(k).gone /\ f.available = Dealt(k).available
      BY ZenonT(60), <1>2, <2>3, <3>1, ReadDealIs
    <3>3. /\ Kept(g) /\ g.begun = TRUE /\ g.drawn = DOMAIN g.cards
          /\ g.game = l.game /\ g.windows = l.windows /\ g.bids = l.bids
          /\ g.cards = Dealt(l).cards \o m.data
          /\ g.gone = Dealt(l).gone /\ g.available = Dealt(l).available
      BY ZenonT(60), <2>0, <2>3, <3>1, ReadDealIs
    <3>4. /\ Dealt(l).cards = Dealt(k).cards /\ Dealt(l).gone = Dealt(k).gone
          /\ Dealt(l).available = Dealt(k).available
      BY ZenonT(60), DealtIs DEF Kept, States
    <3> HIDE DEF f, g
    <3> QED  BY <3>2, <3>3, <3>4 DEF Alike, f, g
  <2>4. CASE m.action = "stock"
    <3>1. m.data \in Seq(Deck)
      BY <2>4 DEF Sane
    <3>2. /\ Kept(f) /\ f.cards = k.cards \o m.data
          /\ f.drawn = DOMAIN f.cards /\ f.available = DOMAIN f.cards
          /\ f.game = k.game /\ f.begun = k.begun /\ f.windows = k.windows
          /\ f.bids = k.bids /\ f.gone = k.gone
      BY <1>2, <2>4, <3>1, ReadStockIs
    <3>3. /\ Kept(g) /\ g.cards = l.cards \o m.data
          /\ g.drawn = DOMAIN g.cards /\ g.available = DOMAIN g.cards
          /\ g.game = l.game /\ g.begun = l.begun /\ g.windows = l.windows
          /\ g.bids = l.bids /\ g.gone = l.gone
      BY <2>0, <2>4, <3>1, ReadStockIs
    <3> HIDE DEF f, g
    <3> QED  BY <3>2, <3>3 DEF Alike, f, g
  <2>5. CASE m.action = "start"
    <3>2. /\ Kept(f) /\ f.available = DOMAIN k.cards
          /\ f.game = k.game /\ f.begun = k.begun /\ f.windows = k.windows
          /\ f.bids = k.bids /\ f.gone = k.gone /\ f.cards = k.cards /\ f.drawn = k.drawn
      BY <1>2, <2>5, ReadStartIs
    <3>3. /\ Kept(g) /\ g.available = DOMAIN l.cards
          /\ g.game = l.game /\ g.begun = l.begun /\ g.windows = l.windows
          /\ g.bids = l.bids /\ g.gone = l.gone /\ g.cards = l.cards /\ g.drawn = l.drawn
      BY <2>0, <2>5, ReadStartIs
    <3> HIDE DEF f, g
    <3> QED  BY <3>2, <3>3 DEF Alike, f, g
  <2>6. CASE m.action = "bid"
    <3>2. /\ Kept(f) /\ f.windows = k.windows \cup {"bids"}
          /\ f.bids = {b \in Bids : m.min =< b /\ b =< m.max} \cup Passing(k.cards)
          /\ f.game = k.game /\ f.begun = k.begun /\ f.available = k.available
          /\ f.gone = k.gone /\ f.cards = k.cards /\ f.drawn = k.drawn
      BY <1>2, <2>6, ReadBidIs
    <3>3. /\ Kept(g) /\ g.windows = l.windows \cup {"bids"}
          /\ g.bids = {b \in Bids : m.min =< b /\ b =< m.max} \cup Passing(l.cards)
          /\ g.game = l.game /\ g.begun = l.begun /\ g.available = l.available
          /\ g.gone = l.gone /\ g.cards = l.cards /\ g.drawn = l.drawn
      BY <2>0, <2>6, ReadBidIs
    <3> HIDE DEF f, g
    <3> QED  BY <3>2, <3>3 DEF Alike, f, g
  <2>7. CASE m.action = "play"
    <3>2. /\ m.available \subseteq DOMAIN k.cards <=> Kept(f)
          /\ f.available = m.available
          /\ f.game = k.game /\ f.begun = k.begun /\ f.windows = k.windows
          /\ f.bids = k.bids /\ f.gone = k.gone /\ f.cards = k.cards /\ f.drawn = k.drawn
      BY <1>2, <2>7, ReadPlayIs
    <3>3. /\ m.available \subseteq DOMAIN l.cards <=> Kept(g)
          /\ g.available = m.available
          /\ g.game = l.game /\ g.begun = l.begun /\ g.windows = l.windows
          /\ g.bids = l.bids /\ g.gone = l.gone /\ g.cards = l.cards /\ g.drawn = l.drawn
      BY <2>0, <2>7, ReadPlayIs
    <3>4. Kept(f)
      OBVIOUS
    <3> HIDE DEF f, g
    <3> QED  BY <3>2, <3>3, <3>4 DEF Alike, f, g
  <2>8. CASE m.action = "score"
    <3>2. /\ Kept(f) /\ f.cards = << >> /\ f.gone = {} /\ f.available = {} /\ f.drawn = {}
          /\ f.game = k.game /\ f.begun = TRUE /\ f.windows = k.windows /\ f.bids = k.bids
      BY ZenonT(60), <1>2, <2>8, ReadScoreIs
    <3>3. /\ Kept(g) /\ g.cards = << >> /\ g.gone = {} /\ g.available = {} /\ g.drawn = {}
          /\ g.game = l.game /\ g.begun = TRUE /\ g.windows = l.windows /\ g.bids = l.bids
      BY ZenonT(60), <2>0, <2>8, ReadScoreIs
    <3> HIDE DEF f, g
    <3> QED  BY <3>2, <3>3 DEF Alike, f, g
  <2>9. CASE m.action = "end"
    <3>2. /\ Kept(f) /\ f.begun = FALSE /\ f.windows = Announced(k.windows, m.data)
          /\ f.game = k.game /\ f.available = k.available /\ f.bids = k.bids
          /\ f.gone = k.gone /\ f.cards = k.cards /\ f.drawn = k.drawn
      BY ZenonT(60), <1>2, <2>9, ReadEndIs
    <3>3. /\ Kept(g) /\ g.begun = FALSE /\ g.windows = Announced(l.windows, m.data)
          /\ g.game = l.game /\ g.available = l.available /\ g.bids = l.bids
          /\ g.gone = l.gone /\ g.cards = l.cards /\ g.drawn = l.drawn
      BY ZenonT(60), <2>0, <2>9, ReadEndIs
    <3> HIDE DEF f, g
    <3>4. g.windows \subseteq f.windows /\ f.windows \subseteq g.windows \cup {"win"}
      BY <3>2, <3>3 DEF Announced
    <3> QED  BY <3>2, <3>3, <3>4 DEF Alike, f, g
  <2>10. m.action \in ClientActions /\ m.action # "add"
    BY DEF Sane
  <2> QED
    BY <2>1, <2>2, <2>3, <2>4, <2>5, <2>6, <2>7, <2>8, <2>9, <2>10 DEF ClientActions
<1> QED  BY <1>0, <1>2

LEMMA EndsAlike ==
  ASSUME NEW k, NEW r, NEW e, Ends(k, r, e), k.game # NoGame,
         NEW l, Kept(l), Alike(l, k)
  PROVE  \E f : Ends(l, r, f) /\ Alike(f, e)
<1> DEFINE n == Len(r)
<1>1. PICK v : /\ Reading(k, r, v) /\ v[n] = e
               /\ \A i \in 0 .. n : /\ Kept(v[i])
                                    /\ Live(r, i) => Calm(v[i]) /\ (i < n => Mute(v[i]))
  BY DEF Ends
<1>2. Mail(k, r) /\ n \in Nat /\ IsSeq(r)
  BY EmptyIs DEF Ends, Mail
<1>3. PICK w : Reading(l, r, w)
  BY <1>2, ReadingExists
<1> DEFINE T == {i \in 0 .. n : Kept(w[i]) /\ Alike(w[i], v[i])}
<1>4. 0 \in T
  BY <1>1, <1>2, <1>3 DEF Reading
<1>5. ASSUME NEW i \in 1 .. n, i - 1 \in T
      PROVE  i \in T
  <2> DEFINE h == i - 1
  <2>1. h \in 0 .. n /\ i \in 0 .. n
    BY <1>2
  <2>2. v[i] = Read(v[h], r[i]) /\ w[i] = Read(w[h], r[i])
    BY <1>1, <1>3 DEF Reading
  <2>3. Kept(w[h]) /\ Alike(w[h], v[h])
    BY <1>5
  <2> HIDE DEF h
  <2>4. Sane(r[i]) /\ r[i].action # "add"
    BY <1>2 DEF Mail
  <2>5. Kept(v[h]) /\ Kept(v[i])
    BY <1>1, <2>1
  <2> QED  BY <2>1, <2>2, <2>3, <2>4, <2>5, ReadAlike
<1> HIDE DEF T
<1>6. \A i \in 0 .. n : i \in T
  BY <1>2, <1>4, <1>5, Upwards
<1>7. \A i \in 0 .. n : Kept(w[i]) /\ (Live(r, i) => Calm(w[i]) /\ (i < n => Mute(w[i])))
  BY <1>1, <1>6, AlikeCalm DEF T
<1>8. Mail(l, r)
  <2>1. l.game = k.game
    BY DEF Alike
  <2> QED  BY <1>2, <2>1 DEF Mail
<1>9. n \in 0 .. n
  BY <1>2
<1>10. Ends(l, r, w[n])
  BY <1>3, <1>7, <1>8 DEF Ends
<1> QED  BY <1>1, <1>6, <1>9, <1>10 DEF T

-----------------------------------------------------------------------------
(***************************************************************************)
(* The steps of the room, each with the answer that makes it one of a      *)
(* table: the actions of module Table, over the room of Conversation.      *)
(***************************************************************************)
InPlay == {"lead", "follow"}
InRound == {"bid", "give", "final", "lead", "follow"}

BidOffers == {b \in Bids : /\ claim[it.HIGHEST] + MIN_RAISE =< b
                           /\ b =< MaxValue(hand[it.CURRENT])}
             \cup {PASS}

FinalOffers == {b \in Bids : /\ claim[it.HIGHEST] =< b
                             /\ b =< MaxValue(hand[it.HIGHEST])}

CardOffers == IF asked = "lead" THEN Unused(it.CURRENT)
              ELSE AllValidCards(Unused(it.CURRENT), TableCards, superSuit)

Joins(c) ==
  /\ c \notin Seated /\ Len(players) < MAX_PLAYERS
  /\ HandleAdd(c)
  /\ asked' = IF Len(players') = MAX_PLAYERS THEN "ready" ELSE "seating"

IsReady(c) ==
  /\ asked = "ready" /\ c \in Seated \ ready
  /\ HandleReady(c)
  /\ asked' = IF stage' = "BIDDING" THEN "bid" ELSE "ready"

Places(b) ==
  /\ \/ asked = "bid" /\ b \in BidOffers
     \/ asked = "final" /\ b \in FinalOffers
  /\ HandleBid(it.CURRENT, b)
  /\ asked' = CASE stage' = "BIDDING" -> "bid"
                [] stage' = "DEALING" -> "give"
                [] stage' = "PLAYING" -> "lead"

Gives(x, y) ==
  /\ asked = "give"
  /\ HandleDeal(NextOf(it.HIGHEST), x, NextOf(NextOf(it.HIGHEST)), y)
  /\ asked' = "final"

Plays(card) ==
  /\ asked \in {"lead", "follow"} /\ card \in CardOffers
  /\ HandlePlay(it.CURRENT, card)
  /\ asked' = CASE stage' = "BIDDING" -> "bid"
                [] stage' = "ADDING"  -> "none"
                [] OTHER -> IF vec' = << >> THEN "lead"
                            ELSE IF Len(vec') = MAX_PLAYERS THEN "none" ELSE "follow"

Leaving(c) ==
  /\ asked \in LeaveIn \cap Questions
  /\ HandleLeave(c)
  /\ asked' = "seating"

TableNext ==
  \/ \E c \in Clients : Joins(c) \/ IsReady(c) \/ Leaving(c)
  \/ \E b \in Bids \cup {PASS} : Places(b)
  \/ \E x, y \in Deck : Gives(x, y)
  \/ \E card \in Deck : Plays(card)

tableVars == <<roomVars, asked>>

(***************************************************************************)
(* They are the table's, both of the instance the proofs use and of the    *)
(* one of ConversationProperties.                                          *)
(***************************************************************************)
LEMMA RoomIsTable ==
  /\ NoIt = TP!NoIt /\ NoReport = TP!NoReport /\ Zero = TP!Zero /\ NoCards = TP!NoCards
  /\ Seated = TP!Seated /\ DeckSize = TP!DeckSize /\ MaxTurns = TP!MaxTurns
  /\ \A c : SeatOf(c) = TP!SeatOf(c) /\ NextOf(c) = TP!NextOf(c) /\ Unused(c) = TP!Unused(c)
<1>1. Seated = TP!Seated /\ \A c : SeatOf(c) = TP!SeatOf(c)
  BY DEF Seated, TP!Seated, SeatOf, TP!SeatOf
<1>2. \A c : NextOf(c) = TP!NextOf(c)
  BY <1>1 DEF NextOf, TP!NextOf, TP!MAX_PLAYERS
<1>3. NoIt = TP!NoIt /\ NoReport = TP!NoReport
  BY DEF NoIt, TP!NoIt, TP!None, NoReport, TP!NoReport
<1>4. Zero = TP!Zero /\ NoCards = TP!NoCards
  BY DEF Zero, TP!Zero, NoCards, TP!NoCards
<1>5. DeckSize = TP!DeckSize /\ MaxTurns = TP!MaxTurns
  BY DEF DeckSize, TP!DeckSize, TP!MAX_PLAYERS, MaxTurns, TP!MaxTurns
<1>6. \A c : Unused(c) = TP!Unused(c)
  BY DEF Unused, TP!Unused
<1> QED  BY <1>1, <1>2, <1>3, <1>4, <1>5, <1>6

LEMMA ValuesAreTable ==
  \A S : MaxValue(S) = TP!MaxValue(S)
  BY DEF MaxValue, TP!MaxValue, MIN_VALUE, TP!MIN_VALUE, SumSet, TP!SumSet, MapThenFoldSet,
     TP!MapThenFoldSet, FoldSet, TP!FoldSet, Marriages, TP!Marriages, Suits, TP!Suits, KING,
     TP!KING, QUEEN, TP!QUEEN,
     SPADES, TP!SPADES, CLUBS, TP!CLUBS, DIAMONDS, TP!DIAMONDS, HEARTS, TP!HEARTS

LEMMA OffersAreTable ==
  BidOffers = TP!BidOffers /\ FinalOffers = TP!FinalOffers /\ CardOffers = TP!CardOffers
<1>1. BidOffers = TP!BidOffers /\ FinalOffers = TP!FinalOffers
  BY ValuesAreTable DEF BidOffers, TP!BidOffers, FinalOffers, TP!FinalOffers, MIN_RAISE,
     TP!MIN_RAISE, TP!PASS
<1>2. CardOffers = TP!CardOffers
  BY DEF CardOffers, TP!CardOffers, Unused, TP!Unused, AllValidCards, TP!AllValidCards,
     TableCards, TP!TableCards, HighestCardOnTheTable, TP!HighestCardOnTheTable,
     IsBigger, TP!IsBigger, IsHigher, TP!IsHigher
<1> QED  BY <1>1, <1>2

LEMMA TableStep == TableNext => TP!Next
<1>1. ASSUME NEW c \in Clients, Joins(c) PROVE TP!Join(c)
  BY <1>1 DEF Joins, TP!Join, HandleAdd, TP!HandleAdd, Seated, TP!Seated, NoReport,
     TP!NoReport, TP!MAX_PLAYERS, cardVars, TP!cardVars, gameVars, TP!gameVars
<1>2. ASSUME NEW c \in Clients, IsReady(c) PROVE TP!PressReady(c)
  BY <1>2 DEF IsReady, TP!PressReady, HandleReady, TP!HandleReady, IsReadyToStart,
     TP!IsReadyToStart, Seated, TP!Seated, NoReport, TP!NoReport, TP!MAX_PLAYERS, cardVars,
     TP!cardVars, gameVars, TP!gameVars, PrepareGame, TP!PrepareGame, DealCards, TP!DealCards,
     SeatOf, TP!SeatOf, NoIt, TP!NoIt, TP!None, DeckSize, TP!DeckSize, NoCards, TP!NoCards
<1>3. ASSUME NEW c \in Clients, Leaving(c) PROVE TP!Leave(c)
  BY <1>3 DEF Leaving, TP!Leave, HandleLeave, TP!HandleLeave, Seated, TP!Seated, SeatOf,
     TP!SeatOf, RemoveAt, TP!RemoveAt, ResetIfGameHadStarted, TP!ResetIfGameHadStarted,
     ResetPlayers, TP!ResetPlayers, NoReport, TP!NoReport, Zero, TP!Zero, NoCards, TP!NoCards,
     NoIt, TP!NoIt, TP!None, NONE, TP!NONE
<1>4. ASSUME NEW b \in Bids \cup {PASS}, Places(b) PROVE TP!PlaceBid(b)
  <2>1. HandleBid(it.CURRENT, b) => TP!HandleBid(it.CURRENT, b)
    BY DEF HandleBid, TP!HandleBid, BidIsCorrect, TP!BidIsCorrect, RegularBid, TP!RegularBid,
       FinalBid, TP!FinalBid, NextBidder, TP!NextBidder, NextOf, TP!NextOf, SeatOf, TP!SeatOf,
       TP!MAX_PLAYERS, TP!PASS, NoIt, TP!NoIt, TP!None, NoReport, TP!NoReport, gameVars,
       TP!gameVars
  <2> QED  BY SMTT(30), <1>4, <2>1, OffersAreTable DEF Places, TP!PlaceBid
<1>5. ASSUME NEW x \in Deck, NEW y \in Deck, Gives(x, y) PROVE TP!Give(x, y)
  BY <1>5 DEF Gives, TP!Give, HandleDeal, TP!HandleDeal, Seated, TP!Seated, NextOf, TP!NextOf,
     SeatOf, TP!SeatOf, TP!MAX_PLAYERS, Unused, TP!Unused, NoReport, TP!NoReport, gameVars,
     TP!gameVars
<1>6. ASSUME NEW card \in Deck, Plays(card) PROVE TP!PlayCard(card)
  <2>1. HandlePlay(it.CURRENT, card) => TP!HandlePlay(it.CURRENT, card)
    BY DEF HandlePlay, TP!HandlePlay, Announces, TP!Announces, DoesHavePair, TP!DoesHavePair,
       Unused, TP!Unused, Points, TP!Points, TakenBy, TP!TakenBy, FindSuperiorCard,
       TP!FindSuperiorCard, IsBigger, TP!IsBigger, PlayOn, TP!PlayOn, PlayFails, TP!PlayFails,
       TakeTrick, TP!TakeTrick, EndOfRound, TP!EndOfRound, SummedUp, TP!SummedUp, RoundScore,
       TP!RoundScore, RoundTen, TP!RoundTen, NextRound, TP!NextRound, GameOver, TP!GameOver,
       PrepareGame, TP!PrepareGame, DealCards, TP!DealCards, Seated, TP!Seated, SeatOf,
       TP!SeatOf, NextOf, TP!NextOf, Zero, TP!Zero, NoCards, TP!NoCards, NoIt, TP!NoIt,
       NoReport, TP!NoReport, TP!MAX_PLAYERS, TP!PASS, TP!None, MaxTurns, TP!MaxTurns, NONE,
       TP!NONE, KING, TP!KING, QUEEN, TP!QUEEN, DeckSize, TP!DeckSize
  <2> QED  BY <1>6, <2>1, OffersAreTable DEF Plays, TP!PlayCard, TP!MAX_PLAYERS
<1> QED
  BY <1>1, <1>2, <1>3, <1>4, <1>5, <1>6 DEF TableNext, TP!Next, TP!Answer, TP!PASS

LEMMA ValuesAreView ==
  \A S : MaxValue(S) = TableView!MaxValue(S)
  BY DEF MaxValue, TableView!MaxValue, MIN_VALUE, TableView!MIN_VALUE, SumSet, TableView!SumSet,
     MapThenFoldSet,
     TableView!MapThenFoldSet, FoldSet, TableView!FoldSet, Marriages, TableView!Marriages, Suits,
     TableView!Suits, KING, TableView!KING, QUEEN, TableView!QUEEN,
     SPADES, TableView!SPADES, CLUBS, TableView!CLUBS, DIAMONDS, TableView!DIAMONDS, HEARTS,
     TableView!HEARTS

LEMMA OffersAreView ==
  BidOffers = TableView!BidOffers /\ FinalOffers = TableView!FinalOffers /\ CardOffers = TableView!CardOffers
<1>1. BidOffers = TableView!BidOffers /\ FinalOffers = TableView!FinalOffers
  BY ValuesAreView DEF BidOffers, TableView!BidOffers, FinalOffers, TableView!FinalOffers,
     MIN_RAISE,
     TableView!MIN_RAISE, TableView!PASS
<1>2. CardOffers = TableView!CardOffers
  BY DEF CardOffers, TableView!CardOffers, Unused, TableView!Unused, AllValidCards,
     TableView!AllValidCards,
     TableCards, TableView!TableCards, HighestCardOnTheTable, TableView!HighestCardOnTheTable,
     IsBigger, TableView!IsBigger, IsHigher, TableView!IsHigher
<1> QED  BY <1>1, <1>2

LEMMA ViewStep == TableNext => TableView!Next
<1>1. ASSUME NEW c \in Clients, Joins(c) PROVE TableView!Join(c)
  BY <1>1 DEF Joins, TableView!Join, HandleAdd, TableView!HandleAdd, Seated, TableView!Seated,
     NoReport,
     TableView!NoReport, TableView!MAX_PLAYERS, cardVars, TableView!cardVars, gameVars, TableView!gameVars
<1>2. ASSUME NEW c \in Clients, IsReady(c) PROVE TableView!PressReady(c)
  BY <1>2 DEF IsReady, TableView!PressReady, HandleReady, TableView!HandleReady, IsReadyToStart,
     TableView!IsReadyToStart, Seated, TableView!Seated, NoReport, TableView!NoReport, TableView!MAX_PLAYERS, cardVars,
     TableView!cardVars, gameVars, TableView!gameVars, PrepareGame, TableView!PrepareGame,
     DealCards, TableView!DealCards,
     SeatOf, TableView!SeatOf, NoIt, TableView!NoIt, TableView!None, DeckSize,
     TableView!DeckSize, NoCards, TableView!NoCards
<1>3. ASSUME NEW c \in Clients, Leaving(c) PROVE TableView!Leave(c)
  BY <1>3 DEF Leaving, TableView!Leave, HandleLeave, TableView!HandleLeave, Seated,
     TableView!Seated, SeatOf,
     TableView!SeatOf, RemoveAt, TableView!RemoveAt, ResetIfGameHadStarted,
     TableView!ResetIfGameHadStarted,
     ResetPlayers, TableView!ResetPlayers, NoReport, TableView!NoReport, Zero, TableView!Zero,
     NoCards, TableView!NoCards,
     NoIt, TableView!NoIt, TableView!None, NONE, TableView!NONE
<1>4. ASSUME NEW b \in Bids \cup {PASS}, Places(b) PROVE TableView!PlaceBid(b)
  <2>1. HandleBid(it.CURRENT, b) => TableView!HandleBid(it.CURRENT, b)
    BY DEF HandleBid, TableView!HandleBid, BidIsCorrect, TableView!BidIsCorrect, RegularBid,
       TableView!RegularBid,
       FinalBid, TableView!FinalBid, NextBidder, TableView!NextBidder, NextOf, TableView!NextOf,
       SeatOf, TableView!SeatOf,
       TableView!MAX_PLAYERS, TableView!PASS, NoIt, TableView!NoIt, TableView!None, NoReport, TableView!NoReport, gameVars,
       TableView!gameVars
  <2> QED  BY <1>4, <2>1, OffersAreView DEF Places, TableView!PlaceBid
<1>5. ASSUME NEW x \in Deck, NEW y \in Deck, Gives(x, y) PROVE TableView!Give(x, y)
  BY <1>5 DEF Gives, TableView!Give, HandleDeal, TableView!HandleDeal, Seated, TableView!Seated,
     NextOf, TableView!NextOf,
     SeatOf, TableView!SeatOf, TableView!MAX_PLAYERS, Unused, TableView!Unused, NoReport, TableView!NoReport, gameVars,
     TableView!gameVars
<1>6. ASSUME NEW card \in Deck, Plays(card) PROVE TableView!PlayCard(card)
  <2>1. HandlePlay(it.CURRENT, card) => TableView!HandlePlay(it.CURRENT, card)
    BY DEF HandlePlay, TableView!HandlePlay, Announces, TableView!Announces, DoesHavePair,
       TableView!DoesHavePair,
       Unused, TableView!Unused, Points, TableView!Points, TakenBy, TableView!TakenBy,
       FindSuperiorCard,
       TableView!FindSuperiorCard, IsBigger, TableView!IsBigger, PlayOn, TableView!PlayOn,
       PlayFails, TableView!PlayFails,
       TakeTrick, TableView!TakeTrick, EndOfRound, TableView!EndOfRound, SummedUp,
       TableView!SummedUp, RoundScore,
       TableView!RoundScore, RoundTen, TableView!RoundTen, NextRound, TableView!NextRound,
       GameOver, TableView!GameOver,
       PrepareGame, TableView!PrepareGame, DealCards, TableView!DealCards, Seated,
       TableView!Seated, SeatOf,
       TableView!SeatOf, NextOf, TableView!NextOf, Zero, TableView!Zero, NoCards,
       TableView!NoCards, NoIt, TableView!NoIt,
       NoReport, TableView!NoReport, TableView!MAX_PLAYERS, TableView!PASS, TableView!None, MaxTurns, TableView!MaxTurns, NONE,
       TableView!NONE, KING, TableView!KING, QUEEN, TableView!QUEEN, DeckSize, TableView!DeckSize
  <2> QED  BY <1>6, <2>1, OffersAreView DEF Plays, TableView!PlayCard, TableView!MAX_PLAYERS
<1> QED
  BY <1>1, <1>2, <1>3, <1>4, <1>5, <1>6 DEF TableNext, TableView!Next, TableView!Answer,
     TableView!PASS

LEMMA TableInit == Init => TP!Init /\ TableView!Init
  BY DEF Init, RoomInit, TP!Init, TP!RoomInit, TableView!Init, TableView!RoomInit, Zero, TP!Zero,
     TableView!Zero, NoCards, TP!NoCards, TableView!NoCards, NoIt, TP!NoIt, TableView!NoIt,
     TP!None, TableView!None, NoReport, TP!NoReport, TableView!NoReport, NONE, TP!NONE,
     TableView!NONE

LEMMA TableStill ==
  UNCHANGED tableVars => UNCHANGED TP!vars /\ UNCHANGED TableView!vars
  BY DEF tableVars, roomVars, cardVars, gameVars, TP!vars, TP!roomVars, TP!cardVars,
     TP!gameVars, TableView!vars, TableView!roomVars, TableView!cardVars, TableView!gameVars

-----------------------------------------------------------------------------
(***************************************************************************)
(* What the proofs of module Table say of the room.                        *)
(***************************************************************************)
SeatedOnce == \A i, j \in DOMAIN players : players[i] = players[j] => i = j

RoomTyped ==
  /\ players \in Seq(Clients) /\ Len(players) \in 0 .. 3 /\ ready \subseteq Clients
  /\ claim \in [Clients -> Int]
  /\ hand \in [Clients -> SUBSET Deck] /\ used \in [Clients -> SUBSET Deck]
  /\ stock \subseteq Deck
  /\ vec \in Seq([player : Clients, card : Deck])
  /\ asked \in Questions

TableInv ==
  /\ RoomTyped /\ SeatedOnce
  /\ asked # "seating" => Len(players) = 3
  /\ asked \in InRound => it \in [CURRENT : Seated, COMPULSORY : Seated, HIGHEST : Seated]
  /\ asked \in InPlay => stage \in {"PLAYING", "FAIL"}
  /\ asked = "bid" => it.CURRENT # it.HIGHEST /\ claim[it.CURRENT] # PASS
                      /\ claim[it.HIGHEST] >= 100
  /\ asked \in {"give", "final"} => it.CURRENT = it.HIGHEST

LEMMA TableFacts ==
  ASSUME TP!AuctionInv
  PROVE  TableInv
<1>1. TP!TypeOK /\ TP!Distinct /\ TP!TableFull /\ TP!RolesSeated /\ TP!StageAgrees
      /\ TP!AuctionOrder /\ TP!OneContract
  BY DEF TP!AuctionInv
<1>2. InRound = TP!InRound /\ InPlay = TP!InPlay /\ {"give", "final"} \subseteq TP!InHand
  BY DEF InRound, TP!InRound, InPlay, TP!InPlay, TP!InHand
<1>3. RoomTyped
  <2>0. players \in Seq(Clients)
    BY <1>1 DEF TP!TypeOK
  <2>3. Len(players) =< 3
    BY <1>1 DEF TP!TypeOK, TP!MAX_PLAYERS
  <2>1. Len(players) \in Nat /\ Len(players) =< 3
    BY <2>0, <2>3, LenProperties
  <2>4. \A n \in Nat : n =< 3 => n \in 0 .. 3
    OBVIOUS
  <2>2. Len(players) \in 0 .. 3
    BY ONLY <2>1, <2>4
  <2> QED  BY <1>1, <2>2, RoomIsTable DEF TP!TypeOK, RoomTyped, TP!Questions, Questions
<1>4. SeatedOnce
  BY <1>1, RoomIsTable DEF TP!Distinct, SeatedOnce
<1>5. asked # "seating" => Len(players) = 3
  BY <1>1 DEF TP!TableFull, TP!MAX_PLAYERS
<1>6. asked \in InRound => it \in [CURRENT : Seated, COMPULSORY : Seated, HIGHEST : Seated]
  BY <1>1, <1>2, RoomIsTable DEF TP!RolesSeated
<1>7. asked \in InPlay => stage \in {"PLAYING", "FAIL"}
  BY <1>1, <1>2 DEF TP!StageAgrees
<1>8. asked = "bid" => it.CURRENT # it.HIGHEST /\ claim[it.CURRENT] # PASS
                       /\ claim[it.HIGHEST] >= 100
  BY <1>1 DEF TP!AuctionOrder, TP!PASS
<1>9. asked \in {"give", "final"} => it.CURRENT = it.HIGHEST
  BY <1>1, <1>2 DEF TP!OneContract
<1> QED  BY <1>3, <1>4, <1>5, <1>6, <1>7, <1>8, <1>9 DEF TableInv

FullTable == players \in Seq(Clients) /\ Len(players) = 3 /\ SeatedOnce

LEMMA Seats ==
  ASSUME FullTable
  PROVE  /\ DOMAIN players = 1 .. 3
         /\ Seated = {players[1], players[2], players[3]}
         /\ Seated \subseteq Clients
         /\ \A c \in Seated : SeatOf(c) \in 1 .. 3 /\ players[SeatOf(c)] = c
         /\ SeatOf(players[1]) = 1 /\ SeatOf(players[2]) = 2 /\ SeatOf(players[3]) = 3
<1>1. TP!FullTable
  BY DEF FullTable, SeatedOnce, TP!FullTable, TP!Distinct
<1> QED
  BY <1>1, TP!Seats, RoomIsTable, TableAssumptions, ClientsAssumption, DeckAssumption,
     HandAssumption, WholeDeckAssumption, CapsAssumption, ShuffleAssumption, BidsAssumption

LEMMA Neighbours ==
  ASSUME FullTable, NEW c \in Seated
  PROVE  /\ NextOf(c) \in Seated /\ NextOf(NextOf(c)) \in Seated
         /\ Seated = {c, NextOf(c), NextOf(NextOf(c))}
         /\ c # NextOf(c) /\ c # NextOf(NextOf(c))
         /\ NextOf(c) # NextOf(NextOf(c))
<1>1. /\ players[1] # players[2] /\ players[1] # players[3] /\ players[2] # players[3]
  BY Seats DEF FullTable, SeatedOnce
<1>2. /\ NextOf(players[1]) = players[2] /\ NextOf(players[2]) = players[3]
      /\ NextOf(players[3]) = players[1]
  BY Seats DEF NextOf
<1>3. c = players[1] \/ c = players[2] \/ c = players[3]
  BY Seats
<1> QED  BY <1>1, <1>2, <1>3, Seats

-----------------------------------------------------------------------------
(***************************************************************************)
(* Decks: the cards of a hand in an order.                                 *)
(***************************************************************************)
Size(S, n) == IsFiniteSet(S) /\ Cardinality(S) = n

Injective(s) == \A i, j \in DOMAIN s : s[i] = s[j] => i = j

DeckFits ==
  /\ deck \in [Clients -> Seq(Deck)]
  /\ \A c \in Clients : ToSet(deck[c]) = hand[c] /\ Injective(deck[c])

LEMMA FiniteDeck == IsFiniteSet(Deck)
<1>1. TP!IsFiniteSet(Deck)
  BY TP!FiniteCards, TableAssumptions, ClientsAssumption, DeckAssumption,
     HandAssumption, WholeDeckAssumption, CapsAssumption, ShuffleAssumption, BidsAssumption
<1> QED  BY <1>1 DEF IsFiniteSet, TP!IsFiniteSet

LEMMA InOrder ==
  ASSUME NEW S, S \subseteq Deck
  PROVE  /\ SetToSeq(S) \in Seq(Deck) /\ ToSet(SetToSeq(S)) = S
         /\ Injective(SetToSeq(S)) /\ Len(SetToSeq(S)) = Cardinality(S)
         /\ Cardinality(S) \in Nat /\ IsFiniteSet(S)
<1> DEFINE n == Cardinality(S)
           f == SetToSeq(S)
<1>1. IsFiniteSet(S)
  BY FiniteDeck, FS_Subset
<1>2. n \in Nat /\ \E g : g \in Bijection(1 .. n, S)
  BY <1>1, FS_CardinalityType DEF ExistsBijection
<1>3. PICK g : g \in Bijection(1 .. n, S)
  BY <1>2
<1>4. g \in [1 .. n -> S] /\ (\A a, b \in 1 .. n : g[a] = g[b] => a = b)
      /\ \A s \in S : \E a \in 1 .. n : g[a] = s
  BY <1>3 DEF Bijection, Injection, Surjection, IsInjective
<1>5. \E h \in [1 .. n -> S] : IsInjective(h)
  BY <1>4 DEF IsInjective
<1>6. f \in [1 .. n -> S] /\ IsInjective(f)
  BY <1>5 DEF SetToSeq
<1> HIDE DEF f
<1>7. f \in Seq(Deck) /\ Len(f) = n /\ DOMAIN f = 1 .. n
  <2>1. f \in [1 .. n -> Deck]
    BY <1>6
  <2> HIDE DEF n
  <2>2. f \in Seq(Deck)
    BY <1>2, <2>1, IsASeq
  <2> QED  BY <1>2, <2>1, <2>2, SeqDomain
<1>8. Injective(f)
  BY <1>6, <1>7 DEF IsInjective, Injective
<1>9. ToSet(f) = S
  <2> DEFINE T == ToSet(f)
  <2>1. T \subseteq S
    BY <1>6, <1>7 DEF ToSet
  <2>2. f \in Injection(1 .. n, T) /\ f \in Surjection(1 .. n, T)
    BY <1>6, <1>7 DEF Injection, Surjection, IsInjective, ToSet
  <2>3. IsFiniteSet(1 .. n) /\ Cardinality(1 .. n) = n
    BY <1>2, FS_Interval
  <2> HIDE DEF T, n
  <2>4. IsFiniteSet(T) /\ Cardinality(T) = n
    BY <2>2, <2>3, FS_Surjection
  <2>5. T = S
    BY <1>1, <2>1, <2>4, FS_Subset DEF n
  <2> QED  BY <2>5 DEF T
<1> QED  BY <1>1, <1>2, <1>7, <1>8, <1>9 DEF f

LEMMA SizeIs == \A S, n : Size(S, n) <=> TP!Size(S, n)
  BY DEF Size, TP!Size, IsFiniteSet, TP!IsFiniteSet, Cardinality, TP!Cardinality

LEMMA OrderLen ==
  ASSUME NEW s \in Seq(Deck), Injective(s), NEW n, Size(ToSet(s), n)
  PROVE  Len(s) = n
<1>1. Len(s) \in Nat /\ DOMAIN s = 1 .. Len(s)
  BY SeqDomain
<1>2. s \in Bijection(1 .. Len(s), ToSet(s))
  BY <1>1 DEF Bijection, Injection, Surjection, IsInjective, Injective, ToSet
<1>3. Cardinality(ToSet(s)) = Len(s)
  BY <1>1, <1>2, FS_CountingElements DEF ExistsBijection
<1> QED  BY <1>3 DEF Size

LEMMA OrderJoin ==
  ASSUME NEW s \in Seq(Deck), Injective(s), NEW t \in Seq(Deck), Injective(t),
         ToSet(s) \cap ToSet(t) = {}
  PROVE  s \o t \in Seq(Deck) /\ ToSet(s \o t) = ToSet(s) \cup ToSet(t) /\ Injective(s \o t)
<1> DEFINE u == s \o t
           m == Len(s)
           n == Len(t)
<1>1. /\ u \in Seq(Deck) /\ DOMAIN u = 1 .. m + n /\ m \in Nat /\ n \in Nat
      /\ DOMAIN s = 1 .. m /\ DOMAIN t = 1 .. n
      /\ \A i \in 1 .. m + n : u[i] = IF i <= m THEN s[i] ELSE t[i - m]
  <2>1. u \in Seq(Deck) /\ Len(u) = m + n /\ m \in Nat /\ n \in Nat
    BY ConcatProperties, LenProperties
  <2>2. \A i \in 1 .. m + n : u[i] = IF i <= m THEN s[i] ELSE t[i - m]
    BY ConcatProperties
  <2> QED  BY <2>1, <2>2, SeqDomain
<1> HIDE DEF u, m, n
<1>2. \A i \in 1 .. m : i \in 1 .. m + n /\ u[i] = s[i]
  BY <1>1
<1>3. \A i \in 1 .. n : i + m \in 1 .. m + n /\ u[i + m] = t[i]
  <2> SUFFICES ASSUME NEW i \in 1 .. n PROVE i + m \in 1 .. m + n /\ u[i + m] = t[i]
    OBVIOUS
  <2>1. i + m \in 1 .. m + n /\ ~ (i + m =< m) /\ i + m - m = i
    BY <1>1
  <2> QED  BY <1>1, <2>1
<1>4. \A i \in 1 .. m + n : i \in 1 .. m \/ (i - m \in 1 .. n /\ i - m + m = i)
  BY <1>1
<1>5. ToSet(u) = ToSet(s) \cup ToSet(t)
  <2>1. ToSet(u) \subseteq ToSet(s) \cup ToSet(t)
    <3> SUFFICES ASSUME NEW i \in 1 .. m + n PROVE u[i] \in ToSet(s) \cup ToSet(t)
      BY <1>1 DEF ToSet
    <3> QED  BY <1>1, <1>2, <1>3, <1>4 DEF ToSet
  <2>2. ToSet(s) \subseteq ToSet(u)
    BY <1>1, <1>2 DEF ToSet
  <2>3. ToSet(t) \subseteq ToSet(u)
    BY ZenonT(60), <1>1, <1>3 DEF ToSet
  <2> QED  BY <2>1, <2>2, <2>3
<1>6. Injective(u)
  <2> SUFFICES ASSUME NEW i \in 1 .. m + n, NEW j \in 1 .. m + n, u[i] = u[j]
               PROVE  i = j
    BY <1>1 DEF Injective
  <2>1. CASE i \in 1 .. m /\ j \in 1 .. m
    BY <1>1, <1>2, <2>1 DEF Injective
  <2>2. CASE i - m \in 1 .. n /\ i - m + m = i /\ j - m \in 1 .. n /\ j - m + m = j
    <3>1. t[i - m] = t[j - m]
      BY <1>3, <2>2
    <3>2. i - m = j - m
      BY <1>1, <2>2, <3>1 DEF Injective
    <3> QED  BY <2>2, <3>2
  <2>3. ASSUME NEW a \in 1 .. m, NEW b \in 1 .. n, s[a] = t[b]
        PROVE  FALSE
    BY <1>1, <2>3 DEF ToSet
  <2>4. CASE i \in 1 .. m /\ j - m \in 1 .. n /\ j - m + m = j
    <3>1. s[i] = t[j - m]
      BY <1>2, <1>3, <2>4
    <3> QED  BY <2>3, <2>4, <3>1
  <2>5. CASE j \in 1 .. m /\ i - m \in 1 .. n /\ i - m + m = i
    <3>1. s[j] = t[i - m]
      BY <1>2, <1>3, <2>5
    <3> QED  BY <2>3, <2>5, <3>1
  <2> QED  BY <1>4, <2>1, <2>2, <2>4, <2>5
<1> QED  BY <1>1, <1>5, <1>6 DEF u

LEMMA OrderNone == SetToSeq({}) = << >>
<1>1. SetToSeq({}) \in Seq(Deck) /\ Len(SetToSeq({})) = Cardinality({})
  BY InOrder
<1>2. Cardinality({}) = 0
  BY FS_EmptySet
<1> HIDE DEF SetToSeq
<1> QED  BY <1>1, <1>2, EmptySeq

LEMMA OrderOne == \A x \in Deck : SetToSeq({x}) = <<x>>
<1> SUFFICES ASSUME NEW x \in Deck PROVE SetToSeq({x}) = <<x>>
  OBVIOUS
<1>1. SetToSeq({x}) \in Seq(Deck) /\ Len(SetToSeq({x})) = Cardinality({x}) /\ ToSet(SetToSeq({x})) = {x}
  BY InOrder
<1>2. Cardinality({x}) = 1
  BY FS_Singleton
<1> DEFINE s == SetToSeq({x})
<1> HIDE DEF s
<1>3. s \in Seq(Deck) /\ Len(s) = 1 /\ ToSet(s) = {x}
  BY <1>1, <1>2 DEF s
<1>4. DOMAIN s = 1 .. 1 /\ 1 \in 1 .. 1
  BY <1>3, SeqDomain
<1>5. s[1] = x
  BY <1>3, <1>4 DEF ToSet
<1>6. s = <<s[1]>>
  BY <1>3
<1> QED  BY <1>5, <1>6 DEF s

(***************************************************************************)
(* What Stack makes of the decks.                                          *)
(***************************************************************************)
LEMMA StackAdds ==
  ASSUME DeckFits, Stack, hand \in [Clients -> SUBSET Deck], hand' \in [Clients -> SUBSET Deck],
         NEW c \in Clients, NEW S, S \subseteq Deck, S \cap hand[c] = {},
         hand'[c] = hand[c] \cup S
  PROVE  deck'[c] = deck[c] \o SetToSeq(S)
<1>1. hand'[c] \ hand[c] = S /\ hand[c] \subseteq hand'[c]
  OBVIOUS
<1>2. deck'[c] = deck[c] \o SetToSeq(hand'[c] \ hand[c])
  BY <1>1 DEF Stack
<1> QED  BY <1>1, <1>2

LEMMA StackKeeps ==
  ASSUME DeckFits, Stack, hand \in [Clients -> SUBSET Deck], hand' \in [Clients -> SUBSET Deck],
         NEW c \in Clients, hand'[c] = hand[c]
  PROVE  deck'[c] = deck[c]
<1>1. deck'[c] = deck[c] \o SetToSeq({})
  BY StackAdds
<1>2. deck[c] \in Seq(Deck)
  BY DEF DeckFits
<1> QED  BY <1>1, <1>2, OrderNone, ConcatEmptySeq

LEMMA StackFits ==
  ASSUME DeckFits, Stack, hand \in [Clients -> SUBSET Deck], hand' \in [Clients -> SUBSET Deck]
  PROVE  DeckFits'
<1>1. ASSUME NEW c \in Clients
      PROVE  deck'[c] \in Seq(Deck) /\ ToSet(deck'[c]) = hand'[c] /\ Injective(deck'[c])
  <2>1. deck[c] \in Seq(Deck) /\ ToSet(deck[c]) = hand[c] /\ Injective(deck[c])
    BY DEF DeckFits
  <2>2. CASE hand[c] \subseteq hand'[c]
    <3> DEFINE S == hand'[c] \ hand[c]
    <3>1. S \subseteq Deck /\ S \cap hand[c] = {} /\ hand'[c] = hand[c] \cup S
      BY <2>2
    <3> HIDE DEF S
    <3>2. deck'[c] = deck[c] \o SetToSeq(S)
      BY <3>1, StackAdds
    <3>3. SetToSeq(S) \in Seq(Deck) /\ ToSet(SetToSeq(S)) = S /\ Injective(SetToSeq(S))
      BY <3>1, InOrder
    <3> DEFINE t == SetToSeq(S)
    <3> HIDE DEF t
    <3>4. deck[c] \o t \in Seq(Deck) /\ ToSet(deck[c] \o t) = hand[c] \cup S /\ Injective(deck[c] \o t)
      BY <2>1, <3>1, <3>3, OrderJoin DEF t
    <3> QED  BY <3>1, <3>2, <3>4 DEF t
  <2>3. CASE ~ (hand[c] \subseteq hand'[c])
    <3>1. deck'[c] = SetToSeq(hand'[c])
      BY <2>3 DEF Stack
    <3>2. hand'[c] \subseteq Deck
      OBVIOUS
    <3> QED  BY <3>1, <3>2, InOrder
  <2> QED  BY <2>2, <2>3
<1>2. deck' \in [Clients -> Seq(Deck)]
  <2>1. deck' = [c \in Clients |-> deck'[c]]
    BY DEF Stack
  <2> QED  BY <1>1, <2>1
<1> QED  BY <1>1, <1>2 DEF DeckFits

-----------------------------------------------------------------------------
(***************************************************************************)
(* The cards offered are unused ones.                                      *)
(***************************************************************************)
LEMMA ValidAreUnused ==
  \A S, t, trump : /\ AllValidCards(S, t, trump) \subseteq S
                   /\ t = << >> => AllValidCards(S, t, trump) = S
  BY DEF AllValidCards

LEMMA OffersAreUnused == CardOffers \subseteq Unused(it.CURRENT)
  BY ValidAreUnused DEF CardOffers

-----------------------------------------------------------------------------
(***************************************************************************)
(* The room's part of the inductive invariant: which stage goes with which *)
(* question, and how many cards each player has.                           *)
(***************************************************************************)
PhaseInv ==
  /\ stage \in {"ADDING", "BIDDING", "DEALING", "PLAYING"}
  /\ it = NoIt <=> stage = "ADDING"
  /\ asked \in InRound => it # NoIt
  /\ asked \in {"seating", "ready"} => it = NoIt
  /\ asked = "seating" => Len(players) # 3
  /\ ready \subseteq Seated
  /\ ready # {} => asked = "ready" \/ it # NoIt
  /\ asked = "ready" => ready # Seated

HandsFit ==
  /\ asked \in {"bid", "give"} =>
       \A c \in Seated : used[c] = {} /\ \A d \in Seated : c # d => hand[c] \cap hand[d] = {}
  /\ asked = "bid" =>
       Size(stock, 3) /\ \A c \in Seated : Size(hand[c], HandSize) /\ hand[c] \cap stock = {}
  /\ asked = "give" =>
       /\ Size(hand[it.HIGHEST], HandSize + 3)
       /\ \A c \in Seated \ {it.HIGHEST} : Size(hand[c], HandSize)
  /\ asked \in {"final", "lead", "follow"} =>
       /\ Size(hand[it.HIGHEST], HandSize + 3)
       /\ \A c \in Seated \ {it.HIGHEST} : Size(hand[c], HandSize + 1)
       /\ \E x, y \in used[it.HIGHEST] \cap hand[it.HIGHEST] : x # y

RoomInv == TP!AuctionInv /\ PhaseInv /\ DeckFits /\ HandsFit

LEMMA SameSeats ==
  players' = players =>
    Seated' = Seated /\ \A c : SeatOf(c)' = SeatOf(c) /\ NextOf(c)' = NextOf(c)
BY DEF Seated, SeatOf, NextOf

LEMMA RolesOn ==
  TableInv => (asked \in InRound => /\ it # NoIt /\ it.CURRENT \in Seated /\ it.HIGHEST \in Seated
                                    /\ it.COMPULSORY \in Seated
                                    /\ Seated \subseteq Clients /\ FullTable)
<1> SUFFICES ASSUME TableInv, asked \in InRound
             PROVE  /\ it # NoIt /\ it.CURRENT \in Seated /\ it.HIGHEST \in Seated
                    /\ it.COMPULSORY \in Seated /\ Seated \subseteq Clients /\ FullTable
  OBVIOUS
<1>1. it \in [CURRENT : Seated, COMPULSORY : Seated, HIGHEST : Seated] /\ asked # "seating"
  BY DEF TableInv, InRound
<1>2. FullTable
  BY <1>1 DEF TableInv, RoomTyped, FullTable
<1>3. Seated \subseteq Clients
  BY <1>2, Seats
<1>4. it.CURRENT # -1 /\ NoIt.CURRENT = -1
  BY <1>1, <1>3, ClientsAssumption DEF NoIt
<1> QED  BY <1>1, <1>2, <1>3, <1>4

LEMMA TableFactsNext ==
  TP!AuctionInv' =>
    TableInv' /\ (asked' \in InRound => it' # NoIt /\ it'.CURRENT \in Seated' /\ it'.HIGHEST \in Seated')
<1>1. TP!AuctionInv => TableInv
  BY TableFacts
<1>2. TP!AuctionInv' => TableInv'
  BY <1>1, PTL
<1>3. TableInv' => (asked \in InRound => /\ it # NoIt /\ it.CURRENT \in Seated /\ it.HIGHEST \in Seated
                                    /\ it.COMPULSORY \in Seated
                                    /\ Seated \subseteq Clients /\ FullTable)'
  BY RolesOn, PTL
<1>4. NoIt' = NoIt /\ InRound' = InRound
  BY DEF NoIt, InRound
<1> QED  BY <1>2, <1>3, <1>4

LEMMA AuctionNext == TP!AuctionInv /\ TableNext => TP!AuctionInv'
<1>1. TP!AuctionInv /\ [TP!Next]_TP!vars => TP!AuctionInv'
  BY TP!Inductive, TableAssumptions, ClientsAssumption, DeckAssumption, HandAssumption,
     WholeDeckAssumption, CapsAssumption, ShuffleAssumption, BidsAssumption
<1> QED  BY <1>1, TableStep

\* What the room's part says at once of a round that is on.
LEMMA RoundFacts ==
  ASSUME RoomInv, asked \in InRound
  PROVE  /\ RoomTyped /\ FullTable /\ it # NoIt /\ stage # "ADDING"
         /\ it.CURRENT \in Seated /\ it.HIGHEST \in Seated /\ it.COMPULSORY \in Seated
         /\ it = [CURRENT |-> it.CURRENT, COMPULSORY |-> it.COMPULSORY, HIGHEST |-> it.HIGHEST]
         /\ Seated \subseteq Clients
         /\ asked = "bid" => it.CURRENT # it.HIGHEST
         /\ asked \in {"give", "final"} => it.CURRENT = it.HIGHEST
         /\ asked \in InPlay => stage = "PLAYING"
<1>1. TableInv
  BY TableFacts DEF RoomInv
<1>2. it \in [CURRENT : Seated, COMPULSORY : Seated, HIGHEST : Seated]
  BY <1>1 DEF TableInv
<1>3. it = [CURRENT |-> it.CURRENT, COMPULSORY |-> it.COMPULSORY, HIGHEST |-> it.HIGHEST]
  BY <1>2
<1>4. asked \in InPlay => stage = "PLAYING"
  BY <1>1 DEF TableInv, RoomInv, PhaseInv
<1>5. stage # "ADDING"
  BY DEF RoomInv, PhaseInv
<1> QED  BY <1>1, <1>3, <1>4, <1>5, RolesOn DEF TableInv

LEMMA TableStepInv == ASSUME RoomInv, TableNext PROVE TP!AuctionInv' /\ TableInv'
  BY AuctionNext, TableFactsNext DEF RoomInv

(***************************************************************************)
(* A player comes.                                                         *)
(***************************************************************************)
LEMMA JoinsRoom ==
  ASSUME RoomInv, NEW c \in Clients, Joins(c), deck' = deck
  PROVE  /\ RoomInv'
         /\ asked = "seating" /\ it = NoIt /\ it' = NoIt /\ ready = {} /\ ready' = {}
         /\ players' = Append(players, c) /\ Seated' = Seated \cup {c}
         /\ asked' = "ready" <=> Len(players') = 3
         /\ asked' \in {"seating", "ready"} /\ stage = "ADDING"
<1>1. TP!AuctionInv' /\ TableInv' /\ TableInv
  <2>1. TableNext
    BY DEF TableNext
  <2>2. TableInv
    BY TableFacts DEF RoomInv
  <2> QED  BY <2>1, <2>2, TableStepInv
<1>2. /\ Len(players) < 3 /\ players' = Append(players, c) /\ stage' = "ADDING"
      /\ ready' = ready /\ it' = it /\ hand' = hand /\ used' = used /\ stock' = stock
  BY DEF Joins, HandleAdd, cardVars
<1>3. asked = "seating"
  BY <1>1, <1>2 DEF TableInv
<1>4. it = NoIt /\ ready = {} /\ stage = "ADDING"
  BY <1>3 DEF RoomInv, PhaseInv
<1>5. Seated' = Seated \cup {c}
  <2>1. players \in Seq(Clients)
    BY <1>1 DEF TableInv, RoomTyped
  <2>2. /\ Len(players') = Len(players) + 1 /\ Len(players) \in Nat
        /\ (\A i \in 1 .. Len(players) : players'[i] = players[i])
        /\ players'[Len(players) + 1] = c /\ players' \in Seq(Clients)
    BY <1>2, <2>1, AppendProperties, LenProperties
  <2>3. DOMAIN players = 1 .. Len(players) /\ DOMAIN players' = 1 .. Len(players) + 1
    BY <2>1, <2>2, SeqDomain
  <2>4. 1 .. Len(players) + 1 = (1 .. Len(players)) \cup {Len(players) + 1}
    BY <2>2
  <2> QED  BY <2>2, <2>3, <2>4 DEF Seated
<1>6. asked' = (IF Len(players') = 3 THEN "ready" ELSE "seating")
  BY DEF Joins
<1>7. asked' \in {"seating", "ready"} /\ (asked' = "ready" <=> Len(players') = 3)
  BY <1>6
<1>8. PhaseInv'
  BY <1>2, <1>4, <1>5, <1>7 DEF PhaseInv, InRound, NoIt
<1>9. HandsFit'
  BY <1>7 DEF HandsFit
<1>10. DeckFits'
  BY <1>2 DEF RoomInv, DeckFits
<1> QED  BY <1>1, <1>2, <1>3, <1>4, <1>5, <1>7, <1>8, <1>9, <1>10 DEF RoomInv

(***************************************************************************)
(* A new deal.                                                             *)
(***************************************************************************)
LEMMA DealtHands ==
  ASSUME RoomTyped, FullTable, DealCards, players' = players
  PROVE  /\ \A c \in Seated : Size(hand'[c], HandSize) /\ hand'[c] \cap stock' = {}
                              /\ used'[c] = {}
         /\ \A c, d \in Seated : c # d => hand'[c] \cap hand'[d] = {}
         /\ Size(stock', 3) /\ hand' \in [Clients -> SUBSET Deck]
<1>1. TP!FullTable
  BY DEF FullTable, SeatedOnce, TP!FullTable, TP!Distinct
<1>2. TP!DealCards
  BY DEF DealCards, TP!DealCards, Seated, TP!Seated, SeatOf, TP!SeatOf, DeckSize, TP!DeckSize,
     NoCards, TP!NoCards, TP!MAX_PLAYERS
<1>3. /\ \A c \in TP!Seated : TP!Size(hand'[c], HandSize) /\ hand'[c] \cap stock' = {}
      /\ \A c, d \in TP!Seated : c # d => hand'[c] \cap hand'[d] = {}
      /\ TP!Size(stock', 3) /\ used' = TP!NoCards
  BY <1>1, <1>2, TP!DealtApart, TableAssumptions, ClientsAssumption, DeckAssumption,
     HandAssumption, WholeDeckAssumption, CapsAssumption, ShuffleAssumption, BidsAssumption
<1>4. Seated \subseteq Clients /\ Seated = TP!Seated /\ NoCards = TP!NoCards
  BY Seats, RoomIsTable
<1>5. \A c \in Seated : used'[c] = {}
  BY <1>3, <1>4 DEF NoCards
<1>6. hand' \in [Clients -> SUBSET Deck]
  BY <1>1, <1>2, TP!DealtCards, TableAssumptions, ClientsAssumption, DeckAssumption,
     HandAssumption, WholeDeckAssumption, CapsAssumption, ShuffleAssumption, BidsAssumption
<1> QED  BY <1>3, <1>4, <1>5, <1>6, SizeIs

LEMMA BeginsRoom ==
  ASSUME RoomTyped, FullTable, DealCards, players' = players, Stack, DeckFits,
         TP!AuctionInv', TableInv', asked' = "bid", stage' = "BIDDING", ready' \subseteq Seated
  PROVE  RoomInv'
<1>1. Seated' = Seated
  BY SameSeats
<1>2. it' # NoIt /\ asked' \in InRound
  <2>1. asked' \in InRound
    BY DEF InRound
  <2> QED  BY <2>1, TableFactsNext
<1>3. PhaseInv'
  BY <1>1, <1>2 DEF PhaseInv, NoIt, InRound
<1>4. DeckFits'
  <2>1. hand' \in [Clients -> SUBSET Deck] /\ hand \in [Clients -> SUBSET Deck]
    BY DealtHands DEF RoomTyped
  <2> QED  BY <2>1, StackFits
<1>5. HandsFit'
  <2>1. /\ \A c \in Seated : Size(hand'[c], HandSize) /\ hand'[c] \cap stock' = {}
                              /\ used'[c] = {}
        /\ \A c, d \in Seated : c # d => hand'[c] \cap hand'[d] = {}
        /\ Size(stock', 3)
    BY DealtHands
  <2>2. Size(stock, 3)' /\ \A c \in Seated : Size(hand[c], HandSize)'
    BY <2>1 DEF Size
  <2> QED  BY <1>1, <2>1, <2>2 DEF HandsFit
<1> QED  BY <1>3, <1>4, <1>5 DEF RoomInv

(***************************************************************************)
(* A player is ready.                                                      *)
(***************************************************************************)
LEMMA ReadyRoom ==
  ASSUME RoomInv, NEW c \in Clients, IsReady(c)
  PROVE  /\ asked = "ready" /\ it = NoIt /\ stage = "ADDING" /\ c \in Seated
         /\ ready' = ready \cup {c} /\ players' = players /\ FullTable /\ RoomTyped
         /\ stage' # "BIDDING" /\ deck' = deck =>
              RoomInv' /\ asked' = "ready" /\ it' = NoIt
         /\ stage' = "BIDDING" /\ Stack =>
              RoomInv' /\ asked' = "bid" /\ ready' = Seated /\ DealCards
<1>1. TP!AuctionInv' /\ TableInv' /\ TableInv
  <2>1. TableNext
    BY DEF TableNext
  <2>2. TableInv
    BY TableFacts DEF RoomInv
  <2> QED  BY <2>1, <2>2, TableStepInv
<1>2. asked = "ready" /\ it = NoIt /\ stage = "ADDING" /\ c \in Seated
      /\ asked' = (IF stage' = "BIDDING" THEN "bid" ELSE "ready")
  BY DEF IsReady, RoomInv, PhaseInv
<1>3. FullTable /\ RoomTyped
  BY <1>1, <1>2 DEF TableInv, RoomTyped, FullTable
<1>4. /\ ready' = ready \cup {c} /\ players' = players
      /\ IF ready' = Seated
           THEN PrepareGame(1, claim) /\ DealCards /\ stage' = "BIDDING"
           ELSE stage' = "ADDING" /\ UNCHANGED <<it, claim, cardVars>>
  BY <1>2 DEF IsReady, HandleReady, IsReadyToStart
<1>5. ready' \subseteq Seated
  BY <1>2, <1>4 DEF RoomInv, PhaseInv
<1>6. ASSUME stage' # "BIDDING", deck' = deck
      PROVE  RoomInv' /\ asked' = "ready" /\ it' = NoIt
  <2>1. /\ ready' # Seated /\ stage' = "ADDING" /\ it' = it /\ hand' = hand /\ asked' = "ready"
    BY <1>2, <1>4, <1>6 DEF cardVars
  <2>2. PhaseInv'
    BY <1>2, <1>4, <1>5, <2>1, SameSeats DEF PhaseInv, NoIt, InRound
  <2>3. DeckFits'
    BY <1>6, <2>1 DEF RoomInv, DeckFits
  <2>4. HandsFit'
    BY <2>1 DEF HandsFit
  <2> QED  BY <1>1, <1>2, <2>1, <2>2, <2>3, <2>4 DEF RoomInv
<1>7. ASSUME stage' = "BIDDING", Stack
      PROVE  RoomInv' /\ asked' = "bid" /\ ready' = Seated /\ DealCards
  <2>1. ready' = Seated /\ DealCards /\ asked' = "bid"
    BY <1>2, <1>4, <1>7
  <2>2. DeckFits
    BY DEF RoomInv
  <2>3. RoomInv'
    BY <1>1, <1>3, <1>4, <1>5, <1>7, <2>1, <2>2, BeginsRoom
  <2> QED  BY <2>1, <2>3
<1> QED  BY <1>2, <1>3, <1>4, <1>6, <1>7

-----------------------------------------------------------------------------
(***************************************************************************)
(* A bid.                                                                  *)
(***************************************************************************)
LEMMA SizeJoin ==
  ASSUME NEW S, NEW T, NEW m \in Nat, NEW n \in Nat, Size(S, m), Size(T, n), S \cap T = {}
  PROVE  Size(S \cup T, m + n)
<1>1. IsFiniteSet(S \cup T) /\ Cardinality(S \cup T) = m + n - Cardinality(S \cap T)
  BY FS_Union DEF Size
<1>2. Cardinality(S \cap T) = 0
  BY FS_EmptySet
<1> QED  BY <1>1, <1>2 DEF Size

LEMMA Raises ==
  ASSUME RoomInv, NEW b \in Bids \cup {PASS}, Places(b), Stack, stage' = "BIDDING"
  PROVE  /\ RoomInv' /\ asked = "bid" /\ asked' = "bid" /\ players' = players /\ ready' = ready
         /\ hand' = hand /\ used' = used /\ deck' = deck
<1>0. asked \in {"bid", "final"} /\ asked \in InRound
  BY DEF Places, InRound
<1>1. TP!AuctionInv' /\ TableInv' /\ RoomTyped
  <2>1. TableNext
    BY DEF TableNext
  <2> QED  BY <1>0, <2>1, TableStepInv, RoundFacts
<1>2. /\ HandleBid(it.CURRENT, b) /\ asked' = "bid"
  BY DEF Places
<1>3. RegularBid(it.CURRENT, b) /\ asked = "bid"
  BY <1>0, <1>2, RoundFacts DEF HandleBid, FinalBid, RegularBid
<1>4. hand' = hand /\ stock' = stock
  BY <1>3 DEF RegularBid
<1>5. players' = players /\ ready' = ready /\ used' = used
  BY <1>2 DEF HandleBid
<1>6. Seated' = Seated
  BY <1>5, SameSeats
<1>7. DeckFits /\ hand \in [Clients -> SUBSET Deck]
  BY <1>1 DEF RoomInv, RoomTyped
<1>8. DeckFits'
  BY <1>4, <1>7, StackFits
<1>9. deck' = deck
  <2>1. \A c \in Clients : deck'[c] = deck[c]
    BY <1>4, <1>7, StackKeeps
  <2>2. deck = [c \in Clients |-> deck[c]] /\ deck' = [c \in Clients |-> deck'[c]]
    BY <1>7, <1>8 DEF DeckFits
  <2> QED  BY <2>1, <2>2
<1>10. it' # NoIt
  BY <1>1, <1>2, TableFactsNext DEF InRound
<1>11. PhaseInv'
  BY <1>2, <1>5, <1>6, <1>10 DEF PhaseInv, NoIt, InRound, RoomInv
<1>12. HandsFit'
  <2>1. /\ Size(stock, 3) /\ \A c \in Seated : Size(hand[c], HandSize) /\ hand[c] \cap stock = {}
        /\ \A c \in Seated : used[c] = {} /\ \A d \in Seated : c # d => hand[c] \cap hand[d] = {}
    BY <1>3 DEF RoomInv, HandsFit
  <2>2. Size(stock, 3)' /\ \A c \in Seated : Size(hand[c], HandSize)'
    BY <1>4, <2>1
  <2> QED  BY <1>2, <1>4, <1>5, <1>6, <2>1, <2>2 DEF HandsFit
<1> QED  BY <1>1, <1>2, <1>3, <1>4, <1>5, <1>8, <1>9, <1>11, <1>12 DEF RoomInv

LEMMA Wins ==
  ASSUME RoomInv, NEW b \in Bids \cup {PASS}, Places(b), Stack, stage' = "DEALING",
         NEW h, h = it'.HIGHEST
  PROVE  /\ RoomInv' /\ asked = "bid" /\ asked' = "give" /\ players' = players /\ ready' = ready
         /\ used' = used /\ used[h] = {} /\ h \in Seated /\ it'.CURRENT = h /\ stock \subseteq Deck
         /\ deck'[h] = deck[h] \o SetToSeq(stock)
         /\ \A c \in Clients : c # h => deck'[c] = deck[c]
<1>0. asked \in {"bid", "final"} /\ asked \in InRound
  BY DEF Places, InRound
<1>1. TP!AuctionInv' /\ TableInv' /\ RoomTyped
  <2>1. TableNext
    BY DEF TableNext
  <2> QED  BY <1>0, <2>1, TableStepInv, RoundFacts
<1>2. HandleBid(it.CURRENT, b) /\ asked' = "give"
  BY DEF Places
<1>3. RegularBid(it.CURRENT, b) /\ asked = "bid"
  BY <1>0, <1>2, RoundFacts DEF HandleBid, FinalBid, RegularBid
<1>4. hand' = [hand EXCEPT ![h] = @ \cup stock] /\ it'.CURRENT = h
  BY <1>3 DEF RegularBid
<1>5. players' = players /\ ready' = ready /\ used' = used
  BY <1>2 DEF HandleBid
<1>6. Seated' = Seated
  BY <1>5, SameSeats
<1>7. DeckFits /\ hand \in [Clients -> SUBSET Deck] /\ stock \subseteq Deck
  BY <1>1 DEF RoomInv, RoomTyped
<1>8. it' # NoIt /\ h \in Seated /\ Seated \subseteq Clients
  BY <1>0, <1>1, <1>2, <1>6, TableFactsNext, RoundFacts DEF InRound
<1>9. hand'[h] = hand[h] \cup stock /\ (\A c \in Clients : c # h => hand'[c] = hand[c])
      /\ hand' \in [Clients -> SUBSET Deck]
  BY <1>4, <1>7, <1>8
<1>10. /\ Size(stock, 3) /\ (\A c \in Seated : Size(hand[c], HandSize) /\ hand[c] \cap stock = {})
       /\ \A c \in Seated : used[c] = {} /\ \A d \in Seated : c # d => hand[c] \cap hand[d] = {}
  BY <1>3 DEF RoomInv, HandsFit
<1>11. DeckFits'
  BY <1>7, <1>9, StackFits
<1>12. deck'[h] = deck[h] \o SetToSeq(stock)
  <2>1. h \in Clients /\ stock \cap hand[h] = {} /\ hand'[h] = hand[h] \cup stock
    BY <1>8, <1>9, <1>10
  <2> QED  BY <1>7, <1>9, <2>1, StackAdds
<1>13. \A c \in Clients : c # h => deck'[c] = deck[c]
  BY <1>7, <1>9, StackKeeps
<1>14. PhaseInv'
  BY <1>2, <1>5, <1>6, <1>8 DEF PhaseInv, NoIt, InRound, RoomInv
<1>15. HandsFit'
  <2>1. Size(hand'[h], HandSize + 3)
    <3>1. Size(hand[h] \cup stock, HandSize + 3)
      BY <1>8, <1>10, HandAssumption, SizeJoin
    <3> QED  BY <1>9, <3>1
  <2>2. \A c \in Seated : c # h => Size(hand'[c], HandSize)
    BY <1>8, <1>9, <1>10
  <2>3. \A c, d \in Seated : c # d => hand'[c] \cap hand'[d] = {}
    BY <1>8, <1>9, <1>10
  <2>4. Size(hand[it.HIGHEST], HandSize + 3)'
    BY <2>1 DEF Size
  <2>5. \A c \in Seated : c # h => Size(hand[c], HandSize)'
    BY <2>2 DEF Size
  <2> QED  BY <1>2, <1>5, <1>6, <1>10, <2>3, <2>4, <2>5 DEF HandsFit
<1> QED  BY <1>1, <1>2, <1>3, <1>4, <1>5, <1>7, <1>8, <1>10, <1>11, <1>12, <1>13, <1>14,
     <1>15 DEF RoomInv

LEMMA Contracts ==
  ASSUME RoomInv, NEW b \in Bids \cup {PASS}, Places(b), Stack, stage' = "PLAYING"
  PROVE  /\ RoomInv' /\ asked = "final" /\ asked' = "lead" /\ players' = players /\ ready' = ready
         /\ hand' = hand /\ used' = used /\ deck' = deck /\ it' = it
<1>0. asked \in {"bid", "final"} /\ asked \in InRound
  BY DEF Places, InRound
<1>1. TP!AuctionInv' /\ TableInv' /\ RoomTyped
  <2>1. TableNext
    BY DEF TableNext
  <2> QED  BY <1>0, <2>1, TableStepInv, RoundFacts
<1>2. HandleBid(it.CURRENT, b) /\ asked' = "lead"
  BY DEF Places
<1>3. FinalBid(it.CURRENT, b) /\ asked = "final"
  BY <1>0, <1>2, RoundFacts DEF HandleBid, FinalBid, RegularBid
<1>4. hand' = hand /\ it' = it
  BY <1>3 DEF FinalBid
<1>5. players' = players /\ ready' = ready /\ used' = used
  BY <1>2 DEF HandleBid
<1>6. Seated' = Seated
  BY <1>5, SameSeats
<1>7. DeckFits /\ hand \in [Clients -> SUBSET Deck]
  BY <1>1 DEF RoomInv, RoomTyped
<1>8. DeckFits'
  BY <1>4, <1>7, StackFits
<1>9. deck' = deck
  <2>1. \A c \in Clients : deck'[c] = deck[c]
    BY <1>4, <1>7, StackKeeps
  <2>2. deck = [c \in Clients |-> deck[c]] /\ deck' = [c \in Clients |-> deck'[c]]
    BY <1>7, <1>8 DEF DeckFits
  <2> QED  BY <2>1, <2>2
<1>10. it' # NoIt
  BY <1>1, <1>2, TableFactsNext DEF InRound
<1>11. PhaseInv'
  BY <1>2, <1>5, <1>6, <1>10 DEF PhaseInv, NoIt, InRound, RoomInv
<1>12. HandsFit'
  <2>1. /\ Size(hand[it.HIGHEST], HandSize + 3)
        /\ \A c \in Seated \ {it.HIGHEST} : Size(hand[c], HandSize + 1)
        /\ \E x, y \in used[it.HIGHEST] \cap hand[it.HIGHEST] : x # y
    BY <1>3 DEF RoomInv, HandsFit
  <2>2. /\ Size(hand[it.HIGHEST], HandSize + 3)'
        /\ \A c \in Seated \ {it.HIGHEST} : Size(hand[c], HandSize + 1)'
    BY <1>4, <2>1 DEF Size
  <2> QED  BY <1>2, <1>4, <1>5, <1>6, <2>1, <2>2 DEF HandsFit
<1> QED  BY <1>1, <1>2, <1>3, <1>4, <1>5, <1>8, <1>9, <1>11, <1>12 DEF RoomInv

(***************************************************************************)
(* Two cards are given away.                                               *)
(***************************************************************************)
One(x) == <<x>>

LEMMA GivesRoom ==
  ASSUME RoomInv, NEW x \in Deck, NEW y \in Deck, Gives(x, y), Stack,
         NEW h, h = it.HIGHEST, NEW p, p = NextOf(h), NEW q, q = NextOf(p)
  PROVE  /\ RoomInv' /\ asked = "give" /\ asked' = "final" /\ players' = players /\ ready' = ready
         /\ it' = it /\ claim' = claim /\ x # y /\ {x, y} \subseteq hand[h]
         /\ h \in Clients /\ p \in Clients /\ q \in Clients /\ Seated = {h, p, q}
         /\ h # p /\ h # q /\ p # q
         /\ used'[h] = {x, y} /\ used[h] = {} /\ hand'[h] = hand[h]
         /\ (\A c \in Clients : c # h => used'[c] = used[c])
         /\ (\A c \in Seated : used[c] = {})
         /\ deck'[h] = deck[h] /\ deck'[p] = deck[p] \o One(x) /\ deck'[q] = deck[q] \o One(y)
         /\ Size(hand[h], HandSize + 3)
<1>0. asked = "give" /\ asked \in InRound /\ asked' = "final"
  BY DEF Gives, InRound
<1>1. TP!AuctionInv' /\ TableInv' /\ RoomTyped /\ FullTable /\ h \in Seated /\ Seated \subseteq Clients
  <2>1. TableNext
    BY DEF TableNext
  <2> QED  BY <1>0, <2>1, TableStepInv, RoundFacts
<1>2. h \in Clients /\ p \in Clients /\ q \in Clients /\ Seated = {h, p, q} /\ h # p /\ h # q /\ p # q
  BY <1>1, Neighbours
<1>3. HandleDeal(p, x, q, y)
  BY DEF Gives
<1>4. /\ x # y /\ {x, y} \subseteq Unused(h)
      /\ hand' = [c \in Clients |-> hand[c] \cup (IF c = p THEN {x} ELSE {})
                                            \cup (IF c = q THEN {y} ELSE {})]
      /\ used' = [used EXCEPT ![h] = @ \cup {x, y}] /\ stage' = "DEALING"
      /\ players' = players /\ ready' = ready /\ it' = it /\ claim' = claim
  BY <1>3 DEF HandleDeal
<1>5. /\ Size(hand[h], HandSize + 3) /\ Size(hand[p], HandSize) /\ Size(hand[q], HandSize)
      /\ \A c \in Seated : used[c] = {} /\ \A d \in Seated : c # d => hand[c] \cap hand[d] = {}
  BY <1>0, <1>2 DEF RoomInv, HandsFit
<1>6. hand \in [Clients -> SUBSET Deck] /\ used \in [Clients -> SUBSET Deck]
  BY <1>1 DEF RoomTyped
<1>7. /\ hand'[h] = hand[h] /\ hand'[p] = hand[p] \cup {x} /\ hand'[q] = hand[q] \cup {y}
      /\ hand' \in [Clients -> SUBSET Deck]
  BY <1>2, <1>4, <1>6
<1>8. used'[h] = {x, y} /\ \A c \in Clients : c # h => used'[c] = used[c]
  BY <1>1, <1>4, <1>5, <1>6
<1>9. {x, y} \subseteq hand[h] /\ x \notin hand[p] /\ y \notin hand[q]
  BY <1>2, <1>4, <1>5 DEF Unused
<1>10. DeckFits
  BY DEF RoomInv
<1>11. DeckFits'
  BY <1>6, <1>7, <1>10, StackFits
<1>12. deck'[h] = deck[h]
  BY <1>2, <1>6, <1>7, <1>10, StackKeeps
<1>13. deck'[p] = deck[p] \o <<x>>
  <2>1. {x} \subseteq Deck /\ {x} \cap hand[p] = {}
    BY <1>9
  <2>2. deck'[p] = deck[p] \o SetToSeq({x})
    BY <1>2, <1>6, <1>7, <1>10, <2>1, StackAdds
  <2> QED  BY <2>2, OrderOne
<1>14. deck'[q] = deck[q] \o <<y>>
  <2>1. {y} \subseteq Deck /\ {y} \cap hand[q] = {}
    BY <1>9
  <2>2. deck'[q] = deck[q] \o SetToSeq({y})
    BY <1>2, <1>6, <1>7, <1>10, <2>1, StackAdds
  <2> QED  BY <2>2, OrderOne
<1>15. Seated' = Seated
  BY <1>4, SameSeats
<1>16. PhaseInv'
  <2>1. it' # NoIt
    BY <1>0, <1>4, RoundFacts
  <2> QED  BY <1>0, <1>4, <1>15, <2>1 DEF PhaseInv, NoIt, InRound, RoomInv
<1>17. HandsFit'
  <2>1. Size(hand'[h], HandSize + 3) /\ Size(hand'[p], HandSize + 1) /\ Size(hand'[q], HandSize + 1)
    <3>1. Size({x}, 1) /\ Size({y}, 1)
      BY FS_Singleton DEF Size
    <3>2. Size(hand[p] \cup {x}, HandSize + 1)
      BY <1>5, <1>9, <3>1, HandAssumption, SizeJoin
    <3>3. Size(hand[q] \cup {y}, HandSize + 1)
      BY <1>5, <1>9, <3>1, HandAssumption, SizeJoin
    <3> QED  BY <1>5, <1>7, <3>2, <3>3
  <2>2. it'.HIGHEST = h
    BY <1>4
  <2>3. Size(hand[it.HIGHEST], HandSize + 3)'
    BY <2>1, <2>2 DEF Size
  <2>4. \A c \in Seated \ {h} : Size(hand'[c], HandSize + 1)
    BY <1>2, <2>1
  <2>5. (\A c \in Seated \ {it.HIGHEST} : Size(hand[c], HandSize + 1))'
    BY <1>15, <2>2, <2>4 DEF Size
  <2>6. \E a, b \in used'[h] \cap hand'[h] : a # b
    BY <1>4, <1>7, <1>8, <1>9
  <2> QED  BY <1>0, <2>2, <2>3, <2>5, <2>6 DEF HandsFit
<1> QED
  BY <1>0, <1>1, <1>2, <1>4, <1>5, <1>7, <1>8, <1>9, <1>11, <1>12, <1>13, <1>14, <1>16, <1>17
     DEF RoomInv, One

-----------------------------------------------------------------------------
(***************************************************************************)
(* A card is played: the trick goes on or a new one begins, it fails, the  *)
(* next round begins, or the game is over.                                 *)
(***************************************************************************)
GoesOn(c, card) ==
  /\ report' = NoReport /\ stage' = "PLAYING" /\ Len(vec') # 3
  /\ used' = [used EXCEPT ![c] = @ \cup {card}] /\ hand' = hand /\ stock' = stock
  /\ it' = [it EXCEPT !.CURRENT = it'.CURRENT] /\ ready' = ready

GoesWrong(c, card) ==
  /\ report' = NoReport /\ stage' = stage /\ Len(vec') = 3
  /\ used' = [used EXCEPT ![c] = @ \cup {card}] /\ hand' = hand /\ stock' = stock
  /\ it' = [it EXCEPT !.CURRENT = it'.CURRENT] /\ ready' = ready

RoundOver ==
  /\ report'.sent = TRUE /\ report'.over = FALSE /\ stage' = "BIDDING" /\ DealCards
  /\ ready' = {}

GameIsOver ==
  /\ report'.sent = TRUE /\ report'.over = TRUE /\ report'.winner = None
  /\ stage' = "ADDING" /\ it' = NoIt /\ hand' = NoCards /\ ready' = {}

LEMMA PlayCases ==
  ASSUME RoomTyped, FullTable, NEW c, NEW card, HandlePlay(c, card)
  PROVE  /\ players' = players
         /\ GoesOn(c, card) \/ GoesWrong(c, card) \/ RoundOver \/ GameIsOver
<1> DEFINE table == Append(vec, [player |-> c, card |-> card])
<1>0. Len(<< >>) # 3
  BY EmptySeq
<1>1. players' = players
  BY DEF HandlePlay
<1>2. ASSUME PlayOn(c, card, table)
      PROVE  GoesOn(c, card)
  <2> HIDE DEF table
  <2> QED  BY <1>2 DEF PlayOn, GoesOn
<1>3. ASSUME PlayFails(c, card, table), Len(table) = 3
      PROVE  GoesWrong(c, card)
  <2> HIDE DEF table
  <2> QED  BY <1>3 DEF PlayFails, GoesWrong
<1>4. ASSUME NEW w, TakeTrick(c, card, w)
      PROVE  GoesOn(c, card)
  BY <1>0, <1>4 DEF TakeTrick, GoesOn
<1>5. ASSUME NEW taken, EndOfRound(taken)
      PROVE  RoundOver \/ GameIsOver
  <2> DEFINE over == SummedUp(taken).over
             winners == {d \in Seated : score'[d] >= PointsWinningCap}
  <2>1. /\ report'.sent = TRUE /\ report'.over = over /\ ready' = {} /\ score' = Zero
        /\ report'.winner = (IF winners = {} THEN None ELSE CHOOSE d \in winners : TRUE)
        /\ IF over THEN GameOver ELSE NextRound
    BY <1>5 DEF EndOfRound
  <2>2. over \in BOOLEAN
    BY DEF SummedUp
  <2>3. winners = {}
    <3>1. Seated \subseteq Clients
      BY Seats
    <3>2. \A d \in Seated : score'[d] = 0
      BY <2>1, <3>1 DEF Zero
    <3>3. ~ (0 >= PointsWinningCap)
      BY CapsAssumption
    <3> QED  BY <3>2, <3>3
  <2> HIDE DEF winners, over
  <2>4. report'.winner = None
    BY <2>1, <2>3
  <2>5. CASE over = TRUE
    BY <2>1, <2>4, <2>5 DEF GameOver, GameIsOver
  <2>6. CASE over = FALSE
    BY <2>1, <2>6 DEF NextRound, RoundOver
  <2> QED  BY <2>2, <2>5, <2>6
<1>6. \/ PlayOn(c, card, table)
      \/ PlayFails(c, card, table) /\ Len(table) = 3
      \/ \E w : TakeTrick(c, card, w)
      \/ \E taken : EndOfRound(taken)
  BY DEF HandlePlay
<1> QED  BY <1>1, <1>2, <1>3, <1>4, <1>5, <1>6

LEMMA GoesOnRoom ==
  ASSUME RoomInv, NEW card \in Deck, Plays(card), Stack, GoesOn(it.CURRENT, card),
         players' = players, asked' \in InPlay
  PROVE  RoomInv' /\ deck' = deck
<1>0. asked \in InPlay /\ asked \in InRound
  BY DEF Plays, InRound, InPlay
<1>1. TP!AuctionInv' /\ TableInv' /\ RoomTyped
  <2>1. TableNext
    BY DEF TableNext
  <2> QED  BY <1>0, <2>1, TableStepInv, RoundFacts
<1>2. Seated' = Seated
  BY SameSeats
<1>3. DeckFits /\ hand \in [Clients -> SUBSET Deck] /\ hand' = hand
  BY <1>1 DEF RoomInv, RoomTyped, GoesOn
<1>4. DeckFits'
  BY <1>3, StackFits
<1>5. deck' = deck
  <2>1. \A c \in Clients : deck'[c] = deck[c]
    BY <1>3, StackKeeps
  <2>2. deck = [c \in Clients |-> deck[c]] /\ deck' = [c \in Clients |-> deck'[c]]
    BY <1>3, <1>4 DEF DeckFits
  <2> QED  BY <2>1, <2>2
<1>6. it' # NoIt
  BY <1>1, TableFactsNext DEF InRound, InPlay
<1>7. PhaseInv'
  BY <1>0, <1>2, <1>6 DEF PhaseInv, NoIt, InRound, InPlay, RoomInv, GoesOn
<1>8. HandsFit'
  <2>1. /\ Size(hand[it.HIGHEST], HandSize + 3)
        /\ \A c \in Seated \ {it.HIGHEST} : Size(hand[c], HandSize + 1)
        /\ \E x, y \in used[it.HIGHEST] \cap hand[it.HIGHEST] : x # y
    BY <1>0 DEF RoomInv, HandsFit, InPlay
  <2>2. it'.HIGHEST = it.HIGHEST
    BY <1>0, RoundFacts DEF GoesOn
  <2>3. /\ Size(hand[it.HIGHEST], HandSize + 3)'
        /\ (\A c \in Seated \ {it.HIGHEST} : Size(hand[c], HandSize + 1))'
    BY <1>2, <1>3, <2>1, <2>2 DEF Size
  <2>4. used[it.HIGHEST] \subseteq used'[it.HIGHEST]
    BY <1>0, <1>1, RoundFacts DEF GoesOn, RoomTyped
  <2> QED  BY <1>3, <2>1, <2>2, <2>3, <2>4 DEF HandsFit, InPlay
<1> QED  BY <1>1, <1>4, <1>5, <1>7, <1>8 DEF RoomInv

LEMMA GoesWrongRoom ==
  ASSUME RoomInv, NEW card \in Deck, Plays(card), Stack, GoesWrong(it.CURRENT, card),
         players' = players, asked' = "none"
  PROVE  RoomInv' /\ deck' = deck /\ it' # NoIt
<1>0. asked \in InPlay /\ asked \in InRound
  BY DEF Plays, InRound, InPlay
<1>1. TP!AuctionInv' /\ TableInv' /\ RoomTyped
  <2>1. TableNext
    BY DEF TableNext
  <2> QED  BY <1>0, <2>1, TableStepInv, RoundFacts
<1>2. Seated' = Seated
  BY SameSeats
<1>3. DeckFits /\ hand \in [Clients -> SUBSET Deck] /\ hand' = hand
  BY <1>1 DEF RoomInv, RoomTyped, GoesWrong
<1>4. DeckFits'
  BY <1>3, StackFits
<1>5. deck' = deck
  <2>1. \A c \in Clients : deck'[c] = deck[c]
    BY <1>3, StackKeeps
  <2>2. deck = [c \in Clients |-> deck[c]] /\ deck' = [c \in Clients |-> deck'[c]]
    BY <1>3, <1>4 DEF DeckFits
  <2> QED  BY <2>1, <2>2
<1>6. it' # NoIt
  <2>1. it.HIGHEST \in Clients /\ it'.HIGHEST = it.HIGHEST
    BY <1>0, RoundFacts DEF GoesWrong
  <2>2. it.HIGHEST # -1
    BY <2>1, ClientsAssumption
  <2> QED  BY <2>1, <2>2 DEF NoIt
<1>7. PhaseInv'
  BY <1>0, <1>2, <1>6 DEF PhaseInv, NoIt, InRound, InPlay, RoomInv, GoesWrong
<1>8. HandsFit'
  BY DEF HandsFit
<1> QED  BY <1>1, <1>4, <1>5, <1>6, <1>7, <1>8 DEF RoomInv

LEMMA RoundOverRoom ==
  ASSUME RoomInv, NEW card \in Deck, Plays(card), Stack, RoundOver,
         players' = players, asked' = "bid"
  PROVE  RoomInv'
<1>0. asked \in InPlay /\ asked \in InRound
  BY DEF Plays, InRound, InPlay
<1>1. TP!AuctionInv' /\ TableInv' /\ RoomTyped /\ FullTable
  <2>1. TableNext
    BY DEF TableNext
  <2> QED  BY <1>0, <2>1, TableStepInv, RoundFacts
<1>2. DeckFits
  BY DEF RoomInv
<1> QED  BY <1>1, <1>2, BeginsRoom DEF RoundOver

LEMMA GameOverRoom ==
  ASSUME RoomInv, NEW card \in Deck, Plays(card), Stack, GameIsOver,
         players' = players, asked' = "none"
  PROVE  RoomInv'
<1>0. asked \in InPlay /\ asked \in InRound
  BY DEF Plays, InRound, InPlay
<1>1. TP!AuctionInv' /\ TableInv' /\ RoomTyped
  <2>1. TableNext
    BY DEF TableNext
  <2> QED  BY <1>0, <2>1, TableStepInv, RoundFacts
<1>2. DeckFits /\ hand \in [Clients -> SUBSET Deck] /\ hand' \in [Clients -> SUBSET Deck]
  BY <1>1 DEF RoomInv, RoomTyped, TableInv
<1>3. DeckFits'
  BY <1>2, StackFits
<1>4. PhaseInv'
  BY DEF PhaseInv, NoIt, InRound, GameIsOver
<1>5. HandsFit'
  BY DEF HandsFit
<1> QED  BY <1>1, <1>3, <1>4, <1>5 DEF RoomInv

-----------------------------------------------------------------------------
(***************************************************************************)
(* A player leaves.                                                        *)
(***************************************************************************)
LEMMA LeavingRoom ==
  ASSUME RoomInv, NEW c \in Clients, Leaving(c), deck' = [d \in Clients |-> << >>]
  PROVE  /\ RoomInv' /\ c \in Seated /\ asked' = "seating" /\ it' = NoIt /\ ready' = {}
         /\ Seated' = Seated \ {c} /\ players' = RemoveFirst(players, c)
         /\ players' \in Seq(Clients) /\ Len(players') # 3
         /\ stage # "ADDING" <=> it # NoIt
<1>1. TP!AuctionInv' /\ TableInv' /\ TableInv
  <2>1. TableNext
    BY DEF TableNext
  <2>2. TableInv
    BY TableFacts DEF RoomInv
  <2> QED  BY <2>1, <2>2, TableStepInv
<1>2. /\ c \in Seated /\ players' = RemoveAt(players, SeatOf(c)) /\ stage' = "ADDING"
      /\ ready' = {} /\ hand' = NoCards /\ it' = NoIt /\ asked' = "seating"
  BY DEF Leaving, HandleLeave, ResetPlayers
<1>3. players \in Seq(Clients) /\ SeatedOnce /\ Len(players) \in 0 .. 3
      /\ DOMAIN players = 1 .. Len(players)
  <2>1. players \in Seq(Clients) /\ SeatedOnce /\ Len(players) \in 0 .. 3
    BY <1>1 DEF TableInv, RoomTyped
  <2> QED  BY <2>1, SeqDomain
<1> DEFINE i == SeatOf(c)
           n == Len(players)
<1>4. i \in 1 .. n /\ players[i] = c /\ \A j \in 1 .. n : players[j] = c => j = i
  <2>1. \E j \in 1 .. n : players[j] = c
    BY <1>2, <1>3 DEF Seated
  <2>2. i \in 1 .. n /\ players[i] = c
    BY <1>3, <2>1 DEF SeatOf
  <2> QED  BY <1>3, <2>2 DEF SeatedOnce
<1>5. players' = RemoveFirst(players, c)
  BY <1>2, <1>3, <1>4, RemoveFirstIs
<1> HIDE DEF i
<1>6. /\ players' \in Seq(Clients) /\ Len(players') = n - 1
      /\ \A j \in 1 .. n - 1 : players'[j] = IF j < i THEN players[j] ELSE players[j + 1]
  <2>1. players' = RemoveAt(players, i)
    BY SMTT(30), <1>2 DEF i
  <2>2. /\ RemoveAt(players, i) \in Seq(Clients) /\ Len(RemoveAt(players, i)) = n - 1
        /\ \A j \in 1 .. Len(RemoveAt(players, i)) :
              RemoveAt(players, i)[j] = IF j < i THEN players[j] ELSE players[j + 1]
    BY <1>3, <1>4, RemoveAtIs
  <2> HIDE DEF n
  <2> QED  BY <2>1, <2>2
<1>7. Seated' = Seated \ {c}
  <2>1. DOMAIN players' = 1 .. n - 1
    BY <1>6, SeqDomain
  <2>2. \A j \in 1 .. n - 1 : players'[j] \in Seated \ {c}
    <3> SUFFICES ASSUME NEW j \in 1 .. n - 1 PROVE players'[j] \in Seated \ {c}
      OBVIOUS
    <3>1. CASE j < i
      <4>1. players'[j] = players[j] /\ j \in 1 .. n /\ j # i
        BY <1>3, <1>4, <1>6, <3>1
      <4> QED  BY <1>3, <1>4, <4>1 DEF Seated
    <3>2. CASE ~ (j < i)
      <4>1. players'[j] = players[j + 1] /\ j + 1 \in 1 .. n /\ j + 1 # i
        BY <1>3, <1>4, <1>6, <3>2
      <4> QED  BY <1>3, <1>4, <4>1 DEF Seated
    <3> QED  BY <3>1, <3>2
  <2>3. \A j \in 1 .. n : j # i => \E l \in 1 .. n - 1 : players'[l] = players[j]
    <3> SUFFICES ASSUME NEW j \in 1 .. n, j # i
                 PROVE  \E l \in 1 .. n - 1 : players'[l] = players[j]
      OBVIOUS
    <3>1. CASE j < i
      BY <1>3, <1>4, <1>6, <3>1
    <3>2. CASE ~ (j < i)
      <4>1. j - 1 \in 1 .. n - 1 /\ ~ (j - 1 < i) /\ j - 1 + 1 = j
        BY <1>3, <1>4, <3>2
      <4> QED  BY <1>6, <4>1
    <3> QED  BY <3>1, <3>2
  <2>4. \A d \in Seated \ {c} : \E j \in 1 .. n : j # i /\ players[j] = d
    BY <1>3, <1>4 DEF Seated
  <2> HIDE DEF n
  <2> QED  BY <2>1, <2>2, <2>3, <2>4 DEF Seated
<1>8. Len(players') # 3
  BY <1>3, <1>6
<1>9. PhaseInv'
  BY <1>2, <1>8 DEF PhaseInv, NoIt, InRound
<1>10. HandsFit'
  BY <1>2 DEF HandsFit
<1>11. DeckFits'
  <2>1. << >> \in Seq(Deck) /\ ToSet(<< >>) = {} /\ Injective(<< >>)
    BY EmptyCards DEF ToSet, Injective
  <2> QED  BY <1>2, <2>1 DEF DeckFits, NoCards
<1>12. stage # "ADDING" <=> it # NoIt
  BY DEF RoomInv, PhaseInv
<1> QED
  BY <1>1, <1>2, <1>5, <1>6, <1>7, <1>8, <1>9, <1>10, <1>11, <1>12 DEF RoomInv

-----------------------------------------------------------------------------
(***************************************************************************)
(* The clients' part of the inductive invariant.  A client that sits at    *)
(* the table and is not about to leave it will, when it has read its       *)
(* messages, keep what the room thinks it keeps, and what it will have to  *)
(* click is what the room has asked it.                                    *)
(***************************************************************************)
Fresh(m) == m.action \in Answers /\ m.old = FALSE

\* The fresh answers on their way.
Posted(q) == {q[i] : i \in {j \in 1 .. Len(q) : Fresh(q[j])}}

Playable(c) == {i \in DOMAIN deck[c] : deck[c][i] \in CardOffers}

Spent(c) == {i \in DOMAIN deck[c] : deck[c][i] \in used[c]}

\* An answer to the question the room has put last.
Fits(c, m) ==
  \/ m.action = "ready" /\ asked = "ready" /\ c \notin ready
  \/ /\ m.action = "bid" /\ c = it.CURRENT
     /\ \/ asked = "bid" /\ m.data \in BidOffers
        \/ asked = "final" /\ m.data \in FinalOffers
  \/ /\ m.action = "deal" /\ c = it.CURRENT /\ asked = "give"
     /\ m.data.left = NextOf(c) /\ m.data.right = NextOf(NextOf(c))
     /\ m.data.first \in DOMAIN deck[c] /\ m.data.second \in DOMAIN deck[c]
     /\ m.data.first # m.data.second
  \/ m.action = "play" /\ c = it.CURRENT /\ asked \in InPlay /\ m.data \in Playable(c)

Waiting(c, q, r) ==
  /\ IsSeq(q)
  /\ \A i \in 1 .. Len(q) :
       /\ q[i].action \in Answers \cup {"add", "leave"}
       /\ q[i].action = "leave" =>
            c \in Seated /\ \A j \in i + 1 .. Len(q) : q[j].action = "add"
       /\ q[i].action = "add" => i = Len(q) /\ (c \in Seated => Has(q, "leave"))
       /\ q[i].action \in Answers =>
            /\ c \in Seated /\ q[i].old \in BOOLEAN
            /\ q[i].old = FALSE => /\ Fits(c, q[i]) /\ ~ Has(r, "leave")
                                   /\ \A j \in i + 1 .. Len(q) : q[j].action \notin Answers
            /\ q[i].old = TRUE => c \notin ready /\ it = NoIt

Turn(c) == asked \in InRound /\ c = it.CURRENT

\* The indices of the cards an answer carries.
Given(m) ==
  IF m.action = "deal" THEN {m.data.first, m.data.second}
  ELSE IF m.action = "play" THEN {m.data} ELSE {}

Quiet(c, S, k) ==
  k.windows = {} /\ k.bids = {} /\ k.available = {} /\ k.gone = Spent(c) \cup S

Offered(c, k) ==
  \/ /\ asked = "bid" /\ k.windows = {"bids"} /\ k.bids = BidOffers
     /\ k.available = {} /\ k.gone = Spent(c)
  \/ /\ asked = "final" /\ k.windows = {"bids"} /\ k.bids = FinalOffers
     /\ k.available = {} /\ k.gone = Spent(c)
  \/ /\ asked = "give" /\ k.windows = {} /\ k.bids = {}
     /\ k.available = DOMAIN k.cards \ k.gone /\ \E i \in DOMAIN k.cards : k.gone \subseteq {i}
  \/ /\ asked \in InPlay /\ k.windows = {} /\ k.bids = {} /\ k.gone = Spent(c)
     /\ k.available \cap k.drawn = Playable(c)

InGame(c, P, k) ==
  /\ k.cards = deck[c] /\ k.drawn = DOMAIN k.cards \ k.gone
  /\ ~ Turn(c) => Quiet(c, {}, k)
  /\ Turn(c) /\ P = {} => Offered(c, k)
  /\ Turn(c) => \A m \in P : Quiet(c, Given(m), k)

AtRest(c, P, k) ==
  /\ k.drawn = {} /\ k.bids = {} /\ "bids" \notin k.windows
  /\ "ready" \in k.windows => asked = "ready"
  /\ k.windows # {} => c \notin ready /\ P = {}

Shown(c, P, k) ==
  /\ k.game = players
  /\ it # NoIt => k.begun = TRUE /\ InGame(c, P, k)
  /\ it = NoIt => k.begun = FALSE /\ AtRest(c, P, k)

Here(c, q) == c \in Seated /\ ~ Has(q, "leave")

Caught(c, r) == c \in Seated /\ (c \in ready \/ it # NoIt) => ~ Has(r, "leave")

CInv(c, q, k, r) ==
  /\ Waiting(c, q, r) /\ Caught(c, r)
  /\ Here(c, q) => \E e : Ends(k, r, e) /\ Shown(c, Posted(q), e)
  /\ ~ Here(c, q) => Off(k, r)

ClientsInv ==
  /\ DOMAIN toServer = Clients /\ DOMAIN toClient = Clients /\ DOMAIN client = Clients
  /\ \A c \in Clients :
       \E q, k, r : q = toServer[c] /\ k = client[c] /\ r = toClient[c] /\ CInv(c, q, k, r)

IInv == RoomInv /\ ClientsInv

-----------------------------------------------------------------------------
LEMMA PostedAppend ==
  ASSUME NEW q, IsSeq(q), NEW m
  PROVE  /\ Fresh(m) => Posted(Append(q, m)) = Posted(q) \cup {m}
         /\ ~ Fresh(m) => Posted(Append(q, m)) = Posted(q)
<1> DEFINE t == Append(q, m)
<1>1. /\ Len(q) \in Nat /\ Len(t) = Len(q) + 1
      /\ (\A i \in 1 .. Len(q) : t[i] = q[i]) /\ t[Len(q) + 1] = m
  BY AppendIs
<1> HIDE DEF t
<1>2. 1 .. Len(t) = (1 .. Len(q)) \cup {Len(q) + 1}
  BY <1>1
<1> QED  BY <1>1, <1>2 DEF Posted, t

LEMMA PostedTail ==
  ASSUME NEW q, IsSeq(q), q # << >>
  PROVE  /\ Fresh(Head(q)) => Posted(q) = Posted(Tail(q)) \cup {Head(q)}
         /\ ~ Fresh(Head(q)) => Posted(q) = Posted(Tail(q))
<1> DEFINE t == Tail(q)
<1>1. /\ Len(t) = Len(q) - 1 /\ Len(q) \in Nat \ {0}
      /\ (\A i \in 1 .. Len(t) : t[i] = q[i + 1]) /\ Head(q) = q[1]
  BY TailIs
<1> HIDE DEF t
<1>2. \A i \in 1 .. Len(q) : i = 1 \/ (i - 1 \in 1 .. Len(t) /\ t[i - 1] = q[i])
  <2> SUFFICES ASSUME NEW i \in 1 .. Len(q), i # 1
               PROVE  i - 1 \in 1 .. Len(t) /\ t[i - 1] = q[i]
    OBVIOUS
  <2>1. i - 1 \in 1 .. Len(t) /\ i - 1 + 1 = i
    BY <1>1
  <2> QED  BY <1>1, <2>1
<1>3. \A i \in 1 .. Len(t) : i + 1 \in 1 .. Len(q) /\ t[i] = q[i + 1]
  BY <1>1
<1>4. 1 \in 1 .. Len(q)
  BY <1>1
<1>5. Posted(t) \subseteq Posted(q)
  BY <1>3 DEF Posted
<1>6. Fresh(Head(q)) => Head(q) \in Posted(q)
  BY <1>1, <1>4 DEF Posted
<1>7. Posted(q) \subseteq Posted(t) \cup {Head(q)}
  BY <1>1, <1>2 DEF Posted
<1>8. ASSUME ~ Fresh(Head(q))
      PROVE  Posted(q) \subseteq Posted(t)
  BY <1>1, <1>2, <1>8 DEF Posted
<1> QED  BY <1>5, <1>6, <1>7, <1>8 DEF t

LEMMA PostedNone ==
  ASSUME NEW q, \A i \in 1 .. Len(q) : q[i].action \notin Answers
  PROVE  Posted(q) = {}
  BY DEF Posted, Fresh

(***************************************************************************)
(* A step that leaves the room alone.                                      *)
(***************************************************************************)
LEMMA SameRoom ==
  ASSUME UNCHANGED <<roomVars, deck, asked>>
  PROVE  /\ Seated' = Seated /\ players' = players /\ ready' = ready /\ it' = it
         /\ \A c, m : Fits(c, m)' <=> Fits(c, m)
         /\ \A c, P, k : Shown(c, P, k)' <=> Shown(c, P, k)
         /\ \A c, q : Here(c, q)' <=> Here(c, q)
         /\ \A c, r : Caught(c, r)' <=> Caught(c, r)
<1>1. /\ stage' = stage /\ players' = players /\ ready' = ready /\ it' = it /\ asked' = asked
      /\ deck' = deck /\ used' = used /\ hand' = hand /\ claim' = claim /\ vec' = vec
      /\ superSuit' = superSuit
  BY DEF roomVars, cardVars, gameVars
<1>2. Seated' = Seated /\ \A c : NextOf(c)' = NextOf(c)
  BY <1>1, SameSeats
<1>3. BidOffers' = BidOffers /\ FinalOffers' = FinalOffers
  BY <1>1 DEF BidOffers, FinalOffers
<1>4. CardOffers' = CardOffers
  BY <1>1 DEF CardOffers, Unused, TableCards
<1>5. \A c : Playable(c)' = Playable(c) /\ Spent(c)' = Spent(c)
  BY <1>1, <1>4 DEF Playable, Spent
<1>6. \A c, m : Fits(c, m)' <=> Fits(c, m)
  <2> SUFFICES ASSUME NEW c, NEW m PROVE Fits(c, m)' <=> Fits(c, m)
    OBVIOUS
  <2>1. NextOf(NextOf(c))' = NextOf(NextOf(c))
    BY <1>1 DEF NextOf, SeatOf
  <2> QED  BY <1>1, <1>2, <1>3, <1>5, <2>1 DEF Fits
<1>7. \A c : Turn(c)' <=> Turn(c)
  BY <1>1 DEF Turn, InRound
<1>8. \A c, S, k : Quiet(c, S, k)' <=> Quiet(c, S, k)
  BY <1>5 DEF Quiet
<1>9. \A c, k : Offered(c, k)' <=> Offered(c, k)
  BY <1>1, <1>3, <1>5 DEF Offered, InPlay
<1>10. \A c, P, k : InGame(c, P, k)' <=> InGame(c, P, k)
  BY <1>1, <1>7, <1>8, <1>9 DEF InGame
<1>11. \A c, P, k : AtRest(c, P, k)' <=> AtRest(c, P, k)
  BY <1>1 DEF AtRest
<1>12. NoIt' = NoIt
  BY DEF NoIt
<1>13. \A c, P, k : Shown(c, P, k)' <=> Shown(c, P, k)
  BY <1>1, <1>10, <1>11, <1>12 DEF Shown
<1>14. \A c, q : Here(c, q)' <=> Here(c, q)
  BY <1>2 DEF Here
<1>15. \A c, r : Caught(c, r)' <=> Caught(c, r)
  BY <1>1, <1>2, <1>12 DEF Caught
<1> QED  BY <1>1, <1>2, <1>6, <1>13, <1>14, <1>15

LEMMA SameQueue ==
  ASSUME UNCHANGED <<roomVars, deck, asked>>
  PROVE  \A c, q, k, r : (Waiting(c, q, r)' <=> Waiting(c, q, r)) /\ (CInv(c, q, k, r)' <=> CInv(c, q, k, r))
<1>1. \A c, q, r : Waiting(c, q, r)' <=> Waiting(c, q, r)
  BY SameRoom DEF Waiting, NoIt
<1>2. \A c, q, k, r : CInv(c, q, k, r)' <=> CInv(c, q, k, r)
  BY <1>1, SameRoom DEF CInv
<1> QED  BY <1>1, <1>2

-----------------------------------------------------------------------------
(***************************************************************************)
(* What a client does, for the client alone.                               *)
(***************************************************************************)
LEMMA WaitingRead ==
  ASSUME NEW c, NEW q, NEW r, Waiting(c, q, r), NEW s, Has(s, "leave") => Has(r, "leave")
  PROVE  Waiting(c, q, s)
  BY DEF Waiting

LEMMA ReceiveKeeps ==
  ASSUME NEW c, NEW q, NEW k, NEW r, CInv(c, q, k, r), r # << >>
  PROVE  CInv(c, q, Read(k, Head(r)), Tail(r))
<1>1. IsSeq(r)
  BY DEF CInv, Ends, Off, Mail
<1>2. Has(Tail(r), "leave") => Has(r, "leave")
  BY <1>1, TailIs
<1>3. Waiting(c, q, Tail(r)) /\ Caught(c, Tail(r))
  BY <1>2, WaitingRead DEF CInv, Caught
<1>4. ASSUME Here(c, q)
      PROVE  \E e : Ends(Read(k, Head(r)), Tail(r), e) /\ Shown(c, Posted(q), e)
  BY <1>4, EndsTail DEF CInv
<1>5. ASSUME ~ Here(c, q)
      PROVE  Off(Read(k, Head(r)), Tail(r))
  BY <1>5, OffTail DEF CInv
<1> QED  BY <1>3, <1>4, <1>5 DEF CInv

(***************************************************************************)
(* A client with a game sits at the table; where a leave has not been read *)
(* no game is on, and where all has been read the screen shows what the    *)
(* room thinks.                                                            *)
(***************************************************************************)
LEMMA Sitting ==
  ASSUME NEW c, NEW q, NEW k, NEW r, CInv(c, q, k, r), k.game # NoGame
  PROVE  /\ Here(c, q) /\ Waiting(c, q, r) /\ Caught(c, r) /\ Kept(k) /\ IsSeq(q) /\ IsSeq(r)
         /\ \A i \in 1 .. Len(q) : q[i].action \in Answers
         /\ Has(r, "leave") => it = NoIt /\ c \notin ready /\ Posted(q) = {}
         /\ \E e : Ends(k, r, e) /\ Shown(c, Posted(q), e)
         /\ ~ Has(r, "leave") /\ ~ Mute(k) => r = << >> /\ Shown(c, Posted(q), k) /\ Calm(k)
<1>1. Here(c, q) /\ Waiting(c, q, r) /\ Caught(c, r)
  BY DEF CInv, Off
<1>2. PICK e : Ends(k, r, e) /\ Shown(c, Posted(q), e)
  BY <1>1 DEF CInv
<1>3. /\ Kept(k) /\ Calm(e) /\ Mail(k, r)
      /\ ~ Has(r, "leave") => Calm(k) /\ (r # << >> => Mute(k)) /\ (r = << >> => e = k)
  BY <1>2, EndsKept
<1>4. \A i \in 1 .. Len(q) : q[i].action \in Answers
  BY <1>1 DEF Waiting, Here, Has
<1>5. ASSUME Has(r, "leave")
      PROVE  it = NoIt /\ c \notin ready /\ Posted(q) = {}
  <2>1. it = NoIt /\ c \notin ready
    BY <1>1, <1>5 DEF Here, Caught
  <2>2. \A i \in 1 .. Len(q) : ~ Fresh(q[i])
    BY <1>1, <1>5 DEF Waiting, Fresh
  <2> QED  BY <2>1, <2>2 DEF Posted
<1>6. ASSUME ~ Has(r, "leave"), ~ Mute(k)
      PROVE  r = << >> /\ Shown(c, Posted(q), k) /\ Calm(k)
  <2>1. r = << >> /\ e = k /\ Calm(k)
    BY <1>3, <1>6
  <2> QED  BY <1>2, <2>1
<1>7. IsSeq(q) /\ IsSeq(r)
  BY <1>1, <1>3 DEF Waiting, Mail
<1> QED  BY <1>1, <1>2, <1>3, <1>4, <1>5, <1>6, <1>7

LEMMA AnswerQueued ==
  ASSUME NEW c, NEW q, NEW r, Waiting(c, q, r), Here(c, q), Posted(q) = {},
         NEW m, m.action \in Answers, m.old \in BOOLEAN,
         m.old = FALSE => Fits(c, m) /\ ~ Has(r, "leave"),
         m.old = TRUE => c \notin ready /\ it = NoIt
  PROVE  Waiting(c, Append(q, m), r) /\ Here(c, Append(q, m))
<1> DEFINE t == Append(q, m)
           n == Len(q)
<1>0. "leave" \notin Answers /\ "add" \notin Answers
  BY DEF Answers
<1>1. /\ IsSeq(t) /\ n \in Nat /\ Len(t) = n + 1
      /\ (\A i \in 1 .. n : t[i] = q[i]) /\ t[n + 1] = m
      /\ \A a : Has(t, a) <=> Has(q, a) \/ m.action = a
  BY AppendIs DEF Waiting
<1> HIDE DEF t, n
<1>2. Here(c, t) /\ ~ Has(q, "leave") /\ c \in Seated
  BY <1>0, <1>1 DEF Here
<1>3. ASSUME NEW i \in 1 .. n
      PROVE  /\ q[i].action \in Answers /\ q[i].old = TRUE /\ c \notin ready /\ it = NoIt
  <2>1. ~ Fresh(q[i])
    BY <1>3 DEF Posted, n
  <2>2. q[i].action \in Answers
    BY <1>2, <1>3 DEF Waiting, Has, n
  <2> QED  BY <1>3, <2>1, <2>2 DEF Waiting, Fresh, n
<1>4. ASSUME NEW i \in 1 .. n + 1
      PROVE  /\ t[i].action \in Answers /\ t[i].old \in BOOLEAN
             /\ t[i].old = FALSE => /\ i = n + 1 /\ Fits(c, t[i]) /\ ~ Has(r, "leave")
             /\ t[i].old = TRUE => c \notin ready /\ it = NoIt
  <2>1. CASE i = n + 1
    <3>1. t[i] = m
      BY <1>1, <2>1, Zenon
    <3> QED  BY <2>1, <3>1
  <2>2. CASE i \in 1 .. n
    BY <1>1, <1>3, <2>2
  <2>3. i = n + 1 \/ i \in 1 .. n
    BY <1>1
  <2> QED  BY <2>1, <2>2, <2>3
<1>5. \A j \in n + 1 + 1 .. n + 1 : FALSE
  BY <1>1
<1> QED  BY ZenonT(60), <1>0, <1>1, <1>2, <1>4, <1>5 DEF Waiting, t

(***************************************************************************)
(* A click before a leave has been read.                                   *)
(***************************************************************************)
LEMMA StaleClick ==
  ASSUME NEW c, NEW q, NEW k, NEW r, CInv(c, q, k, r), k.game # NoGame, Has(r, "leave"),
         NEW l, Kept(l), Similar(l, k)
  PROVE  /\ CInv(c, q, l, r)
         /\ \A m : m.action \in Answers /\ m.old = TRUE => CInv(c, Append(q, m), l, r)
<1>1. /\ Here(c, q) /\ Waiting(c, q, r) /\ Caught(c, r) /\ IsSeq(q)
      /\ it = NoIt /\ c \notin ready /\ Posted(q) = {}
  BY Sitting
<1>2. PICK e : Ends(k, r, e) /\ Shown(c, Posted(q), e)
  BY Sitting
<1>3. Ends(l, r, e)
  BY <1>2, EndsStale
<1>4. CInv(c, q, l, r)
  BY <1>1, <1>2, <1>3 DEF CInv
<1>5. ASSUME NEW m, m.action \in Answers, m.old = TRUE
      PROVE  CInv(c, Append(q, m), l, r)
  <2>1. Waiting(c, Append(q, m), r) /\ Here(c, Append(q, m))
    BY <1>1, <1>5, AnswerQueued
  <2>2. ~ Fresh(m)
    BY <1>5 DEF Fresh
  <2>3. Posted(Append(q, m)) = Posted(q)
    BY <1>1, <2>2, PostedAppend
  <2> QED  BY <1>1, <1>2, <1>3, <2>1, <2>3 DEF CInv
<1> QED  BY <1>4, <1>5

(***************************************************************************)
(* A click on what the room has asked.                                     *)
(***************************************************************************)
LEMMA FreshClick ==
  ASSUME NEW c, NEW q, NEW k, NEW r, CInv(c, q, k, r), k.game # NoGame, r = << >>,
         Posted(q) = {}, NEW l, Kept(l), Calm(l),
         NEW m, Fresh(m), Fits(c, m), Shown(c, {m}, l)
  PROVE  CInv(c, Append(q, m), l, r)
<1>1. /\ Here(c, q) /\ Waiting(c, q, r) /\ Caught(c, r) /\ IsSeq(q)
  BY Sitting
<1>2. Waiting(c, Append(q, m), r) /\ Here(c, Append(q, m))
  <2>1. ~ Has(r, "leave")
    BY EmptyIs
  <2>2. m.action \in Answers /\ m.old = FALSE
    BY DEF Fresh
  <2> QED  BY <1>1, <2>1, <2>2, AnswerQueued
<1>3. Posted(Append(q, m)) = {m}
  BY <1>1, PostedAppend
<1>4. Ends(l, r, l)
  BY EndsNow
<1> QED  BY <1>1, <1>2, <1>3, <1>4 DEF CInv

(***************************************************************************)
(* A click that tells the room nothing.                                    *)
(***************************************************************************)
LEMMA SilentClick ==
  ASSUME NEW c, NEW q, NEW k, NEW r, CInv(c, q, k, r), k.game # NoGame, r = << >>,
         NEW l, Kept(l), Calm(l), Shown(c, Posted(q), l)
  PROVE  CInv(c, q, l, r)
<1>1. Here(c, q) /\ Waiting(c, q, r) /\ Caught(c, r)
  BY Sitting
<1>2. Ends(l, r, l)
  BY EndsNow
<1> QED  BY <1>1, <1>2 DEF CInv

LEMMA RequestKeeps ==
  ASSUME NEW c \in Clients, NEW q, NEW k, NEW r, CInv(c, q, k, r), k.game = NoGame,
         players \in Seq(Clients),
         ~ Has(q, "add"), ~ Has(r, "add"), NEW m, m.action = "add"
  PROVE  CInv(c, Append(q, m), k, r)
<1>1. ~ Here(c, q)
  <2> SUFFICES ASSUME Here(c, q) PROVE FALSE
    OBVIOUS
  <2>1. PICK e : Ends(k, r, e) /\ Shown(c, Posted(q), e)
    BY DEF CInv
  <2>2. e = k
    BY <2>1, EndsKept, EndsOff
  <2>3. k.game = players
    BY <2>1, <2>2 DEF Shown
  <2> QED  BY <2>3, NoGameIs
<1>2. Off(k, r) /\ Waiting(c, q, r) /\ Caught(c, r)
  BY <1>1 DEF CInv
<1> DEFINE t == Append(q, m)
           n == Len(q)
<1>3. /\ IsSeq(t) /\ n \in Nat /\ Len(t) = n + 1
      /\ (\A i \in 1 .. n : t[i] = q[i]) /\ t[n + 1] = m
      /\ \A a : Has(t, a) <=> Has(q, a) \/ m.action = a
  BY <1>2, AppendIs DEF Waiting
<1> HIDE DEF t, n
<1>4. ~ Here(c, t) /\ (c \in Seated => Has(t, "leave")) /\ "add" \notin Answers
  BY <1>1, <1>3 DEF Here, Answers
<1>5. ASSUME NEW i \in 1 .. n + 1
      PROVE  /\ t[i].action \in Answers \cup {"add", "leave"}
             /\ t[i].action = "leave" =>
                  c \in Seated /\ \A j \in i + 1 .. n + 1 : t[j].action = "add"
             /\ t[i].action = "add" => i = n + 1
             /\ t[i].action \in Answers =>
                  /\ c \in Seated /\ t[i].old \in BOOLEAN
                  /\ t[i].old = FALSE => /\ Fits(c, t[i]) /\ ~ Has(r, "leave")
                                         /\ \A j \in i + 1 .. n + 1 : t[j].action \notin Answers
                  /\ t[i].old = TRUE => c \notin ready /\ it = NoIt
  <2>1. CASE i = n + 1
    <3>1. t[i] = m
      BY <1>3, <2>1, Zenon
    <3> QED  BY <1>4, <2>1, <3>1
  <2>2. CASE i \in 1 .. n
    <3>1. t[i] = q[i] /\ q[i].action # "add"
      BY <1>3, <2>2 DEF Has, n
    <3>2. \A j \in i + 1 .. n + 1 : j \in i + 1 .. n \/ j = n + 1
      BY <1>3
    <3>3. \A j \in i + 1 .. n : j \in 1 .. n /\ t[j] = q[j]
      BY <1>3, <2>2
    <3>4. /\ q[i].action \in Answers \cup {"add", "leave"}
          /\ q[i].action = "leave" => c \in Seated /\ \A j \in i + 1 .. n : q[j].action = "add"
          /\ q[i].action \in Answers =>
                  /\ c \in Seated /\ q[i].old \in BOOLEAN
                  /\ q[i].old = FALSE => /\ Fits(c, q[i]) /\ ~ Has(r, "leave")
                                         /\ \A j \in i + 1 .. n : q[j].action \notin Answers
                  /\ q[i].old = TRUE => c \notin ready /\ it = NoIt
      BY <1>2, <2>2 DEF Waiting, n
    <3> QED  BY <1>3, <1>4, <3>1, <3>2, <3>3, <3>4
  <2>3. i = n + 1 \/ i \in 1 .. n
    BY <1>3
  <2> QED  BY <2>1, <2>2, <2>3
<1>6. Waiting(c, t, r)
  BY <1>3, <1>4, <1>5 DEF Waiting
<1> QED  BY <1>2, <1>4, <1>6 DEF CInv, t

LEMMA KeptOf ==
  ASSUME NEW c, NEW q, NEW k, NEW r, CInv(c, q, k, r)
  PROVE  Kept(k) /\ IsSeq(q) /\ IsSeq(r) /\ Mail(k, r)
<1>1. Kept(k) /\ Mail(k, r)
  BY EndsKept DEF CInv, Off
<1> QED  BY <1>1 DEF CInv, Waiting, Mail

(***************************************************************************)
(* A client with something to click has it because the room has asked.     *)
(***************************************************************************)
LEMMA Asked ==
  ASSUME NEW c, NEW P, NEW k, Shown(c, P, k)
  PROVE  /\ "ready" \in k.windows => /\ it = NoIt /\ k.begun = FALSE /\ AtRest(c, P, k)
                                     /\ asked = "ready" /\ c \notin ready /\ P = {}
         /\ k.bids # {} \/ k.available \cap k.drawn # {} =>
              it # NoIt /\ k.begun = TRUE /\ InGame(c, P, k) /\ Turn(c) /\ P = {} /\ Offered(c, k)
<1>1. ASSUME "ready" \in k.windows
      PROVE  it = NoIt
  <2>1. Turn(c) /\ P = {} => ~ Offered(c, k)
    BY <1>1 DEF Offered
  <2>2. \A S : ~ Quiet(c, S, k)
    BY <1>1 DEF Quiet
  <2> QED  BY <2>1, <2>2 DEF Shown, InGame
<1>2. ASSUME k.bids # {} \/ k.available \cap k.drawn # {}
      PROVE  it # NoIt /\ Turn(c) /\ P = {}
  <2>1. \A S : ~ Quiet(c, S, k)
    BY <1>2 DEF Quiet
  <2>2. it # NoIt
    BY <1>2 DEF Shown, AtRest
  <2> QED  BY <2>1, <2>2 DEF Shown, InGame
<1>3. ASSUME "ready" \in k.windows
      PROVE  k.begun = FALSE /\ AtRest(c, P, k) /\ asked = "ready" /\ c \notin ready /\ P = {}
  <2>1. k.windows # {}
    BY <1>3
  <2> QED  BY <1>1, <1>3, <2>1 DEF Shown, AtRest
<1>4. ASSUME k.bids # {} \/ k.available \cap k.drawn # {}
      PROVE  k.begun = TRUE /\ InGame(c, P, k) /\ Offered(c, k)
  BY <1>2, <1>4 DEF Shown, InGame
<1> QED  BY <1>1, <1>2, <1>3, <1>4

LEMMA ReadyClick ==
  ASSUME NEW c, NEW q, NEW k, NEW r, CInv(c, q, k, r), "ready" \in k.windows,
         NEW m, m.action = "ready", m.old \in BOOLEAN, m.old = TRUE <=> Has(r, "leave")
  PROVE  CInv(c, Append(q, m), HideModals(k), r)
<1> DEFINE l == HideModals(k)
<1>1. Kept(k) /\ k.game # NoGame
  BY KeptOf DEF Kept
<1>2. /\ Kept(l) /\ l.windows = {} /\ l.bids = {}
      /\ l.game = k.game /\ l.begun = k.begun /\ l.available = k.available
      /\ l.gone = k.gone /\ l.cards = k.cards /\ l.drawn = k.drawn
  BY <1>1, HideModalsIs
<1> HIDE DEF l
<1>3. m.action \in Answers
  BY DEF Answers
<1>4. CASE Has(r, "leave")
  <2>1. Similar(l, k)
    BY <1>2 DEF Similar
  <2> QED  BY <1>1, <1>2, <1>3, <1>4, <2>1, StaleClick DEF l
<1>5. CASE ~ Has(r, "leave")
  <2>1. ~ Mute(k)
    BY DEF Mute
  <2>2. r = << >> /\ Shown(c, Posted(q), k)
    BY <1>1, <1>5, <2>1, Sitting
  <2>3. /\ it = NoIt /\ k.begun = FALSE /\ AtRest(c, Posted(q), k)
        /\ asked = "ready" /\ c \notin ready /\ Posted(q) = {}
    BY <2>2, Asked
  <2>4. Fits(c, m) /\ Fresh(m)
    BY <1>3, <1>5, <2>3 DEF Fits, Fresh
  <2>5. AtRest(c, {m}, l) /\ Calm(l)
    BY <1>2, <2>3 DEF AtRest, Calm
  <2>6. Shown(c, {m}, l)
    BY <1>2, <2>2, <2>3, <2>5 DEF Shown
  <2> QED  BY <1>1, <1>2, <2>2, <2>3, <2>4, <2>5, <2>6, FreshClick DEF l
<1> QED  BY <1>4, <1>5

LEMMA BidClick ==
  ASSUME NEW c, NEW q, NEW k, NEW r, CInv(c, q, k, r), NEW b, b \in k.bids,
         NEW m, m.action = "bid", m.data = b, m.old \in BOOLEAN, m.old = TRUE <=> Has(r, "leave")
  PROVE  CInv(c, Append(q, m), HideModals(k), r)
<1> DEFINE l == HideModals(k)
<1>1. Kept(k) /\ k.game # NoGame
  BY KeptOf DEF Kept
<1>2. /\ Kept(l) /\ l.windows = {} /\ l.bids = {}
      /\ l.game = k.game /\ l.begun = k.begun /\ l.available = k.available
      /\ l.gone = k.gone /\ l.cards = k.cards /\ l.drawn = k.drawn
  BY <1>1, HideModalsIs
<1> HIDE DEF l
<1>3. m.action \in Answers
  BY DEF Answers
<1>4. CASE Has(r, "leave")
  <2>1. Similar(l, k)
    BY <1>2 DEF Similar
  <2> QED  BY <1>1, <1>2, <1>3, <1>4, <2>1, StaleClick DEF l
<1>5. CASE ~ Has(r, "leave")
  <2>1. ~ Mute(k) /\ k.bids # {}
    BY DEF Mute
  <2>2. r = << >> /\ Shown(c, Posted(q), k)
    BY <1>1, <1>5, <2>1, Sitting
  <2>3. /\ it # NoIt /\ k.begun = TRUE /\ InGame(c, Posted(q), k) /\ Turn(c)
        /\ Posted(q) = {} /\ Offered(c, k)
    BY <2>1, <2>2, Asked
  <2>4. Fits(c, m) /\ k.available = {} /\ k.gone = Spent(c)
    BY <2>1, <2>3 DEF Fits, Offered, Turn
  <2>5. Fresh(m) /\ Calm(l) /\ Given(m) = {}
    BY <1>2, <1>3, <1>5 DEF Fresh, Calm, Given
  <2>6. Quiet(c, Given(m), l)
    BY <1>2, <2>4, <2>5 DEF Quiet
  <2>7. InGame(c, {m}, l)
    BY <1>2, <2>3, <2>6 DEF InGame
  <2>8. Shown(c, {m}, l)
    BY <1>2, <2>2, <2>3, <2>7 DEF Shown
  <2> QED  BY <1>1, <1>2, <2>2, <2>3, <2>4, <2>5, <2>8, FreshClick DEF l
<1> QED  BY <1>4, <1>5

LEMMA DismissIs ==
  ASSUME NEW k, Kept(k), k.game # NoGame
  PROVE  LET f == [ClearTable(HideModals(k)) EXCEPT !.windows = AskReady({}, k.game)]
         IN  /\ Kept(f) /\ f.windows = AskReady({}, k.game) /\ f.bids = {} /\ f.drawn = {}
             /\ f.game = k.game /\ f.begun = k.begun /\ f.available = k.available
             /\ f.gone = k.gone /\ f.cards = k.cards
<1> DEFINE a == HideModals(k)
           w == AskReady({}, k.game)
           f == [a EXCEPT !.drawn = {}, !.windows = w]
<1>1. /\ Kept(a) /\ a.windows = {} /\ a.bids = {}
      /\ a.game = k.game /\ a.begun = k.begun /\ a.available = k.available
      /\ a.gone = k.gone /\ a.cards = k.cards /\ a.drawn = k.drawn
  BY HideModalsIs
<1>2. w \subseteq {"ready", "bids", "win"}
  BY AskReadyIs
<1> HIDE DEF a, w
<1>3. /\ Kept(f) /\ f.windows = w /\ f.bids = {} /\ f.drawn = {}
      /\ f.game = k.game /\ f.begun = k.begun /\ f.available = k.available
      /\ f.gone = k.gone /\ f.cards = k.cards
  BY <1>1, <1>2 DEF Kept, States
<1>4. f = [ClearTable(a) EXCEPT !.windows = w]
  BY <1>1 DEF ClearTable, Kept, States
<1> QED  BY <1>3, <1>4 DEF a, w

LEMMA ShownAlike ==
  ASSUME NEW c, NEW P, NEW k, Shown(c, P, k), NEW l, Alike(l, k)
  PROVE  Shown(c, P, l)
<1>1. /\ l.game = k.game /\ l.begun = k.begun /\ l.cards = k.cards /\ l.gone = k.gone
      /\ l.available = k.available /\ l.drawn = k.drawn /\ l.bids = k.bids
      /\ l.windows \subseteq k.windows /\ k.windows \subseteq l.windows \cup {"win"}
  BY DEF Alike
<1>2. \A S : Quiet(c, S, k) => Quiet(c, S, l)
  <2>1. k.windows = {} => l.windows = {}
    BY <1>1
  <2> QED  BY <1>1, <2>1 DEF Quiet
<1>3. Offered(c, k) => Offered(c, l)
  <2>1. k.windows = {"bids"} => l.windows = {"bids"}
    BY <1>1
  <2>2. k.windows = {} => l.windows = {}
    BY <1>1
  <2> QED  BY <1>1, <2>1, <2>2 DEF Offered
<1>4. InGame(c, P, k) => InGame(c, P, l)
  BY <1>1, <1>2, <1>3 DEF InGame
<1>5. AtRest(c, P, k) => AtRest(c, P, l)
  BY <1>1 DEF AtRest
<1> QED  BY <1>1, <1>4, <1>5 DEF Shown

LEMMA DismissClick ==
  ASSUME NEW c, NEW q, NEW k, NEW r, CInv(c, q, k, r), "win" \in k.windows,
         asked = "ready" => Len(players) = 3
  PROVE  CInv(c, q, [ClearTable(HideModals(k)) EXCEPT !.windows = AskReady({}, k.game)], r)
<1> DEFINE l == [ClearTable(HideModals(k)) EXCEPT !.windows = AskReady({}, k.game)]
<1>1. Kept(k) /\ k.game # NoGame
  BY KeptOf DEF Kept
<1>2. /\ Kept(l) /\ l.windows = AskReady({}, k.game) /\ l.bids = {} /\ l.drawn = {}
      /\ l.game = k.game /\ l.begun = k.begun /\ l.available = k.available
      /\ l.gone = k.gone /\ l.cards = k.cards
  BY <1>1, DismissIs
<1> HIDE DEF l
<1>3. CASE Has(r, "leave")
  <2>1. Similar(l, k)
    BY <1>2 DEF Similar
  <2> QED  BY <1>1, <1>2, <1>3, <2>1, StaleClick DEF l
<1>4. ASSUME ~ Has(r, "leave")
      PROVE  /\ Calm(k) /\ k.drawn = {} /\ k.bids = {} /\ "bids" \notin k.windows
             /\ k.windows \subseteq {"ready", "bids", "win"}
             /\ Len(k.game) = 3 => "ready" \in k.windows
  <2>1. PICK e : Ends(k, r, e)
    BY <1>1, Sitting
  <2>2. Calm(k)
    BY <1>4, <2>1, EndsKept
  <2> QED  BY <1>1, <2>2 DEF Calm, Kept, States
<1>5. ASSUME ~ Has(r, "leave")
      PROVE  Alike(l, k)
  <2>1. l.windows \subseteq k.windows /\ k.windows \subseteq l.windows \cup {"win"}
    <3>1. CASE Len(k.game) = 3
      <4>1. l.windows = {"ready"}
        BY <1>2, <3>1, AskReadyIs
      <4> QED  BY <1>4, <1>5, <3>1, <4>1
    <3>2. CASE Len(k.game) # 3
      <4>1. l.windows = {}
        BY <1>2, <3>2, AskReadyIs
      <4>2. ASSUME "ready" \in k.windows
            PROVE  FALSE
        <5>1. ~ Mute(k)
          BY <4>2 DEF Mute
        <5>2. Shown(c, Posted(q), k) /\ Here(c, q)
          BY <1>1, <1>5, <5>1, Sitting
        <5>3. k.game = players /\ asked = "ready"
          BY <4>2, <5>2, Asked DEF Shown
        <5> QED  BY <3>2, <5>3
      <4> QED  BY <1>4, <1>5, <4>1, <4>2
    <3> QED  BY <3>1, <3>2
  <2> QED  BY <1>2, <1>4, <1>5, <2>1 DEF Alike
<1>6. CASE ~ Has(r, "leave")
  <2>1. Here(c, q) /\ Waiting(c, q, r) /\ Caught(c, r)
    BY <1>1, Sitting
  <2>2. PICK e : Ends(k, r, e) /\ Shown(c, Posted(q), e)
    BY <1>1, Sitting
  <2>3. PICK f : Ends(l, r, f) /\ Alike(f, e)
    BY <1>1, <1>2, <1>5, <1>6, <2>2, EndsAlike
  <2>4. Shown(c, Posted(q), f)
    BY <2>2, <2>3, ShownAlike
  <2> QED  BY <2>1, <2>3, <2>4 DEF CInv, l
<1> QED  BY <1>3, <1>6

(***************************************************************************)
(* A click on a card.                                                      *)
(***************************************************************************)
Clicked(k, i) == [k EXCEPT !.gone = @ \cup {i}, !.available = @ \ {i}, !.drawn = @ \ {i}]

LEMMA ClickedIs ==
  ASSUME NEW k, Kept(k), NEW i \in k.available \cap k.drawn
  PROVE  LET f == Clicked(k, i)
             g == NoneAvailable(f)
         IN  /\ Kept(f) /\ f.gone = k.gone \cup {i} /\ f.available = k.available \ {i}
             /\ f.drawn = k.drawn \ {i} /\ f.windows = k.windows /\ f.bids = k.bids
             /\ f.game = k.game /\ f.begun = k.begun /\ f.cards = k.cards
             /\ Kept(g) /\ g.gone = f.gone /\ g.available = {}
             /\ g.drawn = f.drawn /\ g.windows = k.windows /\ g.bids = k.bids
             /\ g.game = k.game /\ g.begun = k.begun /\ g.cards = k.cards
<1> DEFINE f == Clicked(k, i)
           g == NoneAvailable(f)
<1>1. i \in Nat /\ k.gone \in SUBSET Nat /\ k.available \in SUBSET Nat /\ k.drawn \in SUBSET Nat
  BY DEF Kept, States
<1>2. /\ Kept(f) /\ f.gone = k.gone \cup {i} /\ f.available = k.available \ {i}
      /\ f.drawn = k.drawn \ {i} /\ f.windows = k.windows /\ f.bids = k.bids
      /\ f.game = k.game /\ f.begun = k.begun /\ f.cards = k.cards
  BY ZenonT(60), <1>1 DEF Clicked, Kept, States
<1> HIDE DEF f
<1>3. /\ Kept(g) /\ g.gone = f.gone /\ g.available = {}
      /\ g.drawn = f.drawn /\ g.windows = f.windows /\ g.bids = f.bids
      /\ g.game = f.game /\ g.begun = f.begun /\ g.cards = f.cards
  BY <1>2 DEF NoneAvailable, Kept, States
<1> HIDE DEF g
<1> QED  BY <1>2, <1>3 DEF f, g

LEMMA StaleCard ==
  ASSUME NEW c, NEW q, NEW k, NEW r, CInv(c, q, k, r), NEW i \in k.available \cap k.drawn,
         Has(r, "leave")
  PROVE  /\ CInv(c, q, Clicked(k, i), r)
         /\ \A m : m.action \in Answers /\ m.old = TRUE
                     => CInv(c, Append(q, m), NoneAvailable(Clicked(k, i)), r)
<1> DEFINE f == Clicked(k, i)
           g == NoneAvailable(f)
<1>1. Kept(k) /\ k.game # NoGame
  BY KeptOf DEF Kept
<1>2. Kept(f) /\ Similar(f, k) /\ Kept(g) /\ Similar(g, k)
  BY <1>1, ClickedIs DEF Similar
<1> HIDE DEF f, g
<1> QED  BY <1>1, <1>2, StaleClick DEF f, g

(***************************************************************************)
(* Without a leave to read, the card is one of those the room asks for.    *)
(***************************************************************************)
LEMMA CardAsked ==
  ASSUME RoomInv, NEW c, NEW q, NEW k, NEW r, CInv(c, q, k, r),
         NEW i \in k.available \cap k.drawn, ~ Has(r, "leave")
  PROVE  /\ Kept(k) /\ k.game = players /\ k.game # NoGame /\ r = << >> /\ Posted(q) = {}
         /\ it # NoIt /\ k.begun = TRUE /\ k.cards = deck[c] /\ k.drawn = DOMAIN k.cards \ k.gone
         /\ Turn(c) /\ Offered(c, k) /\ k.windows = {} /\ k.bids = {}
         /\ c \in Seated /\ c \in Clients /\ FullTable
         /\ deck[c] \in Seq(Deck) /\ Injective(deck[c]) /\ ToSet(deck[c]) = hand[c]
<1>1. Kept(k) /\ k.game # NoGame
  BY KeptOf DEF Kept
<1>2. ~ Mute(k)
  BY DEF Mute
<1>3. r = << >> /\ Shown(c, Posted(q), k) /\ Here(c, q)
  BY <1>1, <1>2, Sitting
<1>4. /\ it # NoIt /\ k.begun = TRUE /\ InGame(c, Posted(q), k) /\ Turn(c)
      /\ Posted(q) = {} /\ Offered(c, k)
  BY <1>3, Asked
<1>5. c \in Seated /\ c \in Clients /\ FullTable
  BY <1>3, <1>4, RoundFacts DEF Turn, Here
<1>6. deck[c] \in Seq(Deck) /\ Injective(deck[c]) /\ ToSet(deck[c]) = hand[c]
  BY <1>5 DEF RoomInv, DeckFits
<1>7. k.available # {}
  OBVIOUS
<1>8. k.windows = {} /\ k.bids = {}
  BY <1>4, <1>7 DEF Offered
<1> QED  BY <1>1, <1>3, <1>4, <1>5, <1>6, <1>8 DEF Shown, InGame

LEMMA ThreeCards ==
  ASSUME NEW S, IsFiniteSet(S), NEW x \in S, NEW y \in S, x # y
  PROVE  /\ Cardinality(S) \in Nat /\ Cardinality(S) >= 2
         /\ \A z \in S : z # x /\ z # y => Cardinality(S) > 2
         /\ S = {x, y} => Cardinality(S) = 2
<1>1. Cardinality(S) \in Nat
  BY FS_CardinalityType
<1>2. Cardinality({x, y}) = 2 /\ IsFiniteSet({x, y})
  <2>1. Cardinality({x}) = 1 /\ IsFiniteSet({x})
    BY FS_Singleton
  <2>2. Cardinality({x} \cup {y}) = 1 + 1 /\ IsFiniteSet({x} \cup {y})
    BY <2>1, FS_AddElement
  <2>3. {x} \cup {y} = {x, y}
    OBVIOUS
  <2> QED  BY <2>2, <2>3
<1>3. Cardinality({x, y}) =< Cardinality(S)
  <2>1. {x, y} \subseteq S
    OBVIOUS
  <2> QED  BY <2>1, FS_Subset
<1>4. ASSUME NEW z \in S, z # x, z # y
      PROVE  Cardinality(S) > 2
  <2>1. Cardinality({x, y} \cup {z}) = 2 + 1 /\ {x, y} \cup {z} \subseteq S
    BY <1>2, <1>4, FS_AddElement
  <2>2. Cardinality({x, y} \cup {z}) =< Cardinality(S)
    BY <2>1, FS_Subset
  <2> QED  BY <1>1, <2>1, <2>2
<1> QED  BY <1>1, <1>2, <1>3, <1>4

\* The cards that are gone are finitely many.
LEMMA GoneFinite ==
  ASSUME NEW k, Kept(k)
  PROVE  IsFiniteSet(k.gone) /\ DOMAIN k.cards = 1 .. Len(k.cards) /\ Len(k.cards) \in Nat
<1>1. k.cards \in Seq(Deck) /\ k.gone \subseteq DOMAIN k.cards
  BY DEF Kept, States
<1>2. DOMAIN k.cards = 1 .. Len(k.cards) /\ Len(k.cards) \in Nat
  BY <1>1, SeqDomain
<1>3. IsFiniteSet(1 .. Len(k.cards))
  BY <1>2, FS_Interval
<1> QED  BY <1>1, <1>2, <1>3, FS_Subset

LEMMA NeighboursAre ==
  ASSUME NEW c, c \in Seated, FullTable, client[c].game = players
  PROVE  Neighbour(c, 1) = NextOf(c) /\ Neighbour(c, 2) = NextOf(NextOf(c))
<1> DEFINE i == SeatOf(c)
<1>1. i \in 1 .. 3
  BY Seats
<1>2. \A n : Neighbour(c, n) = players[((i + n - 1) % 3) + 1]
  BY DEF Neighbour, SeatOf
<1>3. NextOf(c) = players[(i % 3) + 1]
  BY DEF NextOf
<1>4. SeatOf(players[1]) = 1 /\ SeatOf(players[2]) = 2 /\ SeatOf(players[3]) = 3
  BY Seats
<1> HIDE DEF i
<1>5. CASE i = 1
  <2>1. ((i + 1 - 1) % 3) + 1 = 2 /\ ((i + 2 - 1) % 3) + 1 = 3
        /\ (i % 3) + 1 = 2 /\ (2 % 3) + 1 = 3
    BY <1>5
  <2> QED  BY <1>2, <1>3, <1>4, <2>1 DEF NextOf
<1>6. CASE i = 2
  <2>1. ((i + 1 - 1) % 3) + 1 = 3 /\ ((i + 2 - 1) % 3) + 1 = 1
        /\ (i % 3) + 1 = 3 /\ (3 % 3) + 1 = 1
    BY <1>6
  <2> QED  BY <1>2, <1>3, <1>4, <2>1 DEF NextOf
<1>7. CASE i = 3
  <2>1. ((i + 1 - 1) % 3) + 1 = 1 /\ ((i + 2 - 1) % 3) + 1 = 2
        /\ (i % 3) + 1 = 1 /\ (1 % 3) + 1 = 2
    BY <1>7
  <2> QED  BY <1>2, <1>3, <1>4, <2>1 DEF NextOf
<1> QED  BY <1>1, <1>5, <1>6, <1>7

(***************************************************************************)
(* The first of the cards to give away is only marked; with the second     *)
(* both are sent.                                                          *)
(***************************************************************************)
BothSent(c, q, f, r, i) ==
  \A first \in f.gone \ {i} : \A m :
    /\ m.action = "deal" /\ m.old = FALSE
    /\ m.data.left = NextOf(c) /\ m.data.right = NextOf(NextOf(c))
    /\ m.data.first = first /\ m.data.second = i
    => CInv(c, Append(q, m), NoneAvailable(f), r)

LEMMA GiveClick ==
  ASSUME RoomInv, NEW c, NEW q, NEW k, NEW r, CInv(c, q, k, r),
         NEW i \in k.available \cap k.drawn, ~ Has(r, "leave"), asked = "give",
         NEW f, f = Clicked(k, i)
  PROVE  /\ Len(f.cards) = HandSize + 3 /\ Len(f.cards) # HandSize + 1
         /\ ~ Cardinality(f.gone) > 2
         /\ Cardinality(f.gone) # 2 => CInv(c, q, f, r)
         /\ BothSent(c, q, f, r, i)
<1> DEFINE g == NoneAvailable(f)
<1>1. /\ Kept(k) /\ k.game = players /\ k.game # NoGame /\ r = << >> /\ Posted(q) = {}
      /\ it # NoIt /\ k.begun = TRUE /\ k.cards = deck[c] /\ k.drawn = DOMAIN k.cards \ k.gone
      /\ Turn(c) /\ Offered(c, k) /\ k.windows = {} /\ k.bids = {}
      /\ c \in Seated /\ c \in Clients /\ FullTable
      /\ deck[c] \in Seq(Deck) /\ Injective(deck[c]) /\ ToSet(deck[c]) = hand[c]
  BY CardAsked
<1>2. c = it.CURRENT /\ c = it.HIGHEST
  BY <1>1, RoundFacts DEF Turn
<1>3. Size(hand[c], HandSize + 3) /\ used[c] = {}
  BY <1>1, <1>2 DEF RoomInv, HandsFit
<1>4. Len(k.cards) = HandSize + 3
  BY <1>1, <1>3, OrderLen
<1>5. PICK j \in DOMAIN k.cards : k.gone \subseteq {j}
  BY <1>1 DEF Offered, InPlay
<1>6. k.available = DOMAIN k.cards \ k.gone
  BY <1>1 DEF Offered, InPlay
<1>7. /\ Kept(f) /\ f.gone = k.gone \cup {i} /\ f.available = k.available \ {i}
      /\ f.drawn = k.drawn \ {i} /\ f.windows = k.windows /\ f.bids = k.bids
      /\ f.game = k.game /\ f.begun = k.begun /\ f.cards = k.cards
      /\ Kept(g) /\ g.gone = f.gone /\ g.available = {}
      /\ g.drawn = f.drawn /\ g.windows = k.windows /\ g.bids = k.bids
      /\ g.game = k.game /\ g.begun = k.begun /\ g.cards = k.cards
  BY <1>1, ClickedIs
<1> HIDE DEF g
<1>8. IsFiniteSet(f.gone) /\ i \in DOMAIN k.cards /\ i \notin k.gone
  BY <1>1, <1>7, GoneFinite
<1>9. Spent(c) = {}
  BY <1>3 DEF Spent
<1>10. CASE k.gone = {}
  <2>1. f.gone = {i}
    BY <1>7, <1>10
  <2>2. Cardinality(f.gone) = 1
    BY <2>1, FS_Singleton
  <2>3. f.available = DOMAIN f.cards \ f.gone /\ f.drawn = DOMAIN f.cards \ f.gone
    BY <1>1, <1>6, <1>7
  <2>4. Offered(c, f)
    BY <1>1, <1>7, <1>8, <2>1, <2>3 DEF Offered
  <2>5. InGame(c, Posted(q), f)
    BY <1>1, <1>7, <2>3, <2>4 DEF InGame
  <2>6. Shown(c, Posted(q), f) /\ Calm(f)
    BY <1>1, <1>7, <2>5 DEF Shown, Calm
  <2>7. CInv(c, q, f, r)
    BY <1>1, <1>7, <2>6, SilentClick
  <2>8. BothSent(c, q, f, r, i)
    BY <2>1 DEF BothSent
  <2> QED  BY <1>4, <1>7, <2>2, <2>7, <2>8, HandAssumption
<1>11. CASE k.gone # {}
  <2>1. k.gone = {j} /\ f.gone = {j, i} /\ j # i
    BY <1>5, <1>7, <1>8, <1>11
  <2>2. Cardinality(f.gone) = 2
    BY <1>8, <2>1, ThreeCards
  <2>3. ASSUME NEW first \in f.gone \ {i}, NEW m,
               m.action = "deal", m.old = FALSE,
               m.data.left = NextOf(c), m.data.right = NextOf(NextOf(c)),
               m.data.first = first, m.data.second = i
        PROVE  CInv(c, Append(q, m), g, r)
    <3>1. first = j
      BY <2>1
    <3>2. Fresh(m) /\ Fits(c, m)
      BY <1>1, <1>2, <1>8, <2>1, <2>3, <3>1 DEF Fresh, Answers, Fits
    <3>3. Given(m) = {j, i}
      BY <2>3, <3>1 DEF Given
    <3>4. Quiet(c, Given(m), g)
      BY <1>1, <1>7, <1>9, <2>1, <3>3 DEF Quiet
    <3>5. g.drawn = DOMAIN g.cards \ g.gone
      BY <1>1, <1>7
    <3>6. InGame(c, {m}, g)
      BY <1>1, <1>7, <3>4, <3>5 DEF InGame
    <3>7. Shown(c, {m}, g) /\ Calm(g)
      BY <1>1, <1>7, <3>6 DEF Shown, Calm
    <3> QED  BY <1>1, <1>7, <3>2, <3>7, FreshClick
  <2>4. /\ Len(f.cards) = HandSize + 3 /\ Len(f.cards) # HandSize + 1
        /\ ~ Cardinality(f.gone) > 2 /\ Cardinality(f.gone) = 2
    BY <1>4, <1>7, <2>2, HandAssumption
  <2>5. BothSent(c, q, f, r, i)
    BY <2>3, Zenon DEF BothSent, g
  <2> QED  BY <2>4, <2>5
<1> QED  BY <1>10, <1>11
(***************************************************************************)
(* A card to play is sent at once.                                         *)
(***************************************************************************)
LEMMA PlayClick ==
  ASSUME RoomInv, NEW c, NEW q, NEW k, NEW r, CInv(c, q, k, r),
         NEW i \in k.available \cap k.drawn, ~ Has(r, "leave"), asked \in InPlay,
         NEW f, f = Clicked(k, i)
  PROVE  /\ ~ (Len(f.cards) = HandSize + 3 /\ Cardinality(f.gone) = 2)
         /\ Len(f.cards) = HandSize + 1 \/ Cardinality(f.gone) > 2
         /\ \A m : m.action = "play" /\ m.old = FALSE /\ m.data = i
                    => CInv(c, Append(q, m), NoneAvailable(f), r)
<1> DEFINE g == NoneAvailable(f)
<1>1. /\ Kept(k) /\ k.game = players /\ k.game # NoGame /\ r = << >> /\ Posted(q) = {}
      /\ it # NoIt /\ k.begun = TRUE /\ k.cards = deck[c] /\ k.drawn = DOMAIN k.cards \ k.gone
      /\ Turn(c) /\ Offered(c, k) /\ k.windows = {} /\ k.bids = {}
      /\ c \in Seated /\ c \in Clients /\ FullTable
      /\ deck[c] \in Seq(Deck) /\ Injective(deck[c]) /\ ToSet(deck[c]) = hand[c]
  BY CardAsked
<1>2. k.gone = Spent(c) /\ i \in Playable(c) /\ c = it.CURRENT
  BY <1>1 DEF Offered, InPlay, Turn
<1>3. /\ Kept(f) /\ f.gone = k.gone \cup {i} /\ f.available = k.available \ {i}
      /\ f.drawn = k.drawn \ {i} /\ f.windows = k.windows /\ f.bids = k.bids
      /\ f.game = k.game /\ f.begun = k.begun /\ f.cards = k.cards
      /\ Kept(g) /\ g.gone = f.gone /\ g.available = {}
      /\ g.drawn = f.drawn /\ g.windows = k.windows /\ g.bids = k.bids
      /\ g.game = k.game /\ g.begun = k.begun /\ g.cards = k.cards
  BY <1>1, ClickedIs
<1> HIDE DEF g
<1>4. IsFiniteSet(f.gone) /\ i \in DOMAIN k.cards /\ i \notin k.gone
  BY <1>1, <1>3, GoneFinite
<1>5. /\ ~ (Len(f.cards) = HandSize + 3 /\ Cardinality(f.gone) = 2)
      /\ Len(f.cards) = HandSize + 1 \/ Cardinality(f.gone) > 2
  <2>1. CASE c = it.HIGHEST
    <3>1. PICK x \in used[c] \cap hand[c], y \in used[c] \cap hand[c] : x # y
      BY <2>1 DEF RoomInv, HandsFit, InPlay
    <3>2. PICK a \in DOMAIN deck[c], b \in DOMAIN deck[c] : deck[c][a] = x /\ deck[c][b] = y
      BY <1>1, <3>1 DEF ToSet
    <3>3. a # b /\ a \in Spent(c) /\ b \in Spent(c)
      BY <3>1, <3>2 DEF Spent
    <3>4. Cardinality(f.gone) > 2 /\ Cardinality(f.gone) \in Nat
      BY <1>2, <1>3, <1>4, <3>3, ThreeCards
    <3> QED  BY <3>4
  <2>2. CASE c # it.HIGHEST
    <3>1. Size(hand[c], HandSize + 1)
      BY <1>1, <2>2 DEF RoomInv, HandsFit, InPlay
    <3>2. Len(f.cards) = HandSize + 1
      BY <1>1, <1>3, <3>1, OrderLen
    <3> QED  BY <3>2, HandAssumption
  <2> QED  BY <2>1, <2>2
<1>6. ASSUME NEW m, m.action = "play", m.old = FALSE, m.data = i
      PROVE  CInv(c, Append(q, m), g, r)
  <2>1. Fresh(m) /\ Fits(c, m)
    BY <1>1, <1>2, <1>6 DEF Fresh, Answers, Fits, Turn
  <2>2. Given(m) = {i}
    BY <1>6 DEF Given
  <2>3. Quiet(c, Given(m), g)
    BY <1>1, <1>2, <1>3, <2>2 DEF Quiet
  <2>4. g.drawn = DOMAIN g.cards \ g.gone
    BY <1>1, <1>3
  <2>5. InGame(c, {m}, g)
    BY <1>1, <1>3, <2>3, <2>4 DEF InGame
  <2>6. Shown(c, {m}, g) /\ Calm(g)
    BY <1>1, <1>3, <2>5 DEF Shown, Calm
  <2> QED  BY <1>1, <1>3, <2>1, <2>6, FreshClick
<1> QED  BY <1>5, <1>6, Zenon DEF g

(***************************************************************************)
(* A player leaves the room.                                               *)
(***************************************************************************)
LEMMA LeaveIs ==
  ASSUME NEW k, Kept(k)
  PROVE  LET f == [ClearTable(HideModals(k)) EXCEPT !.game = NoGame]
         IN  Kept(f) /\ f.game = NoGame
<1> DEFINE a == HideModals(k)
           f == [a EXCEPT !.drawn = {}, !.game = NoGame]
<1>1. Kept(a) /\ a.windows = {} /\ a.bids = {}
  BY HideModalsIs
<1> HIDE DEF a
<1>2. Kept(f) /\ f.game = NoGame
  BY <1>1 DEF Kept, States
<1>3. f = [ClearTable(a) EXCEPT !.game = NoGame]
  BY <1>1 DEF ClearTable, Kept, States
<1> QED  BY <1>2, <1>3 DEF a

LEMMA LeaveClick ==
  ASSUME NEW c, NEW q, NEW k, NEW r, CInv(c, q, k, r), k.game # NoGame,
         NEW m, m.action = "leave"
  PROVE  CInv(c, Append(q, m), [ClearTable(HideModals(k)) EXCEPT !.game = NoGame], r)
<1> DEFINE l == [ClearTable(HideModals(k)) EXCEPT !.game = NoGame]
           t == Append(q, m)
           n == Len(q)
<1>1. /\ Here(c, q) /\ Waiting(c, q, r) /\ Caught(c, r) /\ Kept(k) /\ IsSeq(q) /\ IsSeq(r)
      /\ \A i \in 1 .. n : q[i].action \in Answers
  BY Sitting
<1>2. Kept(l) /\ l.game = NoGame
  BY <1>1, LeaveIs
<1>3. /\ IsSeq(t) /\ n \in Nat /\ Len(t) = n + 1
      /\ (\A i \in 1 .. n : t[i] = q[i]) /\ t[n + 1] = m
      /\ \A a : Has(t, a) <=> Has(q, a) \/ m.action = a
  BY ZenonT(60), <1>1, AppendIs
<1> HIDE DEF l, t, n
<1>4. Mail(k, r)
  BY KeptOf
<1>5. \A i \in 1 .. Len(r) : r[i].action # "add"
  BY <1>4 DEF Mail
<1>6. Off(l, r)
  BY <1>2, <1>4, <1>5 DEF Off, Mail, Has
<1>7. c \in Seated /\ ~ Here(c, t)
  BY <1>1, <1>3 DEF Here
<1>8. ASSUME NEW i \in 1 .. n + 1
      PROVE  /\ t[i].action \in Answers \cup {"add", "leave"}
             /\ t[i].action = "leave" =>
                  c \in Seated /\ \A j \in i + 1 .. n + 1 : t[j].action = "add"
             /\ t[i].action = "add" => i = n + 1 /\ (c \in Seated => Has(t, "leave"))
             /\ t[i].action \in Answers =>
                  /\ c \in Seated /\ t[i].old \in BOOLEAN
                  /\ t[i].old = FALSE => /\ Fits(c, t[i]) /\ ~ Has(r, "leave")
                                         /\ \A j \in i + 1 .. n + 1 : t[j].action \notin Answers
                  /\ t[i].old = TRUE => c \notin ready /\ it = NoIt
  <2>1. CASE i = n + 1
    <3>1. t[i] = m /\ m.action \notin Answers /\ \A j \in i + 1 .. n + 1 : FALSE
      BY <1>3, <2>1 DEF Answers
    <3> QED  BY <1>7, <3>1
  <2>2. CASE i \in 1 .. n
    <3>1. t[i] = q[i] /\ q[i].action \in Answers /\ q[i].action # "add" /\ q[i].action # "leave"
      BY <1>1, <1>3, <2>2 DEF Answers
    <3>2. \A j \in i + 1 .. n + 1 : j \in i + 1 .. n \/ j = n + 1
      BY <1>3
    <3>3. \A j \in i + 1 .. n : j \in 1 .. n /\ t[j] = q[j]
      BY <1>3, <2>2
    <3>4. /\ c \in Seated /\ q[i].old \in BOOLEAN
          /\ q[i].old = FALSE => /\ Fits(c, q[i]) /\ ~ Has(r, "leave")
                                 /\ \A j \in i + 1 .. n : q[j].action \notin Answers
          /\ q[i].old = TRUE => c \notin ready /\ it = NoIt
      BY <1>1, <2>2, <3>1 DEF Waiting, n
    <3>5. t[n + 1].action \notin Answers
      BY <1>3 DEF Answers
    <3> QED  BY <3>1, <3>2, <3>3, <3>4, <3>5
  <2>3. i = n + 1 \/ i \in 1 .. n
    BY <1>3
  <2> QED  BY <2>1, <2>2, <2>3
<1>9. Waiting(c, t, r)
  BY <1>3, <1>8 DEF Waiting
<1> QED  BY <1>1, <1>6, <1>7, <1>9 DEF CInv, l, t

-----------------------------------------------------------------------------
(***************************************************************************)
(* A step of one client or of its connection, the room left alone.         *)
(***************************************************************************)
LEMMA RoomStill == RoomInv /\ UNCHANGED <<roomVars, deck, asked>> => RoomInv'
<1> SUFFICES ASSUME RoomInv, UNCHANGED <<roomVars, deck, asked>> PROVE RoomInv'
  OBVIOUS
<1>1. /\ UNCHANGED <<stage, players, ready, claim, temp, score, hand, used, stock>>
      /\ UNCHANGED <<it, gifts, vec, turn, superSuit, report, undefined, asked, deck>>
  BY DEF roomVars, cardVars, gameVars
<1>2. TP!AuctionInv'
  <2>1. UNCHANGED TP!vars
    BY TableStill DEF tableVars
  <2>2. TP!AuctionInv /\ [TP!Next]_TP!vars => TP!AuctionInv'
    BY TP!Inductive, TableAssumptions, ClientsAssumption, DeckAssumption, HandAssumption,
       WholeDeckAssumption, CapsAssumption, ShuffleAssumption, BidsAssumption
  <2> QED  BY <2>1, <2>2 DEF RoomInv
<1>3. Seated' = Seated
  BY <1>1, SameSeats
<1>4. PhaseInv' /\ DeckFits'
  BY <1>1, <1>3 DEF RoomInv, PhaseInv, DeckFits, InRound, NoIt
<1>5. HandsFit'
  BY <1>1, <1>3 DEF RoomInv, HandsFit
<1> QED  BY <1>2, <1>4, <1>5 DEF RoomInv

\* The function g is f but for its value v at c.
At(f, g, c, v) ==
  DOMAIN g = DOMAIN f /\ (c \in DOMAIN f => g[c] = v) /\ \A d \in DOMAIN f : d # c => g[d] = f[d]

LEMMA AtIs ==
  /\ \A f, c, v : At(f, [f EXCEPT ![c] = v], c, v)
  /\ \A f, c : At(f, f, c, f[c])
  BY DEF At

LEMMA OneClient ==
  ASSUME IInv, UNCHANGED <<roomVars, deck, asked>>,
         NEW c \in Clients, NEW q, NEW k, NEW r, CInv(c, q, k, r),
         At(toServer, toServer', c, q), At(client, client', c, k), At(toClient, toClient', c, r)
  PROVE  IInv'
<1>1. RoomInv'
  BY RoomStill DEF IInv
<1>2. /\ DOMAIN toServer = Clients /\ DOMAIN toClient = Clients /\ DOMAIN client = Clients
  BY DEF IInv, ClientsInv
<1>3. /\ DOMAIN toServer' = Clients /\ DOMAIN toClient' = Clients /\ DOMAIN client' = Clients
      /\ toServer'[c] = q /\ client'[c] = k /\ toClient'[c] = r
      /\ \A d \in Clients : d # c => /\ toServer'[d] = toServer[d] /\ client'[d] = client[d]
                                     /\ toClient'[d] = toClient[d]
  BY <1>2 DEF At
<1>4. ASSUME NEW d \in Clients
      PROVE  \E x, y, z : x = toServer'[d] /\ y = client'[d] /\ z = toClient'[d] /\ CInv(d, x, y, z)
  <2>1. CASE d = c
    BY <1>3, <2>1
  <2>2. CASE d # c
    <3>1. PICK x, y, z : x = toServer[d] /\ y = client[d] /\ z = toClient[d] /\ CInv(d, x, y, z)
      BY DEF IInv, ClientsInv
    <3> QED  BY <1>3, <2>2, <3>1
  <2> QED  BY <2>1, <2>2
<1>5. \A d, x, y, z : CInv(d, x, y, z)' <=> CInv(d, x, y, z)
  BY SameQueue
<1>6. ClientsInv'
  BY <1>3, <1>4, <1>5 DEF ClientsInv
<1> QED  BY <1>1, <1>6 DEF IInv

\* One client's part of the invariant.
LEMMA ClientIs ==
  ASSUME IInv, NEW c \in Clients
  PROVE  \E q, k, r : /\ q = toServer[c] /\ k = client[c] /\ r = toClient[c] /\ CInv(c, q, k, r)
                      /\ At(toServer, toServer, c, q) /\ At(client, client, c, k)
                      /\ At(toClient, toClient, c, r)
<1>1. PICK q, k, r : q = toServer[c] /\ k = client[c] /\ r = toClient[c] /\ CInv(c, q, k, r)
  BY DEF IInv, ClientsInv
<1> QED  BY <1>1, AtIs

LEMMA ReceiveStep ==
  ASSUME IInv, NEW c \in Clients, Receive(c)
  PROVE  IInv'
<1>1. PICK q, k, r : /\ q = toServer[c] /\ k = client[c] /\ r = toClient[c] /\ CInv(c, q, k, r)
                     /\ At(toServer, toServer, c, q)
  BY ClientIs
<1> DEFINE l == Read(k, Head(r))
           t == Tail(r)
<1>2. r # << >> /\ client' = [client EXCEPT ![c] = l] /\ toClient' = [toClient EXCEPT ![c] = t]
      /\ toServer' = toServer /\ UNCHANGED <<roomVars, deck, asked>>
  BY <1>1 DEF Receive
<1>3. CInv(c, q, l, t)
  BY <1>1, <1>2, ReceiveKeeps
<1> HIDE DEF l, t
<1>4. At(toServer, toServer', c, q) /\ At(client, client', c, l) /\ At(toClient, toClient', c, t)
  BY <1>1, <1>2, AtIs
<1> QED  BY <1>2, <1>3, <1>4, OneClient

\* The client sends the answer m to a question.
Sends(c, a, d, m) ==
  /\ m.action = a /\ m.data = d /\ m.old \in BOOLEAN
  /\ m.old = TRUE <=> Has(toClient[c], "leave")
  /\ Send(c, m)

LEMMA ReplyIs ==
  ASSUME NEW c, NEW a, NEW d, Reply(c, a, d), IsSeq(toClient[c])
  PROVE  \E m : Sends(c, a, d, m)
<1> DEFINE b == \E i \in DOMAIN toClient[c] : toClient[c][i].action = "leave"
           m == [action |-> a, data |-> d, old |-> b]
<1>1. DOMAIN toClient[c] = 1 .. Len(toClient[c])
  BY SeqDomain DEF IsSeq
<1>2. b \in BOOLEAN
  OBVIOUS
<1>3. b <=> Has(toClient[c], "leave")
  BY <1>1 DEF Has
<1>4. Send(c, m)
  BY DEF Reply
<1> HIDE DEF b
<1>5. m.action = a /\ m.data = d /\ m.old = b
  OBVIOUS
<1>6. b = TRUE <=> b
  BY <1>2
<1> HIDE DEF m
<1> QED  BY <1>2, <1>3, <1>4, <1>5, <1>6 DEF Sends

LEMMA UserStep ==
  ASSUME IInv, NEW c \in Clients, User(c)
  PROVE  IInv'
<1>1. PICK q, k, r : /\ q = toServer[c] /\ k = client[c] /\ r = toClient[c] /\ CInv(c, q, k, r)
                     /\ At(toServer, toServer, c, q) /\ At(client, client, c, k)
                     /\ At(toClient, toClient, c, r)
  BY ClientIs
<1>2. Kept(k) /\ IsSeq(q) /\ IsSeq(r)
  BY <1>1, KeptOf
<1>3. RoomInv /\ TableInv
  BY TableFacts DEF IInv, RoomInv
<1>4. DOMAIN q = 1 .. Len(q) /\ DOMAIN r = 1 .. Len(r)
  BY <1>2, SeqDomain DEF IsSeq
<1>5. ASSUME NEW l, NEW m, Update(c, l), Send(c, m), CInv(c, Append(q, m), l, r)
      PROVE  IInv'
  <2> DEFINE t == Append(q, m)
  <2>1. toServer' = [toServer EXCEPT ![c] = t] /\ client' = [client EXCEPT ![c] = l]
        /\ toClient' = toClient /\ UNCHANGED <<roomVars, deck, asked>>
    BY <1>1, <1>5 DEF Update, Send
  <2>2. CInv(c, t, l, r)
    BY <1>5
  <2> HIDE DEF t
  <2>3. At(toServer, toServer', c, t) /\ At(client, client', c, l) /\ At(toClient, toClient', c, r)
    BY <1>1, <2>1, AtIs
  <2> QED  BY <2>1, <2>2, <2>3, OneClient
<1>6. ASSUME NEW l, Update(c, l), UNCHANGED <<roomVars, deck, netVars, asked>>, CInv(c, q, l, r)
      PROVE  IInv'
  <2>1. toServer' = toServer /\ client' = [client EXCEPT ![c] = l]
        /\ toClient' = toClient /\ UNCHANGED <<roomVars, deck, asked>>
    BY <1>1, <1>6 DEF Update, netVars
  <2>2. At(toServer, toServer', c, q) /\ At(client, client', c, l) /\ At(toClient, toClient', c, r)
    BY <1>1, <2>1, AtIs
  <2> QED  BY <1>6, <2>1, <2>2, OneClient
<1>7. \A a, d : Reply(c, a, d) => \E m : Sends(c, a, d, m)
  <2>1. IsSeq(toClient[c])
    BY <1>1, <1>2
  <2> QED  BY <2>1, ReplyIs
<1>8. \A a, d, m : Sends(c, a, d, m) => /\ m.action = a /\ m.data = d /\ m.old \in BOOLEAN
                                        /\ m.old = TRUE <=> Has(r, "leave")
                                        /\ Send(c, m)
  BY <1>1 DEF Sends
<1>9. CASE RequestRoom(c)
  <2> DEFINE m == [action |-> "add"]
  <2>1. k.game = NoGame /\ Send(c, m) /\ client' = client /\ m.action = "add"
    BY <1>1, <1>9 DEF RequestRoom
  <2>2. ~ Has(q, "add") /\ ~ Has(r, "add")
    BY <1>1, <1>4, <1>9 DEF RequestRoom, Has, ToSet
  <2> HIDE DEF m
  <2>3. CInv(c, Append(q, m), k, r)
    BY <1>1, <1>3, <2>1, <2>2, RequestKeeps DEF TableInv, RoomTyped
  <2> DEFINE t == Append(q, m)
  <2>4. toServer' = [toServer EXCEPT ![c] = t] /\ toClient' = toClient
        /\ UNCHANGED <<roomVars, deck, asked>>
    BY <1>1, <2>1 DEF Send
  <2>5. CInv(c, t, k, r)
    BY <2>3
  <2> HIDE DEF t
  <2>6. At(toServer, toServer', c, t) /\ At(client, client', c, k) /\ At(toClient, toClient', c, r)
    BY <1>1, <2>1, <2>4, AtIs
  <2> QED  BY <2>4, <2>5, <2>6, OneClient
<1>10. CASE SendReady(c)
  <2>1. "ready" \in k.windows /\ Update(c, HideModals(k)) /\ Reply(c, "ready", None)
    BY <1>1, <1>10 DEF SendReady
  <2>2. PICK m : Sends(c, "ready", None, m)
    BY <1>7, <2>1
  <2> QED  BY <1>1, <1>5, <1>8, <2>1, <2>2, ReadyClick
<1>11. CASE SendBid(c)
  <2>1. PICK b \in k.bids : Update(c, HideModals(k)) /\ Reply(c, "bid", b)
    BY <1>1, <1>11 DEF SendBid
  <2>2. PICK m : Sends(c, "bid", b, m)
    BY <1>7, <2>1
  <2>3. m.action = "bid" /\ m.data = b /\ m.old \in BOOLEAN /\ (m.old = TRUE <=> Has(r, "leave"))
        /\ Send(c, m)
    BY <1>8, <2>2
  <2>4. CInv(c, Append(q, m), HideModals(k), r)
    BY <1>1, <2>3, BidClick
  <2> QED  BY <1>5, <2>1, <2>3, <2>4
<1>12. CASE DismissEnd(c)
  <2> DEFINE l == [ClearTable(HideModals(k)) EXCEPT !.windows = AskReady({}, k.game)]
  <2>1. "win" \in k.windows /\ Update(c, l) /\ UNCHANGED <<roomVars, deck, netVars, asked>>
    BY <1>1, <1>12 DEF DismissEnd
  <2>2. asked = "ready" => Len(players) = 3
    BY <1>3 DEF TableInv
  <2>3. CInv(c, q, l, r)
    BY <1>1, <2>1, <2>2, DismissClick
  <2> HIDE DEF l
  <2> QED  BY <1>6, <2>1, <2>3
<1>13. CASE UseCard(c)
  <2>1. PICK i \in k.available \cap k.drawn :
          LET f == Clicked(k, i)
              gives == Len(f.cards) = HandSize + 3 /\ Cardinality(f.gone) = 2
              plays == Len(f.cards) = HandSize + 1 \/ Cardinality(f.gone) > 2
          IN  \/ /\ gives /\ Update(c, NoneAvailable(f))
                 /\ \E first \in f.gone \ {i} : GiveAwayCards(c, first, i)
              \/ ~ gives /\ plays /\ Update(c, NoneAvailable(f)) /\ Reply(c, "play", i)
              \/ ~ gives /\ ~ plays /\ Update(c, f) /\ UNCHANGED <<roomVars, deck, netVars, asked>>
    BY <1>1, <1>13 DEF UseCard, Clicked
  <2> DEFINE f == Clicked(k, i)
             gives == Len(f.cards) = HandSize + 3 /\ Cardinality(f.gone) = 2
             plays == Len(f.cards) = HandSize + 1 \/ Cardinality(f.gone) > 2
  <2>2. CASE Has(r, "leave")
    <3>1. /\ CInv(c, q, f, r)
          /\ \A m : m.action \in Answers /\ m.old = TRUE => CInv(c, Append(q, m), NoneAvailable(f), r)
      BY <1>1, <2>2, StaleCard
    <3>2. ASSUME NEW a \in Answers, NEW d, Reply(c, a, d), Update(c, NoneAvailable(f))
          PROVE  IInv'
      <4>1. PICK m : Sends(c, a, d, m)
        BY <1>7, <3>2
      <4> QED  BY <1>5, <1>8, <2>2, <3>1, <3>2, <4>1
    <3>3. "deal" \in Answers /\ "play" \in Answers
      BY DEF Answers
    <3>4. ASSUME NEW first, GiveAwayCards(c, first, i), Update(c, NoneAvailable(f))
          PROVE  IInv'
      BY <3>2, <3>3, <3>4 DEF GiveAwayCards
    <3> HIDE DEF f
    <3>5. ASSUME Update(c, f), UNCHANGED <<roomVars, deck, netVars, asked>>
          PROVE  IInv'
      BY <1>6, <3>1, <3>5
    <3> QED  BY <2>1, <3>2, <3>3, <3>4, <3>5 DEF f
  <2>3. CASE ~ Has(r, "leave")
    <3>1. /\ k.game = players /\ c \in Seated /\ FullTable /\ Offered(c, k)
      BY <1>1, <1>3, <2>3, CardAsked
    <3>2. asked = "give" \/ asked \in InPlay
      <4>1. k.available # {}
        OBVIOUS
      <4> QED  BY <3>1, <4>1 DEF Offered
    <3>3. CASE asked = "give"
      <4>1. /\ Len(f.cards) = HandSize + 3 /\ Len(f.cards) # HandSize + 1
            /\ ~ Cardinality(f.gone) > 2
            /\ Cardinality(f.gone) # 2 => CInv(c, q, f, r)
            /\ BothSent(c, q, f, r, i)
        <5>1. f = Clicked(k, i)
          OBVIOUS
        <5> HIDE DEF f
        <5> QED  BY <1>1, <1>3, <2>3, <3>3, <5>1, GiveClick, Zenon
      <4>2. ASSUME NEW first \in f.gone \ {i}, GiveAwayCards(c, first, i), Update(c, NoneAvailable(f))
            PROVE  IInv'
        <5> DEFINE d == [left |-> Neighbour(c, 1), first |-> first,
                         right |-> Neighbour(c, 2), second |-> i]
        <5>1. Neighbour(c, 1) = NextOf(c) /\ Neighbour(c, 2) = NextOf(NextOf(c))
          BY <1>1, <3>1, NeighboursAre
        <5>2. d.left = NextOf(c) /\ d.right = NextOf(NextOf(c)) /\ d.first = first /\ d.second = i
          BY <5>1
        <5>3. Reply(c, "deal", d)
          BY <4>2 DEF GiveAwayCards
        <5> HIDE DEF d
        <5>4. PICK m : Sends(c, "deal", d, m)
          BY <1>7, <5>3
        <5>5. m.action = "deal" /\ m.data = d /\ m.old = FALSE /\ Send(c, m)
          BY <1>8, <2>3, <5>4
        <5>6. CInv(c, Append(q, m), NoneAvailable(f), r)
          BY <4>1, <5>2, <5>5 DEF BothSent
        <5> QED  BY <1>5, <4>2, <5>5, <5>6
      <4> HIDE DEF f
      <4>3. ASSUME ~ gives, Update(c, f), UNCHANGED <<roomVars, deck, netVars, asked>>
            PROVE  IInv'
        BY <1>6, <4>1, <4>3
      <4>4. ~ plays
        BY <4>1
      <4> QED  BY <2>1, <4>2, <4>3, <4>4 DEF f
    <3>4. CASE asked \in InPlay
      <4>1. /\ ~ gives /\ plays
            /\ \A m : m.action = "play" /\ m.old = FALSE /\ m.data = i
                       => CInv(c, Append(q, m), NoneAvailable(f), r)
        <5>1. f = Clicked(k, i)
          OBVIOUS
        <5> HIDE DEF f
        <5> QED  BY <1>1, <1>3, <2>3, <3>4, <5>1, PlayClick, Zenon
      <4>2. ASSUME Reply(c, "play", i), Update(c, NoneAvailable(f))
            PROVE  IInv'
        <5>1. PICK m : Sends(c, "play", i, m)
          BY <1>7, <4>2
        <5>2. m.action = "play" /\ m.data = i /\ m.old = FALSE /\ Send(c, m)
          BY <1>8, <2>3, <5>1
        <5>3. CInv(c, Append(q, m), NoneAvailable(f), r)
          BY <4>1, <5>2
        <5> QED  BY <1>5, <4>2, <5>2, <5>3
      <4> QED  BY <2>1, <4>1, <4>2
    <3> QED  BY <3>2, <3>3, <3>4
  <2> QED  BY <2>2, <2>3
<1>14. CASE LeaveRoom(c)
  <2> DEFINE m == [action |-> "leave"]
             l == [ClearTable(HideModals(k)) EXCEPT !.game = NoGame]
  <2>1. k.game # NoGame /\ Send(c, m) /\ Update(c, l) /\ m.action = "leave"
    BY <1>1, <1>14 DEF LeaveRoom
  <2> HIDE DEF m
  <2>2. CInv(c, Append(q, m), l, r)
    BY <1>1, <2>1, LeaveClick
  <2> HIDE DEF l
  <2> QED  BY <1>5, <2>1, <2>2
<1> QED  BY <1>9, <1>10, <1>11, <1>12, <1>13, <1>14 DEF User
=============================================================================
