---------------------------- MODULE LobbyProofs ----------------------------
(***************************************************************************)
(* Proofs about Lobby for any clients, any patience of its users and any   *)
(* bounds: the two records of who sits where agree.                        *)
(***************************************************************************)
EXTENDS LobbyProperties, SequenceTheorems, FiniteSetTheorems,
        WellFoundedInduction, TLAPS

-----------------------------------------------------------------------------
(***************************************************************************)
(* Occurrences in a sequence that grows at its end or loses an element.    *)
(***************************************************************************)
Places(c, s) == {i \in DOMAIN s : s[i] = c}

LEMMA PlacesFinite ==
  ASSUME NEW S, NEW s \in Seq(S), NEW c
  PROVE  /\ IsFiniteSet(Places(c, s)) /\ Places(c, s) \subseteq 1 .. Len(s)
         /\ Occurrences(c, s) = Cardinality(Places(c, s))
         /\ Occurrences(c, s) \in Nat
<1>1. DOMAIN s = 1 .. Len(s) /\ Len(s) \in Nat
  BY LenProperties
<1>2. IsFiniteSet(1 .. Len(s))
  BY <1>1, FS_Interval
<1>3. Places(c, s) \subseteq 1 .. Len(s)
  BY <1>1 DEF Places
<1>4. IsFiniteSet(Places(c, s))
  BY <1>2, <1>3, FS_Subset
<1>5. Occurrences(c, s) = Cardinality(Places(c, s))
  BY DEF Occurrences, Places
<1> QED  BY <1>3, <1>4, <1>5, FS_CardinalityType

LEMMA OccurrencesEmpty ==
  ASSUME NEW c
  PROVE  Occurrences(c, << >>) = 0
<1>1. {i \in DOMAIN << >> : << >>[i] = c} = {}
  OBVIOUS
<1> QED  BY <1>1, FS_EmptySet DEF Occurrences

LEMMA OccurrencesAppend ==
  ASSUME NEW S, NEW s \in Seq(S), NEW e \in S, NEW c
  PROVE  Occurrences(c, Append(s, e)) = Occurrences(c, s) + (IF c = e THEN 1 ELSE 0)
<1> DEFINE t == Append(s, e)
<1>1. t \in Seq(S) /\ Len(t) = Len(s) + 1 /\ Len(s) \in Nat
  OBVIOUS
<1>2. \A i \in 1 .. Len(s) : t[i] = s[i]
  OBVIOUS
<1>3. t[Len(s) + 1] = e
  OBVIOUS
<1>4. DOMAIN s = 1 .. Len(s) /\ DOMAIN t = 1 .. Len(s) + 1
  BY <1>1, LenProperties
<1> HIDE DEF t
<1>a. /\ IsFiniteSet(Places(c, s)) /\ Places(c, s) \subseteq 1 .. Len(s)
      /\ Occurrences(c, s) = Cardinality(Places(c, s)) /\ Occurrences(c, s) \in Nat
      /\ Occurrences(c, t) = Cardinality(Places(c, t))
  BY <1>1, PlacesFinite
<1>5. ASSUME c = e
      PROVE  Occurrences(c, t) = Occurrences(c, s) + 1
  <2>1. Places(c, t) = Places(c, s) \cup {Len(s) + 1}
    BY <1>1, <1>2, <1>3, <1>4, <1>5 DEF Places
  <2>2. Len(s) + 1 \notin Places(c, s)
    BY <1>1, <1>4 DEF Places
  <2>3. Cardinality(Places(c, t)) = Cardinality(Places(c, s)) + 1
    BY <1>a, <2>1, <2>2, FS_AddElement
  <2> QED  BY <1>a, <1>5, <2>3
<1>6. ASSUME c # e
      PROVE  Occurrences(c, t) = Occurrences(c, s)
  <2>1. Places(c, t) = Places(c, s)
    BY <1>1, <1>2, <1>3, <1>4, <1>6 DEF Places
  <2> QED  BY <1>a, <1>6, <2>1
<1> QED  BY <1>a, <1>5, <1>6 DEF t

LEMMA OccurrencesOne ==
  ASSUME NEW c, NEW d
  PROVE  Occurrences(d, <<c>>) = IF d = c THEN 1 ELSE 0
<1>1. << >> \in Seq({c}) /\ Append(<< >>, c) = <<c>> /\ c \in {c}
  OBVIOUS
<1>2. Occurrences(d, Append(<< >>, c)) = Occurrences(d, << >>) + (IF d = c THEN 1 ELSE 0)
  BY <1>1, OccurrencesAppend
<1> QED  BY <1>1, <1>2, OccurrencesEmpty

(***************************************************************************)
(* A sequence without its k-th element.                                    *)
(***************************************************************************)
LEMMA RemoveAtElements ==
  ASSUME NEW S, NEW s \in Seq(S), NEW k \in 1 .. Len(s)
  PROVE  /\ RemoveAt(s, k) \in Seq(S)
         /\ Len(RemoveAt(s, k)) = Len(s) - 1
         /\ \A i \in 1 .. Len(s) - 1 :
              RemoveAt(s, k)[i] = IF i < k THEN s[i] ELSE s[i + 1]
<1> DEFINE a == SubSeq(s, 1, k - 1)
           b == SubSeq(s, k + 1, Len(s))
<1>1. \A i \in 1 .. Len(s) : s[i] \in S
  BY ElementOfSeq
<1>2. Len(s) \in Nat
  BY LenProperties
<1>3. /\ a \in Seq(S) /\ Len(a) = k - 1
      /\ \A i \in 1 .. k - 1 : a[i] = s[i]
  <2>1. \A i \in 1 .. k - 1 : s[i] \in S
    BY <1>1, <1>2
  <2> QED  BY <2>1, <1>2, SubSeqProperties
<1>4. /\ b \in Seq(S) /\ Len(b) = Len(s) - k
      /\ \A i \in 1 .. Len(s) - k : b[i] = s[k + i]
  <2>1. \A i \in k + 1 .. Len(s) : s[i] \in S
    BY <1>1, <1>2
  <2> QED  BY <2>1, <1>2, SubSeqProperties
<1>5. RemoveAt(s, k) = a \o b
  BY DEF RemoveAt
<1> HIDE DEF a, b
<1>6. /\ a \o b \in Seq(S) /\ Len(a \o b) = Len(s) - 1
      /\ \A i \in 1 .. Len(s) - 1 :
           (a \o b)[i] = IF i =< k - 1 THEN a[i] ELSE b[i - (k - 1)]
  <2>1. /\ a \o b \in Seq(S) /\ Len(a \o b) = Len(a) + Len(b)
        /\ \A i \in 1 .. Len(a) + Len(b) :
             (a \o b)[i] = IF i =< Len(a) THEN a[i] ELSE b[i - Len(a)]
    BY ONLY <1>3, <1>4, ConcatProperties
  <2>2. Len(a) = k - 1 /\ Len(a) + Len(b) = Len(s) - 1
    BY <1>2, <1>3, <1>4
  <2> QED  BY ONLY <2>1, <2>2
<1>7. ASSUME NEW i \in 1 .. Len(s) - 1
      PROVE  (a \o b)[i] = IF i < k THEN s[i] ELSE s[i + 1]
  <2>1. CASE i < k
    <3>1. i \in 1 .. k - 1 /\ i =< k - 1
      BY <1>2, <2>1
    <3> QED  BY <1>3, <1>6, <2>1, <3>1
  <2>2. CASE ~ (i < k)
    <3>1. /\ i - (k - 1) \in 1 .. Len(s) - k /\ ~ (i =< k - 1)
          /\ k + (i - (k - 1)) = i + 1
      BY <1>2, <2>2
    <3>2. b[i - (k - 1)] = s[k + (i - (k - 1))]
      BY <1>4, <3>1
    <3> QED  BY <1>6, <2>2, <3>1, <3>2
  <2> QED  BY <2>1, <2>2
<1>8. \A i \in 1 .. Len(s) - 1 : (a \o b)[i] = IF i < k THEN s[i] ELSE s[i + 1]
  BY <1>7
<1> QED  BY <1>5, <1>6, <1>8

LEMMA OccurrencesRemoveAt ==
  ASSUME NEW S, NEW s \in Seq(S), NEW k \in 1 .. Len(s), NEW c
  PROVE  Occurrences(c, RemoveAt(s, k)) = Occurrences(c, s) - (IF s[k] = c THEN 1 ELSE 0)
<1> DEFINE t == RemoveAt(s, k)
           P == Places(c, s) \ {k}
           f == [i \in P |-> IF i < k THEN i ELSE i - 1]
<1>1. /\ t \in Seq(S) /\ Len(t) = Len(s) - 1 /\ Len(s) \in Nat
      /\ \A i \in 1 .. Len(s) - 1 : t[i] = IF i < k THEN s[i] ELSE s[i + 1]
  BY RemoveAtElements, LenProperties
<1>2. DOMAIN s = 1 .. Len(s) /\ DOMAIN t = 1 .. Len(s) - 1
  BY <1>1, LenProperties
<1> HIDE DEF t
<1>3. P \subseteq 1 .. Len(s)
  BY <1>2 DEF Places
<1>4. f \in [P -> Places(c, t)]
  <2> SUFFICES ASSUME NEW i \in P
               PROVE  (IF i < k THEN i ELSE i - 1) \in Places(c, t)
    OBVIOUS
  <2>1. s[i] = c /\ i \in 1 .. Len(s) /\ i # k
    BY <1>2 DEF Places
  <2> QED  BY <2>1, <1>1, <1>2 DEF Places
<1>5. \A i, j \in P : f[i] = f[j] => i = j
  BY <1>1, <1>3 DEF Places
<1>6. ASSUME NEW j \in Places(c, t)
      PROVE  \E i \in P : f[i] = j
  <2>1. j \in 1 .. Len(s) - 1 /\ t[j] = c
    BY <1>2 DEF Places
  <2>2. CASE j < k
    <3>1. j \in P
      BY <2>1, <2>2, <1>1, <1>2 DEF Places
    <3> QED  BY <3>1, <2>2
  <2>3. CASE ~ (j < k)
    <3>1. j + 1 \in P
      BY <2>1, <2>3, <1>1, <1>2 DEF Places
    <3>2. f[j + 1] = j
      BY <3>1, <2>1, <2>3, <1>1
    <3> QED  BY <3>1, <3>2
  <2> QED  BY <2>2, <2>3
<1>7. f \in Bijection(P, Places(c, t))
  BY <1>4, <1>5, <1>6 DEF Bijection, Injection, Surjection, IsInjective
<1>8. IsFiniteSet(P) /\ Cardinality(P) =
        IF k \in Places(c, s) THEN Cardinality(Places(c, s)) - 1
        ELSE Cardinality(Places(c, s))
  BY PlacesFinite, FS_RemoveElement
<1>9. Cardinality(Places(c, t)) = Cardinality(P)
  BY <1>7, <1>8, FS_Bijection DEF ExistsBijection
<1>10. k \in Places(c, s) <=> s[k] = c
  BY <1>2 DEF Places
<1> QED  BY <1>1, <1>8, <1>9, <1>10, PlacesFinite DEF t

(***************************************************************************)
(* A set of natural numbers has a smallest one, so CHOOSE finds it.        *)
(***************************************************************************)
LEMMA Smallest ==
  ASSUME NEW T, T \subseteq Nat, T # {}
  PROVE  \E x \in T : \A y \in T : x =< y
<1>1. PICK x \in T : \A y \in T : ~ (<<y, x>> \in OpToRel(<, Nat))
  BY NatLessThanWellFounded, WFMin
<1>2. \A y \in T : ~ (y < x)
  BY <1>1 DEF OpToRel
<1> QED  BY <1>2

LEMMA OccurrencesRemoveFirst ==
  ASSUME NEW S, NEW s \in Seq(S), NEW e, NEW c
  PROVE  /\ RemoveFirst(s, e) \in Seq(S)
         /\ Occurrences(c, RemoveFirst(s, e)) =
              Occurrences(c, s) - (IF c = e /\ Contains(s, e) THEN 1 ELSE 0)
<1> DEFINE I == {i \in 1 .. Len(s) : s[i] = e}
           k == SelectInSeq(s, LAMBDA v : v = e)
<1>1. Occurrences(c, s) \in Nat
  BY PlacesFinite
<1>2. CASE ~ Contains(s, e)
  <2>1. RemoveFirst(s, e) = s
    BY <1>2 DEF RemoveFirst, Contains
  <2> QED  BY <1>1, <1>2, <2>1
<1>3. CASE Contains(s, e)
  <2>1. I # {} /\ I \subseteq Nat
    BY <1>3 DEF Contains
  <2>2. k = Min(I)
    BY <2>1 DEF SelectInSeq
  <2>3. k \in I
    BY <2>1, <2>2, Smallest DEF Min
  <2>4. RemoveFirst(s, e) = RemoveAt(s, k)
    BY <1>3 DEF RemoveFirst, Contains
  <2> HIDE DEF k
  <2>5. k \in 1 .. Len(s) /\ s[k] = e
    BY <2>3
  <2>6. Occurrences(c, RemoveAt(s, k)) = Occurrences(c, s) - (IF s[k] = c THEN 1 ELSE 0)
    BY <2>5, OccurrencesRemoveAt
  <2>7. RemoveAt(s, k) \in Seq(S)
    BY <2>5, RemoveAtElements
  <2> QED  BY <1>3, <2>4, <2>5, <2>6, <2>7
<1> QED  BY <1>2, <1>3

(***************************************************************************)
(* An element occurs in a sequence that contains it, and only there.       *)
(***************************************************************************)
LEMMA OccurrencesContains ==
  ASSUME NEW S, NEW s \in Seq(S), NEW c
  PROVE  Contains(s, c) <=> Occurrences(c, s) # 0
<1>1. Contains(s, c) <=> Places(c, s) # {}
  BY LenProperties DEF Contains, Places
<1> QED  BY <1>1, PlacesFinite, FS_EmptySet

-----------------------------------------------------------------------------
(***************************************************************************)
(* The inductive invariant.  A client that has not connected yet has left  *)
(* no trace, so that the agreement holds when its session is registered;   *)
(* nothing is said of players_ after a session is gone.                    *)
(***************************************************************************)
NewIsNowhere ==
  \A c \in Clients :
    link[c] = "new" =>
      /\ c \notin sessions /\ toServer[c] = << >> /\ toClient[c] = << >>
      /\ \A i \in DOMAIN activeGames :
           Occurrences(c, players[i]) = 0 /\ Occurrences(c, activeGames[i]) = 0

BooksTyped ==
  /\ activeGames \in Seq(Seq(Clients)) /\ players \in Seq(Seq(Clients))
  /\ Len(players) = Len(activeGames)
  /\ sessions \subseteq Clients
  /\ DOMAIN link = Clients /\ DOMAIN toServer = Clients /\ DOMAIN toClient = Clients

BooksInv == BooksTyped /\ NewIsNowhere /\ ListsAgree

(***************************************************************************)
(* What the steps of a client c that has connected do to the books: they   *)
(* change c's entries in room i, in both records alike as long as c has a  *)
(* session.                                                                *)
(***************************************************************************)
BooksStep(c) ==
  /\ activeGames' \in Seq(Seq(Clients)) /\ players' \in Seq(Seq(Clients))
  /\ Len(players') = Len(activeGames') /\ Len(activeGames') >= Len(activeGames)
  /\ sessions' \subseteq sessions
  /\ \A i \in DOMAIN activeGames', d \in Clients :
       d # c =>
         /\ Occurrences(d, players'[i]) =
              IF i \in DOMAIN activeGames THEN Occurrences(d, players[i]) ELSE 0
         /\ Occurrences(d, activeGames'[i]) =
              IF i \in DOMAIN activeGames THEN Occurrences(d, activeGames[i]) ELSE 0
  /\ c \in sessions' =>
       \A i \in DOMAIN activeGames' :
         Occurrences(c, players'[i]) = Occurrences(c, activeGames'[i])

LEMMA Typed ==
  ASSUME BooksTyped
  PROVE  /\ DOMAIN activeGames = 1 .. Len(activeGames) /\ DOMAIN players = DOMAIN activeGames
         /\ Len(activeGames) \in Nat
         /\ \A i \in DOMAIN activeGames :
              activeGames[i] \in Seq(Clients) /\ players[i] \in Seq(Clients)
         /\ \A i \in DOMAIN activeGames, d \in Clients :
              Occurrences(d, players[i]) \in Nat /\ Occurrences(d, activeGames[i]) \in Nat
<1>1. /\ DOMAIN activeGames = 1 .. Len(activeGames) /\ DOMAIN players = DOMAIN activeGames
      /\ Len(activeGames) \in Nat
  BY LenProperties DEF BooksTyped
<1>2. \A i \in DOMAIN activeGames :
        activeGames[i] \in Seq(Clients) /\ players[i] \in Seq(Clients)
  BY <1>1, ElementOfSeq DEF BooksTyped
<1> QED  BY <1>1, <1>2, PlacesFinite

LEMMA FoundRoom ==
  ASSUME BooksTyped, NEW c, FindGameId(c) # Nowhere
  PROVE  FindGameId(c) \in DOMAIN activeGames /\ Contains(players[FindGameId(c)], c)
<1> DEFINE W == {i \in DOMAIN players : Contains(players[i], c)}
<1>1. W # {} /\ W \subseteq Nat
  BY Typed DEF FindGameId
<1>2. \E i \in W : \A j \in W : i =< j
  BY <1>1, Smallest
<1>3. FindGameId(c) = CHOOSE i \in W : \A j \in W : i =< j
  BY <1>1 DEF FindGameId
<1>4. FindGameId(c) \in W
  BY <1>2, <1>3
<1> QED  BY <1>4, Typed

(***************************************************************************)
(* The two records change in room i only, from s and p to t and q.         *)
(***************************************************************************)
LEMMA RoomStep ==
  ASSUME BooksTyped, NEW c \in Clients, NEW i \in DOMAIN activeGames,
         NEW t \in Seq(Clients), NEW q \in Seq(Clients),
         activeGames' = [activeGames EXCEPT ![i] = t],
         players' = [players EXCEPT ![i] = q],
         \A d \in Clients : d # c =>
           /\ Occurrences(d, t) = Occurrences(d, activeGames[i])
           /\ Occurrences(d, q) = Occurrences(d, players[i]),
         sessions' \subseteq sessions,
         c \in sessions' => ListsAgree /\ Occurrences(c, t) = Occurrences(c, q)
  PROVE  BooksStep(c)
<1>1. /\ activeGames' \in Seq(Seq(Clients)) /\ Len(activeGames') = Len(activeGames)
      /\ \A j \in 1 .. Len(activeGames) :
           activeGames'[j] = IF j = i THEN t ELSE activeGames[j]
  BY Typed, ExceptSeq DEF BooksTyped
<1>2. /\ players' \in Seq(Seq(Clients)) /\ Len(players') = Len(players)
      /\ \A j \in 1 .. Len(players) : players'[j] = IF j = i THEN q ELSE players[j]
  BY Typed, ExceptSeq DEF BooksTyped
<1>3. DOMAIN activeGames' = DOMAIN activeGames
  BY <1>1, Typed, LenProperties
<1>4. ASSUME NEW j \in DOMAIN activeGames', NEW d \in Clients, d # c
      PROVE  /\ Occurrences(d, players'[j]) = Occurrences(d, players[j])
             /\ Occurrences(d, activeGames'[j]) = Occurrences(d, activeGames[j])
  BY <1>1, <1>2, <1>3, <1>4, Typed DEF BooksTyped
<1>5. ASSUME c \in sessions', NEW j \in DOMAIN activeGames'
      PROVE  Occurrences(c, players'[j]) = Occurrences(c, activeGames'[j])
  BY <1>1, <1>2, <1>3, <1>5, Typed DEF BooksTyped, ListsAgree
<1>6. Len(players') = Len(activeGames') /\ Len(activeGames') >= Len(activeGames)
  BY <1>1, <1>2, Typed DEF BooksTyped
<1> QED  BY <1>1, <1>2, <1>3, <1>4, <1>5, <1>6 DEF BooksStep

LEMMA QuietStep ==
  ASSUME BooksInv, NEW c \in Clients, UNCHANGED <<activeGames, players>>,
         sessions' \subseteq sessions
  PROVE  BooksStep(c)
  BY Typed DEF BooksStep, BooksInv, BooksTyped, ListsAgree

LEMMA CreateStep ==
  ASSUME BooksInv, NEW c \in Clients, HandleCreate(c)
  PROVE  BooksStep(c)
<1>1. sessions' = sessions
  BY DEF HandleCreate
<1>2. CASE UseEmptyRoom(c)
  <2>1. PICK i \in DOMAIN activeGames :
          /\ activeGames[i] = << >>
          /\ activeGames' = [activeGames EXCEPT ![i] = <<c>>]
          /\ players' = [players EXCEPT ![i] = Append(players[i], c)]
    BY <1>2, Typed DEF UseEmptyRoom, BooksInv
  <2>2. players[i] \in Seq(Clients) /\ Append(players[i], c) \in Seq(Clients)
    BY Typed DEF BooksInv
  <2>3. /\ <<c>> = Append(activeGames[i], c) /\ <<c>> \in Seq(Clients)
        /\ activeGames[i] \in Seq(Clients)
    BY <2>1
  <2> DEFINE p == players[i]
             q == Append(p, c)
  <2>a. \A d : Occurrences(d, q) = Occurrences(d, p) + (IF c = d THEN 1 ELSE 0)
    <3>1. \A d : Occurrences(d, q) = Occurrences(d, p) + (IF d = c THEN 1 ELSE 0)
      <4> HIDE DEF p
      <4> QED  BY <2>2, OccurrencesAppend DEF p
    <3> QED  BY <3>1
  <2>b. \A d : Occurrences(d, <<c>>) = (IF d = c THEN 1 ELSE 0)
    BY OccurrencesOne
  <2>c. \A d : Occurrences(d, activeGames[i]) = 0
    BY <2>1, OccurrencesEmpty
  <2>4. \A d \in Clients :
          /\ Occurrences(d, <<c>>) = Occurrences(d, activeGames[i]) + (IF d = c THEN 1 ELSE 0)
          /\ Occurrences(d, q) = Occurrences(d, p) + (IF d = c THEN 1 ELSE 0)
          /\ Occurrences(d, p) \in Nat /\ Occurrences(d, activeGames[i]) = 0
    BY <2>a, <2>b, <2>c, Typed DEF BooksInv
  <2>5. \A d \in Clients : d # c =>
          /\ Occurrences(d, <<c>>) = Occurrences(d, activeGames[i])
          /\ Occurrences(d, q) = Occurrences(d, p)
    BY <2>4
  <2>6. c \in sessions' =>
          ListsAgree /\ Occurrences(c, <<c>>) = Occurrences(c, q)
    BY <1>1, <2>4 DEF BooksInv, ListsAgree
  <2> QED  BY <1>1, <2>1, <2>2, <2>3, <2>5, <2>6, RoomStep DEF BooksInv
<1>3. CASE CreateNewRoom(c)
  <2> DEFINE n == Len(activeGames)
  <2>1. activeGames' = Append(activeGames, <<c>>) /\ players' = Append(players, <<c>>)
    BY <1>3 DEF CreateNewRoom
  <2>2. /\ activeGames' \in Seq(Seq(Clients)) /\ players' \in Seq(Seq(Clients))
        /\ Len(activeGames') = n + 1 /\ Len(players') = n + 1 /\ n \in Nat
        /\ DOMAIN activeGames' = 1 .. n + 1 /\ DOMAIN activeGames = 1 .. n
    BY <2>1, Typed, LenProperties DEF BooksInv, BooksTyped
  <2>3. /\ \A i \in 1 .. n : activeGames'[i] = activeGames[i] /\ players'[i] = players[i]
        /\ activeGames'[n + 1] = <<c>> /\ players'[n + 1] = <<c>>
    BY <2>1, <2>2 DEF BooksInv, BooksTyped
  <2>4. \A d : Occurrences(d, <<c>>) = IF d = c THEN 1 ELSE 0
    BY OccurrencesOne
  <2>n. n \in Nat
    BY <2>2
  <2> HIDE DEF n
  <2>5. ASSUME NEW i \in 1 .. n + 1, NEW d \in Clients
        PROVE  /\ d # c =>
                    /\ Occurrences(d, players'[i]) =
                         IF i \in 1 .. n THEN Occurrences(d, players[i]) ELSE 0
                    /\ Occurrences(d, activeGames'[i]) =
                         IF i \in 1 .. n THEN Occurrences(d, activeGames[i]) ELSE 0
               /\ c \in sessions => Occurrences(c, players'[i]) = Occurrences(c, activeGames'[i])
    <3>1. i \in 1 .. n \/ (i = n + 1 /\ i \notin 1 .. n)
      BY <2>n
    <3>2. CASE i \in 1 .. n
      <4>1. activeGames'[i] = activeGames[i] /\ players'[i] = players[i]
        BY <3>2, <2>3
      <4>2. c \in sessions => Occurrences(c, players[i]) = Occurrences(c, activeGames[i])
        BY <3>2, <2>2 DEF BooksInv, ListsAgree
      <4> QED  BY <3>2, <4>1, <4>2
    <3>3. CASE i = n + 1 /\ i \notin 1 .. n
      <4>1. activeGames'[i] = <<c>> /\ players'[i] = <<c>>
        BY <3>3, <2>3
      <4>2. d # c => Occurrences(d, <<c>>) = 0
        BY <2>4
      <4> QED  BY <3>3, <4>1, <4>2
    <3> QED  BY <3>1, <3>2, <3>3
  <2>6. Len(activeGames') >= Len(activeGames)
    BY <2>2 DEF n
  <2> QED  BY <1>1, <2>2, <2>5, <2>6 DEF BooksStep
<1> QED  BY <1>2, <1>3 DEF HandleCreate

LEMMA SeatStep ==
  ASSUME BooksInv, NEW c \in Clients, NEW i \in DOMAIN activeGames, Seat(c, i)
  PROVE  BooksStep(c)
<1> DEFINE s == activeGames[i]
           p == players[i]
           t == Append(s, c)
           q == Append(p, c)
<1>1. /\ activeGames' = [activeGames EXCEPT ![i] = t]
      /\ players' = [players EXCEPT ![i] = q] /\ sessions' = sessions
  BY DEF Seat
<1>2. s \in Seq(Clients) /\ p \in Seq(Clients)
  BY Typed DEF BooksInv
<1>3. \A d \in Clients :
        /\ Occurrences(d, s) \in Nat /\ Occurrences(d, p) \in Nat
        /\ d \in sessions => Occurrences(d, p) = Occurrences(d, s)
  BY Typed DEF BooksInv, ListsAgree
<1> HIDE DEF s, p
<1>4. t \in Seq(Clients) /\ q \in Seq(Clients)
  BY <1>2
<1>5. \A d : /\ Occurrences(d, t) = Occurrences(d, s) + (IF d = c THEN 1 ELSE 0)
             /\ Occurrences(d, q) = Occurrences(d, p) + (IF d = c THEN 1 ELSE 0)
  BY <1>2, OccurrencesAppend
<1> HIDE DEF t, q
<1>6. \A d \in Clients : d # c => /\ Occurrences(d, t) = Occurrences(d, s)
                                  /\ Occurrences(d, q) = Occurrences(d, p)
  BY <1>3, <1>5
<1>7. c \in sessions' => ListsAgree /\ Occurrences(c, t) = Occurrences(c, q)
  BY <1>1, <1>3, <1>5 DEF BooksInv
<1> QED  BY <1>1, <1>4, <1>6, <1>7, RoomStep DEF BooksInv, s, p

(***************************************************************************)
(* A leave frees a seat and an entry of one who has both or, if he has no  *)
(* session any more, of either.                                            *)
(***************************************************************************)
LEMMA LeaveStep ==
  ASSUME BooksInv, NEW c \in Clients, HandleLeave(c)
  PROVE  BooksStep(c)
<1>1. CASE NoRoom(c)
  BY <1>1, QuietStep DEF NoRoom
<1>2. CASE ~ NoRoom(c)
  <2> DEFINE i == FindGameId(c)
             s == activeGames[i]
             p == players[i]
             t == RemoveFirst(s, c)
             q == RemoveFirst(p, c)
  <2>1. /\ i # Nowhere /\ sessions' = sessions
        /\ activeGames' = [activeGames EXCEPT ![i] = t]
        /\ players' = [players EXCEPT ![i] = q]
    BY <1>2 DEF HandleLeave, FreeSeat, RemoveIfLeaveCalled
  <2>2. i \in DOMAIN activeGames /\ Contains(p, c)
    BY <2>1, FoundRoom DEF BooksInv
  <2> HIDE DEF i
  <2>3. s \in Seq(Clients) /\ p \in Seq(Clients)
    BY <2>2, Typed DEF BooksInv
  <2>4. \A d \in Clients :
          /\ Occurrences(d, s) \in Nat /\ Occurrences(d, p) \in Nat
          /\ d \in sessions => Occurrences(d, p) = Occurrences(d, s)
    BY <2>2, Typed DEF BooksInv, ListsAgree
  <2> HIDE DEF s, p
  <2>5. t \in Seq(Clients) /\ q \in Seq(Clients)
    BY <2>3, OccurrencesRemoveFirst
  <2>6. \A d : /\ Occurrences(d, t) =
                    Occurrences(d, s) - (IF d = c /\ Contains(s, c) THEN 1 ELSE 0)
               /\ Occurrences(d, q) =
                    Occurrences(d, p) - (IF d = c /\ Contains(p, c) THEN 1 ELSE 0)
    BY <2>3, OccurrencesRemoveFirst
  <2>7. c \in sessions => (Contains(s, c) <=> Contains(p, c))
    BY <2>3, <2>4, OccurrencesContains
  <2> HIDE DEF t, q
  <2>8. \A d \in Clients : d # c => /\ Occurrences(d, t) = Occurrences(d, s)
                                    /\ Occurrences(d, q) = Occurrences(d, p)
    BY <2>4, <2>6
  <2>9. c \in sessions' => ListsAgree /\ Occurrences(c, t) = Occurrences(c, q)
    BY <2>1, <2>4, <2>6, <2>7 DEF BooksInv
  <2> QED  BY <2>1, <2>2, <2>5, <2>8, <2>9, RoomStep DEF BooksInv, s, p
<1> QED  BY <1>1, <1>2

LEMMA DisconnectStep ==
  ASSUME BooksInv, NEW c \in Clients, Disconnect(c)
  PROVE  BooksStep(c) /\ sessions' = sessions \ {c} /\ players' = players
<1>1. sessions' = sessions \ {c} /\ players' = players
  BY DEF Disconnect
<1>2. CASE UNCHANGED activeGames
  BY <1>1, <1>2, QuietStep
<1>3. CASE FindGameId(c) # Nowhere /\ FreeSeat(c, FindGameId(c))
  <2> DEFINE i == FindGameId(c)
             s == activeGames[i]
             p == players[i]
             t == RemoveFirst(s, c)
  <2>1. activeGames' = [activeGames EXCEPT ![i] = t]
    BY <1>3 DEF FreeSeat
  <2>2. i \in DOMAIN activeGames
    BY <1>3, FoundRoom DEF BooksInv
  <2> HIDE DEF i
  <2>3. s \in Seq(Clients) /\ p \in Seq(Clients)
    BY <2>2, Typed DEF BooksInv
  <2>4. \A d \in Clients : Occurrences(d, s) \in Nat
    BY <2>2, Typed DEF BooksInv
  <2>5. players' = [players EXCEPT ![i] = p]
    BY <1>1, <2>2, Typed DEF BooksInv, BooksTyped
  <2> HIDE DEF s, p
  <2>6. /\ t \in Seq(Clients)
        /\ \A d : Occurrences(d, t) =
                    Occurrences(d, s) - (IF d = c /\ Contains(s, c) THEN 1 ELSE 0)
    BY <2>3, OccurrencesRemoveFirst
  <2> HIDE DEF t
  <2>7. \A d \in Clients : d # c => /\ Occurrences(d, t) = Occurrences(d, s)
                                    /\ Occurrences(d, p) = Occurrences(d, p)
    BY <2>4, <2>6
  <2> QED  BY <1>1, <2>1, <2>2, <2>3, <2>5, <2>6, <2>7, RoomStep DEF BooksInv, s, p
<1> QED  BY <1>1, <1>2, <1>3 DEF Disconnect

(***************************************************************************)
(* A message on its way to the server comes from one who has connected,    *)
(* and whatever is done with it, clients who have not are sent nothing.    *)
(***************************************************************************)
LEMMA InterpretStep ==
  ASSUME BooksTyped, NEW out, Interpret(out)
  PROVE  /\ DOMAIN toClient' = Clients
         /\ \A d \in Clients : link[d] = "new" => toClient'[d] \in {<< >>, toClient[d]}
  BY DEF Interpret, BooksTyped

LEMMA DisconnectSends ==
  ASSUME BooksTyped, NEW c, Disconnect(c)
  PROVE  /\ DOMAIN toClient' = Clients
         /\ \A d \in Clients : link[d] = "new" => toClient'[d] \in {<< >>, toClient[d]}
<1>1. CASE UNCHANGED toClient
  BY <1>1 DEF BooksTyped
<1>2. CASE FreeSeat(c, FindGameId(c))
  BY <1>2, InterpretStep DEF FreeSeat
<1> QED  BY <1>1, <1>2 DEF Disconnect

LEMMA DoWorkStep ==
  ASSUME BooksInv, NEW c \in Clients, DoWork(c)
  PROVE  /\ BooksStep(c) /\ link' = link /\ link[c] # "new"
         /\ toServer' = [toServer EXCEPT ![c] = Tail(@)]
         /\ DOMAIN toClient' = Clients
         /\ \A d \in Clients : link[d] = "new" => toClient'[d] \in {<< >>, toClient[d]}
<1>1. toServer[c] # << >> /\ link' = link /\ toServer' = [toServer EXCEPT ![c] = Tail(@)]
  BY DEF DoWork
<1>2. link[c] # "new"
  BY <1>1 DEF BooksInv, NewIsNowhere
<1> DEFINE Sent == /\ DOMAIN toClient' = Clients
                   /\ \A d \in Clients :
                        link[d] = "new" => toClient'[d] \in {<< >>, toClient[d]}
<1>3. UNCHANGED toClient => Sent
  BY DEF BooksInv, BooksTyped
<1>4. \A out : Interpret(out) => Sent
  BY InterpretStep DEF BooksInv
<1> HIDE DEF Sent
<1>5. ASSUME HandleCreate(c)
      PROVE  BooksStep(c) /\ Sent
  BY <1>4, <1>5, CreateStep DEF HandleCreate
<1>6. ASSUME NEW i, HandleAdd(c, i)
      PROVE  BooksStep(c) /\ Sent
  <2>1. CASE i \in DOMAIN activeGames /\ Seat(c, i)
    BY <2>1, <1>4, SeatStep DEF Seat
  <2>2. CASE i \in DOMAIN activeGames /\ Refuse(c, i)
    BY <2>2, <1>4, QuietStep DEF Refuse
  <2>3. CASE UNCHANGED <<activeGames, players, sessions, toClient>>
    BY <2>3, <1>3, QuietStep
  <2> QED  BY <1>6, <2>1, <2>2, <2>3 DEF HandleAdd
<1>7. ASSUME HandleShow(c)
      PROVE  BooksStep(c) /\ Sent
  BY <1>4, <1>7, QuietStep DEF HandleShow
<1>8. ASSUME HandleChat(c)
      PROVE  BooksStep(c) /\ Sent
  BY <1>3, <1>4, <1>8, QuietStep DEF HandleChat, NoRoom
<1>9. ASSUME HandleLeave(c)
      PROVE  BooksStep(c) /\ Sent
  BY <1>3, <1>4, <1>9, LeaveStep DEF HandleLeave, FreeSeat, NoRoom
<1>10. ASSUME Disconnect(c)
       PROVE  BooksStep(c) /\ Sent
  BY <1>10, DisconnectStep, DisconnectSends DEF BooksInv, Sent
<1>11. BooksStep(c) /\ Sent
  BY <1>5, <1>6, <1>7, <1>8, <1>9, <1>10 DEF DoWork
<1> QED  BY <1>1, <1>2, <1>11 DEF Sent

LEMMA BooksStepPreserves ==
  ASSUME BooksInv, NEW c \in Clients, BooksStep(c), link' = link, link[c] # "new",
         DOMAIN toServer' = Clients, \A d \in Clients : d # c => toServer'[d] = toServer[d],
         DOMAIN toClient' = Clients,
         \A d \in Clients : link[d] = "new" => toClient'[d] \in {<< >>, toClient[d]}
  PROVE  BooksInv'
<1>1. BooksTyped'
  BY DEF BooksInv, BooksTyped, BooksStep
<1>2. DOMAIN activeGames' = 1 .. Len(activeGames')
  BY <1>1, LenProperties DEF BooksTyped
<1>3. NewIsNowhere'
  BY DEF BooksInv, BooksTyped, NewIsNowhere, BooksStep
<1>4. ASSUME NEW d \in sessions', NEW i \in DOMAIN activeGames', d # c
      PROVE  Occurrences(d, players'[i]) = Occurrences(d, activeGames'[i])
  BY <1>4 DEF BooksInv, BooksTyped, BooksStep, ListsAgree
<1>5. ListsAgree'
  BY <1>4 DEF BooksStep, ListsAgree
<1> QED  BY <1>1, <1>3, <1>5 DEF BooksInv

LEMMA ClientStep ==
  ASSUME BooksInv, NEW c \in Clients, UNCHANGED serverVars, UNCHANGED link, link[c] # "new",
         DOMAIN toServer' = Clients, \A d \in Clients : d # c => toServer'[d] = toServer[d],
         DOMAIN toClient' = Clients, \A d \in Clients : d # c => toClient'[d] = toClient[d]
  PROVE  BooksInv'
  BY QuietStep, BooksStepPreserves DEF serverVars

LEMMA InitBooks == Init => BooksInv
  BY EmptySeq, LenProperties DEF Init, BooksInv, BooksTyped, NewIsNowhere, ListsAgree

LEMMA NextBooks == BooksInv /\ [Next]_vars => BooksInv'
<1> SUFFICES ASSUME BooksInv, [Next]_vars
             PROVE  BooksInv'
  OBVIOUS
<1> USE DEF BooksInv
<1>1. CASE UNCHANGED vars
  BY <1>1 DEF vars, serverVars, BooksTyped, NewIsNowhere, ListsAgree
<1>2. ASSUME NEW c \in Clients, Connect(c)
      PROVE  BooksInv'
  <2>1. /\ link[c] = "new" /\ link' = [link EXCEPT ![c] = "open"]
        /\ sessions' = sessions \cup {c}
        /\ toClient' = [toClient EXCEPT ![c] = <<[action |-> "welcome"]>>]
        /\ toServer' = [toServer EXCEPT ![c] = @ \o <<[action |-> "show"]>>]
        /\ UNCHANGED <<activeGames, players>>
    BY <1>2 DEF Connect, Send
  <2>2. BooksTyped'
    BY <2>1 DEF BooksTyped
  <2>3. NewIsNowhere'
    BY <2>1 DEF BooksTyped, NewIsNowhere
  <2>4. ListsAgree'
    BY <2>1 DEF NewIsNowhere, ListsAgree
  <2> QED  BY <2>2, <2>3, <2>4
<1>3. ASSUME NEW c \in Clients, User(c)
      PROVE  BooksInv'
  <2>1. link[c] # "new" /\ UNCHANGED <<serverVars, link, toClient>>
    BY <1>3 DEF User, RequestRoom, RequestRefresh, SendMessage, LeaveRoom
  <2>2. \E msgs : Send(c, msgs)
    BY <1>3 DEF User, RequestRoom, RequestRefresh, SendMessage, LeaveRoom
  <2>3. DOMAIN toServer' = Clients /\ \A d \in Clients : d # c => toServer'[d] = toServer[d]
    BY <2>2 DEF Send, BooksTyped
  <2> QED  BY <2>1, <2>3, ClientStep DEF BooksTyped
<1>4. ASSUME NEW c \in Clients, Receive(c)
      PROVE  BooksInv'
  <2>1. /\ toClient[c] # << >> /\ UNCHANGED <<serverVars, link>>
        /\ toClient' = [toClient EXCEPT ![c] = Tail(@)]
    BY <1>4 DEF Receive
  <2>2. link[c] # "new"
    BY <2>1 DEF NewIsNowhere
  <2>3. UNCHANGED toServer \/ \E msgs : Send(c, msgs)
    BY <1>4 DEF Receive, ReceiveAdd, ReceiveShow, ReceiveNewPlayer, ReceiveLeave
  <2>4. DOMAIN toServer' = Clients /\ \A d \in Clients : d # c => toServer'[d] = toServer[d]
    BY <2>3 DEF Send, BooksTyped
  <2> QED  BY <2>1, <2>2, <2>4, ClientStep DEF BooksTyped
<1>5. ASSUME NEW c \in Clients, Close(c)
      PROVE  BooksInv'
  <2>1. /\ link[c] = "open" /\ link' = [link EXCEPT ![c] = "closed"]
        /\ toClient' = [toClient EXCEPT ![c] = << >>]
        /\ UNCHANGED serverVars
    BY <1>5 DEF Close
  <2>2. PICK k \in 0 .. Len(toServer[c]) :
          toServer' = [toServer EXCEPT ![c] = Append(SubSeq(@, 1, k), [action |-> "closed"])]
    BY <1>5 DEF Close
  <2> QED  BY <2>1, <2>2 DEF serverVars, BooksTyped, NewIsNowhere, ListsAgree
<1>6. ASSUME NEW c \in Clients, DoWork(c)
      PROVE  BooksInv'
  <2>1. /\ BooksStep(c) /\ link' = link /\ link[c] # "new"
        /\ toServer' = [toServer EXCEPT ![c] = Tail(@)]
        /\ DOMAIN toClient' = Clients
        /\ \A d \in Clients : link[d] = "new" => toClient'[d] \in {<< >>, toClient[d]}
    BY <1>6, DoWorkStep
  <2>2. DOMAIN toServer' = Clients /\ \A d \in Clients : d # c => toServer'[d] = toServer[d]
    BY <2>1 DEF BooksTyped
  <2> QED  BY <2>1, <2>2, BooksStepPreserves
<1>7. ASSUME NEW c \in Clients, WriteFails(c)
      PROVE  BooksInv'
  <2>1. Disconnect(c) /\ link[c] # "new" /\ UNCHANGED <<link, toServer>>
    BY <1>7 DEF WriteFails
  <2> QED  BY <2>1, DisconnectStep, DisconnectSends, BooksStepPreserves DEF BooksTyped
<1> QED  BY <1>1, <1>2, <1>3, <1>4, <1>5, <1>6, <1>7 DEF Next

(***************************************************************************)
(* As long as a client has a session, active_games_ and players_ list it   *)
(* equally often in every room, whatever the users do, a seat asked for    *)
(* twice and a lost connection included.                                   *)
(***************************************************************************)
THEOREM ListsAlwaysAgree == Spec => []ListsAgree
<1>1. BooksInv => ListsAgree
  BY DEF BooksInv
<1> QED  BY <1>1, InitBooks, NextBooks, PTL DEF Spec

-----------------------------------------------------------------------------
(***************************************************************************)
(* Messages.  What Interpret does to one client's messages, as it is folded *)
(* over the pairs of addressees and message that a handler returns.        *)
(***************************************************************************)
\* What Interpret does to one client's messages, as it is folded over `out'.
Copies(d, A, m) == [k \in 1 .. Occurrences(d, A) |-> m]
Delivered(d, base, out) ==
  FoldLeftDomain(LAMBDA s, i : s \o Copies(d, out[i][1], out[i][2]), base, out)

\* The largest of one index, and of two: the order in which the fold takes entries.
LEMMA MaxOne == \A i \in Nat : Max({i}) = i
<1> SUFFICES ASSUME NEW i \in Nat PROVE Max({i}) = i
  OBVIOUS
<1> QED  BY DEF Max

LEMMA MaxTwo == Max({1, 2}) = 2
  BY DEF Max

\* What Interpret does with one entry or with two.
SentOne(A, m) ==
  IF ToSet(A) \subseteq sessions'
    THEN /\ UNCHANGED fault
         /\ toClient' = [d \in Clients |-> IF link[d] # "open" THEN << >>
                                          ELSE toClient[d] \o Copies(d, A, m)]
    ELSE fault' = "no_session" /\ UNCHANGED toClient

SentTwo(A, m, B, n) ==
  IF ToSet(A) \subseteq sessions' /\ ToSet(B) \subseteq sessions'
    THEN /\ UNCHANGED fault
         /\ toClient' = [d \in Clients |->
               IF link[d] # "open" THEN << >>
               ELSE (toClient[d] \o Copies(d, A, m)) \o Copies(d, B, n)]
    ELSE fault' = "no_session" /\ UNCHANGED toClient

\* The fold over one entry gives its copies, and over two entries both in their order.
LEMMA FoldOne ==
  ASSUME NEW base, NEW d, NEW A, NEW m, NEW out, out = << <<A, m>> >>
  PROVE  Delivered(d, base, out) = base \o Copies(d, A, m)
<1> DEFINE copies(c, i) == Copies(c, out[i][1], out[i][2])
           steps == [i \in DOMAIN out |-> i]
           IsFold(g) == g = [s \in SUBSET DOMAIN steps |->
                 IF s = {} THEN base ELSE g[s \ {Max(s)}] \o copies(d, steps[Max(s)])]
           h == [s \in SUBSET {1} |-> IF s = {} THEN base ELSE base \o Copies(d, A, m)]
<1>0. Delivered(d, base, out) = (CHOOSE g : IsFold(g))[DOMAIN steps]
  BY DEF Delivered, FoldLeftDomain, FoldLeft, MapThenFoldSet
<1>1. SUBSET {1} = {{}, {1}} /\ {1} \ {1} = {}
  OBVIOUS
<1>2. DOMAIN steps = {1} /\ steps[1] = 1 /\ copies(d, 1) = Copies(d, A, m)
  OBVIOUS
<1> HIDE DEF copies, steps
<1>3. IsFold(h)
  <2>1. h[{}] = base
    BY <1>1
  <2>2. \A s \in SUBSET {1} : s # {} => h[s \ {Max(s)}] = base /\ copies(d, steps[Max(s)]) = Copies(d, A, m)
    BY <1>1, <1>2, <2>1, MaxOne
  <2>3. h = [s \in SUBSET {1} |-> IF s = {} THEN base ELSE h[s \ {Max(s)}] \o copies(d, steps[Max(s)])]
    BY <2>2
  <2> QED  BY <1>2, <2>3
<1>4. \A g : IsFold(g) => g[{1}] = base \o Copies(d, A, m)
  <2> SUFFICES ASSUME NEW g, IsFold(g) PROVE g[{1}] = base \o Copies(d, A, m)
    OBVIOUS
  <2>1. g[{1}] = IF {1} = {} THEN base ELSE g[{1} \ {Max({1})}] \o copies(d, steps[Max({1})])
    BY <1>1, <1>2
  <2>2. g[{}] = base
    BY <1>1, <1>2
  <2>3. Max({1}) = 1
    BY MaxOne
  <2> HIDE DEF IsFold
  <2> QED  BY <1>1, <1>2, <2>1, <2>2, <2>3
<1>5. (CHOOSE g : IsFold(g))[{1}] = base \o Copies(d, A, m)
  <2> HIDE DEF IsFold, h
  <2>1. IsFold(CHOOSE g : IsFold(g))
    BY <1>3
  <2> QED  BY <1>4, <2>1
<1> QED  BY <1>0, <1>2, <1>5 DEF copies

LEMMA FoldTwo ==
  ASSUME NEW base, NEW d, NEW A, NEW m, NEW B, NEW n,
         NEW out, out = << <<A, m>>, <<B, n>> >>
  PROVE  Delivered(d, base, out) = (base \o Copies(d, A, m)) \o Copies(d, B, n)
<1> DEFINE copies(c, i) == Copies(c, out[i][1], out[i][2])
           steps == [i \in DOMAIN out |-> i]
           IsFold(g) == g = [s \in SUBSET DOMAIN steps |->
                 IF s = {} THEN base ELSE g[s \ {Max(s)}] \o copies(d, steps[Max(s)])]
           first == base \o Copies(d, A, m)
           h == [s \in SUBSET {1, 2} |-> IF s = {} THEN base
                                         ELSE IF s = {1} THEN first
                                         ELSE IF s = {2} THEN base \o Copies(d, B, n)
                                         ELSE first \o Copies(d, B, n)]
<1>0. Delivered(d, base, out) = (CHOOSE g : IsFold(g))[DOMAIN steps]
  <2> QED  BY DEF Delivered, FoldLeftDomain, FoldLeft, MapThenFoldSet
<1>1. /\ SUBSET {1, 2} = {{}, {1}, {2}, {1, 2}}
      /\ {1} \ {1} = {} /\ {2} \ {2} = {} /\ {1, 2} \ {2} = {1}
      /\ {1} # {2} /\ {1} # {1, 2} /\ {2} # {1, 2}
  OBVIOUS
<1>2. /\ DOMAIN steps = {1, 2} /\ steps[1] = 1 /\ steps[2] = 2
      /\ copies(d, 1) = Copies(d, A, m) /\ copies(d, 2) = Copies(d, B, n)
  OBVIOUS
<1>m. Max({1}) = 1 /\ Max({2}) = 2 /\ Max({1, 2}) = 2
  BY MaxOne, MaxTwo
<1> HIDE DEF copies, steps
<1>3. IsFold(h)
  <2>1. h[{}] = base /\ h[{1}] = first
    BY <1>1
  <2>2. \A s \in SUBSET {1, 2} : s # {} =>
          h[s \ {Max(s)}] \o copies(d, steps[Max(s)]) =
            IF s = {1} THEN first ELSE IF s = {2} THEN base \o Copies(d, B, n)
            ELSE first \o Copies(d, B, n)
    <3> HIDE DEF h
    <3> QED  BY <1>1, <1>2, <1>m, <2>1
  <2>3. h = [s \in SUBSET {1, 2} |-> IF s = {} THEN base ELSE h[s \ {Max(s)}] \o copies(d, steps[Max(s)])]
    BY <2>2
  <2> QED  BY <1>2, <2>3
<1>4. \A g : IsFold(g) => g[{1, 2}] = first \o Copies(d, B, n)
  <2> SUFFICES ASSUME NEW g, IsFold(g) PROVE g[{1, 2}] = first \o Copies(d, B, n)
    OBVIOUS
  <2>1. \A s \in SUBSET {1, 2} : g[s] = IF s = {} THEN base ELSE g[s \ {Max(s)}] \o copies(d, steps[Max(s)])
    BY <1>2
  <2> HIDE DEF IsFold
  <2>2. g[{}] = base
    BY <2>1
  <2>3. g[{1}] = first
    <3>1. {1} \in SUBSET {1, 2} /\ {1} # {}
      OBVIOUS
    <3>2. g[{1}] = g[{1} \ {Max({1})}] \o copies(d, steps[Max({1})])
      BY <2>1, <3>1
    <3>3. {1} \ {Max({1})} = {} /\ copies(d, steps[Max({1})]) = Copies(d, A, m)
      BY <1>2, <1>m
    <3> QED  BY <2>2, <3>2, <3>3
  <2> HIDE DEF first
  <2>4. g[{1, 2}] = g[{1, 2} \ {Max({1, 2})}] \o copies(d, steps[Max({1, 2})])
    BY <2>1
  <2>5. {1, 2} \ {Max({1, 2})} = {1} /\ steps[Max({1, 2})] = 2
    BY <1>2, <1>m
  <2>6. g[{1, 2} \ {Max({1, 2})}] = first
    BY <2>3, <2>5
  <2>7. copies(d, steps[Max({1, 2})]) = Copies(d, B, n)
    BY <1>2, <2>5
  <2> QED  BY <2>4, <2>6, <2>7
<1>5. (CHOOSE g : IsFold(g))[{1, 2}] = first \o Copies(d, B, n)
  <2> HIDE DEF IsFold, h
  <2>1. IsFold(CHOOSE g : IsFold(g))
    BY <1>3
  <2> QED  BY <1>4, <2>1
<1> QED  BY <1>0, <1>2, <1>5 DEF copies

\* Interpret in the form in which the proofs use it.
LEMMA DeliverOne ==
  ASSUME NEW A, NEW m, NEW out, out = << <<A, m>> >>, Interpret(out)
  PROVE  SentOne(A, m)
<1> DEFINE All == ToSet(A) \subseteq sessions'
<1>1. (\E i \in DOMAIN out : ~ ToSet(out[i][1]) \subseteq sessions') <=> ~ All
  OBVIOUS
<1>2. \A base, d : Delivered(d, base, out) = base \o Copies(d, A, m)
  BY FoldOne, SMT
<1> HIDE DEF All
<1>3. CASE ~ All
  BY <1>1, <1>3 DEF Interpret, All, SentOne
<1>4. CASE All
  <2>1. /\ UNCHANGED fault
        /\ toClient' = [d \in Clients |-> IF link[d] # "open" THEN << >>
                                         ELSE Delivered(d, toClient[d], out)]
    BY <1>1, <1>4 DEF Interpret, Delivered, Copies
  <2> QED  BY <1>2, <1>4, <2>1 DEF All, SentOne
<1> QED  BY <1>3, <1>4

LEMMA DeliverTwo ==
  ASSUME NEW A, NEW m, NEW B, NEW n, NEW out, out = << <<A, m>>, <<B, n>> >>, Interpret(out)
  PROVE  SentTwo(A, m, B, n)
<1> DEFINE All == ToSet(A) \subseteq sessions' /\ ToSet(B) \subseteq sessions'
<1>1. (\E i \in DOMAIN out : ~ ToSet(out[i][1]) \subseteq sessions') <=> ~ All
  OBVIOUS
<1>2. \A base, d : Delivered(d, base, out) = (base \o Copies(d, A, m)) \o Copies(d, B, n)
  BY FoldTwo, SMT
<1> HIDE DEF All
<1>3. CASE ~ All
  BY <1>1, <1>3 DEF Interpret, All, SentTwo
<1>4. CASE All
  <2>1. /\ UNCHANGED fault
        /\ toClient' = [d \in Clients |-> IF link[d] # "open" THEN << >>
                                         ELSE Delivered(d, toClient[d], out)]
    BY <1>1, <1>4 DEF Interpret, Delivered, Copies
  <2> QED  BY <1>2, <1>4, <2>1 DEF All, SentTwo
<1> QED  BY <1>3, <1>4

\* Who is told of what c does: everybody in the room but c, as often as before.
LEMMA OthersAre ==
  ASSUME NEW s, NEW c
  PROVE  /\ ToSet(Others(c, s)) = ToSet(s) \ {c}
         /\ \A d : Occurrences(d, Others(c, s)) = IF d = c THEN 0 ELSE Occurrences(d, s)
<1> DEFINE o == Others(c, s)
<1>1. /\ DOMAIN o = {i \in DOMAIN s : s[i] # c}
      /\ \A i \in DOMAIN o : o[i] = s[i]
  BY DEF Others, RestrictValues, Restrict
<1> HIDE DEF o
<1>2. ToSet(o) = ToSet(s) \ {c}
  BY <1>1 DEF ToSet
<1>3. ASSUME NEW d
      PROVE  Occurrences(d, o) = IF d = c THEN 0 ELSE Occurrences(d, s)
  <2>1. CASE d = c
    <3>1. {i \in DOMAIN o : o[i] = d} = {}
      BY <1>1, <2>1
    <3> QED  BY <2>1, <3>1, FS_EmptySet DEF Occurrences
  <2>2. CASE d # c
    <3>1. {i \in DOMAIN o : o[i] = d} = {i \in DOMAIN s : s[i] = d}
      BY <1>1, <2>2
    <3> QED  BY <2>2, <3>1 DEF Occurrences
  <2> QED  BY <2>1, <2>2
<1> QED  BY <1>2, <1>3 DEF o

\* The copies one client gets.
LEMMA CopiesTyped ==
  ASSUME NEW M, NEW m \in M, NEW d, NEW A, Occurrences(d, A) \in Nat
  PROVE  Copies(d, A, m) \in Seq(M)
<1> DEFINE n == Occurrences(d, A)
<1> HIDE DEF n
<1>1. n \in Nat => [k \in 1 .. n |-> m] \in Seq(M)
  OBVIOUS
<1> QED  BY <1>1 DEF Copies, n

LEMMA CopiesAre ==
  ASSUME NEW d, NEW A, NEW m
  PROVE  /\ Occurrences(d, A) = 0 => Copies(d, A, m) = << >>
         /\ Occurrences(d, A) = 1 => Copies(d, A, m) = <<m>>
<1> DEFINE n == Occurrences(d, A)
<1> HIDE DEF n
<1>1. n = 0 => [k \in 1 .. n |-> m] = << >>
  OBVIOUS
<1>2. n = 1 => [k \in 1 .. n |-> m] = <<m>>
  OBVIOUS
<1> QED  BY <1>1, <1>2 DEF Copies, n

-----------------------------------------------------------------------------
(***************************************************************************)
(* Types.  A message names rooms that exist, and rooms are never removed,  *)
(* so that it keeps its type while it is on its way.                       *)
(***************************************************************************)
SeatsAnswer == {m \in [action : {"add"}, error : {FALSE}, data : Seq(Clients)] :
                  Len(m.data) =< MAX_PLAYERS}

ToClientMessage ==
  [action : {"welcome"}]
  \cup [action : {"show"}, data : SUBSET (DOMAIN activeGames)]
  \cup SeatsAnswer
  \cup [action : {"add"}, error : {TRUE}]
  \cup [action : {"new_player", "leave"}, data : Clients]
  \cup [action : {"chat"}, player : Clients]

QueuesTyped ==
  \A c \in Clients :
    /\ toServer[c] \in Seq(ToServerMessage)
    /\ Len(toServer[c]) =< IF link[c] = "closed" THEN Capacity + 1 ELSE Capacity
    /\ toClient[c] \in Seq(ToClientMessage)

RoomsFit == \A i \in DOMAIN activeGames : Len(activeGames[i]) =< MAX_PLAYERS

ServerTyped ==
  /\ RoomsFit
  /\ fault \in {"none", "no_session", "no_room", "not_registered"}
  /\ link \in [Clients -> {"new", "open", "closed"}]
  /\ writing \subseteq Clients /\ broken \subseteq writing

ClientTyped ==
  /\ scene \in [Clients -> {"lobby", "game_panel"}]
  /\ roomList \in [Clients -> SUBSET (DOMAIN activeGames)]
  /\ game \in [Clients -> Seq(Clients) \cup {NoGame}]
  /\ index \in [Clients -> 0 .. MAX_PLAYERS]
  /\ waiting \in [Clients -> Int]

TypedInv == BooksInv /\ ServerTyped /\ QueuesTyped /\ ClientTyped

\* A message keeps its type when the list of rooms grows.
LEMMA MessagesLast ==
  ASSUME BooksTyped, Len(activeGames') \in Nat, Len(activeGames') >= Len(activeGames),
         DOMAIN activeGames' = 1 .. Len(activeGames')
  PROVE  /\ DOMAIN activeGames \subseteq DOMAIN activeGames'
         /\ ToServerMessage \subseteq ToServerMessage'
         /\ ToClientMessage \subseteq ToClientMessage'
<1>1. Len(activeGames) \in Nat /\ DOMAIN activeGames = 1 .. Len(activeGames)
  BY Typed
<1>2. /\ 0 .. Len(activeGames) \subseteq 0 .. Len(activeGames')
      /\ DOMAIN activeGames \subseteq DOMAIN activeGames'
  BY <1>1
<1>3. ToServerMessage \subseteq ToServerMessage'
  BY <1>2 DEF ToServerMessage
<1>4. ToClientMessage \subseteq ToClientMessage'
  BY <1>2 DEF ToClientMessage, SeatsAnswer
<1> QED  BY <1>2, <1>3, <1>4

\* Queues keep their type when a message of the type is delivered.
LEMMA DeliverTyped ==
  ASSUME NEW M, \A d \in Clients : toClient[d] \in Seq(M)
  PROVE  /\ \A A, m : SentOne(A, m) /\ m \in M
                      /\ (\A d \in Clients : Occurrences(d, A) \in Nat)
                      => /\ fault' \in {fault, "no_session"}
                         /\ \A d \in Clients : toClient'[d] \in Seq(M)
         /\ \A A, m, B, n : SentTwo(A, m, B, n) /\ m \in M /\ n \in M
                      /\ (\A d \in Clients : Occurrences(d, A) \in Nat /\ Occurrences(d, B) \in Nat)
                      => /\ fault' \in {fault, "no_session"}
                         /\ \A d \in Clients : toClient'[d] \in Seq(M)
<1>1. << >> \in Seq(M)
  OBVIOUS
<1>2. ASSUME NEW A, NEW m, SentOne(A, m), m \in M,
             \A d \in Clients : Occurrences(d, A) \in Nat
      PROVE  /\ fault' \in {fault, "no_session"}
             /\ \A d \in Clients : toClient'[d] \in Seq(M)
  <2>1. \A d \in Clients : Copies(d, A, m) \in Seq(M)
    BY <1>2, CopiesTyped
  <2>2. \A d \in Clients : toClient[d] \o Copies(d, A, m) \in Seq(M)
    BY <2>1, ConcatProperties
  <2> QED  BY <1>1, <1>2, <2>2 DEF SentOne
<1>3. ASSUME NEW A, NEW m, NEW B, NEW n, SentTwo(A, m, B, n), m \in M, n \in M,
             \A d \in Clients : Occurrences(d, A) \in Nat /\ Occurrences(d, B) \in Nat
      PROVE  /\ fault' \in {fault, "no_session"}
             /\ \A d \in Clients : toClient'[d] \in Seq(M)
  <2>1. \A d \in Clients : Copies(d, A, m) \in Seq(M) /\ Copies(d, B, n) \in Seq(M)
    BY <1>3, CopiesTyped
  <2>2. \A d \in Clients : (toClient[d] \o Copies(d, A, m)) \o Copies(d, B, n) \in Seq(M)
    <3> SUFFICES ASSUME NEW d \in Clients
                 PROVE  (toClient[d] \o Copies(d, A, m)) \o Copies(d, B, n) \in Seq(M)
      OBVIOUS
    <3>1. toClient[d] \o Copies(d, A, m) \in Seq(M)
      BY <2>1, ConcatProperties
    <3> QED  BY <2>1, <3>1, ConcatProperties
  <2> QED  BY <1>1, <1>3, <2>2 DEF SentTwo
<1> QED  BY <1>2, <1>3

NewPlayerTold(c) == [action |-> "new_player", data |-> c]
SeatsTold(seats) == [action |-> "add", error |-> FALSE, data |-> seats]
RefusalTold == [action |-> "add", error |-> TRUE]
RoomsTold == [action |-> "show",
              data |-> {i \in DOMAIN activeGames : Len(activeGames[i]) \in 1 .. MAX_PLAYERS - 1}]
ChatTold(c) == [action |-> "chat", player |-> c]
LeaveTold(c) == [action |-> "leave", data |-> c]

\* What each handler sends, with its messages under their names.
LEMMA HandlersSend ==
  ASSUME NEW c
  PROVE  /\ \A s : Interpret(Accepted(c, s))
               => SentTwo(Others(c, s), NewPlayerTold(c), <<c>>, SeatsTold(s))
         /\ Interpret(Refused(c)) => SentOne(<<c>>, RefusalTold)
         /\ HandleShow(c) => SentOne(<<c>>, RoomsTold)
         /\ HandleChat(c) /\ ~ NoRoom(c)
               => SentOne(Others(c, activeGames[FindGameId(c)]), ChatTold(c))
         /\ \A i : FreeSeat(c, i) => SentOne(activeGames'[i], LeaveTold(c))
<1>1. ASSUME NEW s, Interpret(Accepted(c, s))
      PROVE  SentTwo(Others(c, s), NewPlayerTold(c), <<c>>, SeatsTold(s))
  <2> DEFINE out == Accepted(c, s)
  <2>1. out = << <<Others(c, s), NewPlayerTold(c)>>, <<<<c>>, SeatsTold(s)>> >>
    BY DEF Accepted, NewPlayerTold, SeatsTold
  <2>2. Interpret(out)
    BY <1>1
  <2> HIDE DEF out
  <2> QED  BY <2>1, <2>2, DeliverTwo
<1>2. ASSUME Interpret(Refused(c))
      PROVE  SentOne(<<c>>, RefusalTold)
  <2> DEFINE out == Refused(c)
  <2>1. out = << <<<<c>>, RefusalTold>> >>
    BY DEF Refused, RefusalTold
  <2>2. Interpret(out)
    BY <1>2
  <2> HIDE DEF out
  <2> QED  BY <2>1, <2>2, DeliverOne
<1>3. ASSUME HandleShow(c)
      PROVE  SentOne(<<c>>, RoomsTold)
  <2> DEFINE out == << <<<<c>>, RoomsTold>> >>
  <2>1. Interpret(out)
    BY <1>3 DEF HandleShow, RoomsTold
  <2>2. out = << <<<<c>>, RoomsTold>> >>
    OBVIOUS
  <2> HIDE DEF out
  <2> QED  BY <2>1, <2>2, DeliverOne
<1>4. ASSUME HandleChat(c), ~ NoRoom(c)
      PROVE  SentOne(Others(c, activeGames[FindGameId(c)]), ChatTold(c))
  <2> DEFINE out == << <<Others(c, activeGames[FindGameId(c)]), ChatTold(c)>> >>
  <2>1. Interpret(out)
    BY <1>4 DEF HandleChat, ChatTold
  <2>2. out = << <<Others(c, activeGames[FindGameId(c)]), ChatTold(c)>> >>
    OBVIOUS
  <2> HIDE DEF out
  <2> QED  BY <2>1, <2>2, DeliverOne
<1>5. ASSUME NEW i, FreeSeat(c, i)
      PROVE  SentOne(activeGames'[i], LeaveTold(c))
  <2> DEFINE out == << <<activeGames'[i], LeaveTold(c)>> >>
  <2>1. Interpret(out)
    BY <1>5 DEF FreeSeat, LeaveTold
  <2>2. out = << <<activeGames'[i], LeaveTold(c)>> >>
    OBVIOUS
  <2> HIDE DEF out
  <2> QED  BY <2>1, <2>2, DeliverOne
<1> QED  BY <1>1, <1>2, <1>3, <1>4, <1>5

(***************************************************************************)
(* What the handlers do to the seats: c takes one in room i, an old or a   *)
(* new one, or leaves one.                                                 *)
(***************************************************************************)
Old(i) == IF i \in DOMAIN activeGames THEN activeGames[i] ELSE << >>

\* A new room is the last, and made only when none is empty.
MadeAt(i) ==
  i \notin DOMAIN activeGames =>
    i = Len(activeGames) + 1 /\ \A j \in DOMAIN activeGames : activeGames[j] # << >>

TakesSeat(c, i) ==
  /\ MadeAt(i)
  /\ DOMAIN activeGames' = DOMAIN activeGames \cup {i}
  /\ Len(Old(i)) < MAX_PLAYERS
  /\ activeGames'[i] = Append(Old(i), c)
  /\ \A j \in DOMAIN activeGames : j # i => activeGames'[j] = activeGames[j]
  /\ SentTwo(Others(c, activeGames'[i]), NewPlayerTold(c), <<c>>, SeatsTold(activeGames'[i]))

LeavesSeat(c, i) ==
  /\ i \in DOMAIN activeGames
  /\ activeGames' = [activeGames EXCEPT ![i] = RemoveFirst(@, c)]
  /\ SentOne(activeGames'[i], LeaveTold(c))

AddWork(c, id) ==
  \/ \E i : TakesSeat(c, i)
  \/ UNCHANGED activeGames /\ SentOne(<<c>>, RefusalTold)
  \/ id \notin 0 .. Len(activeGames) /\ UNCHANGED <<activeGames, fault, toClient>>

ChatWork(c) ==
  /\ UNCHANGED activeGames
  /\ \/ FindGameId(c) = Nowhere /\ fault' = "no_room" /\ UNCHANGED toClient
     \/ /\ FindGameId(c) # Nowhere
        /\ SentOne(Others(c, activeGames[FindGameId(c)]), ChatTold(c))

LeaveWork(c) ==
  \/ FindGameId(c) = Nowhere /\ fault' = "no_room" /\ UNCHANGED <<activeGames, toClient>>
  \/ FindGameId(c) # Nowhere /\ LeavesSeat(c, FindGameId(c))

ClosedWork(c) ==
  \/ c \notin sessions /\ fault' = "not_registered" /\ UNCHANGED <<activeGames, toClient>>
  \/ FindGameId(c) = Nowhere /\ UNCHANGED <<activeGames, fault, toClient>>
  \/ FindGameId(c) # Nowhere /\ LeavesSeat(c, FindGameId(c))

Work(c, msg) ==
  \/ msg.action = "add" /\ UNCHANGED sessions /\ AddWork(c, msg.id)
  \/ msg.action = "show" /\ UNCHANGED <<activeGames, sessions>> /\ SentOne(<<c>>, RoomsTold)
  \/ msg.action = "chat" /\ UNCHANGED sessions /\ ChatWork(c)
  \/ msg.action = "leave" /\ UNCHANGED sessions /\ LeaveWork(c)
  \/ msg.action = "closed" /\ sessions' = sessions \ {c} /\ ClosedWork(c)

\* A room for a new game is an empty one or a new one at the end.
LEMMA CreateWork ==
  ASSUME BooksTyped, NEW c \in Clients, HandleCreate(c)
  PROVE  UNCHANGED sessions /\ \E i : TakesSeat(c, i)
<1>1. /\ sessions' = sessions
      /\ SentTwo(Others(c, <<c>>), NewPlayerTold(c), <<c>>, SeatsTold(<<c>>))
  BY HandlersSend DEF HandleCreate
<1>2. Append(<< >>, c) = <<c>> /\ Len(<< >>) = 0
  OBVIOUS
<1>3. CASE UseEmptyRoom(c)
  <2>1. PICK i \in DOMAIN activeGames :
          /\ activeGames[i] = << >>
          /\ activeGames' = [activeGames EXCEPT ![i] = <<c>>]
    BY <1>3 DEF UseEmptyRoom
  <2>2. Old(i) = << >> /\ activeGames'[i] = <<c>>
    BY <2>1 DEF Old
  <2>3. /\ DOMAIN activeGames' = DOMAIN activeGames \cup {i}
        /\ \A j \in DOMAIN activeGames : j # i => activeGames'[j] = activeGames[j]
    BY <2>1
  <2>4. activeGames'[i] = Append(Old(i), c) /\ Len(Old(i)) < MAX_PLAYERS
    BY <1>2, <2>2 DEF MAX_PLAYERS
  <2>5. TakesSeat(c, i)
    BY <1>1, <2>2, <2>3, <2>4 DEF TakesSeat, MadeAt
  <2> QED  BY <1>1, <2>5
<1>4. CASE CreateNewRoom(c)
  <2> DEFINE n == Len(activeGames)
             r == <<c>>
  <2>1. activeGames' = Append(activeGames, r) /\ n \in Nat /\ DOMAIN activeGames = 1 .. n
    BY <1>4, Typed DEF CreateNewRoom
  <2>2. r \in Seq(Clients) /\ activeGames \in Seq(Seq(Clients))
    BY DEF BooksTyped
  <2> HIDE DEF r
  <2>3. /\ Append(activeGames, r) \in Seq(Seq(Clients))
        /\ Len(Append(activeGames, r)) = n + 1
        /\ \A i \in 1 .. n : Append(activeGames, r)[i] = activeGames[i]
        /\ Append(activeGames, r)[n + 1] = r
    BY <2>2, AppendProperties
  <2>4. DOMAIN activeGames' = 1 .. n + 1
    BY <2>1, <2>3, LenProperties
  <2>5. 1 .. n + 1 = (1 .. n) \cup {n + 1} /\ n + 1 \notin 1 .. n
    BY <2>1
  <2> DEFINE i == n + 1
  <2> HIDE DEF n, i
  <2>6. Old(i) = << >> /\ activeGames'[i] = <<c>>
    BY <2>1, <2>3, <2>5 DEF Old, i, r
  <2>7. /\ DOMAIN activeGames' = DOMAIN activeGames \cup {i}
        /\ \A j \in DOMAIN activeGames : j # i => activeGames'[j] = activeGames[j]
    BY <2>1, <2>3, <2>4, <2>5 DEF i
  <2>8. activeGames'[i] = Append(Old(i), c) /\ Len(Old(i)) < MAX_PLAYERS
    BY <1>2, <2>6 DEF MAX_PLAYERS
  <2>9. MadeAt(i)
    BY <1>4 DEF MadeAt, CreateNewRoom, i, n
  <2>10. TakesSeat(c, i)
    BY <1>1, <2>6, <2>7, <2>8, <2>9 DEF TakesSeat
  <2> QED  BY <1>1, <2>10
<1> QED  BY <1>3, <1>4 DEF HandleCreate

\* Every message has one of these effects.
LEMMA DisconnectWork ==
  ASSUME BooksTyped, NEW c, Disconnect(c)
  PROVE  sessions' = sessions \ {c} /\ ClosedWork(c)
<1>1. sessions' = sessions \ {c}
  BY DEF Disconnect
<1>2. CASE FindGameId(c) # Nowhere /\ FreeSeat(c, FindGameId(c))
  <2>1. LeavesSeat(c, FindGameId(c))
    BY <1>2, FoundRoom, HandlersSend DEF FreeSeat, LeavesSeat
  <2> QED  BY <1>1, <1>2, <2>1 DEF ClosedWork
<1> QED  BY <1>1, <1>2 DEF Disconnect, ClosedWork

LEMMA WorkCases ==
  ASSUME BooksTyped, NEW c \in Clients, DoWork(c)
  PROVE  Work(c, Head(toServer[c]))
<1> DEFINE msg == Head(toServer[c])
<1>1. \/ msg.action = "add" /\ msg.id = NewRoom /\ HandleCreate(c)
      \/ msg.action = "add" /\ msg.id # NewRoom /\ HandleAdd(c, msg.id)
      \/ msg.action = "show" /\ HandleShow(c)
      \/ msg.action = "chat" /\ HandleChat(c)
      \/ msg.action = "leave" /\ HandleLeave(c)
      \/ msg.action = "closed" /\ Disconnect(c)
  BY DEF DoWork
<1> SUFFICES Work(c, msg)
  OBVIOUS
<1> HIDE DEF msg
<1>2. CASE msg.action = "add" /\ HandleCreate(c)
  BY <1>2, CreateWork DEF Work, AddWork
<1>3. CASE msg.action = "add" /\ msg.id # NewRoom /\ HandleAdd(c, msg.id)
  <2> DEFINE i == msg.id
  <2> HIDE DEF i
  <2>1. CASE i \in DOMAIN activeGames /\ Seat(c, i)
    <3>1. /\ Len(activeGames[i]) < MAX_PLAYERS /\ sessions' = sessions
          /\ activeGames' = [activeGames EXCEPT ![i] = Append(activeGames[i], c)]
          /\ Interpret(Accepted(c, activeGames'[i]))
      BY <2>1 DEF Seat
    <3>2. SentTwo(Others(c, activeGames'[i]), NewPlayerTold(c), <<c>>, SeatsTold(activeGames'[i]))
      BY <3>1, HandlersSend
    <3>3. TakesSeat(c, i)
      BY <2>1, <3>1, <3>2 DEF TakesSeat, MadeAt, Old
    <3> QED  BY <1>3, <3>1, <3>3 DEF Work, AddWork
  <2>2. CASE i \in DOMAIN activeGames /\ Refuse(c, i)
    BY <1>3, <2>2, HandlersSend DEF Refuse, Work, AddWork
  <2>3. CASE i \notin DOMAIN activeGames /\ UNCHANGED <<activeGames, sessions, fault, toClient>>
    <3>1. i \notin 0 .. Len(activeGames)
      BY <1>3, <2>3, Typed DEF i, NewRoom
    <3> QED  BY <1>3, <2>3, <3>1 DEF Work, AddWork, i
  <2> QED  BY <1>3, <2>1, <2>2, <2>3 DEF HandleAdd, i
<1>4. CASE msg.action = "show" /\ HandleShow(c)
  BY <1>4, HandlersSend DEF HandleShow, Work
<1>5. CASE msg.action = "chat" /\ HandleChat(c)
  <2>1. CASE NoRoom(c)
    BY <1>5, <2>1 DEF NoRoom, Work, ChatWork
  <2>2. CASE ~ NoRoom(c)
    BY <1>5, <2>2, HandlersSend DEF HandleChat, Work, ChatWork
  <2> QED  BY <2>1, <2>2
<1>6. CASE msg.action = "leave" /\ HandleLeave(c)
  <2>1. CASE NoRoom(c)
    BY <1>6, <2>1 DEF NoRoom, Work, LeaveWork
  <2>2. CASE ~ NoRoom(c)
    <3>1. /\ FindGameId(c) # Nowhere /\ UNCHANGED sessions /\ FreeSeat(c, FindGameId(c))
      BY <1>6, <2>2 DEF HandleLeave
    <3>2. LeavesSeat(c, FindGameId(c))
      BY <3>1, FoundRoom, HandlersSend DEF FreeSeat, LeavesSeat
    <3> QED  BY <1>6, <3>1, <3>2 DEF Work, LeaveWork
  <2> QED  BY <2>1, <2>2
<1>7. CASE msg.action = "closed" /\ Disconnect(c)
  BY <1>7, DisconnectWork DEF Work
<1> QED  BY <1>1, <1>2, <1>3, <1>4, <1>5, <1>6, <1>7

\* Taking an element out of a sequence shortens it by one if it was there.
LEMMA RemoveFirstLen ==
  ASSUME NEW S, NEW s \in Seq(S), NEW e
  PROVE  Len(RemoveFirst(s, e)) = IF Contains(s, e) THEN Len(s) - 1 ELSE Len(s)
<1> DEFINE I == {i \in 1 .. Len(s) : s[i] = e}
           k == SelectInSeq(s, LAMBDA v : v = e)
<1>1. CASE ~ Contains(s, e)
  BY <1>1 DEF RemoveFirst, Contains
<1>2. CASE Contains(s, e)
  <2>1. I # {} /\ I \subseteq Nat
    BY <1>2 DEF Contains
  <2>2. k = Min(I)
    BY <2>1 DEF SelectInSeq
  <2>3. k \in I
    BY <2>1, <2>2, Smallest DEF Min
  <2>4. RemoveFirst(s, e) = RemoveAt(s, k)
    BY <1>2 DEF RemoveFirst, Contains
  <2> HIDE DEF k
  <2> QED  BY <1>2, <2>3, <2>4, RemoveAtElements
<1> QED  BY <1>1, <1>2

\* The seats before the step, in a room that exists or is about to.
LEMMA OldTyped ==
  ASSUME BooksTyped, NEW i
  PROVE  Old(i) \in Seq(Clients) /\ Len(Old(i)) \in Nat
<1>1. Old(i) \in Seq(Clients)
  BY Typed, EmptySeq DEF Old
<1> QED  BY <1>1, LenProperties

\* A handler leaves no room with a fourth seat and sends only typed messages.
LEMMA WorkTyped ==
  ASSUME TypedInv, NEW c \in Clients, BooksStep(c), DOMAIN toClient' = Clients,
         link' = link, DOMAIN toServer' = Clients, NEW msg, Work(c, msg)
  PROVE  /\ RoomsFit' /\ fault' \in {"none", "no_session", "no_room", "not_registered"}
         /\ \A d \in Clients : toClient'[d] \in Seq(ToClientMessage')
<1> DEFINE M == ToClientMessage'
           Goal == /\ RoomsFit' /\ fault' \in {"none", "no_session", "no_room", "not_registered"}
                   /\ \A d \in Clients : toClient'[d] \in Seq(M)
<1> SUFFICES Goal
  OBVIOUS
<1>1. BooksTyped /\ BooksStep(c)
  BY DEF TypedInv, BooksInv
<1>2. BooksTyped'
  BY <1>1 DEF BooksTyped, BooksStep
<1>3. /\ Len(activeGames') \in Nat /\ DOMAIN activeGames' = 1 .. Len(activeGames')
      /\ DOMAIN activeGames \subseteq DOMAIN activeGames' /\ ToClientMessage \subseteq M
      /\ \A i \in DOMAIN activeGames' : activeGames'[i] \in Seq(Clients)
  <2>1. Len(activeGames') \in Nat /\ DOMAIN activeGames' = 1 .. Len(activeGames')
    BY <1>2, LenProperties DEF BooksTyped
  <2>2. \A i \in DOMAIN activeGames' : activeGames'[i] \in Seq(Clients)
    BY <2>1, <1>2, ElementOfSeq DEF BooksTyped
  <2> QED  BY <2>1, <2>2, <1>1, MessagesLast DEF BooksStep
<1>4. \A d \in Clients : toClient[d] \in Seq(M)
  <2> SUFFICES ASSUME NEW d \in Clients
               PROVE  toClient[d] \in Seq(M)
    OBVIOUS
  <2>1. toClient[d] \in Seq(ToClientMessage)
    BY DEF TypedInv, QueuesTyped
  <2> HIDE DEF M
  <2> QED  BY <1>3, <2>1, SeqMonotonic
<1>5. /\ [action |-> "chat", player |-> c] \in M
      /\ NewPlayerTold(c) \in M /\ LeaveTold(c) \in M /\ RefusalTold \in M
      /\ RoomsTold \in M /\ ChatTold(c) \in M
      /\ \A s \in Seq(Clients) : Len(s) =< MAX_PLAYERS => SeatsTold(s) \in M
  <2>1. RoomsTold \in M
    BY <1>3 DEF RoomsTold, ToClientMessage
  <2>2. NewPlayerTold(c) \in M /\ LeaveTold(c) \in M /\ RefusalTold \in M /\ ChatTold(c) \in M
    BY DEF NewPlayerTold, LeaveTold, RefusalTold, ChatTold, ToClientMessage
  <2>3. \A s \in Seq(Clients) : Len(s) =< MAX_PLAYERS => SeatsTold(s) \in M
    BY DEF SeatsTold, SeatsAnswer, ToClientMessage
  <2> QED  BY <2>1, <2>2, <2>3 DEF ChatTold
<1>6. /\ \A d, s : s \in Seq(Clients) =>
           /\ Occurrences(d, s) \in Nat /\ Occurrences(d, Others(c, s)) \in Nat
      /\ \A d : Occurrences(d, <<c>>) \in Nat
  BY PlacesFinite, OthersAre, OccurrencesOne
<1> HIDE DEF M
<1>7. RoomsFit /\ fault \in {"none", "no_session", "no_room", "not_registered"}
  BY DEF TypedInv, ServerTyped
<1>8. UNCHANGED activeGames => RoomsFit'
  BY <1>7 DEF RoomsFit
<1>9. ASSUME NEW A, NEW m, SentOne(A, m), m \in M, \A d : Occurrences(d, A) \in Nat
      PROVE  /\ fault' \in {"none", "no_session", "no_room", "not_registered"}
             /\ \A d \in Clients : toClient'[d] \in Seq(M)
  BY <1>4, <1>7, <1>9, DeliverTyped
<1>10. ASSUME NEW i, TakesSeat(c, i)
       PROVE  Goal
  <2> DEFINE t == activeGames'[i]
  <2>1. /\ Len(Old(i)) < MAX_PLAYERS /\ t = Append(Old(i), c)
        /\ DOMAIN activeGames' = DOMAIN activeGames \cup {i}
        /\ \A j \in DOMAIN activeGames : j # i => activeGames'[j] = activeGames[j]
        /\ SentTwo(Others(c, t), NewPlayerTold(c), <<c>>, SeatsTold(t))
    BY <1>10 DEF TakesSeat
  <2>2. t \in Seq(Clients) /\ Len(t) =< MAX_PLAYERS
    BY <1>1, <2>1, OldTyped DEF MAX_PLAYERS
  <2>3. RoomsFit'
    BY <1>7, <2>1, <2>2 DEF RoomsFit
  <2> DEFINE A == Others(c, t)
             B == <<c>>
             n == SeatsTold(t)
  <2>4. /\ fault' \in {fault, "no_session"}
        /\ \A d \in Clients : toClient'[d] \in Seq(M)
    <3>1. SentTwo(A, NewPlayerTold(c), B, n) /\ n \in M
      BY <1>5, <2>1, <2>2
    <3>2. \A d \in Clients : Occurrences(d, A) \in Nat /\ Occurrences(d, B) \in Nat
      BY <1>6, <2>2
    <3> HIDE DEF A, B, n, t
    <3> QED  BY <1>4, <1>5, <3>1, <3>2, DeliverTyped
  <2> QED  BY <1>7, <2>3, <2>4
<1>11. ASSUME NEW i, LeavesSeat(c, i)
       PROVE  Goal
  <2> DEFINE t == activeGames'[i]
  <2>1. /\ i \in DOMAIN activeGames
        /\ activeGames' = [activeGames EXCEPT ![i] = RemoveFirst(activeGames[i], c)]
        /\ SentOne(t, LeaveTold(c))
    BY <1>11 DEF LeavesSeat
  <2>2. t \in Seq(Clients) /\ t = RemoveFirst(activeGames[i], c)
    BY <1>3, <2>1
  <2>3. Len(t) =< Len(activeGames[i])
    BY <1>1, <2>1, <2>2, Typed, RemoveFirstLen
  <2>4. RoomsFit'
    BY <1>1, <1>7, <2>1, <2>2, <2>3, Typed, LenProperties DEF RoomsFit, MAX_PLAYERS
  <2> HIDE DEF t
  <2> QED  BY <1>5, <1>6, <1>9, <2>1, <2>2, <2>4
<1>12. Work(c, msg)
  OBVIOUS
<1>13. ASSUME NEW id, AddWork(c, id)
       PROVE  Goal
  BY <1>4, <1>5, <1>6, <1>7, <1>8, <1>9, <1>10, <1>13 DEF AddWork
<1>14. CASE UNCHANGED activeGames /\ SentOne(<<c>>, RoomsTold)
  BY <1>5, <1>6, <1>8, <1>9, <1>14
<1>15. CASE ChatWork(c)
  <2>1. FindGameId(c) # Nowhere =>
           \A d : Occurrences(d, Others(c, activeGames[FindGameId(c)])) \in Nat
    BY <1>1, <1>6, FoundRoom, Typed
  <2> QED  BY <1>4, <1>5, <1>8, <1>9, <1>15, <2>1 DEF ChatWork
<1>16. CASE LeaveWork(c)
  BY <1>4, <1>8, <1>11, <1>16 DEF LeaveWork
<1>17. CASE ClosedWork(c)
  BY <1>4, <1>7, <1>8, <1>11, <1>17 DEF ClosedWork
<1> QED  BY <1>12, <1>13, <1>14, <1>15, <1>16, <1>17 DEF Work

\* Sending keeps the queue typed and within its bound.
LEMMA SendTyped ==
  ASSUME TypedInv, NEW c \in Clients, NEW msgs \in Seq(ToServerMessage), Send(c, msgs)
  PROVE  /\ DOMAIN toServer' = Clients /\ \A d \in Clients : d # c => toServer'[d] = toServer[d]
         /\ toServer'[c] = toServer[c] \o msgs
         /\ toServer'[c] \in Seq(ToServerMessage) /\ Len(toServer'[c]) =< Capacity
         /\ Len(toServer'[c]) \in Nat
<1>1. toServer[c] \in Seq(ToServerMessage) /\ DOMAIN toServer = Clients
  BY DEF TypedInv, QueuesTyped, BooksInv, BooksTyped
<1>2. /\ Len(toServer[c]) + Len(msgs) =< Capacity
      /\ toServer' = [toServer EXCEPT ![c] = toServer[c] \o msgs]
  BY DEF Send
<1>3. /\ toServer[c] \o msgs \in Seq(ToServerMessage)
      /\ Len(toServer[c] \o msgs) = Len(toServer[c]) + Len(msgs)
  BY <1>1, ConcatProperties
<1> QED  BY <1>1, <1>2, <1>3, LenProperties

\* A step that changes the queues of one client only.
LEMMA QueuesStayTyped ==
  ASSUME TypedInv, NEW c \in Clients, UNCHANGED activeGames,
         \A d \in Clients : d # c => /\ toServer'[d] = toServer[d] /\ toClient'[d] = toClient[d]
                                     /\ link'[d] = link[d],
         toServer'[c] \in Seq(ToServerMessage), toClient'[c] \in Seq(ToClientMessage),
         Len(toServer'[c]) =< IF link'[c] = "closed" THEN Capacity + 1 ELSE Capacity
  PROVE  QueuesTyped'
<1>1. ToServerMessage' = ToServerMessage /\ ToClientMessage' = ToClientMessage
  BY DEF ToServerMessage, ToClientMessage
<1> DEFINE S == ToServerMessage
           T == ToClientMessage
           S1 == ToServerMessage'
           T1 == ToClientMessage'
<1>2. S1 = S /\ T1 = T
  BY <1>1
<1>3. \A d \in Clients :
        /\ toServer[d] \in Seq(S)
        /\ Len(toServer[d]) =< IF link[d] = "closed" THEN Capacity + 1 ELSE Capacity
        /\ toClient[d] \in Seq(T)
  BY DEF TypedInv, QueuesTyped
<1>4. toServer'[c] \in Seq(S) /\ toClient'[c] \in Seq(T)
  OBVIOUS
<1> SUFFICES \A d \in Clients :
        /\ toServer'[d] \in Seq(S1)
        /\ Len(toServer'[d]) =< IF link'[d] = "closed" THEN Capacity + 1 ELSE Capacity
        /\ toClient'[d] \in Seq(T1)
  BY DEF QueuesTyped
<1> HIDE DEF S, T, S1, T1
<1> QED  BY <1>2, <1>3, <1>4

\* The messages a client sends, and the short sequences of them.
LEMMA ServerMessages ==
  /\ [action |-> "show"] \in ToServerMessage /\ [action |-> "chat"] \in ToServerMessage
  /\ [action |-> "leave"] \in ToServerMessage /\ [action |-> "closed"] \in ToServerMessage
  /\ \A id \in 0 .. Len(activeGames) : [action |-> "add", id |-> id] \in ToServerMessage
  BY DEF ToServerMessage

LEMMA ShortSeq ==
  ASSUME NEW S
  PROVE  (\A m \in S : <<m>> \in Seq(S)) /\ (\A m, n \in S : <<m, n>> \in Seq(S))
  OBVIOUS

LEMMA ServerMessageSeqs ==
  /\ <<[action |-> "show"]>> \in Seq(ToServerMessage)
  /\ <<[action |-> "chat"]>> \in Seq(ToServerMessage)
  /\ <<[action |-> "leave"], [action |-> "show"]>> \in Seq(ToServerMessage)
  /\ \A id \in 0 .. Len(activeGames) : <<[action |-> "add", id |-> id]>> \in Seq(ToServerMessage)
<1> DEFINE add(id) == [action |-> "add", id |-> id]
           show == [action |-> "show"]
           chat == [action |-> "chat"]
           leave == [action |-> "leave"]
           S == ToServerMessage
<1>1. show \in S /\ chat \in S /\ leave \in S /\ \A id \in 0 .. Len(activeGames) : add(id) \in S
  BY ServerMessages
<1> SUFFICES /\ <<show>> \in Seq(S) /\ <<chat>> \in Seq(S) /\ <<leave, show>> \in Seq(S)
             /\ \A id \in 0 .. Len(activeGames) : <<add(id)>> \in Seq(S)
  OBVIOUS
<1> HIDE DEF add, show, chat, leave, S
<1> QED  BY <1>1, ShortSeq

\* Each action keeps the types.
LEMMA UserTyped ==
  ASSUME TypedInv, NEW c \in Clients, User(c)
  PROVE  ServerTyped' /\ QueuesTyped' /\ ClientTyped'
<1>1. /\ link[c] = "open" /\ UNCHANGED <<serverVars, link, writing>>
      /\ RequestRoom(c) \/ RequestRefresh(c) \/ SendMessage(c) \/ LeaveRoom(c)
  BY DEF User
<1>2. UNCHANGED <<activeGames, fault>> /\ ServerTyped'
  BY <1>1 DEF serverVars, TypedInv, ServerTyped, RoomsFit
<1>3. \E msgs \in Seq(ToServerMessage) : Send(c, msgs)
  <2>1. CASE RequestRoom(c)
    <3>1. PICK id \in roomList[c] \cup {NewRoom} : Send(c, <<[action |-> "add", id |-> id]>>)
      BY <2>1 DEF RequestRoom
    <3>2. id \in 0 .. Len(activeGames)
      BY <3>1, Typed DEF TypedInv, BooksInv, ClientTyped, NewRoom
    <3>3. <<[action |-> "add", id |-> id]>> \in Seq(ToServerMessage)
      BY <3>2, ServerMessageSeqs
    <3> QED  BY <3>1, <3>3
  <2>2. CASE RequestRefresh(c)
    BY <2>2, ServerMessageSeqs DEF RequestRefresh
  <2>3. CASE SendMessage(c)
    BY <2>3, ServerMessageSeqs DEF SendMessage
  <2>4. CASE LeaveRoom(c)
    <3>1. Send(c, <<[action |-> "leave"], [action |-> "show"]>>)
      BY <2>4 DEF LeaveRoom
    <3> QED  BY <3>1, ServerMessageSeqs
  <2> QED  BY <1>1, <2>1, <2>2, <2>3, <2>4
<1>4. UNCHANGED toClient
  BY <1>1 DEF RequestRoom, RequestRefresh, SendMessage, LeaveRoom
<1>5. toClient'[c] \in Seq(ToClientMessage)
  BY <1>4 DEF TypedInv, QueuesTyped
<1>6. QueuesTyped'
  <2>1. /\ \A d \in Clients : d # c => toServer'[d] = toServer[d]
        /\ toServer'[c] \in Seq(ToServerMessage) /\ Len(toServer'[c]) =< Capacity
    BY <1>3, SendTyped
  <2>2. link'[c] = "open" /\ UNCHANGED link
    BY <1>1
  <2> QED  BY <1>2, <1>4, <1>5, <2>1, <2>2, QueuesStayTyped
<1>7. ClientTyped'
  <2>1. ClientTyped
    BY DEF TypedInv
  <2>2. CASE RequestRoom(c)
    BY <1>2, <2>1, <2>2 DEF RequestRoom, ClientTyped, clientVars
  <2>3. CASE RequestRefresh(c) \/ SendMessage(c)
    BY <1>2, <2>1, <2>3 DEF RequestRefresh, SendMessage, ClientTyped, clientVars
  <2>4. CASE LeaveRoom(c)
    BY <1>2, <2>1, <2>4 DEF LeaveRoom, ChangeScene, ClientTyped
  <2> QED  BY <1>1, <2>2, <2>3, <2>4
<1> QED  BY <1>2, <1>6, <1>7

LEMMA ReceiveTyped ==
  ASSUME TypedInv, NEW c \in Clients, Receive(c)
  PROVE  ServerTyped' /\ QueuesTyped' /\ ClientTyped'
<1> DEFINE msg == Head(toClient[c])
<1>1. /\ toClient[c] # << >> /\ toClient' = [toClient EXCEPT ![c] = Tail(@)]
      /\ UNCHANGED <<serverVars, link, writing>>
      /\ \/ msg.action = "add" /\ ReceiveAdd(c, msg)
         \/ msg.action = "show" /\ ReceiveShow(c, msg)
         \/ msg.action = "new_player" /\ ReceiveNewPlayer(c, msg)
         \/ msg.action = "leave" /\ ReceiveLeave(c, msg)
         \/ msg.action \in {"welcome", "chat"} /\ UNCHANGED <<clientVars, toServer, waiting>>
  BY DEF Receive
<1>2. /\ DOMAIN toServer = Clients /\ DOMAIN toClient = Clients
      /\ toServer[c] \in Seq(ToServerMessage) /\ toClient[c] \in Seq(ToClientMessage)
      /\ Len(toServer[c]) =< IF link[c] = "closed" THEN Capacity + 1 ELSE Capacity
  BY DEF TypedInv, BooksInv, BooksTyped, QueuesTyped
<1>3. msg \in ToClientMessage /\ Tail(toClient[c]) \in Seq(ToClientMessage)
  BY <1>1, <1>2, HeadTailProperties
<1>4. UNCHANGED <<activeGames, fault>> /\ ServerTyped'
  BY <1>1 DEF serverVars, TypedInv, ServerTyped, RoomsFit
<1> HIDE DEF msg
<1>5. /\ msg.action = "add" => \/ msg \in SeatsAnswer
                               \/ msg.error
      /\ msg.action = "show" => msg.data \in SUBSET (DOMAIN activeGames)
      /\ msg.action \in {"new_player", "leave"} => msg.data \in Clients
  BY <1>3 DEF ToClientMessage, SeatsAnswer
<1>6. \/ UNCHANGED toServer
      \/ Send(c, <<[action |-> "show"]>>)
  BY <1>1 DEF ReceiveAdd, ReceiveShow, ReceiveNewPlayer, ReceiveLeave
<1>7. /\ \A d \in Clients : d # c => toServer'[d] = toServer[d]
      /\ toServer'[c] \in Seq(ToServerMessage)
      /\ Len(toServer'[c]) =< IF link[c] = "closed" THEN Capacity + 1 ELSE Capacity
  <2>1. CASE UNCHANGED toServer
    BY <2>1, <1>2
  <2>2. CASE Send(c, <<[action |-> "show"]>>)
    <3>1. /\ \A d \in Clients : d # c => toServer'[d] = toServer[d]
          /\ toServer'[c] \in Seq(ToServerMessage)
          /\ Len(toServer'[c]) \in Nat /\ Len(toServer'[c]) =< Capacity
      BY <2>2, ServerMessageSeqs, SendTyped
    <3>2. Capacity \in Nat
      BY BoundsAssumption
    <3> QED  BY <3>1, <3>2
  <2> QED  BY <1>6, <2>1, <2>2
<1>8. QueuesTyped'
  BY <1>1, <1>2, <1>3, <1>4, <1>7, QueuesStayTyped
<1> SUFFICES ClientTyped'
  BY <1>4, <1>8
<1>9. ClientTyped
  BY DEF TypedInv
<1>10. CASE ReceiveAdd(c, msg) /\ msg.action = "add"
  <2>1. CASE msg.error
    BY <1>4, <1>9, <1>10, <2>1 DEF ReceiveAdd, clientVars, ClientTyped
  <2>2. CASE ~ msg.error
    <3>0. msg \in SeatsAnswer
      BY <1>5, <1>10, <2>2
    <3> DEFINE s == msg.data
    <3>1. s \in Seq(Clients) /\ Len(s) =< MAX_PLAYERS
      BY <3>0 DEF SeatsAnswer
    <3>2. /\ game' = [game EXCEPT ![c] = s] /\ index' = [index EXCEPT ![c] = Len(s)]
          /\ waiting' = [waiting EXCEPT ![c] = @ - 1] /\ ChangeScene(c) /\ UNCHANGED roomList
      BY <1>10, <2>2 DEF ReceiveAdd
    <3> HIDE DEF s
    <3>n. Len(s) \in Nat
      BY <3>1, LenProperties
    <3>3. Len(s) \in 0 .. MAX_PLAYERS
      <4> DEFINE n == Len(s)
      <4>1. n \in Nat /\ n =< 3
        BY <3>1, <3>n DEF MAX_PLAYERS
      <4> HIDE DEF n
      <4>2. n \in 0 .. 3
        BY <4>1
      <4> QED  BY <4>2 DEF MAX_PLAYERS, n
    <3> QED  BY <1>4, <1>9, <3>1, <3>2, <3>3 DEF ChangeScene, ClientTyped
  <2> QED  BY <2>1, <2>2
<1>11. CASE ReceiveShow(c, msg) /\ msg.action = "show"
  BY <1>4, <1>5, <1>9, <1>11 DEF ReceiveShow, ClientTyped
<1>12. CASE ReceiveNewPlayer(c, msg) /\ msg.action = "new_player"
  <2>1. game[c] \in Seq(Clients) \cup {NoGame} /\ msg.data \in Clients
    BY <1>5, <1>9, <1>12 DEF ClientTyped
  <2>2. NewPlayer(game[c], msg.data) \in Seq(Clients) \cup {NoGame}
    BY <2>1 DEF NewPlayer
  <2> QED  BY <1>4, <1>9, <1>12, <2>2 DEF ReceiveNewPlayer, ClientTyped
<1>13. CASE ReceiveLeave(c, msg) /\ msg.action = "leave"
  <2>1. game[c] \in Seq(Clients) \cup {NoGame}
    BY <1>9 DEF ClientTyped
  <2>2. PlayerLeft(game[c], msg.data) \in Seq(Clients) \cup {NoGame}
    BY <2>1, OccurrencesRemoveFirst DEF PlayerLeft
  <2>3. IndexAfterLeave(c, game'[c]) \in 0 .. MAX_PLAYERS
    BY DEF IndexAfterLeave, MAX_PLAYERS
  <2> QED  BY <1>4, <1>9, <1>13, <2>2, <2>3 DEF ReceiveLeave, ClientTyped
<1>14. CASE UNCHANGED <<clientVars, toServer, waiting>>
  BY <1>4, <1>9, <1>14 DEF clientVars, ClientTyped
<1> QED  BY <1>1, <1>4, <1>8, <1>10, <1>11, <1>12, <1>13, <1>14

LEMMA ConnectTyped ==
  ASSUME TypedInv, NEW c \in Clients, Connect(c)
  PROVE  ServerTyped' /\ QueuesTyped' /\ ClientTyped'
<1>1. /\ link[c] = "new" /\ link' = [link EXCEPT ![c] = "open"]
      /\ toClient' = [toClient EXCEPT ![c] = <<[action |-> "welcome"]>>]
      /\ Send(c, <<[action |-> "show"]>>)
      /\ UNCHANGED <<activeGames, fault, writing, broken, scene, roomList, game, index, waiting>>
  BY DEF Connect, clientVars, userVars
<1>2. ServerTyped' /\ ClientTyped'
  BY <1>1 DEF TypedInv, ServerTyped, RoomsFit, ClientTyped
<1>3. <<[action |-> "welcome"]>> \in Seq(ToClientMessage)
  <2> DEFINE m == [action |-> "welcome"]
  <2>1. m \in ToClientMessage
    BY DEF ToClientMessage
  <2> HIDE DEF m
  <2>2. <<m>> \in Seq(ToClientMessage)
    BY <2>1, ShortSeq
  <2> QED  BY <2>2 DEF m
<1>4. /\ \A d \in Clients : d # c => /\ toServer'[d] = toServer[d] /\ toClient'[d] = toClient[d]
                                    /\ link'[d] = link[d]
      /\ toServer'[c] \in Seq(ToServerMessage) /\ Len(toServer'[c]) =< Capacity
      /\ link'[c] = "open"
      /\ toClient'[c] \in Seq(ToClientMessage)
  <2>1. /\ \A d \in Clients : d # c => toServer'[d] = toServer[d]
        /\ toServer'[c] \in Seq(ToServerMessage) /\ Len(toServer'[c]) =< Capacity
    BY <1>1, ServerMessageSeqs, SendTyped
  <2>2. /\ \A d \in Clients : d # c => link'[d] = link[d] /\ toClient'[d] = toClient[d]
        /\ link'[c] = "open" /\ toClient'[c] \in Seq(ToClientMessage)
    BY <1>1, <1>3 DEF TypedInv, BooksInv, BooksTyped
  <2> QED  BY <2>1, <2>2
<1> QED  BY <1>1, <1>2, <1>4, QueuesStayTyped

LEMMA CloseTyped ==
  ASSUME TypedInv, NEW c \in Clients, Close(c)
  PROVE  ServerTyped' /\ QueuesTyped' /\ ClientTyped'
<1>1. /\ link[c] = "open" /\ link' = [link EXCEPT ![c] = "closed"]
      /\ toClient' = [toClient EXCEPT ![c] = << >>]
      /\ UNCHANGED serverVars
  BY DEF Close
<1>2. PICK k \in 0 .. Len(toServer[c]) :
        toServer' = [toServer EXCEPT ![c] = Append(SubSeq(@, 1, k), [action |-> "closed"])]
  BY DEF Close
<1>3. UNCHANGED <<activeGames, fault>>
  BY <1>1 DEF serverVars
<1>4. ServerTyped'
  <2>1. writing' \in {writing, writing \cup {c}} /\ broken' = broken
    BY DEF Close, serverVars
  <2> QED  BY <1>1, <1>3, <2>1 DEF TypedInv, ServerTyped, RoomsFit
<1>5. ClientTyped'
  <2>1. << >> \in Seq(Clients) /\ 0 \in 0 .. MAX_PLAYERS
    BY DEF MAX_PLAYERS
  <2>2. /\ scene' = [scene EXCEPT ![c] = "lobby"] /\ roomList' = [roomList EXCEPT ![c] = {}]
        /\ game' = [game EXCEPT ![c] = NoGame] /\ index' = [index EXCEPT ![c] = 0]
        /\ waiting' = [waiting EXCEPT ![c] = 0]
    BY DEF Close
  <2> QED  BY <1>3, <2>1, <2>2 DEF TypedInv, ClientTyped
<1>6. /\ DOMAIN toServer = Clients /\ DOMAIN toClient = Clients /\ DOMAIN link = Clients
      /\ toServer[c] \in Seq(ToServerMessage) /\ Len(toServer[c]) =< Capacity
  BY <1>1 DEF TypedInv, QueuesTyped, BooksInv, BooksTyped
<1>7. /\ toServer'[c] \in Seq(ToServerMessage)
      /\ Len(toServer'[c]) =< Capacity + 1
  <2> DEFINE q == toServer[c]
             closed == [action |-> "closed"]
             S == ToServerMessage
  <2>1. q \in Seq(S) /\ closed \in S /\ Len(q) \in Nat /\ Len(q) =< Capacity
    BY <1>6, ServerMessages, LenProperties
  <2>2. toServer'[c] = Append(SubSeq(q, 1, k), closed)
    BY <1>2, <1>6
  <2> HIDE DEF q, closed, S
  <2>3. SubSeq(q, 1, k) \in Seq(S) /\ Len(SubSeq(q, 1, k)) = k
    <3>1. k \in 0 .. Len(q)
      BY DEF q
    <3>2. \A i \in 1 .. k : q[i] \in S
      BY <2>1, <3>1, ElementOfSeq
    <3> QED  BY <2>1, <3>1, <3>2, SubSeqProperties
  <2>4. /\ Append(SubSeq(q, 1, k), closed) \in Seq(S)
        /\ Len(Append(SubSeq(q, 1, k), closed)) = k + 1
    BY <2>1, <2>3, AppendProperties
  <2>5. k \in Nat /\ k =< Len(q)
    BY <2>1 DEF q
  <2>6. k + 1 =< Capacity + 1
    BY <2>1, <2>5, BoundsAssumption
  <2> QED  BY <2>2, <2>4, <2>6 DEF S
<1>8. \A d \in Clients : d # c => /\ toServer'[d] = toServer[d] /\ toClient'[d] = toClient[d]
                                /\ link'[d] = link[d]
  BY <1>1, <1>2, <1>6
<1>9. link'[c] = "closed" /\ toClient'[c] = << >>
  BY <1>1, <1>6
<1>10. toClient'[c] \in Seq(ToClientMessage)
  BY <1>9
<1>11. QueuesTyped'
  BY <1>3, <1>7, <1>8, <1>9, <1>10, QueuesStayTyped
<1> QED  BY <1>4, <1>5, <1>11

\* A write to a client that has gone is noted, and a note of it stays.
LEMMA WritesNoted ==
  ASSUME writing \subseteq Clients, NEW c, NEW msg
  PROVE  /\ \A out : Interpret(out) => writing \subseteq writing' /\ writing' \subseteq Clients
         /\ Disconnect(c) => writing \subseteq writing' /\ writing' \subseteq Clients
         /\ DoWork(c) => writing \subseteq writing' /\ writing' \subseteq Clients
<1> DEFINE Noted == writing \subseteq writing' /\ writing' \subseteq Clients
<1>1. \A out : Interpret(out) => Noted
  BY DEF Interpret
<1>2. UNCHANGED writing => Noted
  OBVIOUS
<1> HIDE DEF Noted
<1>3. Disconnect(c) => Noted
  BY <1>1, <1>2 DEF Disconnect, FreeSeat
<1>4. /\ HandleCreate(c) => Noted
      /\ \A i : HandleAdd(c, i) => Noted
      /\ HandleShow(c) => Noted
      /\ HandleChat(c) => Noted
      /\ HandleLeave(c) => Noted
  BY <1>1, <1>2 DEF HandleCreate, HandleAdd, Seat, Refuse, HandleShow, HandleChat, HandleLeave,
                    NoRoom, FreeSeat
<1>5. DoWork(c) => Noted
  BY <1>3, <1>4 DEF DoWork
<1> QED  BY <1>1, <1>3, <1>5 DEF Noted

LEMMA DoWorkTyped ==
  ASSUME TypedInv, NEW c \in Clients, DoWork(c)
  PROVE  ServerTyped' /\ QueuesTyped' /\ ClientTyped'
<1>1. /\ toServer[c] # << >> /\ toServer' = [toServer EXCEPT ![c] = Tail(@)]
      /\ UNCHANGED <<link, scene, roomList, game, index, waiting>>
  BY DEF DoWork, clientVars, userVars
<1>2. /\ RoomsFit' /\ fault' \in {"none", "no_session", "no_room", "not_registered"}
      /\ \A d \in Clients : toClient'[d] \in Seq(ToClientMessage')
  <2>1. Work(c, Head(toServer[c])) /\ DOMAIN toServer = Clients
    BY WorkCases DEF TypedInv, BooksInv, BooksTyped
  <2>2. BooksStep(c) /\ link' = link /\ DOMAIN toClient' = Clients
    BY DoWorkStep DEF TypedInv
  <2> QED  BY <1>1, <2>1, <2>2, WorkTyped
<1>3. BooksTyped /\ BooksStep(c)
  BY DoWorkStep DEF TypedInv, BooksInv
<1>4. DOMAIN activeGames \subseteq DOMAIN activeGames' /\ ToServerMessage \subseteq ToServerMessage'
  <2>1. Len(activeGames') \in Nat /\ DOMAIN activeGames' = 1 .. Len(activeGames')
    BY <1>3, LenProperties DEF BooksStep
  <2> QED  BY <2>1, <1>3, MessagesLast DEF BooksStep
<1>5. ServerTyped'
  <2>1. broken' = broken /\ writing \subseteq writing' /\ writing' \subseteq Clients
    BY WritesNoted DEF DoWork, TypedInv, ServerTyped
  <2> QED  BY <1>1, <1>2, <2>1 DEF TypedInv, ServerTyped
<1>6. ClientTyped'
  BY <1>1, <1>4 DEF TypedInv, ClientTyped
<1>7. ASSUME NEW d \in Clients
      PROVE  /\ toServer'[d] \in Seq(ToServerMessage')
             /\ Len(toServer'[d]) =< IF link'[d] = "closed" THEN Capacity + 1 ELSE Capacity
  <2> DEFINE S == ToServerMessage
             T == ToServerMessage'
             q == toServer[d]
             cap == IF link[d] = "closed" THEN Capacity + 1 ELSE Capacity
  <2>1. q \in Seq(S) /\ Len(q) =< cap /\ S \subseteq T
    BY <1>4 DEF TypedInv, QueuesTyped
  <2>2. cap \in Nat
    BY BoundsAssumption
  <2>3. toServer'[d] = IF d = c THEN Tail(q) ELSE q
    BY <1>1, <1>3 DEF BooksTyped
  <2>4. d = c => q # << >>
    BY <1>1
  <2>5. link'[d] = link[d]
    BY <1>1
  <2> HIDE DEF S, T, q
  <2>6. Len(q) \in Nat /\ q \in Seq(T)
    BY <2>1, SeqMonotonic, LenProperties
  <2>7. d = c => Tail(q) \in Seq(T) /\ Len(Tail(q)) = Len(q) - 1
    BY <2>4, <2>6, HeadTailProperties
  <2>8. toServer'[d] \in Seq(T) /\ Len(toServer'[d]) =< cap
    <3> HIDE DEF cap
    <3> QED  BY <2>1, <2>2, <2>3, <2>6, <2>7
  <2> QED  BY <2>5, <2>8 DEF T
<1>8. QueuesTyped'
  BY <1>2, <1>7 DEF QueuesTyped
<1> QED  BY <1>5, <1>6, <1>8

LEMMA WriteFailsTyped ==
  ASSUME TypedInv, NEW c \in Clients, WriteFails(c)
  PROVE  ServerTyped' /\ QueuesTyped' /\ ClientTyped'
<1>1. /\ Disconnect(c) /\ c \in writing /\ broken' = broken \cup {c}
      /\ UNCHANGED <<link, toServer, scene, roomList, game, index, waiting>>
  BY DEF WriteFails, clientVars, userVars
<1> DEFINE msg == [action |-> "closed"]
<1>2. Work(c, msg)
  BY <1>1, DisconnectWork DEF Work, TypedInv, BooksInv
<1>3. BooksTyped /\ BooksStep(c) /\ DOMAIN toClient' = Clients
  BY <1>1, DisconnectStep, DisconnectSends DEF TypedInv, BooksInv
<1> HIDE DEF msg
<1>4. /\ RoomsFit' /\ fault' \in {"none", "no_session", "no_room", "not_registered"}
      /\ \A d \in Clients : toClient'[d] \in Seq(ToClientMessage')
  BY <1>1, <1>2, <1>3, WorkTyped DEF BooksTyped
<1>5. DOMAIN activeGames \subseteq DOMAIN activeGames' /\ ToServerMessage \subseteq ToServerMessage'
  <2>1. Len(activeGames') \in Nat /\ DOMAIN activeGames' = 1 .. Len(activeGames')
    BY <1>3, LenProperties DEF BooksStep
  <2> QED  BY <2>1, <1>3, MessagesLast DEF BooksStep
<1>6. ServerTyped'
  <2>1. writing \subseteq writing' /\ writing' \subseteq Clients
    BY <1>1, WritesNoted DEF TypedInv, ServerTyped
  <2> QED  BY <1>1, <1>4, <2>1 DEF TypedInv, ServerTyped
<1>7. ClientTyped'
  BY <1>1, <1>5 DEF TypedInv, ClientTyped
<1>8. ASSUME NEW d \in Clients
      PROVE  toServer'[d] \in Seq(ToServerMessage')
  <2> DEFINE S == ToServerMessage
             T == ToServerMessage'
             q == toServer[d]
  <2>1. q \in Seq(S) /\ S \subseteq T /\ toServer'[d] = q
    BY <1>1, <1>5 DEF TypedInv, QueuesTyped
  <2> HIDE DEF S, T, q
  <2>2. q \in Seq(T)
    BY <2>1, SeqMonotonic
  <2> QED  BY <2>1, <2>2 DEF T
<1>9. QueuesTyped'
  BY <1>1, <1>4, <1>8 DEF QueuesTyped, TypedInv
<1> QED  BY <1>6, <1>7, <1>9

\* The types hold at the start and are kept by every step.
LEMMA InitTyped == Init => TypedInv
<1> SUFFICES ASSUME Init PROVE TypedInv
  OBVIOUS
<1>1. << >> \in Seq(ToServerMessage) /\ << >> \in Seq(ToClientMessage) /\ Len(<< >>) = 0
  OBVIOUS
<1>2. QueuesTyped
  BY <1>1, BoundsAssumption DEF Init, QueuesTyped
<1>3. ServerTyped /\ ClientTyped
  BY DEF Init, ServerTyped, RoomsFit, ClientTyped, MAX_PLAYERS
<1> QED  BY <1>2, <1>3, InitBooks DEF TypedInv

LEMMA NextTyped == TypedInv /\ [Next]_vars => TypedInv'
<1> SUFFICES ASSUME TypedInv, [Next]_vars
             PROVE  TypedInv'
  OBVIOUS
<1>1. BooksInv'
  BY NextBooks DEF TypedInv
<1>2. CASE UNCHANGED vars
  <2>1. UNCHANGED <<activeGames, fault, link, writing, broken, toServer, toClient, scene,
                    roomList, game, index, waiting>>
    BY <1>2 DEF vars, serverVars, clientVars, userVars
  <2>2. ServerTyped' /\ ClientTyped'
    BY <2>1 DEF TypedInv, ServerTyped, RoomsFit, ClientTyped
  <2>3. QueuesTyped'
    BY <2>1 DEF TypedInv, QueuesTyped, ToServerMessage, ToClientMessage, SeatsAnswer
  <2> QED  BY <1>1, <2>2, <2>3 DEF TypedInv
<1>3. ASSUME NEW c \in Clients,
             Connect(c) \/ User(c) \/ Receive(c) \/ Close(c) \/ DoWork(c) \/ WriteFails(c)
      PROVE  TypedInv'
  BY <1>1, <1>3, ConnectTyped, UserTyped, ReceiveTyped, CloseTyped, DoWorkTyped, WriteFailsTyped
     DEF TypedInv
<1> QED  BY <1>2, <1>3 DEF Next

(***************************************************************************)
(* Every message on its way is well formed and names a room that exists,   *)
(* no room holds more than three, no queue more than its bound and one, and *)
(* the server's and the clients' variables keep their types.               *)
(***************************************************************************)
THEOREM LobbyTyping == Spec => []TypeOK
<1>1. TypedInv => TypeOK
  <2> SUFFICES ASSUME TypedInv PROVE TypeOK
    OBVIOUS
  <2>1. /\ \A i \in DOMAIN activeGames : activeGames[i] \in Seq(Clients) /\ players[i] \in Seq(Clients)
        /\ DOMAIN players = DOMAIN activeGames /\ sessions \subseteq Clients
    BY Typed DEF TypedInv, BooksInv, BooksTyped
  <2>2. \A c \in Clients :
          /\ toServer[c] \in Seq(ToServerMessage)
          /\ Len(toServer[c]) =< Capacity + 1
          /\ \A i \in DOMAIN toClient[c] :
               toClient[c][i].action \in {"welcome", "show", "add", "new_player",
                                          "leave", "chat"}
    <3> SUFFICES ASSUME NEW c \in Clients
                 PROVE  /\ Len(toServer[c]) =< Capacity + 1
                        /\ \A i \in DOMAIN toClient[c] :
                             toClient[c][i].action \in {"welcome", "show", "add", "new_player",
                                                        "leave", "chat"}
      BY DEF TypedInv, QueuesTyped
    <3>1. /\ toServer[c] \in Seq(ToServerMessage) /\ toClient[c] \in Seq(ToClientMessage)
          /\ Len(toServer[c]) =< IF link[c] = "closed" THEN Capacity + 1 ELSE Capacity
      BY DEF TypedInv, QueuesTyped
    <3>2. Len(toServer[c]) \in Nat /\ DOMAIN toClient[c] = 1 .. Len(toClient[c])
      BY <3>1, LenProperties
    <3>3. \A i \in DOMAIN toClient[c] : toClient[c][i] \in ToClientMessage
      BY <3>1, <3>2, ElementOfSeq
    <3>4. \A m \in ToClientMessage : m.action \in {"welcome", "show", "add", "new_player",
                                                    "leave", "chat"}
      BY DEF ToClientMessage, SeatsAnswer
    <3> QED  BY <3>1, <3>2, <3>3, <3>4, BoundsAssumption
  <2>3. /\ \A i \in DOMAIN activeGames : Len(activeGames[i]) =< MAX_PLAYERS
        /\ fault \in {"none", "no_session", "no_room", "not_registered"}
        /\ link \in [Clients -> {"new", "open", "closed"}]
        /\ writing \subseteq Clients /\ broken \subseteq writing
    BY DEF TypedInv, ServerTyped, RoomsFit
  <2>4. /\ scene \in [Clients -> {"lobby", "game_panel"}]
        /\ roomList \in [Clients -> SUBSET (DOMAIN activeGames)]
        /\ \A c \in Clients : game[c] \in Seq(Clients) \cup {NoGame}
        /\ index \in [Clients -> 0 .. MAX_PLAYERS]
    BY DEF TypedInv, ClientTyped
  <2> QED  BY <2>1, <2>2, <2>3, <2>4 DEF TypeOK
<1> QED  BY <1>1, InitTyped, NextTyped, PTL DEF Spec
=============================================================================
