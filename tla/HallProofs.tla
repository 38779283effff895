----------------------------- MODULE HallProofs -----------------------------
(***************************************************************************)
(* The lobby while its users wait for an answer before they ask again: the *)
(* server stops only over a failed write, every request is answered, and   *)
(* the rooms are the tables of a hall.  The server relies on what its clients send: SeatInv says which *)
(* messages may be on their way, and in which order.                       *)
(***************************************************************************)
EXTENDS LobbyProofs

(***************************************************************************)
(* The requests for a seat in a queue are the occurrences of "add" in the  *)
(* sequence of its kinds.                                                  *)
(***************************************************************************)
Kinds(s) == [i \in DOMAIN s |-> s[i].action]

\* Kinds turns a queue into a sequence whose occurrences can be counted.
LEMMA KindsAre ==
  ASSUME NEW M, NEW s \in Seq(M)
  PROVE  /\ Kinds(s) \in Seq({m.action : m \in M}) /\ Len(Kinds(s)) = Len(s)
         /\ \A i \in 1 .. Len(s) : Kinds(s)[i] = s[i].action
         /\ Adds(s) = Occurrences("add", Kinds(s)) /\ Adds(s) \in Nat
<1>1. DOMAIN s = 1 .. Len(s) /\ Len(s) \in Nat /\ \A i \in 1 .. Len(s) : s[i] \in M
  BY LenProperties, ElementOfSeq
<1>2. /\ Kinds(s) \in Seq({m.action : m \in M}) /\ Len(Kinds(s)) = Len(s)
      /\ \A i \in 1 .. Len(s) : Kinds(s)[i] = s[i].action
  BY <1>1 DEF Kinds
<1>3. Adds(s) = Occurrences("add", Kinds(s))
  BY <1>1 DEF Adds, Occurrences, Kinds
<1> QED  BY <1>2, <1>3, PlacesFinite

\* How the number of requests in a queue changes as messages come and go.
LEMMA AddsEmpty == Adds(<< >>) = 0
<1>1. {i \in DOMAIN << >> : << >>[i].action = "add"} = {}
  OBVIOUS
<1> QED  BY <1>1, FS_EmptySet DEF Adds

LEMMA AddsNone ==
  ASSUME NEW M, NEW s \in Seq(M)
  PROVE  Adds(s) = 0 <=> \A i \in 1 .. Len(s) : s[i].action # "add"
<1>1. Adds(s) = 0 <=> ~ Contains(Kinds(s), "add")
  BY KindsAre, OccurrencesContains
<1> QED  BY <1>1, KindsAre DEF Contains

LEMMA AddsAppend ==
  ASSUME NEW M, NEW s \in Seq(M), NEW m \in M
  PROVE  Adds(Append(s, m)) = Adds(s) + (IF m.action = "add" THEN 1 ELSE 0)
<1> DEFINE K == {x.action : x \in M}
           t == Append(s, m)
<1>1. t \in Seq(M) /\ Len(t) = Len(s) + 1 /\ Len(s) \in Nat
      /\ (\A i \in 1 .. Len(s) : t[i] = s[i]) /\ t[Len(s) + 1] = m
  BY AppendProperties, LenProperties
<1> HIDE DEF t
<1>2. /\ Kinds(s) \in Seq(K) /\ Len(Kinds(s)) = Len(s)
      /\ \A i \in 1 .. Len(s) : Kinds(s)[i] = s[i].action
      /\ Kinds(t) \in Seq(K) /\ Len(Kinds(t)) = Len(t)
      /\ \A i \in 1 .. Len(t) : Kinds(t)[i] = t[i].action
      /\ Adds(s) = Occurrences("add", Kinds(s)) /\ Adds(t) = Occurrences("add", Kinds(t))
  BY <1>1, KindsAre
<1> DEFINE e == m.action
           p == Kinds(s)
<1>3. e \in K
  OBVIOUS
<1> HIDE DEF e, p, K
<1>4. /\ Append(p, e) \in Seq(K) /\ Len(Append(p, e)) = Len(s) + 1
      /\ (\A i \in 1 .. Len(s) : Append(p, e)[i] = s[i].action)
      /\ Append(p, e)[Len(s) + 1] = e
  BY <1>2, <1>3, AppendProperties DEF p
<1>5. Kinds(t) = Append(p, e)
  <2>1. ASSUME NEW i \in 1 .. Len(s) + 1
        PROVE  Kinds(t)[i] = Append(p, e)[i]
    <3>1. i \in 1 .. Len(s) \/ i = Len(s) + 1
      BY <1>1
    <3> QED  BY <3>1, <1>1, <1>2, <1>4 DEF e
  <2> QED  BY <2>1, <1>1, <1>2, <1>4, SeqEqual
<1>6. Occurrences("add", Append(p, e)) = Occurrences("add", p) + (IF "add" = e THEN 1 ELSE 0)
  BY <1>2, <1>3, OccurrencesAppend DEF p
<1> QED  BY <1>2, <1>5, <1>6 DEF t, p, e

LEMMA AddsTail ==
  ASSUME NEW M, NEW s \in Seq(M), s # << >>
  PROVE  Adds(Tail(s)) = Adds(s) - (IF Head(s).action = "add" THEN 1 ELSE 0)
<1> DEFINE K == {x.action : x \in M}
           t == Tail(s)
<1>1. /\ t \in Seq(M) /\ Len(t) = Len(s) - 1 /\ Len(s) \in Nat \ {0}
      /\ (\A i \in 1 .. Len(t) : t[i] = s[i + 1]) /\ Head(s) = s[1]
  BY HeadTailProperties, EmptySeq
<1> HIDE DEF t
<1>2. /\ Kinds(s) \in Seq(K) /\ Len(Kinds(s)) = Len(s)
      /\ \A i \in 1 .. Len(s) : Kinds(s)[i] = s[i].action
      /\ Kinds(t) \in Seq(K) /\ Len(Kinds(t)) = Len(t)
      /\ \A i \in 1 .. Len(t) : Kinds(t)[i] = t[i].action
      /\ Adds(s) = Occurrences("add", Kinds(s)) /\ Adds(t) = Occurrences("add", Kinds(t))
  BY <1>1, KindsAre
<1> DEFINE p == Kinds(s)
<1> HIDE DEF p, K
<1>3. 1 \in 1 .. Len(p) /\ p \in Seq(K) /\ Len(p) = Len(s)
  BY <1>1, <1>2 DEF p
<1>4. /\ RemoveAt(p, 1) \in Seq(K) /\ Len(RemoveAt(p, 1)) = Len(p) - 1
      /\ \A i \in 1 .. Len(p) - 1 : RemoveAt(p, 1)[i] = IF i < 1 THEN p[i] ELSE p[i + 1]
  BY <1>3, RemoveAtElements
<1>5. Kinds(t) = RemoveAt(p, 1)
  <2>1. ASSUME NEW i \in 1 .. Len(s) - 1
        PROVE  Kinds(t)[i] = RemoveAt(p, 1)[i]
    <3>1. ~ (i < 1) /\ i \in 1 .. Len(t) /\ i + 1 \in 1 .. Len(s)
      BY <1>1
    <3> QED  BY <3>1, <1>1, <1>2, <1>3, <1>4 DEF p
  <2> QED  BY <2>1, <1>1, <1>2, <1>3, <1>4, SeqEqual
<1>6. Occurrences("add", RemoveAt(p, 1)) = Occurrences("add", p) - (IF p[1] = "add" THEN 1 ELSE 0)
  BY <1>3, OccurrencesRemoveAt
<1>7. p[1] = Head(s).action
  BY <1>1, <1>2 DEF p
<1> QED  BY <1>2, <1>5, <1>6, <1>7 DEF t, p

-----------------------------------------------------------------------------
(***************************************************************************)
(* Users who wait for an answer: the inductive invariant.                  *)
(***************************************************************************)
Sits(c) == \E i \in DOMAIN activeGames : Occurrences(c, activeGames[i]) # 0

SeatedOnce ==
  \A c \in Clients, i \in DOMAIN activeGames :
    /\ Occurrences(c, activeGames[i]) \in {0, 1}
    /\ \A j \in DOMAIN activeGames :
         Occurrences(c, activeGames[i]) # 0 /\ Occurrences(c, activeGames[j]) # 0 => i = j

HasSession ==
  \A c \in Clients :
    \/ fault = "none" /\ Sits(c)
    \/ c \notin broken /\ (toServer[c] # << >> \/ link[c] = "open")
    => c \in sessions

\* What c has sent, in the order in which it may send it.
InOrder(c, q) ==
  \A i \in 1 .. Len(q) :
    /\ q[i].action = "closed" => i = Len(q)
    /\ q[i].action \in {"chat", "leave"} =>
         Sits(c) /\ \A j \in 1 .. i - 1 : q[j].action \notin {"leave", "add"}
    /\ q[i].action = "add" =>
         /\ \A j \in 1 .. i - 1 : q[j].action # "add"
         /\ Sits(c) => \E j \in 1 .. i - 1 : q[j].action = "leave"

Has(q, a) == \E i \in 1 .. Len(q) : q[i].action = a

OpenClient(c) ==
  LET q == toServer[c]  r == toClient[c]
  IN  /\ ~ Has(q, "closed")
      /\ waiting[c] = Adds(q) + Adds(r) /\ waiting[c] \in {0, 1}
      /\ scene[c] = "game_panel" => waiting[c] = 0 /\ Sits(c) /\ ~ Has(q, "leave")
      /\ scene[c] = "lobby" /\ Sits(c) => Has(q, "leave") \/ Adds(r) # 0
      /\ Adds(r) # 0 => \A i \in 1 .. Len(q) : q[i].action = "show"
      /\ \A i \in 1 .. Len(r) : r[i].action = "add" => (r[i].error <=> ~ Sits(c))

IdleClient(c) ==
  scene[c] = "lobby" /\ waiting[c] = 0 /\ game[c] = NoGame /\ toClient[c] = << >>

\* A write to c has failed: nothing is known of what c has left behind, but it
\* has no seat and no session while the server runs.
BrokenClient(c) ==
  /\ link[c] = "closed" /\ IdleClient(c)
  /\ fault = "none" => ~ Sits(c) /\ c \notin sessions

ClientInv(c) ==
  IF c \in broken THEN BrokenClient(c)
  ELSE /\ InOrder(c, toServer[c])
       /\ IF link[c] = "open" THEN OpenClient(c) ELSE IdleClient(c)

SeatInv ==
  /\ broken = {} => fault = "none"
  /\ fault = "none" => SeatedOnce
  /\ HasSession
  /\ \A c \in Clients : ClientInv(c)

LEMMA Unbroken ==
  ASSUME SeatInv, NEW c \in Clients, link[c] # "closed" \/ toClient[c] # << >>
  PROVE  c \notin broken
  BY DEF SeatInv, ClientInv, BrokenClient, IdleClient

-----------------------------------------------------------------------------
\* An element of a sequence is one that occurs in it.
LEMMA ToSetOccurs ==
  ASSUME NEW S, NEW s \in Seq(S), NEW d
  PROVE  d \in ToSet(s) <=> Occurrences(d, s) # 0
<1>1. DOMAIN s = 1 .. Len(s)
  BY LenProperties
<1>2. d \in ToSet(s) <=> Contains(s, d)
  BY <1>1 DEF ToSet, Contains
<1> QED  BY <1>2, OccurrencesContains

(***************************************************************************)
(* A player with a session is found by players_ where he sits.             *)
(***************************************************************************)
LEMMA FoundSeat ==
  ASSUME TypedInv, SeatInv, fault = "none", NEW c \in sessions
  PROVE  /\ Sits(c) <=> FindGameId(c) # Nowhere
         /\ Sits(c) => /\ FindGameId(c) \in DOMAIN activeGames
                       /\ Occurrences(c, activeGames[FindGameId(c)]) = 1
<1> DEFINE W == {i \in DOMAIN players : Contains(players[i], c)}
<1>1. BooksTyped /\ ListsAgree /\ c \in Clients
  BY DEF TypedInv, BooksInv, BooksTyped
<1>2. \A i \in DOMAIN activeGames :
        /\ i \in DOMAIN players /\ i # Nowhere
        /\ Contains(players[i], c) <=> Occurrences(c, activeGames[i]) # 0
  <2> SUFFICES ASSUME NEW i \in DOMAIN activeGames
               PROVE  /\ i \in DOMAIN players /\ i # Nowhere
                      /\ Contains(players[i], c) <=> Occurrences(c, activeGames[i]) # 0
    OBVIOUS
  <2>1. i \in DOMAIN players /\ i # Nowhere /\ players[i] \in Seq(Clients)
    BY <1>1, Typed DEF Nowhere
  <2>2. Contains(players[i], c) <=> Occurrences(c, players[i]) # 0
    BY <2>1, OccurrencesContains
  <2> QED  BY <1>1, <2>1, <2>2 DEF ListsAgree
<1>3. ASSUME FindGameId(c) # Nowhere
      PROVE  /\ Sits(c) /\ FindGameId(c) \in DOMAIN activeGames
             /\ Occurrences(c, activeGames[FindGameId(c)]) = 1
  <2>1. FindGameId(c) \in DOMAIN activeGames /\ Contains(players[FindGameId(c)], c)
    BY <1>1, <1>3, FoundRoom
  <2>2. Occurrences(c, activeGames[FindGameId(c)]) # 0
    BY <1>2, <2>1
  <2> QED  BY <1>1, <2>1, <2>2 DEF Sits, SeatInv, SeatedOnce
<1>4. ASSUME Sits(c)
      PROVE  FindGameId(c) # Nowhere
  <2>1. PICK i \in DOMAIN activeGames : Occurrences(c, activeGames[i]) # 0
    BY <1>4 DEF Sits
  <2>2. i \in W
    BY <1>2, <2>1
  <2>3. W # {} /\ W \subseteq Nat
    BY <1>1, <2>2, Typed
  <2>4. \E x \in W : \A j \in W : x =< j
    BY <2>3, Smallest
  <2>5. FindGameId(c) = CHOOSE x \in W : \A j \in W : x =< j
    BY <2>3 DEF FindGameId
  <2>6. FindGameId(c) \in W
    BY <2>4, <2>5
  <2> QED  BY <1>1, <1>2, <2>6, Typed
<1> QED  BY <1>3, <1>4

(***************************************************************************)
(* What a client is sent when it is named once, or not at all.             *)
(***************************************************************************)
Told(d, m) ==
  toClient'[d] = IF link[d] = "open" THEN Append(toClient[d], m) ELSE toClient[d]

NotTold(d) == toClient'[d] = toClient[d]

\* What a queue is after no copy and after one.
LEMMA Extended ==
  ASSUME TypedInv, NEW d \in Clients, NEW A, NEW m
  PROVE  /\ Occurrences(d, A) = 0 => toClient[d] \o Copies(d, A, m) = toClient[d]
         /\ Occurrences(d, A) = 1 => toClient[d] \o Copies(d, A, m) = Append(toClient[d], m)
<1> DEFINE r == toClient[d]
           S == ToClientMessage
           M == S \cup {m}
<1>1. r \in Seq(S)
  BY DEF TypedInv, QueuesTyped
<1> HIDE DEF r, S
<1>2. r \in Seq(M) /\ m \in M
  BY <1>1, SeqMonotonic
<1> HIDE DEF M
<1>3. r \o << >> = r /\ r \o <<m>> = Append(r, m)
  BY <1>2, ConcatEmptySeq, AppendIsConcat
<1> QED  BY <1>3, CopiesAre DEF r

\* A message to connected clients, named once at most, reaches each of them.
LEMMA SentOnce ==
  ASSUME TypedInv, SeatInv, NEW A, NEW m, SentOne(A, m), ToSet(A) \subseteq sessions',
         \A d \in Clients : Occurrences(d, A) \in {0, 1}
  PROVE  /\ UNCHANGED fault
         /\ \A d \in Clients : IF Occurrences(d, A) = 0 THEN NotTold(d) ELSE Told(d, m)
<1>1. /\ UNCHANGED fault
      /\ toClient' = [d \in Clients |-> IF link[d] # "open" THEN << >>
                                       ELSE toClient[d] \o Copies(d, A, m)]
  BY DEF SentOne
<1>2. \A d \in Clients : link[d] # "open" => toClient[d] = << >>
  BY DEF SeatInv, ClientInv, BrokenClient, IdleClient
<1> QED  BY <1>1, <1>2, Extended DEF Told, NotTold

(***************************************************************************)
(* What the handlers do as long as nobody sits twice and everybody keeps   *)
(* to the protocol: c sits down in room i, or stands up.                   *)
(***************************************************************************)
SitsDown(c, i) ==
  /\ MadeAt(i) /\ Len(Old(i)) < MAX_PLAYERS
  /\ DOMAIN activeGames' = DOMAIN activeGames \cup {i}
  /\ activeGames'[i] = Append(Old(i), c)
  /\ \A j \in DOMAIN activeGames : j # i => activeGames'[j] = activeGames[j]

Joins(c, i) ==
  /\ SitsDown(c, i)
  /\ Told(c, SeatsTold(activeGames'[i]))
  /\ \A d \in Clients \ {c} : IF Occurrences(d, Old(i)) = 0 THEN NotTold(d)
                              ELSE Told(d, NewPlayerTold(c))

Parts(c, i) ==
  /\ i \in DOMAIN activeGames /\ Occurrences(c, activeGames[i]) = 1
  /\ activeGames' = [activeGames EXCEPT ![i] = RemoveFirst(@, c)]
  /\ NotTold(c)
  /\ \A d \in Clients \ {c} : IF Occurrences(d, activeGames[i]) = 0 THEN NotTold(d)
                              ELSE Told(d, LeaveTold(c))

SeatWork(c, msg) ==
  \/ /\ msg.action = "add" /\ ~ Sits(c) /\ UNCHANGED sessions
     /\ \/ \E i : Joins(c, i)
        \/ /\ UNCHANGED activeGames /\ Told(c, RefusalTold)
           /\ \A d \in Clients \ {c} : NotTold(d)
  \/ /\ msg.action = "show" /\ UNCHANGED <<activeGames, sessions>>
     /\ Told(c, RoomsTold) /\ \A d \in Clients \ {c} : NotTold(d)
  \/ /\ msg.action = "chat" /\ UNCHANGED <<activeGames, sessions>>
     /\ NotTold(c) /\ \A d \in Clients \ {c} : NotTold(d) \/ Told(d, ChatTold(c))
  \/ msg.action = "leave" /\ UNCHANGED sessions /\ \E i : Parts(c, i)
  \/ /\ msg.action = "closed" /\ sessions' = sessions \ {c}
     /\ \/ ~ Sits(c) /\ UNCHANGED activeGames /\ \A d \in Clients : NotTold(d)
        \/ \E i : Parts(c, i)

\* Freeing the seat of a client tells those who are left.
LEMMA PartsWork ==
  ASSUME TypedInv, SeatInv, fault = "none", NEW c \in Clients, NEW i, LeavesSeat(c, i),
         Occurrences(c, activeGames[i]) = 1, sessions \ {c} \subseteq sessions'
  PROVE  UNCHANGED fault /\ Parts(c, i)
<1> DEFINE s == activeGames[i]
           t == activeGames'[i]
<1>1. /\ i \in DOMAIN activeGames /\ BooksTyped
      /\ activeGames' = [activeGames EXCEPT ![i] = RemoveFirst(@, c)]
      /\ SentOne(t, LeaveTold(c)) /\ t = RemoveFirst(s, c)
  BY DEF LeavesSeat, TypedInv, BooksInv
<1>2. s \in Seq(Clients) /\ Contains(s, c)
  BY <1>1, Typed, OccurrencesContains
<1>3. /\ t \in Seq(Clients)
      /\ \A d : Occurrences(d, t) = Occurrences(d, s) - (IF d = c THEN 1 ELSE 0)
  BY <1>1, <1>2, OccurrencesRemoveFirst
<1>4. \A d \in Clients : Occurrences(d, s) \in {0, 1}
  BY <1>1 DEF SeatInv, SeatedOnce
<1> HIDE DEF t
<1>5. \A d \in Clients : /\ Occurrences(d, t) = IF d = c THEN 0 ELSE Occurrences(d, s)
                         /\ Occurrences(d, t) \in {0, 1}
  BY <1>3, <1>4
<1>6. ToSet(t) \subseteq sessions'
  <2> SUFFICES ASSUME NEW d \in ToSet(t)
               PROVE  d \in sessions'
    OBVIOUS
  <2>1. Occurrences(d, t) # 0
    BY <1>3, ToSetOccurs
  <2>2. d \in Clients
    BY <1>3, LenProperties DEF ToSet
  <2>3. d # c /\ Occurrences(d, s) # 0
    BY <1>5, <2>1, <2>2
  <2>4. d \in sessions
    BY <1>1, <2>2, <2>3 DEF SeatInv, HasSession, Sits
  <2> QED  BY <2>3, <2>4
<1>7. /\ UNCHANGED fault
      /\ \A d \in Clients : IF Occurrences(d, t) = 0 THEN NotTold(d) ELSE Told(d, LeaveTold(c))
  BY <1>1, <1>5, <1>6, SentOnce
<1> QED  BY <1>1, <1>5, <1>7 DEF Parts

\* Giving a client a seat tells it the seats, and the others of it.
LEMMA JoinsWork ==
  ASSUME TypedInv, SeatInv, fault = "none", NEW c \in sessions, ~ Sits(c), UNCHANGED sessions,
         NEW i, TakesSeat(c, i)
  PROVE  UNCHANGED fault /\ Joins(c, i)
<1> DEFINE s == Old(i)
           t == activeGames'[i]
           A == Others(c, t)
           m == NewPlayerTold(c)
           B == <<c>>
           n == SeatsTold(t)
<1>1. /\ DOMAIN activeGames' = DOMAIN activeGames \cup {i} /\ Len(Old(i)) < MAX_PLAYERS
      /\ MadeAt(i)
      /\ t = Append(s, c)
      /\ \A j \in DOMAIN activeGames : j # i => activeGames'[j] = activeGames[j]
      /\ SentTwo(A, m, B, n)
  BY DEF TakesSeat
<1>2. s \in Seq(Clients) /\ BooksTyped /\ c \in Clients
  BY OldTyped DEF TypedInv, BooksInv, BooksTyped
<1>3. \A d \in Clients : Occurrences(d, s) \in {0, 1}
  BY OccurrencesEmpty DEF Old, SeatInv, SeatedOnce
<1>4. Occurrences(c, s) = 0
  BY OccurrencesEmpty DEF Old, Sits
<1>5. /\ t \in Seq(Clients)
      /\ \A d : Occurrences(d, t) = Occurrences(d, s) + (IF d = c THEN 1 ELSE 0)
  BY <1>1, <1>2, OccurrencesAppend
<1> HIDE DEF t, s
<1>6. /\ \A d : Occurrences(d, A) = IF d = c THEN 0 ELSE Occurrences(d, t)
      /\ ToSet(A) = ToSet(t) \ {c}
      /\ \A d : Occurrences(d, B) = IF d = c THEN 1 ELSE 0
  BY OthersAre, OccurrencesOne
<1>7. ToSet(A) \subseteq sessions' /\ ToSet(B) \subseteq sessions'
  <2>1. ASSUME NEW d \in ToSet(A)
        PROVE  d \in sessions'
    <3>1. d # c /\ d \in ToSet(t)
      BY <1>6
    <3>2. Occurrences(d, t) # 0 /\ d \in Clients
      BY <1>5, <3>1, ToSetOccurs, LenProperties DEF ToSet
    <3>3. Occurrences(d, s) # 0
      BY <1>3, <1>5, <3>1, <3>2
    <3>4. Sits(d)
      BY <3>3, OccurrencesEmpty DEF Sits, s, Old
    <3> QED  BY <3>2, <3>4 DEF SeatInv, HasSession
  <2>2. ToSet(B) = {c}
    BY DEF ToSet
  <2> QED  BY <2>1, <2>2
<1>8. /\ UNCHANGED fault
      /\ toClient' = [d \in Clients |->
               IF link[d] # "open" THEN << >>
               ELSE (toClient[d] \o Copies(d, A, m)) \o Copies(d, B, n)]
  BY <1>1, <1>7 DEF SentTwo
<1>9. \A d \in Clients : link[d] # "open" => toClient[d] = << >>
  BY DEF SeatInv, ClientInv, BrokenClient, IdleClient
<1> HIDE DEF A, B, m, n
<1>10. \A d \in Clients :
         toClient'[d] = IF link[d] # "open" THEN << >>
                        ELSE (toClient[d] \o Copies(d, A, m)) \o Copies(d, B, n)
  BY <1>8
<1>11. Told(c, n)
  <2>1. Occurrences(c, A) = 0 /\ Occurrences(c, B) = 1
    BY <1>6
  <2>2. toClient[c] \o Copies(c, A, m) = toClient[c]
    BY <1>2, <2>1, Extended
  <2>3. toClient[c] \o Copies(c, B, n) = Append(toClient[c], n)
    BY <1>2, <2>1, Extended
  <2> QED  BY <1>2, <1>9, <1>10, <2>2, <2>3 DEF Told
<1>12. ASSUME NEW d \in Clients \ {c}
       PROVE  IF Occurrences(d, s) = 0 THEN NotTold(d) ELSE Told(d, m)
  <2>1. Occurrences(d, A) = Occurrences(d, s) /\ Occurrences(d, B) = 0
    BY <1>3, <1>5, <1>6
  <2>2. toClient[d] \o Copies(d, A, m) =
          IF Occurrences(d, s) = 0 THEN toClient[d] ELSE Append(toClient[d], m)
    BY <1>3, <2>1, Extended
  <2>3. Copies(d, B, n) = << >>
    BY <2>1, CopiesAre
  <2>4. (toClient[d] \o Copies(d, A, m)) \o << >> = toClient[d] \o Copies(d, A, m)
    <3> DEFINE r == toClient[d]
               S == ToClientMessage
               M == S \cup {m}
               p == Copies(d, A, m)
    <3>1. r \in Seq(S)
      BY DEF TypedInv, QueuesTyped
    <3>2. Occurrences(d, A) \in Nat
      BY <1>3, <2>1
    <3> HIDE DEF r, S
    <3>3. r \in Seq(M) /\ m \in M
      BY <3>1, SeqMonotonic
    <3> HIDE DEF M
    <3>4. p \in Seq(M)
      BY <3>2, <3>3, CopiesTyped
    <3> HIDE DEF p
    <3>5. r \o p \in Seq(M)
      BY <3>3, <3>4, ConcatProperties
    <3> DEFINE rp == r \o p
    <3> HIDE DEF rp
    <3>6. rp \o << >> = rp
      BY <3>5, ConcatEmptySeq DEF rp
    <3> QED  BY <3>6 DEF rp, p, r
  <2> QED  BY <1>9, <1>10, <2>2, <2>3, <2>4 DEF Told, NotTold
<1> QED  BY <1>1, <1>8, <1>11, <1>12 DEF Joins, SitsDown, s, t, m, n

(***************************************************************************)
(* The handlers, while the users keep to the protocol.                     *)
(***************************************************************************)
LEMMA HeadInOrder ==
  ASSUME TypedInv, SeatInv, NEW c \in Clients, c \notin broken, toServer[c] # << >>
  PROVE  LET q == toServer[c]
         IN  /\ c \in sessions /\ Head(q) \in ToServerMessage
             /\ Head(q).action = "add" => ~ Sits(c)
             /\ Head(q).action \in {"chat", "leave"} => Sits(c)
<1> DEFINE q == toServer[c]
<1>1. q \in Seq(ToServerMessage) /\ InOrder(c, q) /\ c \in sessions
  BY DEF TypedInv, QueuesTyped, SeatInv, ClientInv, HasSession
<1>2. /\ Head(q) = q[1] /\ Len(q) \in Nat \ {0} /\ Head(q) \in ToServerMessage
  BY <1>1, HeadTailProperties, EmptySeq
<1>3. 1 \in 1 .. Len(q) /\ 1 .. 1 - 1 = {}
  BY <1>2
<1> HIDE DEF q
<1>4. /\ q[1].action = "add" => ~ Sits(c)
      /\ q[1].action \in {"chat", "leave"} => Sits(c)
  BY <1>1, <1>3 DEF InOrder
<1> QED  BY <1>1, <1>2, <1>4 DEF q

\* The server never fails on a message of a client to whom no write has failed,
\* and the message has one of the effects above.
LEMMA SeatWorkCases ==
  ASSUME TypedInv, SeatInv, NEW c \in Clients, c \notin broken, DoWork(c)
  PROVE  UNCHANGED fault /\ SeatWork(c, Head(toServer[c]))
<1> DEFINE q == toServer[c]
           msg == Head(q)
<1>1. q # << >> /\ BooksTyped /\ fault = "none"
  BY DEF DoWork, TypedInv, BooksInv
<1>2. /\ c \in sessions /\ msg \in ToServerMessage
      /\ msg.action = "add" => ~ Sits(c)
      /\ msg.action \in {"chat", "leave"} => Sits(c)
  BY <1>1, HeadInOrder
<1>3. Work(c, msg)
  BY <1>1, WorkCases
<1> SUFFICES UNCHANGED fault /\ SeatWork(c, msg)
  OBVIOUS
<1>4. msg.action = "add" => msg.id \in 0 .. Len(activeGames)
  BY <1>2 DEF ToServerMessage
<1> HIDE DEF msg
<1>5. /\ Sits(c) <=> FindGameId(c) # Nowhere
      /\ Sits(c) => /\ FindGameId(c) \in DOMAIN activeGames
                    /\ Occurrences(c, activeGames[FindGameId(c)]) = 1
  BY <1>1, <1>2, FoundSeat
<1>6. ASSUME NEW m, SentOne(<<c>>, m), UNCHANGED sessions
      PROVE  UNCHANGED fault /\ Told(c, m) /\ \A d \in Clients \ {c} : NotTold(d)
  <2> DEFINE B == <<c>>
  <2>1. /\ \A d : Occurrences(d, B) = IF d = c THEN 1 ELSE 0
        /\ ToSet(B) \subseteq sessions'
    BY <1>2, <1>6, OccurrencesOne DEF ToSet
  <2>2. SentOne(B, m)
    BY <1>6
  <2> HIDE DEF B
  <2>3. /\ UNCHANGED fault
        /\ \A d \in Clients : IF Occurrences(d, B) = 0 THEN NotTold(d) ELSE Told(d, m)
    <3>1. \A d \in Clients : Occurrences(d, B) \in {0, 1}
      BY <2>1
    <3> QED  BY <2>1, <2>2, <3>1, SentOnce
  <2> QED  BY <2>1, <2>3
<1>7. CASE msg.action = "add" /\ UNCHANGED sessions /\ AddWork(c, msg.id)
  <2>1. ASSUME NEW i, TakesSeat(c, i)
        PROVE  UNCHANGED fault /\ Joins(c, i)
    BY <1>1, <1>2, <1>7, <2>1, JoinsWork
  <2>2. CASE UNCHANGED activeGames /\ SentOne(<<c>>, RefusalTold)
    BY <1>2, <1>6, <1>7, <2>2 DEF SeatWork
  <2> QED  BY <1>2, <1>4, <1>7, <2>1, <2>2 DEF AddWork, SeatWork
<1>8. CASE msg.action = "show" /\ UNCHANGED <<activeGames, sessions>> /\ SentOne(<<c>>, RoomsTold)
  BY <1>6, <1>8 DEF SeatWork
<1>9. CASE msg.action = "chat" /\ UNCHANGED sessions /\ ChatWork(c)
  <2> DEFINE i == FindGameId(c)
             s == activeGames[i]
             A == Others(c, s)
  <2>1. /\ UNCHANGED activeGames /\ SentOne(A, ChatTold(c)) /\ i \in DOMAIN activeGames
    BY <1>2, <1>5, <1>9 DEF ChatWork
  <2>2. s \in Seq(Clients)
    BY <1>1, <2>1, Typed
  <2>3. /\ \A d : Occurrences(d, A) = IF d = c THEN 0 ELSE Occurrences(d, s)
        /\ ToSet(A) = ToSet(s) \ {c}
    BY <2>2, OthersAre
  <2>4. \A d \in Clients : Occurrences(d, s) \in {0, 1}
    BY <1>1, <2>1 DEF SeatInv, SeatedOnce
  <2>5. ToSet(A) \subseteq sessions'
    <3>1. \A d \in ToSet(s) : Occurrences(d, s) # 0 /\ d \in Clients
      BY <2>2, ToSetOccurs, LenProperties DEF ToSet
    <3>2. \A d \in ToSet(s) : d \in sessions
      BY <1>1, <2>1, <3>1 DEF SeatInv, HasSession, Sits
    <3> QED  BY <1>9, <2>3, <3>2
  <2> DEFINE m == ChatTold(c)
  <2> HIDE DEF A, m
  <2>6. \A d \in Clients : Occurrences(d, A) \in {0, 1}
    BY <2>3, <2>4
  <2>7. /\ UNCHANGED fault
        /\ \A d \in Clients : IF Occurrences(d, A) = 0 THEN NotTold(d) ELSE Told(d, m)
    <3>1. SentOne(A, m)
      BY <2>1 DEF m
    <3> QED  BY <2>5, <2>6, <3>1, SentOnce
  <2>8. NotTold(c)
    BY <2>3, <2>7
  <2> QED  BY <1>9, <2>1, <2>7, <2>8 DEF SeatWork, m
<1>10. ASSUME sessions \ {c} \subseteq sessions', FindGameId(c) # Nowhere, LeavesSeat(c, FindGameId(c))
       PROVE  UNCHANGED fault /\ Parts(c, FindGameId(c))
  BY <1>1, <1>5, <1>10, PartsWork
<1>11. CASE msg.action = "leave" /\ UNCHANGED sessions /\ LeaveWork(c)
  BY <1>2, <1>5, <1>10, <1>11 DEF LeaveWork, SeatWork
<1>12. CASE msg.action = "closed" /\ sessions' = sessions \ {c} /\ ClosedWork(c)
  BY <1>2, <1>5, <1>10, <1>12 DEF ClosedWork, SeatWork, NotTold
<1> QED  BY <1>3, <1>7, <1>8, <1>9, <1>11, <1>12 DEF Work

\* What a queue holds after a message was sent, and after one was taken.
LEMMA QueueAppend ==
  ASSUME NEW M, NEW q \in Seq(M), NEW m \in M
  PROVE  LET t == Append(q, m)
         IN  /\ t \in Seq(M) /\ Len(t) = Len(q) + 1 /\ Len(q) \in Nat
             /\ \A i \in 1 .. Len(q) : t[i] = q[i]
             /\ t[Len(q) + 1] = m
             /\ \A a : Has(t, a) <=> Has(q, a) \/ m.action = a
             /\ Adds(t) = Adds(q) + (IF m.action = "add" THEN 1 ELSE 0)
             /\ Adds(q) \in Nat
<1> DEFINE t == Append(q, m)
<1>1. /\ t \in Seq(M) /\ Len(t) = Len(q) + 1 /\ Len(q) \in Nat
      /\ (\A i \in 1 .. Len(q) : t[i] = q[i]) /\ t[Len(q) + 1] = m
  BY AppendProperties, LenProperties
<1>2. /\ Adds(t) = Adds(q) + (IF m.action = "add" THEN 1 ELSE 0)
      /\ Adds(q) \in Nat
  BY AddsAppend, KindsAre
<1> HIDE DEF t
<1>3. 1 .. Len(t) = (1 .. Len(q)) \cup {Len(q) + 1}
  BY <1>1
<1>4. \A a : Has(t, a) <=> Has(q, a) \/ m.action = a
  BY <1>1, <1>3 DEF Has
<1> QED  BY <1>1, <1>2, <1>4 DEF t

LEMMA QueueTail ==
  ASSUME NEW M, NEW q \in Seq(M), q # << >>
  PROVE  LET t == Tail(q)
         IN  /\ t \in Seq(M) /\ Len(t) = Len(q) - 1 /\ Len(q) \in Nat \ {0}
             /\ \A i \in 1 .. Len(t) : t[i] = q[i + 1]
             /\ Head(q) = q[1] /\ Head(q) \in M
             /\ \A a : Has(q, a) <=> Has(t, a) \/ Head(q).action = a
             /\ Adds(t) = Adds(q) - (IF Head(q).action = "add" THEN 1 ELSE 0)
             /\ Adds(q) \in Nat /\ Adds(t) \in Nat
<1> DEFINE t == Tail(q)
<1>1. /\ t \in Seq(M) /\ Len(t) = Len(q) - 1 /\ Len(q) \in Nat \ {0}
      /\ (\A i \in 1 .. Len(t) : t[i] = q[i + 1]) /\ Head(q) = q[1] /\ Head(q) \in M
  BY HeadTailProperties, EmptySeq
<1>2. /\ Adds(t) = Adds(q) - (IF Head(q).action = "add" THEN 1 ELSE 0)
      /\ Adds(q) \in Nat /\ Adds(t) \in Nat
  BY <1>1, AddsTail, KindsAre
<1> HIDE DEF t
<1>3. ASSUME NEW a
      PROVE  Has(q, a) <=> Has(t, a) \/ Head(q).action = a
  <2>1. ASSUME NEW i \in 1 .. Len(q), q[i].action = a, i # 1
        PROVE  Has(t, a)
    <3>1. i - 1 \in 1 .. Len(t) /\ (i - 1) + 1 = i
      BY <1>1, <2>1
    <3>2. t[i - 1] = q[i]
      BY <1>1, <3>1
    <3> QED  BY <2>1, <3>1, <3>2 DEF Has
  <2>2. ASSUME NEW i \in 1 .. Len(t), t[i].action = a
        PROVE  Has(q, a)
    <3>1. i + 1 \in 1 .. Len(q) /\ q[i + 1] = t[i]
      BY <1>1
    <3> QED  BY <2>2, <3>1 DEF Has
  <2>3. 1 \in 1 .. Len(q)
    BY <1>1
  <2> QED  BY <1>1, <2>1, <2>2, <2>3 DEF Has
<1> QED  BY <1>1, <1>2, <1>3 DEF t

\* A queue without requests, and an empty queue.
LEMMA NotEmpty ==
  ASSUME NEW M, NEW q \in Seq(M)
  PROVE  /\ Adds(q) \in Nat /\ (Adds(q) = 0 <=> ~ Has(q, "add"))
         /\ Len(q) \in Nat /\ (q = << >> <=> Len(q) = 0)
<1>1. Adds(q) \in Nat /\ (Adds(q) = 0 <=> \A i \in 1 .. Len(q) : q[i].action # "add")
  BY KindsAre, AddsNone
<1> QED  BY <1>1, LenProperties, EmptySeq DEF Has

(***************************************************************************)
(* A client keeps its part of the invariant while others move: it may be   *)
(* told of them.                                                           *)
(***************************************************************************)
Watches(d) == NotTold(d) \/ \E m : m.action # "add" /\ Told(d, m)

LEMMA OthersKeep ==
  ASSUME TypedInv, SeatInv, NEW d \in Clients, Sits(d)' <=> Sits(d),
         link'[d] = link[d], toServer'[d] = toServer[d], scene'[d] = scene[d],
         waiting'[d] = waiting[d], game'[d] = game[d], Watches(d),
         d \in broken' <=> d \in broken,
         d \in broken /\ fault' = "none" => fault = "none" /\ (d \in sessions' => d \in sessions)
  PROVE  ClientInv(d)'
<1> DEFINE q == toServer[d]
           r == toClient[d]
<1>1. ClientInv(d) /\ r \in Seq(ToClientMessage)
  BY DEF SeatInv, TypedInv, QueuesTyped
<1>a. CASE d \in broken
  <2>1. BrokenClient(d)
    BY <1>1, <1>a DEF ClientInv
  <2>2. toClient'[d] = toClient[d]
    BY <2>1 DEF BrokenClient, Watches, NotTold, Told
  <2>3. BrokenClient(d)'
    BY <1>a, <2>1, <2>2 DEF BrokenClient, IdleClient
  <2> QED  BY <1>a, <2>3 DEF ClientInv
<1> SUFFICES ASSUME d \notin broken
             PROVE  ClientInv(d)'
  BY <1>a
<1>2. InOrder(d, toServer[d])'
  BY <1>1 DEF ClientInv, InOrder
<1>3. CASE NotTold(d)
  <2>1. toClient'[d] = toClient[d]
    BY <1>3 DEF NotTold
  <2> QED  BY <1>1, <1>2, <2>1 DEF ClientInv, OpenClient, IdleClient
<1>4. ASSUME NEW m, m.action # "add", Told(d, m)
      PROVE  ClientInv(d)'
  <2>1. CASE link[d] # "open"
    <3>1. toClient'[d] = toClient[d]
      BY <1>4, <2>1 DEF Told
    <3> QED  BY <1>1, <1>2, <2>1, <3>1 DEF ClientInv, IdleClient
  <2>2. CASE link[d] = "open"
    <3> DEFINE t == Append(r, m)
               M == ToClientMessage \cup {m}
    <3>1. toClient'[d] = t
      BY <1>4, <2>2 DEF Told
    <3>2. r \in Seq(M) /\ m \in M
      BY <1>1, SeqMonotonic
    <3> HIDE DEF M, r
    <3>3. /\ Len(t) = Len(r) + 1 /\ Len(r) \in Nat
          /\ \A i \in 1 .. Len(r) : t[i] = r[i]
          /\ t[Len(r) + 1] = m
          /\ Adds(t) = Adds(r) /\ Adds(r) \in Nat
      BY <1>4, <3>2, QueueAppend
    <3> HIDE DEF t
    <3>4. OpenClient(d)
      BY <1>1, <2>2 DEF ClientInv
    <3>5. \A i \in 1 .. Len(t) : t[i].action = "add" => (t[i].error <=> ~ Sits(d))
      <4> SUFFICES ASSUME NEW i \in 1 .. Len(t), t[i].action = "add"
                   PROVE  t[i].error <=> ~ Sits(d)
        OBVIOUS
      <4>1. i \in 1 .. Len(r)
        BY <1>4, <3>3
      <4> QED  BY <3>3, <3>4, <4>1 DEF OpenClient, r
    <3>6. OpenClient(d)'
      BY <3>1, <3>3, <3>4, <3>5 DEF OpenClient, r
    <3> QED  BY <1>2, <2>2, <3>6 DEF ClientInv
  <2> QED  BY <2>1, <2>2
<1> QED  BY <1>3, <1>4 DEF Watches

\* The order of a queue is kept by a message that may follow what is in it.
LEMMA AppendInOrder ==
  ASSUME NEW c, NEW M, NEW q \in Seq(M), NEW m \in M, InOrder(c, q), ~ Has(q, "closed"),
         m.action \in {"chat", "leave"} => Sits(c) /\ ~ Has(q, "leave") /\ ~ Has(q, "add"),
         m.action = "add" => ~ Has(q, "add") /\ (Sits(c) => Has(q, "leave"))
  PROVE  InOrder(c, Append(q, m))
<1> DEFINE t == Append(q, m)
<1>1. /\ Len(t) = Len(q) + 1 /\ Len(q) \in Nat
      /\ \A i \in 1 .. Len(q) : t[i] = q[i]
      /\ t[Len(q) + 1] = m
  BY QueueAppend
<1> HIDE DEF t
<1> SUFFICES ASSUME NEW i \in 1 .. Len(t)
             PROVE  /\ t[i].action = "closed" => i = Len(t)
                    /\ t[i].action \in {"chat", "leave"} =>
                         Sits(c) /\ \A j \in 1 .. i - 1 : t[j].action \notin {"leave", "add"}
                    /\ t[i].action = "add" =>
                         /\ \A j \in 1 .. i - 1 : t[j].action # "add"
                         /\ Sits(c) => \E j \in 1 .. i - 1 : t[j].action = "leave"
  BY DEF InOrder, t
<1>2. CASE i \in 1 .. Len(q)
  <2>1. t[i] = q[i] /\ (\A j \in 1 .. i - 1 : t[j] = q[j]) /\ q[i].action # "closed"
    BY <1>1, <1>2 DEF Has
  <2> QED  BY <1>2, <2>1 DEF InOrder
<1>3. CASE i = Len(q) + 1
  <2>1. t[i] = m /\ i - 1 = Len(q) /\ i = Len(t) /\ \A j \in 1 .. i - 1 : t[j] = q[j]
    BY <1>1, <1>3
  <2> QED  BY <2>1 DEF Has
<1> QED  BY <1>1, <1>2, <1>3

\* The messages a client sends.
LEMMA SendIs ==
  ASSUME TypedInv, NEW c \in Clients
  PROVE  /\ \A m \in ToServerMessage :
              Send(c, <<m>>) => toServer'[c] = Append(toServer[c], m)
         /\ \A m, n \in ToServerMessage :
              Send(c, <<m, n>>) => toServer'[c] = Append(Append(toServer[c], m), n)
<1> DEFINE q == toServer[c]
           S == ToServerMessage
<1>1. q \in Seq(S) /\ c \in DOMAIN toServer
  BY DEF TypedInv, QueuesTyped, BooksInv, BooksTyped
<1>2. \A msgs : Send(c, msgs) => toServer'[c] = q \o msgs
  BY <1>1 DEF Send
<1> HIDE DEF q, S
<1>3. \A m \in S : q \o <<m>> = Append(q, m)
  BY <1>1, AppendIsConcat
<1>4. \A m, n \in S : q \o <<m, n>> = Append(Append(q, m), n)
  <2> SUFFICES ASSUME NEW m \in S, NEW n \in S
               PROVE  q \o <<m, n>> = Append(Append(q, m), n)
    OBVIOUS
  <2>1. q \o <<m, n>> \in Seq(S) /\ Append(Append(q, m), n) \in Seq(S)
    BY <1>1
  <2>2. Len(q \o <<m, n>>) = Len(q) + 2 /\ Len(Append(Append(q, m), n)) = Len(q) + 2
    BY <1>1
  <2>3. \A i \in 1 .. Len(q) + 2 : (q \o <<m, n>>)[i] = Append(Append(q, m), n)[i]
    BY <1>1
  <2> QED  BY <2>1, <2>2, <2>3, SeqEqual
<1> QED  BY <1>2, <1>3, <1>4 DEF q, S

\* The user does nothing that breaks the order, as long as it waits for answers.
LEMMA UserKeeps ==
  ASSUME TypedInv, SeatInv, Clicks = 1, NEW c \in Clients, User(c)
  PROVE  ClientInv(c)'
<1> DEFINE q == toServer[c]
           r == toClient[c]
           S == ToServerMessage
<1>0. c \notin broken'
  BY Unbroken DEF User, serverVars
<1>1. /\ link[c] = "open" /\ UNCHANGED <<activeGames, link, toClient>>
      /\ RequestRoom(c) \/ RequestRefresh(c) \/ SendMessage(c) \/ LeaveRoom(c)
  BY DEF User, serverVars, RequestRoom, RequestRefresh, SendMessage, LeaveRoom
<1>2. q \in Seq(S) /\ InOrder(c, q) /\ OpenClient(c)
  BY <1>1, Unbroken DEF TypedInv, QueuesTyped, SeatInv, ClientInv
<1>3. /\ Sits(c)' <=> Sits(c)
      /\ c \in DOMAIN scene /\ c \in DOMAIN waiting
  BY <1>1 DEF Sits, TypedInv, ClientTyped
<1>4. /\ ~ Has(q, "closed")
      /\ waiting[c] = Adds(q) + Adds(r) /\ waiting[c] \in {0, 1}
      /\ Adds(q) \in Nat /\ Adds(r) \in Nat /\ (Adds(q) = 0 <=> ~ Has(q, "add"))
      /\ scene[c] = "game_panel" => waiting[c] = 0 /\ Sits(c) /\ ~ Has(q, "leave")
      /\ scene[c] = "lobby" /\ Sits(c) => Has(q, "leave") \/ Adds(r) # 0
      /\ Adds(r) # 0 => \A i \in 1 .. Len(q) : q[i].action = "show"
      /\ \A i \in 1 .. Len(r) : r[i].action = "add" => (r[i].error <=> ~ Sits(c))
  <2>1. r \in Seq(ToClientMessage)
    BY DEF TypedInv, QueuesTyped
  <2> HIDE DEF r
  <2>2. Adds(r) \in Nat
    BY <2>1, NotEmpty
  <2>3. Adds(q) \in Nat /\ (Adds(q) = 0 <=> ~ Has(q, "add"))
    BY <1>2, NotEmpty
  <2> QED  BY <1>2, <2>2, <2>3 DEF OpenClient, r
<1> DEFINE show == [action |-> "show"]
           chat == [action |-> "chat"]
           leave == [action |-> "leave"]
           add(id) == [action |-> "add", id |-> id]
<1>5. /\ show \in S /\ chat \in S /\ leave \in S /\ \A id \in 0 .. Len(activeGames) : add(id) \in S
      /\ show.action = "show" /\ chat.action = "chat" /\ leave.action = "leave"
      /\ \A id : add(id).action = "add"
  BY ServerMessages
<1>6. /\ \A m \in S : Send(c, <<m>>) => toServer'[c] = Append(q, m)
      /\ \A m, n \in S : Send(c, <<m, n>>) => toServer'[c] = Append(Append(q, m), n)
  BY SendIs
<1>7. CASE RequestRoom(c)
  <2>1. PICK id \in roomList[c] \cup {NewRoom} : Send(c, <<add(id)>>)
    BY <1>7 DEF RequestRoom
  <2>2. /\ scene[c] = "lobby" /\ waiting[c] = 0 /\ scene'[c] = "lobby" /\ waiting'[c] = 1
    BY <1>3, <1>4, <1>7 DEF RequestRoom, clientVars
  <2>3. id \in 0 .. Len(activeGames)
    BY <2>1, Typed DEF TypedInv, BooksInv, ClientTyped, NewRoom
  <2> DEFINE m == add(id)
  <2>4. m \in S /\ m.action = "add" /\ Send(c, <<m>>)
    BY <1>5, <2>1, <2>3
  <2> HIDE DEF m, q, r, S, show, chat, leave, add
  <2> DEFINE t == Append(q, m)
  <2>5. toServer'[c] = t
    BY <1>6, <2>4
  <2>6. Adds(q) = 0 /\ Adds(r) = 0
    BY <1>4, <2>2
  <2>7. InOrder(c, t)
    BY <1>2, <1>4, <2>2, <2>4, <2>6, AppendInOrder
  <2>8. (\A a : Has(t, a) <=> Has(q, a) \/ m.action = a) /\ Adds(t) = 1
    BY <1>2, <2>4, <2>6, QueueAppend
  <2> HIDE DEF t
  <2>9. InOrder(c, toServer[c])'
    BY <1>3, <2>5, <2>7 DEF InOrder
  <2>10. OpenClient(c)'
    BY <1>1, <1>3, <1>4, <2>2, <2>4, <2>5, <2>6, <2>8 DEF OpenClient, r
  <2> QED  BY <1>0, <1>1, <2>9, <2>10 DEF ClientInv
<1>8. CASE RequestRefresh(c)
  <2>1. Send(c, <<show>>) /\ scene'[c] = scene[c] /\ waiting'[c] = waiting[c]
    BY <1>8 DEF RequestRefresh, clientVars
  <2> DEFINE m == show
  <2> HIDE DEF q, r, S, show, chat, leave, add
  <2> DEFINE t == Append(q, m)
  <2>5. toServer'[c] = t
    BY <1>5, <1>6, <2>1
  <2>7. InOrder(c, t)
    BY <1>2, <1>4, <1>5, AppendInOrder
  <2>8. /\ (\A a : Has(t, a) <=> Has(q, a) \/ m.action = a) /\ Adds(t) = Adds(q)
        /\ Len(t) = Len(q) + 1 /\ t[Len(q) + 1] = m /\ \A i \in 1 .. Len(q) : t[i] = q[i]
        /\ Len(q) \in Nat
    BY <1>2, <1>5, QueueAppend
  <2> HIDE DEF t
  <2>9. InOrder(c, toServer[c])'
    BY <1>3, <2>5, <2>7 DEF InOrder
  <2>10. Adds(r) # 0 => \A i \in 1 .. Len(t) : t[i].action = "show"
    <3> SUFFICES ASSUME Adds(r) # 0, NEW i \in 1 .. Len(t)
                 PROVE  t[i].action = "show"
      OBVIOUS
    <3>1. i \in 1 .. Len(q) \/ i = Len(q) + 1
      BY <2>8
    <3> QED  BY <1>4, <1>5, <2>8, <3>1
  <2>11. OpenClient(c)'
    BY <1>1, <1>3, <1>4, <1>5, <2>1, <2>5, <2>8, <2>10 DEF OpenClient, r
  <2> QED  BY <1>0, <1>1, <2>9, <2>11 DEF ClientInv
<1>9. CASE SendMessage(c)
  <2>1. /\ Send(c, <<chat>>) /\ scene'[c] = scene[c] /\ waiting'[c] = waiting[c]
        /\ scene[c] = "game_panel"
    BY <1>9 DEF SendMessage, clientVars
  <2> DEFINE m == chat
  <2> HIDE DEF q, r, S, show, chat, leave, add
  <2> DEFINE t == Append(q, m)
  <2>5. toServer'[c] = t
    BY <1>5, <1>6, <2>1
  <2>6. Adds(q) = 0 /\ Adds(r) = 0
    BY <1>4, <2>1
  <2>7. InOrder(c, t)
    BY <1>2, <1>4, <1>5, <2>1, <2>6, AppendInOrder
  <2>8. (\A a : Has(t, a) <=> Has(q, a) \/ m.action = a) /\ Adds(t) = Adds(q)
    BY <1>2, <1>5, QueueAppend
  <2> HIDE DEF t
  <2>9. InOrder(c, toServer[c])'
    BY <1>3, <2>5, <2>7 DEF InOrder
  <2>11. OpenClient(c)'
    BY <1>1, <1>3, <1>4, <1>5, <2>1, <2>5, <2>6, <2>8 DEF OpenClient, r
  <2> QED  BY <1>0, <1>1, <2>9, <2>11 DEF ClientInv
<1>10. CASE LeaveRoom(c)
  <2>1. /\ Send(c, <<leave, show>>) /\ scene'[c] = "lobby" /\ waiting'[c] = waiting[c]
        /\ scene[c] = "game_panel"
    BY <1>3, <1>10 DEF LeaveRoom, ChangeScene
  <2> HIDE DEF q, r, S, show, chat, leave, add
  <2> DEFINE u == Append(q, leave)
             t == Append(u, show)
  <2>5. toServer'[c] = t
    BY <1>5, <1>6, <2>1
  <2>6. Adds(q) = 0 /\ Adds(r) = 0
    BY <1>4, <2>1
  <2>7. InOrder(c, u)
    BY <1>2, <1>4, <1>5, <2>1, <2>6, AppendInOrder
  <2>8. /\ (\A a : Has(u, a) <=> Has(q, a) \/ leave.action = a) /\ Adds(u) = Adds(q)
        /\ u \in Seq(S)
    BY <1>2, <1>5, QueueAppend
  <2> HIDE DEF u
  <2>12. InOrder(c, t)
    BY <1>4, <1>5, <2>7, <2>8, AppendInOrder
  <2>13. (\A a : Has(t, a) <=> Has(u, a) \/ show.action = a) /\ Adds(t) = Adds(u)
    BY <1>5, <2>8, QueueAppend
  <2> HIDE DEF t
  <2>9. InOrder(c, toServer[c])'
    BY <1>3, <2>5, <2>12 DEF InOrder
  <2>11. OpenClient(c)'
    BY <1>1, <1>3, <1>4, <1>5, <2>1, <2>5, <2>6, <2>8, <2>13 DEF OpenClient, r
  <2> QED  BY <1>0, <1>1, <2>9, <2>11 DEF ClientInv
<1> QED  BY <1>1, <1>7, <1>8, <1>9, <1>10

\* Reading an answer, connecting and closing keep the order too.
LEMMA ReceiveKeeps ==
  ASSUME TypedInv, SeatInv, NEW c \in Clients, Receive(c)
  PROVE  ClientInv(c)'
<1> DEFINE q == toServer[c]
           r == toClient[c]
           t == Tail(r)
           S == ToServerMessage
           msg == Head(r)
           show == [action |-> "show"]
<1>1. /\ r # << >> /\ toClient'[c] = t /\ UNCHANGED <<activeGames, link>>
      /\ \/ msg.action = "add" /\ ReceiveAdd(c, msg)
         \/ msg.action \in {"show", "new_player", "leave", "welcome", "chat"}
            /\ UNCHANGED <<scene, toServer, waiting>>
  BY DEF Receive, serverVars, TypedInv, BooksInv, BooksTyped, ReceiveShow, ReceiveNewPlayer,
         ReceiveLeave, clientVars
<1>0. c \notin broken /\ c \notin broken'
  BY Unbroken DEF Receive, serverVars
<1>2. link[c] = "open" /\ OpenClient(c)
  BY <1>0, <1>1 DEF SeatInv, ClientInv, IdleClient
<1>3. q \in Seq(S) /\ InOrder(c, q) /\ r \in Seq(ToClientMessage)
  BY <1>0 DEF TypedInv, QueuesTyped, SeatInv, ClientInv
<1>4. /\ Sits(c)' <=> Sits(c)
      /\ c \in DOMAIN scene /\ c \in DOMAIN waiting
      /\ scene[c] \in {"lobby", "game_panel"}
  BY <1>1 DEF Sits, TypedInv, ClientTyped
<1>5. show \in S /\ show.action = "show"
  BY ServerMessages
<1>6. Send(c, <<show>>) => toServer'[c] = Append(q, show)
  BY <1>5, SendIs
<1>7. msg.action = "add" => msg.error \in BOOLEAN
  <2>1. msg \in ToClientMessage
    BY <1>1, <1>3, HeadTailProperties
  <2> HIDE DEF msg
  <2> QED  BY <2>1 DEF ToClientMessage, SeatsAnswer
<1> HIDE DEF q, r, t, S, msg, show
<1>8. /\ Len(t) = Len(r) - 1 /\ Len(r) \in Nat \ {0}
      /\ \A i \in 1 .. Len(t) : t[i] = r[i + 1]
      /\ msg = r[1]
      /\ Adds(t) = Adds(r) - (IF msg.action = "add" THEN 1 ELSE 0)
      /\ Adds(r) \in Nat /\ Adds(t) \in Nat
  BY <1>1, <1>3, QueueTail DEF t, msg
<1>9. Adds(q) \in Nat /\ (Adds(q) = 0 <=> ~ Has(q, "add"))
  BY <1>3, NotEmpty
<1>10. /\ ~ Has(q, "closed")
       /\ waiting[c] = Adds(q) + Adds(r) /\ waiting[c] \in {0, 1}
       /\ scene[c] = "game_panel" => waiting[c] = 0 /\ Sits(c) /\ ~ Has(q, "leave")
       /\ scene[c] = "lobby" /\ Sits(c) => Has(q, "leave") \/ Adds(r) # 0
       /\ Adds(r) # 0 => \A i \in 1 .. Len(q) : q[i].action = "show"
       /\ \A i \in 1 .. Len(r) : r[i].action = "add" => (r[i].error <=> ~ Sits(c))
  BY <1>2 DEF OpenClient, q, r
<1>11. \A i \in 1 .. Len(t) : t[i].action = "add" => (t[i].error <=> ~ Sits(c))
  BY <1>8, <1>10
<1>12. CASE msg.action # "add" /\ UNCHANGED <<scene, toServer, waiting>>
  <2>1. InOrder(c, toServer[c])'
    BY <1>3, <1>4, <1>12 DEF InOrder, q
  <2>2. OpenClient(c)'
    BY <1>1, <1>4, <1>8, <1>10, <1>11, <1>12 DEF OpenClient, q
  <2> QED  BY <1>0, <1>1, <1>2, <2>1, <2>2 DEF ClientInv
<1>13. CASE msg.action = "add" /\ ReceiveAdd(c, msg)
  <2>1. /\ Adds(r) = 1 /\ Adds(q) = 0 /\ waiting[c] = 1 /\ Adds(t) = 0
        /\ waiting'[c] = 0 /\ scene[c] = "lobby"
    <3>1. waiting' = [waiting EXCEPT ![c] = waiting[c] - 1]
      BY <1>13 DEF ReceiveAdd
    <3> QED  BY <3>1, <1>4, <1>8, <1>9, <1>10, <1>13
  <2>2. \A i \in 1 .. Len(q) : q[i].action = "show"
    BY <1>10, <2>1
  <2>3. msg.error <=> ~ Sits(c)
    <3>1. 1 \in 1 .. Len(r) /\ r[1].action = "add"
      BY <1>8, <1>13
    <3> QED  BY <1>8, <1>10, <3>1
  <2>4. CASE ~ msg.error
    <3>1. scene'[c] = "game_panel" /\ toServer'[c] = q
      BY <1>4, <1>13, <2>1, <2>4 DEF ReceiveAdd, ChangeScene, q
    <3>2. InOrder(c, toServer[c])'
      BY <1>3, <1>4, <3>1 DEF InOrder
    <3>3. ~ Has(q, "leave") /\ Sits(c)
      BY <2>2, <2>3, <2>4 DEF Has
    <3>4. OpenClient(c)'
      BY <1>1, <1>4, <1>8, <1>10, <1>11, <2>1, <2>2, <3>1, <3>3 DEF OpenClient
    <3> QED  BY <1>0, <1>1, <1>2, <3>2, <3>4 DEF ClientInv
  <2>5. CASE msg.error
    <3>1. Send(c, <<show>>) /\ scene'[c] = scene[c]
      BY <1>13, <2>5 DEF ReceiveAdd, clientVars, show
    <3> DEFINE u == Append(q, show)
    <3>2. toServer'[c] = u
      BY <1>6, <3>1
    <3>3. InOrder(c, u)
      BY <1>3, <1>5, <1>10, AppendInOrder
    <3>4. (\A a : Has(u, a) <=> Has(q, a) \/ show.action = a) /\ Adds(u) = Adds(q)
      BY <1>3, <1>5, QueueAppend
    <3> HIDE DEF u
    <3>5. InOrder(c, toServer[c])'
      BY <1>4, <3>2, <3>3 DEF InOrder
    <3>6. OpenClient(c)'
      BY <1>1, <1>4, <1>5, <1>8, <1>10, <1>11, <2>1, <2>3, <2>5, <3>1, <3>2, <3>4 DEF OpenClient
    <3> QED  BY <1>0, <1>1, <1>2, <3>5, <3>6 DEF ClientInv
  <2> QED  BY <1>7, <1>13, <2>4, <2>5
<1> QED  BY <1>1, <1>12, <1>13

LEMMA ConnectKeeps ==
  ASSUME TypedInv, SeatInv, NEW c \in Clients, Connect(c)
  PROVE  ClientInv(c)'
<1> DEFINE m == [action |-> "welcome"]
           n == [action |-> "show"]
<1>1. /\ link[c] = "new" /\ link'[c] = "open" /\ UNCHANGED activeGames
      /\ toClient'[c] = <<m>> /\ Send(c, <<n>>)
      /\ UNCHANGED <<scene, waiting>>
  BY DEF Connect, clientVars, userVars, TypedInv, BooksInv, BooksTyped
<1>0. c \notin broken /\ c \notin broken'
  BY <1>1, Unbroken DEF Connect
<1>2. toServer[c] = << >> /\ ~ Sits(c)
  BY <1>1 DEF TypedInv, BooksInv, NewIsNowhere, Sits
<1>3. n \in ToServerMessage /\ n.action = "show" /\ m.action = "welcome"
  BY ServerMessages
<1>4. toServer'[c] = Append(<< >>, n)
  BY <1>1, <1>2, <1>3, SendIs
<1>5. ~ Sits(c)'
  BY <1>1, <1>2 DEF Sits
<1>6. scene'[c] = "lobby" /\ waiting'[c] = 0
  BY <1>0, <1>1 DEF SeatInv, ClientInv, IdleClient
<1> DEFINE t == Append(<< >>, n)
           u == Append(<< >>, m)
<1>7. toServer'[c] = t /\ toClient'[c] = u
  BY <1>1, <1>4
<1>8. /\ Len(t) = 1 /\ t[1] = n /\ Adds(t) = 0 /\ \A a : Has(t, a) <=> a = "show"
      /\ Len(u) = 1 /\ u[1] = m /\ Adds(u) = 0
  <2> HIDE DEF m, n
  <2>1. Len(t) = 1 /\ t[1] = n /\ Len(u) = 1 /\ u[1] = m /\ Len(<< >>) = 0
    OBVIOUS
  <2> DEFINE M == {m, n}
             e == << >>
  <2>2. e \in Seq(M) /\ m \in M /\ n \in M /\ Adds(e) = 0
    BY AddsEmpty
  <2> HIDE DEF M, e
  <2>3. Adds(Append(e, n)) = 0 /\ Adds(Append(e, m)) = 0
    BY <1>3, <2>2, AddsAppend
  <2>4. 1 .. 1 = {1}
    OBVIOUS
  <2>5. Adds(t) = 0 /\ Adds(u) = 0
    BY <2>3 DEF e
  <2> HIDE DEF t, u
  <2> QED  BY <1>3, <2>1, <2>5, <2>4 DEF Has
<1> HIDE DEF t, u, m, n
<1>9. InOrder(c, toServer[c])'
  <2>1. 1 .. Len(t) = {1}
    BY <1>8
  <2> QED  BY <1>3, <1>7, <1>8, <2>1 DEF InOrder
<1>10. \A i \in 1 .. Len(u) : u[i].action = "welcome"
  BY <1>3, <1>8
<1>11. OpenClient(c)'
  BY <1>3, <1>5, <1>6, <1>7, <1>8, <1>10 DEF OpenClient
<1> QED  BY <1>0, <1>1, <1>9, <1>11 DEF ClientInv

LEMMA CloseKeeps ==
  ASSUME TypedInv, SeatInv, NEW c \in Clients, Close(c)
  PROVE  ClientInv(c)'
<1> DEFINE q == toServer[c]
           n == [action |-> "closed"]
<1>1. /\ link[c] = "open" /\ link'[c] = "closed" /\ UNCHANGED activeGames
      /\ toClient'[c] = << >> /\ scene'[c] = "lobby" /\ waiting'[c] = 0 /\ game'[c] = NoGame
  BY DEF Close, serverVars, TypedInv, BooksInv, BooksTyped, ClientTyped
<1>0. c \notin broken /\ c \notin broken'
  BY <1>1, Unbroken DEF Close, serverVars
<1>2. PICK k \in 0 .. Len(q) : toServer'[c] = Append(SubSeq(q, 1, k), n)
  BY DEF Close, TypedInv, BooksInv, BooksTyped
<1>3. q \in Seq(ToServerMessage) /\ InOrder(c, q) /\ ~ Has(q, "closed")
  BY <1>0, <1>1 DEF TypedInv, QueuesTyped, SeatInv, ClientInv, OpenClient
<1>4. Sits(c)' <=> Sits(c)
  BY <1>1 DEF Sits
<1>5. n \in ToServerMessage /\ n.action = "closed"
  BY ServerMessages
<1> DEFINE p == SubSeq(q, 1, k)
           t == Append(p, n)
<1> HIDE DEF n, q
<1>6. p \in Seq(ToServerMessage) /\ Len(p) = k /\ k \in Nat /\ \A i \in 1 .. k : p[i] = q[i]
  BY <1>3
<1> HIDE DEF p
<1>7. Len(t) = k + 1 /\ t[k + 1] = n /\ \A i \in 1 .. k : t[i] = p[i]
  BY <1>5, <1>6, QueueAppend
<1> HIDE DEF t
<1>8. InOrder(c, t)
  <2> SUFFICES ASSUME NEW i \in 1 .. Len(t)
               PROVE  /\ t[i].action = "closed" => i = Len(t)
                      /\ t[i].action \in {"chat", "leave"} =>
                           Sits(c) /\ \A j \in 1 .. i - 1 : t[j].action \notin {"leave", "add"}
                      /\ t[i].action = "add" =>
                           /\ \A j \in 1 .. i - 1 : t[j].action # "add"
                           /\ Sits(c) => \E j \in 1 .. i - 1 : t[j].action = "leave"
    BY DEF InOrder
  <2>1. CASE i \in 1 .. k
    <3>1. t[i] = q[i] /\ (\A j \in 1 .. i - 1 : t[j] = q[j]) /\ i \in 1 .. Len(q)
      BY <1>2, <1>3, <1>6, <1>7, <2>1, LenProperties
    <3> QED  BY <1>3, <3>1 DEF InOrder, Has
  <2>2. CASE i = k + 1
    BY <1>5, <1>7, <2>2
  <2> QED  BY <1>6, <1>7, <2>1, <2>2
<1>9. InOrder(c, toServer[c])'
  <2>1. toServer'[c] = t
    BY <1>2 DEF t, p
  <2> QED  BY <1>4, <1>8, <2>1 DEF InOrder
<1>10. IdleClient(c)'
  BY <1>1 DEF IdleClient, NoGame
<1> QED  BY <1>0, <1>1, <1>9, <1>10 DEF ClientInv

(***************************************************************************)
(* Who sits where after a client has sat down or stood up.                 *)
(***************************************************************************)
LEMMA JoinsSeats ==
  ASSUME TypedInv, SeatInv, fault = "none", NEW c \in Clients, ~ Sits(c), NEW i, SitsDown(c, i)
  PROVE  Sits(c)' /\ SeatedOnce' /\ \A d \in Clients \ {c} : Sits(d)' <=> Sits(d)
<1>1. /\ DOMAIN activeGames' = DOMAIN activeGames \cup {i}
      /\ activeGames'[i] = Append(Old(i), c)
      /\ \A j \in DOMAIN activeGames : j # i => activeGames'[j] = activeGames[j]
      /\ BooksTyped
  BY DEF SitsDown, TypedInv, BooksInv
<1>2. \A d : Occurrences(d, activeGames'[i]) = Occurrences(d, Old(i)) + (IF d = c THEN 1 ELSE 0)
  <2> DEFINE s == Old(i)
  <2>1. s \in Seq(Clients)
    BY <1>1, OldTyped
  <2> HIDE DEF s
  <2>2. \A d : Occurrences(d, Append(s, c)) = Occurrences(d, s) + (IF d = c THEN 1 ELSE 0)
    BY <2>1, OccurrencesAppend
  <2> QED  BY <1>1, <2>2 DEF s
<1>3. \A d \in Clients : \A j :
        Occurrences(d, Old(j)) = IF j \in DOMAIN activeGames THEN Occurrences(d, activeGames[j]) ELSE 0
  BY OccurrencesEmpty DEF Old
<1>4. \A d \in Clients, j \in DOMAIN activeGames' :
        Occurrences(d, activeGames'[j]) =
          IF j = i /\ d = c THEN 1
          ELSE IF j \in DOMAIN activeGames THEN Occurrences(d, activeGames[j]) ELSE 0
  <2> SUFFICES ASSUME NEW d \in Clients, NEW j \in DOMAIN activeGames'
               PROVE  Occurrences(d, activeGames'[j]) =
                        IF j = i /\ d = c THEN 1
                        ELSE IF j \in DOMAIN activeGames THEN Occurrences(d, activeGames[j]) ELSE 0
    OBVIOUS
  <2>1. Occurrences(c, Old(i)) = 0
    BY <1>3 DEF Sits
  <2>2. Occurrences(d, Old(j)) \in {0, 1}
    BY <1>3 DEF SeatInv, SeatedOnce
  <2>3. CASE j = i
    BY <1>2, <1>3, <2>1, <2>2, <2>3
  <2>4. CASE j # i
    BY <1>1, <2>4
  <2> QED  BY <2>3, <2>4
<1>5. Sits(c)'
  BY <1>1, <1>4 DEF Sits
<1>6. \A d \in Clients \ {c} : Sits(d)' <=> Sits(d)
  BY <1>1, <1>4 DEF Sits
<1>7. SeatedOnce'
  <2>1. \A d \in Clients, j \in DOMAIN activeGames' :
          Occurrences(d, activeGames'[j]) \in {0, 1}
    BY <1>4 DEF SeatInv, SeatedOnce
  <2>2. ASSUME NEW d \in Clients, NEW j \in DOMAIN activeGames', NEW k \in DOMAIN activeGames',
               Occurrences(d, activeGames'[j]) # 0, Occurrences(d, activeGames'[k]) # 0
        PROVE  j = k
    <3>1. CASE d = c
      BY <1>4, <2>2, <3>1 DEF Sits
    <3>2. CASE d # c
      BY <1>4, <2>2, <3>2 DEF SeatInv, SeatedOnce
    <3> QED  BY <3>1, <3>2
  <2> QED  BY <2>1, <2>2 DEF SeatedOnce
<1> QED  BY <1>5, <1>6, <1>7

LEMMA PartsSeats ==
  ASSUME TypedInv, SeatInv, fault = "none", NEW c \in Clients, NEW i, Parts(c, i)
  PROVE  ~ Sits(c)' /\ SeatedOnce' /\ \A d \in Clients \ {c} : Sits(d)' <=> Sits(d)
<1>1. /\ i \in DOMAIN activeGames /\ Occurrences(c, activeGames[i]) = 1
      /\ activeGames' = [activeGames EXCEPT ![i] = RemoveFirst(activeGames[i], c)]
      /\ BooksTyped
  BY DEF Parts, TypedInv, BooksInv
<1> DEFINE s == activeGames[i]
           t == RemoveFirst(s, c)
<1>2. \A d : Occurrences(d, t) = Occurrences(d, s) - (IF d = c THEN 1 ELSE 0)
  <2>1. s \in Seq(Clients) /\ Contains(s, c)
    BY <1>1, Typed, OccurrencesContains
  <2> HIDE DEF s
  <2> QED  BY <2>1, OccurrencesRemoveFirst
<1> HIDE DEF t
<1>3. /\ \A j \in DOMAIN activeGames : activeGames'[j] = IF j = i THEN t ELSE activeGames[j]
      /\ DOMAIN activeGames' = DOMAIN activeGames
  BY <1>1 DEF t
<1>4. \A d \in Clients, j \in DOMAIN activeGames :
        Occurrences(d, activeGames'[j]) =
          IF d = c THEN 0 ELSE Occurrences(d, activeGames[j])
  <2> SUFFICES ASSUME NEW d \in Clients, NEW j \in DOMAIN activeGames
               PROVE  Occurrences(d, activeGames'[j]) =
                        IF d = c THEN 0 ELSE Occurrences(d, activeGames[j])
    OBVIOUS
  <2>1. Occurrences(d, activeGames[j]) \in {0, 1}
    BY DEF SeatInv, SeatedOnce
  <2>2. j # i => Occurrences(c, activeGames[j]) = 0
    BY <1>1 DEF SeatInv, SeatedOnce
  <2>3. CASE j = i
    BY <1>1, <1>2, <1>3, <2>1, <2>3
  <2>4. CASE j # i
    BY <1>1, <1>3, <2>2, <2>4
  <2> QED  BY <2>3, <2>4
<1>5. ~ Sits(c)' /\ \A d \in Clients \ {c} : Sits(d)' <=> Sits(d)
  BY <1>3, <1>4 DEF Sits
<1>6. SeatedOnce'
  <2>1. \A d \in Clients, j \in DOMAIN activeGames :
          /\ Occurrences(d, activeGames'[j]) \in {0, 1}
          /\ Occurrences(d, activeGames'[j]) # 0 => Occurrences(d, activeGames[j]) # 0
    BY <1>4 DEF SeatInv, SeatedOnce
  <2> QED  BY <1>3, <2>1 DEF SeatInv, SeatedOnce
<1> QED  BY <1>5, <1>6

LEMMA StaysSeated ==
  ASSUME SeatInv, UNCHANGED activeGames
  PROVE  /\ fault = "none" => SeatedOnce'
         /\ \A d \in Clients : Sits(d)' <=> Sits(d)
  BY DEF SeatInv, SeatedOnce, Sits

\* What the order of a queue says of it when its first message is taken.
LEMMA TailInOrder ==
  ASSUME NEW c, NEW M, NEW q \in Seq(M), q # << >>, InOrder(c, q)
  PROVE  LET t == Tail(q)
             a == Head(q).action
         IN  /\ a = "closed" => t = << >>
             /\ a = "add" => ~ Sits(c) /\ ~ Has(t, "add")
             /\ a \in {"chat", "leave"} => Sits(c)
             /\ \A i \in 1 .. Len(t) :
                  /\ t[i].action = "closed" => i = Len(t)
                  /\ t[i].action \in {"chat", "leave"} =>
                       /\ Sits(c) /\ a \notin {"leave", "add"}
                       /\ \A j \in 1 .. i - 1 : t[j].action \notin {"leave", "add"}
                  /\ t[i].action = "add" =>
                       /\ a # "add" /\ \A j \in 1 .. i - 1 : t[j].action # "add"
                       /\ Sits(c) => a = "leave" \/ \E j \in 1 .. i - 1 : t[j].action = "leave"
<1> DEFINE t == Tail(q)
           a == Head(q).action
<1>1. /\ t \in Seq(M) /\ Len(t) = Len(q) - 1 /\ Len(q) \in Nat \ {0}
      /\ \A i \in 1 .. Len(t) : t[i] = q[i + 1]
      /\ a = q[1].action
  BY QueueTail
<1> HIDE DEF t, a
<1>2. 1 \in 1 .. Len(q) /\ 1 .. 1 - 1 = {}
  BY <1>1
<1>3. /\ a = "closed" => Len(q) = 1
      /\ a = "add" => ~ Sits(c)
      /\ a \in {"chat", "leave"} => Sits(c)
  BY <1>1, <1>2 DEF InOrder
<1>4. a = "closed" => t = << >>
  BY <1>1, <1>3, EmptySeq
<1>5. ASSUME NEW i \in 1 .. Len(t)
      PROVE  /\ t[i].action = "closed" => i = Len(t)
             /\ t[i].action \in {"chat", "leave"} =>
                  /\ Sits(c) /\ a \notin {"leave", "add"}
                  /\ \A j \in 1 .. i - 1 : t[j].action \notin {"leave", "add"}
             /\ t[i].action = "add" =>
                  /\ a # "add" /\ \A j \in 1 .. i - 1 : t[j].action # "add"
                  /\ Sits(c) => a = "leave" \/ \E j \in 1 .. i - 1 : t[j].action = "leave"
  <2> DEFINE k == i + 1
  <2>1. k \in 1 .. Len(q) /\ q[k] = t[i] /\ 1 \in 1 .. k - 1
    BY <1>1
  <2>2. \A j \in 1 .. i - 1 : j + 1 \in 1 .. k - 1 /\ t[j] = q[j + 1]
    BY <1>1
  <2>3. \A l \in 1 .. k - 1 : l = 1 \/ (l - 1 \in 1 .. i - 1 /\ q[l] = t[l - 1])
    <3> SUFFICES ASSUME NEW l \in 1 .. k - 1, l # 1
                 PROVE  l - 1 \in 1 .. i - 1 /\ q[l] = t[l - 1]
      OBVIOUS
    <3>1. l - 1 \in 1 .. i - 1 /\ l - 1 \in 1 .. Len(t) /\ (l - 1) + 1 = l
      BY <1>1
    <3> QED  BY <1>1, <3>1
  <2>4. k = Len(q) => i = Len(t)
    BY <1>1
  <2> HIDE DEF k
  <2>5. /\ q[k].action = "closed" => k = Len(q)
        /\ q[k].action \in {"chat", "leave"} =>
             Sits(c) /\ \A j \in 1 .. k - 1 : q[j].action \notin {"leave", "add"}
        /\ q[k].action = "add" =>
             /\ \A j \in 1 .. k - 1 : q[j].action # "add"
             /\ Sits(c) => \E j \in 1 .. k - 1 : q[j].action = "leave"
    BY <2>1 DEF InOrder
  <2>6. Sits(c) /\ t[i].action = "add" => a = "leave" \/ \E j \in 1 .. i - 1 : t[j].action = "leave"
    <3> SUFFICES ASSUME Sits(c), t[i].action = "add", a # "leave"
                 PROVE  \E j \in 1 .. i - 1 : t[j].action = "leave"
      OBVIOUS
    <3>1. PICK l \in 1 .. k - 1 : q[l].action = "leave"
      BY <2>1, <2>5
    <3> QED  BY <1>1, <2>3, <3>1
  <2> QED  BY <1>1, <2>1, <2>2, <2>4, <2>5, <2>6
<1>6. a = "add" => ~ Has(t, "add")
  BY <1>5 DEF Has
<1> QED  BY <1>3, <1>4, <1>5, <1>6 DEF t, a

(***************************************************************************)
(* The client whose message the server handles.                            *)
(***************************************************************************)
LEMMA OwnWork ==
  ASSUME TypedInv, SeatInv, NEW c \in Clients, c \notin broken, DoWork(c),
         SeatWork(c, Head(toServer[c])),
         \A i : Joins(c, i) /\ ~ Sits(c) => Sits(c)', \A i : Parts(c, i) => ~ Sits(c)',
         UNCHANGED activeGames => (Sits(c)' <=> Sits(c))
  PROVE  ClientInv(c)'
<1> DEFINE q == toServer[c]
           r == toClient[c]
           t == Tail(q)
           msg == Head(q)
           a == msg.action
<1>1. /\ q # << >> /\ toServer'[c] = t /\ UNCHANGED <<link, scene, waiting, game>>
      /\ c \notin broken'
  BY DEF DoWork, clientVars, userVars, TypedInv, BooksInv, BooksTyped
<1>2. /\ q \in Seq(ToServerMessage) /\ r \in Seq(ToClientMessage) /\ ClientInv(c)
      /\ InOrder(c, q)
  BY DEF TypedInv, QueuesTyped, SeatInv, ClientInv
<1>3. /\ a = "closed" => t = << >>
      /\ a = "add" => ~ Sits(c) /\ ~ Has(t, "add")
      /\ a \in {"chat", "leave"} => Sits(c)
      /\ \A i \in 1 .. Len(t) :
           /\ t[i].action = "closed" => i = Len(t)
           /\ t[i].action \in {"chat", "leave"} =>
                /\ Sits(c) /\ a \notin {"leave", "add"}
                /\ \A j \in 1 .. i - 1 : t[j].action \notin {"leave", "add"}
           /\ t[i].action = "add" =>
                /\ a # "add" /\ \A j \in 1 .. i - 1 : t[j].action # "add"
                /\ Sits(c) => a = "leave" \/ \E j \in 1 .. i - 1 : t[j].action = "leave"
  <2> HIDE DEF q
  <2> QED  BY <1>1, <1>2, TailInOrder
<1>4. /\ t \in Seq(ToServerMessage) /\ Len(t) = Len(q) - 1 /\ Len(q) \in Nat \ {0}
      /\ \A i \in 1 .. Len(t) : t[i] = q[i + 1]
      /\ a = q[1].action
      /\ \A b : Has(q, b) <=> Has(t, b) \/ a = b
      /\ Adds(t) = Adds(q) - (IF a = "add" THEN 1 ELSE 0)
      /\ Adds(q) \in Nat /\ Adds(t) \in Nat
      /\ a \in {"show", "leave", "chat", "closed", "add"}
  <2> HIDE DEF q
  <2>1. msg \in ToServerMessage
    BY <1>1, <1>2, QueueTail
  <2>2. a \in {"show", "leave", "chat", "closed", "add"}
    <3> HIDE DEF msg
    <3> QED  BY <2>1 DEF ToServerMessage
  <2> QED  BY <1>1, <1>2, <2>2, QueueTail
<1>5. Adds(r) \in Nat /\ Len(r) \in Nat
  <2> HIDE DEF r
  <2> QED  BY <1>2, NotEmpty
<1>6. \A m : /\ Adds(Append(r, m)) = Adds(r) + (IF m.action = "add" THEN 1 ELSE 0)
             /\ Len(Append(r, m)) = Len(r) + 1 /\ Append(r, m)[Len(r) + 1] = m
             /\ \A i \in 1 .. Len(r) : Append(r, m)[i] = r[i]
  <2> SUFFICES ASSUME NEW m
               PROVE  /\ Adds(Append(r, m)) = Adds(r) + (IF m.action = "add" THEN 1 ELSE 0)
                      /\ Len(Append(r, m)) = Len(r) + 1 /\ Append(r, m)[Len(r) + 1] = m
                      /\ \A i \in 1 .. Len(r) : Append(r, m)[i] = r[i]
    OBVIOUS
  <2> HIDE DEF r
  <2> DEFINE M == ToClientMessage \cup {m}
  <2>1. r \in Seq(M) /\ m \in M
    BY <1>2, SeqMonotonic
  <2> HIDE DEF M
  <2> QED  BY <2>1, QueueAppend
<1>7. \/ /\ a = "add" /\ ~ Sits(c)
         /\ \/ \E i : Joins(c, i)
            \/ UNCHANGED activeGames /\ Told(c, RefusalTold)
      \/ a = "show" /\ UNCHANGED activeGames /\ Told(c, RoomsTold)
      \/ a = "chat" /\ UNCHANGED activeGames /\ NotTold(c)
      \/ a = "leave" /\ \E i : Parts(c, i)
      \/ a = "closed" /\ ((~ Sits(c) /\ UNCHANGED activeGames) \/ \E i : Parts(c, i))
                      /\ NotTold(c)
  <2>1. SeatWork(c, msg)
    OBVIOUS
  <2> HIDE DEF msg
  <2> QED  BY <2>1 DEF SeatWork, Parts
<1> HIDE DEF q, t, msg, a
\* The order of what is left in the queue.
<1>8. a = "add" \/ (Sits(c)' <=> Sits(c)) \/ (a \in {"leave", "closed"} /\ ~ Sits(c)')
  BY <1>7
<1>9. InOrder(c, toServer[c])'
  <2> SUFFICES ASSUME NEW i \in 1 .. Len(t)
               PROVE  /\ t[i].action = "closed" => i = Len(t)
                      /\ t[i].action \in {"chat", "leave"} =>
                           Sits(c)' /\ \A j \in 1 .. i - 1 : t[j].action \notin {"leave", "add"}
                      /\ t[i].action = "add" =>
                           /\ \A j \in 1 .. i - 1 : t[j].action # "add"
                           /\ Sits(c)' => \E j \in 1 .. i - 1 : t[j].action = "leave"
    BY <1>1 DEF InOrder
  <2>1. Len(t) # 0 /\ Len(<< >>) = 0
    BY <1>4
  <2>2. a # "closed"
    BY <1>3, <2>1
  <2>3. t[i].action \in {"chat", "leave"} => Sits(c)'
    BY <1>3, <1>8, <2>2
  <2>4. t[i].action = "add" /\ Sits(c)' => \E j \in 1 .. i - 1 : t[j].action = "leave"
    <3> SUFFICES ASSUME t[i].action = "add", Sits(c)'
                 PROVE  \E j \in 1 .. i - 1 : t[j].action = "leave"
      OBVIOUS
    <3>1. a # "add"
      BY <1>3
    <3>2. Sits(c) /\ a # "leave"
      BY <1>3, <1>7, <1>8, <2>2, <3>1
    <3> QED  BY <1>3, <3>2
  <2> QED  BY <1>3, <2>3, <2>4
<1>10. CASE link[c] # "open"
  <2>1. toClient'[c] = toClient[c]
    BY <1>7, <1>10 DEF Told, NotTold, Joins, Parts
  <2>2. IdleClient(c)'
    BY <1>1, <1>2, <1>10, <2>1 DEF ClientInv, IdleClient
  <2> QED  BY <1>1, <1>9, <1>10, <2>2 DEF ClientInv
<1>11. CASE link[c] = "open"
  <2>1. /\ ~ Has(q, "closed")
        /\ waiting[c] = Adds(q) + Adds(r) /\ waiting[c] \in {0, 1}
        /\ scene[c] = "game_panel" => waiting[c] = 0 /\ Sits(c) /\ ~ Has(q, "leave")
        /\ scene[c] = "lobby" /\ Sits(c) => Has(q, "leave") \/ Adds(r) # 0
        /\ Adds(r) # 0 => \A i \in 1 .. Len(q) : q[i].action = "show"
        /\ \A i \in 1 .. Len(r) : r[i].action = "add" => (r[i].error <=> ~ Sits(c))
    BY <1>2, <1>11 DEF ClientInv, OpenClient, q, r
  <2>2. ~ Has(t, "closed") /\ a # "closed"
    BY <1>4, <2>1
  <2>3. Adds(r) # 0 => (\A i \in 1 .. Len(t) : t[i].action = "show") /\ a = "show"
    <3>1. \A i \in 1 .. Len(t) : i + 1 \in 1 .. Len(q)
      BY <1>4
    <3>2. 1 \in 1 .. Len(q)
      BY <1>4
    <3> QED  BY <1>4, <2>1, <3>1, <3>2
  <2>4. CASE a = "add"
    <3>1. ~ Sits(c) /\ ~ Has(t, "add") /\ Adds(r) = 0 /\ Adds(q) = 1 /\ Adds(t) = 0
          /\ waiting[c] = 1 /\ scene[c] # "game_panel"
      BY <1>3, <1>4, <1>5, <2>1, <2>3, <2>4
    <3>2. \A i \in 1 .. Len(t) : t[i].action = "show"
      <4> SUFFICES ASSUME NEW i \in 1 .. Len(t) PROVE t[i].action = "show"
        OBVIOUS
      <4>1. t[i].action \notin {"chat", "leave", "add", "closed"}
        BY <1>3, <2>2, <2>4, <3>1 DEF Has
      <4>2. t[i] \in ToServerMessage
        BY <1>4, ElementOfSeq
      <4>3. t[i].action \in {"show", "leave", "chat", "closed", "add"}
        BY <4>2 DEF ToServerMessage
      <4> QED  BY <4>1, <4>3
    <3>3. \A i \in 1 .. Len(r) : r[i].action # "add"
      BY <1>2, <3>1, AddsNone DEF r
    <3>4. ASSUME NEW m, m.action = "add", Told(c, m),
                 m.error => ~ Sits(c)', ~ m.error => Sits(c)'
          PROVE  OpenClient(c)'
      <4> DEFINE u == Append(r, m)
      <4>1. toClient'[c] = u
        BY <1>11, <3>4 DEF Told, r
      <4>2. /\ Adds(u) = 1 /\ Len(u) = Len(r) + 1 /\ u[Len(r) + 1] = m
            /\ \A i \in 1 .. Len(r) : u[i] = r[i]
        BY <1>6, <3>1, <3>4
      <4> HIDE DEF u
      <4>3. \A i \in 1 .. Len(u) : u[i].action = "add" => i = Len(r) + 1
        <5> SUFFICES ASSUME NEW i \in 1 .. Len(u), i # Len(r) + 1
                     PROVE  u[i].action # "add"
          OBVIOUS
        <5>1. i \in 1 .. Len(r)
          BY <1>5, <4>2
        <5> QED  BY <3>3, <4>2, <5>1
      <4>4. \A i \in 1 .. Len(u) : u[i].action = "add" => (u[i].error <=> ~ Sits(c)')
        BY <3>4, <4>2, <4>3
      <4>5. ~ Has(t, "closed") /\ waiting'[c] = 1 /\ scene'[c] # "game_panel"
        BY <1>1, <2>2, <3>1
      <4> QED  BY <1>1, <3>1, <3>2, <4>1, <4>2, <4>4, <4>5 DEF OpenClient
    <3>5. ASSUME \E i : Joins(c, i)
          PROVE  OpenClient(c)'
      <4>1. PICK i : Joins(c, i)
        BY <3>5
      <4> DEFINE m == SeatsTold(activeGames'[i])
      <4>2. Sits(c)' /\ Told(c, m)
        BY <3>1, <4>1 DEF Joins
      <4>3. m.action = "add" /\ ~ m.error
        BY DEF SeatsTold
      <4> HIDE DEF m
      <4> QED  BY <3>4, <4>2, <4>3
    <3>6. ASSUME UNCHANGED activeGames, Told(c, RefusalTold)
          PROVE  OpenClient(c)'
      <4> DEFINE m == RefusalTold
      <4>1. m.action = "add" /\ m.error
        BY DEF RefusalTold
      <4>2. ~ Sits(c)' /\ Told(c, m)
        BY <3>1, <3>6
      <4> HIDE DEF m
      <4> QED  BY <3>4, <4>1, <4>2
    <3>7. (\E i : Joins(c, i)) \/ (UNCHANGED activeGames /\ Told(c, RefusalTold))
      BY <1>7, <2>4
    <3>8. OpenClient(c)'
      BY <3>5, <3>6, <3>7
    <3> QED  BY <1>1, <1>9, <1>11, <3>8 DEF ClientInv
  <2>5. CASE a = "show"
    <3> DEFINE m == RoomsTold
               u == Append(r, m)
    <3>1. m.action = "show"
      BY DEF RoomsTold
    <3> HIDE DEF m
    <3>2. toClient'[c] = u /\ (Sits(c)' <=> Sits(c))
      BY <1>7, <1>11, <2>5 DEF Told, m, r
    <3>3. /\ Adds(u) = Adds(r) /\ Len(u) = Len(r) + 1 /\ u[Len(r) + 1] = m
          /\ \A i \in 1 .. Len(r) : u[i] = r[i]
      BY <1>5, <1>6, <3>1
    <3> HIDE DEF u
    <3>4. \A i \in 1 .. Len(u) : u[i].action = "add" => (u[i].error <=> ~ Sits(c))
      <4> SUFFICES ASSUME NEW i \in 1 .. Len(u), u[i].action = "add"
                   PROVE  u[i].error <=> ~ Sits(c)
        OBVIOUS
      <4>1. i \in 1 .. Len(r)
        BY <1>5, <3>1, <3>3
      <4> QED  BY <2>1, <3>3, <4>1
    <3>5. OpenClient(c)'
      BY <1>1, <1>4, <2>1, <2>2, <2>3, <2>5, <3>2, <3>3, <3>4 DEF OpenClient
    <3> QED  BY <1>1, <1>9, <1>11, <3>5 DEF ClientInv
  <2>6. CASE a = "chat"
    <3>0. UNCHANGED activeGames /\ NotTold(c)
      BY <1>7, <2>6
    <3>1. toClient'[c] = r /\ (Sits(c)' <=> Sits(c))
      BY <3>0 DEF NotTold
    <3>2. OpenClient(c)'
      BY <1>1, <1>4, <2>1, <2>2, <2>3, <2>6, <3>1 DEF OpenClient
    <3> QED  BY <1>1, <1>9, <1>11, <3>2 DEF ClientInv
  <2>7. CASE a = "leave"
    <3>0. PICK i : Parts(c, i)
      BY <1>7, <2>7
    <3>1. toClient'[c] = r /\ ~ Sits(c)' /\ Adds(r) = 0
      BY <1>5, <2>3, <2>7, <3>0 DEF Parts, NotTold
    <3>2. \A k \in 1 .. Len(r) : r[k].action # "add"
      BY <1>2, <3>1, AddsNone DEF r
    <3>3. scene[c] # "game_panel"
      BY <1>4, <2>1, <2>7
    <3>4. OpenClient(c)'
      BY <1>1, <1>4, <2>1, <2>2, <2>7, <3>1, <3>2, <3>3 DEF OpenClient
    <3> QED  BY <1>1, <1>9, <1>11, <3>4 DEF ClientInv
  <2> QED  BY <1>4, <2>2, <2>4, <2>5, <2>6, <2>7
<1> QED  BY <1>10, <1>11

\* What others are told is never an answer to a request.
LEMMA SomeFields ==
  \A d : NewPlayerTold(d).action # "add" /\ LeaveTold(d).action # "add" /\ ChatTold(d).action # "add"
  BY DEF NewPlayerTold, LeaveTold, ChatTold

\* The server's step keeps the whole invariant.
LEMMA WorkKeeps ==
  ASSUME TypedInv, SeatInv, NEW c \in Clients, c \notin broken, DoWork(c)
  PROVE  SeatInv'
<1> DEFINE msg == Head(toServer[c])
<1>1. /\ UNCHANGED <<link, broken, scene, waiting, game>> /\ fault = "none"
      /\ toServer[c] # << >> /\ toServer' = [toServer EXCEPT ![c] = Tail(@)]
      /\ \A d \in Clients : d # c => toServer'[d] = toServer[d]
  BY DEF DoWork, clientVars, userVars, TypedInv, BooksInv, BooksTyped
<1>2. UNCHANGED fault /\ SeatWork(c, msg)
  BY SeatWorkCases
<1>3. c \in sessions /\ SeatedOnce /\ HasSession /\ fault = "none"
  BY <1>1 DEF SeatInv, HasSession
<1>4. UNCHANGED activeGames => SeatedOnce' /\ \A d \in Clients : Sits(d)' <=> Sits(d)
  BY <1>1, StaysSeated
<1>5. \A i : Joins(c, i) /\ ~ Sits(c) => Sits(c)' /\ SeatedOnce' /\ \A d \in Clients \ {c} : Sits(d)' <=> Sits(d)
  BY <1>1, JoinsSeats DEF Joins
<1>6. \A i : Parts(c, i) => ~ Sits(c)' /\ SeatedOnce' /\ \A d \in Clients \ {c} : Sits(d)' <=> Sits(d)
  BY <1>1, PartsSeats
<1>7. ClientInv(c)'
  BY <1>2, <1>4, <1>5, <1>6, OwnWork
<1>8. /\ (\E i : Joins(c, i) /\ ~ Sits(c)) \/ (\E i : Parts(c, i)) \/ UNCHANGED activeGames
      /\ \/ msg.action = "closed" /\ sessions' = sessions \ {c}
         \/ sessions' = sessions /\ msg.action # "closed"
      /\ \A d \in Clients \ {c} : Watches(d)
      /\ msg.action = "closed" => ~ Sits(c)'
  <2> HIDE DEF msg
  <2>1. \A i : Joins(c, i) => \A d \in Clients \ {c} : Watches(d)
    BY SomeFields DEF Joins, Watches
  <2>2. \A i : Parts(c, i) => \A d \in Clients \ {c} : Watches(d)
    BY SomeFields DEF Parts, Watches
  <2>3. CASE msg.action = "add"
    BY <1>2, <2>1, <2>3 DEF SeatWork, Watches
  <2>4. CASE msg.action = "show"
    BY <1>2, <2>4 DEF SeatWork, Watches
  <2>5. CASE msg.action = "chat"
    <3>1. /\ UNCHANGED <<activeGames, sessions>>
          /\ \A d \in Clients \ {c} : NotTold(d) \/ Told(d, ChatTold(c))
      BY <1>2, <2>5 DEF SeatWork
    <3> QED  BY <2>5, <3>1, SomeFields DEF Watches
  <2>6. CASE msg.action = "leave"
    BY <1>2, <2>2, <2>6 DEF SeatWork
  <2>7. CASE msg.action = "closed"
    <3>1. sessions' = sessions \ {c}
      BY <1>2, <2>7 DEF SeatWork
    <3>2. CASE ~ Sits(c) /\ UNCHANGED activeGames /\ \A d \in Clients : NotTold(d)
      BY <1>4, <2>7, <3>1, <3>2 DEF Watches
    <3>3. ASSUME NEW i, Parts(c, i)
          PROVE  /\ (\E j : Parts(c, j)) /\ ~ Sits(c)'
                 /\ \A d \in Clients \ {c} : Watches(d)
      BY <1>6, <2>2, <3>3
    <3>4. \/ ~ Sits(c) /\ UNCHANGED activeGames /\ \A d \in Clients : NotTold(d)
          \/ \E i : Parts(c, i)
      BY <1>2, <2>7 DEF SeatWork
    <3>5. CASE \E i : Parts(c, i)
      BY <2>7, <3>1, <3>3, <3>5
    <3> QED  BY <3>2, <3>4, <3>5
  <2> QED  BY <1>2, <2>3, <2>4, <2>5, <2>6, <2>7 DEF SeatWork
<1> HIDE DEF msg
<1>9. SeatedOnce' /\ \A d \in Clients \ {c} : Sits(d)' <=> Sits(d)
  BY <1>4, <1>5, <1>6, <1>8
<1>10. \A d \in Clients \ {c} : ClientInv(d)'
  <2>1. sessions' \subseteq sessions
    BY <1>8
  <2> QED  BY <1>1, <1>8, <1>9, <2>1, OthersKeep
<1>11. HasSession'
  <2>1. ASSUME NEW d \in Clients,
               Sits(d)' \/ (d \notin broken' /\ (toServer'[d] # << >> \/ link'[d] = "open"))
        PROVE  d \in sessions'
    <3>1. CASE d # c
      BY <1>1, <1>3, <1>8, <1>9, <2>1, <3>1 DEF HasSession
    <3>2. CASE d = c /\ msg.action # "closed"
      BY <1>3, <1>8, <3>2
    <3>3. CASE d = c /\ msg.action = "closed"
      <4>1. toServer[c] \in Seq(ToServerMessage) /\ InOrder(c, toServer[c])
        BY DEF TypedInv, QueuesTyped, SeatInv, ClientInv
      <4> DEFINE q == toServer[c]
      <4>2. q \in Seq(ToServerMessage) /\ q # << >> /\ InOrder(c, q) /\ Head(q).action = "closed"
        BY <1>1, <3>3, <4>1 DEF msg
      <4> HIDE DEF q
      <4>3. Tail(q) = << >> /\ Has(q, "closed")
        BY <4>2, TailInOrder, QueueTail
      <4>4. toServer'[c] = << >>
        BY <1>1, <4>3 DEF q, TypedInv, BooksInv, BooksTyped
      <4>5. link[c] # "open"
        BY <4>3 DEF q, SeatInv, ClientInv, OpenClient
      <4> QED  BY <1>1, <1>8, <2>1, <3>3, <4>4, <4>5
    <3> QED  BY <3>1, <3>2, <3>3
  <2> QED  BY <2>1 DEF HasSession
<1> QED  BY <1>2, <1>3, <1>7, <1>9, <1>10, <1>11 DEF SeatInv

(***************************************************************************)
(* A message read from a client to whom a write has failed: its session is *)
(* gone, so that an answer to it ends the server, and what is not answered *)
(* is at most repeated to others.                                          *)
(***************************************************************************)
StaleWork(c) ==
  \/ /\ fault' # "none" /\ UNCHANGED <<sessions, toClient>>
     /\ UNCHANGED activeGames \/ \E i : SitsDown(c, i)
  \/ /\ UNCHANGED <<fault, activeGames, sessions>> /\ NotTold(c)
     /\ \A d \in Clients \ {c} :
          NotTold(d) \/ Told(d, ChatTold(c)) \/ Told(d, LeaveTold(c))

\* A message about a seat is not a seat's, so that nobody is told of it twice.
LEMMA RepeatedOnce ==
  ASSUME TypedInv, SeatInv, fault = "none", UNCHANGED <<activeGames, sessions>>,
         NEW c \in Clients, ~ Sits(c), NEW i \in DOMAIN activeGames, NEW A, NEW m,
         \A d : Occurrences(d, A) = IF d = c THEN 0 ELSE Occurrences(d, activeGames[i]),
         ToSet(A) \subseteq ToSet(activeGames[i]), SentOne(A, m)
  PROVE  /\ UNCHANGED fault /\ NotTold(c)
         /\ \A d \in Clients \ {c} : NotTold(d) \/ Told(d, m)
<1> DEFINE s == activeGames[i]
<1>1. s \in Seq(Clients)
  BY Typed DEF TypedInv, BooksInv
<1>2. \A d \in Clients : Occurrences(d, A) \in {0, 1}
  BY DEF SeatInv, SeatedOnce
<1>3. ToSet(A) \subseteq sessions'
  <2>1. \A d \in ToSet(s) : Occurrences(d, s) # 0 /\ d \in Clients
    BY <1>1, ToSetOccurs, LenProperties DEF ToSet
  <2>2. \A d \in ToSet(s) : d \in sessions
    BY <2>1 DEF SeatInv, HasSession, Sits
  <2> QED  BY <2>2
<1>4. /\ UNCHANGED fault
      /\ \A d \in Clients : IF Occurrences(d, A) = 0 THEN NotTold(d) ELSE Told(d, m)
  BY <1>2, <1>3, SentOnce
<1> QED  BY <1>4

LEMMA StaleWorkCases ==
  ASSUME TypedInv, SeatInv, NEW c \in broken, DoWork(c)
  PROVE  StaleWork(c)
<1> DEFINE q == toServer[c]
           msg == Head(q)
           i == FindGameId(c)
<1>1. /\ q # << >> /\ BooksTyped /\ fault = "none" /\ c \in Clients
      /\ ~ Sits(c) /\ c \notin sessions
  BY DEF DoWork, TypedInv, BooksInv, ServerTyped, SeatInv, ClientInv, BrokenClient
<1>2. msg \in ToServerMessage
  <2>1. q \in Seq(ToServerMessage)
    BY <1>1 DEF TypedInv, QueuesTyped
  <2> HIDE DEF q
  <2> QED  BY <1>1, <2>1, HeadTailProperties
<1>3. Work(c, msg)
  BY <1>1, WorkCases
<1>4. msg.action = "add" => msg.id \in 0 .. Len(activeGames)
  BY <1>2 DEF ToServerMessage
<1> HIDE DEF msg
<1>5. ASSUME NEW m, SentOne(<<c>>, m), UNCHANGED <<activeGames, sessions>>
      PROVE  StaleWork(c)
  <2>1. c \in ToSet(<<c>>)
    BY DEF ToSet
  <2> QED  BY <1>1, <1>5, <2>1 DEF SentOne, StaleWork
<1>6. ASSUME NEW j, TakesSeat(c, j), UNCHANGED sessions
      PROVE  StaleWork(c)
  <2> DEFINE B == <<c>>
  <2>1. c \in ToSet(B)
    BY DEF ToSet
  <2>2. /\ SentTwo(Others(c, activeGames'[j]), NewPlayerTold(c), B, SeatsTold(activeGames'[j]))
        /\ SitsDown(c, j)
    BY <1>6 DEF TakesSeat, SitsDown
  <2> HIDE DEF B
  <2>3. fault' = "no_session" /\ UNCHANGED toClient
    BY <1>1, <1>6, <2>1, <2>2 DEF SentTwo
  <2> QED  BY <1>6, <2>2, <2>3 DEF StaleWork
<1>7. ASSUME UNCHANGED sessions, i # Nowhere, LeavesSeat(c, i)
      PROVE  StaleWork(c)
  <2> DEFINE s == activeGames[i]
  <2>1. i \in DOMAIN activeGames /\ s \in Seq(Clients) /\ Occurrences(c, s) = 0
    BY <1>1, <1>7, FoundRoom, Typed DEF Sits
  <2>2. RemoveFirst(s, c) = s
    <3>1. ~ Contains(s, c) /\ DOMAIN s = 1 .. Len(s)
      BY <2>1, OccurrencesContains, LenProperties
    <3> QED  BY <3>1 DEF RemoveFirst, Contains
  <2>3. UNCHANGED activeGames /\ SentOne(s, LeaveTold(c))
    <3>1. activeGames' = [activeGames EXCEPT ![i] = s] /\ SentOne(activeGames'[i], LeaveTold(c))
      BY <1>7, <2>2 DEF LeavesSeat
    <3>2. activeGames' = activeGames
      BY <1>1, <3>1, LenProperties DEF BooksTyped
    <3> QED  BY <3>1, <3>2
  <2> DEFINE m == LeaveTold(c)
  <2>4. SentOne(s, m) /\ ToSet(s) \subseteq ToSet(s)
        /\ \A d : Occurrences(d, s) = IF d = c THEN 0 ELSE Occurrences(d, s)
    BY <2>1, <2>3
  <2> HIDE DEF m
  <2>5. UNCHANGED fault /\ NotTold(c) /\ \A d \in Clients \ {c} : NotTold(d) \/ Told(d, m)
    BY <1>1, <1>7, <2>1, <2>3, <2>4, RepeatedOnce
  <2> QED  BY <1>7, <2>3, <2>5 DEF StaleWork, m
<1>8. CASE msg.action = "add" /\ UNCHANGED sessions /\ AddWork(c, msg.id)
  BY <1>4, <1>5, <1>6, <1>8 DEF AddWork
<1>9. CASE msg.action = "show" /\ UNCHANGED <<activeGames, sessions>> /\ SentOne(<<c>>, RoomsTold)
  BY <1>5, <1>9
<1>10. CASE UNCHANGED sessions /\ ChatWork(c)
  <2>1. CASE i = Nowhere
    BY <1>10, <2>1 DEF ChatWork, StaleWork
  <2>2. CASE i # Nowhere
    <3> DEFINE s == activeGames[i]
               A == Others(c, s)
               m == ChatTold(c)
    <3>1. UNCHANGED activeGames /\ SentOne(A, m) /\ i \in DOMAIN activeGames
      BY <1>1, <1>10, <2>2, FoundRoom DEF ChatWork
    <3>2. /\ ToSet(A) \subseteq ToSet(s)
          /\ \A d : Occurrences(d, A) = IF d = c THEN 0 ELSE Occurrences(d, s)
      BY OthersAre
    <3> HIDE DEF A, m
    <3>3. UNCHANGED fault /\ NotTold(c) /\ \A d \in Clients \ {c} : NotTold(d) \/ Told(d, m)
      BY <1>1, <1>10, <3>1, <3>2, RepeatedOnce
    <3> QED  BY <1>10, <3>1, <3>3 DEF StaleWork, m
  <2> QED  BY <2>1, <2>2
<1>11. CASE UNCHANGED sessions /\ LeaveWork(c)
  BY <1>7, <1>11 DEF LeaveWork, StaleWork
<1>12. CASE sessions' = sessions \ {c} /\ ClosedWork(c)
  <2>1. UNCHANGED sessions
    BY <1>1, <1>12
  <2> QED  BY <1>7, <1>12, <2>1 DEF ClosedWork, StaleWork, NotTold
<1> QED  BY <1>3, <1>8, <1>9, <1>10, <1>11, <1>12 DEF Work

LEMMA StaleKeeps ==
  ASSUME TypedInv, SeatInv, NEW c \in broken, DoWork(c)
  PROVE  SeatInv'
<1>1. /\ UNCHANGED <<link, broken, scene, waiting, game>> /\ fault = "none" /\ c \in Clients
      /\ \A d \in Clients : d # c => toServer'[d] = toServer[d]
  BY DEF DoWork, clientVars, userVars, TypedInv, BooksInv, BooksTyped, ServerTyped
<1>2. StaleWork(c) /\ BrokenClient(c)
  BY <1>1, StaleWorkCases DEF SeatInv, ClientInv
<1>3. sessions' = sessions /\ ~ Sits(c) /\ SeatedOnce
  BY <1>1, <1>2 DEF StaleWork, BrokenClient, SeatInv
<1>4. (fault' = "none" => ~ Sits(c)') /\ SeatedOnce' /\ \A d \in Clients \ {c} : Sits(d)' <=> Sits(d)
  <2>1. CASE UNCHANGED activeGames
    BY <1>1, <1>3, <2>1, StaysSeated
  <2>2. ASSUME fault' # "none", NEW i, SitsDown(c, i)
        PROVE  SeatedOnce' /\ \A d \in Clients \ {c} : Sits(d)' <=> Sits(d)
    BY <1>1, <1>3, <2>2, JoinsSeats
  <2> QED  BY <1>2, <2>1, <2>2 DEF StaleWork
<1>5. \A d \in Clients \ {c} : Watches(d)
  BY <1>2, SomeFields DEF StaleWork, Watches, NotTold
<1>6. \A d \in Clients \ {c} : ClientInv(d)'
  BY <1>1, <1>3, <1>4, <1>5, OthersKeep
<1>7. ClientInv(c)'
  <2>1. toClient'[c] = toClient[c]
    BY <1>2 DEF StaleWork, NotTold
  <2>2. BrokenClient(c)'
    BY <1>1, <1>2, <1>3, <1>4, <2>1 DEF BrokenClient, IdleClient
  <2> QED  BY <1>1, <2>2 DEF ClientInv
<1>8. HasSession'
  <2> SUFFICES ASSUME NEW d \in Clients,
                      \/ fault' = "none" /\ Sits(d)'
                      \/ d \notin broken' /\ (toServer'[d] # << >> \/ link'[d] = "open")
               PROVE  d \in sessions'
    BY DEF HasSession
  <2>1. d # c
    BY <1>1, <1>4
  <2> QED  BY <1>1, <1>3, <1>4, <2>1 DEF SeatInv, HasSession
<1>9. broken # {}
  OBVIOUS
<1> QED  BY <1>1, <1>4, <1>6, <1>7, <1>8, <1>9 DEF SeatInv

(***************************************************************************)
(* A write fails: the client loses its session and its seat, or the server *)
(* stops because the session was gone.                                     *)
(***************************************************************************)
BreakWork(c) ==
  \/ fault' # "none" /\ UNCHANGED <<activeGames, sessions, toClient>>
  \/ /\ UNCHANGED fault /\ sessions' = sessions \ {c}
     /\ \/ ~ Sits(c) /\ UNCHANGED activeGames /\ \A d \in Clients : NotTold(d)
        \/ \E i : Parts(c, i)

LEMMA BreakWorkCases ==
  ASSUME TypedInv, SeatInv, NEW c \in Clients, WriteFails(c)
  PROVE  BreakWork(c)
<1>1. BooksTyped /\ fault = "none" /\ Disconnect(c)
  BY DEF WriteFails, TypedInv, BooksInv
<1>2. CASE c \notin sessions
  BY <1>1, <1>2 DEF Disconnect, BreakWork
<1>3. CASE c \in sessions
  <2>1. sessions' = sessions \ {c} /\ ClosedWork(c)
    BY <1>1, DisconnectWork
  <2>2. /\ Sits(c) <=> FindGameId(c) # Nowhere
        /\ Sits(c) => Occurrences(c, activeGames[FindGameId(c)]) = 1
    BY <1>1, <1>3, FoundSeat
  <2>3. ASSUME FindGameId(c) # Nowhere, LeavesSeat(c, FindGameId(c))
        PROVE  UNCHANGED fault /\ Parts(c, FindGameId(c))
    BY <1>1, <2>1, <2>2, <2>3, PartsWork
  <2> QED  BY <1>3, <2>1, <2>2, <2>3 DEF ClosedWork, BreakWork, NotTold
<1> QED  BY <1>2, <1>3

LEMMA BreakKeeps ==
  ASSUME TypedInv, SeatInv, NEW c \in Clients, WriteFails(c)
  PROVE  SeatInv'
<1>1. /\ UNCHANGED <<link, toServer, scene, waiting, game>> /\ fault = "none"
      /\ link[c] = "closed" /\ c \notin broken /\ broken' = broken \cup {c}
  BY DEF WriteFails, clientVars, userVars
<1>2. BreakWork(c) /\ IdleClient(c) /\ SeatedOnce
  BY <1>1, BreakWorkCases DEF SeatInv, ClientInv
<1>3. /\ SeatedOnce' /\ \A d \in Clients \ {c} : Sits(d)' <=> Sits(d)
      /\ fault' = "none" => ~ Sits(c)' /\ sessions' = sessions \ {c}
      /\ sessions' \subseteq sessions /\ sessions \ {c} \subseteq sessions'
      /\ NotTold(c) /\ \A d \in Clients \ {c} : Watches(d)
  <2>1. CASE UNCHANGED activeGames
    <3>1. SeatedOnce' /\ \A d \in Clients : Sits(d)' <=> Sits(d)
      BY <1>1, <2>1, StaysSeated
    <3>2. ASSUME NEW i, Parts(c, i)
          PROVE  FALSE
      <4>1. ~ Sits(c)'
        BY <1>1, <3>2, PartsSeats
      <4>2. Sits(c)
        BY <3>2 DEF Parts, Sits
      <4> QED  BY <3>1, <4>1, <4>2
    <3> QED  BY <1>2, <3>1, <3>2 DEF BreakWork, Watches, NotTold
  <2>2. ASSUME NEW i, Parts(c, i), UNCHANGED fault, sessions' = sessions \ {c}
        PROVE  /\ SeatedOnce' /\ \A d \in Clients \ {c} : Sits(d)' <=> Sits(d)
               /\ ~ Sits(c)' /\ NotTold(c) /\ \A d \in Clients \ {c} : Watches(d)
    BY <1>1, <2>2, PartsSeats, SomeFields DEF Parts, Watches
  <2> QED  BY <1>2, <2>1, <2>2 DEF BreakWork
<1>4. \A d \in Clients \ {c} : ClientInv(d)'
  BY <1>1, <1>3, OthersKeep
<1>5. ClientInv(c)'
  <2>1. IdleClient(c)'
    BY <1>1, <1>2, <1>3 DEF IdleClient, NotTold
  <2>2. BrokenClient(c)'
    BY <1>1, <1>3, <2>1 DEF BrokenClient
  <2> QED  BY <1>1, <2>2 DEF ClientInv
<1>6. HasSession'
  <2> SUFFICES ASSUME NEW d \in Clients,
                      \/ fault' = "none" /\ Sits(d)'
                      \/ d \notin broken' /\ (toServer'[d] # << >> \/ link'[d] = "open")
               PROVE  d \in sessions'
    BY DEF HasSession
  <2>1. d # c
    BY <1>1, <1>3
  <2> QED  BY <1>1, <1>3, <2>1 DEF SeatInv, HasSession
<1> QED  BY <1>1, <1>3, <1>4, <1>5, <1>6 DEF SeatInv

(***************************************************************************)
(* The steps of a client that are not the server's.                        *)
(***************************************************************************)
LEMMA ClientKeeps ==
  ASSUME TypedInv, SeatInv, Clicks = 1, NEW c \in Clients,
         Connect(c) \/ User(c) \/ Receive(c) \/ Close(c)
  PROVE  SeatInv'
<1>1. UNCHANGED <<activeGames, broken, fault>>
  BY DEF Connect, User, Receive, Close, serverVars
<1>0. c \notin broken
  BY Unbroken DEF Connect, User, Receive, Close
<1>2. /\ sessions \subseteq sessions' /\ \A d \in Clients \ {c} : d \in sessions' => d \in sessions
      /\ link'[c] = "open" => c \in sessions'
      /\ toServer'[c] # << >> => c \in sessions'
  <2>1. HasSession /\ c \in DOMAIN link /\ c \notin broken
    BY <1>0 DEF SeatInv, TypedInv, BooksInv, BooksTyped
  <2>2. CASE Connect(c)
    BY <2>2 DEF Connect
  <2>3. CASE User(c)
    BY <2>1, <2>3 DEF User, serverVars, HasSession
  <2>4. CASE Receive(c)
    <3>1. link[c] = "open"
      BY <1>0, <2>4 DEF Receive, SeatInv, ClientInv, IdleClient
    <3> QED  BY <2>1, <2>4, <3>1 DEF Receive, serverVars, HasSession
  <2>5. CASE Close(c)
    BY <2>1, <2>5 DEF Close, serverVars, HasSession
  <2> QED  BY <2>2, <2>3, <2>4, <2>5
<1>3. ASSUME NEW d \in Clients \ {c}
      PROVE  /\ link'[d] = link[d] /\ toServer'[d] = toServer[d] /\ scene'[d] = scene[d]
             /\ waiting'[d] = waiting[d] /\ game'[d] = game[d] /\ toClient'[d] = toClient[d]
  <2>1. \A m : Send(c, m) => toServer'[d] = toServer[d]
    BY DEF Send, TypedInv, BooksInv, BooksTyped
  <2>2. CASE Connect(c)
    BY <2>1, <2>2 DEF Connect, clientVars, userVars, TypedInv, BooksInv, BooksTyped
  <2>3. CASE User(c)
    BY <2>1, <2>3 DEF User, RequestRoom, RequestRefresh, SendMessage, LeaveRoom, ChangeScene,
       clientVars, TypedInv, ClientTyped, BooksInv, BooksTyped
  <2>4. CASE Receive(c)
    <3> DEFINE msg == Head(toClient[c])
    <3>1. /\ \/ ReceiveAdd(c, msg) \/ ReceiveShow(c, msg) \/ ReceiveNewPlayer(c, msg)
             \/ ReceiveLeave(c, msg) \/ UNCHANGED <<clientVars, toServer, waiting>>
          /\ UNCHANGED link /\ toClient'[d] = toClient[d]
      BY <2>4 DEF Receive, TypedInv, BooksInv, BooksTyped
    <3> HIDE DEF msg
    <3> QED  BY <2>1, <3>1 DEF ReceiveAdd, ReceiveShow, ReceiveNewPlayer, ReceiveLeave, ChangeScene,
             clientVars, TypedInv, ClientTyped
  <2>5. CASE Close(c)
    BY <2>5 DEF Close, TypedInv, ClientTyped, BooksInv, BooksTyped
  <2> QED  BY <2>2, <2>3, <2>4, <2>5
<1>4. (fault = "none" => SeatedOnce') /\ \A d \in Clients : Sits(d)' <=> Sits(d)
  BY <1>1, StaysSeated
<1>5. \A d \in Clients \ {c} : ClientInv(d)'
  BY <1>1, <1>2, <1>3, <1>4, OthersKeep DEF Watches, NotTold
<1>6. ClientInv(c)'
  BY ConnectKeeps, UserKeeps, ReceiveKeeps, CloseKeeps
<1>7. HasSession'
  <2>1. ASSUME NEW d \in Clients,
               \/ fault' = "none" /\ Sits(d)'
               \/ d \notin broken' /\ (toServer'[d] # << >> \/ link'[d] = "open")
        PROVE  d \in sessions'
    <3>1. CASE d # c
      BY <1>1, <1>2, <1>3, <1>4, <2>1, <3>1 DEF SeatInv, HasSession
    <3>2. CASE d = c /\ fault' = "none" /\ Sits(d)'
      BY <1>1, <1>2, <1>4, <3>2 DEF SeatInv, HasSession
    <3>3. CASE d = c /\ ~ (fault' = "none" /\ Sits(d)')
      BY <1>2, <2>1, <3>3
    <3> QED  BY <3>1, <3>2, <3>3
  <2> QED  BY <2>1 DEF HasSession
<1> QED  BY <1>1, <1>4, <1>5, <1>6, <1>7 DEF SeatInv

\* The invariant holds at the start and is kept by every step.
LEMMA InitSeats == Init => SeatInv
<1> SUFFICES ASSUME Init PROVE SeatInv
  OBVIOUS
<1>1. \A c \in Clients : ~ Sits(c)
  BY DEF Init, Sits
<1>2. SeatedOnce /\ HasSession
  BY <1>1 DEF Init, SeatedOnce, HasSession
<1>3. \A c \in Clients : ClientInv(c)
  <2>1. Len(<< >>) = 0 /\ 1 .. 0 = {}
    OBVIOUS
  <2> QED  BY <2>1 DEF Init, ClientInv, InOrder, IdleClient
<1> QED  BY <1>2, <1>3 DEF Init, SeatInv

LEMMA NextSeats ==
  ASSUME Clicks = 1
  PROVE  TypedInv /\ SeatInv /\ [Next]_vars => SeatInv'
<1> SUFFICES ASSUME TypedInv, SeatInv, [Next]_vars
             PROVE  SeatInv'
  OBVIOUS
<1>1. CASE UNCHANGED vars
  <2>1. UNCHANGED <<activeGames, sessions, broken, fault, link, toServer, toClient, scene, waiting,
                    game>>
    BY <1>1 DEF vars, serverVars, clientVars, userVars
  <2>2. (fault = "none" => SeatedOnce') /\ \A d \in Clients : Sits(d)' <=> Sits(d)
    BY <2>1, StaysSeated
  <2>3. \A d \in Clients : ClientInv(d)'
    BY <2>1, <2>2, OthersKeep DEF Watches, NotTold
  <2>4. HasSession'
    BY <2>1, <2>2 DEF SeatInv, HasSession
  <2> QED  BY <2>1, <2>2, <2>3, <2>4 DEF SeatInv
<1>2. ASSUME NEW c \in Clients,
             Connect(c) \/ User(c) \/ Receive(c) \/ Close(c) \/ DoWork(c) \/ WriteFails(c)
      PROVE  SeatInv'
  <2>1. c \in broken \/ c \notin broken
    OBVIOUS
  <2> QED  BY <1>2, <2>1, ClientKeeps, WorkKeeps, StaleKeeps, BreakKeeps
<1> QED  BY <1>1, <1>2 DEF Next

-----------------------------------------------------------------------------
(***************************************************************************)
(* The rooms as the tables of a hall.                                      *)
(***************************************************************************)
Tables == [i \in DOMAIN activeGames |-> ToSet(activeGames[i])]

\* The hall's library operators are the ones of this module.
LEMMA SameCardinality == \A S : HallView!Cardinality(S) = Cardinality(S)
  BY DEF HallView!Cardinality, Cardinality

\* The visitors of a table and the seats of its room.
LEMMA ToSetSmall ==
  ASSUME NEW S, NEW s \in Seq(S)
  PROVE  Cardinality(ToSet(s)) =< Len(s)
<1> DEFINE n == Len(s)
<1>1. n \in Nat /\ DOMAIN s = 1 .. n
  BY LenProperties
<1>2. ToSet(s) = {s[i] : i \in 1 .. n}
  BY <1>1 DEF ToSet
<1>3. s \in Surjection(1 .. n, ToSet(s))
  BY <1>1, <1>2 DEF Surjection
<1> HIDE DEF n
<1>4. ExistsSurjection(1 .. n, ToSet(s))
  BY <1>3 DEF ExistsSurjection
<1>5. Cardinality(ToSet(s)) <= n
  BY <1>1, <1>4, FS_SurjCardinalityBound
<1> QED  BY <1>5 DEF n

LEMMA ToSetAppend ==
  ASSUME NEW S, NEW s \in Seq(S), NEW c \in S
  PROVE  ToSet(Append(s, c)) = ToSet(s) \cup {c}
<1> DEFINE t == Append(s, c)
<1>1. t \in Seq(S) /\ \A d : Occurrences(d, t) = Occurrences(d, s) + (IF d = c THEN 1 ELSE 0)
  BY OccurrencesAppend
<1>2. \A d : Occurrences(d, s) \in Nat
  BY PlacesFinite
<1> HIDE DEF t
<1>3. \A d : d \in ToSet(t) <=> d \in ToSet(s) \/ d = c
  <2> SUFFICES ASSUME NEW d
               PROVE  d \in ToSet(t) <=> d \in ToSet(s) \/ d = c
    OBVIOUS
  <2>1. /\ d \in ToSet(t) <=> Occurrences(d, t) # 0
        /\ d \in ToSet(s) <=> Occurrences(d, s) # 0
    BY <1>1, ToSetOccurs
  <2> QED  BY <1>1, <1>2, <2>1
<1> QED  BY <1>3 DEF t

LEMMA ToSetRemoveFirst ==
  ASSUME NEW S, NEW s \in Seq(S), NEW c, Occurrences(c, s) = 1
  PROVE  ToSet(RemoveFirst(s, c)) = ToSet(s) \ {c} /\ c \in ToSet(s)
<1> DEFINE t == RemoveFirst(s, c)
<1>1. /\ t \in Seq(S)
      /\ \A d : Occurrences(d, t) = Occurrences(d, s) - (IF d = c THEN 1 ELSE 0)
  BY OccurrencesRemoveFirst, OccurrencesContains
<1>2. \A d : Occurrences(d, s) \in Nat
  BY PlacesFinite
<1> HIDE DEF t
<1>3. \A d : d \in ToSet(t) <=> d \in ToSet(s) /\ d # c
  <2> SUFFICES ASSUME NEW d
               PROVE  d \in ToSet(t) <=> d \in ToSet(s) /\ d # c
    OBVIOUS
  <2>1. /\ d \in ToSet(t) <=> Occurrences(d, t) # 0
        /\ d \in ToSet(s) <=> Occurrences(d, s) # 0
    BY <1>1, ToSetOccurs
  <2> QED  BY <1>1, <1>2, <2>1
<1>4. c \in ToSet(s)
  BY ToSetOccurs
<1> QED  BY <1>3, <1>4 DEF t

\* Whoever sits at a table sits in a room.
LEMMA SittingIs ==
  ASSUME TypedInv, NEW c \in Clients
  PROVE  c \in HallView!Sitting <=> Sits(c)
<1>1. \A i \in DOMAIN activeGames : c \in ToSet(activeGames[i]) <=> Occurrences(c, activeGames[i]) # 0
  BY Typed, ToSetOccurs DEF TypedInv, BooksInv
<1>2. c \in HallView!Sitting <=> \E i \in DOMAIN activeGames : c \in ToSet(activeGames[i])
  BY DEF HallView!Sitting
<1> QED  BY <1>1, <1>2 DEF Sits

\* Sitting down and standing up are the hall's steps.
LEMMA JoinsHall ==
  ASSUME TypedInv, TypedInv', SeatInv, NEW c \in Clients, ~ Sits(c), NEW i, SitsDown(c, i)
  PROVE  HallView!Next
<1>1. /\ DOMAIN activeGames' = DOMAIN activeGames \cup {i}
      /\ MadeAt(i) /\ Len(Old(i)) < MAX_PLAYERS
      /\ activeGames'[i] = Append(Old(i), c)
      /\ \A j \in DOMAIN activeGames : j # i => activeGames'[j] = activeGames[j]
      /\ BooksTyped
  BY DEF SitsDown, TypedInv, BooksInv
<1>2. c \notin HallView!Sitting
  BY SittingIs
<1> DEFINE s == Old(i)
<1>3. s \in Seq(Clients) /\ Len(s) \in Nat
  BY <1>1, OldTyped
<1>4. ToSet(activeGames'[i]) = ToSet(s) \cup {c} /\ Cardinality(ToSet(s)) =< Len(s)
  BY <1>1, <1>3, ToSetAppend, ToSetSmall
<1>5. CASE i \in DOMAIN activeGames
  <2>1. s = activeGames[i] /\ DOMAIN activeGames' = DOMAIN activeGames
    BY <1>1, <1>5 DEF Old
  <2> HIDE DEF s
  <2>2. Tables' = [Tables EXCEPT ![i] = Tables[i] \cup {c}]
    BY <1>1, <1>4, <1>5, <2>1 DEF Tables
  <2>3. Cardinality(Tables[i]) < MAX_PLAYERS
    <3>1. Tables[i] = ToSet(s)
      BY <1>5, <2>1 DEF Tables
    <3> DEFINE k == Cardinality(ToSet(s))
               n == Len(s)
    <3>2. k \in Nat /\ n \in Nat /\ n < MAX_PLAYERS /\ k =< n
      <4>1. IsFiniteSet(ToSet(s))
        <5>1. s \in Surjection(1 .. Len(s), ToSet(s))
          BY <1>3, LenProperties DEF Surjection, ToSet
        <5>2. ExistsSurjection(1 .. Len(s), ToSet(s))
          BY <5>1 DEF ExistsSurjection
        <5> QED  BY <1>3, <5>2, FS_NatSurjection
      <4>2. k \in Nat
        BY <4>1, FS_CardinalityType
      <4> QED  BY <1>1, <1>3, <1>4, <4>2 DEF s
    <3> HIDE DEF k, n
    <3>3. k < MAX_PLAYERS
      BY <3>2 DEF MAX_PLAYERS
    <3> QED  BY <3>1, <3>3 DEF k
  <2>4. HallView!SitDown(c, i)
    <3>1. Cardinality([j \in DOMAIN activeGames |-> ToSet(activeGames[j])][i]) < MAX_PLAYERS
      BY <2>3 DEF Tables
    <3>2. [j \in DOMAIN activeGames |-> ToSet(activeGames[j])]' =
            [[j \in DOMAIN activeGames |-> ToSet(activeGames[j])] EXCEPT ![i] = @ \cup {c}]
      BY <2>2 DEF Tables
    <3> QED  BY <1>2, <3>1, <3>2, SameCardinality DEF HallView!SitDown
  <2>5. i \in DOMAIN Tables
    BY <1>5 DEF Tables
  <2> QED  BY <2>4, <2>5 DEF HallView!Next, Tables
<1>6. CASE i \notin DOMAIN activeGames
  <2> DEFINE n == Len(activeGames)
  <2>1. /\ n \in Nat /\ DOMAIN activeGames = 1 .. n /\ i = n + 1
        /\ \A j \in DOMAIN activeGames : activeGames[j] # << >>
    BY <1>1, <1>6, Typed DEF MadeAt
  <2>2. s = << >>
    BY <1>6 DEF Old
  <2>3. ToSet(activeGames'[i]) = {c}
    <3>1. ToSet(<< >>) = {}
      BY DEF ToSet
    <3> QED  BY <1>4, <2>2, <3>1
  <2> HIDE DEF s, n
  <2>4. Tables \in Seq(SUBSET Clients) /\ Len(Tables) = n /\ DOMAIN Tables = 1 .. n
        /\ \A j \in 1 .. n : Tables[j] = ToSet(activeGames[j])
    <3>1. \A j \in 1 .. n : ToSet(activeGames[j]) \in SUBSET Clients
      <4>1. \A j \in 1 .. n : activeGames[j] \in Seq(Clients)
        BY <1>1, <2>1, Typed
      <4> QED  BY <4>1, LenProperties DEF ToSet
    <3> QED  BY <2>1, <3>1 DEF Tables
  <2> DEFINE r == {c}
  <2>5. r \in SUBSET Clients
    OBVIOUS
  <2> HIDE DEF r
  <2>6. /\ Len(Append(Tables, r)) = n + 1 /\ Append(Tables, r) \in Seq(SUBSET Clients)
        /\ \A j \in 1 .. n : Append(Tables, r)[j] = Tables[j]
        /\ Append(Tables, r)[n + 1] = r
    BY <2>4, <2>5, AppendProperties
  <2>7. Append(Tables, r) = [j \in 1 .. n + 1 |-> IF j = n + 1 THEN r ELSE Tables[j]]
    <3>1. DOMAIN Append(Tables, r) = 1 .. n + 1
      BY <2>6, LenProperties
    <3>2. \A j \in 1 .. n + 1 : j = n + 1 \/ j \in 1 .. n
      BY <2>1
    <3> DEFINE a == Append(Tables, r)
    <3>3. a \in Seq(SUBSET Clients)
      BY <2>6
    <3> HIDE DEF a
    <3>4. a = [j \in 1 .. n + 1 |-> a[j]]
      <4>1. Len(a) = n + 1
        BY <2>6 DEF a
      <4>2. a \in [1 .. Len(a) -> SUBSET Clients]
        BY <3>3, LenProperties
      <4> QED  BY <4>1, <4>2
    <3>5. \A j \in 1 .. n + 1 : a[j] = IF j = n + 1 THEN r ELSE Tables[j]
      BY <2>6, <3>2 DEF a
    <3> QED  BY <3>4, <3>5 DEF a
  <2>8. Tables' = [j \in 1 .. n + 1 |-> IF j = n + 1 THEN r ELSE Tables[j]]
    <3>1. DOMAIN activeGames' = 1 .. n + 1 /\ \A j \in 1 .. n + 1 : j = n + 1 \/ j \in 1 .. n
      BY <1>1, <2>1
    <3>2. \A j \in 1 .. n + 1 : ToSet(activeGames'[j]) = IF j = n + 1 THEN r ELSE Tables[j]
      BY <1>1, <2>1, <2>3, <2>4, <3>1 DEF r
    <3> QED  BY <3>1, <3>2 DEF Tables
  <2>9. \A j \in DOMAIN Tables : Tables[j] # {}
    <3> SUFFICES ASSUME NEW j \in 1 .. n
                 PROVE  ToSet(activeGames[j]) # {}
      BY <2>4
    <3>1. activeGames[j] \in Seq(Clients) /\ activeGames[j] # << >>
      BY <1>1, <2>1, Typed
    <3>2. 1 \in DOMAIN activeGames[j]
      BY <3>1, EmptySeq, LenProperties
    <3> QED  BY <3>2 DEF ToSet
  <2>10. HallView!BringTable(c)
    BY <1>2, <2>7, <2>8, <2>9 DEF HallView!BringTable, Tables, r
  <2> QED  BY <2>10 DEF HallView!Next
<1> QED  BY <1>5, <1>6

LEMMA PartsHall ==
  ASSUME TypedInv, NEW c \in Clients, NEW i, Parts(c, i)
  PROVE  HallView!Next
<1>1. /\ i \in DOMAIN activeGames /\ Occurrences(c, activeGames[i]) = 1
      /\ activeGames' = [activeGames EXCEPT ![i] = RemoveFirst(activeGames[i], c)]
      /\ activeGames[i] \in Seq(Clients)
  BY Typed DEF Parts, TypedInv, BooksInv
<1> DEFINE s == activeGames[i]
           t == RemoveFirst(s, c)
<1>2. ToSet(t) = ToSet(s) \ {c} /\ c \in ToSet(s)
  BY <1>1, ToSetRemoveFirst
<1> HIDE DEF t
<1>3. /\ DOMAIN activeGames' = DOMAIN activeGames
      /\ \A j \in DOMAIN activeGames : activeGames'[j] = IF j = i THEN t ELSE activeGames[j]
  BY <1>1 DEF t
<1>4. Tables' = [Tables EXCEPT ![i] = Tables[i] \ {c}] /\ c \in Tables[i] /\ i \in DOMAIN Tables
  BY <1>1, <1>2, <1>3 DEF Tables
<1>5. HallView!StandUp(c, i)
  BY <1>4 DEF HallView!StandUp, Tables
<1> QED  BY <1>4, <1>5 DEF HallView!Next, Tables

\* Every step of the lobby is a step of the hall or leaves the tables alone.
LEMMA NextHall ==
  ASSUME TypedInv, TypedInv', SeatInv, [Next]_vars
  PROVE  HallView!Next \/ UNCHANGED Tables
<1>1. CASE UNCHANGED activeGames
  BY <1>1 DEF Tables
<1>2. ASSUME NEW c \in Clients, DoWork(c)
      PROVE  HallView!Next \/ UNCHANGED activeGames
  <2>1. CASE c \in broken
    <3>1. StaleWork(c) /\ ~ Sits(c)
      BY <1>2, <2>1, StaleWorkCases DEF DoWork, SeatInv, ClientInv, BrokenClient
    <3> QED  BY <3>1, JoinsHall DEF StaleWork
  <2>2. CASE c \notin broken
    <3> DEFINE msg == Head(toServer[c])
    <3>1. SeatWork(c, msg)
      BY <1>2, <2>2, SeatWorkCases
    <3> HIDE DEF msg
    <3> QED  BY <3>1, JoinsHall, PartsHall DEF SeatWork, Joins
  <2> QED  BY <2>1, <2>2
<1>5. ASSUME NEW c \in Clients, WriteFails(c)
      PROVE  HallView!Next \/ UNCHANGED activeGames
  <2>1. BreakWork(c)
    BY <1>5, BreakWorkCases
  <2> QED  BY <2>1, PartsHall DEF BreakWork
<1>3. ASSUME NEW c \in Clients, Connect(c) \/ User(c) \/ Receive(c) \/ Close(c)
      PROVE  UNCHANGED activeGames
  BY <1>3 DEF Connect, User, Receive, Close, serverVars
<1>4. UNCHANGED vars => UNCHANGED activeGames
  BY DEF vars, serverVars
<1> QED  BY <1>1, <1>2, <1>3, <1>4, <1>5 DEF Next

(***************************************************************************)
(* As long as a user sends one request for a seat at a time, the server    *)
(* stops only over a client to whom a write has failed: until one has,     *)
(* every addressee it names has a session, no session is taken off the     *)
(* books twice, and every message about a room comes from a client that    *)
(* the lists find, in whatever order the messages of the clients arrive.   *)
(***************************************************************************)
THEOREM ServerStaysUp ==
  ASSUME Clicks = 1
  PROVE  Spec => []StaysUp
<1>1. SeatInv => StaysUp
  BY DEF SeatInv, StaysUp
<1> QED  BY <1>1, InitTyped, NextTyped, InitSeats, NextSeats, PTL DEF Spec

(***************************************************************************)
(* Under the same condition no request for a seat is dropped: whoever waits *)
(* has its request or the answer to it on the way, exactly once.           *)
(***************************************************************************)
THEOREM EveryRequestAnswered ==
  ASSUME Clicks = 1
  PROVE  Spec => []RequestsAreAnswered
<1>1. SeatInv => RequestsAreAnswered
  BY DEF SeatInv, ClientInv, BrokenClient, OpenClient, RequestsAreAnswered
<1> QED  BY <1>1, InitTyped, NextTyped, InitSeats, NextSeats, PTL DEF Spec

(***************************************************************************)
(* Under the same condition the rooms are the tables of a hall: each step of *)
(* the lobby is one client sitting down at a table that is not full, or    *)
(* bringing one in when none is free, or standing up, or leaves them alone. *)
(***************************************************************************)
THEOREM LobbyIsHall ==
  ASSUME Clicks = 1
  PROVE  Spec => ImplementsHall
<1>1. Init => HallView!Init
  <2> SUFFICES ASSUME Init PROVE Tables = << >>
    BY DEF HallView!Init, Tables
  <2>1. activeGames = << >> /\ DOMAIN << >> = {}
    BY DEF Init
  <2>2. Tables = [i \in {} |-> ToSet(activeGames[i])]
    BY <2>1 DEF Tables
  <2>3. << >> = [i \in {} |-> ToSet(activeGames[i])]
    OBVIOUS
  <2> QED  BY <2>2, <2>3
<1>2. TypedInv /\ TypedInv' /\ SeatInv /\ [Next]_vars
        => [HallView!Next]_([i \in DOMAIN activeGames |-> ToSet(activeGames[i])])
  BY NextHall DEF Tables
<1> QED  BY <1>1, <1>2, InitTyped, NextTyped, InitSeats, NextSeats, PTL
         DEF Spec, ImplementsHall, HallView!Spec

(***************************************************************************)
(* What keeps the visitors of a hall apart, whatever its tables are.       *)
(***************************************************************************)
Apart(T) == \A s, t \in DOMAIN T : T[s] \cap T[t] # {} => s = t

LEMMA MovesKeepApart ==
  ASSUME NEW T \in Seq(SUBSET Clients), Apart(T), NEW v \in Clients, NEW U,
         \/ /\ U = Append(T, {v})
            /\ \A t \in DOMAIN T : v \notin T[t]
         \/ /\ \A t \in DOMAIN T : v \notin T[t]
            /\ \E t \in DOMAIN T : U = [T EXCEPT ![t] = @ \cup {v}]
         \/ \E t \in DOMAIN T : U = [T EXCEPT ![t] = @ \ {v}]
  PROVE  U \in Seq(SUBSET Clients) /\ Apart(U)
<1>1. CASE U = Append(T, {v}) /\ \A t \in DOMAIN T : v \notin T[t]
  <2>1. U \in Seq(SUBSET Clients) /\ DOMAIN U = 1 .. Len(T) + 1
    BY <1>1
  <2>2. /\ \A t \in DOMAIN T : U[t] = T[t] /\ v \notin T[t]
        /\ U[Len(T) + 1] = {v}
        /\ \A t \in DOMAIN U : t \in DOMAIN T \/ t = Len(T) + 1
    BY <1>1, <2>1
  <2> SUFFICES ASSUME NEW s \in DOMAIN U, NEW t \in DOMAIN U, U[s] \cap U[t] # {}
               PROVE  s = t
    BY <2>1 DEF Apart
  <2> QED  BY <2>2 DEF Apart
<1>2. ASSUME NEW t \in DOMAIN T, U = [T EXCEPT ![t] = @ \cup {v}],
             \A r \in DOMAIN T : v \notin T[r]
      PROVE  U \in Seq(SUBSET Clients) /\ Apart(U)
  <2>1. U \in Seq(SUBSET Clients) /\ DOMAIN U = DOMAIN T
    BY <1>2
  <2>2. \A r \in DOMAIN T : \A x : x \in U[r] => x \in T[r] \/ (x = v /\ r = t)
    BY <1>2
  <2> SUFFICES ASSUME NEW r \in DOMAIN T, NEW s \in DOMAIN T, NEW x, x \in U[r], x \in U[s]
               PROVE  r = s
    BY <2>1 DEF Apart
  <2> QED  BY <1>2, <2>2 DEF Apart
<1>3. ASSUME NEW t \in DOMAIN T, U = [T EXCEPT ![t] = @ \ {v}]
      PROVE  U \in Seq(SUBSET Clients) /\ Apart(U)
  <2>1. U \in Seq(SUBSET Clients) /\ DOMAIN U = DOMAIN T
    BY <1>3
  <2>2. \A r \in DOMAIN T : U[r] \subseteq T[r]
    BY <1>3
  <2> QED  BY <2>1, <2>2 DEF Apart
<1> QED  BY <1>1, <1>2, <1>3

(***************************************************************************)
(* In a hall, however many tables there are and whatever they are used     *)
(* for, nobody sits at two of them.                                        *)
(***************************************************************************)
LEMMA HallSeatsOnce == ImplementsHall => []HallView!OneSeat
<1> DEFINE HallInv == Tables \in Seq(SUBSET Clients) /\ Apart(Tables)
<1>1. HallView!Init => HallInv
  BY DEF HallView!Init, Apart, Tables
<1>2. HallInv /\ [HallView!Next]_Tables => HallInv'
  <2> SUFFICES ASSUME HallInv, [HallView!Next]_Tables
               PROVE  HallInv'
    OBVIOUS
  <2>1. CASE UNCHANGED Tables
    BY <2>1 DEF Apart
  <2>2. CASE HallView!Next
    <3>1. HallView!Sitting = UNION {Tables[t] : t \in DOMAIN Tables}
      BY DEF HallView!Sitting, Tables
    <3>2. /\ \A v : HallView!BringTable(v) =>
               v \notin HallView!Sitting /\ Tables' = Append(Tables, {v})
          /\ \A v, t : HallView!SitDown(v, t) =>
               v \notin HallView!Sitting /\ Tables' = [Tables EXCEPT ![t] = @ \cup {v}]
          /\ \A v, t : HallView!StandUp(v, t) => Tables' = [Tables EXCEPT ![t] = @ \ {v}]
      BY DEF HallView!BringTable, HallView!SitDown, HallView!StandUp, Tables
    <3>3. PICK v \in Clients :
            \/ HallView!BringTable(v)
            \/ \E t \in DOMAIN Tables : HallView!SitDown(v, t) \/ HallView!StandUp(v, t)
      BY <2>2 DEF HallView!Next, Tables
    <3>4. PICK T, U : T = Tables /\ U = Tables'
      OBVIOUS
    <3>5. \/ U = Append(T, {v}) /\ \A t \in DOMAIN T : v \notin T[t]
          \/ /\ \A t \in DOMAIN T : v \notin T[t]
             /\ \E t \in DOMAIN T : U = [T EXCEPT ![t] = @ \cup {v}]
          \/ \E t \in DOMAIN T : U = [T EXCEPT ![t] = @ \ {v}]
      BY <3>1, <3>2, <3>3, <3>4
    <3>6. T \in Seq(SUBSET Clients) /\ Apart(T)
      BY <3>4
    <3>7. U \in Seq(SUBSET Clients) /\ Apart(U)
      BY <3>5, <3>6, MovesKeepApart
    <3> QED  BY <3>4, <3>7 DEF Apart
  <2> QED  BY <2>1, <2>2
<1>3. HallInv => HallView!OneSeat
  BY DEF Apart, HallView!OneSeat, Tables
<1>4. ImplementsHall <=> HallView!Init /\ [][HallView!Next]_Tables
  BY DEF ImplementsHall, HallView!Spec, Tables
<1> QED  BY <1>1, <1>2, <1>3, <1>4, PTL

(***************************************************************************)
(* Under the same condition nobody sits in two rooms.                      *)
(***************************************************************************)
THEOREM NobodySitsTwice ==
  ASSUME Clicks = 1
  PROVE  Spec => []HallView!OneSeat
BY LobbyIsHall, HallSeatsOnce, PTL

-----------------------------------------------------------------------------

(***************************************************************************)
(* What the clients show.  A client's list of players follows its room through *)
(* the messages on their way to it: the invariant is about the whole sequence *)
(* of lists it will go through as it reads them.                           *)
(***************************************************************************)

(***************************************************************************)
(* What a client makes of one message, and the lists of players it goes    *)
(* through as it reads the messages on their way to it.                    *)
(***************************************************************************)
Read(g, msg) ==
  CASE msg.action = "add" -> IF msg.error THEN g ELSE msg.data
    [] msg.action = "new_player" -> NewPlayer(g, msg.data)
    [] msg.action = "leave" -> PlayerLeft(g, msg.data)
    [] OTHER -> g

Reading(g, r, v) == v[0] = g /\ \A k \in 1 .. Len(r) : v[k] = Read(v[k - 1], r[k])

\* The last message is the one the fold reads last.
LEMMA MaxLast ==
  ASSUME NEW m \in Nat, NEW s, s \subseteq 1 .. m + 1, m + 1 \in s
  PROVE  Max(s) = m + 1
<1> DEFINE k == m + 1
<1>1. k \in s /\ \A y \in s : y \in Int /\ y =< k /\ k >= y
  OBVIOUS
<1>2. \A x \in s : (\A y \in s : x >= y) => x = k
  BY <1>1
<1> HIDE DEF k
<1>3. Max(s) = k
  BY <1>1, <1>2 DEF Max
<1> QED  BY <1>3 DEF k

(***************************************************************************)
(* The fold that is the list after reading ends where the reading ends.    *)
(***************************************************************************)
LEMMA ReadingEnds ==
  ASSUME NEW c, NEW M, toClient[c] \in Seq(M), NEW v, Reading(game[c], toClient[c], v)
  PROVE  AfterReading(c) = v[Len(toClient[c])]
<1> DEFINE r == toClient[c]
           base == game[c]
           n == Len(r)
           Fold(m, h) == h = [s \in SUBSET (1 .. m) |->
                                IF s = {} THEN base ELSE Read(h[s \ {Max(s)}], r[Max(s)])]
<1>1. n \in Nat /\ DOMAIN r = 1 .. n
  BY LenProperties
<1>2. AfterReading(c) = (CHOOSE h : Fold(n, h))[1 .. n]
  BY <1>1 DEF AfterReading, FoldLeft, MapThenFoldSet, Read
<1>3. \A m \in 0 .. n : \E h : Fold(m, h)
  <2> DEFINE T == {m \in 0 .. n : ~ \E h : Fold(m, h)}
  <2> SUFFICES ASSUME T # {} PROVE FALSE
    OBVIOUS
  <2>1. T \subseteq Nat
    BY <1>1
  <2>2. PICK m \in T : \A y \in T : m =< y
    BY <2>1, Smallest
  <2>3. m # 0
    <3>1. SUBSET (1 .. 0) = {{}}
      OBVIOUS
    <3> DEFINE h == [s \in {{}} |-> base]
    <3>2. Fold(0, h)
      BY <3>1
    <3> QED  BY <2>2, <3>2
  <2> DEFINE l == m - 1
  <2>4. l \in 0 .. n /\ m = l + 1 /\ l \in Nat /\ ~ (m =< l)
    BY <1>1, <2>2, <2>3
  <2>5. PICK g : Fold(l, g)
    <3> HIDE DEF Fold
    <3> QED  BY <2>2, <2>4
  <2> DEFINE h == [s \in SUBSET (1 .. m) |-> IF m \in s THEN Read(g[s \ {m}], r[m]) ELSE g[s]]
  <2>6. \A s \in SUBSET (1 .. l) : g[s] = IF s = {} THEN base ELSE Read(g[s \ {Max(s)}], r[Max(s)])
    BY <2>5
  <2>7. ASSUME NEW s \in SUBSET (1 .. m)
        PROVE  h[s] = IF s = {} THEN base ELSE Read(h[s \ {Max(s)}], r[Max(s)])
    <3>1. CASE m \in s
      <4>1. Max(s) = m
        BY <2>4, <3>1, MaxLast
      <4>2. s \ {m} \in SUBSET (1 .. m) /\ m \notin s \ {m} /\ s # {}
        BY <3>1
      <4>3. h[s] = Read(g[s \ {m}], r[m]) /\ h[s \ {m}] = g[s \ {m}]
        BY <3>1, <4>2
      <4> HIDE DEF h
      <4> QED  BY <4>1, <4>2, <4>3
    <3>2. CASE m \notin s
      <4>1. s \in SUBSET (1 .. l)
        BY <2>4, <3>2
      <4>2. s # {} => s \ {Max(s)} \in SUBSET (1 .. m) /\ m \notin s \ {Max(s)}
        BY <3>2
      <4>3. h[s] = g[s] /\ (s # {} => h[s \ {Max(s)}] = g[s \ {Max(s)}])
        BY <3>2, <4>2
      <4> HIDE DEF h
      <4> QED  BY <2>6, <4>1, <4>3
    <3> QED  BY <3>1, <3>2
  <2>8. h = [s \in SUBSET (1 .. m) |-> h[s]]
    OBVIOUS
  <2> HIDE DEF h
  <2>9. Fold(m, h)
    BY <2>7, <2>8
  <2> HIDE DEF Fold
  <2> QED  BY <2>2, <2>9
<1>4. ASSUME NEW h, Fold(n, h)
      PROVE  h[1 .. n] = v[n]
  <2>1. \A s \in SUBSET (1 .. n) : h[s] = IF s = {} THEN base ELSE Read(h[s \ {Max(s)}], r[Max(s)])
    BY <1>4
  <2> DEFINE T == {m \in 0 .. n : h[1 .. m] # v[m]}
  <2> SUFFICES ASSUME T # {} PROVE FALSE
    BY <1>1
  <2>2. T \subseteq Nat
    BY <1>1
  <2>3. PICK m \in T : \A y \in T : m =< y
    BY <2>2, Smallest
  <2>4. m # 0
    <3>1. 1 .. 0 = {} /\ {} \in SUBSET (1 .. n)
      OBVIOUS
    <3>2. h[{}] = base
      BY <2>1, <3>1
    <3> QED  BY <2>3, <3>1, <3>2 DEF Reading
  <2> DEFINE l == m - 1
  <2>5. l \in 0 .. n /\ m = l + 1 /\ l \in Nat /\ ~ (m =< l) /\ m \in 1 .. n
    BY <1>1, <2>3, <2>4
  <2>6. h[1 .. l] = v[l]
    BY <2>3, <2>5
  <2>7. 1 .. m \in SUBSET (1 .. n) /\ 1 .. m # {} /\ (1 .. m) \ {m} = 1 .. l /\ m \in 1 .. m
    <3> HIDE DEF n, l
    <3>1. n \in Nat /\ m \in 1 .. n /\ l \in Nat /\ m = l + 1
      BY <1>1, <2>5
    <3>2. \A x : x \in 1 .. m => x \in 1 .. n
      BY <3>1
    <3>3. m \in 1 .. m
      BY <3>1
    <3>4. \A x : x \in (1 .. m) \ {m} <=> x \in 1 .. l
      BY <3>1
    <3> QED  BY <3>2, <3>3, <3>4
  <2>8. Max(1 .. m) = m
    BY <2>5, <2>7, MaxLast
  <2>9. h[1 .. m] = Read(h[1 .. l], r[m])
    BY <2>1, <2>7, <2>8
  <2>10. v[m] = Read(v[l], r[m])
    BY <2>5 DEF Reading
  <2> QED  BY <2>3, <2>6, <2>9, <2>10
<1>5. (CHOOSE h : Fold(n, h))[1 .. n] = v[n]
  <2> HIDE DEF Fold
  <2>1. Fold(n, CHOOSE h : Fold(n, h))
    BY <1>1, <1>3
  <2> QED  BY <1>4, <2>1
<1> QED  BY <1>2, <1>5

\* A reading goes on with one more message, and goes on without its first.
LEMMA ReadingAppend ==
  ASSUME NEW M, NEW r \in Seq(M), NEW m \in M, NEW g, NEW v, Reading(g, r, v)
  PROVE  \E w : /\ Reading(g, Append(r, m), w)
                /\ \A k \in 0 .. Len(r) : w[k] = v[k]
                /\ w[Len(r) + 1] = Read(v[Len(r)], m)
<1> DEFINE n == Len(r)
           t == Append(r, m)
           w == [k \in 0 .. n + 1 |-> IF k = n + 1 THEN Read(v[n], m) ELSE v[k]]
<1>1. n \in Nat /\ Len(t) = n + 1 /\ (\A i \in 1 .. n : t[i] = r[i]) /\ t[n + 1] = m
  BY AppendProperties, LenProperties
<1> HIDE DEF n, t
<1>2. (\A k \in 0 .. n : w[k] = v[k]) /\ w[n + 1] = Read(v[n], m)
  BY <1>1
<1> HIDE DEF w
<1>3. ASSUME NEW k \in 1 .. n + 1
      PROVE  w[k] = Read(w[k - 1], t[k])
  <2>1. CASE k \in 1 .. n
    <3>1. k - 1 \in 0 .. n /\ k \in 0 .. n
      BY <1>1, <2>1
    <3> QED  BY <1>1, <1>2, <2>1, <3>1 DEF Reading, n
  <2>2. CASE k = n + 1
    <3>1. k - 1 = n /\ n \in 0 .. n
      BY <1>1, <2>2
    <3> QED  BY <1>1, <1>2, <2>2, <3>1
  <2> QED  BY <1>1, <2>1, <2>2
<1>4. w[0] = g
  BY <1>1, <1>2 DEF Reading
<1> QED  BY <1>1, <1>2, <1>3, <1>4 DEF Reading, n, t

LEMMA ReadingTail ==
  ASSUME NEW M, NEW r \in Seq(M), r # << >>, NEW g, NEW v, Reading(g, r, v)
  PROVE  \E w : /\ Reading(v[1], Tail(r), w) /\ v[1] = Read(g, Head(r))
                /\ Len(Tail(r)) = Len(r) - 1 /\ Len(r) \in Nat \ {0}
                /\ \A k \in 0 .. Len(r) - 1 : w[k] = v[k + 1]
<1> DEFINE n == Len(r)
           t == Tail(r)
           w == [k \in 0 .. n - 1 |-> v[k + 1]]
<1>1. n \in Nat \ {0} /\ Len(t) = n - 1 /\ (\A i \in 1 .. n - 1 : t[i] = r[i + 1]) /\ Head(r) = r[1]
  BY QueueTail
<1> HIDE DEF n, t
<1>2. \A k \in 0 .. n - 1 : w[k] = v[k + 1]
  OBVIOUS
<1> HIDE DEF w
<1>3. ASSUME NEW k \in 1 .. n - 1
      PROVE  w[k] = Read(w[k - 1], t[k])
  <2>1. k \in 0 .. n - 1 /\ k - 1 \in 0 .. n - 1 /\ (k - 1) + 1 = k /\ k + 1 \in 1 .. n
        /\ (k + 1) - 1 = k
    BY <1>1
  <2>2. w[k] = v[k + 1] /\ w[k - 1] = v[k] /\ t[k] = r[k + 1]
    BY <1>1, <1>2, <2>1
  <2> DEFINE l == k + 1
  <2>3. l \in 1 .. n /\ l - 1 = k
    BY <2>1
  <2> HIDE DEF l
  <2>4. v[l] = Read(v[k], r[l])
    BY <2>3 DEF Reading, n
  <2> QED  BY <2>2, <2>4 DEF l
<1>4. w[0] = v[1]
  BY <1>1, <1>2
<1>5. v[1] = Read(g, Head(r))
  <2>1. 1 \in 1 .. n /\ 1 - 1 = 0
    BY <1>1
  <2> QED  BY <1>1, <2>1 DEF Reading, n
<1> QED  BY <1>1, <1>2, <1>3, <1>4, <1>5 DEF Reading, n, t

(***************************************************************************)
(* What a client shows: the inductive invariant.  As it reads, its list is *)
(* always null or a list of its room with itself in it, and in the end,    *)
(* while the server runs, the seats of its room as they are.               *)
(***************************************************************************)
Good(c, g) == g \in Seq(Clients) /\ Occurrences(c, g) # 0 /\ Len(g) =< MAX_PLAYERS

Shows(c, g) ==
  fault = "none" =>
    IF Has(toServer[c], "leave") \/ ~ Sits(c) THEN g = NoGame
    ELSE \A i \in DOMAIN activeGames : Occurrences(c, activeGames[i]) # 0 => g = activeGames[i]

ViewClient(c) ==
  \E v, g : /\ Reading(game[c], toClient[c], v)
            /\ \A k \in 0 .. Len(toClient[c]) : v[k] = NoGame \/ Good(c, v[k])
            /\ g = v[Len(toClient[c])] /\ Shows(c, g)

SceneFits(c) ==
  /\ scene[c] = "game_panel" <=> game[c] # NoGame
  /\ game[c] # NoGame => index[c] \in DOMAIN game[c] /\ game[c][index[c]] = c

AnswerOwn(c, m) ==
  m.action = "add" /\ ~ m.error => Good(c, m.data) /\ m.data[Len(m.data)] = c

AnswersOwn(c) == \A i \in 1 .. Len(toClient[c]) : AnswerOwn(c, toClient[c][i])

ViewInv ==
  \A c \in Clients : link[c] = "open" => ViewClient(c) /\ SceneFits(c) /\ AnswersOwn(c)

\* A list with the client in it is not the null list.
LEMMA GoodGame ==
  ASSUME NEW c \in Clients, NEW g, Good(c, g)
  PROVE  g # NoGame
<1>1. c # 0
  BY ClientsAssumption
<1>2. Occurrences(c, <<0>>) = 0
  BY <1>1, OccurrencesOne
<1> QED  BY <1>2 DEF Good, NoGame

(***************************************************************************)
(* A step that sends the client one message, or none.                      *)
(***************************************************************************)
LEMMA ViewQuiet ==
  ASSUME NEW c \in Clients, ViewClient(c), AnswersOwn(c),
         game'[c] = game[c], toClient'[c] = toClient[c],
         \A g : Shows(c, g) => Shows(c, g)'
  PROVE  ViewClient(c)' /\ AnswersOwn(c)'
<1>1. PICK v, g : /\ Reading(game[c], toClient[c], v)
                  /\ \A k \in 0 .. Len(toClient[c]) : v[k] = NoGame \/ Good(c, v[k])
                  /\ g = v[Len(toClient[c])] /\ Shows(c, g)
  BY DEF ViewClient
<1>2. Shows(c, g)'
  BY <1>1
<1>3. AnswersOwn(c)'
  BY DEF AnswersOwn
<1> QED  BY <1>1, <1>2, <1>3 DEF ViewClient

LEMMA ViewTold ==
  ASSUME TypedInv, TypedInv', fault' = "none", NEW c \in Clients, ViewClient(c), AnswersOwn(c),
         game'[c] = game[c], NEW m, AnswerOwn(c, m),
         toClient'[c] = Append(toClient[c], m),
         \A g : Shows(c, g) => Shows(c, Read(g, m))'
  PROVE  ViewClient(c)' /\ AnswersOwn(c)'
<1>1. PICK v, g : /\ Reading(game[c], toClient[c], v)
                  /\ \A k \in 0 .. Len(toClient[c]) : v[k] = NoGame \/ Good(c, v[k])
                  /\ g = v[Len(toClient[c])] /\ Shows(c, g)
  BY DEF ViewClient
<1> DEFINE r == toClient[c]
           M == ToClientMessage \cup {m}
           n == Len(r)
<1>2. r \in Seq(M) /\ m \in M
  <2>1. r \in Seq(ToClientMessage)
    BY DEF TypedInv, QueuesTyped
  <2> HIDE DEF r
  <2> QED  BY <2>1, SeqMonotonic
<1> HIDE DEF M, r
<1>3. /\ n \in Nat /\ Len(Append(r, m)) = n + 1
      /\ \A i \in 1 .. n : Append(r, m)[i] = r[i]
      /\ Append(r, m)[n + 1] = m
  BY <1>2, AppendProperties, LenProperties
<1>4. PICK w : /\ Reading(game[c], Append(r, m), w)
               /\ \A k \in 0 .. n : w[k] = v[k]
               /\ w[n + 1] = Read(v[n], m)
  BY <1>1, <1>2, ReadingAppend DEF r
<1> HIDE DEF n
<1>5. PICK h : h = Read(g, m)
  OBVIOUS
<1>6. Shows(c, Read(g, m))'
  BY <1>1
<1>7. Shows(c, h)'
  BY <1>5, <1>6 DEF Shows
<1>8. h = NoGame \/ Good(c, h)
  <2>1. CASE (Has(toServer[c], "leave") \/ ~ Sits(c))'
    BY <1>7, <2>1 DEF Shows
  <2>2. CASE ~ (Has(toServer[c], "leave") \/ ~ Sits(c))'
    <3>1. PICK i \in DOMAIN activeGames' : Occurrences(c, activeGames'[i]) # 0
      BY <2>2 DEF Sits
    <3>2. h = activeGames'[i]
      BY <1>7, <2>2, <3>1 DEF Shows
    <3>3. activeGames'[i] \in Seq(Clients) /\ Len(activeGames'[i]) =< MAX_PLAYERS
      BY <3>1 DEF TypedInv, BooksInv, BooksTyped, ServerTyped, RoomsFit
    <3> QED  BY <3>1, <3>2, <3>3 DEF Good
  <2> QED  BY <2>1, <2>2
<1>9. w[n + 1] = h
  BY <1>1, <1>4, <1>5 DEF n, r
<1> DEFINE t == Append(r, m)
<1>10. toClient'[c] = t /\ Len(t) = n + 1 /\ Reading(game[c], t, w)
  BY <1>3, <1>4 DEF r
<1> HIDE DEF t
<1>11. \A k \in 0 .. n + 1 : w[k] = NoGame \/ Good(c, w[k])
  <2> SUFFICES ASSUME NEW k \in 0 .. n + 1
               PROVE  w[k] = NoGame \/ Good(c, w[k])
    OBVIOUS
  <2>1. k \in 0 .. n \/ k = n + 1
    BY <1>3
  <2> QED  BY <1>1, <1>4, <1>8, <1>9, <2>1 DEF n, r
<1>12. ViewClient(c)'
  <2>1. Reading(game'[c], toClient'[c], w)
    BY <1>10
  <2>2. \A k \in 0 .. Len(toClient'[c]) : w[k] = NoGame \/ Good(c, w[k])
    BY <1>10, <1>11
  <2>3. h = w[Len(toClient'[c])]
    BY <1>9, <1>10
  <2> QED  BY <1>7, <2>1, <2>2, <2>3 DEF ViewClient
<1>13. AnswersOwn(c)'
  <2> SUFFICES ASSUME NEW i \in 1 .. n + 1
               PROVE  AnswerOwn(c, t[i])
    BY <1>10 DEF AnswersOwn
  <2>1. i \in 1 .. n \/ i = n + 1
    BY <1>3
  <2> QED  BY <1>3, <2>1 DEF AnswersOwn, n, r, t
<1> QED  BY <1>12, <1>13

\* What the server's messages make of a list.
LEMMA ReadFields ==
  \A d : /\ \A g : /\ Read(g, NewPlayerTold(d)) = NewPlayer(g, d)
                   /\ Read(g, LeaveTold(d)) = PlayerLeft(g, d)
                   /\ Read(g, SeatsTold(d)) = d
                   /\ Read(g, ChatTold(d)) = g
                   /\ Read(g, RefusalTold) = g /\ Read(g, RoomsTold) = g
         /\ \A e : /\ AnswerOwn(d, NewPlayerTold(e)) /\ AnswerOwn(d, LeaveTold(e))
                   /\ AnswerOwn(d, ChatTold(e))
         /\ AnswerOwn(d, RefusalTold) /\ AnswerOwn(d, RoomsTold)
         /\ \A s : Good(d, s) /\ s[Len(s)] = d => AnswerOwn(d, SeatsTold(s))
<1>1. \A g, d : /\ Read(g, NewPlayerTold(d)) = NewPlayer(g, d)
                /\ Read(g, LeaveTold(d)) = PlayerLeft(g, d)
  BY DEF Read, NewPlayerTold, LeaveTold
<1>2. \A g, d : /\ Read(g, SeatsTold(d)) = d
                /\ Read(g, ChatTold(d)) = g
  BY DEF Read, SeatsTold, ChatTold
<1>3. \A g : Read(g, RefusalTold) = g /\ Read(g, RoomsTold) = g
  BY DEF Read, RefusalTold, RoomsTold
<1>4. \A d, e : /\ AnswerOwn(d, NewPlayerTold(e)) /\ AnswerOwn(d, LeaveTold(e))
                /\ AnswerOwn(d, ChatTold(e))
  BY DEF AnswerOwn, NewPlayerTold, LeaveTold, ChatTold
<1>5. \A d : AnswerOwn(d, RefusalTold) /\ AnswerOwn(d, RoomsTold)
  BY DEF AnswerOwn, RefusalTold, RoomsTold
<1>6. \A d, s : Good(d, s) /\ s[Len(s)] = d => AnswerOwn(d, SeatsTold(s))
  BY DEF AnswerOwn, SeatsTold
<1> QED  BY <1>1, <1>2, <1>3, <1>4, <1>5, <1>6

(***************************************************************************)
(* A step that moves nobody.                                               *)
(***************************************************************************)
LEMMA SameShown ==
  ASSUME UNCHANGED <<activeGames, fault>>, NEW d \in Clients,
         Has(toServer[d], "leave")' <=> Has(toServer[d], "leave")
  PROVE  \A g : Shows(d, g) => Shows(d, g)'
  BY DEF Shows, Sits

LEMMA StillView ==
  ASSUME TypedInv, TypedInv', fault = "none", UNCHANGED <<activeGames, fault>>, NEW d \in Clients,
         Has(toServer[d], "leave")' <=> Has(toServer[d], "leave"),
         link[d] = "open", game'[d] = game[d], ViewClient(d), AnswersOwn(d),
         NEW m, AnswerOwn(d, m), \A g : Shows(d, g) => Read(g, m) = g, NotTold(d) \/ Told(d, m)
  PROVE  ViewClient(d)' /\ AnswersOwn(d)'
<1>1. \A g : Shows(d, g) => Shows(d, g)'
  BY SameShown
<1>2. CASE NotTold(d)
  <2>1. toClient'[d] = toClient[d]
    BY <1>2 DEF NotTold
  <2> QED  BY <1>1, <2>1, ViewQuiet
<1>3. CASE Told(d, m)
  <2>1. toClient'[d] = Append(toClient[d], m)
    BY <1>3 DEF Told
  <2>2. \A g : Shows(d, g) => Shows(d, Read(g, m))'
    <3> SUFFICES ASSUME NEW g, Shows(d, g) PROVE Shows(d, Read(g, m))'
      OBVIOUS
    <3>1. Read(g, m)' = Read(g, m) /\ Read(g, m) = g
      BY DEF Read, NewPlayer, PlayerLeft
    <3> QED  BY <1>1, <3>1 DEF Shows
  <2> QED  BY <2>1, <2>2, ViewTold
<1> QED  BY <1>2, <1>3

\* A client that sits nowhere has no leave on its way.
LEMMA NoLeave ==
  ASSUME SeatInv, NEW c \in Clients, c \notin broken, ~ Sits(c)
  PROVE  ~ Has(toServer[c], "leave")
  BY DEF SeatInv, ClientInv, InOrder, Has

(***************************************************************************)
(* What everybody shows when c has sat down.                               *)
(***************************************************************************)
LEMMA JoinsView ==
  ASSUME TypedInv, TypedInv', SeatInv, fault = "none", UNCHANGED fault, NEW c \in Clients, ~ Sits(c), NEW i, Joins(c, i),
         NEW d \in Clients, Has(toServer[d], "leave")' <=> Has(toServer[d], "leave"),
         link[d] = "open", game'[d] = game[d], ViewClient(d), AnswersOwn(d)
  PROVE  ViewClient(d)' /\ AnswersOwn(d)'
<1>0. PICK t : t = activeGames'[i]
  OBVIOUS
<1>1. /\ DOMAIN activeGames' = DOMAIN activeGames \cup {i}
      /\ t = Append(Old(i), c) /\ Old(i) \in Seq(Clients)
      /\ \A j \in DOMAIN activeGames : j # i => activeGames'[j] = activeGames[j]
      /\ t \in Seq(Clients) /\ Len(t) =< MAX_PLAYERS
  BY <1>0, OldTyped DEF Joins, SitsDown, TypedInv, BooksInv, BooksTyped, ServerTyped, RoomsFit
<1>2. Sits(c)' /\ SeatedOnce' /\ \A e \in Clients \ {c} : Sits(e)' <=> Sits(e)
  BY JoinsSeats DEF Joins
<1>3. \A e : Occurrences(e, t) = Occurrences(e, Old(i)) + (IF e = c THEN 1 ELSE 0)
  <2> DEFINE s == Old(i)
  <2> HIDE DEF s
  <2>1. \A e : Occurrences(e, Append(s, c)) = Occurrences(e, s) + (IF e = c THEN 1 ELSE 0)
    BY <1>1, OccurrencesAppend DEF s
  <2> QED  BY <1>1, <2>1 DEF s
<1>4. \A e \in Clients : i \notin DOMAIN activeGames => Occurrences(e, Old(i)) = 0
  BY OccurrencesEmpty DEF Old
<1>5. \A e \in Clients : Occurrences(e, Old(i)) \in Nat
  <2> DEFINE s == Old(i)
  <2> HIDE DEF s
  <2> QED  BY <1>1, PlacesFinite DEF s
<1>6. CASE d = c
  <2>1. ~ Has(toServer[c], "leave")'
    BY <1>6, NoLeave, Unbroken
  <2>2. Occurrences(c, t) # 0
    BY <1>3, <1>5
  <2>3. t[Len(t)] = c
    <3> DEFINE s == Old(i)
    <3> HIDE DEF s
    <3>1. Len(Append(s, c)) = Len(s) + 1 /\ Append(s, c)[Len(s) + 1] = c
      BY <1>1, AppendProperties DEF s
    <3> QED  BY <1>1, <3>1 DEF s
  <2>4. AnswerOwn(c, SeatsTold(t))
    <3>1. Good(c, t)
      BY <1>1, <2>2 DEF Good
    <3> QED  BY <2>3, <3>1, ReadFields
  <2>5. Shows(c, t)'
    <3>1. i \in DOMAIN activeGames' /\ activeGames'[i] = t
      BY <1>0, <1>1
    <3>2. \A j \in DOMAIN activeGames' : Occurrences(c, activeGames'[j]) # 0 => j = i
      BY <1>2, <2>2, <3>1 DEF SeatedOnce
    <3>3. \A j \in DOMAIN activeGames' : Occurrences(c, activeGames'[j]) # 0 => t = activeGames'[j]
      BY <3>1, <3>2
    <3> QED  BY <1>2, <2>1, <3>3 DEF Shows
  <2> DEFINE m == SeatsTold(t)
  <2>6. toClient'[c] = Append(toClient[c], m)
    BY <1>0, <1>6 DEF Joins, Told
  <2>7. \A g : Shows(c, Read(g, m))'
    <3>1. \A g : Read(g, m) = t
      BY ReadFields
    <3> HIDE DEF m
    <3> QED  BY <2>5, <3>1
  <2> HIDE DEF m
  <2> QED  BY <1>6, <2>4, <2>6, <2>7, ViewTold DEF m
<1>7. CASE d # c /\ Occurrences(d, Old(i)) # 0
  <2> DEFINE m == NewPlayerTold(c)
  <2>1. toClient'[d] = Append(toClient[d], m) /\ AnswerOwn(d, m)
    BY <1>7, ReadFields DEF Joins, Told
  <2>2. /\ i \in DOMAIN activeGames /\ Old(i) = activeGames[i]
        /\ Occurrences(d, t) # 0 /\ Sits(d) /\ Sits(d)'
    <3>1. i \in DOMAIN activeGames /\ Old(i) = activeGames[i]
      BY <1>4, <1>7 DEF Old
    <3>2. Sits(d) /\ Sits(d)'
      BY <1>2, <1>7, <3>1 DEF Sits
    <3>3. Occurrences(d, t) # 0
      <4> DEFINE n == Occurrences(d, Old(i))
      <4>1. n \in Nat /\ Occurrences(d, t) = n + (IF d = c THEN 1 ELSE 0) /\ n # 0
        BY <1>3, <1>5, <1>7
      <4> HIDE DEF n
      <4> QED  BY <1>7, <4>1
    <3> QED  BY <3>1, <3>2, <3>3
  <2>3. \A j \in DOMAIN activeGames' : Occurrences(d, activeGames'[j]) # 0 => j = i
    <3>1. i \in DOMAIN activeGames' /\ activeGames'[i] = t
      BY <1>0, <1>1
    <3> QED  BY <1>2, <2>2, <3>1 DEF SeatedOnce
  <2>4. ASSUME NEW g, Shows(d, g)
        PROVE  Shows(d, Read(g, m))'
    <3>1. Read(g, m) = NewPlayer(g, c)
      BY ReadFields
    <3>2. PICK h : h = NewPlayer(g, c)
      OBVIOUS
    <3>3. Shows(d, h)'
      <4>1. CASE Has(toServer[d], "leave")
        <5>1. g = NoGame /\ h = NoGame
          BY <2>4, <3>2, <4>1 DEF Shows, NewPlayer
        <5> QED  BY <4>1, <5>1 DEF Shows, NoGame
      <4>2. CASE ~ Has(toServer[d], "leave")
        <5>1. g = activeGames[i]
          BY <1>7, <2>2, <2>4, <4>2 DEF Shows
        <5>2. g # NoGame
          <6>1. Good(d, g)
            BY <1>7, <2>2, <5>1, Typed DEF Good, TypedInv, BooksInv, ServerTyped, RoomsFit
          <6> QED  BY <6>1, GoodGame
        <5>3. h = t
          BY <1>1, <2>2, <3>2, <5>1, <5>2 DEF NewPlayer
        <5> QED  BY <1>0, <2>2, <2>3, <4>2, <5>3 DEF Shows
      <4> QED  BY <4>1, <4>2
    <3>4. PICK k : k = Read(g, m)
      OBVIOUS
    <3> QED  BY <3>1, <3>2, <3>3 DEF Shows
  <2> HIDE DEF m
  <2> QED  BY <2>1, <2>4, ViewTold
<1>8. CASE d # c /\ Occurrences(d, Old(i)) = 0
  <2>1. toClient'[d] = toClient[d]
    BY <1>8 DEF Joins, NotTold
  <2>2. \A j \in DOMAIN activeGames' :
          Occurrences(d, activeGames'[j]) # 0 =>
            j \in DOMAIN activeGames /\ activeGames'[j] = activeGames[j]
    <3>1. activeGames'[i] = t /\ Occurrences(d, t) = 0
      BY <1>0, <1>3, <1>8
    <3> QED  BY <1>1, <3>1
  <2>3. \A g : Shows(d, g) => Shows(d, g)'
    BY <1>2, <1>8, <2>2 DEF Shows
  <2> QED  BY <2>1, <2>3, ViewQuiet
<1> QED  BY <1>6, <1>7, <1>8

(***************************************************************************)
(* What everybody shows when c has stood up.                               *)
(***************************************************************************)
LEMMA PartsView ==
  ASSUME TypedInv, TypedInv', SeatInv, fault = "none", UNCHANGED fault, NEW c \in Clients, NEW i, Parts(c, i),
         NEW d \in Clients, Has(toServer[d], "leave")' <=> Has(toServer[d], "leave"), d # c,
         link[d] = "open", game'[d] = game[d], ViewClient(d), AnswersOwn(d)
  PROVE  ViewClient(d)' /\ AnswersOwn(d)'
<1>0. PICK t : t = activeGames'[i]
  OBVIOUS
<1>1. /\ DOMAIN activeGames' = DOMAIN activeGames /\ i \in DOMAIN activeGames
      /\ t = RemoveFirst(activeGames[i], c) /\ activeGames[i] \in Seq(Clients)
      /\ \A j \in DOMAIN activeGames : j # i => activeGames'[j] = activeGames[j]
  BY <1>0, Typed DEF Parts, TypedInv, BooksInv
<1>2. SeatedOnce' /\ (Sits(d)' <=> Sits(d))
  BY PartsSeats
<1>3. Occurrences(d, t) = Occurrences(d, activeGames[i])
  <2> DEFINE s == activeGames[i]
  <2>1. s \in Seq(Clients)
    BY <1>1
  <2> HIDE DEF s
  <2>2. Occurrences(d, RemoveFirst(s, c)) = Occurrences(d, s) - 0
    BY <2>1, OccurrencesRemoveFirst
  <2>3. Occurrences(d, s) \in Nat
    BY <2>1, PlacesFinite
  <2> QED  BY <1>1, <2>2, <2>3 DEF s
<1>4. CASE Occurrences(d, activeGames[i]) # 0
  <2> DEFINE m == LeaveTold(c)
  <2>1. toClient'[d] = Append(toClient[d], m) /\ AnswerOwn(d, m)
    BY <1>4, ReadFields DEF Parts, Told
  <2>2. Sits(d) /\ Sits(d)'
    BY <1>1, <1>2, <1>4 DEF Sits
  <2>3. \A j \in DOMAIN activeGames' : Occurrences(d, activeGames'[j]) # 0 => j = i
    <3>1. i \in DOMAIN activeGames' /\ Occurrences(d, activeGames'[i]) # 0
      BY <1>0, <1>1, <1>3, <1>4
    <3> QED  BY <1>2, <3>1 DEF SeatedOnce
  <2>4. ASSUME NEW g, Shows(d, g)
        PROVE  Shows(d, Read(g, m))'
    <3>1. Read(g, m) = PlayerLeft(g, c)
      BY ReadFields
    <3>2. PICK h : h = PlayerLeft(g, c)
      OBVIOUS
    <3>3. Shows(d, h)'
      <4>1. CASE Has(toServer[d], "leave")
        <5>1. g = NoGame /\ h = NoGame
          BY <2>4, <3>2, <4>1 DEF Shows, PlayerLeft
        <5> QED  BY <4>1, <5>1 DEF Shows, NoGame
      <4>2. CASE ~ Has(toServer[d], "leave")
        <5>1. g = activeGames[i]
          BY <1>1, <1>4, <2>2, <2>4, <4>2 DEF Shows
        <5>2. g # NoGame
          <6>1. Good(d, g)
            BY <1>1, <1>4, <5>1, Typed DEF Good, TypedInv, BooksInv, ServerTyped, RoomsFit
          <6> QED  BY <6>1, GoodGame
        <5>3. h = t
          BY <1>1, <3>2, <5>1, <5>2 DEF PlayerLeft
        <5> QED  BY <1>0, <2>2, <2>3, <4>2, <5>3 DEF Shows
      <4> QED  BY <4>1, <4>2
    <3> QED  BY <3>1, <3>2, <3>3 DEF Shows
  <2> HIDE DEF m
  <2> QED  BY <2>1, <2>4, ViewTold
<1>5. CASE Occurrences(d, activeGames[i]) = 0
  <2>1. toClient'[d] = toClient[d]
    BY <1>5 DEF Parts, NotTold
  <2>2. \A j \in DOMAIN activeGames' :
          Occurrences(d, activeGames'[j]) # 0 => activeGames'[j] = activeGames[j]
    <3>1. Occurrences(d, activeGames'[i]) = 0
      BY <1>0, <1>3, <1>5
    <3> QED  BY <1>1, <3>1
  <2>3. \A g : Shows(d, g) => Shows(d, g)'
    BY <1>1, <1>2, <2>2 DEF Shows
  <2> QED  BY <2>1, <2>3, ViewQuiet
<1> QED  BY <1>4, <1>5

(***************************************************************************)
(* The client whose leave is done shows no game, and sits nowhere.         *)
(***************************************************************************)
LEMMA LeftView ==
  ASSUME TypedInv, SeatInv, fault = "none", NEW c \in Clients, NEW i, Parts(c, i),
         Has(toServer[c], "leave"), game'[c] = game[c], ViewClient(c), AnswersOwn(c)
  PROVE  ViewClient(c)' /\ AnswersOwn(c)'
<1>1. ~ Sits(c)'
  BY PartsSeats
<1>2. \A g : Shows(c, g) => Shows(c, g)'
  BY <1>1 DEF Shows, NoGame
<1>3. toClient'[c] = toClient[c]
  BY DEF Parts, NotTold
<1> QED  BY <1>2, <1>3, ViewQuiet

\* The server's step keeps every client in step with its room.
LEMMA WorkView ==
  ASSUME TypedInv, TypedInv', SeatInv, ViewInv, NEW c \in Clients, c \notin broken, DoWork(c)
  PROVE  ViewInv'
<1> DEFINE msg == Head(toServer[c])
<1>1. /\ UNCHANGED <<link, scene, game, index>>
      /\ toServer[c] # << >> /\ toServer'[c] = Tail(toServer[c])
      /\ \A d \in Clients : d # c => toServer'[d] = toServer[d]
      /\ fault = "none"
  BY DEF DoWork, clientVars, TypedInv, BooksInv, BooksTyped
<1>2. UNCHANGED fault /\ SeatWork(c, msg)
  BY SeatWorkCases
<1>3. \A a : Has(toServer[c], a) <=> Has(toServer[c], a)' \/ msg.action = a
  <2> DEFINE q == toServer[c]
  <2>1. q \in Seq(ToServerMessage) /\ q # << >>
    BY <1>1 DEF TypedInv, QueuesTyped
  <2> HIDE DEF q
  <2>2. \A a : Has(q, a) <=> Has(Tail(q), a) \/ Head(q).action = a
    BY <2>1, QueueTail
  <2> QED  BY <1>1, <2>2 DEF q, Has
<1> HIDE DEF msg
<1> SUFFICES ASSUME NEW d \in Clients, link[d] = "open"
             PROVE  ViewClient(d)' /\ SceneFits(d)' /\ AnswersOwn(d)'
  BY <1>1 DEF ViewInv
<1>4. SceneFits(d)'
  BY <1>1 DEF ViewInv, SceneFits
<1>5. ViewClient(d) /\ AnswersOwn(d) /\ game'[d] = game[d]
  BY <1>1 DEF ViewInv
<1>6. d # c \/ msg.action # "leave" =>
        (Has(toServer[d], "leave")' <=> Has(toServer[d], "leave"))
  <2>1. CASE d # c
    BY <1>1, <2>1 DEF Has
  <2>2. CASE d = c /\ msg.action # "leave"
    BY <1>3, <2>2
  <2> QED  BY <2>1, <2>2
<1>7. d = c => msg.action # "closed"
  <2>1. ~ Has(toServer[d], "closed")
    BY Unbroken DEF SeatInv, ClientInv, OpenClient
  <2> QED  BY <1>3, <2>1
<1>8. \A m : /\ UNCHANGED activeGames /\ (d # c \/ msg.action # "leave")
             /\ AnswerOwn(d, m) /\ (\A g : Read(g, m) = g) /\ (NotTold(d) \/ Told(d, m))
             => ViewClient(d)' /\ AnswersOwn(d)'
  BY <1>1, <1>2, <1>5, <1>6, StillView
<1>9. ViewClient(d)' /\ AnswersOwn(d)'
  <2>1. CASE msg.action = "add"
    <3>1. ~ Sits(c) /\ \/ \E i : Joins(c, i)
                       \/ UNCHANGED activeGames /\ (NotTold(d) \/ Told(d, RefusalTold))
      BY <1>2, <2>1 DEF SeatWork
    <3>2. CASE \E i : Joins(c, i)
      BY <1>1, <1>2, <1>5, <1>6, <2>1, <3>1, <3>2, JoinsView
    <3>3. CASE UNCHANGED activeGames /\ (NotTold(d) \/ Told(d, RefusalTold))
      BY <1>8, <2>1, <3>3, ReadFields
    <3> QED  BY <3>1, <3>2, <3>3
  <2>2. CASE msg.action = "show"
    <3>1. UNCHANGED activeGames /\ (NotTold(d) \/ Told(d, RoomsTold))
      BY <1>2, <2>2 DEF SeatWork
    <3> QED  BY <1>8, <2>2, <3>1, ReadFields
  <2>3. CASE msg.action = "chat"
    <3>1. UNCHANGED activeGames /\ (NotTold(d) \/ Told(d, ChatTold(c)))
      BY <1>2, <2>3 DEF SeatWork
    <3> QED  BY <1>8, <2>3, <3>1, ReadFields
  <2>4. CASE msg.action = "leave"
    <3>1. PICK i : Parts(c, i)
      BY <1>2, <2>4 DEF SeatWork
    <3>2. CASE d # c
      BY <1>1, <1>2, <1>5, <1>6, <3>1, <3>2, PartsView
    <3>3. CASE d = c
      BY <1>1, <1>2, <1>3, <1>5, <2>4, <3>1, <3>3, LeftView
    <3> QED  BY <3>2, <3>3
  <2>5. CASE msg.action = "closed"
    <3>1. \/ UNCHANGED activeGames /\ NotTold(d)
          \/ \E i : Parts(c, i)
      BY <1>2, <2>5 DEF SeatWork
    <3>2. CASE UNCHANGED activeGames /\ NotTold(d)
      BY <1>7, <1>8, <2>5, <3>2, ReadFields
    <3>3. CASE \E i : Parts(c, i)
      BY <1>1, <1>2, <1>5, <1>6, <1>7, <2>5, <3>3, PartsView
    <3> QED  BY <3>1, <3>2, <3>3
  <2> QED  BY <1>2, <2>1, <2>2, <2>3, <2>4, <2>5 DEF SeatWork
<1> QED  BY <1>4, <1>9

\* Without its session, a client's message changes what nobody shows.
LEMMA StaleView ==
  ASSUME TypedInv, TypedInv', SeatInv, ViewInv, NEW c \in broken, DoWork(c)
  PROVE  ViewInv'
<1>1. /\ UNCHANGED <<link, scene, game, index>> /\ fault = "none" /\ c \in Clients
      /\ \A d \in Clients : d # c => toServer'[d] = toServer[d]
  BY DEF DoWork, clientVars, TypedInv, BooksInv, BooksTyped, ServerTyped
<1>2. StaleWork(c) /\ ~ Sits(c)
  BY <1>1, StaleWorkCases DEF SeatInv, ClientInv, BrokenClient
<1> SUFFICES ASSUME NEW d \in Clients, link[d] = "open"
             PROVE  ViewClient(d)' /\ SceneFits(d)' /\ AnswersOwn(d)'
  BY <1>1 DEF ViewInv
<1>3. SceneFits(d)'
  BY <1>1 DEF ViewInv, SceneFits
<1>4. /\ ViewClient(d) /\ AnswersOwn(d) /\ game'[d] = game[d] /\ d # c
      /\ Has(toServer[d], "leave")' <=> Has(toServer[d], "leave")
  BY <1>1, Unbroken DEF ViewInv, Has
<1>5. CASE fault' # "none" /\ UNCHANGED toClient
  <2>1. \A g : Shows(d, g) => Shows(d, g)'
    BY <1>5 DEF Shows
  <2> QED  BY <1>3, <1>4, <1>5, <2>1, ViewQuiet
<1>6. CASE /\ UNCHANGED <<fault, activeGames>>
           /\ NotTold(d) \/ Told(d, ChatTold(c)) \/ Told(d, LeaveTold(c))
  <2>1. \A m : /\ AnswerOwn(d, m) /\ (\A g : Shows(d, g) => Read(g, m) = g)
               /\ (NotTold(d) \/ Told(d, m))
               => ViewClient(d)' /\ AnswersOwn(d)'
    BY <1>1, <1>4, <1>6, StillView
  <2>2. \A g : Shows(d, g) => Read(g, LeaveTold(c)) = g
    <3> SUFFICES ASSUME NEW g, Shows(d, g) PROVE PlayerLeft(g, c) = g
      BY ReadFields
    <3>1. CASE g = NoGame
      BY <3>1 DEF PlayerLeft
    <3>2. CASE g # NoGame
      <4>1. PICK i \in DOMAIN activeGames : g = activeGames[i]
        BY <1>1, <3>2 DEF Shows, Sits
      <4>2. g \in Seq(Clients) /\ Occurrences(c, g) = 0
        BY <1>2, <4>1, Typed DEF Sits, TypedInv, BooksInv
      <4>3. ~ Contains(g, c) /\ DOMAIN g = 1 .. Len(g)
        BY <4>2, OccurrencesContains, LenProperties
      <4> QED  BY <3>2, <4>3 DEF PlayerLeft, RemoveFirst, Contains
    <3> QED  BY <3>1, <3>2
  <2>3. \A g : Shows(d, g) => Read(g, ChatTold(c)) = g
    BY ReadFields
  <2>4. AnswerOwn(d, ChatTold(c)) /\ AnswerOwn(d, LeaveTold(c))
    BY ReadFields
  <2> QED  BY <1>3, <1>6, <2>1, <2>2, <2>3, <2>4
<1> QED  BY <1>2, <1>4, <1>5, <1>6 DEF StaleWork

\* A failed write changes what the others of the client's room show.
LEMMA BreakView ==
  ASSUME TypedInv, TypedInv', SeatInv, ViewInv, NEW c \in Clients, WriteFails(c)
  PROVE  ViewInv'
<1>1. /\ UNCHANGED <<link, toServer, scene, game, index>> /\ fault = "none" /\ link[c] = "closed"
  BY DEF WriteFails, clientVars
<1>2. BreakWork(c)
  BY BreakWorkCases
<1> SUFFICES ASSUME NEW d \in Clients, link[d] = "open"
             PROVE  ViewClient(d)' /\ SceneFits(d)' /\ AnswersOwn(d)'
  BY <1>1 DEF ViewInv
<1>3. SceneFits(d)'
  BY <1>1 DEF ViewInv, SceneFits
<1>4. /\ ViewClient(d) /\ AnswersOwn(d) /\ game'[d] = game[d] /\ d # c
      /\ Has(toServer[d], "leave")' <=> Has(toServer[d], "leave")
  BY <1>1 DEF ViewInv, Has
<1>5. CASE /\ UNCHANGED activeGames /\ toClient'[d] = toClient[d]
           /\ fault' # "none" \/ UNCHANGED fault
  <2>1. \A g : Shows(d, g) => Shows(d, g)'
    BY <1>4, <1>5, SameShown DEF Shows
  <2> QED  BY <1>3, <1>4, <1>5, <2>1, ViewQuiet
<1>6. CASE UNCHANGED fault /\ \E i : Parts(c, i)
  BY <1>1, <1>3, <1>4, <1>6, PartsView
<1> QED  BY <1>2, <1>5, <1>6 DEF BreakWork, NotTold

\* Without a game, only an answer to a request brings one.
LEMMA NullReading ==
  ASSUME NEW r, \A k \in 1 .. Len(r) : r[k].action # "add"
  PROVE  Reading(NoGame, r, [k \in Nat |-> NoGame])
<1> SUFFICES ASSUME NEW k \in 1 .. Len(r)
             PROVE  [j \in Nat |-> NoGame][k] = Read([j \in Nat |-> NoGame][k - 1], r[k])
  BY DEF Reading
<1>1. k \in Nat /\ k - 1 \in Nat
  OBVIOUS
<1>2. Read(NoGame, r[k]) = NoGame
  BY DEF Read, NewPlayer, PlayerLeft
<1> QED  BY <1>1, <1>2

\* A client that has left or was just connected shows no game in the end.
LEMMA NullView ==
  ASSUME NEW c \in Clients, NEW M, toClient'[c] \in Seq(M), game'[c] = NoGame,
         \A k \in 1 .. Len(toClient'[c]) : toClient'[c][k].action # "add",
         Has(toServer[c], "leave")' \/ ~ Sits(c)'
  PROVE  ViewClient(c)' /\ AnswersOwn(c)'
<1>1. PICK r : r = toClient'[c]
  OBVIOUS
<1>2. PICK v : v = [k \in Nat |-> NoGame]
  OBVIOUS
<1>3. Reading(NoGame, r, v)
  BY <1>1, <1>2, NullReading
<1>4. Len(r) \in Nat /\ \A k \in Nat : v[k] = NoGame
  BY <1>1, <1>2, LenProperties
<1>5. PICK g : g = NoGame
  OBVIOUS
<1>6. Shows(c, g)'
  BY <1>5 DEF Shows, NoGame
<1>7. /\ Reading(game'[c], toClient'[c], v) /\ g = v[Len(toClient'[c])]
      /\ \A k \in 0 .. Len(toClient'[c]) : v[k] = NoGame \/ Good(c, v[k])
  BY <1>1, <1>3, <1>4, <1>5
<1>8. ViewClient(c)'
  BY <1>6, <1>7 DEF ViewClient, NoGame
<1>9. AnswersOwn(c)'
  BY DEF AnswersOwn, AnswerOwn
<1> QED  BY <1>8, <1>9

\* Each of the client's own steps keeps what it shows in step with its room.
LEMMA UserView ==
  ASSUME TypedInv, SeatInv, ViewInv, NEW c \in Clients, User(c)
  PROVE  ViewClient(c)' /\ SceneFits(c)' /\ AnswersOwn(c)'
<1> DEFINE q == toServer[c]
           S == ToServerMessage
<1>1. /\ link[c] = "open" /\ UNCHANGED <<activeGames, fault>> /\ UNCHANGED toClient
      /\ RequestRoom(c) \/ RequestRefresh(c) \/ SendMessage(c) \/ LeaveRoom(c)
      /\ toClient'[c] = toClient[c]
  BY DEF User, serverVars, RequestRoom, RequestRefresh, SendMessage, LeaveRoom
<1>2. q \in Seq(S) /\ OpenClient(c) /\ ViewClient(c) /\ SceneFits(c) /\ AnswersOwn(c)
  BY <1>1, Unbroken DEF TypedInv, QueuesTyped, SeatInv, ClientInv, ViewInv
<1>3. c \in DOMAIN scene /\ c \in DOMAIN game
  BY DEF TypedInv, ClientTyped
<1> DEFINE show == [action |-> "show"]
           chat == [action |-> "chat"]
           leave == [action |-> "leave"]
           add(id) == [action |-> "add", id |-> id]
<1>4. /\ show \in S /\ chat \in S /\ leave \in S /\ \A id \in 0 .. Len(activeGames) : add(id) \in S
      /\ show.action = "show" /\ chat.action = "chat" /\ leave.action = "leave"
      /\ \A id : add(id).action = "add"
  BY ServerMessages
<1>5. /\ \A m \in S : Send(c, <<m>>) => toServer'[c] = Append(q, m)
      /\ \A m, n \in S : Send(c, <<m, n>>) => toServer'[c] = Append(Append(q, m), n)
  BY SendIs
<1>6. ASSUME NEW m \in S, Send(c, <<m>>), m.action # "leave", UNCHANGED <<scene, game, index>>
      PROVE  ViewClient(c)' /\ SceneFits(c)' /\ AnswersOwn(c)'
  <2>1. Has(toServer[c], "leave")' <=> Has(toServer[c], "leave")
    <3> HIDE DEF q, S
    <3>1. \A a : Has(Append(q, m), a) <=> Has(q, a) \/ m.action = a
      BY <1>2, QueueAppend
    <3>2. toServer'[c] = Append(q, m)
      BY <1>5, <1>6
    <3>3. Has(toServer[c], "leave")' <=> Has(Append(q, m), "leave")
      BY <3>2 DEF Has
    <3> QED  BY <1>6, <3>1, <3>3 DEF q
  <2>2. \A g : Shows(c, g) => Shows(c, g)'
    BY <1>1, <2>1, SameShown
  <2>3. game'[c] = game[c]
    BY <1>6
  <2>4. ViewClient(c)' /\ AnswersOwn(c)'
    BY <1>1, <1>2, <2>2, <2>3, ViewQuiet
  <2> QED  BY <1>2, <1>6, <2>4 DEF SceneFits
<1>7. CASE RequestRoom(c)
  <2>1. PICK id \in roomList[c] \cup {NewRoom} : Send(c, <<add(id)>>)
    BY <1>7 DEF RequestRoom
  <2>2. id \in 0 .. Len(activeGames)
    BY <2>1, Typed DEF TypedInv, BooksInv, ClientTyped, NewRoom
  <2>3. UNCHANGED <<scene, game, index>>
    BY <1>7 DEF RequestRoom, clientVars
  <2> HIDE DEF show, chat, leave, add, S, q
  <2>4. add(id) \in S /\ add(id).action # "leave"
    BY <1>4, <2>2
  <2> QED  BY <1>6, <2>1, <2>3, <2>4
<1>8. CASE RequestRefresh(c)
  <2>1. Send(c, <<show>>) /\ UNCHANGED <<scene, game, index>>
    BY <1>8 DEF RequestRefresh, clientVars
  <2> HIDE DEF show, chat, leave, add, S, q
  <2> QED  BY <1>4, <1>6, <2>1
<1>9. CASE SendMessage(c)
  <2>1. Send(c, <<chat>>) /\ UNCHANGED <<scene, game, index>>
    BY <1>9 DEF SendMessage, clientVars
  <2> HIDE DEF show, chat, leave, add, S, q
  <2> QED  BY <1>4, <1>6, <2>1
<1>10. CASE LeaveRoom(c)
  <2>1. /\ Send(c, <<leave, show>>) /\ scene'[c] = "lobby" /\ game'[c] = NoGame
        /\ scene[c] = "game_panel"
    BY <1>3, <1>10 DEF LeaveRoom, ChangeScene
  <2>2. toClient[c] \in Seq(ToClientMessage)
    BY DEF TypedInv, QueuesTyped
  <2>3. \A k \in 1 .. Len(toClient[c]) : toClient[c][k].action # "add"
    <3> DEFINE r == toClient[c]
    <3>1. waiting[c] = Adds(q) + Adds(r) /\ waiting[c] = 0
      BY <1>2, <2>1 DEF OpenClient
    <3> HIDE DEF r, q, S
    <3>2. Adds(q) \in Nat
      BY <1>2, NotEmpty
    <3>3. Adds(r) \in Nat /\ (Adds(r) = 0 <=> ~ Has(r, "add"))
      BY <2>2, NotEmpty DEF r
    <3>4. ~ Has(r, "add")
      BY <3>1, <3>2, <3>3
    <3> QED  BY <3>4 DEF Has, r
  <2>4. Has(toServer[c], "leave")'
    <3> HIDE DEF show, chat, leave, add, S, q
    <3> DEFINE u == Append(q, leave)
               t == Append(u, show)
    <3>1. u \in Seq(S) /\ Has(u, "leave")
      BY <1>2, <1>4, QueueAppend
    <3> HIDE DEF u
    <3>2. Has(t, "leave")
      BY <1>4, <3>1, QueueAppend
    <3>3. toServer'[c] = t
      BY <1>4, <1>5, <2>1 DEF u
    <3> HIDE DEF t
    <3> QED  BY <3>2, <3>3 DEF Has
  <2>5. ViewClient(c)' /\ AnswersOwn(c)'
    BY <1>1, <2>1, <2>2, <2>3, <2>4, NullView
  <2> QED  BY <2>1, <2>5 DEF SceneFits, NoGame
<1> QED  BY <1>1, <1>7, <1>8, <1>9, <1>10

LEMMA ConnectView ==
  ASSUME TypedInv, SeatInv, NEW c \in Clients, Connect(c)
  PROVE  ViewClient(c)' /\ SceneFits(c)' /\ AnswersOwn(c)'
<1> DEFINE m == [action |-> "welcome"]
<1>1. /\ link[c] = "new" /\ UNCHANGED activeGames /\ toClient'[c] = <<m>>
      /\ UNCHANGED <<scene, game, index>>
  BY DEF Connect, clientVars, TypedInv, BooksInv, BooksTyped
<1>2. game'[c] = NoGame /\ scene'[c] = "lobby"
  BY <1>1, Unbroken DEF SeatInv, ClientInv, IdleClient
<1>3. ~ Sits(c)'
  BY <1>1, Typed, OccurrencesContains DEF TypedInv, BooksInv, NewIsNowhere, Sits
<1>4. SceneFits(c)'
  BY <1>2 DEF SceneFits, NoGame
<1>5. m.action = "welcome"
  OBVIOUS
<1> HIDE DEF m
<1> DEFINE M == {m}
<1>6. toClient'[c] \in Seq(M) /\ \A k \in 1 .. Len(toClient'[c]) : toClient'[c][k] = m
  BY <1>1
<1>7. \A k \in 1 .. Len(toClient'[c]) : toClient'[c][k].action # "add"
  BY <1>5, <1>6
<1> HIDE DEF M
<1>8. ViewClient(c)' /\ AnswersOwn(c)'
  BY <1>2, <1>3, <1>6, <1>7, NullView
<1> QED  BY <1>4, <1>8

\* Lists of players: where one occurs, and that none is the null list.
LEMMA OccursAt ==
  ASSUME NEW S, NEW s \in Seq(S), NEW c, Occurrences(c, s) # 0
  PROVE  \E k \in 1 .. Len(s) : s[k] = c
  BY OccurrencesContains DEF Contains

LEMMA ListNotNull ==
  ASSUME NEW g \in Seq(Clients)
  PROVE  g # NoGame
<1>1. 0 \notin Clients
  BY ClientsAssumption
<1> SUFFICES ASSUME g = NoGame PROVE FALSE
  OBVIOUS
<1>2. Len(<<0>>) = 1 /\ <<0>>[1] = 0
  OBVIOUS
<1>3. Len(g) = 1 /\ g[1] = 0
  BY <1>2 DEF NoGame
<1>4. g[1] \in Clients
  BY <1>3, ElementOfSeq
<1> QED  BY <1>1, <1>3, <1>4

(***************************************************************************)
(* A client at a table finds its own seat after a player has left.         *)
(***************************************************************************)
LEMMA SeatAfterLeave ==
  ASSUME NEW c \in Clients, NEW g \in Seq(Clients), Len(g) =< MAX_PLAYERS, NEW d,
         NEW i \in DOMAIN g, g[i] = c, Good(c, RemoveFirst(g, d))
  PROVE  LET h == RemoveFirst(g, d)
             j == IF Contains(g, d) /\ h # << >> THEN IndexAfterLeave(c, h) ELSE i
         IN  j \in DOMAIN h /\ h[j] = c
<1>1. CASE Contains(g, d)
  <2> DEFINE h == RemoveFirst(g, d)
  <2>1. h \in Seq(Clients) /\ Len(h) = Len(g) - 1 /\ Len(g) \in Nat /\ Occurrences(c, h) # 0
    BY <1>1, RemoveFirstLen, LenProperties DEF Good
  <2> HIDE DEF h
  <2>2. PICK k \in 1 .. Len(h) : h[k] = c
    BY <2>1, OccursAt
  <2>3. Len(h) \in {1, 2} /\ DOMAIN h = 1 .. Len(h) /\ h # << >>
    <3>1. Len(h) \in Nat /\ DOMAIN h = 1 .. Len(h)
      BY <2>1, LenProperties
    <3> DEFINE n == Len(h)
               m == Len(g)
    <3>2. n = m - 1 /\ m \in Nat /\ m =< 3 /\ n \in Nat /\ k \in 1 .. n
      BY <2>1, <2>2, <3>1 DEF MAX_PLAYERS
    <3> HIDE DEF n, m
    <3>3. n \in {1, 2}
      BY <3>2
    <3>4. h # << >>
      BY <2>1, <3>3, EmptySeq DEF n
    <3> QED  BY <3>1, <3>3, <3>4 DEF n
  <2>4. k = 1 \/ (k = 2 /\ Len(h) = 2)
    <3> DEFINE n == Len(h)
    <3>1. n \in {1, 2} /\ k \in 1 .. n
      BY <2>2, <2>3
    <3> HIDE DEF n
    <3>2. k = 1 \/ (k = 2 /\ n = 2)
      BY <3>1
    <3> QED  BY <3>2 DEF n
  <2>5. IndexAfterLeave(c, h) \in DOMAIN h /\ h[IndexAfterLeave(c, h)] = c
    <3>1. CASE h[1] = c
      <4>1. IndexAfterLeave(c, h) = 1 /\ 1 \in DOMAIN h
        BY <2>3, <3>1 DEF IndexAfterLeave
      <4> QED  BY <3>1, <4>1
    <3>2. CASE h[1] # c
      <4>1. k = 2 /\ Len(h) = 2
        BY <2>2, <2>4, <3>2
      <4>2. IndexAfterLeave(c, h) = 2 /\ 2 \in DOMAIN h /\ h[2] = c
        BY <2>2, <2>3, <3>2, <4>1 DEF IndexAfterLeave
      <4> QED  BY <4>2
    <3> QED  BY <3>1, <3>2
  <2> QED  BY <1>1, <2>3, <2>5 DEF h
<1>2. CASE ~ Contains(g, d)
  <2>1. RemoveFirst(g, d) = g
    BY <1>2 DEF RemoveFirst, Contains
  <2> QED  BY <1>2, <2>1
<1> QED  BY <1>1, <1>2

LEMMA ReceiveView ==
  ASSUME TypedInv, TypedInv', SeatInv, ViewInv, NEW c \in Clients, Receive(c)
  PROVE  ViewClient(c)' /\ SceneFits(c)' /\ AnswersOwn(c)'
<1> DEFINE r == toClient[c]
           t == Tail(r)
           msg == Head(r)
           show == [action |-> "show"]
<1>1. /\ r # << >> /\ toClient'[c] = t /\ UNCHANGED <<activeGames, fault, link>>
      /\ \/ msg.action = "add" /\ ReceiveAdd(c, msg)
         \/ msg.action = "new_player" /\ ReceiveNewPlayer(c, msg)
         \/ msg.action = "leave" /\ ReceiveLeave(c, msg)
         \/ /\ msg.action \in {"show", "welcome", "chat"}
            /\ UNCHANGED <<scene, game, index, toServer>>
  BY DEF Receive, serverVars, TypedInv, BooksInv, BooksTyped, ReceiveShow, clientVars
<1>2. link[c] = "open" /\ OpenClient(c)
  BY <1>1, Unbroken DEF SeatInv, ClientInv, IdleClient
<1>3. ViewClient(c) /\ SceneFits(c) /\ AnswersOwn(c) /\ r \in Seq(ToClientMessage)
  BY <1>2 DEF ViewInv, TypedInv, QueuesTyped
<1>4. /\ c \in DOMAIN scene /\ c \in DOMAIN game /\ c \in DOMAIN index
      /\ scene[c] \in {"lobby", "game_panel"}
      /\ game[c] \in Seq(Clients) \/ game[c] = NoGame
  BY DEF TypedInv, ClientTyped
<1>5. PICK v, g : /\ Reading(game[c], r, v)
                  /\ \A k \in 0 .. Len(r) : v[k] = NoGame \/ Good(c, v[k])
                  /\ g = v[Len(r)] /\ Shows(c, g)
  BY <1>3 DEF ViewClient
<1>6. toServer'[c] = toServer[c] \/ toServer'[c] = Append(toServer[c], show)
  <2>1. Send(c, <<show>>) => toServer'[c] = Append(toServer[c], show)
    BY SendIs, ServerMessages
  <2> HIDE DEF show
  <2> QED  BY <1>1, <2>1 DEF ReceiveAdd, ReceiveNewPlayer, ReceiveLeave, show
<1>7. Has(toServer[c], "leave")' <=> Has(toServer[c], "leave")
  <2> DEFINE q == toServer[c]
  <2>1. q \in Seq(ToServerMessage) /\ show \in ToServerMessage /\ show.action # "leave"
    BY ServerMessages DEF TypedInv, QueuesTyped
  <2> HIDE DEF q, show
  <2>2. \A a : Has(Append(q, show), a) <=> Has(q, a) \/ show.action = a
    BY <2>1, QueueAppend
  <2>3. Has(toServer'[c], "leave") <=> Has(q, "leave")
    BY <1>6, <2>1, <2>2 DEF q
  <2> QED  BY <2>3 DEF Has, q
<1>8. Shows(c, g)'
  BY <1>1, <1>5, <1>7, SameShown
<1> HIDE DEF r, t, msg, show
<1>9. PICK w : /\ Reading(v[1], t, w) /\ v[1] = Read(game[c], msg)
               /\ Len(t) = Len(r) - 1 /\ Len(r) \in Nat \ {0}
               /\ \A k \in 0 .. Len(r) - 1 : w[k] = v[k + 1]
  BY <1>1, <1>3, <1>5, ReadingTail DEF t, msg
<1>10. Len(t) = Len(r) - 1 /\ msg = r[1] /\ \A i \in 1 .. Len(t) : t[i] = r[i + 1]
  BY <1>1, <1>3, QueueTail DEF t, msg
<1>11. /\ game[c] = NoGame \/ Good(c, game[c])
       /\ v[1] = NoGame \/ Good(c, v[1])
       /\ AnswerOwn(c, msg)
  <2>1. 0 \in 0 .. Len(r) /\ 1 \in 0 .. Len(r) /\ 1 \in 1 .. Len(r)
    BY <1>9
  <2>2. v[0] = game[c]
    BY <1>5 DEF Reading
  <2> QED  BY <1>3, <1>5, <1>10, <2>1, <2>2 DEF AnswersOwn, r
<1>12. game'[c] = v[1]
  <2>1. CASE msg.action = "add"
    BY <1>1, <1>4, <1>9, <2>1 DEF ReceiveAdd, Read, clientVars
  <2>2. CASE msg.action = "new_player"
    BY <1>1, <1>4, <1>9, <2>2 DEF ReceiveNewPlayer, Read
  <2>3. CASE msg.action = "leave"
    BY <1>1, <1>4, <1>9, <2>3 DEF ReceiveLeave, Read
  <2>4. CASE msg.action \in {"show", "welcome", "chat"}
    BY <1>1, <1>4, <1>9, <2>4 DEF Read
  <2> QED  BY <1>1, <2>1, <2>2, <2>3, <2>4
<1>13. ViewClient(c)'
  <2>1. Reading(game'[c], toClient'[c], w)
    BY <1>1, <1>9, <1>12
  <2>2. ASSUME NEW k \in 0 .. Len(t)
        PROVE  w[k] = NoGame \/ Good(c, w[k])
    <3>1. k \in 0 .. Len(r) - 1 /\ k + 1 \in 0 .. Len(r)
      BY <1>9
    <3>2. w[k] = v[k + 1]
      BY <1>9, <3>1
    <3> DEFINE l == k + 1
    <3> HIDE DEF l
    <3>3. v[l] = NoGame \/ Good(c, v[l])
      BY <1>5, <3>1 DEF l
    <3> QED  BY <3>2, <3>3 DEF l
  <2>3. g = w[Len(t)]
    <3>1. Len(t) \in 0 .. Len(r) - 1 /\ Len(t) + 1 = Len(r)
      BY <1>9
    <3> QED  BY <1>5, <1>9, <3>1
  <2> QED  BY <1>1, <1>8, <2>1, <2>2, <2>3 DEF ViewClient, Good, NoGame
<1>14. AnswersOwn(c)'
  <2> SUFFICES ASSUME NEW i \in 1 .. Len(t)
               PROVE  AnswerOwn(c, t[i])
    BY <1>1 DEF AnswersOwn, AnswerOwn, Good
  <2>1. i + 1 \in 1 .. Len(r)
    BY <1>9
  <2> DEFINE l == i + 1
  <2> HIDE DEF l
  <2>2. AnswerOwn(c, r[l])
    BY <1>3, <2>1 DEF AnswersOwn, l, r
  <2> QED  BY <1>10, <2>2 DEF l
<1>15. SceneFits(c)'
  <2>1. CASE msg.action = "add" /\ ~ msg.error
    <3>1. /\ game'[c] = msg.data /\ index'[c] = Len(msg.data)
          /\ scene'[c] = IF scene[c] = "lobby" THEN "game_panel" ELSE "lobby"
      BY <1>1, <1>4, <2>1 DEF ReceiveAdd, ChangeScene
    <3>2. scene[c] = "lobby"
      <4>1. Has(r, "add")
        BY <1>9, <1>10, <2>1 DEF Has
      <4>2. Adds(r) \in Nat /\ Adds(r) # 0
        BY <1>3, <4>1, NotEmpty
      <4>3. toServer[c] \in Seq(ToServerMessage)
        BY DEF TypedInv, QueuesTyped
      <4> DEFINE q == toServer[c]
      <4> HIDE DEF q
      <4>4. Adds(q) \in Nat
        BY <4>3, NotEmpty DEF q
      <4>5. /\ waiting[c] = Adds(q) + Adds(r)
            /\ scene[c] = "game_panel" => waiting[c] = 0
        BY <1>2 DEF OpenClient, q, r
      <4> QED  BY <1>4, <4>2, <4>4, <4>5
    <3>3. Good(c, msg.data) /\ msg.data[Len(msg.data)] = c
      BY <1>11, <2>1 DEF AnswerOwn
    <3>4. PICK s : s = msg.data
      OBVIOUS
    <3>5. s \in Seq(Clients) /\ Occurrences(c, s) # 0 /\ s[Len(s)] = c
      BY <3>3, <3>4 DEF Good
    <3>6. Len(s) \in DOMAIN s
      <4>1. PICK k \in 1 .. Len(s) : s[k] = c
        BY <3>5, OccursAt
      <4> QED  BY <3>5, <4>1, LenProperties
    <3>7. s # NoGame
      BY <3>5, ListNotNull
    <3> QED  BY <3>1, <3>2, <3>4, <3>5, <3>6, <3>7 DEF SceneFits, NoGame
  <2>2. CASE msg.action = "new_player"
    <3>1. scene'[c] = scene[c] /\ index'[c] = index[c] /\ game'[c] = NewPlayer(game[c], msg.data)
      BY <1>1, <1>4, <2>2 DEF ReceiveNewPlayer
    <3>2. CASE game[c] = NoGame
      BY <1>3, <3>1, <3>2 DEF SceneFits, NewPlayer, NoGame
    <3>3. CASE game[c] # NoGame
      <4>1. PICK s, i : s = game[c] /\ i = index[c]
        OBVIOUS
      <4>2. s \in Seq(Clients) /\ i \in DOMAIN s /\ s[i] = c
        BY <1>3, <1>4, <3>3, <4>1 DEF SceneFits
      <4>3. msg \in ToClientMessage
        BY <1>1, <1>3, QueueTail DEF msg
      <4>4. msg.data \in Clients
        BY <2>2, <4>3 DEF ToClientMessage, SeatsAnswer
      <4>5. PICK e \in Clients : e = msg.data
        BY <4>4
      <4> DEFINE u == Append(s, e)
      <4>6. u \in Seq(Clients) /\ Len(u) = Len(s) + 1 /\ Len(s) \in Nat
            /\ \A k \in 1 .. Len(s) : u[k] = s[k]
        BY <4>2, AppendProperties, LenProperties
      <4> HIDE DEF u
      <4>7. u # NoGame /\ i \in DOMAIN u /\ u[i] = c
        <5>1. u # NoGame
          BY <4>6, ListNotNull
        <5>2. i \in 1 .. Len(s) /\ DOMAIN u = 1 .. Len(u)
          BY <4>2, <4>6, LenProperties
        <5> QED  BY <4>2, <4>6, <5>1, <5>2
      <4>8. game'[c] = u
        BY <3>1, <3>3, <4>1, <4>5 DEF NewPlayer, u
      <4>9. scene[c] = "game_panel"
        BY <1>3, <3>3 DEF SceneFits
      <4> QED  BY <3>1, <4>1, <4>7, <4>8, <4>9 DEF SceneFits, NoGame
    <3> QED  BY <3>2, <3>3
  <2>3. CASE msg.action = "leave"
    <3>1. /\ scene'[c] = scene[c] /\ game'[c] = PlayerLeft(game[c], msg.data)
          /\ index'[c] = IF Contains(game[c], msg.data) /\ game'[c] # << >>
                           THEN IndexAfterLeave(c, game'[c]) ELSE index[c]
      BY <1>1, <1>4, <2>3 DEF ReceiveLeave
    <3>2. CASE game[c] = NoGame
      BY <1>3, <3>1, <3>2 DEF SceneFits, PlayerLeft, NoGame
    <3>3. CASE game[c] # NoGame
      <4>1. PICK s, i, d : s = game[c] /\ i = index[c] /\ d = msg.data
        OBVIOUS
      <4>2. s \in Seq(Clients) /\ i \in DOMAIN s /\ s[i] = c /\ Len(s) =< MAX_PLAYERS
        BY <1>3, <1>4, <1>11, <3>3, <4>1 DEF SceneFits, Good
      <4>3. PICK h : h = RemoveFirst(s, d)
        OBVIOUS
      <4>4. game'[c] = h
        BY <3>1, <3>3, <4>1, <4>3 DEF PlayerLeft
      <4>5. h \in Seq(Clients)
        BY <4>2, <4>3, OccurrencesRemoveFirst
      <4>6. h # NoGame
        BY <4>5, ListNotNull
      <4>7. Good(c, h)
        BY <1>11, <1>12, <4>4, <4>6
      <4>8. PICK j : j = IF Contains(s, d) /\ h # << >> THEN IndexAfterLeave(c, h) ELSE i
        OBVIOUS
      <4>9. j \in DOMAIN h /\ h[j] = c
        BY <4>2, <4>3, <4>7, <4>8, SeatAfterLeave
      <4>10. index'[c] = j
        BY <3>1, <4>1, <4>4, <4>8 DEF IndexAfterLeave
      <4>11. scene[c] = "game_panel"
        BY <1>3, <3>3 DEF SceneFits
      <4> QED  BY <3>1, <4>4, <4>6, <4>9, <4>10, <4>11 DEF SceneFits, NoGame
    <3> QED  BY <3>2, <3>3
  <2>4. CASE \/ msg.action = "add" /\ msg.error
             \/ msg.action \in {"show", "welcome", "chat"}
    <3>1. scene' = scene /\ game' = game /\ index' = index
      BY <1>1, <2>4 DEF ReceiveAdd, clientVars
    <3> QED  BY <1>3, <3>1 DEF SceneFits, NoGame
  <2> QED  BY <1>1, <2>1, <2>2, <2>3, <2>4
<1> QED  BY <1>13, <1>14, <1>15

\* The step of one client leaves what the others show alone.
LEMMA ClientView ==
  ASSUME TypedInv, TypedInv', SeatInv, ViewInv, NEW c \in Clients,
         Connect(c) \/ User(c) \/ Receive(c) \/ Close(c)
  PROVE  ViewInv'
<1> SUFFICES ASSUME NEW d \in Clients, link'[d] = "open"
             PROVE  ViewClient(d)' /\ SceneFits(d)' /\ AnswersOwn(d)'
  BY DEF ViewInv
<1>1. CASE d = c
  <2>1. ~ Close(c)
    BY <1>1 DEF Close, TypedInv, BooksInv, BooksTyped
  <2> QED  BY <1>1, <2>1, ConnectView, UserView, ReceiveView
<1>2. CASE d # c
  <2>1. UNCHANGED <<activeGames, fault>>
    BY DEF Connect, User, Receive, Close, serverVars
  <2>2. \A m : Send(c, m) => toServer'[d] = toServer[d]
    BY <1>2 DEF Send, TypedInv, BooksInv, BooksTyped
  <2>3. /\ link'[d] = link[d] /\ toServer'[d] = toServer[d] /\ toClient'[d] = toClient[d]
        /\ scene'[d] = scene[d] /\ game'[d] = game[d] /\ index'[d] = index[d]
    <3>1. CASE Connect(c)
      <4>1. toServer'[d] = toServer[d]
        BY <2>2, <3>1 DEF Connect
      <4>2. link'[d] = link[d] /\ toClient'[d] = toClient[d] /\ UNCHANGED <<scene, game, index>>
        BY <1>2, <3>1 DEF Connect, clientVars, TypedInv, BooksInv, BooksTyped
      <4> QED  BY <4>1, <4>2
    <3>2. CASE User(c)
      BY <1>2, <2>2, <3>2 DEF User, RequestRoom, RequestRefresh, SendMessage, LeaveRoom,
         ChangeScene, clientVars, TypedInv, ClientTyped, BooksInv, BooksTyped
    <3>3. CASE Receive(c)
      <4> DEFINE msg == Head(toClient[c])
      <4>1. /\ \/ ReceiveAdd(c, msg) \/ ReceiveShow(c, msg) \/ ReceiveNewPlayer(c, msg)
               \/ ReceiveLeave(c, msg) \/ UNCHANGED <<clientVars, toServer, waiting>>
            /\ UNCHANGED link /\ toClient'[d] = toClient[d]
        BY <1>2, <3>3 DEF Receive, TypedInv, BooksInv, BooksTyped
      <4> HIDE DEF msg
      <4> QED  BY <1>2, <2>2, <4>1 DEF ReceiveAdd, ReceiveShow, ReceiveNewPlayer, ReceiveLeave,
               ChangeScene, clientVars, TypedInv, ClientTyped
    <3>4. CASE Close(c)
      BY <1>2, <3>4 DEF Close, TypedInv, ClientTyped, BooksInv, BooksTyped
    <3> QED  BY <3>1, <3>2, <3>3, <3>4
  <2>4. ViewClient(d) /\ SceneFits(d) /\ AnswersOwn(d)
    BY <2>3 DEF ViewInv
  <2>5. Has(toServer[d], "leave")' <=> Has(toServer[d], "leave")
    BY <2>3 DEF Has
  <2>6. \A g : Shows(d, g) => Shows(d, g)'
    BY <2>1, <2>5, SameShown
  <2>7. ViewClient(d)' /\ AnswersOwn(d)'
    BY <2>3, <2>4, <2>6, ViewQuiet
  <2>8. SceneFits(d)'
    BY <2>3, <2>4 DEF SceneFits, NoGame
  <2> QED  BY <2>7, <2>8
<1> QED  BY <1>1, <1>2

\* What the clients show is kept by every step and holds at the start.
LEMMA NextView == TypedInv /\ TypedInv' /\ SeatInv /\ ViewInv /\ [Next]_vars => ViewInv'
<1> SUFFICES ASSUME TypedInv, TypedInv', SeatInv, ViewInv, [Next]_vars PROVE ViewInv'
  OBVIOUS
<1>1. CASE UNCHANGED vars
  <2>1. UNCHANGED <<activeGames, fault, link, toServer, toClient, scene, game, index>>
    BY <1>1 DEF vars, serverVars, clientVars
  <2> SUFFICES ASSUME NEW d \in Clients, link[d] = "open"
               PROVE  ViewClient(d)' /\ SceneFits(d)' /\ AnswersOwn(d)'
    BY <2>1 DEF ViewInv
  <2>2. Has(toServer[d], "leave")' <=> Has(toServer[d], "leave")
    BY <2>1 DEF Has
  <2>3. \A g : Shows(d, g) => Shows(d, g)'
    BY <2>1, <2>2, SameShown
  <2>4. ViewClient(d) /\ SceneFits(d) /\ AnswersOwn(d)
    BY DEF ViewInv
  <2>5. ViewClient(d)' /\ AnswersOwn(d)'
    BY <2>1, <2>3, <2>4, ViewQuiet
  <2> QED  BY <2>1, <2>4, <2>5 DEF SceneFits, NoGame
<1>2. ASSUME NEW c \in Clients,
             Connect(c) \/ User(c) \/ Receive(c) \/ Close(c) \/ DoWork(c) \/ WriteFails(c)
      PROVE  ViewInv'
  <2>1. c \in broken \/ c \notin broken
    OBVIOUS
  <2> QED  BY <1>2, <2>1, ClientView, WorkView, StaleView, BreakView
<1> QED  BY <1>1, <1>2 DEF Next

LEMMA InitView == Init => ViewInv
  BY DEF Init, ViewInv

(***************************************************************************)
(* As long as a user sends one request for a seat at a time, and the server *)
(* runs, a client that has read all that is on its way to it, and that is  *)
(* not leaving, shows the seats of its room in their order, or the lobby   *)
(* if it sits nowhere.                                                     *)
(***************************************************************************)
THEOREM ViewAlwaysCatchesUp ==
  ASSUME Clicks = 1
  PROVE  Spec => []ViewCatchesUp
<1>1. TypedInv /\ SeatInv /\ ViewInv => ViewCatchesUp
  <2> SUFFICES ASSUME TypedInv, SeatInv, ViewInv, NEW c \in Clients,
                      fault = "none", link[c] = "open", ~ Leaving(c)
               PROVE  \/ Room(c) = {} /\ AfterReading(c) = NoGame
                      \/ \E i \in Room(c) : Room(c) = {i} /\ AfterReading(c) = activeGames[i]
    BY DEF ViewCatchesUp
  <2>1. PICK v, g : /\ Reading(game[c], toClient[c], v)
                    /\ g = v[Len(toClient[c])] /\ Shows(c, g)
    BY DEF ViewInv, ViewClient
  <2>2. toClient[c] \in Seq(ToClientMessage) /\ toServer[c] \in Seq(ToServerMessage)
    BY DEF TypedInv, QueuesTyped
  <2>3. AfterReading(c) = g
    BY <2>1, <2>2, ReadingEnds
  <2>4. ~ Has(toServer[c], "leave")
    BY <2>2, LenProperties DEF Has, Leaving
  <2>5. \A i \in DOMAIN activeGames : i \in Room(c) <=> Occurrences(c, activeGames[i]) # 0
    BY Typed, OccurrencesContains DEF Room, TypedInv, BooksInv
  <2>6. Room(c) \subseteq DOMAIN activeGames
    BY DEF Room
  <2>7. CASE ~ Sits(c)
    <3>1. g = NoGame
      BY <2>1, <2>7 DEF Shows
    <3>2. Room(c) = {}
      BY <2>5, <2>6, <2>7 DEF Sits
    <3> QED  BY <2>3, <3>1, <3>2
  <2>8. CASE Sits(c)
    <3>1. PICK i \in DOMAIN activeGames : Occurrences(c, activeGames[i]) # 0
      BY <2>8 DEF Sits
    <3>2. g = activeGames[i]
      BY <2>1, <2>4, <2>8, <3>1 DEF Shows
    <3>3. Room(c) = {i}
      BY <2>5, <2>6, <3>1 DEF SeatInv, SeatedOnce
    <3> QED  BY <2>3, <3>2, <3>3
  <2> QED  BY <2>7, <2>8
<1> QED  BY <1>1, InitTyped, NextTyped, InitSeats, NextSeats, InitView, NextView, PTL DEF Spec

(***************************************************************************)
(* Under the same condition the index from which a client counts its       *)
(* neighbours is that of its own seat, after every leave before it, and the *)
(* scene it shows is the one of its game.                                  *)
(***************************************************************************)
THEOREM IndexAlwaysOwn ==
  ASSUME Clicks = 1
  PROVE  Spec => []IndexIsOwn
<1>1. SeatInv /\ ViewInv => IndexIsOwn
  BY DEF SeatInv, ClientInv, BrokenClient, IdleClient, ViewInv, SceneFits, IndexIsOwn
<1> QED  BY <1>1, InitTyped, NextTyped, InitSeats, NextSeats, InitView, NextView, PTL DEF Spec
=============================================================================
