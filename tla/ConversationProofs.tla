------------------------- MODULE ConversationProofs -------------------------
(***************************************************************************)
(* A room and its clients, message by message, for every deck, every set   *)
(* of bids and every speed of the connections: the steps of the room keep  *)
(* the invariant, and each is one of the table of module Table or leaves   *)
(* it alone, so that what is proved of a table holds of the room.          *)
(***************************************************************************)
EXTENDS ClientProofs

USE DEF MAX_PLAYERS, PASS, None

(***************************************************************************)
(* The room takes a message.                                               *)
(***************************************************************************)
LEMMA AllClients ==
  ASSUME IInv, RoomInv', client' = client,
         DOMAIN toServer' = Clients, DOMAIN toClient' = Clients,
         \A d \in Clients : \A q, k, r :
           q = toServer[d] /\ k = client[d] /\ r = toClient[d] /\ CInv(d, q, k, r)
           => \E t, s : t = toServer'[d] /\ s = toClient'[d] /\ CInv(d, t, k, s)'
  PROVE  IInv'
<1>1. ASSUME NEW d \in Clients
      PROVE  \E t, k, s : t = toServer'[d] /\ k = client'[d] /\ s = toClient'[d] /\ CInv(d, t, k, s)'
  <2>1. PICK q, k, r : q = toServer[d] /\ k = client[d] /\ r = toClient[d] /\ CInv(d, q, k, r)
    BY DEF IInv, ClientsInv
  <2>2. k = client'[d]
    BY <2>1
  <2> QED  BY <2>1, <2>2
<1>2. DOMAIN client' = Clients
  BY DEF IInv, ClientsInv
<1>3. ClientsInv'
  BY <1>1, <1>2 DEF ClientsInv
<1> QED  BY <1>3 DEF IInv

(***************************************************************************)
(* What is left of a queue.                                                *)
(***************************************************************************)
LEMMA WaitingTail ==
  ASSUME NEW c, NEW q, NEW r, Waiting(c, q, r), q # << >>, Head(q).action # "leave"
  PROVE  Waiting(c, Tail(q), r) /\ (Here(c, Tail(q)) <=> Here(c, q))
<1> DEFINE t == Tail(q)
           n == Len(q)
<1>1. /\ IsSeq(t) /\ Len(t) = n - 1 /\ n \in Nat \ {0}
      /\ (\A i \in 1 .. Len(t) : t[i] = q[i + 1]) /\ Head(q) = q[1]
      /\ \A a : Has(q, a) <=> Has(t, a) \/ Head(q).action = a
  BY TailIs DEF Waiting
<1> HIDE DEF t, n
<1>2. Here(c, t) <=> Here(c, q)
  BY <1>1 DEF Here
<1>3. ASSUME NEW i \in 1 .. Len(t)
      PROVE  /\ t[i].action \in Answers \cup {"add", "leave"}
             /\ t[i].action = "leave" =>
                  c \in Seated /\ \A j \in i + 1 .. Len(t) : t[j].action = "add"
             /\ t[i].action = "add" => i = Len(t) /\ (c \in Seated => Has(t, "leave"))
             /\ t[i].action \in Answers =>
                  /\ c \in Seated /\ t[i].old \in BOOLEAN
                  /\ t[i].old = FALSE => /\ Fits(c, t[i]) /\ ~ Has(r, "leave")
                                         /\ \A j \in i + 1 .. Len(t) : t[j].action \notin Answers
                  /\ t[i].old = TRUE => c \notin ready /\ it = NoIt
  <2> DEFINE h == i + 1
  <2>1. h \in 1 .. n /\ t[i] = q[h]
    BY <1>1
  <2>2. \A j \in i + 1 .. Len(t) : j + 1 \in h + 1 .. n /\ t[j] = q[j + 1]
    BY <1>1
  <2>3. h = n => i = Len(t)
    BY <1>1
  <2> HIDE DEF h
  <2>4. /\ q[h].action \in Answers \cup {"add", "leave"}
        /\ q[h].action = "leave" =>
             c \in Seated /\ \A j \in h + 1 .. n : q[j].action = "add"
        /\ q[h].action = "add" => h = n /\ (c \in Seated => Has(q, "leave"))
        /\ q[h].action \in Answers =>
             /\ c \in Seated /\ q[h].old \in BOOLEAN
             /\ q[h].old = FALSE => /\ Fits(c, q[h]) /\ ~ Has(r, "leave")
                                    /\ \A j \in h + 1 .. n : q[j].action \notin Answers
             /\ q[h].old = TRUE => c \notin ready /\ it = NoIt
    BY <2>1 DEF Waiting, n
  <2> QED  BY <1>1, <2>1, <2>2, <2>3, <2>4
<1>4. Waiting(c, t, r)
  BY <1>1, <1>3 DEF Waiting
<1> QED  BY <1>2, <1>4 DEF t

\* What a queue begins with.
LEMMA WaitingHead ==
  ASSUME NEW c, NEW q, NEW r, Waiting(c, q, r), q # << >>, NEW m, m = Head(q)
  PROVE  /\ m.action \in Answers \cup {"add", "leave"}
         /\ m.action = "leave" =>
              c \in Seated /\ Has(q, "leave") /\ \A i \in 1 .. Len(Tail(q)) : Tail(q)[i].action = "add"
         /\ m.action = "add" => c \notin Seated /\ Tail(q) = << >>
         /\ m.action \in Answers =>
              /\ c \in Seated /\ m.old \in BOOLEAN
              /\ m.old = FALSE => /\ Fits(c, m) /\ ~ Has(r, "leave")
                                  /\ \A i \in 1 .. Len(Tail(q)) : Tail(q)[i].action \notin Answers
              /\ m.old = TRUE => c \notin ready /\ it = NoIt
<1> DEFINE t == Tail(q)
           n == Len(q)
<1>1. /\ IsSeq(t) /\ Len(t) = n - 1 /\ n \in Nat \ {0}
      /\ (\A i \in 1 .. Len(t) : t[i] = q[i + 1]) /\ m = q[1]
      /\ \A a : Has(q, a) <=> Has(t, a) \/ m.action = a
  BY TailIs DEF Waiting
<1>2. Len(t) \in Nat /\ (Len(t) = 0 <=> t = << >>)
  BY <1>1, EmptyIs
<1> HIDE DEF t, n
<1>3. 1 \in 1 .. n
  BY <1>1
<1>4. /\ m.action \in Answers \cup {"add", "leave"}
      /\ m.action = "leave" =>
           c \in Seated /\ \A j \in 1 + 1 .. n : q[j].action = "add"
      /\ m.action = "add" => 1 = n /\ (c \in Seated => Has(q, "leave"))
      /\ m.action \in Answers =>
           /\ c \in Seated /\ m.old \in BOOLEAN
           /\ m.old = FALSE => /\ Fits(c, m) /\ ~ Has(r, "leave")
                               /\ \A j \in 1 + 1 .. n : q[j].action \notin Answers
           /\ m.old = TRUE => c \notin ready /\ it = NoIt
  BY <1>1, <1>3 DEF Waiting, n
<1>5. \A i \in 1 .. Len(t) : i + 1 \in 1 + 1 .. n /\ t[i] = q[i + 1]
  BY <1>1
<1>6. m.action = "add" => t = << >> /\ c \notin Seated
  <2> SUFFICES ASSUME m.action = "add" PROVE t = << >> /\ c \notin Seated
    OBVIOUS
  <2>1. t = << >>
    BY <1>1, <1>2, <1>4
  <2>2. ~ Has(q, "leave")
    BY <1>1, <2>1, EmptyIs
  <2> QED  BY <1>4, <2>1, <2>2
<1> QED  BY <1>1, <1>4, <1>5, <1>6 DEF t

\* An answer, and a leave.
LEMMA FreshHead ==
  ASSUME NEW c, NEW q, NEW r, Waiting(c, q, r), q # << >>, NEW m, m = Head(q), Fresh(m)
  PROVE  /\ c \in Seated /\ Fits(c, m) /\ ~ Has(r, "leave")
         /\ \A i \in 1 .. Len(Tail(q)) : Tail(q)[i].action \notin Answers
<1>1. m.action \in Answers /\ m.old = FALSE
  BY DEF Fresh
<1> QED  BY <1>1, WaitingHead

LEMMA LeaveHead ==
  ASSUME NEW c, NEW q, NEW r, Waiting(c, q, r), q # << >>, Head(q).action = "leave"
  PROVE  /\ c \in Seated /\ Has(q, "leave")
         /\ \A i \in 1 .. Len(Tail(q)) : Tail(q)[i].action = "add"
<1>1. PICK m : m = Head(q)
  OBVIOUS
<1>2. m.action = "leave"
  BY <1>1
<1> QED  BY ZenonT(60), <1>1, <1>2, WaitingHead

(***************************************************************************)
(* After a step that leaves no answer waiting, what has been waiting waits *)
(* still.                                                                  *)
(***************************************************************************)
LEMMA WaitingNone ==
  ASSUME Seated' = Seated, NEW c, NEW q, NEW r, Waiting(c, q, r),
         \A i \in 1 .. Len(q) : q[i].action \notin Answers, NEW s
  PROVE  Waiting(c, q, s)'
  BY DEF Waiting

\* An outdated answer.
LEMMA OutdatedStep ==
  ASSUME IInv, NEW c \in Clients, toServer[c] # << >>, Outdated(Head(toServer[c])), TakeOutdated,
         toServer' = [toServer EXCEPT ![c] = Tail(@)], client' = client
  PROVE  IInv'
<1>1. PICK q, k, r : /\ q = toServer[c] /\ k = client[c] /\ r = toClient[c] /\ CInv(c, q, k, r)
                     /\ At(client, client, c, k) /\ At(toClient, toClient, c, r)
  BY ClientIs
<1> DEFINE t == Tail(q)
<1>2. toServer' = [toServer EXCEPT ![c] = t] /\ UNCHANGED <<roomVars, deck, asked>>
      /\ toClient' = toClient
  BY <1>1 DEF TakeOutdated
<1>3. Waiting(c, q, r) /\ Caught(c, r) /\ IsSeq(q) /\ q # << >>
  BY <1>1 DEF CInv, Waiting
<1>4. Head(q).action \in Answers /\ Head(q).old
  BY <1>1 DEF Outdated
<1>5. Head(q).action # "leave" /\ ~ Fresh(Head(q))
  BY <1>4 DEF Answers, Fresh
<1>6. Waiting(c, t, r) /\ (Here(c, t) <=> Here(c, q))
  BY <1>3, <1>5, WaitingTail
<1>7. Posted(t) = Posted(q)
  BY <1>3, <1>5, PostedTail
<1> HIDE DEF t
<1>8. CInv(c, t, k, r)
  BY <1>1, <1>3, <1>6, <1>7 DEF CInv
<1>9. At(toServer, toServer', c, t)
  <2>1. At(toServer, [toServer EXCEPT ![c] = t], c, t)
    BY AtIs
  <2> QED  BY <1>2, <2>1, Zenon
<1>10. At(client, client', c, k) /\ At(toClient, toClient', c, r)
  <2>1. toClient' = toClient /\ client' = client
    BY <1>2
  <2> QED  BY <1>1, <2>1
<1> QED  BY <1>2, <1>8, <1>9, <1>10, OneClient

-----------------------------------------------------------------------------
(***************************************************************************)
(* The answer the room has waited for: nobody's is left then, and every    *)
(* player at the table has nothing to click until he reads what the room   *)
(* makes of it.                                                            *)
(***************************************************************************)
\* A player that has read all and waits, S being the cards he is about to spend.
Before(d, S, e) ==
  /\ Kept(e) /\ e.game = players /\ e.game # NoGame
  /\ \/ /\ it # NoIt /\ e.begun = TRUE /\ e.cards = deck[d]
        /\ e.drawn = DOMAIN e.cards \ e.gone /\ Quiet(d, S, e)
     \/ it = NoIt /\ e.begun = FALSE /\ e.windows = {} /\ e.bids = {} /\ e.drawn = {}

Own(d, c, m) == IF d = c THEN Given(m) ELSE {}

\* s is r with messages the room has sent to the players it has.
Follows(r, s) ==
  /\ Has(s, "leave") <=> Has(r, "leave")
  /\ \A k : Off(k, r) => Off(k, s)

\* With the messages s a player will be shown what the room has come to.
Serves(d, S, r, s) ==
  \A k, e : Ends(k, r, e) /\ Before(d, S, e) => \E f : Ends(k, s, f) /\ Shown(d, {}, f)'

Awaited(c) == asked \in InRound \/ (asked = "ready" /\ ready \cup {c} = Seated)

LEMMA FitsOne ==
  ASSUME RoomInv, NEW c, NEW m, Fits(c, m), Awaited(c)
  PROVE  /\ asked \in InRound => it # NoIt /\ c = it.CURRENT /\ Turn(c)
         /\ asked \notin InRound => asked = "ready" /\ it = NoIt /\ ready \cup {c} = Seated
         /\ \A d, n : d # c /\ d \in Seated /\ d \notin ready => ~ Fits(d, n)
         /\ \A d, n : d # c /\ asked \in InRound => ~ Fits(d, n)
<1>1. asked \in InRound => it # NoIt
  BY DEF RoomInv, PhaseInv
<1>2. asked \notin InRound => asked = "ready" /\ it = NoIt /\ ready \cup {c} = Seated
  BY DEF RoomInv, PhaseInv, Awaited
<1>3. asked \in InRound => c = it.CURRENT
  BY DEF Fits, InRound
<1>4. \A d, n : d # c /\ asked \in InRound => ~ Fits(d, n)
  BY <1>3 DEF Fits, InRound
<1> QED  BY <1>1, <1>2, <1>3, <1>4 DEF Turn

LEMMA NoneLeft ==
  ASSUME RoomInv, NEW c, NEW m, Fits(c, m), Awaited(c),
         NEW d, d # c, NEW q, NEW k, NEW r, CInv(d, q, k, r)
  PROVE  /\ \A i \in 1 .. Len(q) : q[i].action \notin Answers
         /\ d \in Seated => ~ Has(r, "leave")
<1>1. /\ asked \in InRound => it # NoIt /\ c = it.CURRENT /\ Turn(c)
      /\ asked \notin InRound => asked = "ready" /\ it = NoIt /\ ready \cup {c} = Seated
      /\ \A x, n : x # c /\ x \in Seated /\ x \notin ready => ~ Fits(x, n)
      /\ \A x, n : x # c /\ asked \in InRound => ~ Fits(x, n)
  BY FitsOne
<1>2. Waiting(d, q, r) /\ Caught(d, r)
  BY DEF CInv
<1>3. d \in Seated => it # NoIt \/ d \in ready
  BY <1>1
<1>4. d \in Seated => ~ Has(r, "leave")
  BY <1>2, <1>3 DEF Caught
<1>5. ASSUME NEW i \in 1 .. Len(q), q[i].action \in Answers
      PROVE  FALSE
  <2>1. /\ d \in Seated /\ q[i].old \in BOOLEAN
        /\ q[i].old = FALSE => Fits(d, q[i])
        /\ q[i].old = TRUE => d \notin ready /\ it = NoIt
    BY <1>2, <1>5 DEF Waiting
  <2>2. q[i].old = FALSE
    BY <1>3, <2>1
  <2>3. Fits(d, q[i])
    BY <2>1, <2>2
  <2>4. asked = "ready" /\ d \in ready
    BY <1>1, <2>1, <2>3
  <2> QED  BY <2>3, <2>4 DEF Fits, InPlay
<1> QED  BY <1>4, <1>5

LEMMA BeforeIs ==
  ASSUME RoomInv, players \in Seq(Clients), NEW c, NEW m, Fits(c, m), Awaited(c), NEW d, d \in Seated,
         NEW P, d = c => P = {m}, NEW e, Kept(e), Shown(d, P, e)
  PROVE  Before(d, Own(d, c, m), e)
<1>1. /\ asked \in InRound => it # NoIt /\ c = it.CURRENT /\ Turn(c)
      /\ asked \notin InRound => asked = "ready" /\ it = NoIt /\ ready \cup {c} = Seated
  BY FitsOne
<1>2. e.game = players /\ e.game # NoGame
  BY NoGameIs DEF Shown
<1>3. CASE it # NoIt
  <2>1. asked \in InRound /\ c = it.CURRENT /\ Turn(c)
    BY <1>1, <1>3
  <2>2. e.begun = TRUE /\ InGame(d, P, e)
    BY <1>3 DEF Shown
  <2>3. e.cards = deck[d] /\ e.drawn = DOMAIN e.cards \ e.gone
    BY <2>2 DEF InGame
  <2>4. Quiet(d, Own(d, c, m), e)
    <3>1. CASE d = c
      <4>1. Own(d, c, m) = Given(m)
        BY <3>1 DEF Own
      <4> QED  BY <2>1, <2>2, <3>1, <4>1 DEF InGame
    <3>2. CASE d # c
      <4>1. Own(d, c, m) = {} /\ ~ Turn(d)
        BY <2>1, <3>2 DEF Own, Turn
      <4> QED  BY <2>2, <4>1 DEF InGame
    <3> QED  BY <3>1, <3>2
  <2> QED  BY <1>2, <1>3, <2>2, <2>3, <2>4 DEF Before
<1>4. CASE it = NoIt
  <2>1. e.begun = FALSE /\ AtRest(d, P, e)
    BY <1>4 DEF Shown
  <2>2. d \in ready \/ P # {}
    BY <1>1, <1>4
  <2>3. e.windows = {} /\ e.bids = {} /\ e.drawn = {}
    BY <2>1, <2>2 DEF AtRest
  <2> QED  BY <1>2, <1>4, <2>1, <2>3 DEF Before
<1> QED  BY <1>3, <1>4

LEMMA BeforeMute ==
  ASSUME NEW d, NEW S, NEW e, Before(d, S, e)
  PROVE  Mute(e) /\ Calm(e) /\ e.windows = {} /\ e.bids = {}
<1>1. e.windows = {} /\ e.bids = {} /\ e.available \cap e.drawn = {}
  BY DEF Before, Quiet
<1> QED  BY <1>1 DEF Mute, Calm

LEMMA RoundAnswer ==
  ASSUME IInv, NEW c \in Clients, toServer[c] # << >>, NEW m, m = Head(toServer[c]), Fresh(m),
         Awaited(c), RoomInv', players' = players,
         toServer' = [toServer EXCEPT ![c] = Tail(@)], client' = client, DOMAIN toClient' = Clients,
         \A d \in Clients : \A r : r = toClient[d] /\ IsSeq(r) =>
           \E s : s = toClient'[d] /\ Follows(r, s) /\ (d \in Seated => Serves(d, Own(d, c, m), r, s))
  PROVE  IInv'
<1>1. PICK qc, kc, rc : qc = toServer[c] /\ kc = client[c] /\ rc = toClient[c] /\ CInv(c, qc, kc, rc)
  BY DEF IInv, ClientsInv
<1>2. RoomInv /\ players \in Seq(Clients) /\ DOMAIN toServer = Clients /\ Seated' = Seated
  BY TableFacts, SameSeats DEF IInv, RoomInv, ClientsInv, TableInv, RoomTyped
<1>3. Waiting(c, qc, rc) /\ qc # << >> /\ m = Head(qc) /\ IsSeq(qc)
  BY <1>1 DEF CInv, Waiting
<1>4. /\ c \in Seated /\ Fits(c, m) /\ ~ Has(rc, "leave")
      /\ \A i \in 1 .. Len(Tail(qc)) : Tail(qc)[i].action \notin Answers
  BY ONLY <1>3, Fresh(m), FreshHead
<1>5. Waiting(c, Tail(qc), rc) /\ (Here(c, Tail(qc)) <=> Here(c, qc))
  <2>1. m.action # "leave"
    BY DEF Fresh, Answers
  <2> QED  BY <1>3, <2>1, WaitingTail
<1>6. Posted(qc) = {m}
  <2>1. Posted(Tail(qc)) = {}
    BY <1>4, PostedNone
  <2>2. Posted(qc) = Posted(Tail(qc)) \cup {m}
    BY <1>3, PostedTail
  <2> QED  BY <2>1, <2>2
<1> DEFINE rest == Tail(qc)
<1>7. toServer' = [toServer EXCEPT ![c] = rest]
  BY <1>1
<1>8. /\ \A i \in 1 .. Len(rest) : rest[i].action \notin Answers
      /\ Waiting(c, rest, rc) /\ (Here(c, rest) <=> Here(c, qc))
  BY <1>4, <1>5
<1> HIDE DEF rest
<1>9. DOMAIN toServer' = Clients /\ toServer'[c] = rest
      /\ \A d \in Clients : d # c => toServer'[d] = toServer[d]
  BY <1>2, <1>7
<1>10. ASSUME NEW d \in Clients, NEW q, NEW k, NEW r,
              q = toServer[d], k = client[d], r = toClient[d], CInv(d, q, k, r)
       PROVE  \E t, s : t = toServer'[d] /\ s = toClient'[d] /\ CInv(d, t, k, s)'
  <2>1. Waiting(d, q, r) /\ IsSeq(r)
    BY <1>10, KeptOf DEF CInv
  <2>2. PICK s : s = toClient'[d] /\ Follows(r, s) /\ (d \in Seated => Serves(d, Own(d, c, m), r, s))
    BY <1>10, <2>1
  <2>3. d \in Seated => ~ Has(r, "leave")
    <3>1. CASE d = c
      BY <1>1, <1>4, <1>10, <3>1
    <3>2. CASE d # c
      BY <1>2, <1>4, <1>10, <3>2, NoneLeft
    <3> QED  BY <3>1, <3>2
  <2>4. PICK t : /\ t = toServer'[d] /\ Waiting(d, t, r) /\ (Here(d, t) <=> Here(d, q))
                 /\ \A i \in 1 .. Len(t) : t[i].action \notin Answers
    <3>1. CASE d = c
      BY <1>1, <1>8, <1>9, <1>10, <3>1
    <3>2. CASE d # c
      BY <1>2, <1>4, <1>9, <1>10, <2>1, <3>2, NoneLeft
    <3> QED  BY <3>1, <3>2
  <2>5. Waiting(d, t, s)'
    BY <1>2, <2>4, WaitingNone
  <2>6. Caught(d, s)'
    BY <1>2, <2>2, <2>3 DEF Caught, Follows
  <2>7. Here(d, t)' <=> Here(d, q)
    BY <1>2, <2>4 DEF Here
  <2>8. Posted(t) = {}
    BY <2>4, PostedNone
  <2>9. ASSUME Here(d, q)
        PROVE  \E f : Ends(k, s, f) /\ Shown(d, {}, f)'
    <3>1. PICK e : Ends(k, r, e) /\ Shown(d, Posted(q), e)
      BY <1>10, <2>9 DEF CInv
    <3>2. d \in Seated /\ Kept(e)
      BY <2>9, <3>1, EndsKept DEF Here
    <3>3. d = c => Posted(q) = {m}
      BY <1>1, <1>6, <1>10
    <3>4. Before(d, Own(d, c, m), e)
      BY <1>2, <1>4, <3>1, <3>2, <3>3, BeforeIs
    <3> QED  BY <2>2, <3>1, <3>2, <3>4 DEF Serves
  <2>10. ~ Here(d, q) => Off(k, s)
    BY <1>10, <2>2 DEF CInv, Follows
  <2>11. CInv(d, t, k, s)'
    BY <2>5, <2>6, <2>7, <2>8, <2>9, <2>10 DEF CInv
  <2> QED  BY <2>2, <2>4, <2>11
<1> QED  BY <1>9, <1>10, AllClients

-----------------------------------------------------------------------------
(***************************************************************************)
(* The messages the room makes of an answer.                               *)
(***************************************************************************)
LEMMA FollowsSame == \A r : Follows(r, r)
  BY DEF Follows

LEMMA FollowsTwo ==
  ASSUME NEW r, NEW s, NEW t, Follows(r, s), Follows(s, t)
  PROVE  Follows(r, t)
  BY DEF Follows

LEMMA FollowsAppend ==
  ASSUME NEW r, IsSeq(r), NEW m, Sane(m), m.action \notin {"add", "leave"}
  PROVE  Follows(r, Append(r, m)) /\ IsSeq(Append(r, m))
<1>1. Has(Append(r, m), "leave") <=> Has(r, "leave")
  BY AppendIs
<1>2. IsSeq(Append(r, m))
  BY AppendIs
<1> QED  BY <1>1, <1>2, OffAppend DEF Follows

\* With s instead of r a client that would keep e will keep f.
Chain(r, s, e, f) == \A k : Ends(k, r, e) => Ends(k, s, f)

LEMMA ChainTwo ==
  ASSUME NEW r, NEW s, NEW t, NEW e, NEW f, NEW g, Chain(r, s, e, f), Chain(s, t, f, g)
  PROVE  Chain(r, t, e, g)
  BY DEF Chain

LEMMA ChainOne ==
  ASSUME NEW r, NEW m, Sane(m), m.action \notin {"add", "leave"},
         NEW e, Mute(e), Kept(Read(e, m)), Calm(Read(e, m))
  PROVE  Chain(r, Append(r, m), e, Read(e, m))
  BY EndsAppend DEF Chain

LEMMA ServesBy ==
  ASSUME NEW d, NEW S, NEW r, NEW s,
         \A e : Before(d, S, e) => \E f : Chain(r, s, e, f) /\ Shown(d, {}, f)'
  PROVE  Serves(d, S, r, s)
  BY DEF Serves, Chain

LEMMA ServesNone ==
  ASSUME NEW d, NEW S, NEW r, \A e : Before(d, S, e) => Shown(d, {}, e)'
  PROVE  Serves(d, S, r, r)
  BY DEF Serves

(***************************************************************************)
(* A player that has read all and is asked nothing.                        *)
(***************************************************************************)
Rested(d, e) ==
  /\ Kept(e) /\ e.game = players /\ e.game # NoGame /\ e.begun = TRUE /\ e.cards = deck[d]
  /\ e.drawn = DOMAIN e.cards \ e.gone /\ Quiet(d, {}, e)

LEMMA RestedIs ==
  ASSUME NEW d, NEW e
  PROVE  Rested(d, e)' <=>
           /\ Kept(e) /\ e.game = players' /\ e.game # NoGame /\ e.begun = TRUE
           /\ e.cards = deck'[d] /\ e.drawn = DOMAIN e.cards \ e.gone
           /\ e.windows = {} /\ e.bids = {} /\ e.available = {} /\ e.gone = Spent(d)'
<1>1. Spent(d)' \cup {} = Spent(d)'
  OBVIOUS
<1>2. NoGame' = NoGame
  BY DEF NoGame
<1> QED  BY <1>1, <1>2 DEF Rested, Quiet

LEMMA RestedMute ==
  ASSUME NEW d, NEW e, Rested(d, e)'
  PROVE  Mute(e) /\ Calm(e)
<1>1. e.windows = {} /\ e.bids = {} /\ e.available = {}
  BY RestedIs
<1> QED  BY <1>1 DEF Mute, Calm

LEMMA RestedShown ==
  ASSUME NEW d, NEW e, Rested(d, e)', it' # NoIt, ~ Turn(d)'
  PROVE  Shown(d, {}, e)'
<1>1. NoIt' = NoIt
  BY DEF NoIt
<1> QED  BY <1>1 DEF Rested, Shown, InGame

LEMMA AskedShown ==
  ASSUME NEW d, NEW e, it' # NoIt, Turn(d)', Offered(d, e)', e.game = players', e.begun = TRUE,
         e.cards = deck'[d], e.drawn = DOMAIN e.cards \ e.gone
  PROVE  Shown(d, {}, e)'
<1>1. NoIt' = NoIt
  BY DEF NoIt
<1> QED  BY <1>1 DEF Shown, InGame

LEMMA BeforeRested ==
  ASSUME it # NoIt, NEW d, NEW S, NEW e, Before(d, S, e), players' = players,
         deck'[d] = deck[d], Spent(d)' = Spent(d) \cup S
  PROVE  Rested(d, e)'
<1>1. Kept(e) /\ e.game = players' /\ e.game # NoGame /\ e.begun = TRUE /\ e.cards = deck'[d]
      /\ e.drawn = DOMAIN e.cards \ e.gone /\ Quiet(d, S, e)
  BY DEF Before
<1>2. e.windows = {} /\ e.bids = {} /\ e.available = {} /\ e.gone = Spent(d)'
  BY <1>1 DEF Quiet
<1> QED  BY <1>1, <1>2, RestedIs

(***************************************************************************)
(* The question for a bid.                                                 *)
(***************************************************************************)
LEMMA BidShown ==
  ASSUME RoomInv', asked' = "bid", NEW h, h = it'.CURRENT, NEW e, Rested(h, e)',
         NEW m, m = BidQuestion
  PROVE  LET f == Read(e, m)
         IN  Kept(f) /\ Calm(f) /\ Shown(h, {}, f)'
<1> DEFINE f == Read(e, m)
<1>1. TableInv' /\ it' # NoIt /\ h \in Seated'
  <2>1. TP!AuctionInv'
    BY DEF RoomInv
  <2>2. asked' \in InRound'
    BY DEF InRound
  <2>3. InRound' = InRound
    BY DEF InRound
  <2> QED  BY <2>1, <2>2, <2>3, TableFactsNext
<1>2. /\ Kept(e) /\ e.game = players' /\ e.game # NoGame /\ e.begun = TRUE
      /\ e.cards = deck'[h] /\ e.drawn = DOMAIN e.cards \ e.gone
      /\ e.windows = {} /\ e.bids = {} /\ e.available = {} /\ e.gone = Spent(h)'
  BY RestedIs
<1>3. m.action = "bid" /\ m.min = claim'[it'.HIGHEST] + MIN_RAISE /\ m.max = MaxValue(hand'[it'.CURRENT])
  BY DEF BidQuestion
<1>4. /\ Kept(f) /\ f.windows = e.windows \cup {"bids"}
      /\ f.bids = {b \in Bids : m.min =< b /\ b =< m.max} \cup Passing(e.cards)
      /\ f.game = e.game /\ f.begun = e.begun /\ f.available = e.available
      /\ f.gone = e.gone /\ f.cards = e.cards /\ f.drawn = e.drawn
  BY <1>2, <1>3, ReadBidIs
<1> HIDE DEF f
<1>5. h \in Clients
  <2>1. RoomTyped'
    BY <1>1 DEF TableInv
  <2>2. players' \in Seq(Clients)
    BY <2>1 DEF RoomTyped
  <2> DEFINE s == players'
  <2>3. h \in {s[i] : i \in DOMAIN s}
    BY <1>1 DEF Seated
  <2>4. DOMAIN s = 1 .. Len(s) /\ \A i \in 1 .. Len(s) : s[i] \in Clients
    BY <2>2, SeqDomain, ElementOfSeq
  <2> HIDE DEF s
  <2> QED  BY <2>3, <2>4
<1>6. Len(deck'[h]) = HandSize
  <2>1. Size(hand'[h], HandSize)
    BY <1>1 DEF RoomInv, HandsFit, Size
  <2>2. deck'[h] \in Seq(Deck) /\ Injective(deck'[h]) /\ ToSet(deck'[h]) = hand'[h]
    BY <1>5 DEF RoomInv, DeckFits, Injective
  <2> QED  BY <2>1, <2>2, OrderLen
<1>7. Passing(e.cards) = {PASS}
  BY <1>2, <1>6, HandAssumption DEF Passing
<1>8. f.bids = BidOffers'
  BY <1>3, <1>4, <1>7, Zenon DEF BidOffers
<1>9. f.windows = {"bids"}
  BY <1>2, <1>4
<1>10. Turn(h)'
  BY DEF Turn, InRound
<1>11. Offered(h, f)'
  BY <1>2, <1>4, <1>8, <1>9 DEF Offered
<1>12. Calm(f)
  BY <1>9 DEF Calm
<1>13. Shown(h, {}, f)'
  BY <1>1, <1>2, <1>4, <1>10, <1>11, AskedShown
<1> QED  BY <1>4, <1>12, <1>13 DEF f

LEMMA BidQuestionSane == Sane(BidQuestion) /\ BidQuestion.action = "bid"
  BY DEF BidQuestion, Sane, ClientActions

(***************************************************************************)
(* The cards of a new deal.                                                *)
(***************************************************************************)
LEMMA DealShown ==
  ASSUME NEW d, NEW e, Kept(e), e.game = players, e.game # NoGame, e.windows = {}, e.bids = {},
         Dealt(e).cards = << >>, Dealt(e).gone = {}, Dealt(e).available = {},
         NEW m, m.action = "deal", m.data = deck'[d], m.data \in Seq(Deck),
         players' = players, used'[d] = {}
  PROVE  Rested(d, Read(e, m))'
<1> DEFINE f == Read(e, m)
<1>1. /\ Kept(f) /\ f.begun = TRUE /\ f.drawn = DOMAIN f.cards
      /\ f.game = e.game /\ f.windows = e.windows /\ f.bids = e.bids
      /\ f.cards = Dealt(e).cards \o m.data
      /\ f.gone = Dealt(e).gone /\ f.available = Dealt(e).available
  BY ReadDealIs
<1> HIDE DEF f
<1>2. << >> \o m.data = m.data
  BY MoreCards, EmptyCards
<1>3. Spent(d)' = {}
  BY DEF Spent
<1>4. f.cards = deck'[d] /\ f.gone = {} /\ f.available = {} /\ f.drawn = DOMAIN f.cards \ f.gone
  BY <1>1, <1>2
<1>5. Rested(d, f)'
  BY <1>1, <1>3, <1>4, RestedIs
<1> QED  BY <1>5 DEF f

-----------------------------------------------------------------------------
(***************************************************************************)
(* An answer in a round after which one player, or none, is sent anything. *)
(***************************************************************************)
\* What the others have read stays what they are shown.
Undealt(d, S) == deck'[d] = deck[d] /\ Spent(d)' = Spent(d) \cup S

\* The message asks h what the room has come to ask.
Answered(h, S, msg) ==
  /\ Sane(msg) /\ msg.action \notin {"add", "leave"}
  /\ \A e : Before(h, S, e) => LET f == Read(e, msg) IN Kept(f) /\ Calm(f) /\ Shown(h, {}, f)'

LEMMA StillServes ==
  ASSUME it # NoIt, it' # NoIt, players' = players, NEW d, NEW S, Undealt(d, S), ~ Turn(d)', NEW r
  PROVE  Serves(d, S, r, r)
<1>1. ASSUME NEW e, Before(d, S, e)
      PROVE  Shown(d, {}, e)'
  <2>1. Rested(d, e)'
    BY <1>1, BeforeRested DEF Undealt
  <2> QED  BY <2>1, RestedShown
<1> QED  BY <1>1, ServesNone

LEMMA AnswerServes ==
  ASSUME NEW d, NEW S, NEW msg, Answered(d, S, msg), NEW r, IsSeq(r)
  PROVE  Follows(r, Append(r, msg)) /\ Serves(d, S, r, Append(r, msg))
<1>1. Sane(msg) /\ msg.action \notin {"add", "leave"}
  BY DEF Answered
<1>2. ASSUME NEW e, Before(d, S, e)
      PROVE  \E f : Chain(r, Append(r, msg), e, f) /\ Shown(d, {}, f)'
  <2> DEFINE f == Read(e, msg)
  <2>1. Kept(f) /\ Calm(f) /\ Shown(d, {}, f)'
    BY <1>2 DEF Answered
  <2>2. Mute(e)
    BY <1>2, BeforeMute
  <2>3. Chain(r, Append(r, msg), e, f)
    BY <1>1, <2>1, <2>2, ChainOne
  <2> QED  BY <2>1, <2>3
<1>3. Serves(d, S, r, Append(r, msg))
  BY <1>2, ServesBy
<1> QED  BY <1>1, <1>3, FollowsAppend

LEMMA Told ==
  ASSUME NEW h, NEW msg, Tell(To(h, msg))
  PROVE  /\ DOMAIN toClient' = Clients
         /\ \A d \in Clients : \A r : r = toClient[d] /\ IsSeq(r) =>
              /\ d = h => toClient'[d] = Append(r, msg)
              /\ d # h => toClient'[d] = r
<1>1. toClient' = [d \in Clients |-> toClient[d] \o To(h, msg)[d]]
  BY DEF Tell
<1>2. \A d \in Clients : To(h, msg)[d] = IF d = h THEN <<msg>> ELSE << >>
  BY DEF To, Silence
<1>3. ASSUME NEW d \in Clients, NEW r, r = toClient[d], IsSeq(r)
      PROVE  /\ d = h => toClient'[d] = Append(r, msg)
             /\ d # h => toClient'[d] = r
  <2> DEFINE x == To(h, msg)[d]
  <2>1. toClient'[d] = r \o x
    BY <1>1, <1>3
  <2>2. (d = h => x = <<msg>>) /\ (d # h => x = << >>)
    BY <1>2
  <2> HIDE DEF x
  <2>3. r \o <<msg>> = Append(r, msg) /\ r \o << >> = r
    BY <1>3, ConcatIs, EmptyIs
  <2> QED  BY <2>1, <2>2, <2>3
<1> QED  BY <1>1, <1>3

LEMMA OneTold ==
  ASSUME IInv, NEW c \in Clients, toServer[c] # << >>, NEW m, m = Head(toServer[c]), Fresh(m),
         asked \in InRound, RoomInv', players' = players, it' # NoIt,
         toServer' = [toServer EXCEPT ![c] = Tail(@)], client' = client,
         NEW h, NEW msg, Tell(To(h, msg)), Answered(h, Own(h, c, m), msg),
         \A d \in Seated : d # h => Undealt(d, Own(d, c, m)) /\ ~ Turn(d)'
  PROVE  IInv'
<1>1. it # NoIt
  BY DEF IInv, RoomInv, PhaseInv
<1>2. /\ DOMAIN toClient' = Clients
      /\ \A d \in Clients : \A r : r = toClient[d] /\ IsSeq(r) =>
           /\ d = h => toClient'[d] = Append(r, msg)
           /\ d # h => toClient'[d] = r
  BY Told
<1>3. ASSUME NEW d \in Clients, NEW r, r = toClient[d], IsSeq(r)
      PROVE  \E s : s = toClient'[d] /\ Follows(r, s) /\ (d \in Seated => Serves(d, Own(d, c, m), r, s))
  <2>1. CASE d = h
    <3> DEFINE s == Append(r, msg)
    <3>1. s = toClient'[d]
      BY <1>2, <1>3, <2>1
    <3>2. Follows(r, s) /\ Serves(d, Own(d, c, m), r, s)
      BY <1>3, <2>1, AnswerServes
    <3> QED  BY <3>1, <3>2
  <2>2. CASE d # h
    <3>1. r = toClient'[d]
      BY <1>2, <1>3, <2>2
    <3>2. d \in Seated => Serves(d, Own(d, c, m), r, r)
      BY <1>1, <2>2, StillServes
    <3> QED  BY <3>1, <3>2, FollowsSame
  <2> QED  BY <2>1, <2>2
<1>4. Awaited(c)
  BY DEF Awaited
<1> QED  BY <1>2, <1>3, <1>4, RoundAnswer

LEMMA NoneTold ==
  ASSUME IInv, NEW c \in Clients, toServer[c] # << >>, NEW m, m = Head(toServer[c]), Fresh(m),
         asked \in InRound, RoomInv', players' = players, it' # NoIt,
         toServer' = [toServer EXCEPT ![c] = Tail(@)], client' = client, toClient' = toClient,
         \A d \in Seated : Undealt(d, Own(d, c, m)) /\ ~ Turn(d)'
  PROVE  IInv'
<1>1. it # NoIt
  BY DEF IInv, RoomInv, PhaseInv
<1>2. DOMAIN toClient' = Clients
  BY DEF IInv, ClientsInv
<1>3. ASSUME NEW d \in Clients, NEW r, r = toClient[d], IsSeq(r)
      PROVE  \E s : s = toClient'[d] /\ Follows(r, s) /\ (d \in Seated => Serves(d, Own(d, c, m), r, s))
  <2>1. r = toClient'[d]
    BY <1>3
  <2>2. d \in Seated => Serves(d, Own(d, c, m), r, r)
    BY <1>1, StillServes
  <2> QED  BY <2>1, <2>2, FollowsSame
<1>4. Awaited(c)
  BY DEF Awaited
<1> QED  BY <1>2, <1>3, <1>4, RoundAnswer

\* Nothing but a gift or a card spends anything.
LEMMA GivenNone ==
  ASSUME NEW m, m.action \notin {"deal", "play"}, NEW c
  PROVE  \A d : Own(d, c, m) = {}
  BY DEF Own, Given

-----------------------------------------------------------------------------
(***************************************************************************)
(* A bid.                                                                  *)
(***************************************************************************)
LEMMA PlaceOf ==
  ASSUME NEW c, NEW m, Fits(c, m), m.action = "bid", TakeBid(c, m.data)
  PROVE  m.data \in Bids \cup {PASS} /\ Places(m.data) /\ Stack /\ asked \in InRound
<1>1. c = it.CURRENT /\ (\/ asked = "bid" /\ m.data \in BidOffers
                         \/ asked = "final" /\ m.data \in FinalOffers)
  BY DEF Fits
<1>2. m.data \in Bids \cup {PASS}
  BY <1>1 DEF BidOffers, FinalOffers
<1>3. HandleBid(it.CURRENT, m.data) /\ Stack
  BY <1>1 DEF TakeBid
<1>4. \/ stage' = "BIDDING" /\ asked' = "bid"
      \/ stage' = "DEALING" /\ asked' = "give"
      \/ stage' = "PLAYING" /\ asked' = "lead"
  BY DEF TakeBid
<1>5. Places(m.data)
  BY <1>1, <1>3, <1>4 DEF Places
<1> QED  BY <1>1, <1>2, <1>3, <1>5 DEF InRound

LEMMA OneTurn ==
  ASSUME NEW h, h = it'.CURRENT, NEW d, d # h
  PROVE  ~ Turn(d)'
  BY DEF Turn

LEMMA NextRoles ==
  ASSUME RoomInv', asked' \in InRound
  PROVE  /\ it' # NoIt /\ it'.CURRENT \in Seated' /\ it'.HIGHEST \in Seated' /\ Seated' \subseteq Clients
         /\ asked' \in {"give", "final"} => it'.CURRENT = it'.HIGHEST
<1>1. TP!AuctionInv'
  BY DEF RoomInv
<1>2. InRound' = InRound
  BY DEF InRound
<1>3. TableInv' /\ it' # NoIt /\ it'.CURRENT \in Seated' /\ it'.HIGHEST \in Seated'
  BY <1>1, <1>2, TableFactsNext
<1>4. RoomTyped'
  BY <1>3 DEF TableInv
<1>5. players' \in Seq(Clients)
  BY <1>4 DEF RoomTyped
<1>6. Seated' \subseteq Clients
  <2> DEFINE s == players'
  <2>1. Seated' = {s[i] : i \in DOMAIN s}
    BY DEF Seated
  <2>2. DOMAIN s = 1 .. Len(s) /\ \A i \in 1 .. Len(s) : s[i] \in Clients
    BY <1>5, SeqDomain, ElementOfSeq
  <2> HIDE DEF s
  <2> QED  BY <2>1, <2>2
<1>7. asked' \in {"give", "final"} => it'.CURRENT = it'.HIGHEST
  BY <1>3 DEF TableInv
<1> QED  BY <1>3, <1>6, <1>7

LEMMA RaiseAsks ==
  ASSUME RoomInv', asked' = "bid", it # NoIt, players' = players, NEW h, h = it'.CURRENT,
         NEW S, Undealt(h, S), NEW msg, msg = BidQuestion
  PROVE  Answered(h, S, msg)
<1>1. Sane(msg) /\ msg.action = "bid"
  BY BidQuestionSane
<1>2. ASSUME NEW e, Before(h, S, e)
      PROVE  LET f == Read(e, msg) IN Kept(f) /\ Calm(f) /\ Shown(h, {}, f)'
  <2>1. Rested(h, e)'
    BY <1>2, BeforeRested DEF Undealt
  <2> QED  BY <2>1, BidShown
<1> QED  BY <1>1, <1>2 DEF Answered

LEMMA RaiseStep ==
  ASSUME IInv, NEW c \in Clients, toServer[c] # << >>, NEW m, m = Head(toServer[c]), Fresh(m),
         m.action = "bid", Fits(c, m), TakeBid(c, m.data), stage' = "BIDDING",
         toServer' = [toServer EXCEPT ![c] = Tail(@)], client' = client
  PROVE  IInv'
<1>1. RoomInv
  BY DEF IInv
<1>2. m.data \in Bids \cup {PASS} /\ Places(m.data) /\ Stack /\ asked \in InRound
  BY PlaceOf
<1>3. /\ RoomInv' /\ asked' = "bid" /\ players' = players /\ used' = used /\ deck' = deck
  BY <1>1, <1>2, Raises
<1>4. PICK h : h = it'.CURRENT
  OBVIOUS
<1>5. PICK msg : msg = BidQuestion
  OBVIOUS
<1>6. Tell(To(h, msg))
  BY <1>4, <1>5 DEF TakeBid
<1>7. \A d : Undealt(d, Own(d, c, m))
  <2>1. \A d : Own(d, c, m) = {}
    BY GivenNone
  <2>2. \A d : Spent(d)' = Spent(d) \cup {}
    BY <1>3 DEF Spent
  <2> QED  BY <1>3, <2>1, <2>2 DEF Undealt
<1>8. it # NoIt /\ it' # NoIt
  <2>1. asked' \in InRound
    BY <1>3 DEF InRound
  <2> QED  BY <1>1, <1>2, <1>3, <2>1, NextRoles, RoundFacts
<1>9. Answered(h, Own(h, c, m), msg)
  BY <1>3, <1>4, <1>5, <1>7, <1>8, RaiseAsks
<1>10. \A d \in Seated : d # h => Undealt(d, Own(d, c, m)) /\ ~ Turn(d)'
  BY <1>4, <1>7, OneTurn
<1> QED  BY <1>2, <1>3, <1>6, <1>8, <1>9, <1>10, OneTold

\* The stock goes to the player with the highest bid.
LEMMA StockAsks ==
  ASSUME RoomInv', asked' = "give", it # NoIt, players' = players, NEW h, h = it'.CURRENT,
         used[h] = {}, used'[h] = {}, stock \subseteq Deck, deck'[h] = deck[h] \o SetToSeq(stock),
         NEW msg, msg.action = "stock", msg.data = SetToSeq(stock)
  PROVE  Answered(h, {}, msg)
<1>1. msg.data \in Seq(Deck)
  BY InOrder
<1>2. Sane(msg)
  BY <1>1 DEF Sane, ClientActions
<1>3. it' # NoIt /\ h \in Clients /\ h = it'.HIGHEST
  <2>1. asked' \in InRound
    BY DEF InRound
  <2> QED  BY <2>1, NextRoles
<1>4. Len(deck'[h]) = HandSize + 3 /\ deck'[h] \in Seq(Deck)
  <2>1. Size(hand'[h], HandSize + 3)
    BY <1>3 DEF RoomInv, HandsFit, Size
  <2>2. deck'[h] \in Seq(Deck) /\ Injective(deck'[h]) /\ ToSet(deck'[h]) = hand'[h]
    BY <1>3 DEF RoomInv, DeckFits, Injective
  <2> QED  BY <2>1, <2>2, OrderLen
<1>5. 1 \in DOMAIN deck'[h]
  BY <1>4, SeqDomain, HandAssumption
<1>6. ASSUME NEW e, Before(h, {}, e)
      PROVE  LET f == Read(e, msg) IN Kept(f) /\ Calm(f) /\ Shown(h, {}, f)'
  <2> DEFINE f == Read(e, msg)
  <2>1. /\ Kept(e) /\ e.game = players /\ e.game # NoGame /\ e.begun = TRUE /\ e.cards = deck[h]
        /\ e.windows = {} /\ e.bids = {} /\ e.available = {} /\ e.gone = Spent(h)
    BY <1>6 DEF Before, Quiet
  <2>2. Spent(h) = {}
    BY DEF Spent
  <2>3. /\ Kept(f) /\ f.cards = e.cards \o msg.data
        /\ f.drawn = DOMAIN f.cards /\ f.available = DOMAIN f.cards
        /\ f.game = e.game /\ f.begun = e.begun /\ f.windows = e.windows
        /\ f.bids = e.bids /\ f.gone = e.gone
    BY <1>1, <2>1, ReadStockIs
  <2> HIDE DEF f
  <2>4. f.cards = deck'[h] /\ f.gone = {} /\ f.windows = {} /\ f.bids = {}
    BY <2>1, <2>2, <2>3
  <2>5. Calm(f)
    BY <2>4 DEF Calm
  <2>6. Turn(h)'
    BY DEF Turn, InRound
  <2>7. f.available = DOMAIN f.cards \ f.gone /\ f.drawn = DOMAIN f.cards \ f.gone
    BY <2>3, <2>4
  <2>8. Offered(h, f)'
    BY <1>5, <2>4, <2>7 DEF Offered
  <2>9. Shown(h, {}, f)'
    BY <1>3, <2>1, <2>3, <2>4, <2>6, <2>7, <2>8, AskedShown
  <2> QED  BY <2>3, <2>5, <2>9 DEF f
<1> QED  BY <1>2, <1>6 DEF Answered

LEMMA WinStep ==
  ASSUME IInv, NEW c \in Clients, toServer[c] # << >>, NEW m, m = Head(toServer[c]), Fresh(m),
         m.action = "bid", Fits(c, m), TakeBid(c, m.data), stage' = "DEALING",
         toServer' = [toServer EXCEPT ![c] = Tail(@)], client' = client
  PROVE  IInv'
<1>1. RoomInv
  BY DEF IInv
<1>2. m.data \in Bids \cup {PASS} /\ Places(m.data) /\ Stack /\ asked \in InRound
  BY PlaceOf
<1>3. PICK h : h = it'.HIGHEST
  OBVIOUS
<1>4. /\ RoomInv' /\ asked' = "give" /\ players' = players
      /\ used' = used /\ used[h] = {} /\ h \in Seated /\ it'.CURRENT = h /\ stock \subseteq Deck
      /\ deck'[h] = deck[h] \o SetToSeq(stock)
      /\ \A d \in Clients : d # h => deck'[d] = deck[d]
  BY <1>1, <1>2, <1>3, Wins
<1>5. PICK msg : msg = [action |-> "stock", data |-> SetToSeq(stock)]
  OBVIOUS
<1>6. Tell(To(h, msg))
  BY <1>3, <1>5 DEF TakeBid
<1>7. \A d : Own(d, c, m) = {}
  BY GivenNone
<1>8. it # NoIt /\ it' # NoIt /\ Seated \subseteq Clients
  <2>1. asked' \in InRound
    BY <1>4 DEF InRound
  <2> QED  BY <1>1, <1>2, <1>4, <2>1, NextRoles, RoundFacts
<1>9. msg.action = "stock" /\ msg.data = SetToSeq(stock)
  BY <1>5, Zenon
<1>10. Answered(h, Own(h, c, m), msg)
  <2>1. used'[h] = {}
    BY <1>4
  <2>2. Answered(h, {}, msg)
    BY <1>4, <1>8, <1>9, <2>1, StockAsks
  <2> QED  BY <1>7, <2>2
<1>11. \A d \in Seated : d # h => Undealt(d, Own(d, c, m)) /\ ~ Turn(d)'
  <2> SUFFICES ASSUME NEW d \in Seated, d # h PROVE Undealt(d, Own(d, c, m)) /\ ~ Turn(d)'
    OBVIOUS
  <2>1. deck'[d] = deck[d] /\ used' = used
    BY <1>4, <1>8
  <2>2. Spent(d)' = Spent(d) \cup {}
    BY <2>1 DEF Spent
  <2> QED  BY <1>4, <1>7, <2>1, <2>2, OneTurn DEF Undealt
<1> QED  BY <1>2, <1>4, <1>6, <1>8, <1>10, <1>11, OneTold

-----------------------------------------------------------------------------
(***************************************************************************)
(* A card is asked for.                                                    *)
(***************************************************************************)
\* The indices of the cards that are not spent, when any may be played.
LEMMA LeadPlayable ==
  ASSUME RoomInv', asked' = "lead", NEW h, h = it'.CURRENT
  PROVE  Playable(h)' = DOMAIN deck'[h] \ Spent(h)'
<1>1. h \in Clients
  <2>1. asked' \in InRound
    BY DEF InRound
  <2> QED  BY <2>1, NextRoles
<1>2. ToSet(deck'[h]) = hand'[h]
  BY <1>1 DEF RoomInv, DeckFits
<1>3. CardOffers' = hand'[h] \ used'[h]
  BY DEF CardOffers, Unused
<1> DEFINE s == deck'[h]
<1>4. Playable(h)' = {i \in DOMAIN s : s[i] \in hand'[h] \ used'[h]}
  BY <1>3 DEF Playable
<1>5. Spent(h)' = {i \in DOMAIN s : s[i] \in used'[h]}
  BY DEF Spent
<1>6. \A i \in DOMAIN s : s[i] \in hand'[h]
  BY <1>2 DEF ToSet
<1> HIDE DEF s
<1>7. {i \in DOMAIN s : s[i] \in hand'[h] \ used'[h]} = DOMAIN s \ {i \in DOMAIN s : s[i] \in used'[h]}
  BY <1>6
<1> QED  BY <1>4, <1>5, <1>7 DEF s

LEMMA StartAsks ==
  ASSUME RoomInv', asked' = "lead", it # NoIt, players' = players, NEW h, h = it'.CURRENT,
         NEW S, Undealt(h, S), NEW msg, msg.action = "start"
  PROVE  Answered(h, S, msg)
<1>1. Sane(msg)
  BY DEF Sane, ClientActions
<1>2. it' # NoIt
  <2>1. asked' \in InRound
    BY DEF InRound
  <2> QED  BY <2>1, NextRoles
<1>3. ASSUME NEW e, Before(h, S, e)
      PROVE  LET f == Read(e, msg) IN Kept(f) /\ Calm(f) /\ Shown(h, {}, f)'
  <2> DEFINE f == Read(e, msg)
  <2>1. Rested(h, e)'
    BY <1>3, BeforeRested DEF Undealt
  <2>2. /\ Kept(e) /\ e.game = players' /\ e.game # NoGame /\ e.begun = TRUE
        /\ e.cards = deck'[h] /\ e.drawn = DOMAIN e.cards \ e.gone
        /\ e.windows = {} /\ e.bids = {} /\ e.available = {} /\ e.gone = Spent(h)'
    BY <2>1, RestedIs
  <2>3. /\ Kept(f) /\ f.available = DOMAIN e.cards
        /\ f.game = e.game /\ f.begun = e.begun /\ f.windows = e.windows
        /\ f.bids = e.bids /\ f.gone = e.gone /\ f.cards = e.cards /\ f.drawn = e.drawn
    BY <2>2, ReadStartIs
  <2> HIDE DEF f
  <2>4. Calm(f)
    BY <2>2, <2>3 DEF Calm
  <2>5. f.available \cap f.drawn = Playable(h)'
    <3>1. f.available \cap f.drawn = DOMAIN e.cards \ e.gone
      BY <2>2, <2>3
    <3> QED  BY <2>2, <3>1, LeadPlayable
  <2>6. Turn(h)'
    BY DEF Turn, InRound
  <2>7. Offered(h, f)'
    <3>1. asked' \in InPlay'
      BY DEF InPlay
    <3>2. f.windows = {} /\ f.bids = {} /\ f.gone = Spent(h)'
      BY <2>2, <2>3
    <3> QED  BY <2>5, <3>1, <3>2 DEF Offered
  <2>8. Shown(h, {}, f)'
    BY <1>2, <2>2, <2>3, <2>6, <2>7, AskedShown
  <2> QED  BY <2>3, <2>4, <2>8 DEF f
<1> QED  BY <1>1, <1>3 DEF Answered

LEMMA ContractStep ==
  ASSUME IInv, NEW c \in Clients, toServer[c] # << >>, NEW m, m = Head(toServer[c]), Fresh(m),
         m.action = "bid", Fits(c, m), TakeBid(c, m.data), stage' = "PLAYING",
         toServer' = [toServer EXCEPT ![c] = Tail(@)], client' = client
  PROVE  IInv'
<1>1. RoomInv
  BY DEF IInv
<1>2. m.data \in Bids \cup {PASS} /\ Places(m.data) /\ Stack /\ asked \in InRound
  BY PlaceOf
<1>3. /\ RoomInv' /\ asked = "final" /\ asked' = "lead" /\ players' = players
      /\ used' = used /\ deck' = deck /\ it' = it
  BY <1>1, <1>2, Contracts
<1>4. it # NoIt /\ it' # NoIt /\ it'.CURRENT = it'.HIGHEST
  BY <1>1, <1>2, <1>3, RoundFacts
<1>5. PICK h : h = it'.HIGHEST
  OBVIOUS
<1>6. PICK msg : msg = [action |-> "start"]
  OBVIOUS
<1>7. Tell(To(h, msg))
  BY <1>5, <1>6 DEF TakeBid
<1>8. \A d : Undealt(d, Own(d, c, m))
  <2>1. \A d : Own(d, c, m) = {}
    BY GivenNone
  <2>2. \A d : Spent(d)' = Spent(d) \cup {}
    BY <1>3 DEF Spent
  <2> QED  BY <1>3, <2>1, <2>2 DEF Undealt
<1>9. h = it'.CURRENT
  BY <1>4, <1>5
<1>10. Answered(h, Own(h, c, m), msg)
  <2>1. msg.action = "start"
    BY <1>6
  <2> QED  BY <1>3, <1>4, <1>8, <1>9, <2>1, StartAsks
<1>11. \A d \in Seated : d # h => Undealt(d, Own(d, c, m)) /\ ~ Turn(d)'
  BY <1>8, <1>9, OneTurn
<1> QED  BY <1>2, <1>3, <1>4, <1>7, <1>10, <1>11, OneTold

LEMMA BidStep ==
  ASSUME IInv, NEW c \in Clients, toServer[c] # << >>, NEW m, m = Head(toServer[c]), Fresh(m),
         m.action = "bid", Fits(c, m), TakeBid(c, m.data),
         toServer' = [toServer EXCEPT ![c] = Tail(@)], client' = client
  PROVE  IInv' /\ TableNext
<1>1. stage' \in {"BIDDING", "DEALING", "PLAYING"}
  BY DEF TakeBid
<1>2. IInv'
  BY <1>1, RaiseStep, WinStep, ContractStep
<1>3. TableNext
  BY PlaceOf DEF TableNext
<1> QED  BY <1>2, <1>3

-----------------------------------------------------------------------------
(***************************************************************************)
(* Two cards are given away: each of their new owners is sent his, and the *)
(* giver is asked for his last bid.                                        *)
(***************************************************************************)
Replied(d, S, o) ==
  \/ o = << >> /\ (d \in Seated => Undealt(d, S) /\ ~ Turn(d)')
  \/ \E msg : o = <<msg>> /\ Answered(d, S, msg)

LEMMA SomeTold ==
  ASSUME IInv, NEW c \in Clients, toServer[c] # << >>, NEW m, m = Head(toServer[c]), Fresh(m),
         asked \in InRound, RoomInv', players' = players, it' # NoIt,
         toServer' = [toServer EXCEPT ![c] = Tail(@)], client' = client,
         NEW out, Tell(out), \A d \in Clients : Replied(d, Own(d, c, m), out[d])
  PROVE  IInv'
<1>1. it # NoIt
  BY DEF IInv, RoomInv, PhaseInv
<1>2. toClient' = [d \in Clients |-> toClient[d] \o out[d]]
  BY DEF Tell
<1>3. ASSUME NEW d \in Clients, NEW r, r = toClient[d], IsSeq(r)
      PROVE  \E s : s = toClient'[d] /\ Follows(r, s) /\ (d \in Seated => Serves(d, Own(d, c, m), r, s))
  <2> DEFINE o == out[d]
  <2>1. toClient'[d] = r \o o
    BY <1>2, <1>3
  <2>2. Replied(d, Own(d, c, m), o)
    OBVIOUS
  <2> HIDE DEF o
  <2>3. CASE o = << >> /\ (d \in Seated => Undealt(d, Own(d, c, m)) /\ ~ Turn(d)')
    <3>1. r = toClient'[d]
      BY <1>3, <2>1, <2>3, EmptyIs
    <3>2. d \in Seated => Serves(d, Own(d, c, m), r, r)
      BY <1>1, <2>3, StillServes
    <3> QED  BY <3>1, <3>2, FollowsSame
  <2>4. ASSUME NEW msg, o = <<msg>>, Answered(d, Own(d, c, m), msg)
        PROVE  \E s : s = toClient'[d] /\ Follows(r, s) /\ (d \in Seated => Serves(d, Own(d, c, m), r, s))
    <3>1. Append(r, msg) = toClient'[d]
      BY <1>3, <2>1, <2>4, ConcatIs
    <3>2. Follows(r, Append(r, msg)) /\ Serves(d, Own(d, c, m), r, Append(r, msg))
      BY <1>3, <2>4, AnswerServes
    <3> QED  BY <3>1, <3>2
  <2> QED  BY <2>2, <2>3, <2>4 DEF Replied
<1>4. Awaited(c)
  BY DEF Awaited
<1>5. DOMAIN toClient' = Clients
  BY <1>2
<1> QED  BY <1>3, <1>4, <1>5, RoundAnswer

LEMMA GiveOf ==
  ASSUME RoomInv, NEW c, NEW m, Fits(c, m), m.action = "deal", TakeDeal(c, m.data),
         NEW x, x = deck[c][m.data.first], NEW y, y = deck[c][m.data.second],
         NEW p, p = NextOf(c), NEW q, q = NextOf(p)
  PROVE  /\ x \in Deck /\ y \in Deck /\ Gives(x, y) /\ Stack /\ asked = "give" /\ c = it.HIGHEST
         /\ c \in Clients /\ m.data.left = p /\ m.data.right = q
         /\ m.data.first \in DOMAIN deck[c] /\ m.data.second \in DOMAIN deck[c]
<1>1. /\ c = it.CURRENT /\ asked = "give"
      /\ m.data.left = NextOf(c) /\ m.data.right = NextOf(NextOf(c))
      /\ m.data.first \in DOMAIN deck[c] /\ m.data.second \in DOMAIN deck[c]
  BY DEF Fits
<1>2. c = it.HIGHEST /\ c \in Clients
  <2>1. asked \in InRound
    BY <1>1 DEF InRound
  <2> QED  BY <1>1, <2>1, RoundFacts
<1>3. x \in Deck /\ y \in Deck
  <2>1. deck[c] \in Seq(Deck)
    BY <1>2 DEF RoomInv, DeckFits
  <2> QED  BY <1>1, <2>1, SeqDomain, ElementOfSeq
<1>4. m.data.left = p /\ m.data.right = q
  BY <1>1
<1>5. HandleDeal(p, x, q, y) /\ Stack /\ asked' = "final"
  BY <1>4 DEF TakeDeal
<1>6. NextOf(it.HIGHEST) = p /\ NextOf(NextOf(it.HIGHEST)) = q
  BY <1>2
<1>7. Gives(x, y)
  BY <1>1, <1>5, <1>6 DEF Gives
<1> QED  BY <1>1, <1>2, <1>3, <1>4, <1>5, <1>7

\* The new owner of a card.
LEMMA GiftServed ==
  ASSUME it # NoIt, it' # NoIt, players' = players, NEW d, used[d] = {}, used'[d] = {}, ~ Turn(d)',
         NEW x \in Deck, deck'[d] = deck[d] \o <<x>>,
         NEW msg, msg.action = "deal", msg.data = <<x>>
  PROVE  Answered(d, {}, msg)
<1>1. msg.data \in Seq(Deck)
  OBVIOUS
<1>2. Sane(msg)
  BY <1>1 DEF Sane, ClientActions
<1>3. ASSUME NEW e, Before(d, {}, e)
      PROVE  LET f == Read(e, msg) IN Kept(f) /\ Calm(f) /\ Shown(d, {}, f)'
  <2> DEFINE f == Read(e, msg)
  <2>1. /\ Kept(e) /\ e.game = players /\ e.game # NoGame /\ e.begun = TRUE /\ e.cards = deck[d]
        /\ e.windows = {} /\ e.bids = {} /\ e.available = {} /\ e.gone = Spent(d)
    BY <1>3 DEF Before, Quiet
  <2>2. Spent(d) = {} /\ Spent(d)' = {}
    BY DEF Spent
  <2>3. Dealt(e) = e
    BY <2>1, DealtIs
  <2>4. /\ Kept(f) /\ f.begun = TRUE /\ f.drawn = DOMAIN f.cards
        /\ f.game = e.game /\ f.windows = e.windows /\ f.bids = e.bids
        /\ f.cards = e.cards \o msg.data /\ f.gone = e.gone /\ f.available = e.available
    <3>1. /\ Kept(f) /\ f.begun = TRUE /\ f.drawn = DOMAIN f.cards
          /\ f.game = e.game /\ f.windows = e.windows /\ f.bids = e.bids
          /\ f.cards = Dealt(e).cards \o msg.data
          /\ f.gone = Dealt(e).gone /\ f.available = Dealt(e).available
      BY <1>1, <2>1, ReadDealIs
    <3> HIDE DEF f
    <3> QED  BY <2>3, <3>1
  <2> HIDE DEF f
  <2>5. f.cards = deck'[d] /\ f.gone = {} /\ f.windows = {} /\ f.bids = {} /\ f.available = {}
    BY <2>1, <2>2, <2>4
  <2>6. f.drawn = DOMAIN f.cards \ f.gone
    BY <2>4, <2>5
  <2>7. Rested(d, f)'
    BY <2>1, <2>2, <2>4, <2>5, <2>6, RestedIs
  <2>8. Shown(d, {}, f)'
    BY <2>7, RestedShown
  <2> QED  BY <2>4, <2>7, <2>8, RestedMute DEF f
<1> QED  BY <1>2, <1>3 DEF Answered

\* The giver's last bid.
LEMMA LastBidAsks ==
  ASSUME RoomInv', asked' = "final", it # NoIt, players' = players, NEW h, h = it'.CURRENT,
         claim' = claim, hand'[h] = hand[h], NEW S, Undealt(h, S),
         NEW msg, msg.action = "bid", msg.min = claim[h], msg.max = MaxValue(hand[h])
  PROVE  Answered(h, S, msg)
<1>1. Sane(msg)
  BY DEF Sane, ClientActions
<1>2. it' # NoIt /\ h = it'.HIGHEST /\ h \in Clients
  <2>1. asked' \in InRound
    BY DEF InRound
  <2> QED  BY <2>1, NextRoles
<1>3. Len(deck'[h]) = HandSize + 3
  <2>1. Size(hand'[h], HandSize + 3)
    BY <1>2 DEF RoomInv, HandsFit, Size
  <2>2. deck'[h] \in Seq(Deck) /\ Injective(deck'[h]) /\ ToSet(deck'[h]) = hand'[h]
    BY <1>2 DEF RoomInv, DeckFits, Injective
  <2> QED  BY <2>1, <2>2, OrderLen
<1>4. ASSUME NEW e, Before(h, S, e)
      PROVE  LET f == Read(e, msg) IN Kept(f) /\ Calm(f) /\ Shown(h, {}, f)'
  <2> DEFINE f == Read(e, msg)
  <2>1. Rested(h, e)'
    BY <1>4, BeforeRested DEF Undealt
  <2>2. /\ Kept(e) /\ e.game = players' /\ e.game # NoGame /\ e.begun = TRUE
        /\ e.cards = deck'[h] /\ e.drawn = DOMAIN e.cards \ e.gone
        /\ e.windows = {} /\ e.bids = {} /\ e.available = {} /\ e.gone = Spent(h)'
    BY <2>1, RestedIs
  <2>3. /\ Kept(f) /\ f.windows = e.windows \cup {"bids"}
        /\ f.bids = {b \in Bids : msg.min =< b /\ b =< msg.max} \cup Passing(e.cards)
        /\ f.game = e.game /\ f.begun = e.begun /\ f.available = e.available
        /\ f.gone = e.gone /\ f.cards = e.cards /\ f.drawn = e.drawn
    BY <2>2, ReadBidIs
  <2> HIDE DEF f
  <2>4. Passing(e.cards) = {}
    BY <1>3, <2>2 DEF Passing
  <2>5. f.bids = {b \in Bids : msg.min =< b /\ b =< msg.max}
    BY <2>3, <2>4
  <2>6. f.bids = FinalOffers'
    <3>1. claim'[it'.HIGHEST] = msg.min /\ hand'[it'.HIGHEST] = hand[h]
      BY <1>2
    <3>2. MaxValue(hand'[it'.HIGHEST]) = msg.max
      BY <3>1
    <3>3. FinalOffers' = {b \in Bids : claim'[it'.HIGHEST] =< b /\ b =< MaxValue(hand'[it'.HIGHEST])}
      BY DEF FinalOffers, MaxValue
    <3> QED  BY <2>5, <3>1, <3>2, <3>3, Zenon
  <2>7. f.windows = {"bids"}
    BY <2>2, <2>3
  <2>8. Turn(h)'
    BY DEF Turn, InRound
  <2>9. Offered(h, f)'
    BY <2>2, <2>3, <2>6, <2>7 DEF Offered
  <2>10. Calm(f)
    BY <2>7 DEF Calm
  <2>11. Shown(h, {}, f)'
    BY <1>2, <2>2, <2>3, <2>8, <2>9, AskedShown
  <2> QED  BY <2>3, <2>10, <2>11 DEF f
<1> QED  BY <1>1, <1>4 DEF Answered

LEMMA DealStep ==
  ASSUME IInv, NEW c \in Clients, toServer[c] # << >>, NEW m, m = Head(toServer[c]), Fresh(m),
         m.action = "deal", Fits(c, m), TakeDeal(c, m.data),
         toServer' = [toServer EXCEPT ![c] = Tail(@)], client' = client
  PROVE  IInv' /\ TableNext
<1>1. RoomInv
  BY DEF IInv
<1>2. PICK x, y : x = deck[c][m.data.first] /\ y = deck[c][m.data.second]
  OBVIOUS
<1>3. PICK p : p = NextOf(c)
  OBVIOUS
<1>4. PICK q : q = NextOf(p)
  OBVIOUS
<1>5. /\ x \in Deck /\ y \in Deck /\ Gives(x, y) /\ Stack /\ asked = "give" /\ c = it.HIGHEST
      /\ m.data.left = p /\ m.data.right = q
      /\ m.data.first \in DOMAIN deck[c] /\ m.data.second \in DOMAIN deck[c]
  BY <1>1, <1>2, <1>3, <1>4, GiveOf
<1>6. /\ RoomInv' /\ asked' = "final" /\ players' = players
      /\ it' = it /\ claim' = claim
      /\ p \in Clients /\ q \in Clients /\ Seated = {c, p, q}
      /\ c # p /\ c # q /\ p # q
      /\ used'[c] = {x, y} /\ used[c] = {} /\ hand'[c] = hand[c]
      /\ (\A d \in Clients : d # c => used'[d] = used[d])
      /\ (\A d \in Seated : used[d] = {})
      /\ deck'[c] = deck[c] /\ deck'[p] = deck[p] \o <<x>> /\ deck'[q] = deck[q] \o <<y>>
  <2>1. /\ RoomInv' /\ asked' = "final" /\ players' = players
        /\ it' = it /\ claim' = claim /\ p \in Clients /\ q \in Clients
    BY <1>1, <1>3, <1>4, <1>5, GivesRoom
  <2>2. Seated = {c, p, q} /\ c # p /\ c # q /\ p # q
    BY <1>1, <1>3, <1>4, <1>5, GivesRoom
  <2>3. used'[c] = {x, y} /\ used[c] = {} /\ hand'[c] = hand[c]
    BY <1>1, <1>3, <1>4, <1>5, GivesRoom
  <2>4. \A d \in Clients : d # c => used'[d] = used[d]
    BY <1>1, <1>3, <1>4, <1>5, GivesRoom
  <2>5. \A d \in Seated : used[d] = {}
    BY <1>1, <1>3, <1>4, <1>5, GivesRoom
  <2>6. deck'[c] = deck[c]
    BY <1>1, <1>3, <1>4, <1>5, GivesRoom
  <2>7. deck'[p] = deck[p] \o <<x>>
    <3>1. deck'[p] = deck[p] \o One(x)
      BY <1>1, <1>3, <1>4, <1>5, GivesRoom
    <3> QED  BY <3>1 DEF One
  <2>8. deck'[q] = deck[q] \o <<y>>
    <3>1. deck'[q] = deck[q] \o One(y)
      BY <1>1, <1>3, <1>4, <1>5, GivesRoom
    <3> QED  BY <3>1 DEF One
  <2> QED  BY <2>1, <2>2, <2>3, <2>4, <2>5, <2>6, <2>7, <2>8
<1>7. it # NoIt /\ it' # NoIt /\ c = it'.CURRENT /\ asked \in InRound
  <2>1. asked \in InRound
    BY <1>5 DEF InRound
  <2> QED  BY <1>1, <1>5, <1>6, <2>1, RoundFacts
<1> DEFINE S == {m.data.first, m.data.second}
<1>8. Own(c, c, m) = S /\ \A d : d # c => Own(d, c, m) = {}
  BY DEF Own, Given
<1>9. Undealt(c, S)
  <2> DEFINE s == deck[c]
             a == m.data.first
             b == m.data.second
  <2>1. Spent(c) = {}
    BY <1>6 DEF Spent
  <2>2. Spent(c)' = {i \in DOMAIN s : s[i] \in {x, y}}
    BY <1>6 DEF Spent
  <2>3. \A i, j \in DOMAIN s : s[i] = s[j] => i = j
    <3>1. Injective(deck[c])
      BY <1>1 DEF RoomInv, DeckFits
    <3> QED  BY ONLY <3>1 DEF Injective
  <2>4. a \in DOMAIN s /\ b \in DOMAIN s /\ s[a] = x /\ s[b] = y
    BY <1>2, <1>5
  <2> HIDE DEF s, a, b
  <2>5. {i \in DOMAIN s : s[i] \in {x, y}} = {a, b}
    BY <2>3, <2>4
  <2>6. Spent(c)' = {} \cup {a, b}
    BY <2>2, <2>5
  <2> QED  BY <1>6, <2>1, <2>6 DEF Undealt, a, b
<1> HIDE DEF S
<1>10. PICK msg, dx, dy : /\ msg = [action |-> "bid", min |-> claim[c], max |-> MaxValue(hand[c])]
                          /\ dx = [action |-> "deal", data |-> <<x>>]
                          /\ dy = [action |-> "deal", data |-> <<y>>]
  OBVIOUS
<1>11. Answered(c, S, msg)
  <2>1. msg.action = "bid" /\ msg.min = claim[c] /\ msg.max = MaxValue(hand[c])
    BY <1>10
  <2> QED  BY <1>6, <1>7, <1>9, <2>1, LastBidAsks
<1>12. Answered(p, {}, dx) /\ Answered(q, {}, dy)
  <2>1. used[p] = {} /\ used[q] = {} /\ used'[p] = {} /\ used'[q] = {}
    BY <1>6
  <2>2. ~ Turn(p)' /\ ~ Turn(q)'
    BY <1>6, <1>7, OneTurn
  <2>3. dx.action = "deal" /\ dx.data = <<x>> /\ dy.action = "deal" /\ dy.data = <<y>>
    BY <1>10
  <2>4. Answered(p, {}, dx)
    BY <1>5, <1>6, <1>7, <2>1, <2>2, <2>3, GiftServed
  <2>5. Answered(q, {}, dy)
    BY <1>5, <1>6, <1>7, <2>1, <2>2, <2>3, GiftServed
  <2> QED  BY <2>4, <2>5
<1>13. PICK out : out = [[Silence EXCEPT ![p] = <<dx>>, ![q] = <<dy>>] EXCEPT ![c] = <<msg>>]
  OBVIOUS
<1>14. Tell(out)
  BY <1>2, <1>5, <1>10, <1>13 DEF TakeDeal
<1>15. /\ out[c] = <<msg>> /\ out[p] = <<dx>> /\ out[q] = <<dy>>
       /\ \A d \in Clients : d \notin {c, p, q} => out[d] = << >>
  BY <1>6, <1>13 DEF Silence
<1>16. ASSUME NEW d \in Clients
       PROVE  Replied(d, Own(d, c, m), out[d])
  <2>1. CASE d = c
    BY <1>8, <1>11, <1>15, <2>1 DEF Replied
  <2>2. CASE d = p
    BY <1>6, <1>8, <1>12, <1>15, <2>2 DEF Replied
  <2>3. CASE d = q
    BY <1>6, <1>8, <1>12, <1>15, <2>3 DEF Replied
  <2>4. CASE d \notin {c, p, q}
    BY <1>6, <1>15, <2>4 DEF Replied
  <2> QED  BY <2>1, <2>2, <2>3, <2>4
<1>17. IInv'
  BY <1>6, <1>7, <1>14, <1>16, SomeTold
<1>18. TableNext
  BY <1>5 DEF TableNext
<1> QED  BY <1>17, <1>18

-----------------------------------------------------------------------------
(***************************************************************************)
(* A card.                                                                 *)
(***************************************************************************)
LEMMA PlayOf ==
  ASSUME RoomInv, NEW c, NEW m, Fits(c, m), m.action = "play", TakePlay(c, m.data),
         NEW card, card = deck[c][m.data]
  PROVE  /\ card \in Deck /\ Plays(card) /\ Stack /\ asked \in InPlay /\ c = it.CURRENT /\ c \in Clients
         /\ m.data \in DOMAIN deck[c] /\ players' = players
         /\ \/ /\ GoesOn(c, card) /\ asked' \in InPlay /\ (asked' = "lead" <=> vec' = << >>)
               /\ Tell(To(it'.CURRENT, [action |-> "play",
                                        available |-> IndicesOf(it'.CURRENT, AvailableNext)]))
            \/ GoesWrong(c, card) /\ asked' = "none" /\ toClient' = toClient
            \/ /\ RoundOver /\ asked' = "bid"
               /\ Tell([d \in Clients |-> IF d \in Seated
                                            THEN <<[action |-> "score"]>> \o Opening(d) ELSE << >>])
            \/ /\ GameIsOver /\ asked' = "none"
               /\ Tell([d \in Clients |-> IF d \in Seated
                                            THEN <<[action |-> "score"], End(FALSE)>> ELSE << >>])
<1>1. c = it.CURRENT /\ asked \in InPlay /\ m.data \in Playable(c)
  BY DEF Fits
<1>2. m.data \in DOMAIN deck[c] /\ card \in CardOffers
  BY <1>1 DEF Playable
<1>3. c \in Clients /\ RoomTyped /\ FullTable /\ stage = "PLAYING"
  <2>1. asked \in InRound
    BY <1>1 DEF InRound, InPlay
  <2> QED  BY <1>1, <2>1, RoundFacts
<1>4. card \in Deck
  <2>1. deck[c] \in Seq(Deck)
    BY <1>3 DEF RoomInv, DeckFits
  <2> QED  BY <1>2, <2>1, SeqDomain, ElementOfSeq
<1>5. HandlePlay(c, card) /\ Stack
  BY DEF TakePlay
<1>6. players' = players /\ (GoesOn(c, card) \/ GoesWrong(c, card) \/ RoundOver \/ GameIsOver)
  BY <1>3, <1>5, PlayCases
<1>7. HandlePlay(it.CURRENT, card) /\ asked \in {"lead", "follow"}
  BY <1>1, <1>5 DEF InPlay
<1> DEFINE
      Beginning == /\ report'.sent /\ ~ report'.over
                   /\ asked' = "bid"
                   /\ Tell([d \in Clients |-> IF d \in Seated
                                     THEN <<[action |-> "score"]>> \o Opening(d) ELSE << >>])
      Ending == /\ report'.sent /\ report'.over
                /\ asked' = "none"
                /\ Tell([d \in Clients |-> IF d \in Seated
                                     THEN <<[action |-> "score"], End(report'.winner # None)>>
                                     ELSE << >>])
      Going == /\ ~ report'.sent /\ Len(vec') # MAX_PLAYERS
               /\ asked' = IF vec' = << >> THEN "lead" ELSE "follow"
               /\ Tell(To(it'.CURRENT, [action |-> "play",
                                 available |-> IndicesOf(it'.CURRENT, AvailableNext)]))
      Failing == ~ report'.sent /\ Len(vec') = MAX_PLAYERS /\ asked' = "none" /\ UNCHANGED toClient
<1>8. Beginning \/ Ending \/ Going \/ Failing
  BY DEF TakePlay
<1>9. CASE GoesOn(c, card)
  <2>1. report'.sent = FALSE /\ stage' = "PLAYING" /\ Len(vec') # 3
    BY <1>9 DEF GoesOn, NoReport
  <2>2. Going
    <3> HIDE DEF Going
    <3> QED  BY <1>8, <2>1
  <2>3. asked' = (IF vec' = << >> THEN "lead" ELSE "follow")
    BY <2>2
  <2>4. Plays(card)
    BY <1>2, <1>7, <2>1, <2>3 DEF Plays
  <2>5. asked' \in InPlay /\ (asked' = "lead" <=> vec' = << >>)
    BY <2>3 DEF InPlay
  <2>6. Tell(To(it'.CURRENT, [action |-> "play", available |-> IndicesOf(it'.CURRENT, AvailableNext)]))
    BY <2>2
  <2> HIDE DEF Going
  <2> QED  BY <1>1, <1>2, <1>3, <1>4, <1>5, <1>6, <1>9, <2>4, <2>5, <2>6
<1>10. CASE GoesWrong(c, card)
  <2>1. report'.sent = FALSE /\ stage' = "PLAYING" /\ Len(vec') = 3
    BY <1>3, <1>10 DEF GoesWrong, NoReport
  <2>2. Failing
    <3> HIDE DEF Failing
    <3> QED  BY <1>8, <2>1
  <2>3. vec' # << >>
    <3> HIDE DEF Beginning, Ending, Going, Failing
    <3>1. Len(<< >>) # 3
      OBVIOUS
    <3> QED  BY <2>1, <3>1, Zenon
  <2>4. Plays(card)
    BY <1>2, <1>7, <2>1, <2>2, <2>3 DEF Plays
  <2> QED  BY <1>1, <1>2, <1>3, <1>4, <1>5, <1>6, <1>10, <2>2, <2>4
<1>11. CASE RoundOver
  <2>1. report'.sent = TRUE /\ report'.over = FALSE /\ stage' = "BIDDING"
    BY <1>11 DEF RoundOver
  <2>2. Beginning
    <3> HIDE DEF Beginning
    <3> QED  BY <1>8, <2>1
  <2>3. Plays(card)
    BY <1>2, <1>7, <2>1, <2>2 DEF Plays
  <2> QED  BY <1>1, <1>2, <1>3, <1>4, <1>5, <1>6, <1>11, <2>2, <2>3
<1>12. CASE GameIsOver
  <2>1. report'.sent = TRUE /\ report'.over = TRUE /\ report'.winner = None /\ stage' = "ADDING"
    BY <1>12 DEF GameIsOver
  <2>2. Ending
    <3> HIDE DEF Ending
    <3> QED  BY <1>8, <2>1
  <2>3. Plays(card)
    BY <1>2, <1>7, <2>1, <2>2 DEF Plays
  <2>4. (report'.winner # None) = FALSE
    BY <2>1
  <2>5. Tell([d \in Clients |-> IF d \in Seated
                                  THEN <<[action |-> "score"], End(FALSE)>> ELSE << >>])
    BY <2>2, <2>4
  <2> QED  BY <1>1, <1>2, <1>3, <1>4, <1>5, <1>6, <1>12, <2>2, <2>3, <2>5
<1> QED  BY <1>6, <1>9, <1>10, <1>11, <1>12

\* A card more is spent.
LEMMA CardSpent ==
  ASSUME RoomInv, NEW c, c \in Clients, NEW m, m.action = "play", m.data \in DOMAIN deck[c],
         NEW card, card = deck[c][m.data], used' = [used EXCEPT ![c] = @ \cup {card}], deck' = deck
  PROVE  \A d \in Clients : Undealt(d, Own(d, c, m))
<1>1. used \in [Clients -> SUBSET Deck]
  <2>1. TableInv
    BY TableFacts DEF RoomInv
  <2> QED  BY <2>1 DEF TableInv, RoomTyped
<1>2. used'[c] = used[c] \cup {card} /\ \A d \in Clients : d # c => used'[d] = used[d]
  BY <1>1
<1>3. Own(c, c, m) = {m.data} /\ \A d : d # c => Own(d, c, m) = {}
  BY DEF Own, Given
<1>4. ASSUME NEW d \in Clients, d # c
      PROVE  Undealt(d, Own(d, c, m))
  <2>1. Spent(d)' = Spent(d) \cup {}
    BY <1>2, <1>4 DEF Spent
  <2> QED  BY <1>3, <1>4, <2>1 DEF Undealt
<1>5. Undealt(c, Own(c, c, m))
  <2> DEFINE s == deck[c]
             u == used[c]
             i == m.data
  <2>1. Spent(c) = {j \in DOMAIN s : s[j] \in u}
    BY DEF Spent
  <2>2. Spent(c)' = {j \in DOMAIN s : s[j] \in u \cup {card}}
    BY <1>2 DEF Spent
  <2>3. \A j, k \in DOMAIN s : s[j] = s[k] => j = k
    BY DEF RoomInv, DeckFits, Injective
  <2>4. i \in DOMAIN s /\ s[i] = card
    OBVIOUS
  <2> HIDE DEF s, u, i
  <2>5. {j \in DOMAIN s : s[j] \in u \cup {card}} = {j \in DOMAIN s : s[j] \in u} \cup {i}
    BY <2>3, <2>4
  <2>6. Spent(c)' = Spent(c) \cup {i}
    BY <2>1, <2>2, <2>5
  <2> QED  BY <1>3, <2>6 DEF Undealt, i
<1> QED  BY <1>4, <1>5

LEMMA EmptyTable ==
  ASSUME NEW v, v = << >>
  PROVE  [i \in DOMAIN v |-> v[i].card] = << >>
  OBVIOUS

-----------------------------------------------------------------------------
(***************************************************************************)
(* The trick goes on, or fails.                                            *)
(***************************************************************************)
\* The message names the cards that may be played.
LEMMA NextPlayable ==
  ASSUME deck' = deck, hand' = hand, asked' \in InPlay, asked' = "lead" <=> vec' = << >>,
         NEW h, h = it'.CURRENT
  PROVE  IndicesOf(h, AvailableNext) = Playable(h)'
<1> DEFINE u == hand'[h] \ used'[h]
           t == [i \in DOMAIN vec' |-> vec'[i].card]
           o == AllValidCards(u, t, superSuit')
<1>1. AvailableNext = o
  BY DEF AvailableNext
<1>2. CardOffers' = IF asked' = "lead" THEN u ELSE o
  BY DEF CardOffers, Unused, TableCards, AllValidCards, HighestCardOnTheTable, IsBigger, IsHigher
<1>3. asked' = "lead" => t = << >>
  BY EmptyTable
<1> HIDE DEF u, t
<1>4. t = << >> => o = u
  BY ValidAreUnused
<1> HIDE DEF o
<1>5. CardOffers' = o
  BY <1>2, <1>3, <1>4
<1>6. Playable(h)' = {i \in DOMAIN deck'[h] : deck'[h][i] \in CardOffers'}
  BY DEF Playable
<1>7. IndicesOf(h, AvailableNext) = {i \in DOMAIN deck[h] : deck[h][i] \in o}
  BY <1>1 DEF IndicesOf
<1> QED  BY <1>5, <1>6, <1>7

NextUnspent == \A h : h = it.CURRENT => Playable(h) \subseteq DOMAIN deck[h] \ Spent(h)

LEMMA PlayableUnspent == NextUnspent
<1> SUFFICES ASSUME NEW h, h = it.CURRENT
             PROVE  Playable(h) \subseteq DOMAIN deck[h] \ Spent(h)
  BY DEF NextUnspent
<1>1. CardOffers \subseteq hand[h] \ used[h]
  BY OffersAreUnused DEF Unused
<1> QED  BY <1>1 DEF Playable, Spent

LEMMA PlayAsks ==
  ASSUME RoomInv', it # NoIt, players' = players, NEW h, h = it'.CURRENT,
         asked' \in InPlay, NEW S, Undealt(h, S),
         NEW msg, msg.action = "play", msg.available = Playable(h)'
  PROVE  Answered(h, S, msg)
<1>1. Sane(msg)
  BY DEF Sane, ClientActions
<1>2. it' # NoIt /\ asked' \in InRound /\ asked' \in InRound' /\ asked' \in InPlay'
  <2>1. asked' \in InRound /\ asked' \in InRound' /\ asked' \in InPlay'
    BY DEF InRound, InPlay
  <2> QED  BY <2>1, NextRoles
<1>3. (\A g : g = it'.CURRENT => Playable(g)' \subseteq DOMAIN deck'[g] \ Spent(g)')
  <2>1. NextUnspent'
    BY PlayableUnspent, PTL
  <2> QED  BY <2>1 DEF NextUnspent
<1>4. ASSUME NEW e, Before(h, S, e)
      PROVE  LET f == Read(e, msg) IN Kept(f) /\ Calm(f) /\ Shown(h, {}, f)'
  <2> DEFINE f == Read(e, msg)
  <2>1. Rested(h, e)'
    BY <1>4, BeforeRested DEF Undealt
  <2>2. /\ Kept(e) /\ e.game = players' /\ e.game # NoGame /\ e.begun = TRUE
        /\ e.cards = deck'[h] /\ e.drawn = DOMAIN e.cards \ e.gone
        /\ e.windows = {} /\ e.bids = {} /\ e.available = {} /\ e.gone = Spent(h)'
    BY <2>1, RestedIs
  <2>3. Playable(h)' \subseteq DOMAIN e.cards \ e.gone
    BY <1>3, <2>2
  <2>4. /\ Kept(f) /\ f.available = msg.available
        /\ f.game = e.game /\ f.begun = e.begun /\ f.windows = e.windows
        /\ f.bids = e.bids /\ f.gone = e.gone /\ f.cards = e.cards /\ f.drawn = e.drawn
    BY <2>2, <2>3, ReadPlayIs
  <2> HIDE DEF f
  <2>5. Calm(f)
    BY <2>2, <2>4 DEF Calm
  <2>6. f.available \cap f.drawn = Playable(h)'
    BY <2>2, <2>3, <2>4
  <2>7. Turn(h)'
    BY <1>2 DEF Turn
  <2>8. Offered(h, f)'
    <3>1. f.windows = {} /\ f.bids = {} /\ f.gone = Spent(h)'
      BY <2>2, <2>4
    <3> QED  BY <1>2, <2>6, <3>1 DEF Offered
  <2>9. Shown(h, {}, f)'
    BY <1>2, <2>2, <2>4, <2>7, <2>8, AskedShown
  <2> QED  BY <2>4, <2>5, <2>9 DEF f
<1> QED  BY <1>1, <1>4 DEF Answered

LEMMA TrickStep ==
  ASSUME IInv, NEW c \in Clients, toServer[c] # << >>, NEW m, m = Head(toServer[c]), Fresh(m),
         m.action = "play", c = it.CURRENT, m.data \in DOMAIN deck[c], asked \in InPlay,
         NEW card \in Deck, card = deck[c][m.data], Plays(card), Stack, players' = players,
         \/ /\ GoesOn(c, card) /\ asked' \in InPlay /\ (asked' = "lead" <=> vec' = << >>)
            /\ Tell(To(it'.CURRENT, [action |-> "play",
                                     available |-> IndicesOf(it'.CURRENT, AvailableNext)]))
         \/ GoesWrong(c, card) /\ asked' = "none" /\ toClient' = toClient,
         toServer' = [toServer EXCEPT ![c] = Tail(@)], client' = client
  PROVE  IInv'
<1>1. RoomInv /\ asked \in InRound
  BY DEF IInv, InPlay, InRound
<1>2. it # NoIt
  BY <1>1, RoundFacts
<1>3. ASSUME GoesOn(c, card), asked' \in InPlay, asked' = "lead" <=> vec' = << >>,
             Tell(To(it'.CURRENT, [action |-> "play",
                                   available |-> IndicesOf(it'.CURRENT, AvailableNext)]))
      PROVE  IInv'
  <2>1. GoesOn(it.CURRENT, card)
    BY <1>3
  <2>2. RoomInv' /\ deck' = deck
    BY <1>1, <1>3, <2>1, GoesOnRoom
  <2>3. used' = [used EXCEPT ![c] = @ \cup {card}] /\ hand' = hand
    BY ONLY <1>3 DEF GoesOn
  <2>4. \A d \in Clients : Undealt(d, Own(d, c, m))
    BY <1>1, <2>2, <2>3, CardSpent
  <2>5. PICK h : h = it'.CURRENT
    OBVIOUS
  <2>6. PICK msg : msg = [action |-> "play", available |-> IndicesOf(h, AvailableNext)]
    OBVIOUS
  <2>7. Tell(To(h, msg))
    BY <1>3, <2>5, <2>6
  <2>8. msg.action = "play" /\ msg.available = Playable(h)'
    <3>1. IndicesOf(h, AvailableNext) = Playable(h)'
      BY <1>3, <2>2, <2>3, <2>5, NextPlayable
    <3> QED  BY <2>6, <3>1
  <2>9. it' # NoIt /\ h \in Clients /\ Seated \subseteq Clients
    <3>1. asked' \in InRound
      BY <1>3 DEF InPlay, InRound
    <3> QED  BY <1>1, <2>2, <2>5, <3>1, NextRoles, RoundFacts
  <2>10. Answered(h, Own(h, c, m), msg)
    BY <1>2, <1>3, <2>2, <2>4, <2>5, <2>8, <2>9, PlayAsks
  <2>11. \A d \in Seated : d # h => Undealt(d, Own(d, c, m)) /\ ~ Turn(d)'
    BY ONLY <2>4, <2>5, <2>9, OneTurn
  <2> QED  BY <1>1, <2>2, <2>7, <2>9, <2>10, <2>11, OneTold
<1>4. ASSUME GoesWrong(c, card), asked' = "none", toClient' = toClient
      PROVE  IInv'
  <2>1. GoesWrong(it.CURRENT, card)
    BY <1>4
  <2>2. RoomInv' /\ deck' = deck /\ it' # NoIt
    BY <1>1, <1>4, <2>1, GoesWrongRoom
  <2>3. used' = [used EXCEPT ![c] = @ \cup {card}]
    BY ONLY <1>4 DEF GoesWrong
  <2>4. \A d \in Clients : Undealt(d, Own(d, c, m))
    BY <1>1, <2>2, <2>3, CardSpent
  <2>5. \A d : ~ Turn(d)'
    BY <1>4 DEF Turn, InRound
  <2>6. Seated \subseteq Clients
    BY <1>1, RoundFacts
  <2> QED  BY <1>1, <1>4, <2>2, <2>4, <2>5, <2>6, NoneTold
<1> QED  BY <1>3, <1>4

-----------------------------------------------------------------------------
(***************************************************************************)
(* A new round: every player is sent his cards, and the first bidder the   *)
(* question.                                                               *)
(***************************************************************************)
\* A player whose cards are gone, or will go with the deal.
Cleared(e) ==
  /\ Kept(e) /\ e.game = players /\ e.game # NoGame /\ e.windows = {} /\ e.bids = {}
  /\ Mute(e) /\ Dealt(e).cards = << >> /\ Dealt(e).gone = {} /\ Dealt(e).available = {}

Chained(r, s, e, d) == \E f : Chain(r, s, e, f) /\ Shown(d, {}, f)'

\* The messages m, and n for the first bidder, are those of a new round.
OpeningOf(d, o, m, n) ==
  /\ m.action = "deal" /\ m.data = deck'[d] /\ m.data \in Seq(Deck) /\ n = BidQuestion
  /\ Sane(m) /\ Sane(n)
  /\ d = it'.CURRENT => o = <<m>> \o <<n>>
  /\ d # it'.CURRENT => o = <<m>> \o << >>

LEMMA OpeningIs ==
  ASSUME RoomInv', NEW d \in Clients, d \in Seated, NEW o, o = Opening(d)
  PROVE  \E m, n : OpeningOf(d, o, m, n)
<1>1. PICK m, n : m = [action |-> "deal", data |-> deck'[d]] /\ n = BidQuestion
  OBVIOUS
<1>2. /\ d = it'.CURRENT => o = <<m>> \o <<n>>
      /\ d # it'.CURRENT => o = <<m>> \o << >>
  BY <1>1 DEF Opening
<1>3. m.action = "deal" /\ m.data = deck'[d]
  BY <1>1
<1>4. m.data \in Seq(Deck)
  BY <1>3 DEF RoomInv, DeckFits
<1>5. Sane(m) /\ Sane(n)
  BY <1>1, <1>3, <1>4, BidQuestionSane DEF Sane, ClientActions
<1>6. OpeningOf(d, o, m, n)
  BY <1>1, <1>2, <1>3, <1>4, <1>5 DEF OpeningOf
<1> QED  BY <1>6

LEMMA OpeningSent ==
  ASSUME NEW d, NEW o, NEW m, NEW n, OpeningOf(d, o, m, n), NEW r, IsSeq(r)
  PROVE  /\ d = it'.CURRENT => r \o o = Append(Append(r, m), n)
         /\ d # it'.CURRENT => r \o o = Append(r, m)
<1>1. r \o (<<m>> \o <<n>>) = Append(Append(r, m), n) /\ r \o (<<m>> \o << >>) = Append(r, m)
  BY ConcatIs
<1> QED  BY <1>1 DEF OpeningOf

\* With a message in front.
LEMMA OpeningAfter ==
  ASSUME NEW d, NEW o, NEW m, NEW n, OpeningOf(d, o, m, n), NEW r, IsSeq(r), NEW a
  PROVE  r \o (<<a>> \o o) = Append(r, a) \o o
<1>1. /\ d = it'.CURRENT => o = <<m>> \o <<n>>
      /\ d # it'.CURRENT => o = <<m>> \o << >>
  BY DEF OpeningOf
<1> DEFINE t == Append(r, a)
<1>2. IsSeq(t)
  BY AppendIs
<1> HIDE DEF t
<1>3. t \o (<<m>> \o << >>) = Append(t, m)
  BY <1>2, ConcatIs
<1>4. t \o (<<m>> \o <<n>>) = Append(Append(t, m), n)
  BY <1>2, ConcatIs
<1>5. r \o (<<a>> \o (<<m>> \o << >>)) = Append(t, m)
  BY ConcatIs DEF t
<1>6. r \o (<<a>> \o (<<m>> \o <<n>>)) = Append(Append(t, m), n)
  BY ConcatIs DEF t
<1>7. CASE d = it'.CURRENT
  <2>1. o = <<m>> \o <<n>>
    BY <1>1, <1>7
  <2>2. r \o (<<a>> \o o) = Append(Append(t, m), n)
    BY <1>6, <2>1, Zenon
  <2>3. t \o o = Append(Append(t, m), n)
    BY <1>4, <2>1, Zenon
  <2> QED  BY <2>2, <2>3 DEF t
<1>8. CASE d # it'.CURRENT
  <2>1. o = <<m>> \o << >>
    BY <1>1, <1>8
  <2>2. r \o (<<a>> \o o) = Append(t, m)
    BY <1>5, <2>1, Zenon
  <2>3. t \o o = Append(t, m)
    BY <1>3, <2>1, Zenon
  <2> QED  BY <2>2, <2>3 DEF t
<1> QED  BY <1>7, <1>8

LEMMA OpeningFollows ==
  ASSUME RoomInv', NEW d \in Clients, d \in Seated, NEW o, o = Opening(d), NEW r, IsSeq(r)
  PROVE  Follows(r, r \o o) /\ IsSeq(r \o o)
<1>0. PICK m, n : OpeningOf(d, o, m, n)
  BY OpeningIs
<1>1. /\ m.action = "deal" /\ n = BidQuestion /\ Sane(m) /\ Sane(n)
      /\ d = it'.CURRENT => r \o o = Append(Append(r, m), n)
      /\ d # it'.CURRENT => r \o o = Append(r, m)
  <2>1. /\ d = it'.CURRENT => r \o o = Append(Append(r, m), n)
        /\ d # it'.CURRENT => r \o o = Append(r, m)
    BY <1>0, OpeningSent
  <2> QED  BY <1>0, <2>1 DEF OpeningOf
<1>2. m.action \notin {"add", "leave"} /\ n.action \notin {"add", "leave"}
  BY <1>1, BidQuestionSane
<1> DEFINE s == Append(r, m)
<1>3. Follows(r, s) /\ IsSeq(s)
  BY <1>1, <1>2, FollowsAppend
<1> HIDE DEF s
<1>4. Follows(s, Append(s, n)) /\ IsSeq(Append(s, n))
  BY <1>1, <1>2, <1>3, FollowsAppend
<1>5. Follows(r, Append(s, n))
  BY <1>3, <1>4, FollowsTwo
<1> QED  BY <1>1, <1>3, <1>4, <1>5 DEF s

LEMMA OpeningShown ==
  ASSUME RoomInv', asked' = "bid", players' = players, it' # NoIt,
         NEW d \in Clients, d \in Seated, used'[d] = {}, NEW o, o = Opening(d),
         NEW r, IsSeq(r), NEW e, Cleared(e)
  PROVE  Chained(r, r \o o, e, d)
<1>0. PICK m, n : OpeningOf(d, o, m, n)
  BY OpeningIs
<1>1. /\ m.action = "deal" /\ m.data = deck'[d] /\ m.data \in Seq(Deck)
      /\ n = BidQuestion /\ Sane(m) /\ Sane(n)
      /\ d = it'.CURRENT => r \o o = Append(Append(r, m), n)
      /\ d # it'.CURRENT => r \o o = Append(r, m)
  <2>1. /\ d = it'.CURRENT => r \o o = Append(Append(r, m), n)
        /\ d # it'.CURRENT => r \o o = Append(r, m)
    BY <1>0, OpeningSent
  <2> QED  BY <1>0, <2>1 DEF OpeningOf
<1>2. m.action \notin {"add", "leave"} /\ n.action \notin {"add", "leave"}
  BY <1>1, BidQuestionSane
<1> DEFINE f == Read(e, m)
           g == Read(f, n)
           s == Append(r, m)
<1>3. Rested(d, f)'
  BY <1>1, DealShown DEF Cleared
<1>4. Kept(f) /\ Mute(f) /\ Calm(f)
  BY <1>3, RestedIs, RestedMute
<1>5. Chain(r, s, e, f)
  <2>1. Mute(e)
    BY DEF Cleared
  <2> QED  BY <1>1, <1>2, <1>4, <2>1, ChainOne
<1> HIDE DEF f, s
<1>6. CASE d # it'.CURRENT
  <2>1. r \o o = s
    BY <1>1, <1>6 DEF s
  <2>2. ~ Turn(d)'
    BY <1>6 DEF Turn
  <2>3. Shown(d, {}, f)'
    BY <1>3, <2>2, RestedShown
  <2> QED  BY <1>5, <2>1, <2>3 DEF Chained
<1>7. CASE d = it'.CURRENT
  <2>1. r \o o = Append(s, n)
    BY <1>1, <1>7 DEF s
  <2>2. Kept(g) /\ Calm(g) /\ Shown(d, {}, g)'
    BY <1>1, <1>3, <1>7, BidShown
  <2>3. Chain(s, Append(s, n), f, g)
    BY <1>1, <1>2, <1>4, <2>2, ChainOne
  <2> HIDE DEF g
  <2>4. Chain(r, Append(s, n), e, g)
    BY <1>5, <2>3, ChainTwo
  <2> QED  BY <2>1, <2>2, <2>4 DEF Chained
<1> QED  BY <1>6, <1>7

LEMMA ScoreRead ==
  ASSUME it # NoIt, NEW d, NEW S, NEW e, Before(d, S, e), NEW a, a = [action |-> "score"]
  PROVE  LET f == Read(e, a)
         IN  /\ Cleared(f) /\ Calm(f) /\ f.begun = TRUE /\ f.drawn = {} /\ f.available = {}
             /\ Sane(a) /\ a.action \notin {"add", "leave"} /\ Mute(e)
<1>1. Kept(e) /\ e.game = players /\ e.game # NoGame /\ e.windows = {} /\ e.bids = {}
  BY DEF Before, Quiet
<1> DEFINE f == Read(e, a)
<1>2. /\ Kept(f) /\ f.cards = << >> /\ f.gone = {} /\ f.available = {} /\ f.drawn = {}
      /\ f.game = e.game /\ f.begun = TRUE /\ f.windows = e.windows /\ f.bids = e.bids
  BY <1>1, ReadScoreIs
<1> HIDE DEF f
<1>3. Dealt(f) = f
  BY <1>2, DealtIs
<1>4. Mute(f) /\ Calm(f)
  BY <1>1, <1>2 DEF Mute, Calm
<1>5. Cleared(f)
  BY <1>1, <1>2, <1>3, <1>4 DEF Cleared
<1>6. Sane(a) /\ a.action \notin {"add", "leave"}
  BY DEF Sane, ClientActions
<1> QED  BY <1>2, <1>4, <1>5, <1>6, BeforeMute DEF f

LEMMA RoundStep ==
  ASSUME IInv, NEW c \in Clients, toServer[c] # << >>, NEW m, m = Head(toServer[c]), Fresh(m),
         asked \in InRound, RoomInv', RoundOver, asked' = "bid", players' = players,
         Tell([d \in Clients |-> IF d \in Seated
                                   THEN <<[action |-> "score"]>> \o Opening(d) ELSE << >>]),
         toServer' = [toServer EXCEPT ![c] = Tail(@)], client' = client
  PROVE  IInv'
<1>1. it # NoIt
  BY DEF IInv, RoomInv, PhaseInv
<1>2. it' # NoIt
  <2>1. asked' \in InRound
    BY DEF InRound
  <2> QED  BY <2>1, NextRoles
<1>3. PICK a : a = [action |-> "score"]
  OBVIOUS
<1>4. toClient' = [d \in Clients |-> toClient[d] \o
                     (IF d \in Seated THEN <<a>> \o Opening(d) ELSE << >>)]
  BY <1>3 DEF Tell
<1>5. \A d \in Clients : used'[d] = {}
  BY DEF RoundOver, DealCards, NoCards
<1>6. ASSUME NEW d \in Clients, NEW r, r = toClient[d], IsSeq(r)
      PROVE  \E s : s = toClient'[d] /\ Follows(r, s) /\ (d \in Seated => Serves(d, Own(d, c, m), r, s))
  <2>1. CASE d \notin Seated
    <3>1. toClient'[d] = r \o << >>
      BY <1>4, <1>6, <2>1
    <3>2. toClient'[d] = r
      BY <1>6, <3>1, EmptyIs
    <3> QED  BY <2>1, <3>2, FollowsSame
  <2>2. CASE d \in Seated
    <3>1. PICK o : o = Opening(d)
      OBVIOUS
    <3>2. toClient'[d] = r \o (<<a>> \o o)
      BY <1>4, <1>6, <2>2, <3>1
    <3> DEFINE t == Append(r, a)
               s == t \o o
               S == Own(d, c, m)
    <3>3. Sane(a) /\ a.action \notin {"add", "leave"}
      BY <1>3 DEF Sane, ClientActions
    <3>4. Follows(r, t) /\ IsSeq(t)
      BY <1>6, <3>3, FollowsAppend
    <3>5. toClient'[d] = s
      <4>1. PICK m0, n0 : OpeningOf(d, o, m0, n0)
        BY <2>2, <3>1, OpeningIs
      <4>2. r \o (<<a>> \o o) = Append(r, a) \o o
        BY <1>6, <4>1, OpeningAfter
      <4> QED  BY <3>2, <4>2
    <3> HIDE DEF S, t
    <3>6. Follows(t, s)
      BY <2>2, <3>1, <3>4, OpeningFollows
    <3>7. Follows(r, s)
      BY <3>4, <3>6, FollowsTwo
    <3>8. ASSUME NEW e, Before(d, S, e)
          PROVE  \E f : Chain(r, s, e, f) /\ Shown(d, {}, f)'
      <4> DEFINE f == Read(e, a)
      <4>1. Cleared(f) /\ Calm(f) /\ Mute(e)
        BY <1>1, <1>3, <3>8, ScoreRead
      <4>2. Kept(f)
        BY <4>1 DEF Cleared
      <4>3. Chain(r, t, e, f)
        BY <3>3, <4>1, <4>2, ChainOne DEF t
      <4> HIDE DEF f
      <4>4. Chained(t, s, f, d)
        BY <1>2, <1>5, <2>2, <3>1, <3>4, <4>1, OpeningShown
      <4>5. PICK g : Chain(t, s, f, g) /\ Shown(d, {}, g)'
        BY <4>4 DEF Chained
      <4>6. Chain(r, s, e, g)
        BY <4>3, <4>5, ChainTwo
      <4> QED  BY <4>5, <4>6
    <3>9. Serves(d, S, r, s)
      BY <3>8, ServesBy
    <3> QED  BY <3>5, <3>7, <3>9 DEF S
  <2> QED  BY <2>1, <2>2
<1>7. Awaited(c)
  BY DEF Awaited
<1>8. DOMAIN toClient' = Clients
  BY <1>4
<1> QED  BY <1>6, <1>7, <1>8, RoundAnswer

-----------------------------------------------------------------------------
(***************************************************************************)
(* The game is over: the players are sent the score and the end.           *)
(***************************************************************************)
LEMMA EndShown ==
  ASSUME it # NoIt, it' = NoIt, players' = players, NEW d, NEW S, NEW e, Before(d, S, e),
         NEW a, a = [action |-> "score"], NEW b, b = End(FALSE), NEW r
  PROVE  Chained(r, Append(Append(r, a), b), e, d) /\ Sane(b) /\ b.action \notin {"add", "leave"}
<1> DEFINE f == Read(e, a)
           g == Read(f, b)
           s == Append(r, a)
<1>1. b.action = "end" /\ b.data = FALSE
  BY DEF End
<1>2. Sane(b) /\ b.action \notin {"add", "leave"}
  BY <1>1 DEF Sane, ClientActions
<1>3. /\ Cleared(f) /\ Calm(f) /\ f.begun = TRUE /\ f.drawn = {} /\ f.available = {}
      /\ Sane(a) /\ a.action \notin {"add", "leave"} /\ Mute(e)
  BY ScoreRead
<1>4. Kept(f) /\ Mute(f) /\ f.game = players /\ f.game # NoGame /\ f.windows = {} /\ f.bids = {}
  BY <1>3 DEF Cleared
<1>5. Chain(r, s, e, f)
  BY <1>3, <1>4, ChainOne
<1> HIDE DEF f, s
<1>6. /\ Kept(g) /\ g.begun = FALSE /\ g.windows = Announced(f.windows, b.data)
      /\ g.game = f.game /\ g.available = f.available /\ g.bids = f.bids
      /\ g.gone = f.gone /\ g.cards = f.cards /\ g.drawn = f.drawn
  BY <1>1, <1>4, ReadEndIs
<1> HIDE DEF g
<1>7. g.windows = {}
  BY <1>1, <1>4, <1>6 DEF Announced
<1>8. Calm(g)
  BY <1>7 DEF Calm
<1>9. Chain(s, Append(s, b), f, g)
  BY <1>2, <1>4, <1>6, <1>8, ChainOne DEF g
<1>10. Chain(r, Append(s, b), e, g)
  BY <1>5, <1>9, ChainTwo
<1>11. Shown(d, {}, g)'
  <2>1. NoIt' = NoIt
    BY DEF NoIt
  <2>2. AtRest(d, {}, g)'
    BY <1>3, <1>4, <1>6, <1>7 DEF AtRest
  <2> QED  BY <1>4, <1>6, <2>1, <2>2 DEF Shown
<1> QED  BY <1>2, <1>10, <1>11 DEF Chained, s

LEMMA GameStep ==
  ASSUME IInv, NEW c \in Clients, toServer[c] # << >>, NEW m, m = Head(toServer[c]), Fresh(m),
         asked \in InRound, RoomInv', GameIsOver, players' = players,
         Tell([d \in Clients |-> IF d \in Seated
                                   THEN <<[action |-> "score"], End(FALSE)>> ELSE << >>]),
         toServer' = [toServer EXCEPT ![c] = Tail(@)], client' = client
  PROVE  IInv'
<1>1. it # NoIt
  BY DEF IInv, RoomInv, PhaseInv
<1>2. it' = NoIt
  BY DEF GameIsOver
<1>3. PICK a, b : a = [action |-> "score"] /\ b = End(FALSE)
  OBVIOUS
<1>4. toClient' = [d \in Clients |-> toClient[d] \o (IF d \in Seated THEN <<a, b>> ELSE << >>)]
  BY <1>3 DEF Tell
<1>5. /\ Sane(a) /\ a.action \notin {"add", "leave"}
      /\ Sane(b) /\ b.action \notin {"add", "leave"}
  BY <1>3 DEF Sane, ClientActions, End
<1>6. ASSUME NEW d \in Clients, NEW r, r = toClient[d], IsSeq(r)
      PROVE  \E s : s = toClient'[d] /\ Follows(r, s) /\ (d \in Seated => Serves(d, Own(d, c, m), r, s))
  <2>1. CASE d \notin Seated
    <3>1. toClient'[d] = r \o << >>
      BY <1>4, <1>6, <2>1
    <3>2. toClient'[d] = r
      BY <1>6, <3>1, EmptyIs
    <3> QED  BY <2>1, <3>2, FollowsSame
  <2>2. CASE d \in Seated
    <3> DEFINE t == Append(r, a)
               s == Append(t, b)
               S == Own(d, c, m)
    <3>1. toClient'[d] = r \o <<a, b>>
      BY <1>4, <1>6, <2>2
    <3>2. toClient'[d] = s
      BY <1>6, <3>1, ConcatIs
    <3>3. Follows(r, t) /\ IsSeq(t)
      BY <1>5, <1>6, FollowsAppend
    <3>4. Follows(t, s)
      <4> HIDE DEF t
      <4> QED  BY <1>5, <3>3, FollowsAppend
    <3>5. Follows(r, s)
      BY <3>3, <3>4, FollowsTwo
    <3> HIDE DEF S
    <3>6. ASSUME NEW e, Before(d, S, e)
          PROVE  \E f : Chain(r, s, e, f) /\ Shown(d, {}, f)'
      <4>1. Chained(r, s, e, d)
        BY <1>1, <1>2, <1>3, <3>6, EndShown
      <4> QED  BY <4>1 DEF Chained
    <3> HIDE DEF s
    <3>7. Serves(d, S, r, s)
      BY <3>6, ServesBy
    <3> QED  BY <3>2, <3>5, <3>7 DEF S
  <2> QED  BY <2>1, <2>2
<1>7. Awaited(c)
  BY DEF Awaited
<1>8. DOMAIN toClient' = Clients
  BY <1>4
<1> QED  BY <1>6, <1>7, <1>8, RoundAnswer

LEMMA PlayStep ==
  ASSUME IInv, NEW c \in Clients, toServer[c] # << >>, NEW m, m = Head(toServer[c]), Fresh(m),
         m.action = "play", Fits(c, m), TakePlay(c, m.data),
         toServer' = [toServer EXCEPT ![c] = Tail(@)], client' = client
  PROVE  IInv' /\ TableNext
<1>1. RoomInv
  BY DEF IInv
<1>2. PICK card : card = deck[c][m.data]
  OBVIOUS
<1>3. /\ card \in Deck /\ Plays(card) /\ Stack /\ asked \in InPlay /\ c = it.CURRENT
      /\ m.data \in DOMAIN deck[c] /\ players' = players
  BY <1>1, <1>2, PlayOf
<1>4. \/ /\ GoesOn(c, card) /\ asked' \in InPlay /\ (asked' = "lead" <=> vec' = << >>)
         /\ Tell(To(it'.CURRENT, [action |-> "play",
                                  available |-> IndicesOf(it'.CURRENT, AvailableNext)]))
      \/ GoesWrong(c, card) /\ asked' = "none" /\ toClient' = toClient
      \/ /\ RoundOver /\ asked' = "bid"
         /\ Tell([d \in Clients |-> IF d \in Seated
                                      THEN <<[action |-> "score"]>> \o Opening(d) ELSE << >>])
      \/ /\ GameIsOver /\ asked' = "none"
         /\ Tell([d \in Clients |-> IF d \in Seated
                                      THEN <<[action |-> "score"], End(FALSE)>> ELSE << >>])
  BY <1>1, <1>2, PlayOf
<1>5. asked \in InRound
  BY <1>3 DEF InPlay, InRound
<1>6. CASE \/ /\ GoesOn(c, card) /\ asked' \in InPlay /\ (asked' = "lead" <=> vec' = << >>)
              /\ Tell(To(it'.CURRENT, [action |-> "play",
                                       available |-> IndicesOf(it'.CURRENT, AvailableNext)]))
           \/ GoesWrong(c, card) /\ asked' = "none" /\ toClient' = toClient
  <2>1. IInv'
    BY <1>2, <1>3, <1>6, TrickStep
  <2> QED  BY <1>3, <2>1 DEF TableNext
<1>7. CASE /\ RoundOver /\ asked' = "bid"
           /\ Tell([d \in Clients |-> IF d \in Seated
                                        THEN <<[action |-> "score"]>> \o Opening(d) ELSE << >>])
  <2>1. RoomInv'
    BY <1>1, <1>3, <1>7, RoundOverRoom
  <2> QED  BY <1>3, <1>5, <1>7, <2>1, RoundStep DEF TableNext
<1>8. CASE /\ GameIsOver /\ asked' = "none"
           /\ Tell([d \in Clients |-> IF d \in Seated
                                        THEN <<[action |-> "score"], End(FALSE)>> ELSE << >>])
  <2>1. RoomInv'
    BY <1>1, <1>3, <1>8, GameOverRoom
  <2> QED  BY <1>3, <1>5, <1>8, <2>1, GameStep DEF TableNext
<1>9. TableNext
  BY <1>3 DEF TableNext
<1> QED  BY <1>4, <1>6, <1>7, <1>8, <1>9

-----------------------------------------------------------------------------
(***************************************************************************)
(* A player is ready: the round begins, or the others are waited for.      *)
(***************************************************************************)
LEMMA ReadyOf ==
  ASSUME NEW c, c \in Seated, NEW m, Fits(c, m), m.action = "ready", TakeReady(c)
  PROVE  /\ IsReady(c) /\ asked = "ready" /\ c \notin ready
         /\ \/ /\ stage' = "BIDDING" /\ Stack
               /\ toClient' = [d \in Clients |-> toClient[d] \o Opening(d)]
            \/ stage' # "BIDDING" /\ deck' = deck /\ toClient' = toClient
<1>1. asked = "ready" /\ c \notin ready
  BY DEF Fits
<1>2. HandleReady(c)
  BY DEF TakeReady
<1>3. \/ /\ stage' = "BIDDING" /\ asked' = "bid" /\ Stack
         /\ toClient' = [d \in Clients |-> toClient[d] \o Opening(d)]
      \/ stage' # "BIDDING" /\ asked' = asked /\ deck' = deck /\ toClient' = toClient
  <2>1. \/ stage' = "BIDDING" /\ asked' = "bid" /\ Stack /\ Tell([d \in Clients |-> Opening(d)])
        \/ stage' # "BIDDING" /\ UNCHANGED <<asked, deck, toClient>>
    BY DEF TakeReady
  <2>2. Tell([d \in Clients |-> Opening(d)])
        => toClient' = [d \in Clients |-> toClient[d] \o Opening(d)]
    BY DEF Tell
  <2> QED  BY <2>1, <2>2
<1>4. IsReady(c)
  BY <1>1, <1>2, <1>3 DEF IsReady
<1> QED  BY <1>1, <1>3, <1>4

LEMMA StartStep ==
  ASSUME IInv, NEW c \in Clients, toServer[c] # << >>, NEW m, m = Head(toServer[c]), Fresh(m),
         asked = "ready", ready \cup {c} = Seated, it = NoIt, m.action = "ready",
         RoomInv', asked' = "bid", DealCards, players' = players,
         toClient' = [d \in Clients |-> toClient[d] \o Opening(d)],
         toServer' = [toServer EXCEPT ![c] = Tail(@)], client' = client
  PROVE  IInv'
<1>1. it' # NoIt
  <2>1. asked' \in InRound
    BY DEF InRound
  <2> QED  BY <2>1, NextRoles
<1>2. \A d \in Clients : used'[d] = {}
  BY DEF DealCards, NoCards
<1>3. ASSUME NEW d \in Clients, NEW r, r = toClient[d], IsSeq(r)
      PROVE  \E s : s = toClient'[d] /\ Follows(r, s) /\ (d \in Seated => Serves(d, Own(d, c, m), r, s))
  <2>1. PICK o : o = Opening(d)
    OBVIOUS
  <2>2. toClient'[d] = r \o o
    BY <1>3, <2>1
  <2>3. CASE d \notin Seated
    <3>1. o = << >>
      BY <2>1, <2>3 DEF Opening
    <3>2. toClient'[d] = r
      BY <1>3, <2>2, <3>1, EmptyIs
    <3> QED  BY <2>3, <3>2, FollowsSame
  <2>4. CASE d \in Seated
    <3> DEFINE s == r \o o
               S == Own(d, c, m)
    <3>1. Follows(r, s)
      BY <1>3, <2>1, <2>4, OpeningFollows
    <3> HIDE DEF S
    <3>2. ASSUME NEW e, Before(d, S, e)
          PROVE  \E f : Chain(r, s, e, f) /\ Shown(d, {}, f)'
      <4>1. /\ Kept(e) /\ e.game = players /\ e.game # NoGame /\ e.begun = FALSE
            /\ e.windows = {} /\ e.bids = {}
        BY <3>2 DEF Before
      <4>2. Dealt(e).cards = << >> /\ Dealt(e).gone = {} /\ Dealt(e).available = {}
        BY <4>1, DealtIs
      <4>3. Cleared(e)
        BY <3>2, <4>1, <4>2, BeforeMute DEF Cleared
      <4>4. Chained(r, r \o o, e, d)
        BY <1>1, <1>2, <1>3, <2>1, <2>4, <4>3, OpeningShown
      <4> QED  BY <4>4 DEF Chained
    <3> HIDE DEF s
    <3>3. Serves(d, S, r, s)
      BY <3>2, ServesBy
    <3>4. s = toClient'[d]
      BY <2>2 DEF s
    <3> QED  BY <3>1, <3>3, <3>4 DEF S
  <2> QED  BY <2>3, <2>4
<1>4. Awaited(c)
  BY DEF Awaited
<1>5. DOMAIN toClient' = Clients
  OBVIOUS
<1> QED  BY <1>3, <1>4, <1>5, RoundAnswer

\* What changes for the others when one more player is ready: nothing.
LEMMA OneMoreReady ==
  ASSUME asked = "ready", asked' = "ready", it = NoIt, it' = NoIt, players' = players,
         NEW c, ready' = ready \cup {c}, NEW d, d # c, NEW q, NEW k, NEW r, CInv(d, q, k, r)
  PROVE  CInv(d, q, k, r)'
<1>1. Seated' = Seated /\ NoIt' = NoIt /\ (d \in ready' <=> d \in ready)
  BY SameSeats DEF NoIt
<1>2. \A m : Fits(d, m) => Fits(d, m)'
  BY <1>1 DEF Fits, InPlay
<1>3. Waiting(d, q, r)'
  <2>1. Waiting(d, q, r)
    BY DEF CInv
  <2> DEFINE S == Seated
  <2>2. /\ IsSeq(q)
        /\ \A i \in 1 .. Len(q) :
             /\ q[i].action \in Answers \cup {"add", "leave"}
             /\ q[i].action = "leave" =>
                  d \in S /\ \A j \in i + 1 .. Len(q) : q[j].action = "add"
             /\ q[i].action = "add" => i = Len(q) /\ (d \in S => Has(q, "leave"))
             /\ q[i].action \in Answers =>
                  /\ d \in S /\ q[i].old \in BOOLEAN
                  /\ q[i].old = FALSE => /\ Fits(d, q[i])' /\ ~ Has(r, "leave")
                                         /\ \A j \in i + 1 .. Len(q) : q[j].action \notin Answers
                  /\ q[i].old = TRUE => d \notin ready' /\ it' = NoIt'
    BY <1>1, <1>2, <2>1 DEF Waiting
  <2>3. Seated' = S /\ Answers' = Answers
    BY <1>1 DEF Answers
  <2> HIDE DEF S
  <2> QED  BY <2>2, <2>3 DEF Waiting
<1>4. Caught(d, r)'
  BY <1>1 DEF CInv, Caught
<1>5. \A P, e : Shown(d, P, e) => Shown(d, P, e)'
  BY <1>1 DEF Shown, AtRest
<1>6. Here(d, q)' <=> Here(d, q)
  BY <1>1 DEF Here
<1>7. Here(d, q) => \E e : Ends(k, r, e) /\ Shown(d, Posted(q), e)'
  BY <1>5 DEF CInv
<1>8. ~ Here(d, q) => Off(k, r)
  BY DEF CInv
<1> QED  BY <1>3, <1>4, <1>6, <1>7, <1>8 DEF CInv

\* The player who is ready now.
LEMMA NowReady ==
  ASSUME asked = "ready", asked' = "ready", it = NoIt, it' = NoIt, players' = players,
         NEW c, ready' = ready \cup {c}, NEW q, NEW k, NEW r, CInv(c, q, k, r), q # << >>,
         NEW m, m = Head(q), Fresh(m)
  PROVE  CInv(c, Tail(q), k, r)'
<1> DEFINE t == Tail(q)
<1>1. Seated' = Seated /\ NoIt' = NoIt
  BY SameSeats DEF NoIt
<1>2. Waiting(c, q, r) /\ IsSeq(q)
  BY DEF CInv, Waiting
<1>3. /\ c \in Seated /\ ~ Has(r, "leave")
      /\ \A i \in 1 .. Len(t) : t[i].action \notin Answers
  BY <1>2, WaitingHead DEF Fresh
<1>4. Waiting(c, t, r) /\ (Here(c, t) <=> Here(c, q))
  <2>1. m.action # "leave"
    BY DEF Fresh, Answers
  <2> QED  BY <1>2, <2>1, WaitingTail
<1>5. Posted(t) = {} /\ m \in Posted(q)
  <2>1. Posted(t) = {}
    BY <1>3, PostedNone
  <2>2. Posted(q) = Posted(t) \cup {m}
    BY <1>2, PostedTail
  <2> QED  BY <2>1, <2>2
<1> HIDE DEF t
<1>6. Waiting(c, t, r)'
  BY <1>1, <1>3, <1>4, WaitingNone
<1>7. Caught(c, r)'
  BY <1>3 DEF Caught
<1>8. Here(c, t)' <=> Here(c, q)
  BY <1>1, <1>4 DEF Here
<1>9. Here(c, q) => \E e : Ends(k, r, e) /\ Shown(c, Posted(t), e)'
  <2> SUFFICES ASSUME Here(c, q) PROVE \E e : Ends(k, r, e) /\ Shown(c, Posted(t), e)'
    OBVIOUS
  <2>1. PICK e : Ends(k, r, e) /\ Shown(c, Posted(q), e)
    BY DEF CInv
  <2>2. e.game = players /\ e.begun = FALSE /\ AtRest(c, Posted(q), e)
    BY <2>1 DEF Shown
  <2>3. e.drawn = {} /\ e.bids = {} /\ e.windows = {}
    BY <1>5, <2>2 DEF AtRest
  <2>4. Shown(c, Posted(t), e)'
    BY <1>1, <2>2, <2>3 DEF Shown, AtRest
  <2> QED  BY <2>1, <2>4
<1>10. ~ Here(c, q) => Off(k, r)
  BY DEF CInv
<1>11. CInv(c, t, k, r)'
  BY <1>6, <1>7, <1>8, <1>9, <1>10 DEF CInv
<1> QED  BY <1>11 DEF t

LEMMA WaitStep ==
  ASSUME IInv, NEW c \in Clients, toServer[c] # << >>, NEW m, m = Head(toServer[c]), Fresh(m),
         asked = "ready", asked' = "ready", it = NoIt, it' = NoIt, players' = players,
         ready' = ready \cup {c}, RoomInv', toClient' = toClient,
         toServer' = [toServer EXCEPT ![c] = Tail(@)], client' = client
  PROVE  IInv'
<1>1. DOMAIN toServer = Clients /\ DOMAIN toClient = Clients
  BY DEF IInv, ClientsInv
<1>2. DOMAIN toServer' = Clients /\ DOMAIN toClient' = Clients
      /\ \A d \in Clients : /\ d = c => toServer'[d] = Tail(toServer[c])
                            /\ d # c => toServer'[d] = toServer[d]
  BY <1>1
<1>3. ASSUME NEW d \in Clients, NEW q, NEW k, NEW r,
              q = toServer[d], k = client[d], r = toClient[d], CInv(d, q, k, r)
       PROVE  \E t, s : t = toServer'[d] /\ s = toClient'[d] /\ CInv(d, t, k, s)'
  <2>1. r = toClient'[d]
    BY <1>3
  <2>2. CASE d = c
    <3>1. CInv(d, Tail(q), k, r)'
      BY <1>3, <2>2, NowReady
    <3>2. Tail(q) = toServer'[d]
      BY <1>2, <1>3, <2>2
    <3> QED  BY <2>1, <3>1, <3>2
  <2>3. CASE d # c
    <3>1. CInv(d, q, k, r)'
      BY <1>3, <2>3, OneMoreReady
    <3>2. q = toServer'[d]
      BY <1>2, <1>3, <2>3
    <3> QED  BY <2>1, <3>1, <3>2
  <2> QED  BY <2>2, <2>3
<1> QED  BY <1>2, <1>3, AllClients

LEMMA ReadyStep ==
  ASSUME IInv, NEW c \in Clients, toServer[c] # << >>, NEW m, m = Head(toServer[c]), Fresh(m),
         m.action = "ready", c \in Seated, Fits(c, m), TakeReady(c),
         toServer' = [toServer EXCEPT ![c] = Tail(@)], client' = client
  PROVE  IInv' /\ TableNext
<1>1. RoomInv
  BY DEF IInv
<1>2. /\ IsReady(c) /\ asked = "ready"
      /\ \/ /\ stage' = "BIDDING" /\ Stack
            /\ toClient' = [d \in Clients |-> toClient[d] \o Opening(d)]
         \/ stage' # "BIDDING" /\ deck' = deck /\ toClient' = toClient
  BY ReadyOf
<1>3. /\ it = NoIt /\ ready' = ready \cup {c} /\ players' = players
      /\ stage' # "BIDDING" /\ deck' = deck => RoomInv' /\ asked' = "ready" /\ it' = NoIt
      /\ stage' = "BIDDING" /\ Stack => RoomInv' /\ asked' = "bid" /\ ready' = Seated /\ DealCards
  BY <1>1, <1>2, ReadyRoom
<1>4. TableNext
  BY <1>2 DEF TableNext
<1>5. CASE stage' = "BIDDING" /\ Stack /\ toClient' = [d \in Clients |-> toClient[d] \o Opening(d)]
  <2>1. RoomInv' /\ asked' = "bid" /\ ready \cup {c} = Seated /\ DealCards
    BY <1>3, <1>5
  <2> QED  BY <1>2, <1>3, <1>4, <1>5, <2>1, StartStep
<1>6. CASE stage' # "BIDDING" /\ deck' = deck /\ toClient' = toClient
  <2>1. RoomInv' /\ asked' = "ready" /\ it' = NoIt
    BY <1>3, <1>6
  <2> QED  BY <1>2, <1>3, <1>4, <1>6, <2>1, WaitStep
<1> QED  BY <1>2, <1>5, <1>6

-----------------------------------------------------------------------------
(***************************************************************************)
(* A player leaves: what is on its way from the others is outdated.        *)
(***************************************************************************)
LEMMA AgedIs ==
  ASSUME NEW q, IsSeq(q)
  PROVE  LET t == Aged(q)
         IN  /\ IsSeq(t) /\ Len(t) = Len(q)
             /\ \A i \in 1 .. Len(q) :
                  /\ t[i].action = q[i].action
                  /\ q[i].action \in Answers => t[i].old = TRUE
             /\ \A a : Has(t, a) <=> Has(q, a)
<1> DEFINE t == Aged(q)
<1>1. PICK S : q \in Seq(S)
  BY DEF IsSeq
<1>2. Len(q) \in Nat /\ DOMAIN q = 1 .. Len(q)
  BY <1>1, LenProperties
<1> DEFINE T == {t[i] : i \in 1 .. Len(q)}
           n == Len(q)
<1>3. t = [i \in 1 .. n |-> t[i]]
  BY <1>2 DEF Aged
<1>4. \A i \in 1 .. n :
        IF q[i].action \in Answers
        THEN t[i] = [action |-> q[i].action, data |-> q[i].data, old |-> TRUE]
        ELSE t[i] = q[i]
  BY <1>2 DEF Aged
<1> HIDE DEF t
<1>5. \A i \in 1 .. n : t[i] \in T
  OBVIOUS
<1> HIDE DEF T, n
<1>6. t \in Seq(T) /\ Len(t) = n
  <2>1. t \in [1 .. n -> T]
    BY <1>3, <1>5, Zenon
  <2>2. n \in Nat
    BY <1>2 DEF n
  <2>3. t \in Seq(T) /\ Len(t) = n
    BY <2>1, <2>2
  <2> QED  BY <2>3
<1>7. \A i \in 1 .. n : /\ t[i].action = q[i].action
                        /\ q[i].action \in Answers => t[i].old = TRUE
  <2> TAKE i \in 1 .. n
  <2>1. CASE q[i].action \in Answers
    <3>1. t[i] = [action |-> q[i].action, data |-> q[i].data, old |-> TRUE]
      BY <1>4, <2>1
    <3> QED  BY <3>1
  <2>2. CASE q[i].action \notin Answers
    BY <1>4, <2>2
  <2> QED  BY <2>1, <2>2
<1>8. IsSeq(t)
  BY <1>6 DEF IsSeq
<1>9. \A a : Has(t, a) <=> Has(q, a)
  BY <1>6, <1>7 DEF Has, n
<1> QED  BY <1>6, <1>7, <1>8, <1>9 DEF t, n

\* What follows a leave in the messages: the end of the game, if there was one.
Farewell(r, a, b, s) ==
  \/ it = NoIt /\ s = Append(r, a)
  \/ it # NoIt /\ s = Append(Append(r, a), b)

Gone(c) ==
  /\ players \in Seq(Clients) /\ players' = RemoveFirst(players, c)
  /\ Len(players') # 3 /\ it' = NoIt /\ ready' = {} /\ Seated' = Seated \ {c}

LEMMA LeaveShown ==
  ASSUME NEW c \in Clients, Gone(c), NEW d, NEW P, NEW k, NEW r, NEW e, Ends(k, r, e), Shown(d, P, e),
         NEW a, a = [action |-> "leave", data |-> c], NEW b, b = End(TRUE), NEW s, Farewell(r, a, b, s)
  PROVE  \E f : Ends(k, s, f) /\ Shown(d, {}, f)'
<1> DEFINE f == Read(e, a)
           g == Read(f, b)
           t == Append(r, a)
<1>1. a.action = "leave" /\ a.data = c /\ b.action = "end" /\ b.data = TRUE
  BY DEF End
<1>2. Sane(a) /\ Sane(b)
  BY <1>1 DEF Sane, ClientActions
<1>3. Kept(e) /\ e.game = players /\ e.game # NoGame
  BY EndsKept, NoGameIs DEF Shown, Gone
<1>4. /\ Kept(f) /\ f.game = RemoveFirst(e.game, a.data) /\ f.game \in Seq(Clients)
      /\ f.begun = e.begun /\ f.windows = {} /\ f.bids = {}
      /\ f.cards = << >> /\ f.gone = {} /\ f.available = {} /\ f.drawn = {}
  BY <1>1, <1>3, ReadLeaveIs
<1>5. f.game = players' /\ f.game # NoGame
  BY <1>1, <1>3, <1>4, NoGameIs DEF Gone
<1> HIDE DEF f
<1>6. Calm(f) /\ Mute(f)
  BY <1>4 DEF Calm, Mute
<1>7. Ends(k, t, f)
  BY <1>1, <1>2, <1>4, <1>6, EndsAppend DEF f
<1> HIDE DEF t
<1>8. NoIt' = NoIt
  BY DEF NoIt
<1>9. CASE it = NoIt
  <2>1. s = t
    BY <1>9 DEF Farewell, t
  <2>2. e.begun = FALSE
    BY <1>9 DEF Shown
  <2>3. AtRest(d, {}, f)'
    BY <1>4 DEF AtRest
  <2>4. Shown(d, {}, f)'
    BY <1>4, <1>5, <1>8, <2>2, <2>3 DEF Shown, Gone
  <2> QED  BY <1>7, <2>1, <2>4
<1>10. CASE it # NoIt
  <2>1. s = Append(t, b)
    BY <1>10 DEF Farewell, t
  <2>2. /\ Kept(g) /\ g.begun = FALSE /\ g.windows = Announced(f.windows, b.data)
        /\ g.game = f.game /\ g.available = f.available /\ g.bids = f.bids
        /\ g.gone = f.gone /\ g.cards = f.cards /\ g.drawn = f.drawn
    <3>1. Kept(f) /\ f.game # NoGame /\ b.action = "end"
      BY <1>1, <1>4, <1>5
    <3> QED  BY <3>1, ReadEndIs
  <2>3. g.windows = {"win"}
    <3>1. g.windows = Announced({}, TRUE)
      BY <1>1, <1>4, <2>2
    <3> QED  BY <3>1 DEF Announced
  <2> HIDE DEF g
  <2>4. Calm(g)
    BY <1>4, <1>5, <2>2, <2>3 DEF Calm, Gone
  <2>5. b.action # "add" /\ b.action # "leave"
    BY <1>1
  <2>6. Ends(k, Append(t, b), g)
    BY <1>2, <1>6, <1>7, <2>2, <2>4, <2>5, EndsAppend DEF g
  <2>7. AtRest(d, {}, g)'
    BY <1>4, <2>2, <2>3 DEF AtRest, Gone
  <2>8. Shown(d, {}, g)'
    BY <1>5, <1>8, <2>2, <2>7 DEF Shown, Gone
  <2> QED  BY <2>1, <2>6, <2>8
<1> QED  BY <1>9, <1>10

LEMMA LeaveOff ==
  ASSUME NEW k, NEW r, Off(k, r), NEW c, NEW a, a = [action |-> "leave", data |-> c],
         NEW b, b = End(TRUE), NEW s, Farewell(r, a, b, s)
  PROVE  Off(k, s)
<1>1. Sane(a) /\ Sane(b) /\ a.action # "add" /\ b.action # "add"
  BY DEF Sane, ClientActions, End
<1> DEFINE t == Append(r, a)
<1>2. Off(k, t)
  BY <1>1, OffAppend
<1>3. Off(k, Append(t, b))
  <2> HIDE DEF t
  <2> QED  BY <1>1, <1>2, OffAppend
<1> QED  BY <1>2, <1>3 DEF Farewell

\* What waits of the others is outdated.
LEMMA AgedWaiting ==
  ASSUME NEW c, Gone(c), NEW d, d # c, NEW q, NEW r, Waiting(d, q, r), NEW s,
         NEW t, t = Aged(q)
  PROVE  /\ Waiting(d, t, s)' /\ Caught(d, s)' /\ Posted(t) = {}
         /\ Here(d, t)' <=> Here(d, q)
<1>1. /\ IsSeq(q) /\ IsSeq(t) /\ Len(t) = Len(q)
      /\ \A i \in 1 .. Len(q) :
           /\ t[i].action = q[i].action
           /\ q[i].action \in Answers => t[i].old = TRUE
      /\ \A a : Has(t, a) <=> Has(q, a)
  <2>1. IsSeq(q)
    BY DEF Waiting
  <2> QED  BY <2>1, AgedIs
<1>2. NoIt' = NoIt
  BY DEF NoIt
<1>3. Len(q) \in Nat
  BY <1>1, EmptyIs
<1>4. Posted(t) = {}
  BY <1>1 DEF Posted, Fresh
<1>5. Here(d, t)' <=> Here(d, q)
  BY <1>1 DEF Here, Gone
<1>6. Caught(d, s)'
  BY <1>2 DEF Caught, Gone
<1>7. ASSUME NEW i \in 1 .. Len(t)
      PROVE  /\ t[i].action \in Answers \cup {"add", "leave"}
             /\ t[i].action = "leave" =>
                  d \in Seated' /\ \A j \in i + 1 .. Len(t) : t[j].action = "add"
             /\ t[i].action = "add" => i = Len(t) /\ (d \in Seated' => Has(t, "leave"))
             /\ t[i].action \in Answers =>
                  /\ d \in Seated' /\ t[i].old = TRUE /\ d \notin ready' /\ it' = NoIt
  <2>1. i \in 1 .. Len(q) /\ t[i].action = q[i].action
    BY <1>1
  <2>2. \A j \in i + 1 .. Len(t) : j \in i + 1 .. Len(q) /\ t[j].action = q[j].action
    BY <1>1, <1>3
  <2>3. /\ q[i].action \in Answers \cup {"add", "leave"}
        /\ q[i].action = "leave" =>
             d \in Seated /\ \A j \in i + 1 .. Len(q) : q[j].action = "add"
        /\ q[i].action = "add" => i = Len(q) /\ (d \in Seated => Has(q, "leave"))
        /\ q[i].action \in Answers => d \in Seated
    BY <2>1 DEF Waiting
  <2> QED  BY <1>1, <2>1, <2>2, <2>3 DEF Gone
<1>8. Waiting(d, t, s)'
  <2>1. \A i \in 1 .. Len(t) :
          /\ t[i].action \in Answers \cup {"add", "leave"}
          /\ t[i].action = "leave" =>
               d \in Seated' /\ \A j \in i + 1 .. Len(t) : t[j].action = "add"
          /\ t[i].action = "add" => i = Len(t) /\ (d \in Seated' => Has(t, "leave"))
          /\ t[i].action \in Answers =>
               /\ d \in Seated' /\ t[i].old = TRUE /\ d \notin ready' /\ it' = NoIt
    BY <1>7
  <2> QED  BY <1>1, <1>2, <2>1 DEF Waiting
<1> QED  BY <1>4, <1>5, <1>6, <1>8

\* One of the others.
LEMMA OtherLeft ==
  ASSUME NEW c \in Clients, Gone(c), NEW d, d # c, NEW q, NEW k, NEW r, CInv(d, q, k, r),
         NEW a, a = [action |-> "leave", data |-> c], NEW b, b = End(TRUE), NEW s,
         d \in Seated => Farewell(r, a, b, s), d \notin Seated => s = r, NEW t, t = Aged(q)
  PROVE  CInv(d, t, k, s)'
<1>1. Waiting(d, q, r)
  BY DEF CInv
<1>2. /\ Waiting(d, t, s)' /\ Caught(d, s)' /\ Posted(t) = {}
      /\ Here(d, t)' <=> Here(d, q)
  BY <1>1, AgedWaiting
<1>3. Here(d, q) => \E f : Ends(k, s, f) /\ Shown(d, Posted(t), f)'
  <2> SUFFICES ASSUME Here(d, q) PROVE \E f : Ends(k, s, f) /\ Shown(d, {}, f)'
    BY <1>2
  <2>1. d \in Seated
    BY DEF Here
  <2>2. PICK e : Ends(k, r, e) /\ Shown(d, Posted(q), e)
    BY DEF CInv
  <2> QED  BY <2>1, <2>2, LeaveShown
<1>4. ~ Here(d, q) => Off(k, s)
  <2> SUFFICES ASSUME ~ Here(d, q) PROVE Off(k, s)
    OBVIOUS
  <2>1. Off(k, r)
    BY DEF CInv
  <2> QED  BY <2>1, LeaveOff
<1> QED  BY <1>2, <1>3, <1>4 DEF CInv

\* The one that leaves: only its wish to come back is left.
LEMMA LeaverLeft ==
  ASSUME NEW c, Gone(c), NEW q, NEW k, NEW r, CInv(c, q, k, r), q # << >>, Head(q).action = "leave",
         NEW t, t = Aged(Tail(q))
  PROVE  CInv(c, t, k, r)'
<1> DEFINE u == Tail(q)
<1>1. Waiting(c, q, r) /\ IsSeq(q)
  BY DEF CInv, Waiting
<1>2. /\ c \in Seated /\ Has(q, "leave") /\ \A i \in 1 .. Len(u) : u[i].action = "add"
  BY ONLY <1>1, q # << >>, Head(q).action = "leave", LeaveHead
<1>3. /\ IsSeq(u) /\ Len(u) = Len(q) - 1 /\ Len(q) \in Nat \ {0}
      /\ \A i \in 1 .. Len(u) : u[i] = q[i + 1]
  BY <1>1, TailIs
<1>4. /\ IsSeq(t) /\ Len(t) = Len(u)
      /\ \A i \in 1 .. Len(u) : t[i].action = u[i].action
  BY <1>3, AgedIs
<1> HIDE DEF u
<1>5. \A i \in 1 .. Len(t) : t[i].action = "add" /\ i = Len(t)
  <2> TAKE i \in 1 .. Len(t)
  <2>1. t[i].action = "add" /\ u[i] = q[i + 1] /\ u[i].action = "add"
    BY <1>2, <1>3, <1>4
  <2>2. i + 1 \in 1 .. Len(q) /\ q[i + 1].action = "add"
    BY <1>3, <1>4, <2>1
  <2>3. i + 1 = Len(q)
    BY <1>1, <2>2 DEF Waiting
  <2> QED  BY <1>3, <1>4, <2>1, <2>3
<1>6. c \notin Seated'
  BY DEF Gone
<1>7. Waiting(c, t, r)'
  BY <1>4, <1>5, <1>6 DEF Waiting, Answers
<1>8. Caught(c, r)' /\ ~ Here(c, t)'
  BY <1>6 DEF Caught, Here
<1>9. Off(k, r)
  BY <1>2 DEF CInv, Here
<1> QED  BY <1>7, <1>8, <1>9 DEF CInv

\* A player leaves.
Outdates(rest) == toServer' = [d \in Clients |-> Aged(rest[d])]

LEMMA LeaveStep ==
  ASSUME IInv, NEW c \in Clients, toServer[c] # << >>, Head(toServer[c]).action = "leave", TakeLeave(c),
         NEW rest, rest = [toServer EXCEPT ![c] = Tail(@)],
         Outdates(rest), client' = client
  PROVE  IInv' /\ TableNext
<1>0. toServer' = [d \in Clients |-> Aged(rest[d])]
  BY DEF Outdates
<1>1. RoomInv /\ DOMAIN toServer = Clients /\ DOMAIN toClient = Clients
  BY DEF IInv, ClientsInv
<1>2. players \in Seq(Clients) /\ asked \in Questions
  <2>1. TableInv
    BY <1>1, TableFacts DEF RoomInv
  <2> QED  BY <2>1 DEF TableInv, RoomTyped
<1>3. Leaving(c) /\ deck' = [d \in Clients |-> << >>]
  BY <1>2 DEF TakeLeave, Leaving
<1>4. /\ RoomInv' /\ c \in Seated /\ asked' = "seating" /\ it' = NoIt /\ ready' = {}
      /\ Seated' = Seated \ {c} /\ players' = RemoveFirst(players, c)
      /\ players' \in Seq(Clients) /\ Len(players') # 3
      /\ stage # "ADDING" <=> it # NoIt
  BY <1>1, <1>3, LeavingRoom
<1>5. Gone(c)
  BY <1>2, <1>4 DEF Gone
<1>6. PICK a, b : a = [action |-> "leave", data |-> c] /\ b = End(TRUE)
  OBVIOUS
<1>7. toClient' = [d \in Clients |->
                     toClient[d] \o (IF d \notin Seated \ {c} THEN << >>
                                     ELSE <<a>> \o (IF stage # "ADDING" THEN <<b>> ELSE << >>))]
  BY <1>6 DEF TakeLeave, Tell
<1>8. ASSUME NEW d \in Clients, NEW q, NEW k, NEW r,
              q = toServer[d], k = client[d], r = toClient[d], CInv(d, q, k, r)
       PROVE  \E t, s : t = toServer'[d] /\ s = toClient'[d] /\ CInv(d, t, k, s)'
  <2>1. IsSeq(r)
    BY <1>8, EndsKept DEF CInv, Off, Mail
  <2>2. PICK t : t = toServer'[d]
    OBVIOUS
  <2>3. CASE d = c
    <3>1. t = Aged(Tail(q))
      BY <1>0, <1>1, <1>8, <2>2, <2>3
    <3>2. toClient'[d] = r \o << >>
      BY <1>7, <1>8, <2>3
    <3>3. toClient'[d] = r
      BY <2>1, <3>2, EmptyIs
    <3>4. CInv(d, t, k, r)'
      BY <1>5, <1>8, <2>3, <3>1, LeaverLeft
    <3> QED  BY <2>2, <3>3, <3>4
  <2>4. CASE d # c
    <3>1. t = Aged(q)
      BY <1>0, <1>1, <1>8, <2>2, <2>4
    <3>2. PICK s : s = toClient'[d]
      OBVIOUS
    <3>3. d \notin Seated => s = r
      <4> SUFFICES ASSUME d \notin Seated PROVE s = r
        OBVIOUS
      <4>1. s = r \o << >>
        BY <1>7, <1>8, <3>2
      <4> QED  BY <2>1, <4>1, EmptyIs
    <3>4. d \in Seated => Farewell(r, a, b, s)
      <4> SUFFICES ASSUME d \in Seated PROVE Farewell(r, a, b, s)
        OBVIOUS
      <4>1. CASE it = NoIt
        <5>1. s = r \o (<<a>> \o << >>)
          BY <1>4, <1>7, <1>8, <2>4, <3>2, <4>1
        <5> QED  BY <2>1, <4>1, <5>1, ConcatIs DEF Farewell
      <4>2. CASE it # NoIt
        <5>1. s = r \o (<<a>> \o <<b>>)
          BY <1>4, <1>7, <1>8, <2>4, <3>2, <4>2
        <5> QED  BY <2>1, <4>2, <5>1, ConcatIs DEF Farewell
      <4> QED  BY <4>1, <4>2
    <3>5. CInv(d, t, k, s)'
      BY <1>5, <1>6, <1>8, <2>4, <3>1, <3>3, <3>4, OtherLeft
    <3> QED  BY <2>2, <3>2, <3>5
  <2> QED  BY <2>3, <2>4
<1>9. DOMAIN toServer' = Clients /\ DOMAIN toClient' = Clients
  BY <1>0, <1>7
<1>10. IInv'
  BY <1>4, <1>8, <1>9, AllClients
<1> QED  BY <1>3, <1>10 DEF TableNext

-----------------------------------------------------------------------------
(***************************************************************************)
(* A player comes.  There is a seat for it, as there are no more clients.  *)
(***************************************************************************)
LEMMA SeatFree ==
  ASSUME TableInv, NEW c \in Clients, c \notin Seated
  PROVE  Len(players) < MAX_PLAYERS
<1>1. players \in Seq(Clients) /\ Len(players) \in 0 .. 3 /\ SeatedOnce
  BY DEF TableInv, RoomTyped
<1>0. (Len(players) = 3 => FALSE) => Len(players) < MAX_PLAYERS
  <2>1. PICK n \in 0 .. 3 : n = Len(players)
    BY <1>1
  <2>2. (n = 3 => FALSE) => n < 3
    OBVIOUS
  <2> QED  BY <2>1, <2>2
<1> SUFFICES ASSUME Len(players) = 3 PROVE FALSE
  BY <1>0
<1>2. DOMAIN players = 1 .. 3
  BY <1>1
<1>3. PICK x, y, z : x = players[1] /\ y = players[2] /\ z = players[3]
  OBVIOUS
<1>4. /\ x \in Clients /\ y \in Clients /\ z \in Clients
      /\ x # y /\ x # z /\ y # z
  BY <1>1, <1>2, <1>3 DEF SeatedOnce
<1>5. c # x /\ c # y /\ c # z
  BY <1>2, <1>3 DEF Seated
<1>6. /\ IsFiniteSet({x}) /\ Cardinality({x}) = 1
      /\ IsFiniteSet({x, y}) /\ Cardinality({x, y}) = 2
      /\ IsFiniteSet({x, y, z}) /\ Cardinality({x, y, z}) = 3
      /\ IsFiniteSet({x, y, z, c}) /\ Cardinality({x, y, z, c}) = 4
  <2>1. IsFiniteSet({x}) /\ Cardinality({x}) = 1
    BY FS_Singleton
  <2>2. IsFiniteSet({x, y}) /\ Cardinality({x, y}) = 2
    <3>1. {x} \cup {y} = {x, y} /\ y \notin {x}
      BY <1>4
    <3>2. IsFiniteSet({x} \cup {y}) /\ Cardinality({x} \cup {y}) = Cardinality({x}) + 1
      BY <2>1, <3>1, FS_AddElement
    <3> QED  BY <2>1, <3>1, <3>2
  <2>3. IsFiniteSet({x, y, z}) /\ Cardinality({x, y, z}) = 3
    <3>1. {x, y} \cup {z} = {x, y, z} /\ z \notin {x, y}
      BY <1>4
    <3>2. IsFiniteSet({x, y} \cup {z}) /\ Cardinality({x, y} \cup {z}) = Cardinality({x, y}) + 1
      BY <2>2, <3>1, FS_AddElement
    <3> QED  BY <2>2, <3>1, <3>2
  <2>4. IsFiniteSet({x, y, z, c}) /\ Cardinality({x, y, z, c}) = 4
    <3>1. {x, y, z} \cup {c} = {x, y, z, c} /\ c \notin {x, y, z}
      BY <1>5
    <3>2. IsFiniteSet({x, y, z} \cup {c}) /\ Cardinality({x, y, z} \cup {c}) = Cardinality({x, y, z}) + 1
      BY <2>3, <3>1, FS_AddElement
    <3> QED  BY <2>3, <3>1, <3>2
  <2> QED  BY <2>1, <2>2, <2>3, <2>4
<1>7. Cardinality({x, y, z, c}) =< Cardinality(Clients) /\ Cardinality(Clients) \in Nat
  <2>1. {x, y, z, c} \subseteq Clients /\ IsFiniteSet(Clients)
    BY <1>4, FewAssumption
  <2> QED  BY <2>1, FS_Subset, FS_CardinalityType
<1> QED  BY <1>6, <1>7, FewAssumption

Came(c) ==
  /\ asked = "seating" /\ it = NoIt /\ it' = NoIt /\ ready = {} /\ ready' = {}
  /\ players \in Seq(Clients) /\ players' = Append(players, c) /\ Seated' = Seated \cup {c}
  /\ asked' = "ready" <=> Len(players') = 3

\* What waits of the others.
LEMMA OtherWaits ==
  ASSUME NEW c, Came(c), NEW d, d # c, NEW q, NEW r, Waiting(d, q, r), NEW s
  PROVE  /\ Waiting(d, q, s)' /\ Caught(d, s)' /\ Posted(q) = {}
         /\ Here(d, q)' <=> Here(d, q)
<1>1. \A m : ~ Fits(d, m)
  BY DEF Fits, Came, InPlay
<1>2. NoIt' = NoIt
  BY DEF NoIt
<1>3. \A i \in 1 .. Len(q) : q[i].action \in Answers => q[i].old = TRUE
  BY <1>1 DEF Waiting
<1>4. Posted(q) = {}
  BY <1>3 DEF Posted, Fresh
<1>5. Here(d, q)' <=> Here(d, q)
  BY DEF Here, Came
<1>6. Caught(d, s)'
  BY <1>2 DEF Caught, Came
<1>7. d \in Seated' <=> d \in Seated
  BY DEF Came
<1>8. Waiting(d, q, s)'
  BY <1>2, <1>3, <1>7 DEF Waiting, Came
<1> QED  BY <1>4, <1>5, <1>6, <1>8

\* Another one is told.
LEMMA OtherTold ==
  ASSUME NEW c \in Clients, Came(c), NEW d, d # c, NEW q, NEW k, NEW r, CInv(d, q, k, r),
         NEW a, a = [action |-> "new_player", data |-> c], NEW s,
         d \in Seated => s = Append(r, a), d \notin Seated => s = r
  PROVE  CInv(d, q, k, s)'
<1>1. Waiting(d, q, r)
  BY DEF CInv
<1>2. /\ Waiting(d, q, s)' /\ Caught(d, s)' /\ Posted(q) = {}
      /\ Here(d, q)' <=> Here(d, q)
  BY ONLY <1>1, Came(c), d # c, OtherWaits
<1>3. Sane(a) /\ a.action = "new_player" /\ a.data = c
  BY DEF Sane, ClientActions
<1>4. Here(d, q) => \E f : Ends(k, s, f) /\ Shown(d, {}, f)'
  <2> SUFFICES ASSUME Here(d, q) PROVE \E f : Ends(k, s, f) /\ Shown(d, {}, f)'
    OBVIOUS
  <2>1. d \in Seated
    BY DEF Here
  <2>2. PICK e : Ends(k, r, e) /\ Shown(d, {}, e)
    BY <1>2 DEF CInv
  <2> DEFINE f == Read(e, a)
  <2>3. Kept(e) /\ e.game = players /\ e.begun = FALSE /\ AtRest(d, {}, e)
    BY <2>2, EndsKept DEF Shown, Came
  <2>4. e.game # NoGame
    BY <2>3, NoGameIs DEF Came
  <2>5. /\ Kept(f) /\ f.game = Append(e.game, a.data) /\ f.begun = e.begun
        /\ f.windows = AskReady(e.windows, f.game)
        /\ f.bids = e.bids /\ f.drawn = e.drawn /\ f.available = e.available
        /\ f.cards = e.cards /\ f.gone = e.gone
    BY <1>3, <2>3, <2>4, ReadNewPlayerIs
  <2>6. Mute(e)
    BY <2>3 DEF AtRest, Mute, Came
  <2> HIDE DEF f
  <2>7. f.game = players' /\ f.drawn = {} /\ f.bids = {}
    BY <1>3, <2>3, <2>5 DEF Came, AtRest
  <2>8. /\ "bids" \notin f.windows
        /\ "ready" \in f.windows <=> Len(players') = 3
    BY <2>3, <2>5, <2>7 DEF AskReady, AtRest, Came
  <2>9. Calm(f)
    BY <2>7, <2>8 DEF Calm
  <2>10. Ends(k, s, f)
    BY <1>3, <2>1, <2>2, <2>5, <2>6, <2>9, EndsAppend DEF f
  <2>11. AtRest(d, {}, f)'
    BY <2>7, <2>8 DEF AtRest, Came
  <2>12. NoIt' = NoIt
    BY DEF NoIt
  <2>13. Shown(d, {}, f)'
    BY <2>3, <2>5, <2>7, <2>11, <2>12 DEF Shown, Came
  <2> QED  BY <2>10, <2>13
<1>5. ~ Here(d, q) => Off(k, s)
  <2> SUFFICES ASSUME ~ Here(d, q) PROVE Off(k, s)
    OBVIOUS
  <2>1. Off(k, r)
    BY DEF CInv
  <2>2. Off(k, Append(r, a))
    BY <1>3, <2>1, OffAppend
  <2> QED  BY <2>1, <2>2
<1> QED  BY <1>2, <1>4, <1>5 DEF CInv

\* The one that comes.
LEMMA ComerTold ==
  ASSUME NEW c \in Clients, Came(c), players' \in Seq(Clients), NEW q, NEW k, NEW r, CInv(c, q, k, r),
         c \notin Seated, NEW a, a = [action |-> "add", data |-> players'],
         NEW s, s = Append(r, a), NEW t, t = << >>
  PROVE  CInv(c, t, k, s)'
<1>1. Off(k, r)
  BY DEF CInv, Here
<1>2. Mail(k, r) /\ Kept(k) /\ k.game = NoGame /\ ~ Has(r, "add")
  BY <1>1 DEF Off
<1>3. Ends(k, r, k)
  BY <1>2, EndsOff
<1>4. Mute(k) /\ k.windows = {} /\ k.bids = {} /\ k.drawn = {}
  BY <1>2 DEF Kept, Mute
<1>5. Sane(a) /\ a.action = "add" /\ a.data = players'
  BY DEF Sane, ClientActions
<1> DEFINE f == Read(k, a)
<1>6. /\ Kept(f) /\ f.game = a.data /\ f.begun = FALSE
      /\ f.windows = AskReady(k.windows, a.data)
      /\ f.bids = k.bids /\ f.drawn = k.drawn
  BY <1>2, <1>5, ReadAddIs
<1> HIDE DEF f
<1>7. f.windows \subseteq {"ready"} /\ ("ready" \in f.windows => Len(players') = 3)
  BY <1>4, <1>5, <1>6 DEF AskReady
<1>8. Calm(f)
  BY <1>7 DEF Calm
<1>9. Ends(k, s, f)
  BY <1>2, <1>3, <1>4, <1>5, <1>6, <1>8, EndsAppend DEF f
<1>10. NoIt' = NoIt
  BY DEF NoIt
<1>11. AtRest(c, {}, f)'
  BY <1>4, <1>6, <1>7 DEF AtRest, Came
<1>12. Shown(c, {}, f)'
  BY <1>5, <1>6, <1>10, <1>11 DEF Shown, Came
<1>13. IsSeq(t) /\ Len(t) = 0 /\ ~ Has(t, "leave") /\ c \in Seated'
  BY EmptyIs DEF Came
<1>14. Waiting(c, t, s)' /\ Here(c, t)' /\ Posted(t) = {}
  BY <1>13 DEF Waiting, Here, Posted
<1>15. Caught(c, s)'
  BY <1>10 DEF Caught, Came
<1> QED  BY <1>9, <1>12, <1>14, <1>15 DEF CInv

\* A player comes.
LEMMA AddStep ==
  ASSUME IInv, NEW c \in Clients, toServer[c] # << >>, Head(toServer[c]).action = "add", TakeAdd(c),
         toServer' = [toServer EXCEPT ![c] = Tail(@)], client' = client
  PROVE  IInv' /\ TableNext
<1>1. RoomInv /\ DOMAIN toServer = Clients /\ DOMAIN toClient = Clients
  BY DEF IInv, ClientsInv
<1>2. TableInv
  BY <1>1, TableFacts DEF RoomInv
<1>3. c \notin Seated /\ Tail(toServer[c]) = << >>
  <2>1. PICK q, k, r : q = toServer[c] /\ CInv(c, q, k, r)
    BY DEF IInv, ClientsInv
  <2>2. PICK m : m = Head(q)
    OBVIOUS
  <2>3. Waiting(c, q, r) /\ q # << >> /\ m.action = "add"
    BY <2>1, <2>2 DEF CInv
  <2>4. c \notin Seated /\ Tail(q) = << >>
    BY <2>2, <2>3, WaitingHead
  <2> QED  BY <2>1, <2>4
<1>4. Joins(c) /\ deck' = deck
  BY <1>2, <1>3, SeatFree DEF TakeAdd, Joins
<1>5. /\ RoomInv'
      /\ asked = "seating" /\ it = NoIt /\ it' = NoIt /\ ready = {} /\ ready' = {}
      /\ players' = Append(players, c) /\ Seated' = Seated \cup {c}
      /\ asked' = "ready" <=> Len(players') = 3
  BY <1>1, <1>4, JoinsRoom
<1>6. Came(c) /\ players' \in Seq(Clients)
  BY <1>2, <1>5 DEF Came, TableInv, RoomTyped
<1>7. PICK a, b : a = [action |-> "add", data |-> players'] /\ b = [action |-> "new_player", data |-> c]
  OBVIOUS
<1>8. toClient' = [d \in Clients |->
                     toClient[d] \o (IF d = c THEN <<a>>
                                     ELSE IF d \in Seated THEN <<b>> ELSE << >>)]
  BY <1>7 DEF TakeAdd, Tell
<1>9. ASSUME NEW d \in Clients, NEW q, NEW k, NEW r,
              q = toServer[d], k = client[d], r = toClient[d], CInv(d, q, k, r)
       PROVE  \E t, s : t = toServer'[d] /\ s = toClient'[d] /\ CInv(d, t, k, s)'
  <2>1. IsSeq(r)
    BY <1>9, EndsKept DEF CInv, Off, Mail
  <2>2. PICK t, s : t = toServer'[d] /\ s = toClient'[d]
    OBVIOUS
  <2>3. CASE d = c
    <3>1. t = << >>
      BY <1>1, <1>3, <2>2, <2>3
    <3>2. s = r \o <<a>>
      BY <1>8, <1>9, <2>2, <2>3
    <3>3. s = Append(r, a)
      BY <2>1, <3>2, ConcatIs
    <3>4. CInv(d, t, k, s)'
      BY <1>3, <1>6, <1>7, <1>9, <2>3, <3>1, <3>3, ComerTold
    <3> QED  BY <2>2, <3>4
  <2>4. CASE d # c
    <3>1. t = q
      BY <1>1, <1>9, <2>2, <2>4
    <3>2. d \in Seated => s = Append(r, b)
      <4> SUFFICES ASSUME d \in Seated PROVE s = Append(r, b)
        OBVIOUS
      <4>1. s = r \o <<b>>
        BY <1>8, <1>9, <2>2, <2>4
      <4> QED  BY <2>1, <4>1, ConcatIs
    <3>3. d \notin Seated => s = r
      <4> SUFFICES ASSUME d \notin Seated PROVE s = r
        OBVIOUS
      <4>1. s = r \o << >>
        BY <1>8, <1>9, <2>2, <2>4
      <4> QED  BY <2>1, <4>1, EmptyIs
    <3>4. CInv(d, q, k, s)'
      BY <1>6, <1>7, <1>9, <2>4, <3>2, <3>3, OtherTold
    <3> QED  BY <2>2, <3>1, <3>4
  <2> QED  BY <2>3, <2>4
<1>10. DOMAIN toServer' = Clients /\ DOMAIN toClient' = Clients
  BY <1>1, <1>8
<1>11. IInv'
  BY <1>5, <1>9, <1>10, AllClients
<1> QED  BY <1>4, <1>11 DEF TableNext

-----------------------------------------------------------------------------
(***************************************************************************)
(* The invariant holds at first and every step keeps it.                   *)
(***************************************************************************)
LEMMA NewClientIs == Kept(NewClient) /\ NewClient.game = NoGame
<1>1. << >> \in Seq(Deck) /\ DOMAIN << >> = {}
  BY EmptyCards
<1>2. NewClient \in States
  BY <1>1 DEF NewClient, States
<1> QED  BY <1>2 DEF NewClient, Kept

LEMMA InitRoom == Init => RoomInv
<1> SUFFICES ASSUME Init PROVE RoomInv
  OBVIOUS
<1>1. /\ stage = "ADDING" /\ players = << >> /\ ready = {} /\ hand = NoCards
      /\ it = NoIt /\ asked = "seating" /\ deck = [c \in Clients |-> << >>]
  BY DEF Init, RoomInit
<1>2. TP!AuctionInv
  <2>1. TP!Init
    BY TableInit
  <2>2. TP!Init => TP!AuctionInv
    BY TP!InitInv, TableAssumptions, ClientsAssumption, DeckAssumption, HandAssumption,
       WholeDeckAssumption, CapsAssumption, ShuffleAssumption, BidsAssumption
  <2> QED  BY <2>1, <2>2
<1>3. asked \notin InRound
  BY <1>1 DEF InRound, InPlay
<1>4. PhaseInv
  <2>1. Len(players) # 3
    BY <1>1, EmptyIs
  <2> QED  BY <1>1, <1>3, <2>1 DEF PhaseInv
<1>5. HandsFit
  BY <1>1 DEF HandsFit
<1>6. DeckFits
  <2>1. << >> \in Seq(Deck) /\ DOMAIN << >> = {}
    BY EmptyCards
  <2>2. Injective(<< >>) /\ ToSet(<< >>) = {}
    BY <2>1 DEF Injective, ToSet
  <2>3. hand = [c \in Clients |-> {}]
    BY <1>1 DEF NoCards
  <2> QED  BY <1>1, <2>1, <2>2, <2>3 DEF DeckFits
<1> QED  BY <1>2, <1>4, <1>5, <1>6 DEF RoomInv

LEMMA InitIInv == Init => IInv
<1> SUFFICES ASSUME Init PROVE IInv
  OBVIOUS
<1>1. /\ players = << >> /\ toServer = [c \in Clients |-> << >>]
      /\ toClient = [c \in Clients |-> << >>] /\ client = [c \in Clients |-> NewClient]
  BY DEF Init, RoomInit
<1>2. IsSeq(<< >>) /\ Len(<< >>) = 0 /\ \A a : ~ Has(<< >>, a)
  BY EmptyIs
<1>3. Seated = {}
  <2>1. DOMAIN << >> = {}
    BY EmptyCards
  <2> QED  BY <1>1, <2>1 DEF Seated
<1>4. Off(NewClient, << >>)
  BY <1>2, NewClientIs DEF Off, Mail
<1>5. ASSUME NEW c \in Clients PROVE CInv(c, << >>, NewClient, << >>)
  BY <1>2, <1>3, <1>4 DEF CInv, Waiting, Caught, Here
<1>6. \A c \in Clients :
        \E q, k, r : q = toServer[c] /\ k = client[c] /\ r = toClient[c] /\ CInv(c, q, k, r)
  <2> TAKE c \in Clients
  <2>1. toServer[c] = << >> /\ client[c] = NewClient /\ toClient[c] = << >>
    BY <1>1
  <2> QED  BY <1>5, <2>1
<1>7. ClientsInv
  BY <1>1, <1>6 DEF ClientsInv
<1> QED  BY <1>7, InitRoom DEF IInv

\* The room takes a message: an outdated answer, or the table makes a step.
LEMMA TakeStep ==
  ASSUME IInv, NEW c \in Clients, Take(c)
  PROVE  IInv' /\ (TableNext \/ UNCHANGED tableVars)
<1>1. PICK m, rest : m = Head(toServer[c]) /\ rest = [toServer EXCEPT ![c] = Tail(@)]
  OBVIOUS
<1>2. /\ toServer[c] # << >> /\ client' = client
      /\ \/ Outdated(m) /\ TakeOutdated /\ toServer' = rest
         \/ /\ ~ Outdated(m) /\ TakeMessage(c, m)
            /\ toServer' = IF m.action = "leave" THEN [d \in Clients |-> Aged(rest[d])] ELSE rest
  BY <1>1 DEF Take
<1>3. CASE Outdated(m) /\ TakeOutdated /\ toServer' = rest
  <2>1. IInv'
    BY <1>1, <1>2, <1>3, OutdatedStep
  <2>2. UNCHANGED tableVars
    BY <1>3 DEF TakeOutdated, tableVars
  <2> QED  BY <2>1, <2>2
<1>4. CASE /\ ~ Outdated(m) /\ TakeMessage(c, m)
           /\ toServer' = IF m.action = "leave" THEN [d \in Clients |-> Aged(rest[d])] ELSE rest
  <2>1. PICK q, k, r : q = toServer[c] /\ CInv(c, q, k, r)
    BY DEF IInv, ClientsInv
  <2>2. Waiting(c, q, r) /\ q # << >> /\ m = Head(q)
    BY <1>1, <1>2, <2>1 DEF CInv
  <2>3. m.action \in Answers => /\ c \in Seated /\ m.old \in BOOLEAN
                                /\ m.old = FALSE => Fits(c, m)
    BY <2>2, WaitingHead
  <2>4. m.action \in Answers => c \in Seated /\ Fits(c, m) /\ Fresh(m)
    BY <1>4, <2>3 DEF Outdated, Fresh
  <2>5. m.action # "leave" => toServer' = rest
    BY <1>4
  <2>6. CASE m.action = "add" /\ TakeAdd(c)
    <3>1. toServer' = [toServer EXCEPT ![c] = Tail(@)] /\ m.action # "leave"
      BY <1>1, <2>5, <2>6
    <3>2. Head(toServer[c]).action = "add"
      BY <1>1, <2>6
    <3> QED  BY <1>2, <2>6, <3>1, <3>2, AddStep
  <2>7. CASE m.action = "leave" /\ TakeLeave(c)
    <3>1. Outdates(rest)
      BY <1>4, <2>7 DEF Outdates
    <3>2. Head(toServer[c]).action = "leave"
      BY <1>1, <2>7
    <3>3. /\ toServer[c] # << >> /\ TakeLeave(c) /\ client' = client
          /\ rest = [toServer EXCEPT ![c] = Tail(@)]
      BY <1>1, <1>2, <2>7
    <3> QED  BY <3>1, <3>2, <3>3, LeaveStep
  <2>8. CASE m.action = "ready" /\ TakeReady(c)
    <3>1. c \in Seated /\ Fits(c, m) /\ Fresh(m) /\ toServer' = rest
      BY <2>4, <2>5, <2>8 DEF Answers
    <3> QED  BY <1>1, <1>2, <2>8, <3>1, ReadyStep
  <2>9. CASE m.action = "bid" /\ TakeBid(c, m.data)
    <3>1. Fits(c, m) /\ Fresh(m) /\ toServer' = rest
      BY <2>4, <2>5, <2>9 DEF Answers
    <3> QED  BY <1>1, <1>2, <2>9, <3>1, BidStep
  <2>10. CASE m.action = "deal" /\ TakeDeal(c, m.data)
    <3>1. Fits(c, m) /\ Fresh(m) /\ toServer' = rest
      BY <2>4, <2>5, <2>10 DEF Answers
    <3> QED  BY <1>1, <1>2, <2>10, <3>1, DealStep
  <2>11. CASE m.action = "play" /\ TakePlay(c, m.data)
    <3>1. Fits(c, m) /\ Fresh(m) /\ toServer' = rest
      BY <2>4, <2>5, <2>11 DEF Answers
    <3> QED  BY <1>1, <1>2, <2>11, <3>1, PlayStep
  <2> QED  BY <1>4, <2>6, <2>7, <2>8, <2>9, <2>10, <2>11 DEF TakeMessage
<1> QED  BY <1>2, <1>3, <1>4

LEMMA NextIInv ==
  ASSUME IInv, [Next]_vars
  PROVE  IInv' /\ (TableNext \/ UNCHANGED tableVars)
<1>1. CASE UNCHANGED vars
  <2>1. UNCHANGED <<roomVars, deck, asked>> /\ UNCHANGED tableVars
        /\ toServer' = toServer /\ toClient' = toClient /\ client' = client
    BY <1>1 DEF vars, netVars, tableVars
  <2>2. RoomInv'
    BY <2>1, RoomStill DEF IInv
  <2>3. ASSUME NEW d \in Clients, NEW q, NEW k, NEW r,
                q = toServer[d], k = client[d], r = toClient[d], CInv(d, q, k, r)
         PROVE  \E t, s : t = toServer'[d] /\ s = toClient'[d] /\ CInv(d, t, k, s)'
    <3>1. CInv(d, q, k, r)'
      BY <2>1, <2>3, SameQueue
    <3>2. q = toServer'[d] /\ r = toClient'[d]
      BY <2>1, <2>3
    <3> QED  BY <3>1, <3>2
  <2>4. DOMAIN toServer' = Clients /\ DOMAIN toClient' = Clients
    BY <2>1 DEF IInv, ClientsInv
  <2> QED  BY <2>1, <2>2, <2>3, <2>4, AllClients
<1>2. ASSUME NEW c \in Clients, Take(c)
      PROVE  IInv' /\ (TableNext \/ UNCHANGED tableVars)
  BY <1>2, TakeStep
<1>3. ASSUME NEW c \in Clients, Receive(c)
      PROVE  IInv' /\ UNCHANGED tableVars
  BY <1>3, ReceiveStep DEF Receive, tableVars
<1>4. ASSUME NEW c \in Clients, User(c)
      PROVE  IInv' /\ UNCHANGED tableVars
  <2>1. IInv'
    BY <1>4, UserStep
  <2>2. UNCHANGED tableVars
    BY <1>4 DEF User, RequestRoom, SendReady, SendBid, DismissEnd, UseCard, LeaveRoom, Reply, Send,
                GiveAwayCards, tableVars
  <2> QED  BY <2>1, <2>2
<1> QED  BY <1>1, <1>2, <1>3, <1>4 DEF Next

(***************************************************************************)
(* The theorems.                                                           *)
(***************************************************************************)

(***************************************************************************)
(* What the room keeps and what is in the queues of its clients and on their*)
(* screens fit together, whatever crosses: the inductive invariant of which*)
(* the theorems below are consequences.                                    *)
(***************************************************************************)
THEOREM ConversationInvariance == Spec => []IInv
<1>1. Init => IInv
  BY InitIInv
<1>2. IInv /\ [Next]_vars => IInv'
  BY NextIInv
<1> QED  BY <1>1, <1>2, PTL DEF Spec

(***************************************************************************)
(* A room and its clients are a table: whatever crosses on the way, every  *)
(* step is one of a table whose players answer what they were asked last.  *)
(***************************************************************************)
THEOREM TableImplemented == Spec => ImplementsTable
<1>1. Init => TableView!Init
  BY TableInit
<1>2. IInv /\ [Next]_vars => [TableView!Next]_TableView!vars
  BY NextIInv, ViewStep, TableStill
<1> QED  BY <1>1, <1>2, ConversationInvariance, PTL DEF Spec, ImplementsTable, TableView!Spec

\* What is kept for a client, in its queues and on its screen.
AtEnd(c, q, e) ==
  \E k, r : /\ k = client[c] /\ r = toClient[c] /\ CInv(c, q, k, r)
            /\ AfterReading(c) = e /\ Kept(k) /\ Kept(e)
            /\ Here(c, q) => Shown(c, Posted(q), e)
            /\ ~ Here(c, q) => e.bids = {} /\ e.drawn = {}

LEMMA EndExists ==
  ASSUME IInv, NEW c \in Clients
  PROVE  \E e, q : q = toServer[c] /\ AtEnd(c, q, e)
<1>1. PICK q, k, r : q = toServer[c] /\ k = client[c] /\ r = toClient[c] /\ CInv(c, q, k, r)
  BY DEF IInv, ClientsInv
<1>2. CASE Here(c, q)
  <2>1. PICK e : Ends(k, r, e) /\ Shown(c, Posted(q), e)
    BY <1>1, <1>2 DEF CInv
  <2>2. Kept(k) /\ Kept(e) /\ IsSeq(r)
    BY <2>1, EndsKept DEF Mail
  <2>3. PICK v : Reading(k, r, v) /\ v[Len(r)] = e
    BY <2>1 DEF Ends
  <2>4. AfterReading(c) = e
    BY <1>1, <2>2, <2>3, ReadingEnds
  <2>5. AtEnd(c, q, e)
    BY <1>1, <1>2, <2>1, <2>2, <2>4 DEF AtEnd
  <2> QED  BY <1>1, <2>5
<1>3. CASE ~ Here(c, q)
  <2>1. Mail(k, r) /\ Kept(k) /\ k.game = NoGame /\ ~ Has(r, "add")
    BY <1>1, <1>3 DEF CInv, Off
  <2>2. IsSeq(r) /\ Len(r) \in Nat
    BY <2>1, EmptyIs DEF Mail
  <2>3. PICK v : Reading(k, r, v)
    BY <2>2, ReadingExists
  <2>4. v[Len(r)] = k
    <3>1. Len(r) \in 0 .. Len(r)
      BY <2>2
    <3> QED  BY <2>1, <2>3, <3>1, OffReads
  <2>5. AfterReading(c) = k
    BY <1>1, <2>2, <2>3, <2>4, ReadingEnds
  <2>6. k.bids = {} /\ k.drawn = {}
    BY <2>1 DEF Kept
  <2>7. AtEnd(c, q, k)
    BY <1>1, <1>3, <2>1, <2>5, <2>6 DEF AtEnd
  <2> QED  BY <1>1, <2>7
<1> QED  BY <1>2, <1>3

(***************************************************************************)
(* Type correctness: what a client keeps of a card is about a card it has, *)
(* and deck_ is the hand of the player in an order.                        *)
(***************************************************************************)
THEOREM ConversationTyping == Spec => []TypeOK
<1>1. IInv => TypeOK
  <2> SUFFICES ASSUME IInv PROVE TypeOK
    OBVIOUS
  <2>1. asked \in Questions
    BY TableFacts DEF IInv, RoomInv, TableInv, RoomTyped
  <2>2. ASSUME NEW c \in Clients
        PROVE  /\ deck[c] \in Seq(Deck) /\ ToSet(deck[c]) = hand[c]
               /\ client[c].cards \in Seq(Deck)
               /\ client[c].gone \cup client[c].available \cup client[c].drawn
                    \subseteq DOMAIN client[c].cards
               /\ client[c].windows \subseteq {"ready", "bids", "win"}
               /\ client[c].bids \subseteq Bids \cup {PASS}
               /\ client[c].game \in Seq(Clients) \cup {NoGame}
    <3>1. deck[c] \in Seq(Deck) /\ ToSet(deck[c]) = hand[c]
      BY DEF IInv, RoomInv, DeckFits
    <3>2. PICK e, q : q = toServer[c] /\ AtEnd(c, q, e)
      BY EndExists
    <3>3. PICK k : k = client[c] /\ Kept(k)
      BY <3>2 DEF AtEnd
    <3>4. /\ k.cards \in Seq(Deck) /\ k.gone \cup k.available \cup k.drawn \subseteq DOMAIN k.cards
          /\ k.windows \subseteq {"ready", "bids", "win"} /\ k.bids \subseteq Bids \cup {PASS}
          /\ k.game \in Seq(Clients) \cup {NoGame}
      BY <3>3 DEF Kept, States
    <3> QED  BY <3>1, <3>3, <3>4
  <2> QED  BY <2>1, <2>2 DEF TypeOK
<1> QED  BY <1>1, ConversationInvariance, PTL

-----------------------------------------------------------------------------
(***************************************************************************)
(* A table where a game is on and nobody is about to leave.                *)
(***************************************************************************)
LEMMA AtTheTable ==
  ASSUME IInv, Undisturbed, NEW c \in Clients, NEW q, NEW e, q = toServer[c], AtEnd(c, q, e)
  PROVE  /\ IsSeq(q) /\ DOMAIN q = 1 .. Len(q)
         /\ Here(c, q) <=> c \in Seated
         /\ c \in Seated => InGame(c, Posted(q), e)
         /\ \A i \in 1 .. Len(q) : q[i].action \in Answers => Fresh(q[i]) /\ Fits(c, q[i]) /\ c \in Seated
         /\ Posted(q) # {} => \E i \in DOMAIN q : q[i] \in Posted(q) /\ q[i].action \in Answers
<1>1. it # NoIt /\ ~ Sent(c, {"leave"})
  BY DEF Undisturbed
<1>2. PICK k, r : /\ CInv(c, q, k, r)
                  /\ Here(c, q) => Shown(c, Posted(q), e)
  BY DEF AtEnd
<1>3. IsSeq(q) /\ Waiting(c, q, r)
  BY <1>2 DEF CInv, Waiting
<1>4. DOMAIN q = 1 .. Len(q)
  <2>1. PICK S : q \in Seq(S)
    BY <1>3 DEF IsSeq
  <2> QED  BY <2>1, LenProperties
<1>5. ~ Has(q, "leave")
  BY <1>1, <1>4 DEF Has, Sent
<1>6. Here(c, q) <=> c \in Seated
  BY <1>5 DEF Here
<1>7. c \in Seated => InGame(c, Posted(q), e)
  BY <1>1, <1>2, <1>6 DEF Shown
<1>8. \A i \in 1 .. Len(q) : q[i].action \in Answers => Fresh(q[i]) /\ Fits(c, q[i]) /\ c \in Seated
  BY <1>1, <1>3 DEF Waiting, Fresh
<1>9. Posted(q) # {} => \E i \in DOMAIN q : q[i] \in Posted(q) /\ q[i].action \in Answers
  BY <1>4 DEF Posted, Fresh
<1> QED  BY <1>3, <1>4, <1>6, <1>7, <1>8, <1>9

LEMMA AskedInRound ==
  ASSUME RoomInv, it # NoIt
  PROVE  asked \in InRound \/ asked = "none"
<1>1. asked \in Questions
  BY TableFacts DEF RoomInv, TableInv, RoomTyped
<1> QED  BY <1>1 DEF RoomInv, PhaseInv, InRound, InPlay, Questions

\* Whom the stock went to has more cards than the one it may have clicked.
LEMMA ManyCards ==
  ASSUME RoomInv, asked = "give", NEW c, c = it.CURRENT, c \in Clients, NEW i
  PROVE  ~ (DOMAIN deck[c] \subseteq {i})
<1>1. c = it.HIGHEST /\ HandSize \in Nat \ {0}
  <2>1. asked \in InRound
    BY DEF InRound
  <2> QED  BY <2>1, RoundFacts, HandAssumption
<1>2. Size(hand[c], HandSize + 3)
  BY <1>1 DEF RoomInv, HandsFit
<1>3. deck[c] \in Seq(Deck) /\ Injective(deck[c]) /\ ToSet(deck[c]) = hand[c]
  BY DEF RoomInv, DeckFits
<1>4. Len(deck[c]) = HandSize + 3
  BY <1>2, <1>3, OrderLen
<1>5. DOMAIN deck[c] = 1 .. HandSize + 3
  BY <1>3, <1>4, SeqDomain
<1>6. 1 \in DOMAIN deck[c] /\ 2 \in DOMAIN deck[c]
  BY <1>1, <1>5
<1> QED  BY <1>6

(***************************************************************************)
(* An index means the same card to a client and to the room, and the cards *)
(* a client shows are those the room thinks unused.                        *)
(***************************************************************************)
THEOREM HandsShownAgree == Spec => []CardsAgree
<1>1. IInv => CardsAgree
  <2> SUFFICES ASSUME IInv, Undisturbed, NEW c \in Seated, NEW k, k = AfterReading(c)
               PROVE  /\ k.cards = deck[c]
                      /\ IndicesOf(c, used[c]) \subseteq k.gone
                      /\ k.gone # IndicesOf(c, used[c]) => k.available # {} \/ Sent(c, {"deal", "play"})
    BY DEF CardsAgree
  <2>1. RoomInv /\ it # NoIt
    BY DEF IInv, Undisturbed
  <2>2. c \in Clients
    BY <2>1, TableFacts DEF RoomInv, TableInv, RoomTyped, Seated
  <2>3. PICK e, q : q = toServer[c] /\ AtEnd(c, q, e)
    BY <2>2, EndExists
  <2>4. e = k
    BY <2>3 DEF AtEnd
  <2>5. /\ DOMAIN q = 1 .. Len(q) /\ InGame(c, Posted(q), k)
        /\ Posted(q) # {} => \E i \in DOMAIN q : q[i] \in Posted(q) /\ q[i].action \in Answers
    BY <2>2, <2>3, <2>4, AtTheTable
  <2>6. IndicesOf(c, used[c]) = Spent(c)
    BY DEF IndicesOf, Spent
  <2>7. k.cards = deck[c]
    BY <2>5 DEF InGame
  <2>8. CASE ~ Turn(c)
    BY <2>5, <2>6, <2>7, <2>8 DEF InGame, Quiet
  <2>9. CASE Turn(c) /\ Posted(q) # {}
    <3>1. PICK i \in DOMAIN q : q[i] \in Posted(q) /\ q[i].action \in Answers
      BY <2>5, <2>9
    <3>2. k.gone = Spent(c) \cup Given(q[i])
      BY <2>5, <2>9, <3>1 DEF InGame, Quiet
    <3>3. Given(q[i]) # {} => q[i].action \in {"deal", "play"}
      BY DEF Given
    <3>4. q[i].action \in {"deal", "play"} => Sent(c, {"deal", "play"})
      BY <2>3, <3>1 DEF Sent
    <3> QED  BY <2>6, <2>7, <3>2, <3>3, <3>4
  <2>10. CASE Turn(c) /\ Posted(q) = {}
    <3>1. Offered(c, k)
      BY <2>5, <2>10 DEF InGame
    <3>2. CASE asked = "give"
      <4>1. PICK i : k.gone \subseteq {i} /\ k.available = DOMAIN k.cards \ k.gone
        BY <3>1, <3>2 DEF Offered, InPlay
      <4>2. c = it.CURRENT
        BY <2>10 DEF Turn
      <4>3. ~ (DOMAIN deck[c] \subseteq {i})
        BY <2>1, <2>2, <3>2, <4>2, ManyCards
      <4>4. k.available # {}
        BY <2>7, <4>1, <4>3
      <4>5. used[c] = {}
        BY <2>1, <3>2 DEF RoomInv, HandsFit
      <4>6. Spent(c) = {}
        BY <4>5 DEF Spent
      <4> QED  BY <2>6, <2>7, <4>4, <4>6
    <3>3. CASE asked # "give"
      <4>1. k.gone = Spent(c)
        BY <3>1, <3>3 DEF Offered
      <4> QED  BY <2>6, <2>7, <4>1
    <3> QED  BY <3>2, <3>3
  <2> QED  BY <2>8, <2>9, <2>10
<1> QED  BY <1>1, ConversationInvariance, PTL

-----------------------------------------------------------------------------
(***************************************************************************)
(* At a table that nobody leaves in the middle of a trick the question can *)
(* always be answered: a card can be played, a bid can be placed.          *)
(***************************************************************************)
Answerable == TP!BidIsCovered /\ TP!CardInv

LEMMA TableMoves == IInv /\ [Next]_vars => [TP!Next]_TP!vars
  BY NextIInv, TableStep, TableStill

LEMMA InitAnswerable == Init => Answerable
<1> SUFFICES ASSUME Init PROVE Answerable
  OBVIOUS
<1>1. TP!Init
  BY TableInit
<1>2. TP!Init => TP!CardInv
  BY TP!InitCards, TableAssumptions, ClientsAssumption, DeckAssumption, HandAssumption,
     WholeDeckAssumption, CapsAssumption, ShuffleAssumption, BidsAssumption
<1>3. asked = "seating"
  BY DEF Init
<1>4. TP!BidIsCovered
  BY <1>3 DEF TP!BidIsCovered, TP!Bargaining
<1> QED  BY <1>1, <1>2, <1>4 DEF Answerable

LEMMA NextAnswerable ==
  ASSUME "follow" \notin LeaveIn, IInv, Answerable, [Next]_vars
  PROVE  Answerable'
<1>1. TP!AuctionInv /\ [TP!Next]_TP!vars
  BY TableMoves DEF IInv, RoomInv
<1>2. "follow" \notin LeaveIn \cap Questions
  OBVIOUS
<1>3. TP!AuctionInv /\ TP!BidIsCovered /\ [TP!Next]_TP!vars => TP!BidIsCovered'
  BY TP!NextCovered, TableAssumptions, ClientsAssumption, DeckAssumption, HandAssumption,
     WholeDeckAssumption, CapsAssumption, ShuffleAssumption, BidsAssumption
<1>4. TP!AuctionInv /\ TP!CardInv /\ [TP!Next]_TP!vars => TP!CardInv'
  BY <1>2, TP!NextCards, TableAssumptions, ClientsAssumption, DeckAssumption, HandAssumption,
     WholeDeckAssumption, CapsAssumption, ShuffleAssumption, BidsAssumption
<1> QED  BY <1>1, <1>3, <1>4 DEF Answerable

LEMMA ValidExists ==
  ASSUME NEW u, u # {}, NEW t, NEW s
  PROVE  AllValidCards(u, t, s) # {}
  BY DEF AllValidCards

LEMMA CardPlayable ==
  ASSUME RoomInv, Answerable, asked \in InPlay
  PROVE  Playable(it.CURRENT) # {}
<1> DEFINE c == it.CURRENT
<1>1. asked \in TP!InPlay /\ asked \in TP!InRound
  BY DEF InPlay, TP!InPlay, TP!InRound, TP!InHand
<1>2. TP!AuctionInv /\ TP!CardInv
  BY DEF RoomInv, Answerable
<1>3. ~ TP!Played(c) /\ c \in Seated
  <2>1. ~ TP!Played(c) /\ c \in TP!Seated
    BY <1>1, <1>2, TP!WhoPlayed, TableAssumptions, ClientsAssumption, DeckAssumption,
       HandAssumption,
       WholeDeckAssumption, CapsAssumption, ShuffleAssumption, BidsAssumption
  <2> QED  BY <2>1, RoomIsTable
<1>4. TP!Held(c) = TP!MaxTurns - turn
  <2>1. TP!Held(c) = TP!MaxTurns - turn - (IF TP!Played(c) THEN 1 ELSE 0)
    BY <1>1, TP!HeldBefore, TableAssumptions, ClientsAssumption, DeckAssumption, HandAssumption,
       WholeDeckAssumption, CapsAssumption, ShuffleAssumption, BidsAssumption
  <2>2. turn \in Nat /\ TP!MaxTurns \in Nat
    BY <1>2, HandAssumption DEF TP!AuctionInv, TP!TypeOK, TP!MaxTurns
  <2> QED  BY <1>3, <2>1, <2>2
<1>5. TP!Held(c) # 0
  <2>1. turn \in Nat /\ TP!MaxTurns \in Nat
    BY <1>2, HandAssumption DEF TP!AuctionInv, TP!TypeOK, TP!MaxTurns
  <2>2. turn < TP!MaxTurns
    BY <1>1, <1>2 DEF TP!CardInv, TP!RoundClock
  <2> QED  BY <1>4, <2>1, <2>2
<1>6. Size(Unused(c), TP!Held(c))
  <2>1. TP!Size(TP!Unused(c), TP!Held(c))
    <3>1. c \in TP!Seated
      BY <1>3, RoomIsTable
    <3> QED  BY <1>1, <1>2, <3>1 DEF TP!CardInv, TP!HandsSized
  <2> QED  BY <2>1, SizeIs, RoomIsTable
<1>7. Unused(c) # {}
  BY <1>5, <1>6, FS_EmptySet DEF Size
<1>8. CardOffers # {}
  BY <1>7, ValidExists DEF CardOffers
<1>9. PICK card \in CardOffers : card \in hand[c]
  BY <1>8, OffersAreUnused DEF Unused
<1>10. c \in Clients
  BY <1>3, TableFacts DEF RoomInv, TableInv, RoomTyped, Seated
<1>11. ToSet(deck[c]) = hand[c]
  BY <1>10 DEF RoomInv, DeckFits
<1>12. PICK i \in DOMAIN deck[c] : deck[c][i] = card
  BY <1>9, <1>11 DEF ToSet
<1> QED  BY <1>9, <1>12 DEF Playable

LEMMA FinalPossible ==
  ASSUME RoomInv, Answerable, asked = "final"
  PROVE  FinalOffers # {}
<1>1. claim[it.HIGHEST] \in Bids /\ claim[it.HIGHEST] =< TP!MaxValue(hand[it.HIGHEST])
  BY DEF Answerable, TP!BidIsCovered, TP!Bargaining
<1>2. TP!MaxValue(hand[it.HIGHEST]) = MaxValue(hand[it.HIGHEST])
  BY ValuesAreTable
<1>3. claim[it.HIGHEST] \in Nat
  BY <1>1, BidsAssumption
<1>4. claim[it.HIGHEST] =< claim[it.HIGHEST]
  BY <1>3
<1> QED  BY <1>1, <1>2, <1>4 DEF FinalOffers

(***************************************************************************)
(* While a game is on, exactly the player whose turn it is has the         *)
(* question: on its way to him, on his screen, or his answer on its way.   *)
(***************************************************************************)
LEMMA QuestionIs ==
  ASSUME IInv, Answerable, Undisturbed, asked # "none", NEW c \in Clients
  PROVE  HasQuestion(c) <=> c = it.CURRENT
<1>1. RoomInv /\ it # NoIt
  BY DEF IInv, Undisturbed
<1>2. asked \in InRound
  BY <1>1, AskedInRound
<1>3. it.CURRENT \in Seated
  BY <1>1, <1>2, RoundFacts
<1>4. PICK e, q : q = toServer[c] /\ AtEnd(c, q, e)
  BY EndExists
<1>5. /\ IsSeq(q) /\ DOMAIN q = 1 .. Len(q)
      /\ Here(c, q) <=> c \in Seated
      /\ c \in Seated => InGame(c, Posted(q), e)
      /\ \A i \in 1 .. Len(q) : q[i].action \in Answers => Fresh(q[i]) /\ Fits(c, q[i]) /\ c \in Seated
      /\ Posted(q) # {} => \E i \in DOMAIN q : q[i] \in Posted(q) /\ q[i].action \in Answers
  BY <1>4, AtTheTable
<1>6. HasQuestion(c) <=> Sent(c, Answers) \/ e.bids # {} \/ e.available \cap e.drawn # {}
  BY <1>4 DEF HasQuestion, AtEnd
<1>7. CASE c # it.CURRENT
  <2>1. ~ Sent(c, Answers)
    <3> SUFFICES ASSUME NEW i \in DOMAIN q, q[i].action \in Answers PROVE FALSE
      BY <1>4 DEF Sent
    <3>1. Fits(c, q[i])
      BY <1>5
    <3> QED  BY <1>2, <1>7, <3>1 DEF Fits, InRound, InPlay
  <2>2. e.bids = {} /\ e.available \cap e.drawn = {}
    <3>1. CASE c \in Seated
      BY <1>5, <1>7, <3>1 DEF InGame, Quiet, Turn
    <3>2. CASE c \notin Seated
      BY <1>4, <1>5, <3>2 DEF AtEnd
    <3> QED  BY <3>1, <3>2
  <2> QED  BY <1>6, <1>7, <2>1, <2>2
<1>8. CASE c = it.CURRENT
  <2>1. Turn(c) /\ c \in Seated
    BY <1>2, <1>3, <1>8 DEF Turn
  <2>2. InGame(c, Posted(q), e)
    BY <1>5, <2>1
  <2>3. CASE Posted(q) # {}
    <3>1. Sent(c, Answers)
      BY <1>4, <1>5, <2>3 DEF Sent
    <3> QED  BY <1>6, <1>8, <3>1
  <2>4. CASE Posted(q) = {}
    <3>1. Offered(c, e) /\ e.cards = deck[c] /\ e.drawn = DOMAIN e.cards \ e.gone
      BY <2>1, <2>2, <2>4 DEF InGame
    <3>2. CASE asked = "bid"
      <4>1. e.bids = BidOffers
        BY <3>1, <3>2 DEF Offered, InPlay
      <4>2. PASS \in BidOffers
        BY DEF BidOffers
      <4> QED  BY <1>6, <1>8, <4>1, <4>2
    <3>3. CASE asked = "final"
      <4>1. e.bids = FinalOffers
        BY <3>1, <3>3 DEF Offered, InPlay
      <4>2. FinalOffers # {}
        BY <1>1, <3>3, FinalPossible
      <4> QED  BY <1>6, <1>8, <4>1, <4>2
    <3>4. CASE asked = "give"
      <4>1. PICK i : e.gone \subseteq {i} /\ e.available = DOMAIN e.cards \ e.gone
        BY <3>1, <3>4 DEF Offered, InPlay
      <4>2. ~ (DOMAIN deck[c] \subseteq {i})
        BY <1>1, <1>8, <3>4, ManyCards
      <4>3. e.available \cap e.drawn # {}
        BY <3>1, <4>1, <4>2
      <4> QED  BY <1>6, <1>8, <4>3
    <3>5. CASE asked \in InPlay
      <4>1. e.available \cap e.drawn = Playable(c)
        BY <3>1, <3>5 DEF Offered, InPlay
      <4>2. Playable(c) # {}
        BY <1>1, <1>8, <3>5, CardPlayable
      <4> QED  BY <1>6, <1>8, <4>1, <4>2
    <3> QED  BY <1>2, <3>2, <3>3, <3>4, <3>5 DEF InRound, InPlay
  <2> QED  BY <2>3, <2>4
<1> QED  BY <1>7, <1>8

(***************************************************************************)
(* While a game is on one player has the question, and he is the one the   *)
(* room waits for.                                                         *)
(***************************************************************************)
THEOREM QuestionNeverLost ==
  ASSUME "follow" \notin LeaveIn
  PROVE  Spec => []OneQuestion
<1>1. Init => Answerable
  BY InitAnswerable
<1>2. IInv /\ Answerable /\ [Next]_vars => Answerable'
  BY NextAnswerable
<1>3. IInv /\ Answerable => OneQuestion
  BY QuestionIs DEF OneQuestion
<1> QED  BY <1>1, <1>2, <1>3, ConversationInvariance, PTL DEF Spec

-----------------------------------------------------------------------------
(***************************************************************************)
(* What the room checks of an answer.  PlayersCollection throws before a   *)
(* game has started and for a player it does not know, Bidder out of turn  *)
(* and on less than the highest bid, Score on a claim that is not raised,  *)
(* Dealer on a gift to the wrong player, Game out of turn, PlayersDeck on a*)
(* card that is not there or has been used.  A ready that arrives in another*)
(* stage than ADDING would be taken for a bid.                             *)
(***************************************************************************)
Accepted(c, msg) ==
  /\ c \in Seated /\ Len(players) = MAX_PLAYERS
  /\ msg.action = "ready" => stage = "ADDING"
  /\ msg.action = "bid" =>
       /\ stage # "ADDING" /\ it # NoIt /\ BidIsCorrect(c, msg.data)
       /\ it.CURRENT # it.HIGHEST => msg.data > claim[c] \/ msg.data = PASS
       /\ it.CURRENT = it.HIGHEST => msg.data >= claim[c] \/ msg.data = PASS
  /\ msg.action = "deal" =>
       /\ c = it.HIGHEST /\ {msg.data.left, msg.data.right} \subseteq Seated \ {c}
       /\ msg.data.left # msg.data.right
       /\ {msg.data.first, msg.data.second} \subseteq DOMAIN deck[c]
       /\ deck[c][msg.data.first] # deck[c][msg.data.second]
       /\ {deck[c][msg.data.first], deck[c][msg.data.second]} \subseteq Unused(c)
  /\ msg.action = "play" =>
       it.CURRENT = c /\ msg.data \in DOMAIN deck[c] /\ deck[c][msg.data] \in Unused(c)

AnswersAreAccepted ==
  \A c \in Clients : LET q == toServer[c]
                     IN  q # << >> /\ Fresh(Head(q)) => Accepted(c, Head(q))

\* One part of Accepted for each kind of answer.
LEMMA ReadyAccepted ==
  ASSUME RoomInv, NEW c \in Seated, NEW m, Fits(c, m), m.action = "ready"
  PROVE  Accepted(c, m)
<1>1. asked = "ready" /\ TableInv
  BY TableFacts DEF Fits, RoomInv
<1>2. Len(players) = 3 /\ stage = "ADDING"
  BY <1>1 DEF TableInv, RoomInv, PhaseInv
<1> QED  BY <1>2 DEF Accepted

LEMMA BidAccepted ==
  ASSUME RoomInv, TP!HighestIsHolders, NEW c \in Seated, NEW m, Fits(c, m), m.action = "bid"
  PROVE  Accepted(c, m)
<1>1. c = it.CURRENT /\ (\/ asked = "bid" /\ m.data \in BidOffers
                         \/ asked = "final" /\ m.data \in FinalOffers)
  BY DEF Fits
<1>2. asked \in InRound
  BY <1>1 DEF InRound
<1>3. /\ RoomTyped /\ Len(players) = 3 /\ it # NoIt /\ stage # "ADDING"
      /\ it.HIGHEST \in Seated /\ Seated \subseteq Clients
      /\ asked = "bid" => it.CURRENT # it.HIGHEST
      /\ asked = "final" => it.CURRENT = it.HIGHEST
  BY <1>2, RoundFacts DEF FullTable
<1>4. PICK b, h : b = m.data /\ h = it.HIGHEST
  OBVIOUS
<1>5. claim[c] \in Int /\ claim[h] \in Int
  BY <1>3, <1>4 DEF RoomTyped
<1>6. CASE asked = "bid"
  <2>1. claim[c] =< claim[h]
    <3>1. Seated = TP!Seated
      BY RoomIsTable
    <3>2. \A d \in Seated : claim[d] =< claim[it.HIGHEST]
      BY <1>6, <3>1 DEF TP!HighestIsHolders
    <3> QED  BY <1>4, <3>2
  <2>2. b = PASS \/ (b \in Bids /\ claim[h] + 10 =< b)
    BY <1>1, <1>4, <1>6 DEF BidOffers, MIN_RAISE
  <2>3. b = PASS \/ (claim[h] =< b /\ b > claim[c])
    <3>1. PICK x, y : x = claim[c] /\ y = claim[h]
      OBVIOUS
    <3>2. x \in Int /\ y \in Int /\ x =< y /\ (b = PASS \/ (b \in Bids /\ y + 10 =< b))
      BY <1>5, <2>1, <2>2, <3>1
    <3>3. CASE b \in Bids /\ y + 10 =< b
      <4>1. b \in Int
        BY <3>3, BidsAssumption
      <4> QED  BY ONLY <3>1, <3>2, <3>3, <4>1
    <3> QED  BY <3>2, <3>3
  <2> QED  BY <1>1, <1>3, <1>4, <1>6, <2>3 DEF Accepted, BidIsCorrect
<1>7. CASE asked = "final"
  <2>1. b \in Bids /\ claim[h] =< b /\ h = c
    BY <1>1, <1>3, <1>4, <1>7 DEF FinalOffers
  <2>2. b >= claim[c]
    BY <1>5, <2>1, BidsAssumption
  <2> QED  BY <1>1, <1>3, <1>4, <1>7, <2>1, <2>2 DEF Accepted, BidIsCorrect
<1> QED  BY <1>1, <1>6, <1>7

LEMMA GiftAccepted ==
  ASSUME RoomInv, NEW c \in Seated, NEW m, Fits(c, m), m.action = "deal"
  PROVE  Accepted(c, m)
<1>1. /\ c = it.CURRENT /\ asked = "give"
      /\ m.data.left = NextOf(c) /\ m.data.right = NextOf(NextOf(c))
      /\ m.data.first \in DOMAIN deck[c] /\ m.data.second \in DOMAIN deck[c]
      /\ m.data.first # m.data.second
  BY DEF Fits
<1>2. asked \in InRound
  BY <1>1 DEF InRound
<1>3. FullTable /\ Len(players) = 3 /\ c = it.HIGHEST /\ Seated \subseteq Clients
  BY <1>1, <1>2, RoundFacts DEF FullTable
<1>4. /\ NextOf(c) \in Seated \ {c} /\ NextOf(NextOf(c)) \in Seated \ {c}
      /\ NextOf(c) # NextOf(NextOf(c))
  BY <1>3, Neighbours
<1>5. ToSet(deck[c]) = hand[c] /\ Injective(deck[c])
  BY <1>3 DEF RoomInv, DeckFits
<1>6. /\ deck[c][m.data.first] # deck[c][m.data.second]
      /\ deck[c][m.data.first] \in hand[c] /\ deck[c][m.data.second] \in hand[c]
  BY <1>1, <1>5 DEF Injective, ToSet
<1>7. used[c] = {}
  BY <1>1 DEF RoomInv, HandsFit
<1>8. Unused(c) = hand[c]
  BY <1>7 DEF Unused
<1> QED  BY <1>1, <1>3, <1>4, <1>6, <1>8 DEF Accepted

LEMMA CardAccepted ==
  ASSUME RoomInv, NEW c \in Seated, NEW m, Fits(c, m), m.action = "play"
  PROVE  Accepted(c, m)
<1>1. c = it.CURRENT /\ asked \in InPlay /\ m.data \in Playable(c)
  BY DEF Fits
<1>2. asked \in InRound
  BY <1>1 DEF InRound, InPlay
<1>3. Len(players) = 3
  BY <1>2, RoundFacts DEF FullTable
<1>4. m.data \in DOMAIN deck[c] /\ deck[c][m.data] \in Unused(c)
  BY <1>1, OffersAreUnused DEF Playable
<1> QED  BY <1>1, <1>3, <1>4 DEF Accepted

(***************************************************************************)
(* The room accepts every answer that is not outdated when its turn comes, *)
(* however long it was on its way: no check of Bidder, Dealer or Game      *)
(* throws on it.                                                           *)
(***************************************************************************)
THEOREM AnswersAccepted == Spec => []AnswersAreAccepted
<1>1. Init => TP!HighestIsHolders
  BY TableInit, TP!InitHighest, TableAssumptions, ClientsAssumption, DeckAssumption, HandAssumption,
     WholeDeckAssumption, CapsAssumption, ShuffleAssumption, BidsAssumption
<1>2. IInv /\ TP!HighestIsHolders /\ [Next]_vars => TP!HighestIsHolders'
  <2>1. TP!AuctionInv /\ TP!HighestIsHolders /\ [TP!Next]_TP!vars => TP!HighestIsHolders'
    BY TP!NextHighest, TableAssumptions, ClientsAssumption, DeckAssumption, HandAssumption,
       WholeDeckAssumption, CapsAssumption, ShuffleAssumption, BidsAssumption
  <2> QED  BY <2>1, TableMoves DEF IInv, RoomInv
<1>3. IInv /\ TP!HighestIsHolders => AnswersAreAccepted
  <2> SUFFICES ASSUME IInv, TP!HighestIsHolders, NEW c \in Clients, NEW q, q = toServer[c],
                      q # << >>, NEW m, m = Head(q), Fresh(m)
               PROVE  Accepted(c, m)
    BY DEF AnswersAreAccepted
  <2>1. PICK k, r : CInv(c, q, k, r)
    BY DEF IInv, ClientsInv
  <2>2. m.action \in Answers /\ c \in Seated /\ Fits(c, m)
    BY <2>1, WaitingHead DEF CInv, Fresh
  <2>3. m.action \in {"ready", "bid", "deal", "play"}
    BY <2>2 DEF Answers
  <2>4. RoomInv
    BY DEF IInv
  <2> QED  BY <2>2, <2>3, <2>4, ReadyAccepted, BidAccepted, GiftAccepted, CardAccepted
<1> QED  BY <1>1, <1>2, <1>3, ConversationInvariance, PTL DEF Spec
=============================================================================
