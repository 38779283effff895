---------------------------- MODULE ServerProofs ----------------------------
(***************************************************************************)
(* Proofs about Server for any number of messages and frames of any        *)
(* length: the socket has one writer, no message is forgotten, nothing is  *)
(* written to the socket after the close frame, a client that stays, keeps *)
(* the protocol and says what the game can take does no harm, what it says *)
(* is read whole and in order, and the connection implements Channel.      *)
(***************************************************************************)
EXTENDS ServerProperties, SequenceTheorems, WellFoundedInduction, TLAPS

Streams == [rd : ReadStates, wr : WriteStates, block : {"none", "rd", "wr"},
            failed : BOOLEAN, closing : BOOLEAN, frames : Nat,
            posted : Seq({"rd", "wr"})]

-----------------------------------------------------------------------------
(***************************************************************************)
(* What the stream's operations do to the turns and to each other.         *)
(***************************************************************************)
LEMMA PostType ==
  ASSUME NEW w \in Streams, NEW op \in {"rd", "wr"}
  PROVE  /\ Post(w, op) \in Streams
         /\ Post(w, op).rd = w.rd /\ Post(w, op).wr = w.wr /\ Post(w, op).block = w.block
         /\ Turns(Post(w, op)) <=> Turns(w)
  BY DEF Post, Streams, Turns

LEMMA ReleaseType ==
  ASSUME NEW w \in Streams, NEW op
  PROVE  Release(w, op) \in Streams
  BY DEF Release, Streams

LEMMA MaybeSuspendTurns ==
  ASSUME NEW w \in Streams, Turns(w), w.wr \in {"none", "again"}
  PROVE  /\ MaybeSuspend(w) \in Streams /\ Turns(MaybeSuspend(w))
         /\ MaybeSuspend(w).wr # "none" /\ MaybeSuspend(w).rd = w.rd
<1>1. CASE w.block # "none"
  BY <1>1 DEF MaybeSuspend, Streams, Turns, WriteStates
<1>2. CASE w.block = "none" /\ (w.failed \/ w.closing)
  <2> DEFINE v == [w EXCEPT !.wr = "aborted"]
  <2>1. v \in Streams /\ v.wr = "aborted" /\ v.rd = w.rd /\ v.block = w.block
    BY DEF Streams, WriteStates
  <2>2. MaybeSuspend(w) = Post(v, "wr")
    BY <1>2 DEF MaybeSuspend
  <2> HIDE DEF v
  <2>3. Turns(v)
    BY <1>2, <2>1 DEF Turns
  <2> QED  BY <2>1, <2>2, <2>3, PostType
<1>3. CASE w.block = "none" /\ ~ (w.failed \/ w.closing)
  <2>1. MaybeSuspend(w) = Write(w)
    BY <1>3 DEF MaybeSuspend
  <2>2. Write(w) \in Streams /\ Write(w).wr = "writing" /\ Write(w).block = "wr" /\ Write(w).rd = w.rd
    BY DEF Write, Streams, WriteStates
  <2> QED  BY <1>3, <2>1, <2>2 DEF Turns
<1> QED  BY <1>1, <1>2, <1>3

LEMMA StartWriteTurns ==
  ASSUME NEW w \in Streams, Turns(w), w.wr = "none", NEW n \in Nat
  PROVE  /\ StartWrite(w, n) \in Streams /\ Turns(StartWrite(w, n))
         /\ StartWrite(w, n).wr # "none" /\ StartWrite(w, n).rd = w.rd
<1> DEFINE v == [w EXCEPT !.frames = n]
<1>1. v \in Streams /\ v.wr = w.wr /\ v.rd = w.rd /\ v.block = w.block
  BY DEF Streams
<1>2. StartWrite(w, n) = MaybeSuspend(v)
  BY DEF StartWrite
<1> HIDE DEF v
<1>3. Turns(v)
  BY <1>1 DEF Turns
<1> QED  BY <1>1, <1>2, <1>3, MaybeSuspendTurns

LEMMA FinishReadTurns ==
  ASSUME NEW w \in Streams, Turns(w)
  PROVE  /\ FinishRead(w) \in Streams /\ Turns(FinishRead(w))
         /\ FinishRead(w).rd = "none"
         /\ FinishRead(w).wr = "none" <=> w.wr = "none"
<1> DEFINE v == Release([w EXCEPT !.rd = "none"], "rd")
<1>1. /\ v \in Streams /\ v.rd = "none" /\ v.wr = w.wr
      /\ v.block = IF w.block = "rd" THEN "none" ELSE w.block
  BY DEF Release, Streams, ReadStates
<1>2. FinishRead(w) = ResumeWrite(v)
  BY DEF FinishRead
<1> HIDE DEF v
<1>3. Turns(v)
  BY <1>1 DEF Turns, Answering, Streams
<1>4. CASE v.wr = "parked"
  <2> DEFINE u == [v EXCEPT !.wr = "resumed", !.block = "wr"]
  <2>1. u \in Streams /\ u.rd = "none" /\ u.wr = "resumed" /\ u.block = "wr"
    BY <1>1 DEF Streams, WriteStates
  <2>2. ResumeWrite(v) = Post(u, "wr")
    BY <1>4 DEF ResumeWrite
  <2> HIDE DEF u
  <2>3. Turns(u)
    BY <2>1 DEF Turns, Answering
  <2> QED  BY <1>1, <1>2, <1>4, <2>1, <2>2, <2>3, PostType
<1>5. CASE v.wr # "parked"
  BY <1>1, <1>2, <1>3, <1>5 DEF ResumeWrite
<1> QED  BY <1>4, <1>5

LEMMA ResumeReadTurns ==
  ASSUME NEW w \in Streams, Turns(w), w.block = "none" \/ w.rd \notin Parked
  PROVE  /\ ResumeRead(w) \in Streams /\ Turns(ResumeRead(w))
         /\ ResumeRead(w).wr = w.wr
<1>1. ASSUME NEW r \in {"pong_resumed", "close_resumed"}, w.block = "none",
             ResumeRead(w) = Post([w EXCEPT !.rd = r, !.block = "rd"], "rd")
      PROVE  /\ ResumeRead(w) \in Streams /\ Turns(ResumeRead(w))
             /\ ResumeRead(w).wr = w.wr
  <2> DEFINE v == [w EXCEPT !.rd = r, !.block = "rd"]
  <2>1. v \in Streams /\ v.rd = r /\ v.wr = w.wr /\ v.block = "rd"
    BY DEF Streams, ReadStates, Resumed
  <2>2. ResumeRead(w) = Post(v, "rd")
    BY <1>1
  <2> HIDE DEF v
  <2>3. Turns(v)
    BY <1>1, <2>1 DEF Turns
  <2> QED  BY <2>1, <2>2, <2>3, PostType
<1>2. CASE w.rd = "pong_parked"
  BY <1>1, <1>2 DEF ResumeRead, Parked
<1>3. CASE w.rd = "close_parked"
  BY <1>1, <1>3 DEF ResumeRead, Parked
<1>4. CASE w.rd = "fail_parked"
  <2> DEFINE v == [w EXCEPT !.rd = "fail_resumed"]
  <2>1. v \in Streams /\ v.rd = "fail_resumed" /\ v.wr = w.wr /\ v.block = w.block
    BY DEF Streams, ReadStates, Resumed
  <2>2. ResumeRead(w) = Post(v, "rd")
    BY <1>4 DEF ResumeRead, Parked
  <2> HIDE DEF v
  <2>3. Turns(v)
    BY <1>4, <2>1 DEF Turns, Answering
  <2> QED  BY <2>1, <2>2, <2>3, PostType
<1>5. CASE w.rd \notin Parked
  <2>1. ResumeRead(w) = w
    BY <1>5 DEF ResumeRead, Parked
  <2> QED  BY <2>1
<1> QED  BY <1>2, <1>3, <1>4, <1>5 DEF Parked

LEMMA FinishWriteTurns ==
  ASSUME NEW w \in Streams, Turns(w)
  PROVE  /\ FinishWrite(w) \in Streams /\ Turns(FinishWrite(w))
         /\ FinishWrite(w).wr = "none"
<1> DEFINE v == Release([w EXCEPT !.wr = "none", !.frames = 0], "wr")
<1>1. /\ v \in Streams /\ v.wr = "none" /\ v.rd = w.rd
      /\ v.block = IF w.block = "wr" THEN "none" ELSE w.block
  BY DEF Release, Streams, WriteStates
<1>2. FinishWrite(w) = ResumeRead(v)
  BY DEF FinishWrite
<1> HIDE DEF v
<1>3. Turns(v) /\ (v.block = "none" \/ v.rd \notin Parked)
  BY <1>1 DEF Turns, Streams, Answering, Parked
<1> QED  BY <1>1, <1>2, <1>3, ResumeReadTurns

LEMMA NextFrameTurns ==
  ASSUME NEW w \in Streams, Turns(w), w.wr = "writing", w.frames > 1
  PROVE  /\ NextFrame(w) \in Streams /\ Turns(NextFrame(w))
         /\ NextFrame(w).wr # "none"
<1> DEFINE v == Release([w EXCEPT !.frames = @ - 1], "wr")
<1>1. /\ v \in Streams /\ v.wr = "writing" /\ v.rd = w.rd /\ v.block = "none"
  <2> DEFINE x == [w EXCEPT !.frames = w.frames - 1]
  <2>1. x \in Streams /\ x.wr = "writing" /\ x.rd = w.rd /\ x.block = w.block
    <3>1. w.frames - 1 \in Nat
      BY DEF Streams
    <3> QED  BY <3>1 DEF Streams
  <2>2. w.block = "wr"
    BY DEF Turns
  <2>3. v = [x EXCEPT !.block = "none"]
    BY <2>1, <2>2 DEF Release, Streams
  <2> HIDE DEF x, v
  <2> QED  BY <2>1, <2>3 DEF Streams
<1>2. v.rd \notin Answering \cup {"pong_resumed", "close_resumed"}
  BY <1>1 DEF Turns
<1>3. NextFrame(w) = IF w.rd \in Parked THEN Post([ResumeRead(v) EXCEPT !.wr = "again"], "wr")
                                         ELSE Write(v)
  BY DEF NextFrame
<1> HIDE DEF v
<1>4. CASE w.rd \in Parked
  <2> DEFINE x == [v EXCEPT !.wr = "again"]
             u == [ResumeRead(v) EXCEPT !.wr = "again"]
  <2>1. x \in Streams /\ x.wr = "again" /\ x.rd = w.rd /\ x.block = "none"
    BY <1>1 DEF Streams, WriteStates
  <2>2. Turns(x)
    BY <1>1, <1>2, <2>1 DEF Turns
  <2>3. ResumeRead(x) = u
    <3>1. CASE w.rd = "pong_parked"
      BY <1>1, <2>1, <3>1 DEF ResumeRead, Post, Streams, Parked
    <3>2. CASE w.rd = "close_parked"
      BY <1>1, <2>1, <3>2 DEF ResumeRead, Post, Streams, Parked
    <3>3. CASE w.rd = "fail_parked"
      BY <1>1, <2>1, <3>3 DEF ResumeRead, Post, Streams, Parked
    <3> QED  BY <1>4, <3>1, <3>2, <3>3 DEF Parked
  <2> HIDE DEF x, u
  <2>4. u \in Streams /\ Turns(u) /\ u.wr = "again"
    BY <2>1, <2>2, <2>3, ResumeReadTurns
  <2>5. NextFrame(w) = Post(u, "wr")
    BY <1>3, <1>4 DEF u
  <2> QED  BY <2>4, <2>5, PostType
<1>5. CASE w.rd \notin Parked
  <2>1. Write(v) \in Streams /\ Write(v).wr = "writing" /\ Write(v).block = "wr" /\ Write(v).rd = v.rd
    BY <1>1 DEF Write, Streams, WriteStates
  <2> QED  BY <1>2, <1>3, <1>5, <2>1 DEF Turns
<1> QED  BY <1>4, <1>5

LEMMA AnswerTurns ==
  ASSUME NEW w \in Streams, Turns(w), w.rd = "header"
  PROVE  \A v \in {AnswerPing(w), AnswerClose(w), AnswerBad(w)} :
           v \in Streams /\ Turns(v) /\ v.wr = w.wr
<1>1. CASE w.block # "none"
  BY <1>1 DEF AnswerPing, AnswerClose, AnswerBad, Streams, Turns, ReadStates, Parked, Answering
<1>2. CASE w.block = "none"
  <2>1. /\ AnswerPing(w) = Pong(w) /\ AnswerClose(w) = Close(w) /\ AnswerBad(w) = Fail(w)
        /\ w.wr \notin {"writing", "resumed"}
    BY <1>2 DEF AnswerPing, AnswerClose, AnswerBad, Turns
  <2>2. Pong(w) \in Streams /\ Pong(w).rd = "pong" /\ Pong(w).block = "rd" /\ Pong(w).wr = w.wr
    BY DEF Pong, Streams, ReadStates, Answering
  <2>3. Close(w) \in Streams /\ Close(w).rd = "close" /\ Close(w).block = "rd" /\ Close(w).wr = w.wr
    BY DEF Close, Streams, ReadStates, Answering
  <2>4. Fail(w) \in Streams /\ Fail(w).rd = "close" /\ Fail(w).block = "rd" /\ Fail(w).wr = w.wr
    BY DEF Fail, Close, Streams, ReadStates, Answering
  <2> QED  BY <2>1, <2>2, <2>3, <2>4 DEF Turns, Answering
<1> QED  BY <1>1, <1>2

LEMMA StartReadTurns ==
  ASSUME NEW w \in Streams, Turns(w), w.rd = "none"
  PROVE  /\ StartRead(w) \in Streams /\ Turns(StartRead(w))
         /\ StartRead(w).wr = w.wr
<1>1. CASE w.failed
  <2> DEFINE v == [w EXCEPT !.rd = "aborted"]
  <2>1. v \in Streams /\ v.rd = "aborted" /\ v.wr = w.wr /\ v.block = w.block
    BY DEF Streams, ReadStates
  <2>2. StartRead(w) = Post(v, "rd")
    BY <1>1 DEF StartRead
  <2> HIDE DEF v
  <2>3. Turns(v)
    BY <2>1 DEF Turns, Answering
  <2> QED  BY <2>1, <2>2, <2>3, PostType
<1>2. CASE ~ w.failed
  BY <1>2 DEF StartRead, Streams, Turns, ReadStates, Answering
<1> QED  BY <1>1, <1>2

-----------------------------------------------------------------------------
(***************************************************************************)
(* The inductive invariant.  That a write is never started while one is on *)
(* rests on busy_, and that a message is never forgotten on the write.     *)
(***************************************************************************)
QueueInv ==
  /\ stream \in Streams /\ Turns(stream)
  /\ queue \in Seq(Nat) /\ accepted \in Nat
  /\ NothingForgotten

ConnectionInv ==
  /\ QueueInv
  /\ session # "open" => ~ registered /\ stream = Fresh /\ ~ busy
  /\ peer = "none" <=> session = "none"

\* What a handler may make of the stream before the session's code runs.
Handled(w) == w \in Streams /\ Turns(w) /\ (w.wr = "none" <=> stream.wr = "none")

LEMMA QuietStep ==
  ASSUME QueueInv, NEW w, Handled(w), stream' = w,
         UNCHANGED <<queue, busy, accepted>>, registered' => registered
  PROVE  QueueInv'
  BY DEF QueueInv, Handled, NothingForgotten

LEMMA DisconnectStep ==
  ASSUME QueueInv, NEW w \in Streams, Turns(w), w.wr = "none" \/ stream.wr # "none",
         Disconnect(w)
  PROVE  QueueInv'
  BY DEF QueueInv, Disconnect, NothingForgotten

LEMMA PutStep ==
  ASSUME QueueInv, NEW w, Handled(w), Put(w), registered' => registered
  PROVE  QueueInv'
<1>1. /\ accepted' = accepted + 1 /\ queue' = Append(queue, accepted + 1) /\ busy' = TRUE
      /\ stream' = IF busy THEN w ELSE StartWrite(w, Frames(accepted + 1))
  BY DEF Put
<1>2. queue' \in Seq(Nat) /\ accepted' \in Nat /\ queue' # << >>
  BY <1>1 DEF QueueInv
<1>3. CASE busy
  BY <1>1, <1>2, <1>3 DEF QueueInv, Handled, NothingForgotten
<1>4. CASE ~ busy
  <2>1. w \in Streams /\ Turns(w) /\ w.wr = "none"
    BY <1>4 DEF QueueInv, Handled, NothingForgotten
  <2>2. Frames(accepted + 1) \in Nat
    BY DEF Frames
  <2>3. stream' \in Streams /\ Turns(stream') /\ stream'.wr # "none"
    BY <1>1, <1>4, <2>1, <2>2, StartWriteTurns
  <2> QED  BY <1>1, <1>2, <2>3 DEF QueueInv, NothingForgotten
<1> QED  BY <1>3, <1>4

LEMMA InterpretStep ==
  ASSUME QueueInv, NEW w, Handled(w), NEW message, Interpret(w, message), UNCHANGED registered
  PROVE  QueueInv'
  BY QuietStep, PutStep DEF Interpret

LEMMA WriteHandlerStep ==
  ASSUME QueueInv, NEW w \in Streams, Turns(w), w.wr = "none", busy, WriteHandler(w),
         UNCHANGED <<accepted, registered>>
  PROVE  QueueInv'
<1>1. queue' = Tail(queue) /\ queue # << >> /\ queue' \in Seq(Nat)
  BY DEF QueueInv, NothingForgotten, WriteHandler
<1>2. CASE queue' # << >>
  <2>1. stream' = StartWrite(w, Frames(Head(queue'))) /\ busy' = busy
    BY <1>2 DEF WriteHandler
  <2>2. Frames(Head(queue')) \in Nat
    BY DEF Frames
  <2>3. stream' \in Streams /\ Turns(stream') /\ stream'.wr # "none"
    BY <2>1, <2>2, StartWriteTurns
  <2> QED  BY <1>1, <1>2, <2>1, <2>3 DEF QueueInv, NothingForgotten
<1>3. CASE queue' = << >>
  <2>1. stream' = w /\ busy' = FALSE
    BY <1>3 DEF WriteHandler
  <2> QED  BY <1>1, <1>3, <2>1 DEF QueueInv, NothingForgotten
<1> QED  BY <1>2, <1>3

-----------------------------------------------------------------------------
(***************************************************************************)
(* The actions, one by one.                                                *)
(***************************************************************************)
LEMMA FreshTurns == Fresh \in Streams /\ Turns(Fresh) /\ Fresh.wr = "none" /\ Fresh.rd = "none"
  BY DEF Fresh, Streams, Turns, ReadStates, WriteStates, Answering

LEMMA InitConnection == Init => ConnectionInv
  BY FreshTurns DEF Init, SessionInit, ConnectionInv, QueueInv, NothingForgotten

LEMMA UpgradeStep ==
  ASSUME ConnectionInv, Upgrade
  PROVE  ConnectionInv'
<1> DEFINE w == StartWrite(stream, Frames(1))
<1>1. /\ session = "upgrading" /\ session' = "open" /\ registered' = TRUE /\ accepted' = 1
      /\ queue' = <<1>> /\ busy' = TRUE /\ stream' = StartRead(w) /\ peer' = peer
  BY DEF Upgrade, peerVars
<1>2. stream = Fresh /\ peer # "none"
  BY <1>1 DEF ConnectionInv
<1>3. w \in Streams /\ Turns(w) /\ w.wr # "none" /\ w.rd = "none"
  <2>1. Frames(1) \in Nat
    BY DEF Frames
  <2> QED  BY <1>2, <2>1, FreshTurns, StartWriteTurns
<1> HIDE DEF w
<1>4. stream' \in Streams /\ Turns(stream') /\ stream'.wr # "none"
  BY <1>1, <1>3, StartReadTurns
<1>5. queue' \in Seq(Nat) /\ queue' # << >> /\ accepted' \in Nat
  BY <1>1
<1> QED  BY <1>1, <1>2, <1>4, <1>5 DEF ConnectionInv, QueueInv, NothingForgotten

LEMMA IdleStep ==
  ASSUME ConnectionInv, UNCHANGED <<queue, busy, stream, registered, accepted>>,
         session' # "open" \/ session' = session,
         session # "open" \/ session' = session,
         peer' = "none" <=> session' = "none"
  PROVE  ConnectionInv'
  BY DEF ConnectionInv, QueueInv, NothingForgotten

\* An action of an open session preserves ConnectionInv if it preserves QueueInv.
LEMMA OpenStep ==
  ASSUME ConnectionInv, session = "open", session' = session, peer' = peer, QueueInv'
  PROVE  ConnectionInv'
  BY DEF ConnectionInv

LEMMA HeaderStep ==
  ASSUME ConnectionInv, Header
  PROVE  ConnectionInv'
<1>1. session = "open" /\ stream.rd = "header" /\ peer' = peer /\ QuietSession
  BY DEF Header, Reading, TakeFrame, peerVars
<1>2. Handled(stream')
  <2>1. stream \in Streams /\ Turns(stream)
    BY DEF ConnectionInv, QueueInv
  <2>2. \/ stream' = [stream EXCEPT !.rd = "payload"]
        \/ stream' = stream
        \/ stream' \in {AnswerPing(stream), AnswerClose(stream), AnswerBad(stream)}
    BY DEF Header
  <2>3. CASE stream' = [stream EXCEPT !.rd = "payload"]
    BY <1>1, <2>1, <2>3 DEF Handled, Streams, Turns, ReadStates, Answering
  <2> QED  BY <1>1, <2>1, <2>2, <2>3, AnswerTurns DEF Handled
<1>3. QueueInv'
  BY <1>1, <1>2, QuietStep DEF QuietSession, ConnectionInv
<1> QED  BY <1>1, <1>3, OpenStep DEF QuietSession

LEMMA PayloadStep ==
  ASSUME ConnectionInv, Payload
  PROVE  ConnectionInv'
<1> DEFINE w == FinishRead(stream)
<1>1. session = "open" /\ peer' = peer /\ UNCHANGED <<session, registered>>
  BY DEF Payload, Reading, TakeFrame, ReadHandler
<1>2. w \in Streams /\ Turns(w) /\ w.rd = "none" /\ (w.wr = "none" <=> stream.wr = "none")
  BY FinishReadTurns DEF ConnectionInv, QueueInv
<1> HIDE DEF w
<1>3. Handled(StartRead(w))
  BY <1>2, StartReadTurns DEF Handled
<1>4. \/ stream' = StartRead(w) /\ UNCHANGED <<queue, busy, accepted>>
      \/ \E message : Interpret(StartRead(w), message)
  BY DEF Payload, ReadHandler, w
<1>5. QueueInv'
  BY <1>1, <1>3, <1>4, QuietStep, InterpretStep DEF ConnectionInv
<1> QED  BY <1>1, <1>5, OpenStep

LEMMA AnsweredStep ==
  ASSUME ConnectionInv, PongWritten \/ CloseWritten
  PROVE  ConnectionInv'
<1>1. session = "open" /\ peer' = peer /\ QuietSession /\ stream.rd \in {"pong", "close"}
  BY DEF PongWritten, CloseWritten, Reading
<1>2. stream \in Streams /\ Turns(stream)
  BY DEF ConnectionInv, QueueInv
<1>3. stream.block = "rd"
  BY <1>1, <1>2 DEF Turns, Answering
<1>4. CASE stream' = [stream EXCEPT !.rd = "teardown"]
  BY <1>1, <1>2, <1>3, <1>4, QuietStep, OpenStep
  DEF Streams, ReadStates, Answering, Turns, Handled, QuietSession, ConnectionInv
<1>5. CASE stream' = [Release(stream, "rd") EXCEPT !.rd = "header"]
  <2>1. stream' \in Streams /\ stream'.rd = "header" /\ stream'.block = "none"
        /\ stream'.wr = stream.wr
    BY <1>2, <1>3, <1>5 DEF Release, Streams, ReadStates
  <2>2. Handled(stream')
    BY <1>2, <1>3, <2>1 DEF Turns, Handled, Answering
  <2> QED  BY <1>1, <2>2, QuietStep, OpenStep DEF QuietSession, ConnectionInv
<1> QED  BY <1>4, <1>5 DEF PongWritten, CloseWritten

LEMMA FailedTurns ==
  ASSUME NEW w \in Streams, Turns(w)
  PROVE  /\ [w EXCEPT !.failed = TRUE] \in Streams
         /\ Turns([w EXCEPT !.failed = TRUE])
         /\ [w EXCEPT !.failed = TRUE].wr = w.wr
  BY DEF Streams, Turns

\* What is posted is taken off its queue before it runs.
LEMMA TailTurns ==
  ASSUME NEW w \in Streams, Turns(w), w.posted # << >>
  PROVE  LET v == [w EXCEPT !.posted = Tail(@)]
         IN  v \in Streams /\ Turns(v) /\ v.wr = w.wr /\ v.rd = w.rd /\ v.block = w.block
<1>1. Tail(w.posted) \in Seq({"rd", "wr"})
  BY DEF Streams
<1> QED  BY <1>1 DEF Streams, Turns

\* Whoever calls disconnect has finished its operation first.
LEMMA EndedStep ==
  ASSUME ConnectionInv, session = "open", peer' = peer, NEW w \in Streams, Turns(w),
         w.wr # "none" => stream.wr # "none",
         Disconnect(FinishRead(w)) \/ Disconnect(FinishWrite(w))
  PROVE  ConnectionInv'
<1>1. session' = session
  BY DEF Disconnect
<1>2. QueueInv'
  BY DisconnectStep, FinishReadTurns, FinishWriteTurns DEF ConnectionInv
<1> QED  BY <1>1, <1>2, OpenStep

LEMMA ReadEndsStep ==
  ASSUME ConnectionInv, TornDown \/ ReadFails
  PROVE  ConnectionInv'
<1>1. session = "open" /\ peer' = peer
  BY DEF TornDown, ReadFails, Reading, peerVars
<1>2. stream \in Streams /\ Turns(stream)
  BY DEF ConnectionInv, QueueInv
<1>3. Disconnect(FinishRead(stream)) \/ Disconnect(FinishRead([stream EXCEPT !.failed = TRUE]))
  BY DEF TornDown, ReadFails
<1> QED  BY <1>1, <1>2, <1>3, FailedTurns, EndedStep

LEMMA FrameWrittenStep ==
  ASSUME ConnectionInv, FrameWritten
  PROVE  ConnectionInv'
<1>1. session = "open" /\ stream.wr = "writing" /\ peer' = peer
      /\ UNCHANGED <<session, registered, accepted>>
  BY DEF FrameWritten, Writing, QuietSession
<1>2. stream \in Streams /\ Turns(stream) /\ busy
  BY <1>1 DEF ConnectionInv, QueueInv, NothingForgotten
<1>3. CASE stream.frames > 1 /\ stream' = NextFrame(stream) /\ QuietSession
  BY <1>1, <1>2, <1>3, NextFrameTurns, QuietStep, OpenStep
  DEF Handled, QuietSession, ConnectionInv
<1>4. CASE WriteHandler(FinishWrite(stream))
  BY <1>1, <1>2, <1>4, FinishWriteTurns, WriteHandlerStep, OpenStep DEF ConnectionInv
<1> QED  BY <1>3, <1>4 DEF FrameWritten

LEMMA WriteFailsStep ==
  ASSUME ConnectionInv, WriteFails
  PROVE  ConnectionInv'
<1>1. session = "open" /\ peer' = peer
  BY DEF WriteFails, Writing, peerVars
<1> QED  BY <1>1, FailedTurns, EndedStep DEF WriteFails, ConnectionInv, QueueInv

LEMMA ResumedReadStep ==
  ASSUME ConnectionInv, session = "open", peer' = peer,
         NEW w \in Streams, Turns(w), w.wr = stream.wr, ResumedRead(w)
  PROVE  ConnectionInv'
<1>1. CASE Disconnect(FinishRead(w))
  BY <1>1, EndedStep
<1>2. ASSUME Handled(stream'), QuietSession
      PROVE  ConnectionInv'
  BY <1>2, QuietStep, OpenStep DEF QuietSession, ConnectionInv
<1>3. CASE w.rd \in {"pong_resumed", "close_resumed"} /\ stream' \in {Pong(w), Close(w)} /\ QuietSession
  BY <1>2, <1>3 DEF Pong, Close, Handled, Streams, Turns, ReadStates, Answering
<1>4. CASE w.rd = "fail_resumed" /\ w.block = "none" /\ stream' = Fail(w) /\ QuietSession
  BY <1>2, <1>4 DEF Fail, Close, Handled, Streams, Turns, ReadStates, Answering
<1>5. CASE stream' = w /\ UNCHANGED <<session, queue, busy, buffer, registered, accepted, told>>
  BY <1>5, QuietStep, OpenStep DEF Handled, ConnectionInv
<1> QED  BY <1>1, <1>3, <1>4, <1>5 DEF ResumedRead

LEMMA ResumedWriteStep ==
  ASSUME ConnectionInv, session = "open", peer' = peer,
         NEW w \in Streams, Turns(w), w.wr = stream.wr, ResumedWrite(w)
  PROVE  ConnectionInv'
<1>1. CASE Disconnect(FinishWrite(w))
  BY <1>1, EndedStep
<1>2. ASSUME Handled(stream'), QuietSession
      PROVE  ConnectionInv'
  BY <1>2, QuietStep, OpenStep DEF QuietSession, ConnectionInv
<1>3. CASE w.wr = "resumed" /\ stream' = Write(w) /\ QuietSession
  BY <1>2, <1>3 DEF Write, Handled, Streams, Turns, WriteStates
<1>4. CASE w.wr = "again" /\ stream' = MaybeSuspend(w) /\ QuietSession
  BY <1>2, <1>4, MaybeSuspendTurns DEF Handled
<1> QED  BY <1>1, <1>3, <1>4 DEF ResumedWrite

LEMMA RunPostedStep ==
  ASSUME ConnectionInv, RunPosted
  PROVE  ConnectionInv'
<1> DEFINE w == [stream EXCEPT !.posted = Tail(@)]
<1>1. stream.posted # << >> /\ peer' = peer /\ (ResumedRead(w) \/ ResumedWrite(w))
  BY DEF RunPosted, peerVars
<1>2. session = "open"
  BY <1>1 DEF ConnectionInv, Fresh
<1>3. w \in Streams /\ Turns(w) /\ w.wr = stream.wr
  BY <1>1, TailTurns DEF ConnectionInv, QueueInv
<1> HIDE DEF w
<1> QED  BY <1>1, <1>2, <1>3, ResumedReadStep, ResumedWriteStep

LEMMA NextConnection ==
  ASSUME ConnectionInv, [Next]_vars
  PROVE  ConnectionInv'
<1>1. CASE Upgrade
  BY <1>1, UpgradeStep
<1>2. CASE UpgradeFails
  BY <1>2, IdleStep DEF UpgradeFails, peerVars, ConnectionInv
<1>3. CASE Send
  <2>1. session = "open" /\ session' = session /\ peer' = peer /\ registered' = registered
        /\ Put(stream)
    BY <1>3 DEF Send, ConnectionInv, peerVars
  <2>2. Handled(stream)
    BY DEF Handled, ConnectionInv, QueueInv
  <2> QED  BY <2>1, <2>2, PutStep, OpenStep DEF ConnectionInv
<1>4. CASE ReadStep
  BY <1>4, HeaderStep, PayloadStep, AnsweredStep, ReadEndsStep DEF ReadStep
<1>5. CASE WriteStep
  BY <1>5, FrameWrittenStep, WriteFailsStep DEF WriteStep
<1>6. CASE RunPosted
  BY <1>6, RunPostedStep
<1>7. CASE PeerSends \/ PeerCloses \/ PeerLeaves \/ PeerBreaks
  BY <1>7, IdleStep
  DEF PeerSends, PeerCloses, PeerLeaves, PeerBreaks, sessionVars, ConnectionInv
<1>8. CASE Accept
  BY <1>8, IdleStep DEF Accept, ConnectionInv
<1>9. CASE AcceptFails \/ Stop \/ CloseAcceptor \/ Join
  BY <1>9, IdleStep DEF AcceptFails, Stop, CloseAcceptor, Join, sessionVars, peerVars, ConnectionInv
<1>10. CASE UNCHANGED vars
  BY <1>10, IdleStep DEF vars, sessionVars, peerVars, ConnectionInv
<1> QED
  BY <1>1, <1>2, <1>3, <1>4, <1>5, <1>6, <1>7, <1>8, <1>9, <1>10 DEF Next, SessionNext, ServerNext

LEMMA ConnectionAlways == Spec => []ConnectionInv
<1>1. Init => ConnectionInv
  BY InitConnection
<1>2. ConnectionInv /\ [Next]_vars => ConnectionInv'
  BY NextConnection
<1> QED  BY <1>1, <1>2, PTL DEF Spec

(***************************************************************************)
(* However many messages and frames there are, a read's answer and a write *)
(* are never in the socket together, and wr_block_ says whose turn it is.  *)
(***************************************************************************)
THEOREM SocketHasOneWriter == Spec => []OneWriter
<1>1. ConnectionInv => OneWriter
  BY DEF ConnectionInv, QueueInv, OneWriter
<1> QED  BY <1>1, ConnectionAlways, PTL

(***************************************************************************)
(* busy_ and queue_ agree always, and what is queued for a registered      *)
(* session has a write that is on or waits for its turn.                   *)
(***************************************************************************)
THEOREM NoMessageForgotten == Spec => []NothingForgotten
<1>1. ConnectionInv => NothingForgotten
  BY DEF ConnectionInv, QueueInv
<1> QED  BY <1>1, ConnectionAlways, PTL

-----------------------------------------------------------------------------
\* A stream that closes does not read on, and no write is in the socket.
Calm(w) ==
  /\ w.closing => w.rd \in {"close", "teardown", "none"} /\ w.wr # "writing"
  /\ w.rd \in {"close", "teardown"} => w.closing

\* The stream stays calm, and one that closes neither reopens nor closes again.
Later(w, v) ==
  /\ Calm(v)
  /\ w.closing => v.closing /\ (v.rd = "close" => w.rd = "close")

WireFrame == [op : {"text", "part", "pong", "close"}, n : Nat]

CloseSent == \E i \in DOMAIN wire : wire[i].op = "close"

(***************************************************************************)
(* CloseIsLast made inductive: a close frame on the wire means that the    *)
(* read is past writing it.                                                *)
(***************************************************************************)
ClosingInv ==
  /\ wire \in Seq(WireFrame)
  /\ Calm(stream)
  /\ CloseSent => stream.closing /\ stream.rd # "close"
  /\ CloseIsLast

-----------------------------------------------------------------------------
(***************************************************************************)
(* What the stream's operations do to a calm stream.                       *)
(***************************************************************************)
LEMMA LaterTwice ==
  ASSUME NEW u, NEW v, NEW w, Later(u, v), Later(v, w)
  PROVE  Later(u, w)
  BY DEF Later

LEMMA PostLater ==
  ASSUME NEW w \in Streams, NEW op, Calm(w)
  PROVE  Later(w, Post(w, op))
  BY DEF Post, Streams, Later, Calm

LEMMA MaybeSuspendLater ==
  ASSUME NEW w \in Streams, Calm(w), w.wr \in {"none", "again"}
  PROVE  Later(w, MaybeSuspend(w))
<1>1. CASE w.block # "none"
  BY <1>1 DEF MaybeSuspend, Streams, Calm, Later
<1>2. CASE w.block = "none" /\ (w.failed \/ w.closing)
  <2> DEFINE v == [w EXCEPT !.wr = "aborted"]
  <2>1. v \in Streams /\ Later(w, v)
    BY DEF Streams, WriteStates, Calm, Later
  <2>2. MaybeSuspend(w) = Post(v, "wr")
    BY <1>2 DEF MaybeSuspend
  <2> HIDE DEF v
  <2> QED  BY <2>1, <2>2, PostLater, LaterTwice DEF Later
<1>3. CASE w.block = "none" /\ ~ (w.failed \/ w.closing)
  BY <1>3 DEF MaybeSuspend, Write, Streams, Calm, Later
<1> QED  BY <1>1, <1>2, <1>3

LEMMA StartWriteLater ==
  ASSUME NEW w \in Streams, Calm(w), w.wr = "none", NEW n \in Nat
  PROVE  Later(w, StartWrite(w, n))
<1> DEFINE v == [w EXCEPT !.frames = n]
<1>1. v \in Streams /\ v.wr = "none" /\ Later(w, v)
  BY DEF Streams, Calm, Later
<1>2. StartWrite(w, n) = MaybeSuspend(v)
  BY DEF StartWrite
<1> HIDE DEF v
<1> QED  BY <1>1, <1>2, MaybeSuspendLater, LaterTwice DEF Later

LEMMA StartReadLater ==
  ASSUME NEW w \in Streams, Calm(w), ~ w.closing
  PROVE  Later(w, StartRead(w))
<1>1. CASE w.failed
  <2> DEFINE v == [w EXCEPT !.rd = "aborted"]
  <2>1. v \in Streams /\ Calm(v)
    BY DEF Streams, ReadStates, Calm
  <2>2. StartRead(w) = Post(v, "rd")
    BY <1>1 DEF StartRead
  <2> HIDE DEF v
  <2> QED  BY <2>1, <2>2, PostLater DEF Later
<1>2. CASE ~ w.failed
  BY <1>2 DEF StartRead, Streams, Calm, Later
<1> QED  BY <1>1, <1>2

LEMMA FinishReadLater ==
  ASSUME NEW w \in Streams, Calm(w)
  PROVE  Later(w, FinishRead(w)) /\ FinishRead(w).closing = w.closing
<1> DEFINE v == Release([w EXCEPT !.rd = "none"], "rd")
<1>1. v \in Streams /\ v.rd = "none" /\ v.wr = w.wr /\ v.closing = w.closing
  BY DEF Release, Streams, ReadStates
<1>2. FinishRead(w) = ResumeWrite(v)
  BY DEF FinishRead
<1> HIDE DEF v
<1>3. Later(w, v)
  BY <1>1 DEF Calm, Later
<1>4. CASE v.wr = "parked"
  BY <1>1, <1>2, <1>3, <1>4 DEF ResumeWrite, Post, Streams, Calm, Later
<1>5. CASE v.wr # "parked"
  BY <1>1, <1>2, <1>3, <1>5 DEF ResumeWrite
<1> QED  BY <1>4, <1>5

LEMMA ResumeReadLater ==
  ASSUME NEW w \in Streams, Calm(w)
  PROVE  /\ Later(w, ResumeRead(w)) /\ ResumeRead(w).wr = w.wr
         /\ ResumeRead(w).closing = w.closing /\ ResumeRead(w) \in Streams
<1>1. ASSUME NEW v \in Streams, v.rd \in Resumed, w.rd \in Parked, v.wr = w.wr,
             v.closing = w.closing, ResumeRead(w) = Post(v, "rd")
      PROVE  /\ Later(w, ResumeRead(w)) /\ ResumeRead(w).wr = w.wr
             /\ ResumeRead(w).closing = w.closing /\ ResumeRead(w) \in Streams
  <2>1. ~ w.closing
    BY <1>1 DEF Calm, Parked
  <2>2. Calm(v)
    BY <1>1, <2>1 DEF Calm, Resumed
  <2>3. Post(v, "rd") \in Streams /\ Post(v, "rd").wr = v.wr
    BY <1>1, PostType
  <2>4. Post(v, "rd").closing = v.closing
    BY <1>1 DEF Post, Streams
  <2> QED  BY <1>1, <2>1, <2>2, <2>3, <2>4, PostLater DEF Later
<1>2. CASE w.rd = "pong_parked"
  <2> DEFINE v == [w EXCEPT !.rd = "pong_resumed", !.block = "rd"]
  <2>1. v \in Streams /\ v.rd \in Resumed /\ v.wr = w.wr /\ v.closing = w.closing
    BY DEF Streams, ReadStates, Resumed
  <2>2. ResumeRead(w) = Post(v, "rd")
    BY <1>2 DEF ResumeRead, Parked
  <2> HIDE DEF v
  <2> QED  BY <1>1, <1>2, <2>1, <2>2 DEF Parked
<1>3. CASE w.rd = "close_parked"
  <2> DEFINE v == [w EXCEPT !.rd = "close_resumed", !.block = "rd"]
  <2>1. v \in Streams /\ v.rd \in Resumed /\ v.wr = w.wr /\ v.closing = w.closing
    BY DEF Streams, ReadStates, Resumed
  <2>2. ResumeRead(w) = Post(v, "rd")
    BY <1>3 DEF ResumeRead, Parked
  <2> HIDE DEF v
  <2> QED  BY <1>1, <1>3, <2>1, <2>2 DEF Parked
<1>4. CASE w.rd = "fail_parked"
  <2> DEFINE v == [w EXCEPT !.rd = "fail_resumed"]
  <2>1. v \in Streams /\ v.rd \in Resumed /\ v.wr = w.wr /\ v.closing = w.closing
    BY DEF Streams, ReadStates, Resumed
  <2>2. ResumeRead(w) = Post(v, "rd")
    BY <1>4 DEF ResumeRead, Parked
  <2> HIDE DEF v
  <2> QED  BY <1>1, <1>4, <2>1, <2>2 DEF Parked
<1>5. CASE w.rd \notin Parked
  <2>1. ResumeRead(w) = w
    BY <1>5 DEF ResumeRead, Parked
  <2> QED  BY <2>1 DEF Later
<1> QED  BY <1>2, <1>3, <1>4, <1>5 DEF Parked

LEMMA FinishWriteLater ==
  ASSUME NEW w \in Streams, Calm(w)
  PROVE  Later(w, FinishWrite(w))
<1> DEFINE v == Release([w EXCEPT !.wr = "none", !.frames = 0], "wr")
<1>1. v \in Streams /\ v.wr = "none" /\ v.rd = w.rd /\ v.closing = w.closing
  BY DEF Release, Streams, WriteStates
<1>2. FinishWrite(w) = ResumeRead(v)
  BY DEF FinishWrite
<1> HIDE DEF v
<1>3. Later(w, v)
  BY <1>1 DEF Calm, Later
<1> QED  BY <1>1, <1>2, <1>3, ResumeReadLater, LaterTwice DEF Later

\* A write that has been in the socket has not seen the stream close.
LEMMA NextFrameLater ==
  ASSUME NEW w \in Streams, Calm(w), w.wr = "writing", w.frames > 1
  PROVE  Later(w, NextFrame(w))
<1> DEFINE v == Release([w EXCEPT !.frames = w.frames - 1], "wr")
<1>1. v \in Streams /\ v.wr = "writing" /\ v.rd = w.rd /\ v.closing = w.closing
  <2>1. w.frames - 1 \in Nat
    BY DEF Streams
  <2> QED  BY <2>1 DEF Release, Streams
<1>2. NextFrame(w) = IF w.rd \in Parked THEN Post([ResumeRead(v) EXCEPT !.wr = "again"], "wr")
                                         ELSE Write(v)
  BY DEF NextFrame
<1> HIDE DEF v
<1>3. ~ w.closing /\ Calm(v)
  BY <1>1 DEF Calm
<1>4. CASE w.rd \in Parked
  <2> DEFINE u == [ResumeRead(v) EXCEPT !.wr = "again"]
  <2>1. ResumeRead(v) \in Streams /\ Calm(ResumeRead(v)) /\ ~ ResumeRead(v).closing
    BY <1>1, <1>3, ResumeReadLater DEF Later
  <2>2. u \in Streams /\ Calm(u)
    BY <2>1 DEF Streams, WriteStates, Calm
  <2>3. NextFrame(w) = Post(u, "wr")
    BY <1>2, <1>4
  <2> HIDE DEF u
  <2> QED  BY <1>3, <2>2, <2>3, PostLater DEF Later
<1>5. CASE w.rd \notin Parked
  BY <1>1, <1>2, <1>3, <1>5 DEF Write, Streams, Calm, Later
<1> QED  BY <1>4, <1>5

\* A read answers only while no write is in the socket.
LEMMA AnswerLater ==
  ASSUME NEW w \in Streams, Calm(w), Turns(w), w.rd = "header"
  PROVE  \A v \in {AnswerPing(w), AnswerClose(w), AnswerBad(w)} : Later(w, v)
<1>1. ~ w.closing
  BY DEF Calm
<1>2. CASE w.block # "none"
  BY <1>1, <1>2 DEF AnswerPing, AnswerClose, AnswerBad, Streams, Calm, Later
<1>3. CASE w.block = "none"
  <2>1. w.wr # "writing"
    BY <1>3 DEF Turns
  <2> QED
    BY <1>1, <1>3, <2>1 DEF AnswerPing, AnswerClose, AnswerBad, Pong, Fail, Close, Streams, Calm, Later
<1> QED  BY <1>2, <1>3

-----------------------------------------------------------------------------
(***************************************************************************)
(* The actions, by what they do to the wire.                               *)
(***************************************************************************)
LEMMA SilentStep ==
  ASSUME ClosingInv, Later(stream, stream'), wire' = wire
  PROVE  ClosingInv'
  BY DEF ClosingInv, Later, CloseSent, CloseIsLast

\* A frame is sent while the stream does not close, or is the close frame.
LEMMA FrameStep ==
  ASSUME ClosingInv, NEW f \in WireFrame, wire' = Append(wire, f), ~ CloseSent,
         Calm(stream'), f.op = "close" => stream'.closing /\ stream'.rd # "close"
  PROVE  ClosingInv'
<1>1. wire \in Seq(WireFrame) /\ Len(wire) \in Nat /\ DOMAIN wire = 1 .. Len(wire)
  BY LenProperties DEF ClosingInv
<1>2. /\ wire' \in Seq(WireFrame) /\ Len(wire') = Len(wire) + 1
      /\ DOMAIN wire' = 1 .. Len(wire) + 1
      /\ \A i \in 1 .. Len(wire) : wire'[i] = wire[i]
      /\ wire'[Len(wire) + 1] = f
  BY <1>1
<1>3. \A i \in DOMAIN wire' : wire'[i].op = "close" => i = Len(wire') /\ f.op = "close"
  BY <1>1, <1>2 DEF CloseSent
<1> QED  BY <1>2, <1>3 DEF ClosingInv, CloseSent, CloseIsLast

\* The session's code, which writes or starts a read, and disconnect.
LEMMA CodeLater ==
  ASSUME ConnectionInv, NEW w, Handled(w), Calm(w)
  PROVE  /\ Put(w) => Later(w, stream')
         /\ \A message : Interpret(w, message) => Later(w, stream')
<1>1. ASSUME Put(w)
      PROVE  Later(w, stream')
  <2>1. stream' = IF busy THEN w ELSE StartWrite(w, Frames(accepted + 1))
    BY <1>1 DEF Put
  <2>2. CASE ~ busy
    <3>1. w \in Streams /\ w.wr = "none" /\ Frames(accepted + 1) \in Nat
      BY <2>2 DEF Handled, Frames, ConnectionInv, QueueInv, NothingForgotten
    <3> QED  BY <2>1, <2>2, <3>1, StartWriteLater
  <2>3. CASE busy
    BY <2>1, <2>3 DEF Later
  <2> QED  BY <2>2, <2>3
<1> QED  BY <1>1 DEF Interpret, Later

LEMMA QuietSteps ==
  ASSUME ClosingInv, UNCHANGED <<stream, wire>>
  PROVE  ClosingInv'
  BY DEF ClosingInv, CloseSent, CloseIsLast

LEMMA ReadHandlerSilent ==
  ASSUME ConnectionInv, ClosingInv, Payload
  PROVE  ClosingInv'
<1> DEFINE w == FinishRead(stream)
<1>1. stream \in Streams /\ Turns(stream) /\ Calm(stream) /\ stream.rd = "payload" /\ wire' = wire
  BY DEF ConnectionInv, QueueInv, ClosingInv, Payload, Reading, TakeFrame
<1>2. /\ w \in Streams /\ Turns(w) /\ w.rd = "none" /\ (w.wr = "none" <=> stream.wr = "none")
      /\ Calm(w) /\ ~ w.closing /\ ~ stream.closing
  BY <1>1, FinishReadTurns, FinishReadLater DEF Calm, Later
<1>3. \/ stream' = StartRead(w)
      \/ \E message : Interpret(StartRead(w), message)
  BY DEF Payload, ReadHandler
<1> HIDE DEF w
<1>4. Handled(StartRead(w)) /\ Calm(StartRead(w))
  BY <1>2, StartReadTurns, StartReadLater DEF Handled, Later
<1>5. Calm(stream')
  BY <1>3, <1>4, CodeLater DEF Later
<1> QED  BY <1>1, <1>2, <1>5, SilentStep DEF Later

LEMMA HeaderSilent ==
  ASSUME ConnectionInv, ClosingInv, Header
  PROVE  ClosingInv'
<1>1. stream \in Streams /\ Turns(stream) /\ Calm(stream) /\ stream.rd = "header" /\ wire' = wire
  BY DEF ConnectionInv, QueueInv, ClosingInv, Header, Reading, TakeFrame, peerVars
<1>2. \/ stream' = [stream EXCEPT !.rd = "payload"]
      \/ stream' = stream
      \/ stream' \in {AnswerPing(stream), AnswerClose(stream), AnswerBad(stream)}
  BY DEF Header
<1>3. CASE stream' = [stream EXCEPT !.rd = "payload"]
  BY <1>1, <1>3, SilentStep DEF Streams, Calm, Later
<1>4. CASE stream' = stream
  BY <1>1, <1>4, QuietSteps
<1> QED  BY <1>1, <1>2, <1>3, <1>4, AnswerLater, SilentStep

LEMMA AnsweredWire ==
  ASSUME ConnectionInv, ClosingInv, PongWritten \/ CloseWritten
  PROVE  ClosingInv'
<1>1. stream \in Streams /\ Turns(stream) /\ Calm(stream) /\ (CloseSent => stream.closing /\ stream.rd # "close")
  BY DEF ConnectionInv, QueueInv, ClosingInv
<1>2. CASE PongWritten
  <2> DEFINE f == [op |-> "pong", n |-> 0]
  <2>1. /\ stream.rd = "pong" /\ stream' = [Release(stream, "rd") EXCEPT !.rd = "header"]
        /\ wire' = Append(wire, f)
    BY <1>2 DEF PongWritten, Reading
  <2>2. ~ stream.closing /\ ~ CloseSent
    BY <1>1, <2>1 DEF Calm
  <2>3. Calm(stream')
    BY <1>1, <2>1, <2>2 DEF Release, Streams, Calm
  <2>4. f \in WireFrame /\ f.op # "close"
    BY DEF WireFrame
  <2> HIDE DEF f
  <2> QED  BY <2>1, <2>2, <2>3, <2>4, FrameStep
<1>3. CASE CloseWritten
  <2> DEFINE f == [op |-> "close", n |-> 0]
  <2>1. /\ stream.rd = "close" /\ stream' = [stream EXCEPT !.rd = "teardown"]
        /\ wire' = Append(wire, f)
    BY <1>3 DEF CloseWritten, Reading
  <2>2. stream.closing /\ ~ CloseSent
    BY <1>1, <2>1 DEF Calm
  <2>3. Calm(stream') /\ stream'.closing /\ stream'.rd = "teardown"
    BY <1>1, <2>1, <2>2 DEF Streams, Calm
  <2>4. f \in WireFrame
    BY DEF WireFrame
  <2> HIDE DEF f
  <2> QED  BY <2>1, <2>2, <2>3, <2>4, FrameStep
<1> QED  BY <1>2, <1>3

LEMMA FailedLater ==
  ASSUME NEW w \in Streams, Calm(w)
  PROVE  LET v == [w EXCEPT !.failed = TRUE]
         IN  v \in Streams /\ Later(w, v) /\ Calm(v)
  BY DEF Streams, Calm, Later

\* An operation has ended in a stream w that is later than the one before.
LEMMA EndedSilent ==
  ASSUME ClosingInv, NEW w \in Streams, Later(stream, w), wire' = wire,
         Disconnect(FinishRead(w)) \/ Disconnect(FinishWrite(w))
  PROVE  ClosingInv'
<1>1. stream' \in {FinishRead(w), FinishWrite(w)}
  BY DEF Disconnect
<1>2. Later(w, stream')
  BY <1>1, FinishReadLater, FinishWriteLater DEF Later
<1> QED  BY <1>2, LaterTwice, SilentStep

LEMMA ReadEndsSilent ==
  ASSUME ConnectionInv, ClosingInv, TornDown \/ ReadFails \/ WriteFails
  PROVE  ClosingInv'
<1>1. stream \in Streams /\ Calm(stream) /\ wire' = wire
  BY DEF ConnectionInv, QueueInv, ClosingInv, TornDown, ReadFails, WriteFails, peerVars
<1>2. Later(stream, stream)
  BY <1>1 DEF Later
<1> QED
  BY <1>1, <1>2, FailedLater, EndedSilent DEF TornDown, ReadFails, WriteFails

LEMMA FrameWrittenWire ==
  ASSUME ConnectionInv, ClosingInv, FrameWritten
  PROVE  ClosingInv'
<1>1. /\ stream \in Streams /\ Turns(stream) /\ Calm(stream) /\ stream.wr = "writing"
      /\ queue \in Seq(Nat) /\ queue # << >>
  BY DEF ConnectionInv, QueueInv, NothingForgotten, ClosingInv, FrameWritten, Writing
<1>2. ~ stream.closing /\ ~ CloseSent
  BY <1>1 DEF Calm, ClosingInv
<1>3. Head(queue) \in Nat
  BY <1>1
<1>4. Calm(stream')
  <2>1. CASE stream.frames > 1 /\ stream' = NextFrame(stream)
    BY <1>1, <2>1, NextFrameLater DEF Later
  <2>2. CASE WriteHandler(FinishWrite(stream))
    <3> DEFINE w == FinishWrite(stream)
    <3>1. w \in Streams /\ w.wr = "none" /\ Calm(w)
      BY <1>1, FinishWriteTurns, FinishWriteLater DEF Later
    <3>2. \/ stream' = w
          \/ stream' = StartWrite(w, Frames(Head(queue')))
      BY <2>2 DEF WriteHandler
    <3> HIDE DEF w
    <3>3. Frames(Head(queue')) \in Nat
      BY DEF Frames
    <3> QED  BY <3>1, <3>2, <3>3, StartWriteLater DEF Later
  <2> QED  BY <2>1, <2>2 DEF FrameWritten
<1>5. PICK f \in WireFrame : wire' = Append(wire, f) /\ f.op # "close"
  <2>1. \E op \in {"part", "text"} : wire' = Append(wire, [op |-> op, n |-> Head(queue)])
    BY DEF FrameWritten
  <2> QED  BY <1>3, <2>1 DEF WireFrame
<1> QED  BY <1>2, <1>4, <1>5, FrameStep

LEMMA RunPostedSilent ==
  ASSUME ConnectionInv, ClosingInv, RunPosted
  PROVE  ClosingInv'
<1> DEFINE w == [stream EXCEPT !.posted = Tail(@)]
<1>1. /\ stream \in Streams /\ Turns(stream) /\ Calm(stream) /\ stream.posted # << >>
      /\ wire' = wire /\ (ResumedRead(w) \/ ResumedWrite(w))
  BY DEF ConnectionInv, QueueInv, ClosingInv, RunPosted, peerVars
<1>2. w \in Streams /\ Turns(w)
  BY <1>1, TailTurns
<1>3. Later(stream, w) /\ Calm(w)
  BY <1>1 DEF Streams, Calm, Later
<1> HIDE DEF w
<1>4. CASE Disconnect(FinishRead(w)) \/ Disconnect(FinishWrite(w))
  BY <1>1, <1>2, <1>3, <1>4, EndedSilent
<1>5. ASSUME Later(w, stream')
      PROVE  ClosingInv'
  BY <1>1, <1>3, <1>5, LaterTwice, SilentStep
<1>6. CASE w.rd = "pong_resumed" /\ stream' = Pong(w)
  BY <1>2, <1>3, <1>5, <1>6 DEF Pong, Streams, Calm, Later
<1>7. CASE w.rd = "close_resumed" /\ stream' = Close(w)
  <2>1. w.wr # "writing" /\ ~ w.closing
    BY <1>2, <1>3, <1>7 DEF Turns, Calm
  <2> QED  BY <1>2, <1>5, <1>7, <2>1 DEF Close, Streams, Calm, Later
<1>8. CASE w.rd = "fail_resumed" /\ w.block = "none" /\ stream' = Fail(w)
  <2>1. w.wr # "writing" /\ ~ w.closing
    BY <1>2, <1>3, <1>8 DEF Turns, Calm
  <2> QED  BY <1>2, <1>5, <1>8, <2>1 DEF Fail, Close, Streams, Calm, Later
<1>9. CASE stream' = w
  BY <1>3, <1>5, <1>9 DEF Later
<1>10. CASE ~ w.closing /\ stream' = Write(w)
  BY <1>2, <1>3, <1>5, <1>10 DEF Write, Streams, Calm, Later
<1>11. CASE w.wr = "again" /\ stream' = MaybeSuspend(w)
  BY <1>2, <1>3, <1>5, <1>11, MaybeSuspendLater
<1> QED
  BY <1>1, <1>4, <1>6, <1>7, <1>8, <1>9, <1>10, <1>11 DEF ResumedRead, ResumedWrite

LEMMA UpgradeSilent ==
  ASSUME ConnectionInv, ClosingInv, Upgrade
  PROVE  ClosingInv'
<1> DEFINE w == StartWrite(stream, Frames(1))
<1>1. stream = Fresh /\ stream' = StartRead(w) /\ wire' = wire
  BY DEF ConnectionInv, Upgrade, peerVars
<1>2. stream \in Streams /\ Turns(stream) /\ Calm(stream) /\ stream.wr = "none" /\ ~ stream.closing
  BY <1>1, FreshTurns DEF Fresh, ClosingInv
<1>3. Frames(1) \in Nat
  BY DEF Frames
<1>4. w \in Streams /\ Later(stream, w)
  BY <1>2, <1>3, StartWriteTurns, StartWriteLater
<1>5. w = Write([stream EXCEPT !.frames = Frames(1)])
  BY <1>1 DEF StartWrite, MaybeSuspend, Fresh
<1>6. ~ w.closing
  BY <1>1, <1>5 DEF Write, Fresh
<1> HIDE DEF w
<1> QED  BY <1>1, <1>4, <1>6, StartReadLater, LaterTwice, SilentStep DEF Later

LEMMA NextClosing ==
  ASSUME ConnectionInv, ClosingInv, [Next]_vars
  PROVE  ClosingInv'
<1>1. CASE Send
  <2>1. Handled(stream) /\ Calm(stream) /\ Put(stream) /\ wire' = wire
    BY <1>1 DEF Send, peerVars, Handled, ConnectionInv, QueueInv, ClosingInv
  <2> QED  BY <2>1, CodeLater, SilentStep
<1>2. CASE Upgrade \/ ReadStep \/ WriteStep \/ RunPosted
  BY <1>2, UpgradeSilent, HeaderSilent, ReadHandlerSilent, AnsweredWire, ReadEndsSilent,
     FrameWrittenWire, RunPostedSilent DEF ReadStep, WriteStep
<1>3. CASE UpgradeFails \/ PeerSends \/ PeerCloses \/ PeerLeaves \/ PeerBreaks
  BY <1>3, QuietSteps DEF UpgradeFails, PeerSends, PeerCloses, PeerLeaves, PeerBreaks, sessionVars, peerVars
<1>4. CASE ServerNext \/ UNCHANGED vars
  BY <1>4, QuietSteps
  DEF ServerNext, Accept, AcceptFails, Stop, CloseAcceptor, Join, vars, sessionVars, peerVars
<1> QED  BY <1>1, <1>2, <1>3, <1>4 DEF Next, SessionNext

LEMMA ClosingAlways == Spec => []ClosingInv
<1>1. Init => ClosingInv
  BY FreshTurns DEF Init, SessionInit, ClosingInv, Calm, Fresh, CloseSent, CloseIsLast
<1>2. ConnectionInv /\ ClosingInv /\ [Next]_vars => ClosingInv'
  BY NextClosing
<1> QED  BY <1>1, <1>2, ConnectionAlways, PTL DEF Spec

(***************************************************************************)
(* Whatever operations wait for each other, nothing follows the server's   *)
(* close frame: not the pong or second close of a read that was parked,    *)
(* not a write that was, and not the rest of a message in two frames.      *)
(***************************************************************************)
THEOREM NothingAfterClose == Spec => []CloseIsLast
<1>1. ClosingInv => CloseIsLast
  BY DEF ClosingInv
<1> QED  BY <1>1, ClosingAlways, PTL

-----------------------------------------------------------------------------
(***************************************************************************)
(* HarmlessWhileOpen.  Whatever makes a read or a write give up, or the    *)
(* stream close, is the client's leaving or a failure of the socket; both  *)
(* are for good.  The bound on the frames is for TypeOK.                   *)
(***************************************************************************)
Gone == peer \notin {"none", "open"}
Ending == {"aborted", "close_parked", "close_resumed", "close", "teardown"}

Sound(w, gone) ==
  /\ w.frames <= 2
  /\ gone \/ w.failed \/ (w.rd \notin Ending /\ w.wr # "aborted" /\ ~ w.closing)

CloseComing == \E i \in DOMAIN toServer : toServer[i].op = "close"

BlameInv ==
  /\ toServer \in Seq(Frame) /\ sent \in 0 .. MaxIn
  /\ Sound(stream, Gone)
  /\ CloseComing => Gone
  /\ session = "open" /\ ~ registered => Gone \/ stream.failed
  /\ fault \notin {"none", "bad_message"} => Gone \/ stream.failed \/ stream.rd = "fail_resumed"

\* A stream that has been sound stays so, and does not recover.
Worse(w, v, gone) == v \in Streams /\ Sound(v, gone) /\ (w.failed => v.failed)

LEMMA PostSound ==
  ASSUME NEW w \in Streams, NEW op \in {"rd", "wr"}, NEW gone \in BOOLEAN, Sound(w, gone)
  PROVE  Worse(w, Post(w, op), gone)
<1>1. Append(w.posted, op) \in Seq({"rd", "wr"})
  BY DEF Streams
<1> QED  BY <1>1 DEF Post, Streams, Sound, Worse

LEMMA MaybeSuspendSound ==
  ASSUME NEW w \in Streams, NEW gone \in BOOLEAN, Sound(w, gone)
  PROVE  Worse(w, MaybeSuspend(w), gone)
<1>1. CASE w.block # "none"
  BY <1>1 DEF MaybeSuspend, Streams, WriteStates, Sound, Worse
<1>2. CASE w.block = "none" /\ (w.failed \/ w.closing)
  <2> DEFINE v == [w EXCEPT !.wr = "aborted"]
  <2>1. v \in Streams /\ Sound(v, gone) /\ v.failed = w.failed
    BY <1>2 DEF Streams, WriteStates, Sound
  <2>2. MaybeSuspend(w) = Post(v, "wr")
    BY <1>2 DEF MaybeSuspend
  <2> HIDE DEF v
  <2> QED  BY <2>1, <2>2, PostSound DEF Worse
<1>3. CASE w.block = "none" /\ ~ (w.failed \/ w.closing)
  BY <1>3 DEF MaybeSuspend, Write, Streams, WriteStates, Sound, Worse
<1> QED  BY <1>1, <1>2, <1>3

LEMMA StartWriteSound ==
  ASSUME NEW w \in Streams, NEW gone \in BOOLEAN, Sound(w, gone), NEW m
  PROVE  Worse(w, StartWrite(w, Frames(m)), gone)
<1> DEFINE v == [w EXCEPT !.frames = Frames(m)]
<1>1. Frames(m) \in Nat /\ Frames(m) <= 2
  BY DEF Frames
<1>2. v \in Streams /\ Sound(v, gone) /\ v.failed = w.failed
  BY <1>1 DEF Streams, Sound
<1>3. StartWrite(w, Frames(m)) = MaybeSuspend(v)
  BY DEF StartWrite
<1> HIDE DEF v
<1> QED  BY <1>2, <1>3, MaybeSuspendSound DEF Worse

LEMMA StartReadSound ==
  ASSUME NEW w \in Streams, NEW gone \in BOOLEAN, Sound(w, gone)
  PROVE  Worse(w, StartRead(w), gone)
<1>1. CASE w.failed
  <2> DEFINE v == [w EXCEPT !.rd = "aborted"]
  <2>1. v \in Streams /\ Sound(v, gone) /\ v.failed = w.failed
    BY <1>1 DEF Streams, ReadStates, Sound
  <2>2. StartRead(w) = Post(v, "rd")
    BY <1>1 DEF StartRead
  <2> HIDE DEF v
  <2> QED  BY <2>1, <2>2, PostSound DEF Worse
<1>2. CASE ~ w.failed
  BY <1>2 DEF StartRead, Streams, ReadStates, Ending, Sound, Worse
<1> QED  BY <1>1, <1>2

LEMMA FinishReadSound ==
  ASSUME NEW w \in Streams, NEW gone \in BOOLEAN, Sound(w, gone)
  PROVE  Worse(w, FinishRead(w), gone)
<1> DEFINE v == Release([w EXCEPT !.rd = "none"], "rd")
<1>1. v \in Streams /\ Sound(v, gone) /\ v.failed = w.failed
  BY DEF Release, Streams, ReadStates, Ending, Sound
<1>2. FinishRead(w) = ResumeWrite(v)
  BY DEF FinishRead
<1> HIDE DEF v
<1>3. CASE v.wr = "parked"
  <2> DEFINE u == [v EXCEPT !.wr = "resumed", !.block = "wr"]
  <2>1. u \in Streams /\ Sound(u, gone) /\ u.failed = v.failed
    BY <1>1 DEF Streams, WriteStates, Sound
  <2>2. FinishRead(w) = Post(u, "wr")
    BY <1>2, <1>3 DEF ResumeWrite
  <2> HIDE DEF u
  <2> QED  BY <1>1, <2>1, <2>2, PostSound DEF Worse
<1>4. CASE v.wr # "parked"
  BY <1>1, <1>2, <1>4 DEF ResumeWrite, Worse
<1> QED  BY <1>3, <1>4

LEMMA ResumeReadSound ==
  ASSUME NEW w \in Streams, NEW gone \in BOOLEAN, Sound(w, gone)
  PROVE  Worse(w, ResumeRead(w), gone)
<1>1. ASSUME NEW v \in Streams, Sound(v, gone), v.failed = w.failed, ResumeRead(w) = Post(v, "rd")
      PROVE  Worse(w, ResumeRead(w), gone)
  BY <1>1, PostSound DEF Worse
<1>2. CASE w.rd = "pong_parked"
  <2> DEFINE v == [w EXCEPT !.rd = "pong_resumed", !.block = "rd"]
  <2>1. v \in Streams /\ Sound(v, gone) /\ v.failed = w.failed
    BY <1>2 DEF Streams, ReadStates, Resumed, Ending, Sound
  <2>2. ResumeRead(w) = Post(v, "rd")
    BY <1>2 DEF ResumeRead, Parked
  <2> HIDE DEF v
  <2> QED  BY <1>1, <2>1, <2>2
<1>3. CASE w.rd = "close_parked"
  <2> DEFINE v == [w EXCEPT !.rd = "close_resumed", !.block = "rd"]
  <2>1. v \in Streams /\ Sound(v, gone) /\ v.failed = w.failed
    BY <1>3 DEF Streams, ReadStates, Resumed, Ending, Sound
  <2>2. ResumeRead(w) = Post(v, "rd")
    BY <1>3 DEF ResumeRead, Parked
  <2> HIDE DEF v
  <2> QED  BY <1>1, <2>1, <2>2
<1>4. CASE w.rd = "fail_parked"
  <2> DEFINE v == [w EXCEPT !.rd = "fail_resumed"]
  <2>1. v \in Streams /\ Sound(v, gone) /\ v.failed = w.failed
    BY <1>4 DEF Streams, ReadStates, Resumed, Ending, Sound
  <2>2. ResumeRead(w) = Post(v, "rd")
    BY <1>4 DEF ResumeRead, Parked
  <2> HIDE DEF v
  <2> QED  BY <1>1, <2>1, <2>2
<1>5. CASE w.rd \notin Parked
  <2>1. ResumeRead(w) = w
    BY <1>5 DEF ResumeRead, Parked
  <2> QED  BY <2>1 DEF Worse
<1> QED  BY <1>2, <1>3, <1>4, <1>5 DEF Parked

LEMMA FinishWriteSound ==
  ASSUME NEW w \in Streams, NEW gone \in BOOLEAN, Sound(w, gone)
  PROVE  Worse(w, FinishWrite(w), gone)
<1> DEFINE v == Release([w EXCEPT !.wr = "none", !.frames = 0], "wr")
<1>1. v \in Streams /\ Sound(v, gone) /\ v.failed = w.failed
  <2> DEFINE x == [w EXCEPT !.wr = "none", !.frames = 0]
  <2>1. /\ x \in Streams /\ x.wr = "none" /\ x.frames = 0 /\ x.rd = w.rd
        /\ x.failed = w.failed /\ x.closing = w.closing
    BY DEF Streams, WriteStates
  <2>2. v = Release(x, "wr")
    OBVIOUS
  <2> HIDE DEF x
  <2>3. v \in Streams /\ v.frames <= 2 /\ v.failed = x.failed /\ v.rd = x.rd
        /\ v.wr = x.wr /\ v.closing = x.closing
    BY <2>1, <2>2 DEF Release, Streams
  <2> HIDE DEF v
  <2> QED  BY <2>1, <2>3 DEF Sound
<1>2. FinishWrite(w) = ResumeRead(v)
  BY DEF FinishWrite
<1> HIDE DEF v
<1> QED  BY <1>1, <1>2, ResumeReadSound DEF Worse

LEMMA NextFrameSound ==
  ASSUME NEW w \in Streams, NEW gone \in BOOLEAN, Sound(w, gone), w.frames > 1
  PROVE  Worse(w, NextFrame(w), gone)
<1> DEFINE v == Release([w EXCEPT !.frames = w.frames - 1], "wr")
<1>1. v \in Streams /\ Sound(v, gone) /\ v.failed = w.failed /\ v.rd = w.rd
  <2>1. w.frames - 1 \in Nat /\ w.frames - 1 <= 2
    BY DEF Streams, Sound
  <2> QED  BY <2>1 DEF Release, Streams, Sound
<1>2. NextFrame(w) = IF w.rd \in Parked THEN Post([ResumeRead(v) EXCEPT !.wr = "again"], "wr")
                                         ELSE Write(v)
  BY DEF NextFrame
<1> HIDE DEF v
<1>3. CASE w.rd \in Parked
  <2> DEFINE u == [ResumeRead(v) EXCEPT !.wr = "again"]
  <2>1. Worse(v, ResumeRead(v), gone)
    BY <1>1, ResumeReadSound
  <2>2. u \in Streams /\ Sound(u, gone) /\ (w.failed => u.failed)
    BY <1>1, <2>1 DEF Streams, WriteStates, Sound, Worse
  <2>3. NextFrame(w) = Post(u, "wr")
    BY <1>2, <1>3
  <2> HIDE DEF u
  <2> QED  BY <2>2, <2>3, PostSound DEF Worse
<1>4. CASE w.rd \notin Parked
  BY <1>1, <1>2, <1>4 DEF Write, Streams, WriteStates, Sound, Worse
<1> QED  BY <1>3, <1>4

\* What a step may do to the frames that are coming.
Fewer == toServer' \in Seq(Frame) /\ sent' \in 0 .. MaxIn /\ (CloseComing' => CloseComing \/ Gone')

LEMMA TakenIsFewer ==
  ASSUME BlameInv, toServer # << >>, toServer' = Tail(toServer), sent' = sent
  PROVE  Fewer
<1>1. toServer \in Seq(Frame) /\ Len(toServer) \in Nat \ {0}
  BY LenProperties DEF BlameInv
<1>2. /\ toServer' \in Seq(Frame) /\ Len(toServer') = Len(toServer) - 1
      /\ \A i \in 1 .. Len(toServer) - 1 : toServer'[i] = toServer[i + 1]
  BY <1>1
<1>3. DOMAIN toServer = 1 .. Len(toServer) /\ DOMAIN toServer' = 1 .. Len(toServer) - 1
  BY <1>1, <1>2, LenProperties
<1>4. \A i \in DOMAIN toServer' : i + 1 \in DOMAIN toServer /\ toServer'[i] = toServer[i + 1]
  BY <1>1, <1>2, <1>3
<1> QED  BY <1>2, <1>4 DEF Fewer, CloseComing, BlameInv

\* What a step must not do to BlameInv.
LEMMA BlameStep ==
  ASSUME BlameInv, Fewer, Sound(stream', Gone'), Gone => Gone', stream.failed => stream'.failed,
         session' = "open" /\ ~ registered' =>
           \/ session = "open" /\ ~ registered
           \/ Gone' \/ stream'.failed,
         fault' \notin {"none", "bad_message"} =>
           \/ fault' = fault /\ stream'.rd = stream.rd
           \/ stream'.rd = "fail_resumed"
           \/ session = "open" /\ ~ registered
           \/ Gone' \/ stream'.failed
  PROVE  BlameInv'
  BY DEF BlameInv, Fewer

\* The session's code is run on a stream w that has got no better.
LEMMA CodeBlame ==
  ASSUME ConnectionInv, BlameInv, Worse(stream, stream', Gone), session = "open",
         UNCHANGED <<session, registered, peer>>, Fewer,
         fault' \notin {fault, "bad_message"} => ~ registered, fault = "none"
  PROVE  BlameInv'
<1>1. Gone' = Gone
  BY DEF Gone
<1> QED  BY <1>1, BlameStep DEF Worse

\* Disconnect is called when the client has gone or the stream has failed.
LEMMA DisconnectBlame ==
  ASSUME BlameInv, NEW w \in Streams, Sound(w, Gone), stream.failed => w.failed,
         Disconnect(FinishRead(w)) \/ Disconnect(FinishWrite(w)),
         Gone \/ w.failed, peer' = peer, fault = "none", Fewer
  PROVE  BlameInv'
<1>1. Gone' = Gone /\ Gone \in BOOLEAN
  BY DEF Gone
<1>2. Worse(w, stream', Gone)
  BY <1>1, FinishReadSound, FinishWriteSound DEF Disconnect
<1> QED  BY <1>1, <1>2, BlameStep DEF Worse

\* Interpret and Put leave a stream that is no better than the one they get.
LEMMA CodeSound ==
  ASSUME NEW w \in Streams, Sound(w, Gone)
  PROVE  /\ Put(w) => Worse(w, stream', Gone)
         /\ \A message : Interpret(w, message) =>
              /\ Worse(w, stream', Gone)
              /\ fault' \notin {fault, "bad_message"} => ~ registered
<1>1. Gone \in BOOLEAN /\ Worse(w, w, Gone)
  BY DEF Gone, Worse
<1>2. Put(w) => Worse(w, stream', Gone)
  BY <1>1, StartWriteSound DEF Put
<1> QED  BY <1>1, <1>2 DEF Interpret

LEMMA PayloadBlame ==
  ASSUME ConnectionInv, BlameInv, Payload
  PROVE  BlameInv'
<1> DEFINE w == FinishRead(stream)
           v == StartRead(w)
<1>1. /\ stream \in Streams /\ Sound(stream, Gone) /\ Gone \in BOOLEAN
      /\ session = "open" /\ fault = "none" /\ UNCHANGED <<session, registered, peer>>
      /\ toServer # << >> /\ toServer' = Tail(toServer) /\ sent' = sent
  BY DEF ConnectionInv, QueueInv, BlameInv, Payload, Reading, TakeFrame, ReadHandler, Gone
<1>2. Worse(stream, w, Gone)
  BY <1>1, FinishReadSound
<1>3. Worse(w, v, Gone)
  BY <1>2, <1>1, StartReadSound DEF Worse
<1>4. \/ stream' = v /\ UNCHANGED fault
      \/ \E message : Interpret(v, message)
  BY DEF Payload, ReadHandler
<1> HIDE DEF w, v
<1>5. Worse(v, stream', Gone) /\ (fault' \notin {fault, "bad_message"} => ~ registered)
  BY <1>3, <1>4, CodeSound DEF Worse
<1>6. Fewer
  BY <1>1, TakenIsFewer
<1> QED  BY <1>1, <1>2, <1>3, <1>5, <1>6, CodeBlame DEF Worse

LEMMA HeaderBlame ==
  ASSUME ConnectionInv, BlameInv, Header
  PROVE  BlameInv'
<1>1. /\ stream \in Streams /\ Sound(stream, Gone) /\ Gone \in BOOLEAN
      /\ session = "open" /\ fault = "none" /\ stream.rd = "header" /\ QuietSession
      /\ peer' = peer /\ toServer # << >> /\ sent' = sent /\ toServer' \in {toServer, Tail(toServer)}
  BY DEF ConnectionInv, QueueInv, BlameInv, Header, Reading, TakeFrame, peerVars, Gone
<1>2. CloseComing \/ Head(toServer).op # "close"
  <2>1. 1 \in DOMAIN toServer
    BY <1>1 DEF BlameInv
  <2> QED  BY <2>1 DEF CloseComing
<1>3. Fewer
  <2>1. CASE toServer' = toServer
    BY <1>1, <2>1 DEF Fewer, CloseComing, BlameInv
  <2> QED  BY <1>1, <2>1, TakenIsFewer
<1>4. Worse(stream, stream', Gone)
  <2>1. CASE stream' = [stream EXCEPT !.rd = "payload"]
    BY <1>1, <2>1 DEF Streams, ReadStates, Ending, Sound, Worse
  <2>2. CASE stream' = stream
    BY <1>1, <2>2 DEF Worse
  <2>3. CASE stream' = AnswerPing(stream)
    BY <1>1, <2>3 DEF AnswerPing, Pong, Streams, ReadStates, Parked, Answering, Ending, Sound, Worse
  <2>4. CASE stream' = AnswerClose(stream) /\ Head(toServer).op = "close"
    <3>1. Gone
      BY <1>2, <2>4 DEF BlameInv
    <3> QED
      BY <1>1, <2>4, <3>1 DEF AnswerClose, Close, Streams, ReadStates, Parked, Answering, Sound, Worse
  <2>5. CASE stream' = AnswerBad(stream)
    BY <1>1, <2>5
    DEF AnswerBad, Fail, Close, Streams, ReadStates, Parked, Answering, Ending, Sound, Worse
  <2> QED  BY <2>1, <2>2, <2>3, <2>4, <2>5 DEF Header
<1> QED  BY <1>1, <1>3, <1>4, CodeBlame DEF QuietSession

LEMMA AnsweredBlame ==
  ASSUME ConnectionInv, BlameInv, PongWritten \/ CloseWritten
  PROVE  BlameInv'
<1>1. /\ stream \in Streams /\ Sound(stream, Gone)
      /\ session = "open" /\ fault = "none" /\ QuietSession /\ UNCHANGED <<peer, toServer, sent>>
  BY DEF ConnectionInv, QueueInv, BlameInv, PongWritten, CloseWritten, Reading
<1>2. Fewer
  BY <1>1 DEF Fewer, CloseComing, BlameInv
<1>3. CASE PongWritten
  <2>1. stream' = [Release(stream, "rd") EXCEPT !.rd = "header"]
    BY <1>3 DEF PongWritten
  <2>2. Worse(stream, stream', Gone)
    BY <1>1, <2>1 DEF Release, Streams, ReadStates, Ending, Sound, Worse
  <2> QED  BY <1>1, <1>2, <2>2, CodeBlame DEF QuietSession
<1>4. CASE CloseWritten
  <2>1. stream' = [stream EXCEPT !.rd = "teardown"] /\ stream.rd = "close"
    BY <1>4 DEF CloseWritten, Reading
  <2>2. Worse(stream, stream', Gone)
    BY <1>1, <2>1 DEF Streams, ReadStates, Answering, Ending, Sound, Worse
  <2> QED  BY <1>1, <1>2, <2>2, CodeBlame DEF QuietSession
<1> QED  BY <1>3, <1>4

LEMMA FailedSound ==
  ASSUME NEW w \in Streams, NEW gone \in BOOLEAN, Sound(w, gone)
  PROVE  /\ Worse(w, [w EXCEPT !.failed = TRUE], gone)
         /\ [w EXCEPT !.failed = TRUE].failed
  BY DEF Streams, Sound, Worse

LEMMA EndsBlame ==
  ASSUME ConnectionInv, BlameInv, TornDown \/ ReadFails \/ WriteFails
  PROVE  BlameInv'
<1>1. /\ stream \in Streams /\ Sound(stream, Gone) /\ Gone \in BOOLEAN
      /\ fault = "none" /\ UNCHANGED <<peer, sent>>
  BY DEF ConnectionInv, QueueInv, BlameInv, TornDown, ReadFails, WriteFails, Reading, Writing,
     peerVars, Gone
<1>2. CASE TornDown
  <2>1. Gone /\ Disconnect(FinishRead(stream)) /\ toServer' = << >>
    BY <1>2 DEF TornDown, Ended, Gone
  <2>2. Fewer
    BY <1>1, <2>1 DEF Fewer, CloseComing, BlameInv
  <2> QED  BY <1>1, <2>1, <2>2, DisconnectBlame
<1>3. CASE ReadFails \/ WriteFails
  <2> DEFINE w == [stream EXCEPT !.failed = TRUE]
  <2>1. (Disconnect(FinishRead(w)) \/ Disconnect(FinishWrite(w))) /\ toServer' = toServer
    BY <1>3 DEF ReadFails, WriteFails, peerVars
  <2>2. Fewer
    BY <1>1, <2>1 DEF Fewer, CloseComing, BlameInv
  <2>3. Worse(stream, w, Gone) /\ w.failed
    BY <1>1, FailedSound
  <2> HIDE DEF w
  <2> QED  BY <1>1, <2>1, <2>2, <2>3, DisconnectBlame DEF Worse
<1> QED  BY <1>2, <1>3

LEMMA FrameWrittenBlame ==
  ASSUME ConnectionInv, BlameInv, FrameWritten
  PROVE  BlameInv'
<1>1. /\ stream \in Streams /\ Sound(stream, Gone) /\ Gone \in BOOLEAN
      /\ session = "open" /\ fault = "none" /\ UNCHANGED <<session, registered, fault>>
      /\ UNCHANGED <<peer, toServer, sent>>
  BY DEF ConnectionInv, QueueInv, BlameInv, FrameWritten, Writing, Gone, QuietSession
<1>2. Fewer
  BY <1>1 DEF Fewer, CloseComing, BlameInv
<1>3. Worse(stream, stream', Gone)
  <2>1. CASE stream.frames > 1 /\ stream' = NextFrame(stream)
    BY <1>1, <2>1, NextFrameSound
  <2>2. CASE WriteHandler(FinishWrite(stream))
    <3>1. Worse(stream, FinishWrite(stream), Gone)
      BY <1>1, FinishWriteSound
    <3>2. \/ stream' = FinishWrite(stream)
          \/ stream' = StartWrite(FinishWrite(stream), Frames(Head(queue')))
      BY <2>2 DEF WriteHandler
    <3> QED  BY <1>1, <3>1, <3>2, StartWriteSound DEF Worse
  <2> QED  BY <2>1, <2>2 DEF FrameWritten
<1> QED  BY <1>1, <1>2, <1>3, CodeBlame

LEMMA RunPostedBlame ==
  ASSUME ConnectionInv, BlameInv, RunPosted
  PROVE  BlameInv'
<1> DEFINE w == [stream EXCEPT !.posted = Tail(@)]
<1>1. /\ stream \in Streams /\ Turns(stream) /\ Sound(stream, Gone) /\ Gone \in BOOLEAN
      /\ stream.posted # << >> /\ fault = "none" /\ UNCHANGED <<peer, toServer, sent>>
      /\ (ResumedRead(w) \/ ResumedWrite(w))
  BY DEF ConnectionInv, QueueInv, BlameInv, RunPosted, peerVars, Gone
<1>2. session = "open"
  BY <1>1 DEF ConnectionInv, Fresh
<1>3. w \in Streams
  BY <1>1, TailTurns
<1>4. Worse(stream, w, Gone)
  BY <1>1, <1>3 DEF Streams, Sound, Worse
<1>5. Fewer
  BY <1>1 DEF Fewer, CloseComing, BlameInv
<1> HIDE DEF w
<1>6. ASSUME Worse(w, stream', Gone), QuietSession
      PROVE  BlameInv'
  BY <1>1, <1>2, <1>4, <1>5, <1>6, CodeBlame DEF Worse, QuietSession
<1>7. ASSUME Disconnect(FinishRead(w)) \/ Disconnect(FinishWrite(w)), Gone \/ w.failed
      PROVE  BlameInv'
  BY <1>1, <1>4, <1>5, <1>7, DisconnectBlame DEF Worse
<1>8. CASE ResumedRead(w)
  <2>1. CASE w.rd = "aborted" /\ Disconnect(FinishRead(w))
    BY <1>4, <1>7, <2>1 DEF Worse, Sound, Ending
  <2>2. CASE w.failed /\ Disconnect(FinishRead(w))
    BY <1>7, <2>2
  <2>3. CASE w.rd = "pong_resumed" /\ stream' = Pong(w) /\ QuietSession
    BY <1>4, <1>6, <2>3 DEF Pong, Streams, ReadStates, Answering, Ending, Sound, Worse
  <2>4. CASE w.rd = "close_resumed" /\ stream' = Close(w) /\ QuietSession
    BY <1>4, <1>6, <2>4 DEF Close, Streams, ReadStates, Answering, Ending, Sound, Worse
  <2>5. CASE stream' = Fail(w) /\ QuietSession
    BY <1>4, <1>6, <2>5 DEF Fail, Close, Streams, ReadStates, Answering, Ending, Sound, Worse
  <2>6. CASE /\ w.rd = "fail_resumed" /\ stream' = w
             /\ UNCHANGED <<session, queue, busy, buffer, registered, accepted, told>>
    <3>1. Gone' = Gone
      BY <1>1 DEF Gone
    <3> QED  BY <1>4, <1>5, <2>6, <3>1, BlameStep DEF Worse
  <2> QED  BY <1>8, <2>1, <2>2, <2>3, <2>4, <2>5, <2>6 DEF ResumedRead
<1>9. CASE ResumedWrite(w)
  <2>1. CASE w.wr = "aborted" /\ Disconnect(FinishWrite(w))
    BY <1>4, <1>7, <2>1 DEF Worse, Sound
  <2>2. CASE (w.failed \/ w.closing) /\ Disconnect(FinishWrite(w))
    BY <1>4, <1>7, <2>2 DEF Worse, Sound
  <2>3. CASE w.wr = "resumed" /\ stream' = Write(w) /\ QuietSession
    BY <1>4, <1>6, <2>3 DEF Write, Streams, WriteStates, Ending, Sound, Worse
  <2>4. CASE stream' = MaybeSuspend(w) /\ QuietSession
    BY <1>1, <1>4, <1>6, <2>4, MaybeSuspendSound DEF Worse
  <2> QED  BY <1>9, <2>1, <2>2, <2>3, <2>4 DEF ResumedWrite
<1> QED  BY <1>1, <1>8, <1>9

\* Steps that touch neither the stream nor the session's registration.
LEMMA CalmBlame ==
  ASSUME BlameInv, UNCHANGED <<stream, registered, fault>>, Fewer, Gone => Gone',
         session' # "open" \/ session' = session
  PROVE  BlameInv'
<1>1. Sound(stream', Gone')
  BY DEF BlameInv, Sound
<1> QED  BY <1>1, BlameStep

LEMMA PeerBlame ==
  ASSUME ConnectionInv, BlameInv, PeerSends \/ PeerCloses \/ PeerLeaves \/ PeerBreaks
  PROVE  BlameInv'
<1>1. UNCHANGED <<stream, registered, fault, session>> /\ peer # "none"
      /\ peer \in {"open", "closing"}
  BY DEF PeerSends, PeerCloses, PeerLeaves, PeerBreaks, sessionVars
<1>2. Gone => Gone'
  BY <1>1 DEF Gone, PeerSends, PeerCloses, PeerLeaves, PeerBreaks
<1>3. toServer \in Seq(Frame) /\ sent \in 0 .. MaxIn /\ MaxIn \in Nat
  BY BoundsAssumption DEF BlameInv
<1>4. CASE PeerSends
  <2>1. PICK op \in {"text", "part", "ping", "pong", "bad"} :
          toServer' = Append(toServer, [op |-> op, n |-> sent + 1])
    BY <1>4 DEF PeerSends
  <2>2. sent' = sent + 1 /\ sent < MaxIn
    BY <1>4 DEF PeerSends
  <2> DEFINE f == [op |-> op, n |-> sent + 1]
  <2>3. sent' \in 0 .. MaxIn
    BY <1>3, <2>2
  <2>4. f \in Frame /\ f.op # "close"
    BY <2>2, <2>3 DEF Frame
  <2> HIDE DEF f
  <2>5. toServer' = Append(toServer, f)
    BY <2>1 DEF f
  <2>6. toServer' \in Seq(Frame) /\ (CloseComing' => CloseComing)
    <3>1. /\ toServer' \in Seq(Frame) /\ Len(toServer') = Len(toServer) + 1
          /\ DOMAIN toServer = 1 .. Len(toServer) /\ DOMAIN toServer' = 1 .. Len(toServer) + 1
          /\ \A i \in 1 .. Len(toServer) : toServer'[i] = toServer[i]
          /\ toServer'[Len(toServer) + 1] = f /\ Len(toServer) \in Nat
      BY <1>3, <2>4, <2>5, LenProperties, AppendProperties
    <3> QED  BY <2>4, <3>1 DEF CloseComing
  <2> QED  BY <1>1, <1>2, <2>3, <2>6, CalmBlame DEF Fewer
<1>5. CASE PeerCloses
  <2> DEFINE f == [op |-> "close", n |-> 0]
  <2>1. f \in Frame
    BY <1>3 DEF Frame
  <2>2. toServer' = Append(toServer, f) /\ Gone' /\ sent' = sent
    BY <1>5 DEF PeerCloses, Gone
  <2> HIDE DEF f
  <2>3. toServer' \in Seq(Frame)
    BY <1>3, <2>1, <2>2
  <2> QED  BY <1>1, <1>2, <1>3, <2>2, <2>3, CalmBlame DEF Fewer
<1>6. CASE PeerLeaves \/ PeerBreaks
  <2>1. Gone' /\ sent' = sent
    BY <1>6 DEF PeerLeaves, PeerBreaks, Gone
  <2>2. toServer' = toServer \/ \E k \in 0 .. Len(toServer) : toServer' = SubSeq(toServer, 1, k)
    BY <1>6 DEF PeerLeaves, PeerBreaks
  <2>3. toServer' \in Seq(Frame)
    BY <1>3, <2>2
  <2> QED  BY <1>1, <1>2, <1>3, <2>1, <2>3, CalmBlame DEF Fewer
<1> QED  BY <1>4, <1>5, <1>6

LEMMA UpgradeBlame ==
  ASSUME ConnectionInv, BlameInv, Upgrade
  PROVE  BlameInv'
<1> DEFINE w == StartWrite(stream, Frames(1))
<1>1. /\ stream \in Streams /\ stream = Fresh /\ Sound(stream, Gone) /\ Gone \in BOOLEAN
      /\ fault = "none" /\ fault' = fault /\ registered' = TRUE /\ stream' = StartRead(w)
      /\ UNCHANGED <<peer, toServer, sent>>
  BY DEF ConnectionInv, QueueInv, BlameInv, Upgrade, Gone, peerVars
<1>2. Worse(stream, w, Gone)
  BY <1>1, StartWriteSound
<1> HIDE DEF w
<1>3. Worse(w, stream', Gone)
  BY <1>1, <1>2, StartReadSound DEF Worse
<1>4. Fewer /\ Gone' = Gone
  BY <1>1 DEF Fewer, CloseComing, BlameInv, Gone
<1> QED  BY <1>1, <1>2, <1>3, <1>4, BlameStep DEF Worse

LEMMA NextBlame ==
  ASSUME ConnectionInv, BlameInv, [Next]_vars
  PROVE  BlameInv'
<1>1. UNCHANGED <<toServer, sent, peer>> => Fewer /\ Gone' = Gone
  BY DEF Fewer, CloseComing, BlameInv, Gone
<1>2. CASE Send
  <2>1. /\ stream \in Streams /\ Sound(stream, Gone) /\ session = "open" /\ Put(stream)
        /\ fault = "none" /\ UNCHANGED <<session, registered, fault, peer, toServer, sent>>
    BY <1>2 DEF Send, peerVars, ConnectionInv, QueueInv, BlameInv
  <2> QED  BY <1>1, <2>1, CodeSound, CodeBlame
<1>3. CASE Upgrade \/ ReadStep \/ WriteStep \/ RunPosted
  BY <1>3, UpgradeBlame, HeaderBlame, PayloadBlame, AnsweredBlame, EndsBlame, FrameWrittenBlame,
     RunPostedBlame DEF ReadStep, WriteStep
<1>4. CASE UpgradeFails
  BY <1>1, <1>4, CalmBlame DEF UpgradeFails, peerVars
<1>5. CASE PeerSends \/ PeerCloses \/ PeerLeaves \/ PeerBreaks
  BY <1>5, PeerBlame
<1>6. CASE Accept
  <2>1. UNCHANGED <<stream, registered, fault, toServer, sent>> /\ session' = "upgrading"
        /\ ~ Gone
    BY <1>6 DEF Accept, Gone
  <2>2. Fewer
    BY <2>1 DEF Fewer, CloseComing, BlameInv
  <2> QED  BY <2>1, <2>2, CalmBlame
<1>7. CASE AcceptFails \/ Stop \/ CloseAcceptor \/ Join \/ UNCHANGED vars
  BY <1>1, <1>7, CalmBlame DEF AcceptFails, Stop, CloseAcceptor, Join, vars, sessionVars, peerVars
<1> QED  BY <1>2, <1>3, <1>4, <1>5, <1>6, <1>7 DEF Next, SessionNext, ServerNext

LEMMA BlameAlways == Spec => [](ConnectionInv /\ BlameInv)
<1>1. Init => BlameInv
  BY BoundsAssumption DEF Init, SessionInit, BlameInv, Sound, Fresh, Ending, CloseComing
<1>2. ConnectionInv /\ BlameInv /\ [Next]_vars => BlameInv'
  BY NextBlame
<1> QED  BY <1>1, <1>2, ConnectionAlways, PTL DEF Spec

-----------------------------------------------------------------------------
(***************************************************************************)
(* MessagesAreWhole.  The frames that have been read, those in the buffer  *)
(* and those that are coming have ever greater numbers; those in the       *)
(* buffer are never the last of a message.                                 *)
(***************************************************************************)
Coming == {i \in DOMAIN toServer : toServer[i].op # "close"}
Ahead(n) == n <= sent /\ \A j \in Coming : n < toServer[j].n
InOrder(m) == \A k, l \in DOMAIN m : k < l => m[k].n < m[l].n
Follows(m, l) == \A j \in DOMAIN m, k \in DOMAIN l : m[j].n < l[k].n
Whole(m) == \A k \in DOMAIN m : m[k].op = "text" <=> k = Len(m)

ComingInv ==
  \A i \in Coming : /\ toServer[i].n <= sent
                    /\ \A j \in Coming : i < j => toServer[i].n < toServer[j].n

ReadInv ==
  /\ told \in Seq(Seq(Frame)) /\ buffer \in Seq(Frame)
  /\ ComingInv
  /\ InOrder(buffer) /\ \A k \in DOMAIN buffer : buffer[k].op = "part" /\ Ahead(buffer[k].n)
  /\ \A i \in DOMAIN told :
       /\ Whole(told[i]) /\ InOrder(told[i]) /\ Follows(told[i], buffer)
       /\ \A k \in DOMAIN told[i] : Ahead(told[i][k].n)
       /\ \A j \in DOMAIN told : i < j => Follows(told[i], told[j])

LEMMA AppendFacts ==
  ASSUME NEW S, NEW s \in Seq(S), NEW e \in S
  PROVE  /\ Append(s, e) \in Seq(S) /\ Len(s) \in Nat /\ Len(Append(s, e)) = Len(s) + 1
         /\ DOMAIN s = 1 .. Len(s) /\ DOMAIN Append(s, e) = 1 .. Len(s) + 1
         /\ \A i \in DOMAIN s : i \in DOMAIN Append(s, e) /\ i # Len(s) + 1 /\ Append(s, e)[i] = s[i]
         /\ Append(s, e)[Len(s) + 1] = e
         /\ \A i \in DOMAIN Append(s, e) : i \in DOMAIN s \/ i = Len(s) + 1
<1>1. /\ Append(s, e) \in Seq(S) /\ Len(s) \in Nat /\ Len(Append(s, e)) = Len(s) + 1
      /\ \A i \in 1 .. Len(s) : Append(s, e)[i] = s[i]
      /\ Append(s, e)[Len(s) + 1] = e
  BY AppendProperties, LenProperties
<1>2. DOMAIN s = 1 .. Len(s) /\ DOMAIN Append(s, e) = 1 .. Len(s) + 1
  BY <1>1, LenProperties
<1> QED  BY <1>1, <1>2

LEMMA TailFacts ==
  ASSUME NEW S, NEW s \in Seq(S), s # << >>
  PROVE  /\ Tail(s) \in Seq(S) /\ Len(Tail(s)) = Len(s) - 1 /\ Len(s) \in Nat \ {0}
         /\ Head(s) = s[1] /\ 1 \in DOMAIN s /\ Head(s) \in S
         /\ \A i \in DOMAIN Tail(s) : i \in Nat \ {0} /\ i + 1 \in DOMAIN s /\ Tail(s)[i] = s[i + 1]
<1>1. Len(s) \in Nat \ {0} /\ DOMAIN s = 1 .. Len(s)
  BY LenProperties
<1>2. /\ Tail(s) \in Seq(S) /\ Len(Tail(s)) = Len(s) - 1
      /\ \A i \in 1 .. Len(s) - 1 : Tail(s)[i] = s[i + 1]
      /\ Head(s) = s[1] /\ Head(s) \in S
  BY <1>1
<1>3. DOMAIN Tail(s) = 1 .. Len(s) - 1
  BY <1>2, <1>1, LenProperties
<1> QED  BY <1>1, <1>2, <1>3

LEMMA Numbers ==
  ASSUME NEW m \in Seq(Frame)
  PROVE  \A k \in DOMAIN m : m[k] \in Frame /\ m[k].n \in Nat
<1>1. \A k \in DOMAIN m : m[k] \in Frame
  BY ElementOfSeq, LenProperties
<1>2. \A f \in Frame : f.n \in Nat
  BY BoundsAssumption DEF Frame
<1> QED  BY <1>1, <1>2

\* After the step, number n is below those of the frames that are coming.
StillAhead(n) == n <= sent' /\ \A j \in Coming' : n < toServer'[j].n

\* Nothing is read, and what is coming stays or grows at the end.
LEMMA UnreadStep ==
  ASSUME ReadInv, UNCHANGED <<told, buffer>>, ComingInv', \A n \in Nat : Ahead(n) => StillAhead(n)
  PROVE  ReadInv'
<1>1. \A k \in DOMAIN buffer : buffer[k].n \in Nat
  BY Numbers DEF ReadInv
<1>2. \A i \in DOMAIN told : \A k \in DOMAIN told[i] : told[i][k].n \in Nat
  <2>1. \A i \in DOMAIN told : told[i] \in Seq(Frame)
    BY ElementOfSeq, LenProperties DEF ReadInv
  <2> QED  BY <2>1, Numbers
<1>3. \A k \in DOMAIN buffer' : StillAhead(buffer'[k].n)
  BY <1>1 DEF ReadInv
<1>4. \A i \in DOMAIN told' : \A k \in DOMAIN told'[i] : StillAhead(told'[i][k].n)
  BY <1>2 DEF ReadInv
<1>5. \A n : StillAhead(n) <=> n <= sent' /\ \A j \in Coming' : n < toServer'[j].n
  BY DEF StillAhead
<1> QED  BY <1>3, <1>4, <1>5 DEF ReadInv, Ahead

LEMMA TakenRead ==
  ASSUME BlameInv, ReadInv, toServer # << >>, toServer' = Tail(toServer), sent' = sent
  PROVE  ComingInv' /\ \A n \in Nat : Ahead(n) => StillAhead(n)
<1>1. \A i \in DOMAIN toServer' :
        i \in Nat \ {0} /\ i + 1 \in DOMAIN toServer /\ toServer'[i] = toServer[i + 1]
  BY TailFacts DEF BlameInv
<1>2. \A i \in Coming' : i \in Nat \ {0} /\ i + 1 \in Coming /\ toServer'[i] = toServer[i + 1]
  BY <1>1 DEF Coming
<1>3. \A i, j \in Coming' : i < j => i + 1 < j + 1
  BY <1>2
<1>4. ComingInv'
  BY <1>2, <1>3 DEF ComingInv, ReadInv
<1> QED  BY <1>2, <1>4 DEF Ahead, StillAhead

LEMMA PayloadRead ==
  ASSUME BlameInv, ReadInv, Payload
  PROVE  ReadInv'
<1>1. toServer # << >> /\ toServer' = Tail(toServer) /\ sent' = sent
  BY DEF Payload, TakeFrame
<1>2. ComingInv' /\ \A n \in Nat : Ahead(n) => StillAhead(n)
  BY <1>1, TakenRead
<1>3. PICK h \in Frame : h = Head(toServer)
  BY <1>1, TailFacts DEF BlameInv
<1>4. /\ h = toServer[1] /\ 1 \in DOMAIN toServer
      /\ \A i \in DOMAIN toServer' :
           i \in Nat \ {0} /\ i + 1 \in DOMAIN toServer /\ toServer'[i] = toServer[i + 1]
  BY <1>1, <1>3, TailFacts DEF BlameInv
<1>5. /\ buffer \in Seq(Frame) /\ Append(buffer, h) \in Seq(Frame)
      /\ Len(Append(buffer, h)) = Len(buffer) + 1 /\ Len(buffer) \in Nat
      /\ Append(buffer, h)[Len(buffer) + 1] = h
      /\ DOMAIN buffer = 1 .. Len(buffer) /\ DOMAIN Append(buffer, h) = 1 .. Len(buffer) + 1
      /\ \A i \in DOMAIN buffer : i # Len(buffer) + 1 /\ Append(buffer, h)[i] = buffer[i]
      /\ \A i \in DOMAIN Append(buffer, h) : i \in DOMAIN buffer \/ i = Len(buffer) + 1
  BY AppendFacts DEF ReadInv
<1>6. PICK message \in Seq(Frame) : message = Append(buffer, h)
  BY <1>5
<1>7. \/ h.op = "part" /\ buffer' = message /\ told' = told
      \/ h.op = "text" /\ buffer' = << >> /\ told' = Append(told, message)
  BY <1>3, <1>6 DEF Payload, ReadHandler, Interpret
<1>8. 1 \in Coming /\ h.n \in Nat /\ h.n <= sent
  <2>1. 1 \in Coming
    BY <1>4, <1>7 DEF Coming
  <2> QED  BY <1>3, <1>4, <2>1, BoundsAssumption DEF ReadInv, ComingInv, Frame
<1>9. StillAhead(h.n)
  <2>1. \A i \in Coming' : i + 1 \in Coming /\ 1 < i + 1 /\ toServer'[i] = toServer[i + 1]
    BY <1>4 DEF Coming
  <2>2. \A i \in Coming' : h.n < toServer'[i].n
    BY <1>4, <1>8, <2>1 DEF ReadInv, ComingInv
  <2> QED  BY <1>1, <1>8, <2>2 DEF StillAhead
<1>10. \A k \in DOMAIN buffer :
         buffer[k].op = "part" /\ buffer[k].n < h.n /\ StillAhead(buffer[k].n)
  <2>1. \A k \in DOMAIN buffer : buffer[k].n \in Nat /\ Ahead(buffer[k].n) /\ buffer[k].op = "part"
    BY Numbers DEF ReadInv
  <2>2. \A k \in DOMAIN buffer : buffer[k].n < h.n
    BY <1>4, <1>8, <2>1 DEF Ahead
  <2> QED  BY <1>2, <2>1, <2>2
<1>11. \A i \in DOMAIN told : \A k \in DOMAIN told[i] :
         told[i][k].n < h.n /\ StillAhead(told[i][k].n)
  <2>1. \A i \in DOMAIN told : told[i] \in Seq(Frame)
    BY ElementOfSeq, LenProperties DEF ReadInv
  <2>2. \A i \in DOMAIN told : \A k \in DOMAIN told[i] :
          told[i][k].n \in Nat /\ Ahead(told[i][k].n)
    BY <2>1, Numbers DEF ReadInv
  <2>3. \A i \in DOMAIN told : \A k \in DOMAIN told[i] : told[i][k].n < h.n
    BY <1>4, <1>8, <2>2 DEF Ahead
  <2> QED  BY <1>2, <2>2, <2>3
<1>12. InOrder(message) /\ \A k \in DOMAIN message : StillAhead(message[k].n)
  <2>1. \A k, l \in DOMAIN message : k < l => k \in DOMAIN buffer
    BY <1>5, <1>6
  <2> QED  BY <1>5, <1>6, <1>9, <1>10, <2>1 DEF InOrder, ReadInv
<1>13. \A i \in DOMAIN told : Follows(told[i], message)
  BY <1>5, <1>6, <1>11 DEF Follows, ReadInv
<1>14. \A n : StillAhead(n) <=> n <= sent' /\ \A j \in Coming' : n < toServer'[j].n
  BY DEF StillAhead
<1>15. CASE h.op = "part" /\ buffer' = message /\ told' = told
  <2>1. \A k \in DOMAIN message : message[k].op = "part"
    BY <1>5, <1>6, <1>10, <1>15
  <2>2. /\ \A k \in DOMAIN buffer' : buffer'[k].op = "part" /\ StillAhead(buffer'[k].n)
        /\ InOrder(buffer') /\ buffer' \in Seq(Frame)
    BY <1>6, <1>12, <1>15, <2>1
  <2>3. \A i \in DOMAIN told' :
          /\ Whole(told'[i]) /\ InOrder(told'[i]) /\ Follows(told'[i], buffer')
          /\ \A k \in DOMAIN told'[i] : StillAhead(told'[i][k].n)
          /\ \A j \in DOMAIN told' : i < j => Follows(told'[i], told'[j])
    BY <1>11, <1>13, <1>15 DEF ReadInv
  <2>4. told' \in Seq(Seq(Frame))
    BY <1>15 DEF ReadInv
  <2> QED  BY <1>2, <1>14, <2>2, <2>3, <2>4 DEF ReadInv, Ahead
<1>16. CASE h.op = "text" /\ buffer' = << >> /\ told' = Append(told, message)
  <2>1. Whole(message)
    BY <1>5, <1>6, <1>10, <1>16 DEF Whole
  <2>2. /\ told' \in Seq(Seq(Frame)) /\ Len(told) \in Nat /\ told'[Len(told) + 1] = message
        /\ DOMAIN told = 1 .. Len(told)
        /\ \A i \in DOMAIN told : i # Len(told) + 1 /\ told'[i] = told[i]
        /\ \A i \in DOMAIN told' : i \in DOMAIN told \/ i = Len(told) + 1
        /\ DOMAIN told' = 1 .. Len(told) + 1
    BY <1>16, AppendFacts DEF ReadInv
  <2>3. buffer' \in Seq(Frame) /\ DOMAIN buffer' = {}
    BY <1>16
  <2>4. \A i, j \in DOMAIN told' : i < j => i \in DOMAIN told
    BY <2>2
  <2>5. \A i \in DOMAIN told' :
          /\ Whole(told'[i]) /\ InOrder(told'[i])
          /\ \A k \in DOMAIN told'[i] : StillAhead(told'[i][k].n)
    <3>1. TAKE i \in DOMAIN told'
    <3>2. CASE i \in DOMAIN told
      BY <1>11, <2>2, <3>2 DEF ReadInv
    <3>3. CASE i = Len(told) + 1
      BY <1>12, <2>1, <2>2, <3>3
    <3> QED  BY <2>2, <3>1, <3>2, <3>3
  <2>6. \A i, j \in DOMAIN told' : i < j => Follows(told'[i], told'[j])
    BY <1>13, <2>2, <2>4 DEF ReadInv
  <2>7. InOrder(buffer') /\ \A i \in DOMAIN told' : Follows(told'[i], buffer')
    BY <2>3 DEF InOrder, Follows
  <2> QED  BY <1>2, <1>14, <2>2, <2>3, <2>5, <2>6, <2>7 DEF ReadInv, Ahead
<1> QED  BY <1>7, <1>15, <1>16

LEMMA PeerRead ==
  ASSUME BlameInv, ReadInv, PeerSends \/ PeerCloses \/ PeerLeaves \/ PeerBreaks
  PROVE  ReadInv'
<1>1. UNCHANGED <<told, buffer>>
  BY DEF PeerSends, PeerCloses, PeerLeaves, PeerBreaks, sessionVars
<1>2. toServer \in Seq(Frame) /\ sent \in Nat /\ ComingInv
  BY BoundsAssumption DEF BlameInv, ReadInv
<1>3. \A i \in Coming : toServer[i].n \in Nat
  BY <1>2, Numbers DEF Coming
<1>4. CASE PeerSends
  <2>1. PICK op \in {"text", "part", "ping", "pong", "bad"} :
          toServer' = Append(toServer, [op |-> op, n |-> sent + 1])
    BY <1>4 DEF PeerSends
  <2>2. sent' = sent + 1 /\ sent + 1 \in 0 .. MaxIn
    BY <1>2, <1>4, BoundsAssumption DEF PeerSends
  <2>3. PICK f \in Frame : f = [op |-> op, n |-> sent + 1]
    BY <2>2 DEF Frame
  <2>4. /\ toServer' = Append(toServer, f) /\ f.n = sent + 1
        /\ \A i \in DOMAIN toServer : i # Len(toServer) + 1 /\ toServer'[i] = toServer[i]
        /\ toServer'[Len(toServer) + 1] = f /\ Len(toServer) \in Nat
        /\ \A i \in DOMAIN toServer' : i \in DOMAIN toServer \/ i = Len(toServer) + 1
        /\ DOMAIN toServer = 1 .. Len(toServer)
    BY <1>2, <2>1, <2>3, AppendFacts
  <2>5. \A i \in Coming' : \/ i \in Coming /\ i < Len(toServer) + 1 /\ toServer'[i] = toServer[i]
                           \/ i = Len(toServer) + 1 /\ toServer'[i].n = sent + 1
    BY <2>4 DEF Coming
  <2>6. ComingInv'
    <3>1. \A i \in Coming' : toServer'[i].n <= sent'
      BY <1>2, <1>3, <2>2, <2>5 DEF ComingInv
    <3>2. \A i, j \in Coming' : i < j => toServer'[i].n < toServer'[j].n
      <4>1. TAKE i, j \in Coming'
      <4>2. HAVE i < j
      <4>3. i \in Coming /\ i < Len(toServer) + 1 /\ toServer'[i] = toServer[i]
        BY <2>4, <2>5, <4>1, <4>2 DEF Coming
      <4>4. toServer[i].n \in Nat /\ toServer[i].n <= sent
        BY <1>2, <1>3, <4>3 DEF ComingInv
      <4>5. CASE j \in Coming /\ toServer'[j] = toServer[j]
        BY <1>2, <4>2, <4>3, <4>5 DEF ComingInv
      <4>6. CASE toServer'[j].n = sent + 1
        BY <1>2, <4>3, <4>4, <4>6
      <4> QED  BY <2>5, <4>1, <4>5, <4>6
    <3> QED  BY <3>1, <3>2 DEF ComingInv
  <2>7. ASSUME NEW n \in Nat, Ahead(n)
        PROVE  StillAhead(n)
    BY <1>2, <2>2, <2>5, <2>7 DEF Ahead, StillAhead
  <2> QED  BY <1>1, <2>6, <2>7, UnreadStep
<1>5. CASE PeerCloses
  <2>1. PICK f \in Frame : f = [op |-> "close", n |-> 0]
    <3>1. 0 \in 0 .. MaxIn
      BY BoundsAssumption
    <3> QED  BY <3>1 DEF Frame
  <2>2. toServer' = Append(toServer, f) /\ f.op = "close" /\ sent' = sent
    BY <1>5, <2>1 DEF PeerCloses
  <2>3. \A i \in Coming' : i \in Coming /\ toServer'[i] = toServer[i]
    BY <1>2, <2>2, AppendFacts DEF Coming
  <2> QED  BY <1>1, <1>2, <2>2, <2>3, UnreadStep DEF ComingInv, Ahead, StillAhead
<1>6. CASE PeerLeaves \/ PeerBreaks
  <2>1. sent' = sent
        /\ (toServer' = toServer \/ \E k \in 0 .. Len(toServer) : toServer' = SubSeq(toServer, 1, k))
    BY <1>6 DEF PeerLeaves, PeerBreaks
  <2>2. \A i \in DOMAIN toServer' : i \in DOMAIN toServer /\ toServer'[i] = toServer[i]
    <3>1. CASE toServer' = toServer
      BY <3>1
    <3>2. ASSUME NEW k \in 0 .. Len(toServer), toServer' = SubSeq(toServer, 1, k)
          PROVE  \A i \in DOMAIN toServer' : i \in DOMAIN toServer /\ toServer'[i] = toServer[i]
      BY <1>2, <3>2
    <3> QED  BY <2>1, <3>1, <3>2
  <2>3. \A i \in Coming' : i \in Coming /\ toServer'[i] = toServer[i]
    BY <2>2 DEF Coming
  <2> QED  BY <1>1, <1>2, <2>1, <2>3, UnreadStep DEF ComingInv, Ahead, StillAhead
<1> QED  BY <1>4, <1>5, <1>6

LEMMA NextRead ==
  ASSUME BlameInv, ReadInv, [Next]_vars
  PROVE  ReadInv'
<1>1. ASSUME UNCHANGED <<told, buffer, toServer, sent>>
      PROVE  ReadInv'
  BY <1>1, UnreadStep DEF ReadInv, ComingInv, Coming, Ahead, StillAhead
<1>2. ASSUME UNCHANGED <<told, buffer, sent>>, toServer' = Tail(toServer), toServer # << >>
      PROVE  ReadInv'
  BY <1>2, TakenRead, UnreadStep
<1>3. CASE Payload
  BY <1>3, PayloadRead
<1>4. CASE Header
  <2>1. UNCHANGED <<told, buffer, sent>> /\ toServer # << >> /\ toServer' \in {toServer, Tail(toServer)}
    BY <1>4 DEF Header, QuietSession, TakeFrame, peerVars
  <2> QED  BY <1>1, <1>2, <2>1
<1>5. CASE TornDown
  <2>1. UNCHANGED <<told, buffer, sent>> /\ toServer' = << >>
    BY <1>5 DEF TornDown, Disconnect
  <2>2. Coming' = {}
    BY <2>1 DEF Coming
  <2> QED  BY <2>1, <2>2, UnreadStep DEF ComingInv, Ahead, StillAhead
<1>6. CASE PeerSends \/ PeerCloses \/ PeerLeaves \/ PeerBreaks
  BY <1>6, PeerRead
<1>7. CASE RunPosted
  <2>1. UNCHANGED <<told, buffer, toServer, sent>>
    BY <1>7 DEF RunPosted, ResumedRead, ResumedWrite, Disconnect, QuietSession, peerVars
  <2> QED  BY <1>1, <2>1
<1>8. CASE WriteStep \/ PongWritten \/ CloseWritten \/ ReadFails
  <2>1. UNCHANGED <<told, buffer, toServer, sent>>
    BY <1>8 DEF WriteStep, FrameWritten, WriteFails, PongWritten, CloseWritten, ReadFails,
                Disconnect, QuietSession, peerVars
  <2> QED  BY <1>1, <2>1
<1>9. CASE Upgrade \/ UpgradeFails \/ Send
  BY <1>1, <1>9 DEF Upgrade, UpgradeFails, Send, peerVars
<1>10. CASE ServerNext \/ UNCHANGED vars
  BY <1>1, <1>10
  DEF ServerNext, Accept, AcceptFails, Stop, CloseAcceptor, Join, vars, sessionVars, peerVars
<1> QED
  BY <1>3, <1>4, <1>5, <1>6, <1>7, <1>8, <1>9, <1>10 DEF Next, SessionNext, ReadStep

LEMMA ReadAlways == Spec => []ReadInv
<1>1. Init => ReadInv
  BY DEF Init, SessionInit, ReadInv, ComingInv, Coming, InOrder
<1>2. BlameInv /\ ReadInv /\ [Next]_vars => ReadInv'
  BY NextRead
<1> QED  BY <1>1, <1>2, BlameAlways, PTL DEF Spec

\* What ends the server as a bad message is the last one that was read.
SpoiledInv == fault = "bad_message" => told # << >> /\ CannotTake(told[Len(told)])

LEMMA PayloadSpoiled ==
  ASSUME ReadInv, SpoiledInv, Payload
  PROVE  SpoiledInv'
<1>1. fault = "none"
  BY DEF Payload, Reading
<1>2. CASE UNCHANGED fault
  BY <1>1, <1>2 DEF SpoiledInv
<1>3. CASE \E w : Interpret(w, Append(buffer, Head(toServer)))
  <2>1. PICK message : /\ told' = Append(told, message)
                       /\ fault' = "bad_message" => fault' = fault \/ CannotTake(message)
    BY <1>3 DEF Interpret
  <2>2. told' # << >> /\ told'[Len(told')] = message
    <3>1. told \in Seq(Seq(Frame) \cup {message})
      BY SeqDef DEF ReadInv
    <3> QED  BY <2>1, <3>1, AppendProperties, LenProperties
  <2>3. fault' = "bad_message" => CannotTake(message)
    BY <1>1, <2>1
  <2> QED  BY <2>2, <2>3 DEF SpoiledInv, CannotTake
<1> QED  BY <1>2, <1>3 DEF Payload, ReadHandler

LEMMA NextSpoiled ==
  ASSUME ReadInv, SpoiledInv, [Next]_vars
  PROVE  SpoiledInv'
<1>1. ASSUME UNCHANGED told, fault' # "bad_message" \/ UNCHANGED fault
      PROVE  SpoiledInv'
  BY <1>1 DEF SpoiledInv, CannotTake
<1>2. CASE ReadStep
  <2>1. CASE Header \/ PongWritten \/ CloseWritten
    BY <1>1, <2>1 DEF Header, PongWritten, CloseWritten, QuietSession
  <2>2. CASE TornDown \/ ReadFails
    BY <1>1, <2>2 DEF TornDown, ReadFails, Disconnect
  <2> QED  BY <1>2, <2>1, <2>2, PayloadSpoiled DEF ReadStep
<1>3. CASE WriteStep
  BY <1>1, <1>3 DEF WriteStep, FrameWritten, WriteFails, Disconnect, QuietSession
<1>4. CASE RunPosted
  BY <1>1, <1>4 DEF RunPosted, ResumedRead, ResumedWrite, Disconnect, QuietSession
<1>5. CASE PeerSends \/ PeerCloses \/ PeerLeaves \/ PeerBreaks
  BY <1>1, <1>5 DEF PeerSends, PeerCloses, PeerLeaves, PeerBreaks, sessionVars
<1>6. CASE Upgrade \/ UpgradeFails \/ Send
  BY <1>1, <1>6 DEF Upgrade, UpgradeFails, Send
<1>7. CASE ServerNext \/ UNCHANGED vars
  BY <1>1, <1>7
  DEF ServerNext, Accept, AcceptFails, Stop, CloseAcceptor, Join, vars, sessionVars
<1> QED  BY <1>2, <1>3, <1>4, <1>5, <1>6, <1>7 DEF Next, SessionNext

(***************************************************************************)
(* However many messages are under way, and in whatever order operations   *)
(* wait for each other, a client that neither leaves nor closes nor breaks *)
(* the protocol ends the server only by a message that the game cannot     *)
(* take: session.cpp and the stream add no exception or assertion of their *)
(* own.                                                                    *)
(***************************************************************************)
THEOREM NoHarmWhileOpen == Spec => []HarmlessWhileOpen
<1>1. Init => SpoiledInv
  BY DEF Init, SessionInit, SpoiledInv
<1>2. ReadInv /\ SpoiledInv /\ [Next]_vars => SpoiledInv'
  BY NextSpoiled
<1>3. BlameInv /\ SpoiledInv => HarmlessWhileOpen
  BY DEF BlameInv, SpoiledInv, HarmlessWhileOpen, Gone
<1> QED  BY <1>1, <1>2, <1>3, BlameAlways, ReadAlways, PTL DEF Spec

(***************************************************************************)
(* interpret is called with the client's messages whole and in order, each *)
(* once, however the frames of a message are mixed with control frames:    *)
(* readHandler may start the next read before it empties the buffer.       *)
(***************************************************************************)
THEOREM ReadsWholeMessages == Spec => []MessagesAreWhole
<1>1. ReadInv => MessagesAreWhole
  <2>1. SUFFICES ASSUME ReadInv PROVE MessagesAreWhole
    OBVIOUS
  <2>2. \A i \in DOMAIN told : \A k \in DOMAIN told[i] : told[i][k].op = "text" <=> k = Len(told[i])
    BY <2>1 DEF ReadInv, Whole
  <2> DEFINE read == Append(told, buffer)
  <2>3. /\ \A i \in DOMAIN told : i # Len(told) + 1 /\ read[i] = told[i]
        /\ read[Len(told) + 1] = buffer /\ Len(told) \in Nat
        /\ \A i \in DOMAIN read : i \in DOMAIN told \/ i = Len(told) + 1
        /\ DOMAIN told = 1 .. Len(told) /\ DOMAIN read = 1 .. Len(told) + 1
    BY <2>1, AppendFacts DEF ReadInv
  <2> HIDE DEF read
  <2>4. \A i \in DOMAIN read : InOrder(read[i])
    BY <2>1, <2>3 DEF ReadInv
  <2>5. \A i, j \in DOMAIN read : i < j => i \in DOMAIN told
    BY <2>3
  <2>6. \A i, j \in DOMAIN read : i < j => Follows(read[i], read[j])
    BY <2>1, <2>3, <2>5 DEF ReadInv
  <2>7. \A i, j \in DOMAIN read : \A k \in DOMAIN read[i], l \in DOMAIN read[j] :
          i < j \/ (i = j /\ k < l) => read[i][k].n < read[j][l].n
    BY <2>4, <2>6 DEF InOrder, Follows
  <2> QED  BY <2>2, <2>7 DEF MessagesAreWhole, read
<1> QED  BY <1>1, ReadAlways, PTL

-----------------------------------------------------------------------------
(***************************************************************************)
(* What Messages computes.  A set of numbers that is not empty has a least *)
(* one: a statement about numbers holds if it cannot fail first anywhere.  *)
(***************************************************************************)
LEMMA Least ==
  ASSUME NEW T, T \subseteq Nat, T # {}
  PROVE  \E n \in T : \A m \in T : n <= m
<1>1. IsWellFoundedOn(OpToRel(<, Nat), Nat)
  BY NatLessThanWellFounded
<1>2. PICK n \in T : \A m \in T : ~ (<<m, n>> \in OpToRel(<, Nat))
  BY <1>1, WFMin
<1>3. \A m \in T : ~ (m < n)
  BY <1>2 DEF OpToRel
<1> QED  BY <1>3

\* g is the function that Messages defines, up to the first n frames.
IsAmong(g, frames, n) ==
  g = [i \in 0 .. n |->
         IF i = 0 THEN << >>
         ELSE IF frames[i].op = "text" THEN Append(g[i - 1], frames[i].n) ELSE g[i - 1]]

LEMMA AmongExists ==
  ASSUME NEW frames
  PROVE  \A n \in Nat : \E g : IsAmong(g, frames, n)
<1> DEFINE Bad == {n \in Nat : ~ \E g : IsAmong(g, frames, n)}
<1>1. SUFFICES ASSUME Bad # {} PROVE FALSE
  OBVIOUS
<1>2. PICK n \in Bad : \A m \in Bad : n <= m
  BY <1>1, Least
<1>3. n \in Nat /\ ~ \E g : IsAmong(g, frames, n)
  OBVIOUS
<1>4. CASE n = 0
  <2> DEFINE g == [i \in 0 .. 0 |-> << >>]
  <2>1. g = [i \in 0 .. 0 |->
              IF i = 0 THEN << >>
              ELSE IF frames[i].op = "text" THEN Append(g[i - 1], frames[i].n) ELSE g[i - 1]]
    OBVIOUS
  <2> HIDE DEF g
  <2>2. IsAmong(g, frames, 0)
    BY <2>1 DEF IsAmong
  <2> QED  BY <1>3, <1>4, <2>2
<1>5. CASE n # 0
  <2>1. n - 1 \in Nat /\ n - 1 \notin Bad
    BY <1>2, <1>3, <1>5
  <2>2. PICK g : IsAmong(g, frames, n - 1)
    BY <2>1
  <2> DEFINE last == IF frames[n].op = "text" THEN Append(g[n - 1], frames[n].n) ELSE g[n - 1]
             h == [i \in 0 .. n |-> IF i = n THEN last ELSE g[i]]
             Body(i) == IF i = 0 THEN << >>
                        ELSE IF frames[i].op = "text" THEN Append(h[i - 1], frames[i].n) ELSE h[i - 1]
  <2>3. \A i \in 0 .. n - 1 : h[i] = g[i]
    BY <1>3
  <2>4. h[n] = last
    BY <1>3
  <2>5. ASSUME NEW i \in 0 .. n
        PROVE  h[i] = Body(i)
    <3>1. CASE i = n
      <4>1. h[i - 1] = g[n - 1]
        BY <2>1, <2>3, <3>1
      <4> HIDE DEF h
      <4> QED  BY <1>5, <2>4, <3>1, <4>1
    <3>2. CASE i # n
      <4>1. i \in 0 .. n - 1 /\ h[i] = g[i]
        BY <1>3, <2>3, <3>2
      <4>2. g[i] = IF i = 0 THEN << >>
                   ELSE IF frames[i].op = "text" THEN Append(g[i - 1], frames[i].n) ELSE g[i - 1]
        BY <2>2, <4>1 DEF IsAmong
      <4>3. i # 0 => h[i - 1] = g[i - 1]
        <5>1. i # 0 => i - 1 \in 0 .. n - 1
          BY <1>3, <4>1
        <5> QED  BY <2>3, <5>1
      <4> HIDE DEF h
      <4> QED  BY <4>1, <4>2, <4>3
    <3> QED  BY <3>1, <3>2
  <2>6. h = [i \in 0 .. n |-> h[i]]
    OBVIOUS
  <2> HIDE DEF h
  <2>7. h = [i \in 0 .. n |-> Body(i)]
    BY <2>5, <2>6
  <2>8. IsAmong(h, frames, n)
    BY <2>7 DEF IsAmong
  <2> QED  BY <1>3, <2>8
<1> QED  BY <1>4, <1>5

\* Two such functions agree where their frames do.
LEMMA AmongAgree ==
  ASSUME NEW s, NEW t, NEW g, NEW h, NEW m \in Nat, NEW n \in Nat, m <= n,
         IsAmong(g, s, m), IsAmong(h, t, n), \A i \in 1 .. m : s[i] = t[i]
  PROVE  \A i \in 0 .. m : g[i] = h[i]
<1> DEFINE Bad == {i \in 0 .. m : g[i] # h[i]}
<1>1. SUFFICES ASSUME Bad # {} PROVE FALSE
  OBVIOUS
<1>2. Bad \subseteq Nat
  OBVIOUS
<1>3. PICK i \in Bad : \A j \in Bad : i <= j
  BY <1>1, <1>2, Least
<1>4. i \in 0 .. m /\ i \in 0 .. n /\ g[i] # h[i]
  OBVIOUS
<1>5. g[i] = IF i = 0 THEN << >>
             ELSE IF s[i].op = "text" THEN Append(g[i - 1], s[i].n) ELSE g[i - 1]
  BY <1>4 DEF IsAmong
<1>6. h[i] = IF i = 0 THEN << >>
             ELSE IF t[i].op = "text" THEN Append(h[i - 1], t[i].n) ELSE h[i - 1]
  BY <1>4 DEF IsAmong
<1>7. i # 0
  BY <1>4, <1>5, <1>6
<1>8. i - 1 \in 0 .. m /\ i - 1 \notin Bad /\ i \in 1 .. m
  BY <1>3, <1>4, <1>7
<1>9. g[i - 1] = h[i - 1] /\ s[i] = t[i]
  BY <1>8
<1> QED  BY <1>4, <1>5, <1>6, <1>9

LEMMA MessagesIsAmong ==
  ASSUME NEW S, NEW s \in Seq(S)
  PROVE  \E g : IsAmong(g, s, Len(s)) /\ Messages(s) = g[Len(s)]
<1>1. Len(s) \in Nat
  BY LenProperties
<1>2. \E g : IsAmong(g, s, Len(s))
  BY <1>1, AmongExists
<1>3. Messages(s) = (CHOOSE g : IsAmong(g, s, Len(s)))[Len(s)]
  BY DEF Messages, IsAmong
<1> QED  BY <1>2, <1>3

LEMMA MessagesEmpty == Messages(<< >>) = << >>
<1>1. << >> \in Seq({}) /\ Len(<< >>) = 0
  OBVIOUS
<1>2. PICK g : IsAmong(g, << >>, 0) /\ Messages(<< >>) = g[0]
  BY <1>1, MessagesIsAmong
<1>3. g[0] = << >>
  BY <1>2 DEF IsAmong
<1> QED  BY <1>2, <1>3

\* A frame on the wire delivers a message when it is the message's last.
LEMMA MessagesAppend ==
  ASSUME NEW s \in Seq(WireFrame), NEW f \in WireFrame
  PROVE  Messages(Append(s, f)) =
           IF f.op = "text" THEN Append(Messages(s), f.n) ELSE Messages(s)
<1> DEFINE t == Append(s, f)
<1>1. /\ t \in Seq(WireFrame) /\ Len(s) \in Nat /\ Len(t) = Len(s) + 1
      /\ \A i \in 1 .. Len(s) : s[i] = t[i]
      /\ t[Len(s) + 1] = f
  BY AppendProperties, LenProperties
<1> HIDE DEF t
<1>2. PICK g : IsAmong(g, s, Len(s)) /\ Messages(s) = g[Len(s)]
  BY MessagesIsAmong
<1>3. PICK h : IsAmong(h, t, Len(s) + 1) /\ Messages(t) = h[Len(s) + 1]
  BY <1>1, MessagesIsAmong
<1>4. g[Len(s)] = h[Len(s)]
  <2>1. Len(s) + 1 \in Nat /\ Len(s) <= Len(s) + 1 /\ Len(s) \in 0 .. Len(s)
    BY <1>1
  <2> QED  BY <1>1, <1>2, <1>3, <2>1, AmongAgree
<1>5. h[Len(s) + 1] = IF f.op = "text" THEN Append(h[Len(s)], f.n) ELSE h[Len(s)]
  <2>1. Len(s) + 1 \in 0 .. Len(s) + 1 /\ Len(s) + 1 # 0 /\ (Len(s) + 1) - 1 = Len(s)
    BY <1>1
  <2> QED  BY <1>1, <1>3, <2>1 DEF IsAmong
<1> QED  BY <1>2, <1>3, <1>4, <1>5 DEF t

-----------------------------------------------------------------------------
(***************************************************************************)
(* The connection implements Channel.  What has been delivered and what is *)
(* queued are together the messages accepted, in order: the queue's head   *)
(* is the message after the last one delivered.                            *)
(***************************************************************************)
DeliveryInv ==
  /\ accepted \in 0 .. MaxOut
  /\ queue \in Seq(Nat) /\ Len(queue) <= accepted
  /\ \A i \in DOMAIN queue : queue[i] = (accepted - Len(queue)) + i
  /\ Delivered = [i \in 1 .. accepted - Len(queue) |-> i]
  /\ session # "open" => accepted = 0

Closed == session = "open" /\ ~ registered

LEMMA PutDelivers ==
  ASSUME DeliveryInv, NEW w, Put(w), wire' = wire, session = "open", session' = "open"
  PROVE  DeliveryInv' /\ accepted' = accepted + 1 /\ Delivered' = Delivered
<1>1. /\ accepted < MaxOut /\ accepted' = accepted + 1 /\ queue' = Append(queue, accepted + 1)
      /\ accepted \in 0 .. MaxOut /\ queue \in Seq(Nat) /\ MaxOut \in Nat
  BY BoundsAssumption DEF Put, DeliveryInv
<1>2. accepted' \in 0 .. MaxOut /\ accepted \in Nat /\ accepted + 1 \in Nat
  BY <1>1
<1>3. /\ queue' \in Seq(Nat) /\ Len(queue) \in Nat /\ Len(queue') = Len(queue) + 1
      /\ \A i \in DOMAIN queue : queue'[i] = queue[i]
      /\ queue'[Len(queue) + 1] = accepted + 1
      /\ \A i \in DOMAIN queue' : i \in DOMAIN queue \/ i = Len(queue) + 1
  BY <1>1, <1>2, AppendFacts
<1>4. Len(queue') <= accepted' /\ accepted' - Len(queue') = accepted - Len(queue)
  BY <1>1, <1>2, <1>3 DEF DeliveryInv
<1>5. ASSUME NEW i \in DOMAIN queue'
      PROVE  queue'[i] = (accepted' - Len(queue')) + i
  <2>1. CASE i \in DOMAIN queue
    BY <1>3, <1>4, <2>1 DEF DeliveryInv
  <2>2. CASE i = Len(queue) + 1
    BY <1>2, <1>3, <1>4, <2>2
  <2> QED  BY <1>3, <1>5, <2>1, <2>2
<1>6. Delivered' = Delivered
  BY DEF Delivered
<1> QED  BY <1>1, <1>2, <1>3, <1>4, <1>5, <1>6 DEF DeliveryInv

LEMMA SameDelivers ==
  ASSUME DeliveryInv, UNCHANGED <<accepted, queue, wire>>, session = "open" => session' = "open"
  PROVE  DeliveryInv' /\ accepted' = accepted /\ Delivered' = Delivered
  BY DEF DeliveryInv, Delivered

\* A control frame, or the first of two frames, delivers nothing.
LEMMA FrameDelivers ==
  ASSUME ClosingInv, DeliveryInv, UNCHANGED <<accepted, queue, session>>,
         NEW f \in WireFrame, f.op # "text", wire' = Append(wire, f)
  PROVE  DeliveryInv' /\ accepted' = accepted /\ Delivered' = Delivered
<1>1. Delivered' = Delivered
  BY MessagesAppend DEF Delivered, ClosingInv
<1> QED  BY <1>1 DEF DeliveryInv

\* The last frame of a message delivers it, and writeHandler takes it out.
LEMMA LastFrameDelivers ==
  ASSUME ClosingInv, DeliveryInv, queue # << >>, UNCHANGED <<accepted, session>>,
         queue' = Tail(queue), wire' = Append(wire, [op |-> "text", n |-> Head(queue)])
  PROVE  /\ DeliveryInv' /\ accepted' = accepted /\ Len(Delivered) < accepted
         /\ Delivered' = Append(Delivered, Len(Delivered) + 1)
<1> DEFINE k == accepted - Len(queue)
<1>1. /\ accepted \in Nat /\ queue \in Seq(Nat) /\ Len(queue) <= accepted
      /\ Delivered = [i \in 1 .. k |-> i]
  BY BoundsAssumption DEF DeliveryInv
<1>2. /\ queue' \in Seq(Nat) /\ Len(queue') = Len(queue) - 1 /\ Len(queue) \in Nat \ {0}
      /\ Head(queue) = queue[1] /\ 1 \in DOMAIN queue /\ Head(queue) \in Nat
      /\ \A i \in DOMAIN queue' : i \in Nat \ {0} /\ i + 1 \in DOMAIN queue /\ queue'[i] = queue[i + 1]
  BY <1>1, TailFacts
<1>3. Head(queue) = k + 1
  BY <1>2 DEF DeliveryInv
<1>4. k \in Nat /\ accepted' - Len(queue') = k + 1 /\ Len(queue') <= accepted' /\ k < accepted
  BY <1>1, <1>2
<1>5. \A i \in DOMAIN queue' : queue'[i] = (accepted' - Len(queue')) + i
  <2>1. \A i \in DOMAIN queue' : queue'[i] = k + (i + 1)
    BY <1>2 DEF DeliveryInv
  <2> QED  BY <1>2, <1>4, <2>1
<1> HIDE DEF k
<1>6. Len(Delivered) = k /\ Delivered \in Seq(Nat)
  <2>1. Delivered \in [1 .. k -> Nat]
    BY <1>1, <1>4
  <2> QED  BY <1>4, <2>1, LenProperties
<1>7. Delivered' = Append(Delivered, k + 1)
  <2> DEFINE f == [op |-> "text", n |-> Head(queue)]
  <2>1. f \in WireFrame /\ f.op = "text" /\ f.n = Head(queue)
    BY <1>2 DEF WireFrame
  <2> HIDE DEF f
  <2>2. wire' = Append(wire, f)
    BY DEF f
  <2> QED  BY <1>3, <2>1, <2>2, MessagesAppend DEF Delivered, ClosingInv
<1>8. Delivered' = [i \in 1 .. k + 1 |-> i]
  <2>1. Append(Delivered, k + 1) = [i \in 1 .. k + 1 |-> IF i = k + 1 THEN k + 1 ELSE Delivered[i]]
    BY <1>4, <1>6
  <2>2. \A i \in 1 .. k + 1 : i # k + 1 => i \in 1 .. k /\ Delivered[i] = i
    BY <1>1, <1>4
  <2> QED  BY <1>7, <2>1, <2>2
<1> QED  BY <1>2, <1>4, <1>5, <1>6, <1>7, <1>8 DEF DeliveryInv

LEMMA PutChannel ==
  ASSUME accepted' = accepted + 1, Delivered' = Delivered, ~ Closed, Closed' = Closed
  PROVE  ConnectionView!Put
  BY DEF ConnectionView!Put, Closed

LEMMA CloseChannel ==
  ASSUME accepted' = accepted, Delivered' = Delivered, Closed => Closed'
  PROVE  [ConnectionView!Next]_<<accepted, Delivered, Closed>>
  BY DEF ConnectionView!Next, ConnectionView!Close, Closed

\* What a step of the server is to Channel, and that it preserves DeliveryInv.
Carries == DeliveryInv' /\ [ConnectionView!Next]_<<accepted, Delivered, Closed>>

LEMMA SilentCarries ==
  ASSUME DeliveryInv, UNCHANGED <<accepted, queue, wire>>, session = "open" => session' = "open",
         Closed => Closed'
  PROVE  Carries
  BY SameDelivers, CloseChannel DEF Carries

LEMMA PutCarries ==
  ASSUME DeliveryInv, NEW w, Put(w), wire' = wire, session = "open", session' = "open",
         registered, registered'
  PROVE  Carries
<1>1. ~ Closed /\ Closed' = Closed
  BY DEF Closed
<1>2. DeliveryInv' /\ accepted' = accepted + 1 /\ Delivered' = Delivered
  BY PutDelivers
<1>3. ConnectionView!Put
  BY <1>1, <1>2, PutChannel
<1> QED  BY <1>2, <1>3 DEF Carries, ConnectionView!Next

LEMMA UpgradeCarries ==
  ASSUME ClosingInv, DeliveryInv, Upgrade
  PROVE  Carries
<1>1. /\ accepted = 0 /\ accepted' = 1 /\ queue' = <<1>> /\ wire' = wire
      /\ session = "upgrading" /\ session' = "open" /\ registered'
  BY DEF Upgrade, DeliveryInv, peerVars
<1>2. queue = << >> /\ Delivered = << >>
  <2>1. queue \in Seq(Nat) /\ Len(queue) = 0
    BY <1>1, LenProperties DEF DeliveryInv
  <2>2. Delivered = [i \in 1 .. 0 |-> i]
    BY <1>1, <2>1 DEF DeliveryInv
  <2> QED  BY <2>1, <2>2, EmptySeq
<1>3. Delivered' = Delivered
  BY <1>1 DEF Delivered
<1>4. DeliveryInv'
  <2>1. accepted' \in 0 .. MaxOut
    BY <1>1, BoundsAssumption
  <2>2. queue' \in Seq(Nat) /\ Len(queue') = 1 /\ \A i \in DOMAIN queue' : i = 1 /\ queue'[i] = 1
    BY <1>1
  <2>3. Delivered' = [i \in 1 .. accepted' - Len(queue') |-> i]
    <3>1. accepted' - Len(queue') = 0
      BY <1>1, <2>2
    <3> QED  BY <1>2, <1>3, <3>1
  <2> QED  BY <1>1, <2>1, <2>2, <2>3 DEF DeliveryInv
<1>5. ~ Closed /\ Closed' = Closed
  BY <1>1 DEF Closed
<1>6. ConnectionView!Put
  BY <1>1, <1>3, <1>5, PutChannel
<1> QED  BY <1>4, <1>6 DEF Carries, ConnectionView!Next

LEMMA PayloadCarries ==
  ASSUME DeliveryInv, Payload
  PROVE  Carries
<1>1. session = "open" /\ wire' = wire /\ UNCHANGED <<session, registered>>
  BY DEF Payload, Reading, TakeFrame, ReadHandler
<1>2. Closed' = Closed
  BY <1>1 DEF Closed
<1>3. \/ UNCHANGED <<accepted, queue>>
      \/ \E w : Put(w) /\ registered
  BY DEF Payload, ReadHandler, Interpret
<1> QED  BY <1>1, <1>2, <1>3, SilentCarries, PutCarries

LEMMA FrameCarries ==
  ASSUME ConnectionInv, ClosingInv, DeliveryInv, FrameWritten \/ PongWritten \/ CloseWritten
  PROVE  Carries
<1>1. UNCHANGED <<session, registered, accepted>>
  BY DEF FrameWritten, PongWritten, CloseWritten, QuietSession
<1>2. Closed' = Closed
  BY <1>1 DEF Closed
<1>3. ASSUME NEW f \in WireFrame, f.op # "text", wire' = Append(wire, f), queue' = queue
      PROVE  Carries
  BY <1>1, <1>2, <1>3, FrameDelivers, CloseChannel DEF Carries
<1>4. CASE PongWritten \/ CloseWritten
  <2>1. PICK op \in {"pong", "close"} : wire' = Append(wire, [op |-> op, n |-> 0])
    BY <1>4 DEF PongWritten, CloseWritten
  <2>2. PICK f \in WireFrame : f = [op |-> op, n |-> 0]
    BY DEF WireFrame
  <2> QED  BY <1>3, <1>4, <2>1, <2>2 DEF PongWritten, CloseWritten, QuietSession
<1>5. CASE FrameWritten
  <2>1. queue # << >> /\ queue \in Seq(Nat)
    BY <1>5 DEF ConnectionInv, QueueInv, NothingForgotten, FrameWritten, Writing
  <2>2. CASE QuietSession /\ wire' = Append(wire, [op |-> "part", n |-> Head(queue)])
    <3>1. PICK f \in WireFrame : f = [op |-> "part", n |-> Head(queue)]
      <4>1. Head(queue) \in Nat
        BY <2>1
      <4> QED  BY <4>1 DEF WireFrame
    <3> QED  BY <1>3, <2>2, <3>1 DEF QuietSession
  <2>3. CASE queue' = Tail(queue) /\ wire' = Append(wire, [op |-> "text", n |-> Head(queue)])
    <3>1. /\ DeliveryInv' /\ accepted' = accepted /\ Len(Delivered) < accepted
          /\ Delivered' = Append(Delivered, Len(Delivered) + 1)
      BY <1>1, <2>1, <2>3, LastFrameDelivers
    <3>2. ConnectionView!Deliver
      BY <1>2, <3>1 DEF ConnectionView!Deliver, Closed
    <3> QED  BY <3>1, <3>2 DEF Carries, ConnectionView!Next
  <2> QED  BY <1>5, <2>2, <2>3 DEF FrameWritten, WriteHandler
<1> QED  BY <1>4, <1>5

LEMMA NextCarries ==
  ASSUME ConnectionInv, ClosingInv, DeliveryInv, [Next]_vars
  PROVE  Carries
<1>1. ASSUME UNCHANGED <<accepted, queue, wire>>, session = "open" => session' = "open",
             (session' = session /\ (registered' => registered)) \/ session' # "open"
      PROVE  Carries
  <2>1. Closed => Closed'
    BY <1>1 DEF Closed
  <2> QED  BY <1>1, <2>1, SilentCarries
<1>2. CASE Upgrade \/ Payload \/ FrameWritten \/ PongWritten \/ CloseWritten
  BY <1>2, UpgradeCarries, PayloadCarries, FrameCarries
<1>3. CASE Send
  <2>1. Put(stream) /\ wire' = wire /\ registered /\ session = "open"
        /\ UNCHANGED <<session, registered>>
    BY <1>3 DEF Send, peerVars, ConnectionInv
  <2> QED  BY <2>1, PutCarries
<1>4. CASE Header \/ TornDown \/ ReadFails \/ WriteFails
  BY <1>1, <1>4 DEF Header, TornDown, ReadFails, WriteFails, Disconnect, QuietSession, TakeFrame, peerVars
<1>5. CASE RunPosted
  <2>1. UNCHANGED <<accepted, queue, wire, session>> /\ (registered' => registered)
    BY <1>5 DEF RunPosted, ResumedRead, ResumedWrite, Disconnect, QuietSession, peerVars
  <2> QED  BY <1>1, <2>1
<1>6. CASE UpgradeFails
  BY <1>1, <1>6 DEF UpgradeFails, peerVars
<1>7. CASE PeerSends \/ PeerCloses \/ PeerLeaves \/ PeerBreaks
  BY <1>1, <1>7 DEF PeerSends, PeerCloses, PeerLeaves, PeerBreaks, sessionVars
<1>8. CASE Accept
  <2>1. session # "open"
    BY <1>8 DEF Accept, ConnectionInv
  <2> QED  BY <1>1, <1>8, <2>1 DEF Accept
<1>9. CASE AcceptFails \/ Stop \/ CloseAcceptor \/ Join \/ UNCHANGED vars
  BY <1>1, <1>9 DEF AcceptFails, Stop, CloseAcceptor, Join, vars, sessionVars, peerVars
<1> QED
  BY <1>2, <1>3, <1>4, <1>5, <1>6, <1>7, <1>8, <1>9
  DEF Next, SessionNext, ServerNext, ReadStep, WriteStep

LEMMA DeliveryAlways == Spec => []DeliveryInv
<1>1. Init => DeliveryInv
  <2>1. SUFFICES ASSUME Init PROVE DeliveryInv
    OBVIOUS
  <2>2. accepted = 0 /\ queue = << >> /\ session = "none" /\ wire = << >>
    BY <2>1 DEF Init, SessionInit
  <2>3. queue \in Seq(Nat) /\ Len(queue) = 0 /\ DOMAIN queue = {}
    BY <2>2
  <2>4. Delivered = [i \in 1 .. 0 |-> i]
    BY <2>2, MessagesEmpty DEF Delivered
  <2>5. accepted \in 0 .. MaxOut /\ Len(queue) <= accepted /\ accepted - Len(queue) = 0
    <3>1. MaxOut \in Nat
      BY BoundsAssumption
    <3>2. accepted = 0 /\ Len(queue) = 0
      BY <2>2, <2>3
    <3> QED  BY <3>1, <3>2
  <2> QED  BY <2>2, <2>3, <2>4, <2>5 DEF DeliveryInv
<1>2. ConnectionInv /\ ClosingInv /\ DeliveryInv /\ [Next]_vars => DeliveryInv'
  BY NextCarries DEF Carries
<1> QED  BY <1>1, <1>2, ConnectionAlways, ClosingAlways, PTL DEF Spec

(***************************************************************************)
(* A session is a channel: whatever the read does on the same socket, each *)
(* message reaches the wire once, whole and in the order write was called, *)
(* and none is accepted after the session is closed.                       *)
(***************************************************************************)
THEOREM SessionIsChannel == Spec => ImplementsChannel
<1>1. Init => ConnectionView!Init
  BY MessagesEmpty DEF Init, SessionInit, ConnectionView!Init, Delivered
<1>2. ConnectionInv /\ ClosingInv /\ DeliveryInv /\ [Next]_vars
        => [ConnectionView!Next]_<<accepted, Delivered, session = "open" /\ ~ registered>>
  BY NextCarries DEF Carries, Closed
<1> QED
  BY <1>1, <1>2, ConnectionAlways, ClosingAlways, DeliveryAlways, PTL
  DEF Spec, ImplementsChannel, ConnectionView!Spec

-----------------------------------------------------------------------------
(***************************************************************************)
(* The types of the rest of the state.                                     *)
(***************************************************************************)
StatusInv ==
  /\ session \in {"none", "upgrading", "refused", "open"}
  /\ busy \in BOOLEAN /\ registered \in BOOLEAN
  /\ fault \in {"none", "not_registered", "no_session", "bad_message", "assertion"}
  /\ peer \in {"none", "open", "closing", "gone", "broken"}
  /\ acceptor \in {"open", "closed"} /\ accepting \in BOOLEAN
  /\ stop \in {"no", "asked", "joining", "joined"}

LEMMA NextStatus ==
  ASSUME StatusInv, [Next]_vars
  PROVE  StatusInv'
<1>1. CASE Upgrade \/ UpgradeFails \/ Send
  BY <1>1 DEF StatusInv, Next, ServerNext, Accept, AcceptFails, Stop, CloseAcceptor, Join,
     vars, serverVars, sessionVars, peerVars, SessionNext, Upgrade, UpgradeFails, Send, Put
<1>2. CASE ReadStep /\ UNCHANGED serverVars
  <2>1. CASE Header \/ PongWritten \/ CloseWritten
    BY <1>2, <2>1 DEF StatusInv, Header, PongWritten, CloseWritten, QuietSession, TakeFrame,
       peerVars, serverVars
  <2>2. CASE Payload
    BY <1>2, <2>2 DEF StatusInv, Payload, TakeFrame, ReadHandler, Interpret, Put, serverVars
  <2>3. CASE TornDown \/ ReadFails
    BY <1>2, <2>3 DEF StatusInv, TornDown, ReadFails, Disconnect, peerVars, serverVars
  <2> QED  BY <1>2, <2>1, <2>2, <2>3 DEF ReadStep
<1>3. CASE WriteStep /\ UNCHANGED serverVars
  BY <1>3 DEF StatusInv, WriteStep, FrameWritten, WriteHandler, WriteFails, Disconnect,
     QuietSession, peerVars, serverVars
<1>4. CASE RunPosted /\ UNCHANGED serverVars
  BY <1>4 DEF StatusInv, RunPosted, ResumedRead, ResumedWrite, Disconnect, QuietSession,
     peerVars, serverVars
<1>5. CASE (PeerSends \/ PeerCloses \/ PeerLeaves \/ PeerBreaks) /\ UNCHANGED serverVars
  BY <1>5 DEF StatusInv, PeerSends, PeerCloses, PeerLeaves, PeerBreaks, sessionVars, serverVars
<1>6. CASE ServerNext \/ UNCHANGED vars
  BY <1>6 DEF StatusInv, ServerNext, Accept, AcceptFails, Stop, CloseAcceptor, Join, vars,
     sessionVars, peerVars, serverVars
<1> QED  BY <1>1, <1>2, <1>3, <1>4, <1>5, <1>6 DEF Next, SessionNext

(***************************************************************************)
(* Every variable of the server has its type; queue_ holds messages that   *)
(* write was called with, and a message never has more than two frames to  *)
(* go.                                                                     *)
(***************************************************************************)
THEOREM ServerTyping == Spec => []TypeOK
<1>1. Init => StatusInv
  BY DEF Init, SessionInit, StatusInv
<1>2. StatusInv /\ [Next]_vars => StatusInv'
  BY NextStatus
<1>3. StatusInv /\ ConnectionInv /\ BlameInv /\ ReadInv /\ DeliveryInv => TypeOK
  <2>1. SUFFICES ASSUME StatusInv, ConnectionInv, BlameInv, ReadInv, DeliveryInv
                 PROVE  TypeOK
    OBVIOUS
  <2>2. queue \in Seq(1 .. MaxOut)
    <3>1. /\ accepted \in 0 .. MaxOut /\ queue \in Seq(Nat) /\ Len(queue) <= accepted
          /\ Len(queue) \in Nat /\ MaxOut \in Nat /\ DOMAIN queue = 1 .. Len(queue)
      BY <2>1, BoundsAssumption, LenProperties DEF DeliveryInv
    <3>2. \A i \in 1 .. Len(queue) : queue[i] = (accepted - Len(queue)) + i
      BY <2>1, <3>1 DEF DeliveryInv
    <3>3. \A i \in 1 .. Len(queue) : queue[i] \in 1 .. MaxOut
      BY <3>1, <3>2
    <3> QED  BY <3>1, <3>3, SeqDef
  <2>3. stream \in [rd : ReadStates, wr : WriteStates, block : {"none", "rd", "wr"},
                    failed : BOOLEAN, closing : BOOLEAN, frames : 0 .. 2,
                    posted : Seq({"rd", "wr"})]
    <3>1. stream \in Streams /\ stream.frames <= 2
      BY <2>1 DEF ConnectionInv, QueueInv, BlameInv, Sound
    <3>2. stream.frames \in 0 .. 2
      BY <3>1 DEF Streams
    <3> QED  BY <3>1, <3>2 DEF Streams
  <2> QED  BY <2>1, <2>2, <2>3 DEF TypeOK, StatusInv, BlameInv, ReadInv, DeliveryInv
<1> QED
  BY <1>1, <1>2, <1>3, ConnectionAlways, BlameAlways, ReadAlways, DeliveryAlways, PTL DEF Spec
=============================================================================
