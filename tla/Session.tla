------------------------------ MODULE Session ------------------------------
(***************************************************************************)
(* One connection of the server: the Session, its registration with the    *)
(* SessionManager, its stream and the client at the other end.             *)
(*                                                                         *)
(* A step of the server is one handler run by its thread: the end of an    *)
(* operation on the socket, or a handler that was posted.  Any of them may *)
(* be next; posted ones run in the order they were posted.  An exception   *)
(* that leaves a handler, or an assertion, ends the server.                *)
(***************************************************************************)
EXTENDS WebSocket

CONSTANTS
  MaxOut,  \* bound on the messages the server sends
  MaxIn,   \* bound on the frames the client sends
  Long,    \* the messages that do not fit into one frame
  Unfit    \* the client's frames that end a message the game cannot take

ASSUME BoundsAssumption ==
  MaxOut \in Nat \ {0} /\ MaxIn \in Nat /\ Long \subseteq Nat /\ Unfit \subseteq Nat

VARIABLES
  \* Session
  session,     \* "none", "upgrading", "refused" or "open"
  queue,       \* queue_: messages, numbered in the order of the calls of write
  busy,        \* busy_
  buffer,      \* buffer_: the frames of the message that is being read
  stream,      \* websocket_
  \* SessionManager
  registered,  \* sessions_ has the session
  accepted,    \* the messages write has been called with so far
  told,        \* what interpret has been called with so far
  fault,       \* what has ended the server, "none" while it runs
  \* the connection
  peer,        \* the client: "none", "open", "closing", "gone" or "broken"
  toServer,    \* the frames the client has sent and the server has not read
  sent,        \* their number so far
  wire         \* the frames the server has sent

sessionVars == <<session, queue, busy, buffer, stream, registered, accepted, told, fault>>
peerVars == <<peer, toServer, sent, wire>>

\* Mutant of Frames: one frame too many.
FramesPlusOne(m) == IF m \in Long THEN 3 ELSE 1

Frames(m) == IF m \in Long THEN 2 ELSE 1
Ended == peer \in {"gone", "broken"}

(***************************************************************************)
(* What doWork does not survive: text that is not a JSON object, which     *)
(* parseMessage throws on before the try; an object without the fields     *)
(* that runGame looks up; a message for a room from a client who sits in   *)
(* none, whose room is active_games_[-1].  The last two are undefined: the *)
(* game may also go on, with an answer or without.                         *)
(***************************************************************************)
CannotTake(message) == message[Len(message)].n \in Unfit

SessionInit ==
  /\ session = "none" /\ queue = << >> /\ busy = FALSE /\ buffer = << >>
  /\ stream = Fresh
  /\ registered = FALSE /\ accepted = 0 /\ told = << >> /\ fault = "none"
  /\ peer = "none" /\ toServer = << >> /\ sent = 0 /\ wire = << >>

-----------------------------------------------------------------------------
(***************************************************************************)
(* The session's own code, called with the stream in state w.              *)
(***************************************************************************)

\* Session::write
Put(w) ==
  /\ accepted < MaxOut
  /\ accepted' = accepted + 1
  /\ queue' = Append(queue, accepted + 1)
  /\ busy' = TRUE
  /\ stream' = IF busy THEN w ELSE StartWrite(w, Frames(accepted + 1))

(***************************************************************************)
(* Session::disconnect.  A session that is not registered any more cannot  *)
(* be unregistered: the exception leaves the handler.                      *)
(***************************************************************************)
Disconnect(w) ==
  /\ \/ registered /\ UNCHANGED fault
     \/ ~ registered /\ fault' = "not_registered"
  /\ registered' = FALSE
  /\ stream' = w
  /\ UNCHANGED <<session, queue, busy, buffer, accepted, told>>

(***************************************************************************)
(* SessionManager::interpret: the game answers this client or it does not. *)
(* An answer to a session that is not registered throws, and a message     *)
(* that the game cannot take may end it.                                   *)
(***************************************************************************)
Interpret(w, message) ==
  /\ told' = Append(told, message)
  /\ \/ stream' = w /\ UNCHANGED <<queue, busy, accepted, fault>>
     \/ registered /\ Put(w) /\ UNCHANGED fault
     \/ ~ registered /\ fault' = "no_session" /\ stream' = w
        /\ UNCHANGED <<queue, busy, accepted>>
     \/ CannotTake(message) /\ fault' = "bad_message" /\ stream' = w
        /\ UNCHANGED <<queue, busy, accepted>>

\* Mutant of ReadHandler: what has been read stays in the buffer.
ReadHandlerKeeps(w, message) ==
  /\ buffer' = message
  /\ Interpret(StartRead(w), message)
  /\ UNCHANGED <<session, registered>>

\* Session::readHandler: the next read is started before the buffer is emptied.
ReadHandler(w, message) ==
  /\ buffer' = << >>
  /\ Interpret(StartRead(w), message)
  /\ UNCHANGED <<session, registered>>

\* Mutants of WriteHandler: the message stays in the queue; the next is not sent.
WriteHandlerRepeats(w) ==
  /\ stream' = StartWrite(w, Frames(Head(queue)))
  /\ UNCHANGED <<queue, busy>>
WriteHandlerRests(w) ==
  /\ queue' = Tail(queue) /\ busy' = FALSE /\ stream' = w

\* Session::writeHandler
WriteHandler(w) ==
  /\ queue' = Tail(queue)
  /\ \/ queue' # << >> /\ stream' = StartWrite(w, Frames(Head(queue'))) /\ UNCHANGED busy
     \/ queue' = << >> /\ stream' = w /\ busy' = FALSE

(***************************************************************************)
(* Session::acceptHandler: the session is registered, the client welcomed  *)
(* and the first read started.                                             *)
(***************************************************************************)
Upgrade ==
  /\ fault = "none" /\ session = "upgrading" /\ peer # "broken"
  /\ session' = "open" /\ registered' = TRUE
  /\ accepted' = 1 /\ queue' = <<1>> /\ busy' = TRUE
  /\ stream' = StartRead(StartWrite(stream, Frames(1)))
  /\ UNCHANGED <<buffer, told, fault, peerVars>>

UpgradeFails ==
  /\ fault = "none" /\ session = "upgrading"
  /\ session' = "refused"
  /\ UNCHANGED <<queue, busy, buffer, stream, registered, accepted, told, fault, peerVars>>

\* A message of another client makes the game send one to this client.
Send ==
  /\ fault = "none" /\ registered
  /\ Put(stream)
  /\ UNCHANGED <<session, buffer, registered, told, fault, peerVars>>

-----------------------------------------------------------------------------
(***************************************************************************)
(* Ends of the read's operations on the socket.                            *)
(***************************************************************************)
Reading(step) == fault = "none" /\ session = "open" /\ stream.rd = step

TakeFrame == toServer' = Tail(toServer) /\ UNCHANGED <<peer, sent, wire>>
QuietSession == UNCHANGED <<session, queue, busy, buffer, registered, accepted, told, fault>>

\* read_fh1 and read_fh2, and what do_control does with a control frame.
Header ==
  /\ Reading("header") /\ toServer # << >>
  /\ LET op == Head(toServer).op
     IN  \/ /\ op \in {"text", "part"}
            /\ stream' = [stream EXCEPT !.rd = "payload"]
            /\ UNCHANGED peerVars
         \/ op = "ping" /\ stream' = AnswerPing(stream) /\ TakeFrame
         \/ op = "pong" /\ stream' = stream /\ TakeFrame
         \/ op = "close" /\ stream' = AnswerClose(stream) /\ TakeFrame
         \/ op = "bad" /\ stream' = AnswerBad(stream) /\ TakeFrame
  /\ QuietSession

\* read_op goes on until the last frame of the message.
Payload ==
  /\ Reading("payload") /\ toServer # << >>
  /\ TakeFrame
  /\ LET message == Append(buffer, Head(toServer))
     IN  \/ /\ Head(toServer).op = "part"
            /\ buffer' = message
            /\ stream' = StartRead(FinishRead(stream))
            /\ UNCHANGED <<session, queue, busy, registered, accepted, told, fault>>
         \/ /\ Head(toServer).op = "text"
            /\ ReadHandler(FinishRead(stream), message)

PongWritten ==
  /\ Reading("pong") /\ peer # "broken"
  /\ stream' = [Release(stream, "rd") EXCEPT !.rd = "header"]
  /\ wire' = Append(wire, [op |-> "pong", n |-> 0])
  /\ QuietSession /\ UNCHANGED <<peer, toServer, sent>>

CloseWritten ==
  /\ Reading("close") /\ peer # "broken"
  /\ stream' = [stream EXCEPT !.rd = "teardown"]
  /\ wire' = Append(wire, [op |-> "close", n |-> 0])
  /\ QuietSession /\ UNCHANGED <<peer, toServer, sent>>

\* What the client still sends is thrown away until it ends the connection.
TornDown ==
  /\ Reading("teardown") /\ Ended
  /\ Disconnect(FinishRead(stream))
  /\ toServer' = << >> /\ UNCHANGED <<peer, sent, wire>>

\* The socket fails under the read.
ReadFails ==
  /\ \/ Reading("header") /\ Ended /\ (toServer = << >> \/ peer = "broken")
     \/ Reading("payload") /\ peer = "broken"
     \/ Reading("pong") /\ Ended
     \/ Reading("close") /\ Ended
  /\ Disconnect(FinishRead([stream EXCEPT !.failed = TRUE]))
  /\ UNCHANGED peerVars

(***************************************************************************)
(* Ends of the write's operations on the socket.                           *)
(***************************************************************************)
Writing == fault = "none" /\ session = "open" /\ stream.wr = "writing"

FrameWritten ==
  /\ Writing /\ peer # "broken"
  /\ \/ /\ stream.frames > 1
        /\ stream' = NextFrame(stream)
        /\ wire' = Append(wire, [op |-> "part", n |-> Head(queue)])
        /\ QuietSession
     \/ /\ stream.frames = 1
        /\ WriteHandler(FinishWrite(stream))
        /\ wire' = Append(wire, [op |-> "text", n |-> Head(queue)])
        /\ UNCHANGED <<session, buffer, registered, accepted, told, fault>>
  /\ UNCHANGED <<peer, toServer, sent>>

WriteFails ==
  /\ Writing /\ Ended
  /\ Disconnect(FinishWrite([stream EXCEPT !.failed = TRUE]))
  /\ UNCHANGED peerVars

(***************************************************************************)
(* Handlers that were posted.  A read that had to wait before it could     *)
(* fail the connection may find that the next write is on, which the       *)
(* assertion at do_fail + 1 excludes.                                      *)
(***************************************************************************)
ResumedRead(w) ==
  \/ w.rd = "aborted" /\ Disconnect(FinishRead(w))
  \/ w.rd \in Resumed /\ w.failed /\ Disconnect(FinishRead(w))
  \/ w.rd = "pong_resumed" /\ ~ w.failed /\ stream' = Pong(w) /\ QuietSession
  \/ w.rd = "close_resumed" /\ ~ w.failed /\ stream' = Close(w) /\ QuietSession
  \/ w.rd = "fail_resumed" /\ ~ w.failed /\ w.block = "none" /\ stream' = Fail(w) /\ QuietSession
  \/ /\ w.rd = "fail_resumed" /\ ~ w.failed /\ w.block # "none"
     /\ fault' = "assertion"
     /\ stream' = w
     /\ UNCHANGED <<session, queue, busy, buffer, registered, accepted, told>>

ResumedWrite(w) ==
  \/ w.wr = "aborted" /\ Disconnect(FinishWrite(w))
  \/ w.wr = "resumed" /\ (w.failed \/ w.closing) /\ Disconnect(FinishWrite(w))
  \/ w.wr = "resumed" /\ ~ (w.failed \/ w.closing) /\ stream' = Write(w) /\ QuietSession
  \/ w.wr = "again" /\ stream' = MaybeSuspend(w) /\ QuietSession

RunPosted ==
  /\ fault = "none" /\ stream.posted # << >>
  /\ LET w == [stream EXCEPT !.posted = Tail(@)]
     IN  \/ Head(stream.posted) = "rd" /\ ResumedRead(w)
         \/ Head(stream.posted) = "wr" /\ ResumedWrite(w)
  /\ UNCHANGED peerVars

ReadStep == Header \/ Payload \/ PongWritten \/ CloseWritten \/ TornDown \/ ReadFails
WriteStep == FrameWritten \/ WriteFails
-----------------------------------------------------------------------------
(***************************************************************************)
(* The client.                                                             *)
(***************************************************************************)
PeerSends ==
  /\ peer = "open" /\ session = "open" /\ sent < MaxIn /\ Len(toServer) < 2
  /\ \E op \in {"text", "part", "ping", "pong", "bad"} :
       toServer' = Append(toServer, [op |-> op, n |-> sent + 1])
  /\ sent' = sent + 1
  /\ UNCHANGED <<peer, wire, sessionVars>>

PeerCloses ==
  /\ peer = "open" /\ session = "open"
  /\ peer' = "closing"
  /\ toServer' = Append(toServer, [op |-> "close", n |-> 0])
  /\ UNCHANGED <<sent, wire, sessionVars>>

\* It ends the connection, or the connection breaks and loses what was sent last.
PeerLeaves ==
  /\ peer \in {"open", "closing"}
  /\ peer' = "gone"
  /\ UNCHANGED <<toServer, sent, wire, sessionVars>>

PeerBreaks ==
  /\ peer \in {"open", "closing"}
  /\ peer' = "broken"
  /\ \E k \in 0 .. Len(toServer) : toServer' = SubSeq(toServer, 1, k)
  /\ UNCHANGED <<sent, wire, sessionVars>>

SessionNext ==
  \/ Upgrade \/ UpgradeFails \/ Send
  \/ ReadStep \/ WriteStep \/ RunPosted
  \/ PeerSends \/ PeerCloses \/ PeerLeaves \/ PeerBreaks
=============================================================================
