-------------------------- MODULE ServerProperties --------------------------
(***************************************************************************)
(* What a connection of the server promises: properties of module Server.  *)
(***************************************************************************)
EXTENDS Server

Frame == [op : {"text", "part", "ping", "pong", "bad", "close"}, n : 0 .. MaxIn]

TypeOK ==
  /\ session \in {"none", "upgrading", "refused", "open"}
  /\ queue \in Seq(1 .. MaxOut) /\ busy \in BOOLEAN /\ buffer \in Seq(Frame)
  /\ stream \in [rd : ReadStates, wr : WriteStates, block : {"none", "rd", "wr"},
                 failed : BOOLEAN, closing : BOOLEAN, frames : 0 .. 2,
                 posted : Seq({"rd", "wr"})]
  /\ registered \in BOOLEAN /\ accepted \in 0 .. MaxOut
  /\ fault \in {"none", "not_registered", "no_session", "bad_message", "assertion"}
  /\ peer \in {"none", "open", "closing", "gone", "broken"}
  /\ toServer \in Seq(Frame) /\ sent \in 0 .. MaxIn
  /\ acceptor \in {"open", "closed"} /\ accepting \in BOOLEAN
  /\ stop \in {"no", "asked", "joining", "joined"}

(***************************************************************************)
(* The socket has one writer: the block belongs to the read exactly while  *)
(* it answers the client or has been resumed to do so, to the write        *)
(* exactly while it is in the socket or has been resumed.                  *)
(***************************************************************************)
Turns(w) ==
  /\ w.block = "rd" <=> w.rd \in Answering \cup {"pong_resumed", "close_resumed"}
  /\ w.block = "wr" <=> w.wr \in {"writing", "resumed"}

OneWriter == Turns(stream)

(***************************************************************************)
(* busy_ and queue_ agree, and nothing lies in the queue of a registered   *)
(* session without a write that will take it out.                          *)
(***************************************************************************)
NothingForgotten ==
  /\ busy <=> queue # << >>
  /\ stream.wr # "none" => busy
  /\ registered /\ busy => stream.wr # "none"

(***************************************************************************)
(* interpret is called with the client's messages, whole, in order, each   *)
(* once: buffer_ never holds more than the message that is being read.     *)
(***************************************************************************)
MessagesAreWhole ==
  /\ \A i \in DOMAIN told :
       \A k \in DOMAIN told[i] : told[i][k].op = "text" <=> k = Len(told[i])
  /\ LET read == Append(told, buffer)
     IN  \A i, j \in DOMAIN read : \A k \in DOMAIN read[i], l \in DOMAIN read[j] :
           i < j \/ (i = j /\ k < l) => read[i][k].n < read[j][l].n

(***************************************************************************)
(* The frames on the wire are those of the messages in the order write was *)
(* called, with nothing but control frames between the frames of one.      *)
(***************************************************************************)
Messages(frames) ==
  LET among[i \in 0 .. Len(frames)] ==
        IF i = 0 THEN << >>
        ELSE IF frames[i].op = "text" THEN Append(among[i - 1], frames[i].n) ELSE among[i - 1]
  IN  among[Len(frames)]

Delivered == Messages(wire)

ConnectionView == INSTANCE Channel WITH
  delivered <- Delivered, closed <- session = "open" /\ ~ registered

ImplementsChannel == ConnectionView!Spec

(***************************************************************************)
(* Nothing follows the server's close frame on the wire.                   *)
(***************************************************************************)
CloseIsLast ==
  \A i \in DOMAIN wire : wire[i].op = "close" => i = Len(wire)

(***************************************************************************)
(* A write that was parked behind a pong is resumed only when the read     *)
(* ends: it waits for the client to say something more.                    *)
(***************************************************************************)
Stranded == stream.wr = "parked" /\ stream.rd \in {"header", "payload"}

(***************************************************************************)
(* What the server has queued goes out, unless the session is closed or    *)
(* being closed, the server has ended, or the message is stranded.         *)
(***************************************************************************)
QueueDrains ==
  queue # << >> ~>
    queue = << >> \/ ~ registered \/ stream.closing \/ fault # "none" \/ Stranded

(***************************************************************************)
(* stop() returns when no client is left, unless the server has ended.     *)
(***************************************************************************)
StopReturns ==
  stop = "asked" ~> stop = "joined" \/ fault # "none" \/ peer \in {"open", "closing"}

(***************************************************************************)
(* What can end the server while a client stays: a connection that has     *)
(* failed, a frame that breaks the protocol, or a message that the game    *)
(* cannot take, which is then the last one interpret was called with.  No  *)
(* order of reads, writes and control frames does it by itself.            *)
(***************************************************************************)
HarmlessWhileOpen ==
  fault # "none" /\ peer = "open" =>
    \/ stream.failed \/ stream.rd = "fail_resumed"
    \/ fault = "bad_message" /\ told # << >> /\ CannotTake(told[Len(told)])

(***************************************************************************)
(* unregisterSession never comes to "trying to unregister non-existing     *)
(* session".                                                               *)
(***************************************************************************)
UnregisteredOnce == fault # "not_registered"
=============================================================================
