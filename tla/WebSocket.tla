----------------------------- MODULE WebSocket -----------------------------
(***************************************************************************)
(* beast::websocket::stream as a Session uses it: at most one async_read   *)
(* and one async_write at a time.  Both write to the socket, the read when *)
(* it answers a ping or a close frame, or a frame that breaks the          *)
(* protocol, and wr_block_ says whose turn it is: the other operation      *)
(* parks itself in rd_op_ or wr_op_ and is resumed, by a handler that is   *)
(* posted, when the first releases the block.                              *)
(*                                                                         *)
(* The operations are functions on the state w of a stream:                *)
(*   rd, wr   where the read and the write stand                           *)
(*   block    wr_block_, the operation that may write to the socket        *)
(*   failed   failed_: an operation on the socket has failed               *)
(*   closing  wr_close_: a close frame has been sent.  Only a read that    *)
(*            will not read on sends one, so it is never set while a       *)
(*            frame is read.                                               *)
(*   frames   the frames of the write that are still to be sent            *)
(*   posted   the operations whose resumption is posted, in order          *)
(* A session neither pings nor closes, and does not compress.              *)
(***************************************************************************)
EXTENDS Naturals, Sequences

\* A read waits for a frame's header or payload, waits for its turn to write
\* in rd_op_, has been resumed, writes, or shuts the connection down.
Parked == {"pong_parked", "close_parked", "fail_parked"}
Resumed == {"pong_resumed", "close_resumed", "fail_resumed"}
Answering == {"pong", "close", "teardown"}
ReadStates == {"none", "header", "payload", "aborted"} \cup Parked \cup Resumed \cup Answering

\* A write is in wr_op_, resumed, about to try again, in the socket, or has
\* ended before it wrote anything.
WriteStates == {"none", "parked", "resumed", "again", "writing", "aborted"}

Fresh == [rd |-> "none", wr |-> "none", block |-> "none", failed |-> FALSE,
          closing |-> FALSE, frames |-> 0, posted |-> << >>]

Post(w, op) == [w EXCEPT !.posted = Append(@, op)]
Release(w, op) == [w EXCEPT !.block = IF @ = op THEN "none" ELSE @]

-----------------------------------------------------------------------------
(***************************************************************************)
(* write_frame_op.                                                         *)
(***************************************************************************)
Write(w) == [w EXCEPT !.wr = "writing", !.block = "wr"]

\* Mutants of MaybeSuspend: it does not look whose turn it is; it gives up
\* where it should wait.
WriteAtOnce(w) == Write(w)
GiveUp(w) == IF w.block = "none" /\ ~ (w.failed \/ w.closing)
               THEN Write(w) ELSE Post([w EXCEPT !.wr = "aborted"], "wr")

\* do_maybe_suspend
MaybeSuspend(w) ==
  CASE w.block # "none" -> [w EXCEPT !.wr = "parked"]
    [] w.block = "none" /\ (w.failed \/ w.closing) ->
         Post([w EXCEPT !.wr = "aborted"], "wr")
    [] w.block = "none" /\ ~ (w.failed \/ w.closing) -> Write(w)

\* async_write of a message of n frames
StartWrite(w, n) == MaybeSuspend([w EXCEPT !.frames = n])

\* wr_op_.maybe_invoke
ResumeWrite(w) ==
  IF w.wr = "parked" THEN Post([w EXCEPT !.wr = "resumed", !.block = "wr"], "wr") ELSE w

(***************************************************************************)
(* read_frame_op.                                                          *)
(***************************************************************************)
StartRead(w) ==
  IF w.failed THEN Post([w EXCEPT !.rd = "aborted"], "rd")
              ELSE [w EXCEPT !.rd = "header"]

Pong(w) == [w EXCEPT !.rd = "pong", !.block = "rd"]
Close(w) == [w EXCEPT !.rd = "close", !.block = "rd", !.closing = TRUE]
Fail(w) == Close([w EXCEPT !.failed = TRUE])

\* do_control for a ping or close frame, and do_fail: park while a write is on.
AnswerPing(w)  == IF w.block # "none" THEN [w EXCEPT !.rd = "pong_parked"] ELSE Pong(w)
AnswerClose(w) == IF w.block # "none" THEN [w EXCEPT !.rd = "close_parked"] ELSE Close(w)
AnswerBad(w)   == IF w.block # "none" THEN [w EXCEPT !.rd = "fail_parked"] ELSE Fail(w)

\* rd_op_.maybe_invoke; do_fail + 2, unlike the others, does not take the block.
ResumeRead(w) ==
  CASE w.rd = "pong_parked"  -> Post([w EXCEPT !.rd = "pong_resumed", !.block = "rd"], "rd")
    [] w.rd = "close_parked" -> Post([w EXCEPT !.rd = "close_resumed", !.block = "rd"], "rd")
    [] w.rd = "fail_parked"  -> Post([w EXCEPT !.rd = "fail_resumed"], "rd")
    [] w.rd \notin Parked    -> w

\* What is left of the stream when an operation's handler is called.
FinishRead(w)  == ResumeWrite(Release([w EXCEPT !.rd = "none"], "rd"))
FinishWrite(w) == ResumeRead(Release([w EXCEPT !.wr = "none", !.frames = 0], "wr"))

\* Mutant of NextFrame: the write is not posted behind the read.
NextFrameLost(w) ==
  LET released == Release([w EXCEPT !.frames = @ - 1], "wr")
  IN  IF w.rd \in Parked THEN [ResumeRead(released) EXCEPT !.wr = "again"]
                         ELSE Write(released)

\* do_nomask_frag + 2: a parked read has its turn between two frames.
NextFrame(w) ==
  LET released == Release([w EXCEPT !.frames = @ - 1], "wr")
  IN  IF w.rd \in Parked THEN Post([ResumeRead(released) EXCEPT !.wr = "again"], "wr")
                         ELSE Write(released)
=============================================================================
