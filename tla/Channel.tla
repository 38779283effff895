------------------------------ MODULE Channel ------------------------------
(***************************************************************************)
(* What a connection is to the game that writes to it: messages are        *)
(* accepted one by one and arrive in that order, each once, until the      *)
(* connection is closed; what has not been accepted by then never is.      *)
(***************************************************************************)
EXTENDS Naturals, Sequences

VARIABLES
  accepted,   \* the number of messages accepted
  delivered,  \* those that have arrived, by their numbers
  closed

Init == accepted = 0 /\ delivered = << >> /\ closed = FALSE

Put == ~ closed /\ accepted' = accepted + 1 /\ UNCHANGED <<delivered, closed>>

Deliver ==
  /\ Len(delivered) < accepted
  /\ delivered' = Append(delivered, Len(delivered) + 1)
  /\ UNCHANGED <<accepted, closed>>

Close == closed' = TRUE /\ UNCHANGED <<accepted, delivered>>

Next == Put \/ Deliver \/ Close

Spec == Init /\ [][Next]_<<accepted, delivered, closed>>
=============================================================================
