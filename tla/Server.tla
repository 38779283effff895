------------------------------- MODULE Server -------------------------------
(***************************************************************************)
(* The server's thread with the accept loop and one connection, and the    *)
(* main thread that stops it.                                              *)
(***************************************************************************)
EXTENDS Session

VARIABLES
  acceptor,   \* acceptor_: "open" or "closed"
  accepting,  \* an async_accept is outstanding
  stop        \* stop(): "no", "asked", "joining" or "joined"

serverVars == <<acceptor, accepting, stop>>
vars == <<sessionVars, peerVars, serverVars>>

Init ==
  /\ SessionInit
  /\ acceptor = "open" /\ accepting = TRUE /\ stop = "no"

\* Server::acceptHandler starts the session and the next accept.
Accept ==
  /\ fault = "none" /\ accepting /\ acceptor = "open" /\ peer = "none"
  /\ peer' = "open" /\ session' = "upgrading"
  /\ UNCHANGED <<serverVars, toServer, sent, wire, queue, busy, buffer, stream,
                 registered, accepted, told, fault>>

\* It ends the loop when an accept has failed, whether or not by stop.
AcceptFails ==
  /\ fault = "none" /\ accepting
  /\ accepting' = FALSE
  /\ UNCHANGED <<acceptor, stop, sessionVars, peerVars>>

\* Server::stop in the main thread: the close is dispatched to the other one.
Stop ==
  /\ stop = "no"
  /\ stop' = "asked"
  /\ UNCHANGED <<acceptor, accepting, sessionVars, peerVars>>

\* Mutant of CloseAcceptor: the acceptor stays open.
CloseNothing ==
  /\ fault = "none" /\ stop = "asked"
  /\ stop' = "joining"
  /\ UNCHANGED <<acceptor, accepting, sessionVars, peerVars>>

CloseAcceptor ==
  /\ fault = "none" /\ stop = "asked"
  /\ acceptor' = "closed" /\ stop' = "joining"
  /\ UNCHANGED <<accepting, sessionVars, peerVars>>

\* io_service::run returns when nothing is outstanding, and join with it.
Join ==
  /\ fault = "none" /\ stop = "joining"
  /\ ~ accepting /\ session # "upgrading" /\ stream.rd = "none" /\ stream.wr = "none"
  /\ stop' = "joined"
  /\ UNCHANGED <<acceptor, accepting, sessionVars, peerVars>>

ServerNext == Accept \/ AcceptFails \/ Stop \/ CloseAcceptor \/ Join

Next ==
  \/ SessionNext /\ UNCHANGED serverVars
  \/ ServerNext

Spec == Init /\ [][Next]_vars

(***************************************************************************)
(* The thread runs what is ready: asio's queue is first come first served. *)
(* Nothing makes clients say or do anything, but a network that works      *)
(* takes what is written to it.                                            *)
(***************************************************************************)
Fairness ==
  /\ WF_vars(ReadStep /\ UNCHANGED serverVars)
  /\ WF_vars(WriteStep /\ UNCHANGED serverVars)
  /\ WF_vars(RunPosted /\ UNCHANGED serverVars)
  /\ WF_vars(Ended /\ UpgradeFails /\ UNCHANGED serverVars)
  /\ WF_vars(CloseAcceptor)
  /\ WF_vars(acceptor = "closed" /\ AcceptFails)
  /\ WF_vars(Join)

FairSpec == Spec /\ Fairness
=============================================================================
