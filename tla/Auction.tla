------------------------------ MODULE Auction ------------------------------
(***************************************************************************)
(* The auction a table promises: three bidders, one of them holding a bid  *)
(* of 100 he was made to place.  A bidder who does not hold the highest    *)
(* bid raises it, by the minimum raise at least, or passes for good; the   *)
(* last one left has won and may set his contract higher once.  Turns,     *)
(* seats, cards and messages are not part of the promise.                  *)
(***************************************************************************)
EXTENDS Integers, FiniteSets

CONSTANTS Bidders, NoBidder, MinRaise

VARIABLES
  phase,   \* "closed", "open", "won", "contracted"
  active,  \* the bidders who have not passed
  holder,  \* of the highest bid
  price    \* the highest bid

vars == <<phase, active, holder, price>>

Init == phase = "closed" /\ active = {} /\ holder = NoBidder /\ price = 0

(***************************************************************************)
(* The cards are dealt, for the first time or after a contract has been    *)
(* played.                                                                 *)
(***************************************************************************)
Open == /\ phase \in {"closed", "contracted"}
        /\ phase' = "open"
        /\ active' \subseteq Bidders /\ Cardinality(active') = 3
        /\ holder' \in active'
        /\ price' = 100

Raise == /\ phase = "open"
         /\ holder' \in active \ {holder}
         /\ price' >= price + MinRaise
         /\ UNCHANGED <<phase, active>>

Pass == /\ phase = "open"
        /\ \E b \in active \ {holder} : active' = active \ {b}
        /\ phase' = IF active' = {holder} THEN "won" ELSE "open"
        /\ UNCHANGED <<holder, price>>

Contract == /\ phase = "won"
            /\ phase' = "contracted"
            /\ price' >= price
            /\ UNCHANGED <<active, holder>>

(***************************************************************************)
(* A player leaves, or the game is over.                                   *)
(***************************************************************************)
Close == /\ phase # "closed"
         /\ phase' = "closed" /\ active' = {} /\ holder' = NoBidder /\ price' = 0

Next == Open \/ Raise \/ Pass \/ Contract \/ Close

Spec == Init /\ [][Next]_vars
=============================================================================
