-------------------------------- MODULE Hall --------------------------------
(***************************************************************************)
(* What the lobby is to its visitors: a hall with tables of MaxSeats seats *)
(* each, where everybody stands or sits at one table.  One visitor moves   *)
(* at a time, and another table is brought in only when no table is free.  *)
(***************************************************************************)
EXTENDS Naturals, FiniteSets, Sequences

CONSTANTS Visitors, MaxSeats

VARIABLE tables  \* the visitors who sit at each table

Sitting == UNION {tables[t] : t \in DOMAIN tables}

Init == tables = << >>

SitDown(v, t) ==
  /\ v \notin Sitting /\ Cardinality(tables[t]) < MaxSeats
  /\ tables' = [tables EXCEPT ![t] = @ \cup {v}]

BringTable(v) ==
  /\ v \notin Sitting /\ \A t \in DOMAIN tables : tables[t] # {}
  /\ tables' = Append(tables, {v})

StandUp(v, t) ==
  /\ v \in tables[t]
  /\ tables' = [tables EXCEPT ![t] = @ \ {v}]

Next == \E v \in Visitors :
          \/ BringTable(v)
          \/ \E t \in DOMAIN tables : SitDown(v, t) \/ StandUp(v, t)

Spec == Init /\ [][Next]_tables

\* Nobody sits at two tables.
OneSeat == \A s, t \in DOMAIN tables : tables[s] \cap tables[t] # {} => s = t
=============================================================================
