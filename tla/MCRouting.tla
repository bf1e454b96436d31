----------------------------- MODULE MCRouting -----------------------------
(* Small instances of Routing for TLC.                                         *)
EXTENDS Routing

CONSTANTS d1, d2

(* Everybody staffs the first desk, operator 1 alone the second.               *)
MCMembersOf   == [d \in Desks |-> IF d = d1 THEN Operators ELSE {1}]
MCChannelDesk == [c \in Conversations |-> d1]
MCBudget      == [c \in Conversations |-> MaxBudget]
MCOffers      == {{[operator |-> 1, capacity |-> MaxBudget, load |-> 0]}}
MCNoOffers    == {}
MCDeskLeads   == {[d \in Desks |-> NoOne], [d \in Desks |-> 1]}
=============================================================================
