----------------------------- MODULE RoundRobin -----------------------------
(* Who is served next, and what a conversation costs its owner: the pure       *)
(* arithmetic of assignment/round-robin.ts and assignment/capacity.ts.         *)
(*                                                                             *)
(* Operators are positive numbers: all that the code uses of an operator id is *)
(* its place in the sorted order.  0 is "nobody".  A candidate list is a set   *)
(* of records [operator, capacity, load].                                      *)
EXTENDS Integers, FiniteSets

NoOne == 0

(* Under its capacity, and allowed any work at all.                            *)
IsAvailable(cand) == cand.capacity > 0 /\ cand.load < cand.capacity

(* The rotation's order: whoever sorts after the operator served last comes    *)
(* before whoever does not, and otherwise the smaller id comes first.          *)
(* `last` need not be a candidate any more.                                    *)
ComesBefore(a, b, last) ==
    IF (a > last) = (b > last) THEN a < b ELSE a > last

(* A variant with a bug: the rotation does not wrap around.                    *)
NextWithoutWrap(cands, last) ==
    LET available == {cand \in cands : IsAvailable(cand) /\ cand.operator > last}
    IN  {cand \in available : \A x \in available \ {cand} : cand.operator < x.operator}

(* The candidate whose turn it is, as a set: empty when nobody has room.       *)
NextInTurn(cands, last) ==
    LET available == {cand \in cands : IsAvailable(cand)}
    IN  {cand \in available : \A x \in available \ {cand} :
            ComesBefore(cand.operator, x.operator, last)}

(* `held` fills a person of this capacity: one exclusive conversation (voice)  *)
(* owns them entirely, and every other conversation costs one unit.            *)
IsFull(held, exclusive, capacity) ==
    \/ held \cap exclusive # {}
    \/ Cardinality(held) >= capacity

(* The load the pool reports: an exclusive conversation reads as a full budget.*)
ReportedLoad(held, exclusive, capacity) ==
    IF held \cap exclusive # {} THEN capacity ELSE Cardinality(held)

(* Whether a conversation fits somebody: an exclusive one needs them to hold   *)
(* nothing, any other one needs a free unit.                                   *)
ServesChannel(isExclusive, cand) ==
    IF isExclusive THEN cand.load = 0 ELSE cand.load < cand.capacity
=============================================================================
