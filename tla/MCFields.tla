------------------------------ MODULE MCFields -------------------------------
EXTENDS Fields

CONSTANTS top, mid, low, f1, f2, yes, no, billing

Free       == [parent |-> None, value |-> None]
If(f, x)   == [parent |-> f, value |-> x]

(* A cascade of three, its middle the sub-category; a flat form that shares    *)
(* two fields with it; the cascade the other way up; and conditions that come  *)
(* round.                                                                      *)
MCCascade  == [f \in {top, mid, low} |-> CASE f = top -> Free [] f = mid -> If(top, yes) [] f = low -> If(mid, yes)]
MCFlat     == [f \in {top, low} |-> Free]
MCTurned   == [f \in {top, mid} |-> IF f = mid THEN Free ELSE If(mid, no)]
MCRound    == [f \in {top, mid} |-> IF f = mid THEN If(top, yes) ELSE If(mid, no)]

MCCompositions == {MCCascade, MCFlat, MCTurned, MCRound}
MCFirst        == [k \in Forms |-> IF k = f1 THEN MCCascade ELSE MCFlat]
MCCategoryOf   == [k \in Forms |-> IF k = f1 THEN billing ELSE None]
=============================================================================
