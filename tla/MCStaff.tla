------------------------------ MODULE MCStaff -------------------------------
(* Small instances of Staff for TLC.                                           *)
EXTENDS Staff

CONSTANTS ann, lee, max

LetGo(p) == [op |-> "deactivate", person |-> p]

(* Ann is let go and hired again, and a lead is let go as well.                *)
MCAsks    == <<LetGo(ann), [LetGo(ann) EXCEPT !.op = "create"], LetGo(lee)>>
MCAsksOne == <<LetGo(ann)>>
=============================================================================
