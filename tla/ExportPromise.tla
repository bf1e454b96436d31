---------------------------- MODULE ExportPromise ----------------------------
(* What somebody who asks for an export is promised, whatever produces it: the *)
(* request is answered, the answer is never taken back, and a file that was    *)
(* offered is offered until its time is over.  Exports.tla implements it.      *)
CONSTANT Jobs

VARIABLE phase      \* of each request, as its owner sees it

Phases == {"unasked", "pending", "offered", "refused", "gone"}

Step(j, from, to) == phase[j] = from /\ phase' = [phase EXCEPT ![j] = to]

Ask(j)    == Step(j, "unasked", "pending")
Offer(j)  == Step(j, "pending", "offered")
Refuse(j) == Step(j, "pending", "refused")
Expire(j) == Step(j, "offered", "gone")

Init == phase = [j \in Jobs |-> "unasked"]
Next == \E j \in Jobs : Ask(j) \/ Offer(j) \/ Refuse(j) \/ Expire(j)

Spec ==
    /\ Init /\ [][Next]_phase
    /\ \A j \in Jobs : /\ WF_phase(Offer(j) \/ Refuse(j))
                       /\ WF_phase(Expire(j))
=============================================================================
