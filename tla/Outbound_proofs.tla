--------------------------- MODULE Outbound_proofs ---------------------------
(* Proofs about Outbound, for every number of replies, passes and attempts,    *)
(* every batch size, and any number of faults.                                 *)
EXTENDS Outbound, SequenceTheorems, TLAPS

----------------------------------------------------------------------------
(* The inductive invariant.                                                    *)

Row == [status : Status, attempts : 0..MaxAttempts, waiting : BOOLEAN, old : BOOLEAN]
Job == [due : SUBSET Replies, left : 0..Batch, reply : Replies \cup {NoRow},
        attempts : 0..(MaxAttempts - 1), id : Nat, retry : BOOLEAN]

Typed ==
    /\ row \in [Replies -> Row]
    /\ external \in [Replies -> Nat] /\ minted \in [Replies -> Nat]
    /\ copies \in [Replies -> Seq(Nat)]
    /\ pc \in [Passes -> Label] /\ job \in [Passes -> Job]
    /\ stolen \subseteq Replies /\ died \subseteq Replies /\ unheard \subseteq Replies
    /\ faults \in Nat

(* What a pass holds: a row from its claim on, an identity that was minted     *)
(* from its stamp on, a retry only within the budget, and a delete only of     *)
(* what was accepted.                                                          *)
Holds(p) ==
    /\ pc[p] \notin {"idle", "find"} => job[p].reply \in Replies
    /\ pc[p] \in {"send", "delete"} => job[p].id \in 1..minted[job[p].reply]
    /\ pc[p] = "fail" /\ job[p].retry => job[p].attempts + 1 < MaxAttempts
    /\ pc[p] = "delete" => copies[job[p].reply] # <<>>

(* What a row is: within its budget while it can be sent, with identities that *)
(* were minted, and gone only after it was accepted.                           *)
Kept(r) ==
    /\ row[r].status \in {"unwritten", "pending", "sending"} => row[r].attempts < MaxAttempts
    /\ external[r] =< minted[r]
    /\ \A i \in 1..Len(copies[r]) : copies[r][i] \in 1..minted[r]
    /\ row[r].status = "gone" => copies[r] # <<>>

(* A row that was not taken from a pass at work has one pass at most.          *)
Alone(r) ==
    \A p \in Passes : WorksOn(p, r) =>
        row[r].status = "sending" /\ \A q \in Passes \ {p} : ~WorksOn(q, r)

(* Its copies, and the pass that is about to send one, have its one identity.  *)
OneId(r) ==
    /\ \A i \in 1..Len(copies[r]) : copies[r][i] = external[r]
    /\ \A p \in Passes : job[p].reply = r =>
          /\ pc[p] = "stamp" => external[r] = 0
          /\ pc[p] \in {"send", "delete"} => job[p].id = external[r]

(* One that met with no fault either was accepted once, and then it is gone or *)
(* a pass is about to delete it.                                               *)
Once(r) ==
    /\ Len(copies[r]) =< 1
    /\ copies[r] # <<>> =>
          row[r].status = "gone" \/ \E p \in Passes : pc[p] = "delete" /\ job[p].reply = r

Inv ==
    /\ Typed
    /\ \A p \in Passes : Holds(p)
    /\ \A r \in Replies :
          /\ Kept(r)
          /\ r \notin stolen => Alone(r) /\ OneId(r)
          /\ r \notin stolen \cup died \cup unheard => Once(r)
----------------------------------------------------------------------------
(* Lemmas about the steps.                                                     *)

Others(p) == \A q \in Passes \ {p} : pc'[q] = pc[q] /\ job'[q] = job[q]

LEMMA GotoMoves ==
  ASSUME Typed, NEW p \in Passes, NEW l \in Label, NEW j \in Job, Goto(p, l, j)
  PROVE  /\ pc' \in [Passes -> Label] /\ job' \in [Passes -> Job]
         /\ pc'[p] = l /\ job'[p] = j /\ Others(p)
  BY DEF Typed, Goto, Others

LEMMA NoJobTyped == NoJob \in Job
  BY OutboundAssumption DEF NoJob, Job, NoRow

(* The job of a pass that goes on to its next row.                             *)
LEMMA NextTyped ==
  ASSUME NEW due \in SUBSET Replies, NEW left \in 0..Batch
  PROVE  /\ [NoJob EXCEPT !.due = due, !.left = left] \in Job
         /\ [NoJob EXCEPT !.due = due, !.left = left].reply = NoRow
<1>1. NoJob \in Job /\ NoJob.reply = NoRow
  BY NoJobTyped DEF NoJob
<1>2. QED
  BY <1>1 DEF Job

(* What a step of p does not disturb: what another pass holds...               *)
LEMMA HoldsOthers ==
  ASSUME Typed, NEW p \in Passes, NEW q \in Passes \ {p}, Others(p), Holds(q),
         minted' \in [Replies -> Nat], \A r \in Replies : minted[r] =< minted'[r],
         \A r \in Replies : copies[r] # <<>> => copies'[r] # <<>>
  PROVE  Holds(q)'
  BY DEF Typed, Job, Others, Holds

LEMMA HoldsStays ==
  ASSUME Inv, NEW p \in Passes, NEW q \in Passes \ {p}, Others(p), UNCHANGED <<minted, copies>>
  PROVE  Holds(q)'
<1>1. /\ minted' \in [Replies -> Nat]
      /\ \A r \in Replies : minted[r] =< minted'[r] /\ copies'[r] = copies[r]
  BY DEF Inv, Typed
<1>2. QED
  BY <1>1, HoldsOthers DEF Inv

(* ...that a row has one pass, if p takes up no other...                       *)
LEMMA AloneStays ==
  ASSUME NEW p \in Passes, NEW r \in Replies, Others(p), Alone(r),
         row'[r].status = row[r].status, WorksOn(p, r)' => WorksOn(p, r)
  PROVE  Alone(r)'
  BY DEF Others, Alone, WorksOn

(* ...or is done with the one it had...                                        *)
LEMMA AloneLeft ==
  ASSUME NEW p \in Passes, NEW r \in Replies, Others(p), Alone(r),
         WorksOn(p, r), ~WorksOn(p, r)'
  PROVE  Alone(r)'
  BY DEF Others, Alone, WorksOn

(* ...the identity of a row...                                                 *)
LEMMA OneIdStays ==
  ASSUME NEW p \in Passes, NEW r \in Replies, Others(p), OneId(r),
         copies'[r] = copies[r], external'[r] = external[r],
         job'[p].reply = r =>
            /\ pc'[p] = "stamp" => external[r] = 0
            /\ pc'[p] \in {"send", "delete"} => job'[p].id = external[r]
  PROVE  OneId(r)'
  BY DEF Others, OneId

(* ...and that it was accepted once.                                           *)
LEMMA OnceStays ==
  ASSUME NEW p \in Passes, NEW r \in Replies, Others(p), Once(r), copies'[r] = copies[r],
         row[r].status = "gone" => row'[r].status = "gone",
         pc[p] = "delete" /\ job[p].reply = r => row'[r].status = "gone"
  PROVE  Once(r)'
<1>1. ASSUME NEW q \in Passes, pc[q] = "delete", job[q].reply = r
      PROVE  row'[r].status = "gone" \/ (pc'[q] = "delete" /\ job'[q].reply = r)
  BY <1>1 DEF Others
<1>2. QED
  BY <1>1 DEF Once

(* A step of p that changes nothing but where p stands and what it holds: it   *)
(* goes on with its row, or leaves it.                                         *)
LEMMA WalkKeeps ==
  ASSUME Inv, NEW p \in Passes, NEW l \in Label, NEW j \in Job, Goto(p, l, j),
         UNCHANGED <<row, external, minted, copies, stolen>>,
         died \subseteq died', died' \subseteq Replies,
         unheard \subseteq unheard', unheard' \subseteq Replies, faults' \in Nat,
         Holds(p)',
         \A r \in Replies : WorksOn(p, r)' => WorksOn(p, r),
         \A r \in Replies \ stolen : j.reply = r =>
            /\ l = "stamp" => external[r] = 0
            /\ l \in {"send", "delete"} => j.id = external[r],
         pc[p] = "delete" => job[p].reply \in died'
  PROVE  Inv'
<1>1. /\ pc' \in [Passes -> Label] /\ job' \in [Passes -> Job]
      /\ pc'[p] = l /\ job'[p] = j /\ Others(p)
  BY GotoMoves DEF Inv
<1>2. Typed'
  BY <1>1 DEF Inv, Typed
<1>3. ASSUME NEW q \in Passes PROVE Holds(q)'
  <2>1. CASE q # p
    BY <1>1, <2>1, HoldsStays
  <2>2. QED
    BY <2>1
<1>4. ASSUME NEW r \in Replies PROVE Kept(r)'
  BY DEF Inv, Kept
<1>5. ASSUME NEW r \in Replies, r \notin stolen' PROVE Alone(r)' /\ OneId(r)'
  BY <1>1, <1>5, AloneStays, OneIdStays DEF Inv
<1>6. ASSUME NEW r \in Replies, r \notin stolen' \cup died' \cup unheard' PROVE Once(r)'
  BY <1>1, <1>6, OnceStays DEF Inv
<1>7. QED
  BY <1>2, <1>3, <1>4, <1>5, <1>6 DEF Inv

(* A row that changes, and no pass: it stays as it was, or it is written.      *)
LEMMA RowKeeps ==
  ASSUME Inv, NEW r \in Replies, NEW new \in Row, row' = [row EXCEPT ![r] = new],
         new.attempts = row[r].attempts,
         \/ new.status = row[r].status
         \/ row[r].status = "unwritten" /\ new.status = "pending",
         UNCHANGED <<external, minted, copies, pc, job, stolen, died, unheard, faults>>
  PROVE  Inv'
<1>1. row' \in [Replies -> Row] /\ row'[r] = new /\ \A s \in Replies \ {r} : row'[s] = row[s]
  BY DEF Inv, Typed
<1>2. Typed'
  BY <1>1 DEF Inv, Typed
<1>3. \A q \in Passes : Holds(q)'
  BY DEF Inv, Holds
<1>4. ASSUME NEW s \in Replies PROVE Kept(s)'
  BY <1>1 DEF Inv, Kept
<1>5. ASSUME NEW s \in Replies, s \notin stolen PROVE Alone(s)' /\ OneId(s)'
  BY <1>1, <1>5 DEF Inv, Alone, OneId, WorksOn
<1>6. ASSUME NEW s \in Replies, s \notin stolen \cup died \cup unheard PROVE Once(s)'
  BY <1>1, <1>6 DEF Inv, Once
<1>7. QED
  BY <1>2, <1>3, <1>4, <1>5, <1>6 DEF Inv

----------------------------------------------------------------------------
(* The invariant holds in the beginning, and every step keeps it.              *)

LEMMA InitInv == Init => Inv
<1> SUFFICES ASSUME Init PROVE Inv
  OBVIOUS
<1>1. Typed
  <2>1. row \in [Replies -> Row]
    BY OutboundAssumption DEF Init, Row, Status
  <2>2. pc \in [Passes -> Label] /\ job \in [Passes -> Job]
    BY NoJobTyped DEF Init, Label
  <2>3. copies \in [Replies -> Seq(Nat)]
    BY DEF Init
  <2>4. QED
    BY <2>1, <2>2, <2>3 DEF Init, Typed
<1>2. \A p \in Passes : pc[p] = "idle"
  BY DEF Init
<1>3. \A r \in Replies : /\ row[r].status = "unwritten" /\ row[r].attempts = 0
                         /\ external[r] = 0 /\ minted[r] = 0 /\ copies[r] = << >>
  BY DEF Init
<1>4. ASSUME NEW r \in Replies PROVE Kept(r) /\ Once(r)
  <2>1. Len(copies[r]) = 0 /\ 1..0 = {} /\ 0 < MaxAttempts
    BY <1>3, OutboundAssumption
  <2>2. QED
    BY <1>3, <2>1 DEF Kept, Once
<1>5. \A r \in Replies : Alone(r) /\ OneId(r)
  BY <1>2, <1>3 DEF Alone, OneId, WorksOn
<1>6. QED
  BY <1>1, <1>2, <1>4, <1>5 DEF Inv, Holds

LEMMA PostKeeps ==
  ASSUME Inv, NEW r \in Replies, Post(r) PROVE Inv'
<1> DEFINE new == [row[r] EXCEPT !.status = "pending"]
<1>1. row[r] \in Row
  BY DEF Inv, Typed
<1>2. new \in Row /\ new.attempts = row[r].attempts /\ new.status = "pending"
  BY <1>1 DEF Row, Status
<1>3. row' = [row EXCEPT ![r] = new] /\ row[r].status = "unwritten"
  BY DEF Post
<1> HIDE DEF new
<1>4. QED
  BY <1>2, <1>3, RowKeeps DEF Post

LEMMA TimeKeeps ==
  ASSUME Inv, NEW r \in Replies, Time(r) PROVE Inv'
<1>1. row[r] \in Row
  BY DEF Inv, Typed
<1>2. CASE Age(r)
  <2> DEFINE new == [row[r] EXCEPT !.old = TRUE]
  <2>1. new \in Row /\ new.attempts = row[r].attempts /\ new.status = row[r].status
    BY <1>1 DEF Row
  <2>2. row' = [row EXCEPT ![r] = new]
    BY <1>2 DEF Age
  <2> HIDE DEF new
  <2>3. QED
    BY <1>2, <2>1, <2>2, RowKeeps DEF Age
<1>3. CASE BecomesDue(r)
  <2> DEFINE new == [row[r] EXCEPT !.waiting = FALSE]
  <2>1. new \in Row /\ new.attempts = row[r].attempts /\ new.status = row[r].status
    BY <1>1 DEF Row
  <2>2. row' = [row EXCEPT ![r] = new]
    BY <1>3 DEF BecomesDue
  <2> HIDE DEF new
  <2>3. QED
    BY <1>3, <2>1, <2>2, RowKeeps DEF BecomesDue
<1>4. QED
  BY <1>2, <1>3 DEF Time

(* A pass that leaves its row: to the next one, or for good.                   *)
LEMMA LeaveKeeps ==
  ASSUME Inv, NEW p \in Passes, NEW l \in {"idle", "find"}, NEW j \in Job, Goto(p, l, j),
         UNCHANGED <<row, external, minted, copies, stolen, unheard>>,
         died \subseteq died', died' \subseteq Replies, faults' \in Nat,
         pc[p] = "delete" => job[p].reply \in died'
  PROVE  Inv'
<1>1. l \in Label
  BY DEF Label
<1>2. pc'[p] = l /\ job'[p] = j
  BY <1>1, GotoMoves DEF Inv
<1>3. Holds(p)' /\ \A r \in Replies : ~WorksOn(p, r)'
  BY <1>2 DEF Holds, WorksOn
<1>4. QED
  BY <1>1, <1>3, WalkKeeps DEF Inv, Typed

LEMMA FindKeeps ==
  ASSUME Inv, NEW p \in Passes, Find(p) PROVE Inv'
<1>1. pc[p] = "find" /\ job[p] \in Job
  BY DEF Find, Inv, Typed
<1>2. UNCHANGED <<row, external, minted, copies, stolen, died, unheard, faults>>
  BY DEF Find
<1>3. CASE Goto(p, "idle", NoJob)
  BY <1>1, <1>2, <1>3, NoJobTyped, LeaveKeeps DEF Inv, Typed
<1>4. ASSUME job[p].left > 0, NEW r \in Due(p),
             Goto(p, "claim", [job[p] EXCEPT !.reply = r, !.left = @ - 1])
      PROVE  Inv'
  <2> DEFINE j == [job[p] EXCEPT !.reply = r, !.left = @ - 1]
  <2>1. r \in Replies
    BY <1>1 DEF Due, Job
  <2> DEFINE left == job[p].left - 1
  <2>2. j \in Job /\ j.reply = r
    <3>1. left \in 0..Batch
      BY <1>1, <1>4, OutboundAssumption DEF Job
    <3>2. j = [job[p] EXCEPT !.reply = r, !.left = left]
      OBVIOUS
    <3> HIDE DEF left, j
    <3>3. QED
      BY <1>1, <2>1, <3>1, <3>2 DEF Job
  <2> HIDE DEF j
  <2>3. Goto(p, "claim", j)
    BY <1>4 DEF j
  <2>4. pc'[p] = "claim" /\ job'[p] = j
    BY <2>2, <2>3, GotoMoves DEF Inv, Label
  <2>5. Holds(p)' /\ \A s \in Replies : ~WorksOn(p, s)'
    BY <2>1, <2>2, <2>4 DEF Holds, WorksOn
  <2>6. "claim" \in Label
    BY DEF Label
  <2>7. QED
    BY <1>1, <1>2, <2>2, <2>3, <2>5, <2>6, WalkKeeps DEF Inv, Typed
<1>5. QED
  BY <1>3, <1>4 DEF Find

LEMMA CrashKeeps ==
  ASSUME Inv, NEW p \in Passes, Crash(p) PROVE Inv'
<1>1. UNCHANGED <<row, external, minted, copies, stolen, unheard>> /\ Goto(p, "idle", NoJob)
  BY DEF Crash
<1>2. pc[p] = "delete" => job[p].reply \in Replies
  BY DEF Inv, Holds
<1>3. /\ died \subseteq died' /\ died' \subseteq Replies /\ faults' \in Nat
      /\ pc[p] = "delete" => job[p].reply \in died'
  BY <1>2 DEF Crash, Inv, Typed
<1>4. QED
  BY <1>1, <1>3, NoJobTyped, LeaveKeeps

(* A stale row with a pass on it is stolen; any other one has no pass at all.  *)
LEMMA ReclaimKeeps ==
  ASSUME Inv, NEW p \in Passes, ReclaimStale(p) PROVE Inv'
<1> DEFINE stale == {r \in Replies : row[r].status = "sending" /\ row[r].old}
           due   == {r \in Replies : Exists(r) /\ ~row[r].waiting}
           j     == [NoJob EXCEPT !.due = due, !.left = Batch]
<1>1. UNCHANGED <<external, minted, copies, died, unheard, faults>> /\ pc[p] = "idle"
  BY DEF ReclaimStale
<1>2. /\ row' \in [Replies -> Row]
      /\ \A r \in stale : row'[r].status = "pending" /\ row'[r].attempts = row[r].attempts
      /\ \A r \in Replies \ stale : row'[r] = row[r]
  BY DEF ReclaimStale, Inv, Typed, Row, Status
<1>3. stolen' = stolen \cup {r \in stale : \E q \in Passes : WorksOn(q, r)}
  BY DEF ReclaimStale
<1>4. Goto(p, "find", j) /\ j \in Job
  <2>1. Goto(p, "find", j)
    BY DEF ReclaimStale
  <2>2. due \in SUBSET Replies /\ Batch \in 0..Batch
    BY OutboundAssumption
  <2> HIDE DEF due
  <2>3. QED
    BY <2>1, <2>2, NextTyped
<1> HIDE DEF j
<1>5. /\ pc' \in [Passes -> Label] /\ job' \in [Passes -> Job]
      /\ pc'[p] = "find" /\ Others(p)
  BY <1>4, GotoMoves DEF Inv, Label
<1>6. Typed'
  BY <1>1, <1>2, <1>3, <1>5 DEF Inv, Typed
<1>7. ASSUME NEW q \in Passes PROVE Holds(q)'
  <2>1. CASE q = p
    BY <1>5, <2>1 DEF Holds
  <2>2. CASE q # p
    BY <1>1, <1>5, <2>2, HoldsStays
  <2>3. QED
    BY <2>1, <2>2
<1>8. ASSUME NEW r \in Replies PROVE Kept(r)'
  BY <1>1, <1>2 DEF Inv, Kept
<1>9. ASSUME NEW r \in Replies, r \notin stolen' PROVE Alone(r)' /\ OneId(r)'
  <2>1. r \notin stolen /\ (r \in stale => \A q \in Passes : ~WorksOn(q, r))
    BY <1>3, <1>9
  <2>2. \A q \in Passes : WorksOn(q, r)' => WorksOn(q, r)
    BY <1>5 DEF WorksOn, Others
  <2>3. Alone(r)'
    BY <1>2, <2>1, <2>2 DEF Inv, Alone
  <2>4. OneId(r)'
    BY <1>1, <1>5, <2>1, OneIdStays DEF Inv
  <2>5. QED
    BY <2>3, <2>4
<1>10. ASSUME NEW r \in Replies, r \notin stolen' \cup died' \cup unheard' PROVE Once(r)'
  <2>1. row[r].status = "gone" => row'[r].status = "gone"
    BY <1>2
  <2>2. r \notin stolen \cup died \cup unheard
    BY <1>1, <1>3, <1>10
  <2>3. QED
    BY <1>1, <1>5, <2>1, <2>2, OnceStays DEF Inv
<1>11. QED
  BY <1>6, <1>7, <1>8, <1>9, <1>10 DEF Inv

(* A row that is pending has no pass on it, unless it was stolen.              *)
LEMMA ClaimKeeps ==
  ASSUME Inv, NEW p \in Passes, ClaimNext(p) PROVE Inv'
<1> DEFINE r == job[p].reply
<1>1. UNCHANGED <<external, minted, copies, stolen, died, unheard, faults>> /\ pc[p] = "claim"
  BY DEF ClaimNext
<1>2. r \in Replies /\ job[p] \in Job /\ row[r] \in Row
  BY <1>1 DEF Inv, Typed, Holds
<1>3. CASE row[r].status # "pending"
  BY <1>1, <1>3, NoJobTyped, LeaveKeeps DEF ClaimNext, Inv, Typed
<1>4. CASE row[r].status = "pending"
  <2> DEFINE new == [row[r] EXCEPT !.status = "sending", !.old = FALSE]
             j   == [job[p] EXCEPT !.attempts = row[r].attempts]
  <2>1. row[r].attempts < MaxAttempts /\ row[r].attempts \in 0..(MaxAttempts - 1)
    <3>1. row[r].attempts < MaxAttempts
      BY <1>2, <1>4 DEF Inv, Kept
    <3>2. row[r].attempts \in 0..MaxAttempts
      BY <1>2 DEF Row
    <3>3. QED
      BY <3>1, <3>2, OutboundAssumption
  <2>2. new \in Row /\ new.status = "sending" /\ new.attempts = row[r].attempts
    BY <1>2 DEF Row, Status
  <2>3. j \in Job /\ j.reply = r
    BY <1>2, <2>1 DEF Job
  <2>4. Goto(p, "load", j) /\ row' = [row EXCEPT ![r] = new]
    BY <1>4 DEF ClaimNext
  <2> HIDE DEF new, j
  <2>5. /\ pc' \in [Passes -> Label] /\ job' \in [Passes -> Job]
        /\ pc'[p] = "load" /\ job'[p] = j /\ Others(p)
    BY <2>3, <2>4, GotoMoves DEF Inv, Label
  <2>6. row' \in [Replies -> Row] /\ row'[r] = new /\ \A s \in Replies \ {r} : row'[s] = row[s]
    BY <1>2, <2>2, <2>4 DEF Inv, Typed
  <2>7. Typed'
    BY <1>1, <2>5, <2>6 DEF Inv, Typed
  <2>8. ASSUME NEW q \in Passes PROVE Holds(q)'
    <3>1. CASE q = p
      BY <1>2, <2>3, <2>5, <3>1 DEF Holds
    <3>2. CASE q # p
      BY <1>1, <2>5, <3>2, HoldsStays
    <3>3. QED
      BY <3>1, <3>2
  <2>9. ASSUME NEW s \in Replies PROVE Kept(s)'
    BY <1>1, <2>1, <2>2, <2>6 DEF Inv, Kept
  <2>10. ASSUME NEW s \in Replies, s \notin stolen' PROVE Alone(s)' /\ OneId(s)'
    <3>1. Alone(s) /\ OneId(s)
      BY <1>1, <2>10 DEF Inv
    <3>2. OneId(s)'
      BY <1>1, <2>5, <3>1, OneIdStays
    <3>3. Alone(s)'
      <4>1. CASE s = r
        <5>1. \A q \in Passes : ~WorksOn(q, r)
          BY <1>4, <3>1, <4>1 DEF Alone
        <5>2. QED
          BY <2>2, <2>5, <2>6, <4>1, <5>1 DEF Alone, WorksOn, Others
      <4>2. CASE s # r
        BY <2>3, <2>5, <2>6, <3>1, <4>2, AloneStays DEF WorksOn
      <4>3. QED
        BY <4>1, <4>2
    <3>4. QED
      BY <3>2, <3>3
  <2>11. ASSUME NEW s \in Replies, s \notin stolen' \cup died' \cup unheard' PROVE Once(s)'
    BY <1>1, <1>4, <2>5, <2>6, <2>11, OnceStays DEF Inv
  <2>12. QED
    BY <2>7, <2>8, <2>9, <2>10, <2>11 DEF Inv
<1>5. QED
  BY <1>3, <1>4

LEMMA LoadKeeps ==
  ASSUME Inv, NEW p \in Passes, Load(p) PROVE Inv'
<1> DEFINE r == job[p].reply
<1>1. UNCHANGED <<row, external, minted, copies, stolen, died, unheard, faults>> /\ pc[p] = "load"
  BY DEF Load
<1>2. r \in Replies /\ job[p] \in Job /\ external[r] \in Nat /\ external[r] =< minted[r]
  BY <1>1 DEF Inv, Typed, Holds, Kept
<1>3. CASE NextRow(p)
  <2>1. job[p].due \in SUBSET Replies /\ job[p].left \in 0..Batch
    BY <1>2 DEF Job
  <2>2. QED
    BY <1>1, <1>3, <2>1, NextTyped, LeaveKeeps DEF NextRow, Inv, Typed
<1>4. ASSUME NEW l \in {"stamp", "send", "fail"}, NEW j \in Job, Goto(p, l, j), j.reply = r,
             l = "fail" => ~j.retry,
             l = "stamp" => external[r] = 0,
             l = "send" => j.id = external[r] /\ external[r] # 0
      PROVE  Inv'
  <2>1. l \in Label /\ l # "delete"
    BY <1>4 DEF Label
  <2>2. pc'[p] = l /\ job'[p] = j
    BY <1>4, <2>1, GotoMoves DEF Inv
  <2>3. Holds(p)'
    <3>1. l = "send" => external[r] \in 1..minted[r]
      BY <1>2, <1>4 DEF Inv, Typed
    <3>2. QED
      BY <1>1, <1>2, <1>4, <2>1, <2>2, <3>1 DEF Holds
  <2>4. \A s \in Replies : WorksOn(p, s)' => WorksOn(p, s)
    BY <1>1, <1>4, <2>2 DEF WorksOn
  <2>5. QED
    BY <1>1, <1>4, <2>1, <2>3, <2>4, WalkKeeps DEF Inv, Typed
<1>5. CASE Goto(p, "fail", [job[p] EXCEPT !.retry = FALSE])
  <2>1. [job[p] EXCEPT !.retry = FALSE] \in Job
    BY <1>2 DEF Job
  <2>2. [job[p] EXCEPT !.retry = FALSE].reply = r /\ ~[job[p] EXCEPT !.retry = FALSE].retry
    BY <1>2 DEF Job
  <2> DEFINE j == [job[p] EXCEPT !.retry = FALSE]
  <2> HIDE DEF j
  <2>3. Goto(p, "fail", j) /\ j \in Job /\ j.reply = r /\ ~j.retry
    BY <1>5, <2>1, <2>2 DEF j
  <2>4. QED
    BY <1>4, <2>3
<1>6. CASE Goto(p, IF external[r] = 0 THEN "stamp" ELSE "send", [job[p] EXCEPT !.id = external[r]])
  <2> DEFINE j == [job[p] EXCEPT !.id = external[r]]
             l == IF external[r] = 0 THEN "stamp" ELSE "send"
  <2>1. j \in Job /\ j.reply = r /\ j.id = external[r]
    BY <1>2 DEF Job
  <2>2. l \in {"stamp", "send"} /\ (l = "stamp" <=> external[r] = 0) /\ Goto(p, l, j)
    BY <1>6
  <2> HIDE DEF j, l
  <2>3. QED
    BY <1>4, <2>1, <2>2
<1>7. QED
  BY <1>3, <1>5, <1>6 DEF Load

(* Before its stamp a row that was not stolen has no identity, so no copy.     *)
LEMMA StampKeeps ==
  ASSUME Inv, NEW p \in Passes, StampId(p) PROVE Inv'
<1> DEFINE r     == job[p].reply
           fresh == minted[r] + 1
           j     == [job[p] EXCEPT !.id = fresh]
<1>1. UNCHANGED <<row, copies, stolen, died, unheard, faults>> /\ pc[p] = "stamp"
  BY DEF StampId
<1>2. r \in Replies /\ job[p] \in Job /\ fresh \in Nat /\ minted[r] \in Nat
  BY <1>1 DEF Inv, Typed, Holds
<1>3. j \in Job /\ j.reply = r /\ j.id = fresh
  BY <1>2 DEF Job
<1>4. minted' = [minted EXCEPT ![r] = fresh] /\ external' = [external EXCEPT ![r] = fresh]
  BY DEF StampId
<1>5. Goto(p, "send", j)
  BY DEF StampId
<1>6. fresh > minted[r] /\ fresh \in 1..fresh
  BY <1>2
<1> HIDE DEF j, fresh
<1>7. /\ pc' \in [Passes -> Label] /\ job' \in [Passes -> Job]
      /\ pc'[p] = "send" /\ job'[p] = j /\ Others(p)
  BY <1>3, <1>5, GotoMoves DEF Inv, Label
<1>8. /\ minted' \in [Replies -> Nat] /\ external' \in [Replies -> Nat]
      /\ minted'[r] = fresh /\ external'[r] = fresh
      /\ \A s \in Replies \ {r} : minted'[s] = minted[s] /\ external'[s] = external[s]
  BY <1>2, <1>4 DEF Inv, Typed
<1>9. Typed'
  BY <1>1, <1>7, <1>8 DEF Inv, Typed
<1>10. ASSUME NEW q \in Passes PROVE Holds(q)'
  <2>1. CASE q = p
    BY <1>2, <1>3, <1>6, <1>7, <1>8, <2>1 DEF Holds
  <2>2. CASE q # p
    <3>1. ASSUME NEW s \in Replies PROVE minted[s] =< minted'[s]
      <4>1. minted[s] \in Nat
        BY DEF Inv, Typed
      <4>2. QED
        BY <1>2, <1>6, <1>8, <4>1
    <3>2. QED
      BY <1>1, <1>7, <1>8, <2>2, <3>1, HoldsOthers DEF Inv
  <2>3. QED
    BY <2>1, <2>2
<1>11. ASSUME NEW s \in Replies PROVE Kept(s)'
  <2>1. CASE s # r
    BY <1>1, <1>8, <2>1 DEF Inv, Kept
  <2>2. CASE s = r
    <3>1. \A i \in 1..Len(copies[r]) : copies[r][i] \in 1..fresh
      BY <1>2, <1>6 DEF Inv, Kept
    <3>2. QED
      BY <1>1, <1>2, <1>8, <2>2, <3>1 DEF Inv, Kept
  <2>3. QED
    BY <2>1, <2>2
<1>12. ASSUME NEW s \in Replies, s \notin stolen' PROVE Alone(s)' /\ OneId(s)'
  <2>1. Alone(s) /\ OneId(s) /\ Kept(s) /\ copies[s] \in Seq(Nat)
    BY <1>1, <1>12 DEF Inv, Typed
  <2>2. Alone(s)'
    BY <1>1, <1>3, <1>7, <2>1, AloneStays DEF WorksOn
  <2>3. CASE s # r
    BY <1>1, <1>3, <1>7, <1>8, <2>1, <2>2, <2>3, OneIdStays
  <2>4. CASE s = r
    <3>1. external[r] = 0
      BY <1>1, <2>1, <2>4 DEF OneId
    <3>2. \A i \in 1..Len(copies[r]) : FALSE
      BY <1>2, <2>1, <2>4, <3>1 DEF OneId, Kept
    <3>3. \A q \in Passes \ {p} : ~WorksOn(q, r)
      BY <1>1, <2>1, <2>4 DEF Alone, WorksOn
    <3>4. ASSUME NEW q \in Passes, job'[q].reply = r
          PROVE  /\ pc'[q] # "stamp"
                 /\ pc'[q] \in {"send", "delete"} => job'[q].id = fresh
      BY <1>3, <1>7, <3>3, <3>4 DEF Others, WorksOn
    <3>5. QED
      BY <1>1, <1>8, <2>2, <2>4, <3>2, <3>4 DEF OneId
  <2>5. QED
    BY <2>2, <2>3, <2>4
<1>13. ASSUME NEW s \in Replies, s \notin stolen' \cup died' \cup unheard' PROVE Once(s)'
  BY <1>1, <1>7, <1>13, OnceStays DEF Inv
<1>14. QED
  BY <1>9, <1>10, <1>11, <1>12, <1>13 DEF Inv

(* What the transport accepts is the identity that was stamped, for the first  *)
(* time, unless the row met with a fault.                                      *)
LEMMA SendKeeps ==
  ASSUME Inv, NEW p \in Passes, Send(p) PROVE Inv'
<1> DEFINE r     == job[p].reply
           again == job[p].attempts + 1 < MaxAttempts
           id    == job[p].id
<1>1. UNCHANGED <<row, external, minted, stolen, died>> /\ pc[p] = "send"
  BY DEF Send
<1>2. /\ r \in Replies /\ job[p] \in Job /\ id \in 1..minted[r] /\ minted[r] \in Nat
      /\ copies[r] \in Seq(Nat)
  BY <1>1 DEF Inv, Typed, Holds
<1>3. ASSUME NEW retry \in {FALSE, again}
      PROVE  /\ [job[p] EXCEPT !.retry = retry] \in Job
             /\ [job[p] EXCEPT !.retry = retry].reply = r
             /\ [job[p] EXCEPT !.retry = retry].retry => [job[p] EXCEPT !.retry = retry].attempts + 1 < MaxAttempts
  <2>1. retry \in BOOLEAN /\ (retry => again)
    <3>1. again \in BOOLEAN
      OBVIOUS
    <3> HIDE DEF again
    <3>2. CASE retry = FALSE
      BY <3>2
    <3>3. CASE retry = again
      BY <3>1, <3>3
    <3>4. QED
      BY <3>2, <3>3
  <2>2. /\ [job[p] EXCEPT !.retry = retry] \in Job
        /\ [job[p] EXCEPT !.retry = retry].reply = r
        /\ [job[p] EXCEPT !.retry = retry].attempts = job[p].attempts
        /\ [job[p] EXCEPT !.retry = retry].retry = retry
    BY <1>2, <2>1 DEF Job
  <2>3. QED
    BY <2>1, <2>2
<1>4. PICK l \in {"delete", "fail"}, j \in Job :
         /\ Goto(p, l, j) /\ j.reply = r
         /\ l = "delete" => j = job[p] /\ UNCHANGED unheard
         /\ l = "fail" /\ j.retry => j.attempts + 1 < MaxAttempts
         /\ \/ copies' = [copies EXCEPT ![r] = Append(@, id)] /\ (l = "fail" => r \in unheard')
            \/ UNCHANGED copies /\ l = "fail"
         /\ unheard \subseteq unheard' /\ unheard' \subseteq Replies /\ faults' \in Nat
  <2> DEFINE accepted == copies' = [copies EXCEPT ![r] = Append(@, id)]
             j(retry) == [job[p] EXCEPT !.retry = retry]
  <2>1. \A retry \in {FALSE, again} :
           j(retry) \in Job /\ j(retry).reply = r /\ (j(retry).retry => j(retry).attempts + 1 < MaxAttempts)
    BY <1>3
  <2>2. CASE accepted /\ Goto(p, "delete", job[p]) /\ UNCHANGED <<unheard, faults>>
    BY <1>2, <2>2 DEF Inv, Typed
  <2> HIDE DEF j
  <2>3. CASE /\ accepted /\ faults' = faults + 1 /\ unheard' = unheard \cup {r}
             /\ Goto(p, "fail", j(again))
    BY <1>2, <2>1, <2>3 DEF Inv, Typed
  <2>4. CASE /\ \E retry \in {FALSE, again} : Goto(p, "fail", j(retry))
             /\ UNCHANGED <<copies, unheard, faults>>
    BY <1>2, <2>1, <2>4 DEF Inv, Typed
  <2>5. QED
    BY <2>2, <2>3, <2>4 DEF Send, j
<1>5. /\ pc' \in [Passes -> Label] /\ job' \in [Passes -> Job]
      /\ pc'[p] = l /\ job'[p] = j /\ Others(p)
  BY <1>4, GotoMoves DEF Inv, Label
<1>6. \/ copies'[r] = Append(copies[r], id) /\ (l = "fail" => r \in unheard')
      \/ copies'[r] = copies[r] /\ l = "fail"
  BY <1>2, <1>4 DEF Inv, Typed
<1>7. copies' \in [Replies -> Seq(Nat)] /\ \A s \in Replies \ {r} : copies'[s] = copies[s]
  <2>1. Append(copies[r], id) \in Seq(Nat)
    BY <1>2
  <2>2. QED
    BY <1>2, <1>4, <2>1 DEF Inv, Typed
<1>8. /\ Len(Append(copies[r], id)) = Len(copies[r]) + 1 /\ Append(copies[r], id) # << >>
      /\ \A i \in 1..(Len(copies[r]) + 1) :
            Append(copies[r], id)[i] = IF i = Len(copies[r]) + 1 THEN id ELSE copies[r][i]
  BY <1>2
<1>9. Typed'
  BY <1>1, <1>4, <1>5, <1>7 DEF Inv, Typed
<1>10. \A s \in Replies : copies[s] # << >> => copies'[s] # << >>
  BY <1>6, <1>7, <1>8
<1>11. ASSUME NEW q \in Passes PROVE Holds(q)'
  <2>1. CASE q = p
    BY <1>1, <1>2, <1>4, <1>5, <1>6, <1>8, <2>1 DEF Holds
  <2>2. CASE q # p
    <3>1. minted' \in [Replies -> Nat] /\ \A s \in Replies : minted[s] =< minted'[s]
      BY <1>1 DEF Inv, Typed
    <3>2. QED
      BY <1>5, <1>10, <2>2, <3>1, HoldsOthers DEF Inv
  <2>3. QED
    BY <2>1, <2>2
<1>12. ASSUME NEW s \in Replies PROVE Kept(s)'
  <2>1. Kept(s)
    BY DEF Inv
  <2>2. \A i \in 1..Len(copies'[s]) : copies'[s][i] \in 1..minted[s]
    <3>1. CASE s # r
      BY <1>7, <2>1, <3>1 DEF Kept
    <3>2. CASE s = r /\ copies'[r] = copies[r]
      BY <2>1, <3>2 DEF Kept
    <3>3. CASE s = r /\ copies'[r] = Append(copies[r], id)
      <4>1. ASSUME NEW i \in 1..Len(copies'[s]) PROVE copies'[s][i] \in 1..minted[s]
        <5>1. i \in 1..(Len(copies[r]) + 1) /\ Len(copies[r]) \in Nat
          BY <1>2, <1>8, <3>3
        <5>2. CASE i = Len(copies[r]) + 1
          BY <1>2, <1>8, <3>3, <5>1, <5>2
        <5>3. CASE i # Len(copies[r]) + 1
          BY <1>8, <2>1, <3>3, <5>1, <5>3 DEF Kept
        <5>4. QED
          BY <5>2, <5>3
      <4>2. QED
        BY <4>1
    <3>4. QED
      BY <1>6, <3>1, <3>2, <3>3
  <2>3. QED
    BY <1>1, <1>10, <2>1, <2>2 DEF Kept
<1>13. ASSUME NEW s \in Replies, s \notin stolen' PROVE Alone(s)' /\ OneId(s)'
  <2>1. Alone(s) /\ OneId(s)
    BY <1>1, <1>13 DEF Inv
  <2>2. Alone(s)'
    BY <1>1, <1>4, <1>5, <2>1, AloneStays DEF WorksOn
  <2>3. CASE copies'[s] = copies[s]
    <3>1. job'[p].reply = s => pc'[p] # "stamp" /\ (pc'[p] = "delete" => job'[p].id = external[s])
      BY <1>1, <1>4, <1>5, <2>1 DEF OneId
    <3>2. OneId(s)'
      BY <1>1, <1>4, <1>5, <2>1, <2>3, <3>1, OneIdStays
    <3>3. QED
      BY <2>2, <3>2
  <2>4. CASE s = r /\ copies'[r] = Append(copies[r], id)
    <3>1. id = external[r]
      BY <1>1, <2>1, <2>4 DEF OneId
    <3>2. \A i \in 1..Len(copies'[r]) : copies'[r][i] = external[r]
      <4>1. ASSUME NEW i \in 1..Len(copies'[r]) PROVE copies'[r][i] = external[r]
        <5>1. i \in 1..(Len(copies[r]) + 1) /\ Len(copies[r]) \in Nat
          BY <1>2, <1>8, <2>4
        <5>2. CASE i = Len(copies[r]) + 1
          BY <1>8, <2>4, <3>1, <5>1, <5>2
        <5>3. CASE i # Len(copies[r]) + 1
          BY <1>8, <2>1, <2>4, <5>1, <5>3 DEF OneId
        <5>4. QED
          BY <5>2, <5>3
      <4>2. QED
        BY <4>1
    <3>3. \A q \in Passes \ {p} : ~WorksOn(q, r)
      BY <1>1, <2>1, <2>4 DEF Alone, WorksOn
    <3>4. OneId(s)'
      BY <1>1, <1>4, <1>5, <2>4, <3>1, <3>2, <3>3 DEF OneId, Others, WorksOn
    <3>5. QED
      BY <2>2, <3>4
  <2>5. QED
    BY <1>6, <1>7, <2>3, <2>4
<1>14. ASSUME NEW s \in Replies, s \notin stolen' \cup died' \cup unheard' PROVE Once(s)'
  <2>1. Once(s) /\ Alone(s)
    BY <1>1, <1>4, <1>14 DEF Inv
  <2>2. CASE copies'[s] = copies[s]
    BY <1>1, <1>5, <2>1, <2>2, OnceStays
  <2>3. CASE s = r /\ copies'[r] = Append(copies[r], id)
    <3>1. row[r].status = "sending" /\ \A q \in Passes : ~(pc[q] = "delete" /\ job[q].reply = r)
      BY <1>1, <2>1, <2>3 DEF Alone, WorksOn
    <3>2. copies[r] = << >> /\ Len(copies[r]) = 0
      BY <2>1, <2>3, <3>1 DEF Once
    <3>3. Len(copies'[r]) = 1 /\ pc'[p] = "delete" /\ job'[p].reply = r
      BY <1>4, <1>5, <1>6, <1>8, <1>14, <2>3, <3>2
    <3>4. QED
      BY <2>3, <3>3 DEF Once
  <2>4. QED
    BY <1>6, <1>7, <2>2, <2>3
<1>15. QED
  BY <1>9, <1>11, <1>12, <1>13, <1>14 DEF Inv

(* A pass that writes the end of its attempt on its row, and goes on.          *)
LEMMA EndKeeps ==
  ASSUME Inv, NEW p \in Passes, pc[p] \in {"delete", "fail"},
         NEW j \in Job, Goto(p, "find", j),
         NEW r \in Replies, job[p].reply = r,
         NEW new \in Row, row' = [row EXCEPT ![r] = new],
         new.status \in {"unwritten", "pending", "sending"} => new.attempts < MaxAttempts,
         new.status = "gone" => copies[r] # << >>,
         row[r].status = "gone" \/ pc[p] = "delete" => new.status = "gone",
         UNCHANGED <<external, minted, copies, stolen, died, unheard, faults>>
  PROVE  Inv'
<1>1. /\ pc' \in [Passes -> Label] /\ job' \in [Passes -> Job]
      /\ pc'[p] = "find" /\ Others(p)
  BY GotoMoves DEF Inv, Label
<1>2. row' \in [Replies -> Row] /\ row'[r] = new /\ \A s \in Replies \ {r} : row'[s] = row[s]
  BY DEF Inv, Typed
<1>3. Typed'
  BY <1>1, <1>2 DEF Inv, Typed
<1>4. ASSUME NEW q \in Passes PROVE Holds(q)'
  <2>1. CASE q = p
    BY <1>1, <2>1 DEF Holds
  <2>2. CASE q # p
    BY <1>1, <2>2, HoldsStays
  <2>3. QED
    BY <2>1, <2>2
<1>5. ASSUME NEW s \in Replies PROVE Kept(s)'
  BY <1>2 DEF Inv, Kept
<1>6. ASSUME NEW s \in Replies, s \notin stolen' PROVE Alone(s)' /\ OneId(s)'
  <2>1. Alone(s) /\ OneId(s)
    BY <1>6 DEF Inv
  <2>2. Alone(s)'
    BY <1>1, <1>2, <2>1, AloneStays, AloneLeft DEF WorksOn
  <2>3. OneId(s)'
    BY <1>1, <2>1, OneIdStays
  <2>4. QED
    BY <2>2, <2>3
<1>7. ASSUME NEW s \in Replies, s \notin stolen' \cup died' \cup unheard' PROVE Once(s)'
  BY <1>1, <1>2, <1>7, OnceStays DEF Inv
<1>8. QED
  BY <1>3, <1>4, <1>5, <1>6, <1>7 DEF Inv

LEMMA SentKeeps ==
  ASSUME Inv, NEW p \in Passes, MarkSent(p) PROVE Inv'
<1> DEFINE r   == job[p].reply
           new == [row[r] EXCEPT !.status = "gone"]
           j   == [NoJob EXCEPT !.due = job[p].due, !.left = job[p].left]
<1>1. UNCHANGED <<external, minted, copies, stolen, died, unheard, faults>> /\ pc[p] = "delete"
  BY DEF MarkSent
<1>2. r \in Replies /\ row[r] \in Row /\ job[p] \in Job /\ copies[r] # << >>
  BY <1>1 DEF Inv, Typed, Holds
<1>3. new \in Row /\ new.status = "gone"
  BY <1>2 DEF Row, Status
<1>4. j \in Job
  BY <1>2, NextTyped DEF Job
<1>5. row' = [row EXCEPT ![r] = new] /\ Goto(p, "find", j)
  BY DEF MarkSent, NextRow
<1> HIDE DEF new, j
<1>6. QED
  BY <1>1, <1>2, <1>3, <1>4, <1>5, EndKeeps

LEMMA FailedKeeps ==
  ASSUME Inv, NEW p \in Passes, MarkAttemptFailed(p) PROVE Inv'
<1> DEFINE r    == job[p].reply
           done == [status |-> IF job[p].retry THEN "pending" ELSE "failed",
                    attempts |-> job[p].attempts + 1, waiting |-> TRUE, old |-> FALSE]
           new  == IF Exists(r) THEN done ELSE row[r]
           due  == job[p].due \ {r}
           j    == [NoJob EXCEPT !.due = due, !.left = job[p].left]
<1>1. UNCHANGED <<external, minted, copies, stolen, died, unheard, faults>> /\ pc[p] = "fail"
  BY DEF MarkAttemptFailed
<1>2. r \in Replies /\ row[r] \in Row /\ job[p] \in Job /\ Kept(r)
  BY <1>1 DEF Inv, Typed, Holds
<1>3. job[p].retry => job[p].attempts + 1 < MaxAttempts
  BY <1>1 DEF Inv, Holds
<1>4. /\ done \in Row /\ done.status \in {"pending", "failed"}
      /\ done.status = "pending" => done.attempts < MaxAttempts
  <2>1. job[p].attempts + 1 \in 0..MaxAttempts
    BY <1>2, OutboundAssumption DEF Job
  <2>2. QED
    BY <1>3, <2>1 DEF Row, Status
<1>5. j \in Job
  <2>1. due \in SUBSET Replies /\ job[p].left \in 0..Batch
    BY <1>2 DEF Job
  <2> HIDE DEF due
  <2>2. QED
    BY <2>1, NextTyped
<1>6. row' = [row EXCEPT ![r] = new]
  <2>1. CASE Exists(r)
    BY <2>1 DEF MarkAttemptFailed
  <2>2. CASE ~Exists(r)
    BY <2>2 DEF MarkAttemptFailed, Inv, Typed
  <2>3. QED
    BY <2>1, <2>2
<1>7. Goto(p, "find", j)
  BY DEF MarkAttemptFailed
<1> HIDE DEF done, j
<1>8. /\ new \in Row
      /\ new.status \in {"unwritten", "pending", "sending"} => new.attempts < MaxAttempts
      /\ new.status = "gone" => copies[r] # << >>
      /\ row[r].status = "gone" => new.status = "gone"
  BY <1>2, <1>4 DEF Kept, Exists
<1> HIDE DEF new
<1>9. QED
  BY <1>1, <1>2, <1>5, <1>6, <1>7, <1>8, EndKeeps

LEMMA NextInv == Inv /\ [Next]_vars => Inv'
<1> SUFFICES ASSUME Inv, [Next]_vars PROVE Inv'
  OBVIOUS
<1>1. ASSUME NEW p \in Passes, Pass(p) \/ Crash(p) PROVE Inv'
  BY <1>1, ReclaimKeeps, FindKeeps, ClaimKeeps, LoadKeeps, StampKeeps, SendKeeps, SentKeeps,
     FailedKeeps, CrashKeeps DEF Pass
<1>2. ASSUME NEW r \in Replies, Post(r) \/ Time(r) PROVE Inv'
  BY <1>2, PostKeeps, TimeKeeps
<1>3. CASE UNCHANGED vars
  <2>1. Typed'
    BY <1>3 DEF vars, Inv, Typed
  <2>2. \A p \in Passes : Holds(p)'
    BY <1>3 DEF vars, Inv, Holds
  <2>3. \A r \in Replies : Kept(r)' /\ (r \notin stolen => OneId(r)')
    BY <1>3 DEF vars, Inv, Kept, OneId
  <2>4. \A r \in Replies : /\ Alone(r) => Alone(r)'
                           /\ Once(r) => Once(r)'
    BY <1>3 DEF vars, Alone, Once, WorksOn
  <2>5. QED
    BY <1>3, <2>1, <2>2, <2>3, <2>4 DEF vars, Inv
<1>4. QED
  BY <1>1, <1>2, <1>3 DEF Next

THEOREM InvHolds == Spec => []Inv
  BY InitInv, NextInv, PTL DEF Spec

----------------------------------------------------------------------------
(* The theorems.                                                               *)

LEMMA SeqOver ==
  ASSUME NEW S, NEW T, NEW s \in Seq(S), \A i \in 1..Len(s) : s[i] \in T
  PROVE  s \in Seq(T)
<1>1. Len(s) \in Nat /\ s \in [1..Len(s) -> S]
  BY LenProperties
<1>2. s \in [1..Len(s) -> T]
  BY <1>1
<1>3. QED
  BY <1>1, <1>2, SeqDef, Zenon

(* Every value is of its type; no attempt is beyond the budget, and no copy is *)
(* sent under an identity that was not minted for its reply.                   *)
THEOREM OutboundTypes == Spec => []TypeOK
<1>1. Inv => TypeOK
  <2> SUFFICES ASSUME Inv PROVE TypeOK
    OBVIOUS
  <2>1. ASSUME NEW r \in Replies PROVE external[r] \in 0..minted[r] /\ copies[r] \in Seq(1..minted[r])
    <3>1. external[r] \in Nat /\ minted[r] \in Nat /\ external[r] =< minted[r] /\ copies[r] \in Seq(Nat)
      BY DEF Inv, Typed, Kept
    <3>2. \A i \in 1..Len(copies[r]) : copies[r][i] \in 1..minted[r]
      BY DEF Inv, Kept
    <3>3. QED
      BY <3>1, <3>2, SeqOver
  <2>2. ASSUME NEW p \in Passes
        PROVE  job[p].due \subseteq Replies /\ job[p].left \in 0..Batch /\ job[p].attempts < MaxAttempts
    <3>1. job[p] \in Job
      BY DEF Inv, Typed
    <3>2. job[p].attempts \in 0..(MaxAttempts - 1)
      BY <3>1 DEF Job
    <3>3. job[p].attempts < MaxAttempts
      BY <3>2, OutboundAssumption
    <3>4. QED
      BY <3>1, <3>3 DEF Job
  <2>3. \A r \in Replies : row[r] \in Row
    BY DEF Inv, Typed
  <2>4. QED
    BY <2>1, <2>2, <2>3 DEF Inv, Typed, Holds, TypeOK, Row
<1>2. QED
  BY <1>1, InvHolds, PTL

(* Until its claim is taken from it a pass has the row to itself, and a reply  *)
(* keeps one identity over all its attempts.                                   *)
THEOREM SenderTheorem == Spec => []OneSender
<1>1. Inv => OneSender
  BY DEF Inv, Alone, OneId, OneSender
<1>2. QED
  BY <1>1, InvHolds, PTL

(* A row leaves the queue only when its message was accepted, and the customer *)
(* gets one copy, but for the three windows.                                   *)
THEOREM OnceTheorem == Spec => []SentOnce
<1>1. Inv => SentOnce
  <2> SUFFICES ASSUME Inv, NEW r \in Replies
               PROVE  /\ row[r].status = "gone" => copies[r] # << >>
                      /\ Len(copies[r]) > 1 => r \in stolen \cup died \cup unheard
    BY DEF SentOnce
  <2>1. Kept(r) /\ (r \notin stolen \cup died \cup unheard => Once(r)) /\ Len(copies[r]) \in Nat
    BY DEF Inv, Typed
  <2>2. QED
    BY <2>1 DEF Kept, Once
<1>2. QED
  BY <1>1, InvHolds, PTL

(* A dead letter stays where it is: the safety half of Resolved.               *)
THEOREM LetterTheorem == Spec => [][LetterStays]_vars
<1>1. Inv /\ [Next]_vars => [LetterStays]_vars
  <2> SUFFICES ASSUME Inv, Next, NEW r \in Replies, row[r].status = "failed", r \notin stolen
               PROVE  row'[r].status = "failed"
    BY DEF LetterStays
  <2>1. row \in [Replies -> Row] /\ \A p \in Passes : ~WorksOn(p, r)
    BY DEF Inv, Typed, Alone
  <2>2. ASSUME NEW p \in Passes, Pass(p) \/ Crash(p) PROVE row'[r] = row[r]
    <3>1. CASE ReclaimStale(p)
      BY <3>1 DEF ReclaimStale
    <3>2. CASE ClaimNext(p)
      BY <2>1, <3>2 DEF ClaimNext
    <3>3. CASE MarkSent(p) \/ MarkAttemptFailed(p)
      <4>1. job[p].reply # r
        BY <2>1, <3>3 DEF WorksOn, MarkSent, MarkAttemptFailed
      <4>2. QED
        BY <2>1, <3>3, <4>1 DEF MarkSent, MarkAttemptFailed
    <3>4. CASE UNCHANGED row
      BY <3>4
    <3>5. QED
      BY <2>2, <3>1, <3>2, <3>3, <3>4 DEF Pass, Find, Load, StampId, Send, Crash
  <2>3. ASSUME NEW s \in Replies, Post(s) \/ Time(s) PROVE row'[r].status = row[r].status
    <3>1. CASE Post(s) \/ Age(s)
      BY <2>1, <3>1 DEF Post, Age
    <3>2. CASE BecomesDue(s)
      BY <2>1, <3>2 DEF BecomesDue, Row
    <3>3. QED
      BY <2>3, <3>1, <3>2 DEF Time
  <2>4. QED
    BY <2>2, <2>3 DEF Next
<1>2. QED
  BY <1>1, InvHolds, PTL DEF Spec
=============================================================================
