---------------------------- MODULE Exports_proofs ---------------------------
(* Proofs about Exports, for every number of jobs, requests and passes, every  *)
(* batch size and quota, and any number of faults.                             *)
EXTENDS Exports, FiniteSetTheorems, WellFoundedInduction, TLAPS

----------------------------------------------------------------------------
(* The inductive invariant.                                                    *)

Labels == {"idle", "take", "produce", "put", "row", "record", "fail"}
Batch  == [due : SUBSET Jobs, ran : SUBSET Jobs, job : Jobs \cup {0}]

Typed == TypeOK /\ at \in [Passes -> Batch]

(* The pass has claimed the job and is not done with it.                       *)
Claimed(p) == pc[p] \in {"produce", "put", "row", "record", "fail"}
Early(p)   == pc[p] \in {"produce", "put", "row", "record"}

(* Nobody works on a job that waits, and one pass at most on one that does not.*)
Exclusive ==
    /\ \A p \in Passes : Claimed(p) => job[at[p].job].status \notin {"none", "queued"}
    /\ \A p, q \in Passes : Claimed(p) /\ Claimed(q) /\ at[p].job = at[q].job => p = q

(* Until the transaction the entry is not there, and the job is running unless *)
(* it was recovered; a job its own pass has failed has no pass any more.       *)
Pending ==
    /\ \A j \in Jobs : job[j].status \in {"none", "queued", "running"} => audited[j] = 0
    /\ \A p \in Passes : Early(p) =>
          audited[at[p].job] = 0 /\ job[at[p].job].status \in {"running", "failed"}
    /\ \A p \in Passes : Claimed(p) /\ job[at[p].job].status = "failed"
          => job[at[p].job].reason = "interrupted"

(* What is over was settled, and a file's time is over after its job's.        *)
Times ==
    /\ \A j \in past : job[j].status \in {"ready", "failed", "expired"}
    /\ \A u \in old : u[1] \in past

(* The file of a job whose time is not over is there once it was stored.       *)
Stored ==
    /\ \A p \in Passes : at[p].job \notin past =>
          /\ pc[p] = "row" => Upload(p) \in objects
          /\ pc[p] = "record" => Upload(p) \in listed \cap objects
    /\ \A j \in Jobs : job[j].status = "ready" => job[j].upload \in {j} \X Passes

Inv == Typed /\ Exclusive /\ Pending /\ Times /\ Stored /\ Recorded /\ BytesMatchRows

----------------------------------------------------------------------------
(* Lemmas about the helpers.                                                   *)

(* The oldest of some jobs is one of them, and none is older.                  *)
LEMMA MinIn ==
  ASSUME NEW S, S \subseteq Jobs, S # {} PROVE Min(S) \in S /\ \A y \in S : Min(S) =< y
<1>1. S \subseteq Nat
  BY ExportsAssumption
<1>2. PICK x \in S : \A y \in S : ~ (<<y, x>> \in OpToRel(<, Nat))
  BY <1>1, NatLessThanWellFounded, WFMin
<1>3. \A y \in S : x =< y
  <2>1. ASSUME NEW y \in S PROVE ~(y < x)
    BY <1>1, <1>2 DEF OpToRel
  <2>2. QED
    BY <1>1, <2>1
<1>4. QED
  BY <1>3 DEF Min

LEMMA OnlyLeast ==
  ASSUME NEW S, S \subseteq Nat, NEW m \in S, \A k \in S : m =< k
  PROVE  {k \in S : k <= m} = {m}
<1>1. m \in Nat
  OBVIOUS
<1>2. m =< m
  BY <1>1
<1>3. ASSUME NEW k \in S, k <= m PROVE k = m
  <2>1. k \in Nat /\ m =< k
    OBVIOUS
  <2>2. QED
    BY <1>1, <1>3, <2>1
<1>4. QED
  BY <1>2, <1>3

Others(p) == \A q \in Passes \ {p} : pc'[q] = pc[q] /\ at'[q] = at[q]

LEMMA GotoMoves ==
  ASSUME Typed, NEW p \in Passes, NEW l \in Labels, Goto(p, l), l # "idle" => at[p].job \in Jobs
  PROVE  /\ pc' \in [Passes -> Labels] /\ at' \in [Passes -> Batch]
         /\ pc'[p] = l /\ at'[p] = at[p] /\ Others(p)
         /\ \A q \in Passes : pc'[q] # "idle" => at'[q].job \in Jobs
  BY DEF Typed, TypeOK, Labels, Goto, Others

LEMMA NoJobInBatch == NoJob \in Batch
  BY DEF NoJob, Batch

(* A pass that is done with its job holds no claim.                            *)
LEMMA ProceedMoves ==
  ASSUME Typed, NEW p \in Passes, Proceed(p)
  PROVE  /\ pc' \in [Passes -> Labels] /\ at' \in [Passes -> Batch]
         /\ pc'[p] \in {"idle", "take"} /\ Others(p)
         /\ \A q \in Passes : pc'[q] # "idle" => at'[q].job \in Jobs
<1>1. CASE at[p].due = {} /\ pc' = [pc EXCEPT ![p] = "idle"] /\ at' = [at EXCEPT ![p] = NoJob]
  BY <1>1, NoJobInBatch DEF Typed, TypeOK, Labels, Others
<1>2. CASE /\ at[p].due # {}
           /\ pc' = [pc EXCEPT ![p] = "take"]
           /\ at' = [at EXCEPT ![p].job = Min(at[p].due), ![p].due = at[p].due \ {Min(at[p].due)}]
  <2>1. at[p] \in Batch /\ at[p].due \subseteq Jobs
    BY DEF Typed, Batch
  <2>2. Min(at[p].due) \in Jobs
    BY <1>2, <2>1, MinIn
  <2> DEFINE new == [at[p] EXCEPT !.job = Min(at[p].due), !.due = at[p].due \ {Min(at[p].due)}]
  <2>3. at' = [at EXCEPT ![p] = new]
    BY <1>2 DEF Typed
  <2>4. new \in Batch /\ new.job \in Jobs
    BY <2>1, <2>2 DEF Batch
  <2> HIDE DEF new
  <2>5. QED
    BY <1>2, <2>3, <2>4 DEF Typed, TypeOK, Labels, Others
<1>3. QED
  BY <1>1, <1>2 DEF Proceed

(* What a statement guarded by `status = running` does to the table.           *)
Settles(j, row) ==
    /\ job' \in [Jobs -> Row]
    /\ \A k \in Jobs \ {j} : job'[k] = job[k]
    /\ job[j].status = "running" => job'[j] = row
    /\ job[j].status # "running" => job'[j] = job[j]
    /\ stale' = stale \ {j}

LEMMA FailSettles ==
  ASSUME Typed, NEW j \in Jobs, NEW reason \in {"interrupted", "other"}, FailRunning(j, reason)
  PROVE  Settles(j, [job[j] EXCEPT !.status = "failed", !.reason = reason])
<1>1. job[j] \in Row
  BY DEF Typed, TypeOK
<1> DEFINE row == [job[j] EXCEPT !.status = "failed", !.reason = reason]
<1>2. row \in Row
  BY <1>1 DEF Row, Statuses
<1>3. job[j].status = "running" => job' = [job EXCEPT ![j] = row]
  BY DEF Typed, TypeOK, FailRunning
<1>4. job[j].status # "running" => job' = job
  BY DEF FailRunning
<1> HIDE DEF row
<1>5. Settles(j, row)
  BY <1>2, <1>3, <1>4 DEF Typed, TypeOK, FailRunning, Settles
<1>6. QED
  BY <1>5 DEF row

LEMMA CompleteSettles ==
  ASSUME Typed, NEW j \in Jobs, NEW u \in Uploads, Complete(j, u)
  PROVE  Settles(j, [job[j] EXCEPT !.status = "ready", !.upload = u])
<1>1. job[j] \in Row
  BY DEF Typed, TypeOK
<1> DEFINE row == [job[j] EXCEPT !.status = "ready", !.upload = u]
<1>2. row \in Row
  BY <1>1 DEF Row, Statuses
<1>3. job[j].status = "running" => job' = [job EXCEPT ![j] = row]
  BY DEF Typed, TypeOK, Complete
<1>4. job[j].status # "running" => job' = job
  BY DEF Complete
<1> HIDE DEF row
<1>5. Settles(j, row)
  BY <1>2, <1>3, <1>4 DEF Typed, TypeOK, Complete, Settles
<1>6. QED
  BY <1>5 DEF row

----------------------------------------------------------------------------
(* Steps that touch neither a pass nor a claimed job.                          *)

LEMMA InitInv == Init => Inv
<1> SUFFICES ASSUME Init PROVE Inv
  OBVIOUS
<1>1. NoRow \in Row /\ NoJob \in Batch
  BY NoJobInBatch DEF NoRow, Row, Statuses
<1>2. Typed
  <2>1. pc \in [Passes -> Labels] /\ at \in [Passes -> Batch] /\ job \in [Jobs -> Row]
    BY <1>1 DEF Init, Labels
  <2>2. \A p \in Passes : at[p].due = {} /\ at[p].ran = {} /\ pc[p] = "idle"
    BY DEF Init, NoJob
  <2>3. QED
    BY <2>1, <2>2, ExportsAssumption DEF Init, Typed, TypeOK, Labels
<1>3. \A p \in Passes : pc[p] = "idle"
  BY DEF Init
<1>4. \A j \in Jobs : job[j].status = "none" /\ audited[j] = 0
  BY DEF Init, NoRow
<1>5. Exclusive /\ Pending /\ Times /\ Stored
  BY <1>3, <1>4 DEF Init, Exclusive, Pending, Times, Stored, Claimed, Early
<1>6. Recorded /\ BytesMatchRows
  BY <1>4 DEF Init, Recorded, BytesMatchRows
<1>7. QED
  BY <1>2, <1>5, <1>6 DEF Inv

(* The request, the clocks and the stutter leave what the invariant is about.  *)
LEMMA CountInv == ASSUME Inv, NEW r \in Requests, Count(r) PROVE Inv'
<1>1. UNCHANGED <<job, windowed, stale, past, old, audited, objects, listed, stray, pc, at, faults>>
  BY DEF Count, users
<1>2. Typed'
  BY <1>1 DEF Inv, Typed, TypeOK, Count
<1>3. (Exclusive /\ Pending /\ Times /\ Stored /\ Recorded /\ BytesMatchRows)'
  BY <1>1 DEF Inv, Exclusive, Pending, Times, Stored, Recorded, BytesMatchRows, Claimed, Early, Upload
<1>4. QED
  BY <1>2, <1>3 DEF Inv

LEMMA InsertInv == ASSUME Inv, NEW r \in Requests, Insert(r) PROVE Inv'
<1>1. UNCHANGED <<stale, past, old, audited, objects, listed, stray, pc, at, faults>>
  BY DEF Insert, users
<1>2. CASE UNCHANGED <<job, windowed>>
  <2>1. Typed'
    BY <1>1, <1>2 DEF Inv, Typed, TypeOK, Insert
  <2>2. (Exclusive /\ Pending /\ Times /\ Stored /\ Recorded /\ BytesMatchRows)'
    BY <1>1, <1>2 DEF Inv, Exclusive, Pending, Times, Stored, Recorded, BytesMatchRows, Claimed, Early, Upload
  <2>3. QED
    BY <2>1, <2>2 DEF Inv
<1>3. ASSUME NEW j \in In("none"), job' = [job EXCEPT ![j].status = "queued"], windowed' = windowed \cup {j}
      PROVE  Inv'
  <2>1. j \in Jobs /\ job[j].status = "none"
    BY <1>3 DEF In
  <2>2. /\ job' \in [Jobs -> Row] /\ job'[j].status = "queued"
        /\ \A k \in Jobs \ {j} : job'[k] = job[k]
    BY <1>3, <2>1 DEF Inv, Typed, TypeOK, Row, Statuses
  <2>3. Typed'
    BY <1>1, <1>3, <2>1, <2>2 DEF Inv, Typed, TypeOK, Insert
  <2>4. Exclusive'
    BY <1>1, <2>1, <2>2 DEF Inv, Exclusive, Claimed, Typed, TypeOK
  <2>5. Pending'
    BY <1>1, <2>1, <2>2 DEF Inv, Pending, Claimed, Early, Typed, TypeOK
  <2>6. (Times /\ Stored)'
    BY <1>1, <2>1, <2>2 DEF Inv, Times, Stored, Upload, Typed, TypeOK
  <2>7. (Recorded /\ BytesMatchRows)'
    BY <1>1, <2>1, <2>2 DEF Inv, Pending, Recorded, BytesMatchRows, Upload, Typed, TypeOK
  <2>8. QED
    BY <2>3, <2>4, <2>5, <2>6, <2>7 DEF Inv
<1>4. QED
  <2>1. In("none") # {} => Min(In("none")) \in In("none")
    BY MinIn DEF In
  <2>2. QED
    BY <1>2, <1>3, <2>1 DEF Insert

LEMMA ExpireInv == ASSUME Inv, NEW j \in Jobs, ExpireRecord(j) PROVE Inv'
<1>1. UNCHANGED <<asking, windowed, stale, past, old, audited, objects, listed, stray, pc, at, faults>>
  BY DEF ExpireRecord, users
<1>2. job[j].status = "ready" /\ j \in past
  BY DEF ExpireRecord
<1>3. /\ job' \in [Jobs -> Row] /\ job'[j].status = "expired"
      /\ \A k \in Jobs \ {j} : job'[k] = job[k]
  BY DEF ExpireRecord, Inv, Typed, TypeOK, Row, Statuses
<1>4. Typed'
  BY <1>1, <1>3 DEF Inv, Typed, TypeOK
<1>5. (Exclusive /\ Pending)'
  BY <1>1, <1>2, <1>3 DEF Inv, Exclusive, Pending, Claimed, Early, Typed, TypeOK
<1>6. (Times /\ Stored)'
  BY <1>1, <1>2, <1>3 DEF Inv, Times, Stored, Upload, Typed, TypeOK
<1>7. (Recorded /\ BytesMatchRows)'
  BY <1>1, <1>2, <1>3 DEF Inv, Recorded, BytesMatchRows, Upload, Typed, TypeOK
<1>8. QED
  BY <1>4, <1>5, <1>6, <1>7 DEF Inv

LEMMA StaleInv == ASSUME Inv, NEW j \in Jobs, GoStale(j) PROVE Inv'
<1>1. UNCHANGED <<asking, job, windowed, past, old, audited, objects, listed, stray, pc, at, faults>>
  BY DEF GoStale, users
<1>2. Typed'
  BY <1>1 DEF Inv, Typed, TypeOK, GoStale
<1>3. (Exclusive /\ Pending /\ Times /\ Stored /\ Recorded /\ BytesMatchRows)'
  BY <1>1 DEF Inv, Exclusive, Pending, Times, Stored, Recorded, BytesMatchRows, Claimed, Early, Upload
<1>4. QED
  BY <1>2, <1>3 DEF Inv

LEMMA SlideInv == ASSUME Inv, SlideWindow PROVE Inv'
<1>1. UNCHANGED <<asking, job, stale, past, old, audited, objects, listed, stray, pc, at, faults>>
  BY DEF SlideWindow, users
<1>2. Typed'
  BY <1>1 DEF Inv, Typed, TypeOK, SlideWindow
<1>3. (Exclusive /\ Pending /\ Times /\ Stored /\ Recorded /\ BytesMatchRows)'
  BY <1>1 DEF Inv, Exclusive, Pending, Times, Stored, Recorded, BytesMatchRows, Claimed, Early, Upload
<1>4. QED
  BY <1>2, <1>3 DEF Inv

(* Time only passes for what is settled, and for a file after its job.         *)
LEMMA PastInv == ASSUME Inv, GoPast PROVE Inv'
<1>1. UNCHANGED <<asking, job, windowed, stale, audited, objects, listed, stray, pc, at, faults>>
  BY DEF GoPast, users, chats
<1>2. /\ past \subseteq past' /\ past' \subseteq Jobs /\ old' \subseteq Uploads
      /\ \A j \in past' \ past : job[j].status \in {"ready", "failed"}
      /\ \A u \in old' \ old : u[1] \in past
  BY DEF GoPast, In, Inv, Typed, TypeOK
<1>3. Typed'
  BY <1>1, <1>2 DEF Inv, Typed, TypeOK
<1>4. (Exclusive /\ Pending /\ Recorded)'
  BY <1>1 DEF Inv, Exclusive, Pending, Recorded, Claimed, Early
<1>5. (Times /\ Stored /\ BytesMatchRows)'
  BY <1>1, <1>2 DEF Inv, Times, Stored, BytesMatchRows, Upload
<1>6. QED
  BY <1>3, <1>4, <1>5 DEF Inv

----------------------------------------------------------------------------
(* The sweeps take away only what is old, and so no file of a job in its time. *)

LEMMA PurgeKeeps ==
  ASSUME Inv, NEW u \in Uploads, u \in old,
         UNCHANGED <<asking, job, windowed, stale, past, old, audited, stray, pc, at, faults>>,
         objects' \in {objects, objects \ {u}}, listed' \in {listed, listed \ {u}},
         u \in objects => listed' = listed
  PROVE  Inv'
<1>1. Typed'
  BY DEF Inv, Typed, TypeOK
<1>2. (Exclusive /\ Pending /\ Recorded /\ Times)'
  BY DEF Inv, Exclusive, Pending, Recorded, Times, Claimed, Early
<1>3. u[1] \in past
  BY DEF Inv, Times
<1>4. Stored'
  <2>1. ASSUME NEW p \in Passes, at[p].job \notin past
        PROVE  Upload(p) # u
    BY <1>3, <2>1 DEF Upload
  <2>2. QED
    BY <2>1 DEF Inv, Stored, Upload
<1>5. BytesMatchRows'
  <2>1. ASSUME NEW j \in Jobs, job[j].status = "ready", j \notin past
        PROVE  job[j].upload \in listed' \cap objects'
    <3>1. job[j].upload \in {j} \X Passes /\ job[j].upload \in listed \cap objects
      BY <2>1 DEF Inv, Stored, BytesMatchRows
    <3>2. job[j].upload # u
      BY <3>1, <2>1, <1>3
    <3>3. QED
      BY <3>1, <3>2
  <2>2. ASSUME NEW v \in objects' \ listed'
        PROVE  v \in stray \/ \E p \in Passes : pc[p] = "row" /\ Upload(p) = v
    <3>1. v \in objects \ listed
      BY <2>2
    <3>2. QED
      BY <3>1 DEF Inv, BytesMatchRows
  <2>3. QED
    BY <2>1, <2>2 DEF BytesMatchRows, Upload
<1>6. QED
  BY <1>1, <1>2, <1>4, <1>5 DEF Inv

LEMMA PurgeInv == ASSUME Inv, NEW u \in Uploads, PurgeObject(u) \/ PurgeRow(u) PROVE Inv'
  BY PurgeKeeps DEF PurgeObject, PurgeRow, Purgeable, chats

----------------------------------------------------------------------------
(* The steps of a pass.                                                        *)

LEMMA FaultType == ASSUME Typed, Fault PROVE faults' \in 0..MaxFaults
  BY ExportsAssumption DEF Typed, TypeOK, Fault

(* What the invariant asks of a step that moves one pass and neither a job nor *)
(* a file.                                                                     *)
LEMMA MoveInv ==
  ASSUME Inv, NEW p \in Passes, Others(p),
         pc' \in [Passes -> Labels], at' \in [Passes -> Batch],
         \A q \in Passes : pc'[q] # "idle" => at'[q].job \in Jobs,
         faults' \in 0..MaxFaults,
         UNCHANGED <<asking, job, windowed, stale, past, old, audited, objects, listed, stray>>,
         pc[p] # "row", pc'[p] \notin {"row", "record"},
         Claimed(p)' => Claimed(p) /\ at'[p] = at[p],
         Early(p)' => Early(p)
  PROVE  Inv'
<1>1. Typed'
  BY DEF Inv, Typed, TypeOK, Labels, Batch
<1>2. Exclusive'
  BY DEF Inv, Exclusive, Others, Claimed
<1>3. Pending'
  BY DEF Inv, Pending, Others, Claimed, Early
<1>4. (Times /\ Stored)'
  BY DEF Inv, Times, Stored, Others, Upload
<1>5. (Recorded /\ BytesMatchRows)'
  BY DEF Inv, Recorded, BytesMatchRows, Others, Upload
<1>6. QED
  BY <1>1, <1>2, <1>3, <1>4, <1>5 DEF Inv

LEMMA TickInv == ASSUME Inv, NEW p \in Passes, Tick(p) PROVE Inv'
<1> DEFINE batch == {j \in Due : Cardinality({k \in Due : k <= j}) <= Limit}
           new == [due |-> batch \ {Min(batch)}, ran |-> batch \cap In("running"), job |-> Min(batch)]
<1>1. Due \subseteq Jobs
  BY DEF Due, In
<1>2. batch # {}
  <2>1. Min(Due) \in Due /\ \A k \in Due : Min(Due) =< k
    BY <1>1, MinIn DEF Tick
  <2>2. {k \in Due : k <= Min(Due)} = {Min(Due)}
    <3>1. Due \subseteq Nat /\ Min(Due) \in Due
      BY <1>1, <2>1, ExportsAssumption
    <3>2. QED
      BY <3>1, <2>1, OnlyLeast
  <2>3. Cardinality({Min(Due)}) = 1
    BY FS_Singleton
  <2>4. Cardinality({k \in Due : k <= Min(Due)}) <= Limit
    BY <2>2, <2>3, ExportsAssumption
  <2>5. QED
    BY <2>1, <2>4
<1>3. new \in Batch /\ new.job \in Jobs
  <2>1. batch \subseteq Jobs
    BY <1>1
  <2>2. Min(batch) \in Jobs
    BY <1>2, <2>1, MinIn
  <2>3. QED
    BY <2>1, <2>2 DEF Batch
<1>4. pc[p] = "idle" /\ pc' = [pc EXCEPT ![p] = "take"] /\ at' = [at EXCEPT ![p] = new]
  BY DEF Tick
<1> HIDE DEF new, batch
<1>5. /\ pc' \in [Passes -> Labels] /\ at' \in [Passes -> Batch] /\ pc'[p] = "take" /\ Others(p)
      /\ \A q \in Passes : pc'[q] # "idle" => at'[q].job \in Jobs
  BY <1>3, <1>4 DEF Inv, Typed, TypeOK, Labels, Others
<1>6. faults' \in 0..MaxFaults
  BY DEF Tick, Inv, Typed, TypeOK
<1>7. UNCHANGED <<asking, job, windowed, stale, past, old, audited, objects, listed, stray>>
  BY DEF Tick, chats, users
<1>8. QED
  BY <1>4, <1>5, <1>6, <1>7, MoveInv DEF Claimed, Early

LEMMA ProduceInv == ASSUME Inv, NEW p \in Passes, Produce(p) PROVE Inv'
<1>1. /\ pc[p] = "produce" /\ at[p].job \in Jobs /\ faults' \in 0..MaxFaults /\ Typed
      /\ UNCHANGED <<asking, job, windowed, stale, past, old, audited, objects, listed, stray>>
  BY DEF Produce, chats, users, Inv, Typed, TypeOK
<1>2. ASSUME NEW l \in {"put", "fail"}, Goto(p, l) PROVE Inv'
  <2>1. l \in Labels
    BY DEF Labels
  <2>2. /\ pc' \in [Passes -> Labels] /\ at' \in [Passes -> Batch]
        /\ pc'[p] = l /\ at'[p] = at[p] /\ Others(p)
        /\ \A q \in Passes : pc'[q] # "idle" => at'[q].job \in Jobs
    BY <1>1, <1>2, <2>1, GotoMoves
  <2>3. QED
    BY <1>1, <2>2, MoveInv DEF Claimed, Early
<1>3. QED
  BY <1>2 DEF Produce

LEMMA DieInv == ASSUME Inv, NEW p \in Passes, Die(p) PROVE Inv'
<1>1. UNCHANGED <<asking, job, windowed, stale, past, old, audited, objects, listed, stray>>
  BY DEF Die, chats, users
<1>2. faults' \in 0..MaxFaults
  BY FaultType DEF Die, Inv
<1>3. /\ pc' \in [Passes -> Labels] /\ at' \in [Passes -> Batch] /\ pc'[p] = "idle" /\ Others(p)
      /\ \A q \in Passes : pc'[q] # "idle" => at'[q].job \in Jobs
  BY NoJobInBatch DEF Die, Inv, Typed, TypeOK, Labels, Others
<1>4. QED
  BY <1>1, <1>2, <1>3, MoveInv DEF Die, Claimed, Early

(* A step that settles a job for a pass that holds no claim afterwards.        *)
LEMMA FailedInv ==
  ASSUME Inv, NEW p \in Passes, NEW reason \in {"interrupted", "other"}, Others(p),
         pc' \in [Passes -> Labels], at' \in [Passes -> Batch], pc'[p] \in {"idle", "take"},
         \A q \in Passes : pc'[q] # "idle" => at'[q].job \in Jobs,
         faults' \in 0..MaxFaults, at[p].job \in Jobs, pc[p] # "row",
         FailRunning(at[p].job, reason), reason = "other" => Claimed(p),
         UNCHANGED <<asking, windowed, past, old, audited, objects, listed, stray>>
  PROVE  Inv'
<1> DEFINE j == at[p].job
           new == [job[j] EXCEPT !.status = "failed", !.reason = reason]
<1>1. Settles(j, new)
  BY FailSettles DEF Inv
<1>2. new.status = "failed" /\ new.reason = reason /\ new.upload = job[j].upload
  BY DEF Inv, Typed, TypeOK, Row
<1> HIDE DEF new
<1>3. Typed'
  BY <1>1 DEF Inv, Typed, TypeOK, Labels, Batch, Settles
<1>4. Exclusive'
  BY <1>1, <1>2 DEF Inv, Typed, TypeOK, Exclusive, Others, Claimed, Settles
<1>5. Pending'
  <2>1. \A k \in Jobs : job'[k].status \in {"none", "queued", "running"} => audited[k] = 0
    BY <1>1, <1>2 DEF Inv, Pending, Settles
  <2>2. ASSUME NEW q \in Passes, Claimed(q)'
        PROVE  q # p /\ Claimed(q) /\ at'[q] = at[q] /\ at[q].job \in Jobs
    BY <2>2 DEF Claimed, Others, Inv, Typed, TypeOK
  <2>3. ASSUME NEW q \in Passes, Early(q)'
        PROVE  audited[at'[q].job] = 0 /\ job'[at'[q].job].status \in {"running", "failed"}
    BY <1>1, <1>2, <2>2, <2>3 DEF Inv, Pending, Settles, Early, Claimed, Others
  <2>4. ASSUME NEW q \in Passes, Claimed(q)', job'[at'[q].job].status = "failed"
        PROVE  job'[at'[q].job].reason = "interrupted"
    BY <1>1, <1>2, <2>2, <2>4 DEF Inv, Pending, Exclusive, Settles
  <2>5. QED
    BY <2>1, <2>3, <2>4 DEF Pending, Claimed, Early
<1>6. (Times /\ Stored)'
  BY <1>1, <1>2 DEF Inv, Typed, TypeOK, Times, Stored, Others, Upload, Settles
<1>7. (Recorded /\ BytesMatchRows)'
  BY <1>1, <1>2 DEF Inv, Typed, TypeOK, Pending, Recorded, BytesMatchRows, Others, Upload, Settles
<1>8. QED
  BY <1>3, <1>4, <1>5, <1>6, <1>7 DEF Inv

LEMMA RecoverInv == ASSUME Inv, NEW p \in Passes, Recover(p) PROVE Inv'
<1>1. /\ pc[p] = "take" /\ at[p].job \in Jobs /\ faults' \in 0..MaxFaults
      /\ UNCHANGED <<asking, windowed, past, old, audited, objects, listed, stray>>
  BY DEF Recover, users, Inv, Typed, TypeOK
<1>2. /\ pc' \in [Passes -> Labels] /\ at' \in [Passes -> Batch]
      /\ pc'[p] \in {"idle", "take"} /\ Others(p)
      /\ \A q \in Passes : pc'[q] # "idle" => at'[q].job \in Jobs
  BY ProceedMoves DEF Recover, Inv
<1>3. QED
  BY <1>1, <1>2, FailedInv DEF Recover

LEMMA FailInv == ASSUME Inv, NEW p \in Passes, Fail(p) PROVE Inv'
<1>1. /\ pc[p] = "fail" /\ Claimed(p) /\ at[p].job \in Jobs
      /\ UNCHANGED <<asking, windowed, past, old, audited, objects, listed, stray>>
  BY DEF Fail, users, Inv, Typed, TypeOK, Claimed
<1>2. /\ pc' \in [Passes -> Labels] /\ at' \in [Passes -> Batch]
      /\ pc'[p] \in {"idle", "take"} /\ Others(p)
      /\ \A q \in Passes : pc'[q] # "idle" => at'[q].job \in Jobs
  BY ProceedMoves DEF Fail, Inv
<1>3. faults' \in 0..MaxFaults
  BY FaultType DEF Fail, Inv, Typed, TypeOK
<1>4. CASE FailRunning(at[p].job, "other")
  BY <1>1, <1>2, <1>3, <1>4, FailedInv
<1>5. CASE UNCHANGED <<job, stale>>
  BY <1>1, <1>2, <1>3, <1>5, MoveInv DEF Claimed, Early
<1>6. QED
  BY <1>4, <1>5 DEF Fail

(* The claim: the job waited, so nobody else holds it.                         *)
LEMMA ClaimInv == ASSUME Inv, NEW p \in Passes, Claim(p) PROVE Inv'
<1> DEFINE j == at[p].job
<1>1. /\ pc[p] = "take" /\ j \in Jobs /\ faults' \in 0..MaxFaults
      /\ UNCHANGED <<asking, windowed, stale, past, old, audited, objects, listed, stray>>
  BY DEF Claim, users, Inv, Typed, TypeOK
<1>2. CASE Proceed(p) /\ UNCHANGED job
  <2>1. /\ pc' \in [Passes -> Labels] /\ at' \in [Passes -> Batch]
        /\ pc'[p] \in {"idle", "take"} /\ Others(p)
        /\ \A q \in Passes : pc'[q] # "idle" => at'[q].job \in Jobs
    BY <1>2, ProceedMoves DEF Inv
  <2>2. QED
    BY <1>1, <1>2, <2>1, MoveInv DEF Claimed, Early
<1>3. CASE Claimable(j) /\ job' = [job EXCEPT ![j].status = "running"] /\ Goto(p, "produce")
  <2>1. /\ pc' \in [Passes -> Labels] /\ at' \in [Passes -> Batch]
        /\ pc'[p] = "produce" /\ at'[p] = at[p] /\ Others(p)
        /\ \A q \in Passes : pc'[q] # "idle" => at'[q].job \in Jobs
    BY <1>1, <1>3, GotoMoves DEF Inv, Labels
  <2>2. /\ job' \in [Jobs -> Row] /\ job'[j].status = "running" /\ job[j].status = "queued"
        /\ \A k \in Jobs \ {j} : job'[k] = job[k]
    BY <1>1, <1>3 DEF Claimable, Inv, Typed, TypeOK, Row, Statuses
  <2>3. Typed'
    BY <1>1, <2>1, <2>2 DEF Inv, Typed, TypeOK, Labels, Batch
  <2>4. ASSUME NEW q \in Passes \ {p}, Claimed(q)'
        PROVE  Claimed(q) /\ at'[q] = at[q] /\ pc'[q] = pc[q] /\ at[q].job \in Jobs \ {j}
    BY <2>1, <2>2, <2>4 DEF Claimed, Others, Exclusive, Inv, Typed, TypeOK
  <2>5. Exclusive'
    BY <1>1, <2>1, <2>2, <2>4 DEF Inv, Exclusive, Claimed
  <2>6. Pending'
    <3>1. audited[j] = 0
      BY <1>1, <2>2 DEF Inv, Pending
    <3>2. \A k \in Jobs : job'[k].status \in {"none", "queued", "running"} => audited[k] = 0
      BY <2>2, <3>1 DEF Inv, Pending
    <3>3. ASSUME NEW q \in Passes, Early(q)'
          PROVE  audited[at'[q].job] = 0 /\ job'[at'[q].job].status \in {"running", "failed"}
      BY <2>1, <2>2, <2>4, <3>1, <3>3 DEF Inv, Pending, Early, Claimed
    <3>4. ASSUME NEW q \in Passes, Claimed(q)', job'[at'[q].job].status = "failed"
          PROVE  job'[at'[q].job].reason = "interrupted"
      BY <2>1, <2>2, <2>4, <3>4 DEF Inv, Pending
    <3>5. QED
      BY <1>1, <3>2, <3>3, <3>4 DEF Pending, Claimed, Early
  <2>7. (Times /\ Stored)'
    BY <1>1, <2>1, <2>2 DEF Inv, Typed, TypeOK, Times, Stored, Others, Upload
  <2>8. (Recorded /\ BytesMatchRows)'
    BY <1>1, <2>1, <2>2 DEF Inv, Typed, TypeOK, Pending, Recorded, BytesMatchRows, Others, Upload
  <2>9. QED
    BY <2>3, <2>5, <2>6, <2>7, <2>8 DEF Inv
<1>4. QED
  BY <1>2, <1>3 DEF Claim

(* The two steps that store: neither touches a job, and the pass goes on       *)
(* working on its own.                                                         *)
LEMMA StoreInv ==
  ASSUME Inv, NEW p \in Passes, NEW l \in {"row", "record", "fail"}, Goto(p, l),
         pc[p] \in {"put", "row"}, faults' \in 0..MaxFaults,
         objects' \subseteq Uploads, listed' \subseteq Uploads, stray' \subseteq Uploads,
         UNCHANGED <<asking, job, windowed, stale, past, old, audited>>,
         \A u \in Uploads : u # Upload(p) =>
            (u \in objects' <=> u \in objects) /\ (u \in listed' <=> u \in listed),
         stray \subseteq stray',
         l = "row" => Upload(p) \in objects',
         l = "record" => listed' = listed \cup {Upload(p)} /\ objects' = objects,
         l = "record" => pc[p] = "row",
         Upload(p) \in objects' \ listed' =>
            Upload(p) \in stray' \/ l = "row" \/ (Upload(p) \in objects \ listed /\ pc[p] = "put")
  PROVE  Inv'
<1>1. at[p].job \in Jobs /\ Claimed(p) /\ Early(p)
  BY DEF Inv, Typed, TypeOK, Claimed, Early
<1>2. /\ pc' \in [Passes -> Labels] /\ at' \in [Passes -> Batch]
      /\ pc'[p] = l /\ at'[p] = at[p] /\ Others(p)
      /\ \A q \in Passes : pc'[q] # "idle" => at'[q].job \in Jobs
  BY <1>1, GotoMoves DEF Inv, Labels
<1>3. Typed'
  BY <1>2 DEF Inv, Typed, TypeOK, Labels, Batch
<1>4. \A q \in Passes : at'[q] = at[q]
  BY <1>2 DEF Others
<1>5. Exclusive'
  BY <1>1, <1>2, <1>4 DEF Inv, Exclusive, Others, Claimed
<1>6. Pending'
  BY <1>1, <1>2, <1>4 DEF Inv, Pending, Others, Claimed, Early
<1>7. (Times /\ Recorded)'
  BY DEF Inv, Times, Recorded
<1>8. Stored'
  <2>1. ASSUME NEW q \in Passes \ {p}, pc'[q] \in {"row", "record"}
        PROVE  Upload(q) \in Uploads /\ Upload(q) # Upload(p) /\ pc[q] = pc'[q]
    BY <1>2, <2>1 DEF Others, Upload, Uploads, Inv, Typed, TypeOK
  <2>2. ASSUME NEW q \in Passes \ {p}, at'[q].job \notin past'
        PROVE  /\ pc'[q] = "row" => Upload(q)' \in objects'
               /\ pc'[q] = "record" => Upload(q)' \in listed' \cap objects'
    BY <1>4, <2>1, <2>2 DEF Inv, Stored, Upload
  <2>3. ASSUME at'[p].job \notin past'
        PROVE  /\ pc'[p] = "row" => Upload(p)' \in objects'
               /\ pc'[p] = "record" => Upload(p)' \in listed' \cap objects'
    BY <1>2, <2>3 DEF Inv, Stored, Upload
  <2>4. \A j \in Jobs : job'[j].status = "ready" => job'[j].upload \in {j} \X Passes
    BY DEF Inv, Stored
  <2>5. QED
    BY <2>2, <2>3, <2>4 DEF Stored
<1>9. BytesMatchRows'
  <2>1. ASSUME NEW j \in Jobs, job[j].status = "ready", j \notin past
        PROVE  job[j].upload \in listed' \cap objects'
    <3>1. job[j].upload \in {j} \X Passes /\ job[j].upload \in listed \cap objects
      BY <2>1 DEF Inv, Stored, BytesMatchRows
    <3>2. j # at[p].job
      BY <1>1, <2>1 DEF Inv, Pending
    <3>3. job[j].upload # Upload(p) /\ job[j].upload \in Uploads
      BY <3>1, <3>2 DEF Upload, Inv, Typed, TypeOK
    <3>4. QED
      BY <3>1, <3>3
  <2>2. ASSUME NEW u \in objects' \ listed'
        PROVE  u \in stray' \/ \E q \in Passes : pc'[q] = "row" /\ Upload(q) = u
    <3>1. CASE u # Upload(p)
      <4>1. u \in objects \ listed
        BY <2>2, <3>1
      <4>2. CASE u \in stray
        BY <4>2
      <4>3. ASSUME NEW q \in Passes, pc[q] = "row", Upload(q) = u
            PROVE  pc'[q] = "row"
        BY <1>2, <3>1, <4>3 DEF Others
      <4>4. QED
        BY <4>1, <4>2, <4>3 DEF Inv, BytesMatchRows
    <3>2. CASE u = Upload(p)
      <4>1. CASE u \in objects \ listed /\ pc[p] = "put"
        <5>1. ASSUME NEW q \in Passes, pc[q] = "row" PROVE Upload(q) # u
          BY <3>2, <4>1, <5>1 DEF Upload
        <5>2. QED
          BY <4>1, <5>1 DEF Inv, BytesMatchRows
      <4>2. QED
        BY <1>2, <2>2, <3>2, <4>1
    <3>3. QED
      BY <3>1, <3>2
  <2>3. QED
    BY <1>4, <2>1, <2>2 DEF BytesMatchRows, Upload
<1>10. QED
  BY <1>3, <1>5, <1>6, <1>7, <1>8, <1>9 DEF Inv

LEMMA PutInv == ASSUME Inv, NEW p \in Passes, Put(p) PROVE Inv'
<1>1. /\ pc[p] = "put" /\ Upload(p) \in Uploads /\ faults' \in 0..MaxFaults
      /\ objects \subseteq Uploads /\ listed \subseteq Uploads /\ stray \subseteq Uploads
      /\ UNCHANGED <<asking, job, windowed, stale, past, old, audited, listed, stray>>
  BY DEF Put, chats, Upload, Uploads, Inv, Typed, TypeOK
<1>2. CASE Goto(p, "row") /\ objects' = objects \cup {Upload(p)}
  BY <1>1, <1>2, StoreInv
<1>3. CASE Goto(p, "fail") /\ UNCHANGED objects
  BY <1>1, <1>3, StoreInv
<1>4. QED
  BY <1>2, <1>3 DEF Put

LEMMA WriteRowInv == ASSUME Inv, NEW p \in Passes, WriteRow(p) PROVE Inv'
<1>1. /\ pc[p] = "row" /\ Upload(p) \in Uploads
      /\ objects \subseteq Uploads /\ listed \subseteq Uploads /\ stray \subseteq Uploads
      /\ UNCHANGED <<asking, job, windowed, stale, past, old, audited>>
  BY DEF WriteRow, chats, Upload, Uploads, Inv, Typed, TypeOK
<1>2. faults' \in 0..MaxFaults
  BY FaultType DEF WriteRow, Inv, Typed, TypeOK
<1>3. CASE listed' = listed \cup {Upload(p)} /\ Goto(p, "record") /\ UNCHANGED <<objects, stray>>
  BY <1>1, <1>2, <1>3, StoreInv
<1>4. CASE listed' = listed \cup {Upload(p)} /\ Goto(p, "fail") /\ UNCHANGED <<objects, stray>>
  BY <1>1, <1>2, <1>4, StoreInv
<1>5. CASE Goto(p, "fail") /\ objects' = objects \ {Upload(p)} /\ UNCHANGED <<stray, listed>>
  BY <1>1, <1>2, <1>5, StoreInv
<1>6. CASE Goto(p, "fail") /\ stray' = stray \cup {Upload(p)} /\ UNCHANGED <<objects, listed>>
  BY <1>1, <1>2, <1>6, StoreInv
<1>7. QED
  BY <1>3, <1>4, <1>5, <1>6 DEF WriteRow

(* The transaction: the job becomes ready, unless it was recovered meanwhile,  *)
(* and gets its one entry in either case.                                      *)
LEMMA RecordedInv ==
  ASSUME Inv, NEW p \in Passes, pc[p] = "record", Others(p),
         pc' \in [Passes -> Labels], at' \in [Passes -> Batch],
         \A q \in Passes : pc'[q] # "idle" => at'[q].job \in Jobs,
         pc'[p] \in {"idle", "take"} \/ (pc'[p] = "fail" /\ at'[p] = at[p]),
         faults' \in 0..MaxFaults,
         Complete(at[p].job, Upload(p)),
         audited' = [audited EXCEPT ![at[p].job] = @ + 1],
         UNCHANGED <<asking, windowed, past, old, objects, listed, stray>>
  PROVE  Inv'
<1> DEFINE j == at[p].job
           new == [job[j] EXCEPT !.status = "ready", !.upload = Upload(p)]
<1>1. j \in Jobs /\ Upload(p) \in Uploads /\ Upload(p) \in {j} \X Passes
  BY DEF Inv, Typed, TypeOK, Upload, Uploads
<1>2. Settles(j, new)
  BY <1>1, CompleteSettles DEF Inv
<1>3. new.status = "ready" /\ new.upload = Upload(p)
  BY <1>1 DEF Inv, Typed, TypeOK, Row
<1> HIDE DEF new
<1>4. /\ audited[j] = 0 /\ job[j].status \in {"running", "failed"}
      /\ job[j].status = "failed" => job[j].reason = "interrupted"
  BY DEF Inv, Pending, Early, Claimed
<1>5. /\ audited' \in [Jobs -> Nat] /\ audited'[j] = 1
      /\ \A k \in Jobs \ {j} : audited'[k] = audited[k]
  BY <1>1, <1>4 DEF Inv, Typed, TypeOK
<1>6. ASSUME NEW q \in Passes \ {p}
      PROVE  /\ Claimed(q)' => Claimed(q) /\ at'[q].job # j /\ at'[q].job \in Jobs
             /\ at'[q] = at[q] /\ pc'[q] = pc[q]
  BY DEF Others, Claimed, Exclusive, Inv, Typed, TypeOK
<1>7. Typed'
  BY <1>2, <1>5 DEF Inv, Typed, TypeOK, Labels, Batch, Settles
<1>8. Exclusive'
  BY <1>1, <1>2, <1>3, <1>4, <1>6 DEF Inv, Exclusive, Claimed, Settles
<1>9. Pending'
  <2>1. \A k \in Jobs : job'[k].status \in {"none", "queued", "running"} => audited'[k] = 0
    BY <1>2, <1>3, <1>4, <1>5 DEF Inv, Pending, Settles
  <2>2. ASSUME NEW q \in Passes, Early(q)'
        PROVE  audited'[at'[q].job] = 0 /\ job'[at'[q].job].status \in {"running", "failed"}
    <3>1. q # p
      BY <2>2 DEF Early
    <3>2. QED
      BY <1>2, <1>5, <1>6, <2>2, <3>1 DEF Inv, Pending, Early, Claimed, Settles
  <2>3. ASSUME NEW q \in Passes, Claimed(q)', job'[at'[q].job].status = "failed"
        PROVE  job'[at'[q].job].reason = "interrupted"
    <3>1. CASE q = p
      BY <1>2, <1>3, <1>4, <2>3, <3>1 DEF Claimed, Settles
    <3>2. CASE q # p
      BY <1>2, <1>6, <2>3, <3>2 DEF Inv, Pending, Settles
    <3>3. QED
      BY <3>1, <3>2
  <2>4. QED
    BY <2>1, <2>2, <2>3 DEF Pending, Claimed, Early
<1>10. Times'
  BY <1>2, <1>3 DEF Inv, Times, Settles, Typed, TypeOK
<1>11. Stored'
  BY <1>1, <1>2, <1>3, <1>6 DEF Inv, Stored, Settles, Typed, TypeOK, Upload
<1>12. Recorded'
  BY <1>2, <1>3, <1>4, <1>5 DEF Inv, Recorded, Settles
<1>13. BytesMatchRows'
  <2>1. ASSUME NEW k \in Jobs, job'[k].status = "ready", k \notin past
        PROVE  job'[k].upload \in listed \cap objects
    <3>1. CASE k = j
      BY <1>2, <1>3, <1>4, <2>1, <3>1 DEF Inv, Stored, Settles
    <3>2. CASE k # j
      BY <1>2, <2>1, <3>2 DEF Inv, BytesMatchRows, Settles
    <3>3. QED
      BY <3>1, <3>2
  <2>2. ASSUME NEW u \in objects \ listed
        PROVE  u \in stray \/ \E q \in Passes : pc'[q] = "row" /\ Upload(q)' = u
    <3>1. ASSUME NEW q \in Passes, pc[q] = "row" PROVE pc'[q] = "row" /\ Upload(q)' = Upload(q)
      BY <1>6, <3>1 DEF Upload
    <3>2. QED
      BY <3>1 DEF Inv, BytesMatchRows
  <2>3. QED
    BY <2>1, <2>2 DEF BytesMatchRows
<1>14. QED
  BY <1>7, <1>8, <1>9, <1>10, <1>11, <1>12, <1>13 DEF Inv

LEMMA RecordInv == ASSUME Inv, NEW p \in Passes, Record(p) PROVE Inv'
<1>1. /\ pc[p] = "record" /\ at[p].job \in Jobs
      /\ UNCHANGED <<asking, windowed, past, old, objects, listed, stray>>
  BY DEF Record, users, Inv, Typed, TypeOK
<1>2. faults' \in 0..MaxFaults
  BY FaultType DEF Record, Inv, Typed, TypeOK
<1>3. ASSUME Goto(p, "fail")
      PROVE  /\ pc' \in [Passes -> Labels] /\ at' \in [Passes -> Batch]
             /\ pc'[p] = "fail" /\ at'[p] = at[p] /\ Others(p)
             /\ \A q \in Passes : pc'[q] # "idle" => at'[q].job \in Jobs
  BY <1>1, <1>3, GotoMoves DEF Inv, Labels
<1>4. ASSUME Proceed(p)
      PROVE  /\ pc' \in [Passes -> Labels] /\ at' \in [Passes -> Batch]
             /\ pc'[p] \in {"idle", "take"} /\ Others(p)
             /\ \A q \in Passes : pc'[q] # "idle" => at'[q].job \in Jobs
  BY <1>4, ProceedMoves DEF Inv
<1>5. CASE /\ Complete(at[p].job, Upload(p))
           /\ audited' = [audited EXCEPT ![at[p].job] = @ + 1]
           /\ Proceed(p) \/ Goto(p, "fail")
  BY <1>1, <1>2, <1>3, <1>4, <1>5, RecordedInv
<1>6. CASE Goto(p, "fail") /\ UNCHANGED <<job, stale, audited>>
  BY <1>1, <1>2, <1>3, <1>6, MoveInv DEF Claimed, Early
<1>7. QED
  BY <1>5, <1>6 DEF Record

----------------------------------------------------------------------------
(* The theorems.                                                               *)

LEMMA NextInv == Inv /\ [Next]_vars => Inv'
<1> SUFFICES ASSUME Inv, [Next]_vars PROVE Inv'
  OBVIOUS
<1>1. CASE UNCHANGED vars
  BY <1>1 DEF vars, Inv, Typed, TypeOK, Exclusive, Pending, Times, Stored, Recorded,
              BytesMatchRows, Claimed, Early, Upload
<1>2. CASE \E r \in Requests : Count(r) \/ Insert(r)
  BY <1>2, CountInv, InsertInv
<1>3. ASSUME NEW p \in Passes, Work(p) PROVE Inv'
  BY <1>3, TickInv, RecoverInv, ClaimInv, ProduceInv, PutInv, WriteRowInv, RecordInv, FailInv DEF Work
<1>4. CASE \E p \in Passes : Die(p)
  BY <1>4, DieInv
<1>5. CASE \E j \in Jobs : ExpireRecord(j) \/ GoStale(j)
  BY <1>5, ExpireInv, StaleInv
<1>6. CASE \E u \in Uploads : PurgeObject(u) \/ PurgeRow(u)
  BY <1>6, PurgeInv
<1>7. CASE GoPast \/ SlideWindow
  BY <1>7, PastInv, SlideInv
<1>8. QED
  BY <1>1, <1>2, <1>3, <1>4, <1>5, <1>6, <1>7 DEF Next

LEMMA ExportsSafe == Spec => []Inv
<1>1. QED
  BY InitInv, NextInv, PTL DEF Spec

(* Every variable keeps its type.                                              *)
THEOREM ExportTypes == Spec => []TypeOK
<1>1. Inv => TypeOK
  BY DEF Inv, Typed
<1>2. QED
  BY <1>1, ExportsSafe, PTL

(* An export that was offered has its one audit entry, whatever fails, dies or *)
(* overlaps: export.service.ts writes both in one transaction, and only the    *)
(* pass whose claim was the one that took the job gets there.                  *)
THEOREM RecordedTheorem == Spec => []Recorded
<1>1. Inv => Recorded
  BY DEF Inv
<1>2. QED
  BY <1>1, ExportsSafe, PTL

(* An export that is offered and in its time can be downloaded, and no bytes   *)
(* stay behind unseen, whatever the expiry sweeps and a late runner do.        *)
THEOREM BytesTheorem == Spec => []BytesMatchRows
<1>1. Inv => BytesMatchRows
  BY DEF Inv
<1>2. QED
  BY <1>1, ExportsSafe, PTL

----------------------------------------------------------------------------
(* The promise: what each step looks like to the requester.                    *)

Seen == [j \in Jobs |-> Phase(job[j].status)]

LEMMA SeenStep ==
  ASSUME Inv, NEW j \in Jobs, job' \in [Jobs -> Row],
         \A k \in Jobs \ {j} : job'[k] = job[k],
         \/ job[j].status = "none" /\ job'[j].status = "queued"
         \/ job[j].status = "queued" /\ job'[j].status = "running"
         \/ job[j].status = "running" /\ job'[j].status \in {"failed", "ready"}
         \/ job[j].status = "ready" /\ job'[j].status = "expired"
         \/ job'[j].status = job[j].status
  PROVE  [Promise!Next]_Seen
<1>1. Seen' = [Seen EXCEPT ![j] = Phase(job'[j].status)] /\ Seen[j] = Phase(job[j].status)
  BY DEF Seen
<1>2. CASE job'[j].status = job[j].status
  BY <1>1, <1>2 DEF Seen
<1>3. CASE job[j].status = "none" /\ job'[j].status = "queued"
  <2>1. Promise!Ask(j)
    BY <1>1, <1>3 DEF Promise!Ask, Promise!Step, Phase, Seen
  <2>2. QED
    BY <2>1 DEF Promise!Next
<1>4. CASE job[j].status = "queued" /\ job'[j].status = "running"
  <2>1. Phase(job'[j].status) = Phase(job[j].status)
    BY <1>4 DEF Phase
  <2>2. QED
    BY <1>1, <2>1 DEF Seen
<1>5. CASE job[j].status = "running" /\ job'[j].status = "failed"
  <2>1. Promise!Refuse(j)
    BY <1>1, <1>5 DEF Promise!Refuse, Promise!Step, Phase, Seen
  <2>2. QED
    BY <2>1 DEF Promise!Next
<1>6. CASE job[j].status = "running" /\ job'[j].status = "ready"
  <2>1. Promise!Offer(j)
    BY <1>1, <1>6 DEF Promise!Offer, Promise!Step, Phase, Seen
  <2>2. QED
    BY <2>1 DEF Promise!Next
<1>7. CASE job[j].status = "ready" /\ job'[j].status = "expired"
  <2>1. Promise!Expire(j)
    BY <1>1, <1>7 DEF Promise!Expire, Promise!Step, Phase, Seen
  <2>2. QED
    BY <2>1 DEF Promise!Next
<1>8. QED
  BY <1>2, <1>3, <1>4, <1>5, <1>6, <1>7

(* No step but the five below writes the table, and no other changes a status. *)
LEMMA NextSeen == Inv /\ [Next]_vars => [Promise!Next]_Seen
<1> SUFFICES ASSUME Inv, [Next]_vars PROVE [Promise!Next]_Seen
  OBVIOUS
<1>1. CASE UNCHANGED job
  BY <1>1 DEF Seen
<1>2. ASSUME NEW r \in Requests, Insert(r), ~UNCHANGED job PROVE [Promise!Next]_Seen
  <2> DEFINE j == Min(In("none"))
  <2>1. j \in Jobs /\ job[j].status = "none"
    BY <1>2, MinIn DEF Insert, In
  <2>2. job' = [job EXCEPT ![j].status = "queued"]
    BY <1>2 DEF Insert
  <2> HIDE DEF j
  <2>3. /\ job' \in [Jobs -> Row] /\ job'[j].status = "queued"
        /\ \A k \in Jobs \ {j} : job'[k] = job[k]
    BY <2>1, <2>2 DEF Inv, Typed, TypeOK, Row, Statuses
  <2>4. QED
    BY <2>1, <2>3, SeenStep
<1>3. ASSUME NEW p \in Passes, Claim(p), ~UNCHANGED job PROVE [Promise!Next]_Seen
  <2> DEFINE j == at[p].job
  <2>1. /\ j \in Jobs /\ job[j].status = "queued"
        /\ job' = [job EXCEPT ![j].status = "running"]
    BY <1>3 DEF Claim, Claimable, Inv, Typed, TypeOK
  <2>2. /\ job' \in [Jobs -> Row] /\ job'[j].status = "running"
        /\ \A k \in Jobs \ {j} : job'[k] = job[k]
    BY <2>1 DEF Inv, Typed, TypeOK, Row, Statuses
  <2>3. QED
    BY <2>1, <2>2, SeenStep
<1>4. ASSUME NEW p \in Passes, at[p].job \in Jobs, NEW reason \in {"interrupted", "other"},
             FailRunning(at[p].job, reason)
      PROVE  [Promise!Next]_Seen
  <2> DEFINE j == at[p].job
             new == [job[j] EXCEPT !.status = "failed", !.reason = reason]
  <2>1. Settles(j, new)
    BY <1>4, FailSettles DEF Inv
  <2>2. new.status = "failed"
    BY <1>4 DEF Inv, Typed, TypeOK, Row
  <2> HIDE DEF new
  <2>3. QED
    BY <1>4, <2>1, <2>2, SeenStep DEF Settles
<1>5. ASSUME NEW p \in Passes, at[p].job \in Jobs, Complete(at[p].job, Upload(p))
      PROVE  [Promise!Next]_Seen
  <2> DEFINE j == at[p].job
             new == [job[j] EXCEPT !.status = "ready", !.upload = Upload(p)]
  <2>1. Settles(j, new)
    BY <1>5, CompleteSettles DEF Inv, Upload, Uploads
  <2>2. new.status = "ready"
    BY <1>5 DEF Inv, Typed, TypeOK, Row
  <2> HIDE DEF new
  <2>3. QED
    BY <1>5, <2>1, <2>2, SeenStep DEF Settles
<1>6. ASSUME NEW j \in Jobs, ExpireRecord(j) PROVE [Promise!Next]_Seen
  <2>1. /\ job[j].status = "ready" /\ job' \in [Jobs -> Row] /\ job'[j].status = "expired"
        /\ \A k \in Jobs \ {j} : job'[k] = job[k]
    BY <1>6 DEF ExpireRecord, Inv, Typed, TypeOK, Row, Statuses
  <2>2. QED
    BY <2>1, SeenStep
<1>7. ASSUME NEW p \in Passes, Recover(p) \/ Record(p) \/ Fail(p) PROVE [Promise!Next]_Seen
  <2>1. at[p].job \in Jobs
    BY <1>7 DEF Recover, Record, Fail, Inv, Typed, TypeOK
  <2>2. QED
    BY <1>1, <1>4, <1>5, <1>7, <2>1 DEF Recover, Record, Fail
<1>8. ASSUME NEW p \in Passes, Tick(p) \/ Produce(p) \/ Put(p) \/ WriteRow(p) \/ Die(p)
      PROVE  UNCHANGED job
  BY <1>8 DEF Tick, Produce, Put, WriteRow, Die, chats
<1>9. ASSUME \/ \E r \in Requests : Count(r)
             \/ \E j \in Jobs : GoStale(j)
             \/ \E u \in Uploads : PurgeObject(u) \/ PurgeRow(u)
             \/ GoPast \/ SlideWindow \/ UNCHANGED vars
      PROVE  UNCHANGED job
  BY <1>9 DEF Count, GoStale, PurgeObject, PurgeRow, GoPast, SlideWindow, chats, vars
<1>10. QED
  BY <1>1, <1>2, <1>3, <1>6, <1>7, <1>8, <1>9 DEF Next, Work

(* Exports implements the safety half of ExportPromise: a request is answered  *)
(* at most once, an answer is never taken back or revived by a late runner,    *)
(* and what was offered only ever expires.                                     *)
THEOREM PromiseTheorem == Spec => Promise!Init /\ [][Promise!Next]_Seen
<1>1. Init => Promise!Init
  BY DEF Init, Promise!Init, Phase, NoRow
<1>2. QED
  BY <1>1, ExportsSafe, NextSeen, PTL DEF Spec
=============================================================================
