--------------------------- MODULE Routing_proofs ---------------------------
(* Proofs about Routing, for every set of conversations, operators, desks and  *)
(* processes, every budget and every number of requests.                       *)
EXTENDS Routing, FiniteSetTheorems, TLAPS

----------------------------------------------------------------------------
(* Type correctness.                                                           *)

ProcsTyped ==
    /\ pc \in [Procs -> Label]
    /\ job \in [Procs -> Job]
    /\ \A p \in Procs : JobFits(pc[p], job[p])

LEMMA NoJobType == NoJob \in Job
  BY RoutingAssumption DEF NoJob, Job, Keys

LEMMA GotoType ==
  ASSUME ProcsTyped, NEW p \in Procs, NEW l \in Label, NEW j \in Job,
         JobFits(l, j), Goto(p, l, j)
  PROVE  ProcsTyped'
<1>1. pc' \in [Procs -> Label] /\ job' \in [Procs -> Job]
  BY DEF ProcsTyped, Goto
<1>2. ASSUME NEW q \in Procs PROVE JobFits(pc'[q], job'[q])
  <2>1. CASE q = p
    <3>1. pc'[q] = l /\ job'[q] = j
      BY <2>1 DEF ProcsTyped, Goto
    <3>2. QED
      BY <3>1
  <2>2. CASE q # p
    <3>1. pc'[q] = pc[q] /\ job'[q] = job[q]
      BY <2>2 DEF ProcsTyped, Goto
    <3>2. QED
      BY <3>1 DEF ProcsTyped
  <2>3. QED
    BY <2>1, <2>2
<1>3. (\A q \in Procs : JobFits(pc[q], job[q]))'
  BY <1>2 DEF JobFits
<1>4. QED
  BY <1>1, <1>3 DEF ProcsTyped

(* Only an idle process needs nothing.                                         *)
LEMMA FinishType ==
  ASSUME ProcsTyped, NEW p \in Procs, Finish(p)
  PROVE  ProcsTyped'
<1>1. [NoJob EXCEPT !.batch = job[p].batch] \in Job
  BY NoJobType DEF ProcsTyped, Job
<1>2. /\ "serve" \in Label /\ "idle" \in Label
      /\ \A j : JobFits("serve", j) /\ JobFits("idle", j)
  BY DEF Label, JobFits
<1>3. QED
  BY <1>1, <1>2, NoJobType, GotoType DEF Finish

LEMMA LostType ==
  ASSUME ProcsTyped, NEW p \in Procs, job[p].conv \in Conversations, Lost(p)
  PROVE  ProcsTyped'
<1>1. "enqueue" \in Label /\ job[p] \in Job /\ JobFits("enqueue", job[p])
  BY DEF Label, ProcsTyped, JobFits
<1>2. QED
  BY <1>1, FinishType, GotoType DEF Lost

LEMMA InitType == Init => TypeOK
<1>1. "idle" \in Label /\ JobFits("idle", NoJob)
  BY DEF Label, JobFits
<1>2. QED
  BY <1>1, NoJobType, RoutingAssumption DEF Init, TypeOK, Row, Keys

(* A step that leaves the rest alone keeps the types if the process it moves   *)
(* keeps its own.                                                              *)
LEMMA ProcessOnly ==
  ASSUME TypeOK, ProcsTyped', UNCHANGED <<row, rotation, pushed, env>>, acts' \in Nat
  PROVE  TypeOK'
  BY DEF TypeOK, ProcsTyped, env

LEMMA TypedProcs == TypeOK => ProcsTyped
  BY DEF TypeOK, ProcsTyped

LEMMA ActType == ASSUME TypeOK, Act PROVE acts' \in Nat
  BY DEF TypeOK, Act

LEMMA RequestType ==
  ASSUME TypeOK, NEW p \in Procs, Request(p)
  PROVE  TypeOK'
<1>1. PICK c \in Conversations :
        \/ \E d \in Keys : AutoAssign(p, c, d)
        \/ \E o \in Operators \cup {NoOne} : AssignRequest(p, c, o)
        \/ \E open \in BOOLEAN : StatusRequest(p, c, open)
  BY DEF Request
<1>2. {"pool", "assign", "status"} \subseteq Label
  BY DEF Label
<1>3. CASE \E d \in Keys : AutoAssign(p, c, d)
  <2>1. PICK d \in Keys : AutoAssign(p, c, d)
    BY <1>3
  <2>2. [NoJob EXCEPT !.conv = c, !.desk = d] \in Job
    BY NoJobType DEF Job
  <2>3. JobFits("pool", [NoJob EXCEPT !.conv = c, !.desk = d])
    BY <2>2 DEF JobFits, Job, NoJob
  <2>4. QED
    BY <1>2, <2>1, <2>2, <2>3, TypedProcs, GotoType, ActType, ProcessOnly DEF AutoAssign
<1>4. CASE \E o \in Operators \cup {NoOne} : AssignRequest(p, c, o)
  <2>1. PICK o \in Operators \cup {NoOne} : AssignRequest(p, c, o)
    BY <1>4
  <2>2. [NoJob EXCEPT !.conv = c, !.pick = o] \in Job
    BY NoJobType DEF Job
  <2>3. JobFits("assign", [NoJob EXCEPT !.conv = c, !.pick = o])
    BY <2>2 DEF JobFits, Job, NoJob
  <2>4. QED
    BY <1>2, <2>1, <2>2, <2>3, TypedProcs, GotoType, ActType, ProcessOnly DEF AssignRequest
<1>5. CASE \E open \in BOOLEAN : StatusRequest(p, c, open)
  <2>1. PICK open \in BOOLEAN : StatusRequest(p, c, open)
    BY <1>5
  <2>2. [NoJob EXCEPT !.conv = c, !.open = open] \in Job
    BY NoJobType DEF Job
  <2>3. JobFits("status", [NoJob EXCEPT !.conv = c, !.open = open])
    BY <2>2 DEF JobFits, Job, NoJob
  <2>4. QED
    BY <1>2, <2>1, <2>2, <2>3, TypedProcs, GotoType, ActType, ProcessOnly DEF StatusRequest
<1>6. QED
  BY <1>1, <1>3, <1>4, <1>5

(* The steps of selectAndAssign.                                               *)
LEMMA SelectType ==
  ASSUME TypeOK, NEW p \in Procs, Select(p)
  PROVE  TypeOK'
<1> DEFINE cursor == rotation[job[p].desk]
           chosen(cand) == [job[p] EXCEPT !.pick = cand.operator, !.cursor = cursor,
                                          !.capacity = cand.capacity, !.cands = {}]
<1>1. job[p] \in Job /\ job[p].conv \in Conversations /\ "lock" \in Label
  BY DEF TypeOK, Label, Select, JobFits
<1>2. CASE Lost(p)
  BY <1>1, <1>2, TypedProcs, LostType, ProcessOnly DEF Select, TypeOK
<1>3. CASE \E cand \in NextInTurn(job[p].cands, cursor) : Goto(p, "lock", chosen(cand))
  <2>1. PICK cand \in NextInTurn(job[p].cands, cursor) : Goto(p, "lock", chosen(cand))
    BY <1>3
  <2>2. cand \in Candidate
    BY <1>1 DEF NextInTurn, Job
  <2>3. cursor \in Operators \cup {NoOne}
    BY <1>1 DEF Job, TypeOK
  <2>4. chosen(cand) \in Job /\ JobFits("lock", chosen(cand))
    BY <1>1, <2>2, <2>3 DEF Job, Candidate, JobFits
  <2>5. ProcsTyped'
    BY <1>1, <2>1, <2>4, TypedProcs, GotoType
  <2>6. QED
    BY <2>5, ProcessOnly DEF Select, TypeOK
<1>4. QED
  BY <1>2, <1>3 DEF Select

LEMMA LockAndRecountType ==
  ASSUME TypeOK, NEW p \in Procs, LockAndRecount(p)
  PROVE  TypeOK'
<1>1. job[p] \in Job /\ job[p].conv \in Conversations /\ "before" \in Label
  BY DEF TypeOK, Label, LockAndRecount, JobFits
<1>2. JobFits("before", job[p])
  BY DEF LockAndRecount, TypeOK, JobFits
<1>3. ProcsTyped'
  BY <1>1, <1>2, TypedProcs, LostType, GotoType DEF LockAndRecount
<1>4. QED
  BY <1>3, ProcessOnly DEF LockAndRecount, TypeOK

LEMMA ReadBeforeType ==
  ASSUME TypeOK, NEW p \in Procs, ReadBefore(p)
  PROVE  TypeOK'
<1> DEFINE read == [job[p] EXCEPT !.before = row[job[p].conv].owner]
<1>1. /\ job[p] \in Job /\ "claim" \in Label
      /\ job[p].conv \in Conversations /\ job[p].pick \in Operators
  BY DEF TypeOK, Label, ReadBefore, JobFits
<1>2. row[job[p].conv].owner \in Operators \cup {NoOne}
  BY <1>1 DEF TypeOK, Row
<1>3. read \in Job /\ JobFits("claim", read)
  BY <1>1, <1>2 DEF Job, JobFits
<1>4. ProcsTyped'
  BY <1>1, <1>3, TypedProcs, GotoType DEF ReadBefore
<1>5. QED
  BY <1>4, ProcessOnly DEF ReadBefore, TypeOK

LEMMA ClaimCommitsType ==
  ASSUME TypeOK, NEW p \in Procs, ClaimCommits(p)
  PROVE  TypeOK'
<1>1. /\ job[p] \in Job /\ "dequeue" \in Label
      /\ job[p].conv \in Conversations /\ job[p].pick \in Operators
      /\ job[p].desk \in Keys
  BY DEF TypeOK, Label, ClaimCommits, JobFits, Job
<1>2. row' \in [Conversations -> Row]
  BY <1>1 DEF ClaimCommits, TypeOK, Row
<1>3. /\ rotation' \in [Keys -> Operators \cup {NoOne}]
      /\ pushed' \in [Conversations -> Keys \cup {Unpushed}]
  BY <1>1 DEF ClaimCommits, TypeOK
<1>4. JobFits("dequeue", job[p])
  BY <1>1 DEF JobFits
<1>5. ProcsTyped'
  BY <1>1, <1>4, TypedProcs, GotoType DEF ClaimCommits
<1>6. QED
  BY <1>2, <1>3, <1>5 DEF ClaimCommits, TypeOK, ProcsTyped, env

LEMMA ClaimFailsType ==
  ASSUME TypeOK, NEW p \in Procs, ClaimFails(p)
  PROVE  TypeOK'
<1>1. job[p].conv \in Conversations
  BY DEF TypeOK, ClaimFails, JobFits
<1>2. ProcsTyped'
  BY <1>1, TypedProcs, LostType, FinishType DEF ClaimFails
<1>3. QED
  BY <1>2, ProcessOnly DEF ClaimFails, TypeOK

LEMMA DequeueType ==
  ASSUME TypeOK, NEW p \in Procs, Dequeue(p)
  PROVE  TypeOK'
<1>1. row' \in [Conversations -> Row]
  BY DEF Dequeue, TypeOK, Row
<1>2. ProcsTyped'
  BY TypedProcs, FinishType DEF Dequeue
<1>3. QED
  BY <1>1, <1>2 DEF Dequeue, TypeOK, ProcsTyped, env

LEMMA SelectAndAssignType ==
  ASSUME TypeOK, NEW p \in Procs, SelectAndAssign(p)
  PROVE  TypeOK'
  BY SelectType, LockAndRecountType, ReadBeforeType, ClaimCommitsType, ClaimFailsType,
     DequeueType DEF SelectAndAssign

LEMMA QueuedRowType ==
  ASSUME NEW table \in [Conversations -> Row], NEW c \in Conversations,
         NEW t \in Nat, NEW d \in Keys
  PROVE  [table EXCEPT ![c].at = t, ![c].desk = d] \in [Conversations -> Row]
  BY DEF Row

LEMMA EnqueuedType ==
  ASSUME TypeOK, NEW c \in Conversations, NEW d \in Keys, Enqueued(c, d)
  PROVE  row' \in [Conversations -> Row]
<1>1. CASE MayJoinQueue(c)
  <2> DEFINE desk == IF d = NoDesk THEN row[c].desk ELSE d
  <2>1. row' = [row EXCEPT ![c].at = now, ![c].desk = desk]
    BY <1>1 DEF Enqueued
  <2>2. desk \in Keys /\ now \in Nat /\ row \in [Conversations -> Row]
    BY DEF TypeOK, Row
  <2> HIDE DEF desk
  <2>3. QED
    BY <2>1, <2>2, QueuedRowType
<1>2. CASE ~MayJoinQueue(c)
  BY <1>2 DEF Enqueued, TypeOK
<1>3. QED
  BY <1>1, <1>2

LEMMA PoolType ==
  ASSUME TypeOK, NEW d \in Desks, NEW c \in Conversations
  PROVE  PoolOf(d, c) \subseteq Candidate
<1>1. Budget[c] \in 0..MaxBudget /\ Budget[c] \in Nat
  BY RoutingAssumption
<1>2. ASSUME NEW o \in Operators
      PROVE  ReportedLoad(CountedWorkOf(o), Exclusive, Budget[c]) \in Nat
  <2>1. IsFiniteSet(CountedWorkOf(o))
    BY RoutingAssumption, FS_Subset DEF CountedWorkOf, OpenWorkOf
  <2>2. QED
    BY <1>1, <2>1, FS_CardinalityType DEF ReportedLoad
<1>3. MembersOf[d] \subseteq Operators
  BY RoutingAssumption
<1>4. QED
  BY <1>1, <1>2, <1>3 DEF PoolOf, Candidate

(* The steps only handlers take.                                               *)
LEMMA AutoAssignPoolType ==
  ASSUME TypeOK, NEW p \in Procs, AutoAssignPool(p)
  PROVE  TypeOK'
<1> DEFINE d == job[p].desk
           c == job[p].conv
           with(cands) == [job[p] EXCEPT !.cands = cands]
<1>1. job[p] \in Job /\ c \in Conversations /\ d \in Keys /\ {"enqueue", "select"} \subseteq Label
  BY DEF TypeOK, Label, AutoAssignPool, JobFits, Job
<1>2. JobFits("enqueue", job[p])
  BY <1>1 DEF JobFits
<1>3. ASSUME NEW cands \in SUBSET Candidate
      PROVE  with(cands) \in Job /\ JobFits("select", with(cands))
  BY <1>1 DEF JobFits, Job
<1>4. CASE d \in Desks
  <2>1. PoolOf(d, c) \subseteq Candidate
    BY <1>1, <1>4, PoolType
  <2>2. \/ Finish(p)
        \/ Goto(p, "enqueue", job[p])
        \/ Goto(p, "select", with(PoolOf(d, c)))
    BY <1>4 DEF AutoAssignPool
  <2>3. ProcsTyped'
    BY <1>1, <1>2, <1>3, <2>1, <2>2, TypedProcs, FinishType, GotoType
  <2>4. QED
    BY <2>3, ProcessOnly DEF AutoAssignPool, TypeOK
<1>5. CASE d \notin Desks
  <2>1. PICK offer \in Offers : Finish(p) \/ Goto(p, "select", with(offer))
    BY <1>5 DEF AutoAssignPool
  <2>2. offer \in SUBSET Candidate
    BY RoutingAssumption DEF Candidate
  <2>3. ProcsTyped'
    BY <1>1, <1>3, <2>1, <2>2, TypedProcs, FinishType, GotoType
  <2>4. QED
    BY <2>3, ProcessOnly DEF AutoAssignPool, TypeOK
<1>6. QED
  BY <1>4, <1>5

LEMMA HandlerType ==
  ASSUME TypeOK, NEW p \in Procs, Handler(p)
  PROVE  TypeOK'
<1>1. CASE Enqueue(p)
  <2>1. job[p].conv \in Conversations /\ job[p].desk \in Keys
    BY <1>1 DEF TypeOK, Enqueue, JobFits, Job
  <2>2. row' \in [Conversations -> Row]
    BY <1>1, <2>1, EnqueuedType DEF Enqueue
  <2>3. ProcsTyped'
    BY <1>1, TypedProcs, FinishType DEF Enqueue
  <2>4. QED
    BY <1>1, <2>2, <2>3 DEF Enqueue, TypeOK, ProcsTyped, env
<1>2. CASE SetAssignee(p)
  <2>1. job[p].pick \in Operators \cup {NoOne}
    BY DEF TypeOK, Job
  <2>2. row' \in [Conversations -> Row] /\ pushed' \in [Conversations -> Keys \cup {Unpushed}]
    BY <1>2, <2>1 DEF SetAssignee, TypeOK, Row
  <2>3. ProcsTyped'
    BY <1>2, TypedProcs, FinishType DEF SetAssignee
  <2>4. QED
    BY <1>2, <2>2, <2>3 DEF SetAssignee, TypeOK, ProcsTyped, env
<1>3. CASE SetStatus(p)
  <2>1. job[p].open \in BOOLEAN
    BY DEF TypeOK, Job
  <2>2. row' \in [Conversations -> Row] /\ pushed' \in [Conversations -> Keys \cup {Unpushed}]
    BY <1>3, <2>1 DEF SetStatus, TypeOK, Row
  <2>3. ProcsTyped'
    BY <1>3, TypedProcs, FinishType DEF SetStatus
  <2>4. QED
    BY <1>3, <2>2, <2>3 DEF SetStatus, TypeOK, ProcsTyped, env
<1>4. QED
  BY <1>1, <1>2, <1>3, AutoAssignPoolType, SelectAndAssignType DEF Handler

(* The steps only drains take.                                                 *)
LEMMA ItemType == ASSUME TypeOK, NEW c \in Conversations PROVE ItemOf(c) \in Item
  BY DEF TypeOK, Row, ItemOf, Item

LEMMA ServeType ==
  ASSUME TypeOK, NEW p \in Procs, Serve(p)
  PROVE  TypeOK'
<1>1. PICK item \in FirstOf(job[p].batch) :
        LET j == [NoJob EXCEPT !.conv = item.conv, !.desk = item.desk,
                               !.batch = job[p].batch \ {item}]
        IN  IF item.desk = NoDesk \/ item.desk \notin routable THEN Goto(p, "mark", j)
            ELSE LET pool == [j EXCEPT !.cands = PoolOf(item.desk, item.conv)] IN
                 IF item.unroutable THEN Goto(p, "clear", pool)
                 ELSE Goto(p, "fit", pool)
  BY DEF Serve
<1> DEFINE j    == [NoJob EXCEPT !.conv = item.conv, !.desk = item.desk,
                                 !.batch = job[p].batch \ {item}]
           pool == [j EXCEPT !.cands = PoolOf(item.desk, item.conv)]
<1>2. item \in Item /\ job[p].batch \in SUBSET Item
  BY DEF FirstOf, TypeOK, Job
<1>3. j \in Job /\ j.conv \in Conversations
  BY <1>2, NoJobType DEF Job, Item
<1>4. {"mark", "clear", "fit"} \subseteq Label /\ JobFits("mark", j)
  BY <1>3 DEF Label, JobFits
<1>5. CASE item.desk = NoDesk \/ item.desk \notin routable
  <2>1. Goto(p, "mark", j)
    BY <1>1, <1>5
  <2>2. ProcsTyped'
    BY <1>3, <1>4, <2>1, TypedProcs, GotoType
  <2>3. QED
    BY <2>2, ProcessOnly DEF Serve, TypeOK
<1>6. CASE ~(item.desk = NoDesk \/ item.desk \notin routable)
  <2>1. item.desk \in Desks /\ item.conv \in Conversations
    BY <1>2, <1>6 DEF TypeOK, Item
  <2>2. PoolOf(item.desk, item.conv) \subseteq Candidate
    BY <2>1, PoolType
  <2>3. /\ pool \in Job
        /\ JobFits("clear", pool) /\ JobFits("fit", pool)
    BY <1>3, <2>2 DEF Job, JobFits
  <2>4. Goto(p, "clear", pool) \/ Goto(p, "fit", pool)
    BY <1>1, <1>6
  <2>5. ProcsTyped'
    BY <1>4, <2>3, <2>4, TypedProcs, GotoType
  <2>6. QED
    BY <2>5, ProcessOnly DEF Serve, TypeOK
<1>7. QED
  BY <1>5, <1>6

LEMMA DrainType ==
  ASSUME TypeOK, NEW p \in Procs, Drain(p)
  PROVE  TypeOK'
<1>0. job[p] \in Job /\ {"serve", "fit", "select"} \subseteq Label
  BY DEF TypeOK, Label
<1>1. CASE Sweep(p)
  <2>1. Oldest \subseteq Item
    BY ItemType DEF Oldest, Waiting
  <2>2. /\ [NoJob EXCEPT !.batch = Oldest] \in Job
        /\ JobFits("serve", [NoJob EXCEPT !.batch = Oldest])
    BY <2>1, NoJobType DEF Job, JobFits
  <2>3. ProcsTyped'
    BY <1>0, <1>1, <2>2, TypedProcs, GotoType DEF Sweep
  <2>4. QED
    BY <1>1, <2>3, ProcessOnly DEF Sweep, TypeOK
<1>2. CASE Mark(p)
  <2>1. row' \in [Conversations -> Row]
    BY <1>2 DEF Mark, TypeOK, Row
  <2>2. ProcsTyped'
    BY <1>2, TypedProcs, FinishType DEF Mark
  <2>3. QED
    BY <1>2, <2>1, <2>2 DEF Mark, TypeOK, ProcsTyped, env
<1>3. CASE Clear(p)
  <2>1. row' \in [Conversations -> Row]
    BY <1>3 DEF Clear, TypeOK, Row
  <2>2. JobFits("fit", job[p])
    BY <1>3 DEF Clear, TypeOK, JobFits
  <2>3. ProcsTyped'
    BY <1>0, <1>3, <2>2, TypedProcs, GotoType DEF Clear
  <2>4. QED
    BY <1>3, <2>1, <2>3 DEF Clear, TypeOK, ProcsTyped, env
<1>4. CASE Fit(p)
  <2>1. JobFits("select", job[p])
    BY <1>4 DEF Fit, TypeOK, JobFits
  <2>2. ProcsTyped'
    BY <1>0, <1>4, <2>1, TypedProcs, GotoType, FinishType DEF Fit
  <2>3. QED
    BY <1>4, <2>2, ProcessOnly DEF Fit, TypeOK
<1>5. QED
  BY <1>1, <1>2, <1>3, <1>4, ServeType, SelectAndAssignType DEF Drain

(* The steps only handovers take.                                              *)
LEMMA ReadOpenWorkType ==
  ASSUME TypeOK, NEW p \in Procs, NEW o \in Operators, ReadOpenWork(p, o)
  PROVE  TypeOK'
<1> DEFINE j(leads) == [NoJob EXCEPT !.pick = o, !.leads = Successors(leads, o), !.at = now,
                                     !.batch = {ItemOf(c) : c \in WorkToReturn(o)}]
<1>1. PICK leads \in DeskLeads : Goto(p, "return", j(leads))
  BY DEF ReadOpenWork
<1>2. leads \in [Desks -> Operators \cup {NoOne}]
  BY RoutingAssumption
<1>3. Successors(leads, o) \in [Desks -> Operators \cup {NoOne}]
  BY <1>2 DEF Successors
<1>4. {ItemOf(c) : c \in WorkToReturn(o)} \subseteq Item
  BY ItemType DEF WorkToReturn, CountedWorkOf, OpenWorkOf
<1>5. j(leads) \in Job /\ JobFits("return", j(leads)) /\ "return" \in Label
  BY <1>3, <1>4, NoJobType DEF Job, JobFits, Label, TypeOK
<1>6. ProcsTyped'
  BY <1>1, <1>5, TypedProcs, GotoType
<1>7. QED
  BY <1>6, ProcessOnly DEF ReadOpenWork, TypeOK

LEMMA ReadReturnedType ==
  ASSUME TypeOK, NEW p \in Procs, ReadReturned(p)
  PROVE  TypeOK'
<1>1. PICK item \in FirstOf(job[p].batch) :
        LET c    == item.conv
            d    == DestinationDesk(item)
            rest == [job[p] EXCEPT !.batch = @ \ {item}]
        IN  IF d \in Desks /\ row[c].owner = job[p].pick
            THEN Goto(p, "giveback", [rest EXCEPT !.conv = c, !.desk = d, !.stamp = row[c].at])
            ELSE IF rest.batch = {} THEN Goto(p, "idle", NoJob)
            ELSE Goto(p, "return", rest)
  BY DEF ReadReturned
<1> DEFINE c    == item.conv
           d    == DestinationDesk(item)
           rest == [job[p] EXCEPT !.batch = @ \ {item}]
           give == [rest EXCEPT !.conv = c, !.desk = d, !.stamp = row[c].at]
<1>2. /\ item \in Item /\ job[p] \in Job /\ job[p].pick \in Operators
      /\ {"giveback", "idle", "return"} \subseteq Label
  BY DEF FirstOf, TypeOK, Job, JobFits, ReadReturned, Label
<1>3. c \in Conversations /\ row[c].at \in Nat
  BY <1>2 DEF Item, TypeOK, Row
<1>4. rest \in Job /\ JobFits("return", rest) /\ JobFits("idle", NoJob)
  BY <1>2 DEF Job, JobFits
<1>5. CASE d \in Desks /\ row[c].owner = job[p].pick
  <2>1. Goto(p, "giveback", give)
    BY <1>1, <1>5
  <2>2. give \in Job /\ JobFits("giveback", give)
    BY <1>2, <1>3, <1>4, <1>5 DEF Job, JobFits, Keys
  <2>3. ProcsTyped'
    BY <1>2, <2>1, <2>2, TypedProcs, GotoType
  <2>4. QED
    BY <2>3, ProcessOnly DEF ReadReturned, TypeOK
<1>6. CASE ~(d \in Desks /\ row[c].owner = job[p].pick)
  <2>1. Goto(p, "idle", NoJob) \/ Goto(p, "return", rest)
    BY <1>1, <1>6
  <2>2. ProcsTyped'
    BY <1>2, <1>4, <2>1, NoJobType, TypedProcs, GotoType
  <2>3. QED
    BY <2>2, ProcessOnly DEF ReadReturned, TypeOK
<1>7. QED
  BY <1>5, <1>6

LEMMA ReturnToBacklogType ==
  ASSUME TypeOK, NEW p \in Procs, ReturnToBacklog(p)
  PROVE  TypeOK'
<1> DEFINE c    == job[p].conv
           to   == job[p].leads[job[p].desk]
           rest == [job[p] EXCEPT !.conv = NoOne, !.desk = NoDesk, !.stamp = 0]
<1>1. /\ job[p] \in Job /\ job[p].pick \in Operators /\ c \in Conversations
      /\ job[p].desk \in Desks /\ {"idle", "return"} \subseteq Label
  BY DEF TypeOK, JobFits, ReturnToBacklog, Label
<1>2. to \in Operators \cup {NoOne} /\ job[p].stamp \in Nat /\ job[p].at \in Nat
  BY <1>1 DEF Job
<1>3. row' \in [Conversations -> Row] /\ pushed' \in [Conversations -> Keys \cup {Unpushed}]
  <2>1. CASE row[c].owner = job[p].pick
    <3>1. row' = [row EXCEPT
                    ![c].owner = to,
                    ![c].at = IF to # NoOne THEN 0
                              ELSE IF job[p].stamp # 0 THEN job[p].stamp ELSE job[p].at,
                    ![c].desk = job[p].desk,
                    ![c].unroutable = FALSE]
      BY <2>1 DEF ReturnToBacklog
    <3>2. pushed' = [pushed EXCEPT ![c] = Unpushed]
      BY <2>1 DEF ReturnToBacklog
    <3>3. QED
      BY <1>1, <1>2, <3>1, <3>2 DEF TypeOK, Row, Keys
  <2>2. CASE row[c].owner # job[p].pick
    BY <2>2 DEF ReturnToBacklog, TypeOK
  <2>3. QED
    BY <2>1, <2>2
<1>4. /\ rest \in Job /\ JobFits("return", rest) /\ JobFits("idle", NoJob)
  BY <1>1 DEF Job, JobFits, Keys
<1>5. ProcsTyped'
  BY <1>1, <1>4, NoJobType, TypedProcs, GotoType DEF ReturnToBacklog
<1>6. QED
  BY <1>3, <1>5 DEF ReturnToBacklog, TypeOK, ProcsTyped, env

LEMMA EnvironmentType ==
  ASSUME TypeOK, Environment
  PROVE  TypeOK'
<1>1. CASE \E p \in Procs : Fail(p)
  <2>1. PICK p \in Procs : Fail(p)
    BY <1>1
  <2>2. "idle" \in Label /\ JobFits("idle", NoJob)
    BY DEF Label, JobFits
  <2>3. ProcsTyped'
    BY <2>1, <2>2, NoJobType, TypedProcs, FinishType, GotoType DEF Fail
  <2>4. QED
    BY <2>1, <2>3, ActType, ProcessOnly DEF Fail
<1>2. CASE \E c \in Conversations, b \in BOOLEAN : SetShelf(c, b)
  <2>1. PICK c \in Conversations, b \in BOOLEAN : SetShelf(c, b)
    BY <1>2
  <2>2. row' \in [Conversations -> Row]
    BY <2>1 DEF SetShelf, TypeOK, Row
  <2>3. QED
    BY <2>1, <2>2 DEF SetShelf, Act, TypeOK, env
<1>3. CASE \E c \in Conversations : IntakeEnqueue(c)
  <2>1. PICK c \in Conversations : IntakeEnqueue(c)
    BY <1>3
  <2>2. row' \in [Conversations -> Row]
    <3>1. CASE ChannelDesk[c] \in Desks /\ Enqueued(c, ChannelDesk[c])
      BY <3>1, EnqueuedType DEF Keys
    <3>2. CASE row' = row
      BY <3>2 DEF TypeOK
    <3>3. QED
      BY <2>1, <3>1, <3>2 DEF IntakeEnqueue
  <2>3. acts' \in Nat
    BY <2>1 DEF IntakeEnqueue, Act, TypeOK
  <2>4. QED
    BY <2>1, <2>2, <2>3 DEF IntakeEnqueue, TypeOK
<1>4. CASE \E o \in Operators, s \in {"here", "away", "gone"} : Presence(o, s)
  BY <1>4 DEF Presence, Act, TypeOK
<1>5. CASE \E d \in Desks : SwitchDesk(d)
  BY <1>5 DEF SwitchDesk, Act, TypeOK
<1>6. CASE Tick
  BY <1>6 DEF Tick, TypeOK
<1>7. QED
  BY <1>1, <1>2, <1>3, <1>4, <1>5, <1>6 DEF Environment

LEMMA NextType == TypeOK /\ [Next]_vars => TypeOK'
<1> SUFFICES ASSUME TypeOK, [Next]_vars PROVE TypeOK'
  OBVIOUS
<1>1. CASE Next
  <2>1. \A p \in Handlers \cup Drains \cup Handovers : p \in Procs
    BY DEF Procs
  <2>2. CASE \E p \in Handlers : Request(p) \/ Handler(p)
    BY <2>1, <2>2, RequestType, HandlerType
  <2>3. CASE \E p \in Drains : Drain(p)
    BY <2>1, <2>3, DrainType
  <2>4. CASE \E p \in Handovers : Handover(p)
    BY <2>1, <2>4, ReadOpenWorkType, ReadReturnedType, ReturnToBacklogType DEF Handover
  <2>5. QED
    BY <1>1, <2>2, <2>3, <2>4, EnvironmentType DEF Next
<1>2. CASE UNCHANGED vars
  BY <1>2 DEF vars, TypeOK
<1>3. QED
  BY <1>1, <1>2

(* Every reachable state is well typed: in particular a process that works on  *)
(* a conversation names one, and one that holds an operator's lock names the   *)
(* operator.                                                                   *)
THEOREM TypeCorrect == Spec => []TypeOK
  BY InitType, NextType, PTL DEF Spec
----------------------------------------------------------------------------
(* The budget.  RouterInv is inductive; these are the two ways a step can      *)
(* touch it.                                                                   *)

LEMMA PushedIsHeld ==
  ASSUME TypeOK, PushedInv, NEW o \in Operators
  PROVE  /\ PushedTo(o) \subseteq OpenWorkOf(o)
         /\ IsFiniteSet(OpenWorkOf(o)) /\ IsFiniteSet(PushedTo(o))
         /\ Cardinality(PushedTo(o)) \in Nat
         /\ Cardinality(OpenWorkOf(o)) \in Nat
         /\ Cardinality(PushedTo(o)) <= Cardinality(OpenWorkOf(o))
<1>1. PushedTo(o) \subseteq OpenWorkOf(o)
  BY DEF PushedInv, PushedTo, OpenWorkOf
<1>2. IsFiniteSet(OpenWorkOf(o))
  BY RoutingAssumption, FS_Subset DEF OpenWorkOf
<1>3. QED
  BY <1>1, <1>2, FS_Subset, FS_CardinalityType

(* An assignment a rotation made either stands as it was or is forgotten.      *)
Stands == \A c \in Conversations :
    pushed'[c] # Unpushed => /\ pushed'[c] = pushed[c]
                             /\ row'[c].owner = row[c].owner
                             /\ row'[c].desk = row[c].desk
                             /\ row'[c].open = row[c].open

(* No process enters the stretch between recount and claim.                    *)
NobodyLocks == \A p \in Procs : Locked(p)' => Locked(p) /\ job'[p].pick = job[p].pick

LEMMA PickedTyped ==
  ASSUME TypeOK, NEW p \in Procs, Locked(p)
  PROVE  job[p].pick \in Operators
  BY DEF TypeOK, JobFits, Locked

LEMMA QuietStep ==
  ASSUME TypeOK, RouterInv, Stands, NobodyLocks
  PROVE  RouterInv'
<1>1. LockInv'
  BY DEF RouterInv, LockInv, NobodyLocks, Locked
<1>2. PushedInv'
  BY DEF RouterInv, PushedInv, Stands
<1>3. DeskTookIt'
  BY RoutingAssumption DEF RouterInv, DeskTookIt, Stands, Keys
<1>4. ASSUME NEW o \in Operators
      PROVE  /\ PushedTo(o)' \subseteq PushedTo(o)
             /\ Cardinality(PushedTo(o)') \in Nat
             /\ Cardinality(PushedTo(o)') <= Cardinality(PushedTo(o))
  <2>1. PushedTo(o)' \subseteq PushedTo(o)
    BY DEF PushedTo, Stands
  <2>2. IsFiniteSet(PushedTo(o))
    BY PushedIsHeld DEF RouterInv
  <2>3. QED
    BY <2>1, <2>2, FS_Subset, FS_CardinalityType
<1>5. BudgetHeld'
  <2>1. ASSUME NEW o \in Operators PROVE Cardinality(PushedTo(o)') <= MaxBudget
    <3>1. Cardinality(PushedTo(o)) <= MaxBudget /\ Cardinality(PushedTo(o)) \in Nat
      BY PushedIsHeld DEF RouterInv, BudgetHeld
    <3>2. QED
      BY <1>4, <3>1, RoutingAssumption
  <2>2. QED
    BY <2>1 DEF BudgetHeld, PushedTo
<1>6. RoomInv'
  <2>1. ASSUME NEW p \in Procs, Locked(p)'
        PROVE  (Cardinality(PushedTo(job[p].pick)) < MaxBudget)'
    <3>1. Locked(p) /\ job'[p].pick = job[p].pick
      BY <2>1 DEF NobodyLocks
    <3>2. PICK o \in Operators : o = job[p].pick
      BY <3>1, PickedTyped
    <3>3. Cardinality(PushedTo(o)) < MaxBudget /\ Cardinality(PushedTo(o)) \in Nat
      BY <3>1, <3>2, PushedIsHeld DEF RouterInv, RoomInv
    <3>4. Cardinality(PushedTo(o)') < MaxBudget
      BY <1>4, <3>3, RoutingAssumption
    <3>5. (PushedTo(job[p].pick))' = PushedTo(o)'
      BY <3>1, <3>2 DEF PushedTo
    <3>6. QED
      BY <3>4, <3>5
  <2>2. QED
    BY <2>1 DEF RoomInv, Locked, PushedTo
<1>7. QED
  BY <1>1, <1>2, <1>3, <1>5, <1>6 DEF RouterInv

(* Where a process may go without locking anybody.                             *)
LEMMA GotoQuiet ==
  ASSUME TypeOK, NEW p \in Procs, NEW l, NEW j, Goto(p, l, j),
         l \in {"before", "claim"} => Locked(p) /\ j.pick = job[p].pick
  PROVE  NobodyLocks
<1>1. ASSUME NEW q \in Procs, Locked(q)' PROVE Locked(q) /\ job'[q].pick = job[q].pick
  <2>1. CASE q = p
    <3>1. pc'[q] = l /\ job'[q] = j
      BY <2>1 DEF Goto, TypeOK
    <3>2. QED
      BY <1>1, <2>1, <3>1 DEF Locked
  <2>2. CASE q # p
    <3>1. pc'[q] = pc[q] /\ job'[q] = job[q]
      BY <2>2 DEF Goto, TypeOK
    <3>2. QED
      BY <1>1, <3>1 DEF Locked
  <2>3. QED
    BY <2>1, <2>2
<1>2. QED
  BY <1>1 DEF NobodyLocks, Locked

LEMMA FinishQuiet ==
  ASSUME TypeOK, NEW p \in Procs, Finish(p)
  PROVE  NobodyLocks
  BY GotoQuiet DEF Finish

LEMMA LostQuiet ==
  ASSUME TypeOK, NEW p \in Procs, Lost(p)
  PROVE  NobodyLocks
  BY GotoQuiet, FinishQuiet DEF Lost

LEMMA SameRowsStand == UNCHANGED <<row, pushed>> => Stands
  BY DEF Stands

(* The recount, under the lock nobody else holds.                              *)
LEMMA LockAndRecountInv ==
  ASSUME TypeOK, RouterInv, NEW p \in Procs, LockAndRecount(p)
  PROVE  RouterInv'
<1> DEFINE o == job[p].pick
<1>0. row' = row /\ pushed' = pushed
  BY DEF LockAndRecount
<1>1. CASE Lost(p)
  BY <1>0, <1>1, LostQuiet, SameRowsStand, QuietStep
<1>2. CASE ~IsFull(OpenWorkOf(o), Exclusive, job[p].capacity) /\ Goto(p, "before", job[p])
  <2>1. o \in Operators /\ job[p] \in Job /\ job[p].capacity \in 0..MaxBudget
    BY DEF LockAndRecount, TypeOK, JobFits, Job
  <2>2. Cardinality(PushedTo(o)) < MaxBudget
    <3>1. ~(Cardinality(OpenWorkOf(o)) >= job[p].capacity)
      BY <1>2 DEF IsFull
    <3>2. /\ Cardinality(OpenWorkOf(o)) \in Nat /\ Cardinality(PushedTo(o)) \in Nat
          /\ Cardinality(PushedTo(o)) <= Cardinality(OpenWorkOf(o))
      BY <2>1, PushedIsHeld DEF RouterInv
    <3>3. QED
      BY <2>1, <3>1, <3>2, RoutingAssumption
  <2>3. job' = job /\ \A q \in Procs : pc'[q] = IF q = p THEN "before" ELSE pc[q]
    BY <1>2 DEF Goto, TypeOK
  <2>4. \A q \in Procs \ {p} : Locked(q) => job[q].pick # o
    BY DEF LockAndRecount, HoldsLock, Locked
  <2>5. LockInv'
    BY <2>3, <2>4 DEF LockInv, RouterInv, Locked
  <2>6. RoomInv'
    BY <1>0, <2>2, <2>3 DEF RoomInv, RouterInv, Locked, PushedTo
  <2>7. PushedInv' /\ DeskTookIt' /\ BudgetHeld'
    BY <1>0 DEF RouterInv, PushedInv, DeskTookIt, BudgetHeld, PushedTo
  <2>8. QED
    BY <2>5, <2>6, <2>7 DEF RouterInv
<1>3. QED
  BY <1>1, <1>2 DEF LockAndRecount

(* The claim: the one step that puts work on somebody.                         *)
LEMMA ClaimCommitsInv ==
  ASSUME TypeOK, RouterInv, NEW p \in Procs, ClaimCommits(p)
  PROVE  RouterInv'
<1> DEFINE o == job[p].pick
           c == job[p].conv
<1>1. /\ o \in Operators /\ c \in Conversations /\ job[p].desk \in Keys /\ Locked(p)
  BY DEF ClaimCommits, TypeOK, JobFits, Job, Locked
<1>2. /\ \A x \in Conversations \ {c} : row'[x] = row[x] /\ pushed'[x] = pushed[x]
      /\ row'[c].owner = o /\ row'[c].open = row[c].open
      /\ job[p].desk # NoDesk => row'[c].desk = job[p].desk
      /\ pushed'[c] = IF row[c].open THEN job[p].desk ELSE Unpushed
  BY <1>1 DEF ClaimCommits, TypeOK, Row
<1>3. job' = job /\ \A q \in Procs : pc'[q] = IF q = p THEN "dequeue" ELSE pc[q]
  BY DEF ClaimCommits, Goto, TypeOK
<1>4. LockInv'
  BY <1>3 DEF LockInv, RouterInv, Locked
<1>5. PushedInv'
  BY <1>1, <1>2 DEF PushedInv, RouterInv
<1>6. DeskTookIt'
  BY <1>1, <1>2, RoutingAssumption DEF DeskTookIt, RouterInv, Keys
<1>7. ASSUME NEW x \in Operators, x # o
      PROVE  /\ Cardinality(PushedTo(x)') \in Nat
             /\ Cardinality(PushedTo(x)') <= Cardinality(PushedTo(x))
             /\ Cardinality(PushedTo(x)) \in Nat
  <2>1. PushedTo(x)' \subseteq PushedTo(x)
    BY <1>1, <1>2, <1>7 DEF PushedTo
  <2>2. IsFiniteSet(PushedTo(x))
    BY PushedIsHeld DEF RouterInv
  <2>3. QED
    BY <2>1, <2>2, FS_Subset, FS_CardinalityType
<1>8. Cardinality(PushedTo(o)') <= MaxBudget
  <2>1. PushedTo(o)' \subseteq PushedTo(o) \cup {c}
    BY <1>1, <1>2, <1>3 DEF PushedTo
  <2>2. IsFiniteSet(PushedTo(o)) /\ Cardinality(PushedTo(o)) \in Nat
    BY <1>1, PushedIsHeld DEF RouterInv
  <2>3. /\ IsFiniteSet(PushedTo(o) \cup {c})
        /\ Cardinality(PushedTo(o) \cup {c}) \in Nat
        /\ Cardinality(PushedTo(o) \cup {c}) <= Cardinality(PushedTo(o)) + 1
    BY <2>2, FS_AddElement, FS_CardinalityType
  <2>4. /\ Cardinality(PushedTo(o)') \in Nat
        /\ Cardinality(PushedTo(o)') <= Cardinality(PushedTo(o) \cup {c})
    BY <2>1, <2>3, FS_Subset, FS_CardinalityType
  <2>5. Cardinality(PushedTo(o)) < MaxBudget
    BY <1>1 DEF RouterInv, RoomInv
  <2>6. QED
    BY <2>2, <2>3, <2>4, <2>5, RoutingAssumption
<1>9. BudgetHeld'
  <2>1. ASSUME NEW x \in Operators PROVE Cardinality(PushedTo(x)') <= MaxBudget
    <3>1. CASE x = o
      BY <1>3, <1>8, <3>1 DEF PushedTo
    <3>2. CASE x # o
      <4>1. Cardinality(PushedTo(x)) <= MaxBudget
        BY DEF RouterInv, BudgetHeld
      <4>2. QED
        BY <1>7, <3>2, <4>1, RoutingAssumption
    <3>3. QED
      BY <3>1, <3>2
  <2>2. QED
    BY <2>1 DEF BudgetHeld, PushedTo
<1>10. RoomInv'
  <2>1. ASSUME NEW q \in Procs, Locked(q)'
        PROVE  (Cardinality(PushedTo(job[q].pick)) < MaxBudget)'
    <3>1. Locked(q) /\ q # p /\ job'[q].pick = job[q].pick
      BY <1>3, <2>1 DEF Locked
    <3>2. PICK x \in Operators : x = job[q].pick
      BY <3>1, PickedTyped
    <3>3. x # o
      BY <1>1, <3>1, <3>2 DEF RouterInv, LockInv
    <3>4. Cardinality(PushedTo(x)) < MaxBudget
      BY <3>1, <3>2 DEF RouterInv, RoomInv
    <3>5. Cardinality(PushedTo(x)') < MaxBudget
      BY <1>7, <3>3, <3>4, RoutingAssumption
    <3>6. (PushedTo(job[q].pick))' = PushedTo(x)'
      BY <3>1, <3>2 DEF PushedTo
    <3>7. QED
      BY <3>5, <3>6
  <2>2. QED
    BY <2>1 DEF RoomInv, Locked, PushedTo
<1>11. QED
  BY <1>4, <1>5, <1>6, <1>9, <1>10 DEF RouterInv

(* Every other step of selectAndAssign and of a handler.                       *)
LEMMA SelectAndAssignInv ==
  ASSUME TypeOK, RouterInv, NEW p \in Procs, SelectAndAssign(p)
  PROVE  RouterInv'
<1>1. CASE Select(p)
  <2>1. NobodyLocks
    BY <1>1, LostQuiet, GotoQuiet DEF Select
  <2>2. QED
    BY <1>1, <2>1, SameRowsStand, QuietStep DEF Select
<1>2. CASE ReadBefore(p)
  <2>1. job[p] \in Job /\ Locked(p)
    BY <1>2 DEF ReadBefore, TypeOK, Locked
  <2>2. [job[p] EXCEPT !.before = row[job[p].conv].owner].pick = job[p].pick
    BY <2>1 DEF Job
  <2>3. NobodyLocks
    BY <1>2, <2>1, <2>2, GotoQuiet DEF ReadBefore
  <2>4. QED
    BY <1>2, <2>3, SameRowsStand, QuietStep DEF ReadBefore
<1>3. CASE ClaimFails(p)
  <2>1. NobodyLocks
    BY <1>3, LostQuiet, FinishQuiet DEF ClaimFails
  <2>2. QED
    BY <1>3, <2>1, SameRowsStand, QuietStep DEF ClaimFails
<1>4. CASE Dequeue(p)
  <2>1. Stands
    BY <1>4 DEF Dequeue, TypeOK, Row, Stands
  <2>2. QED
    BY <1>4, <2>1, FinishQuiet, QuietStep DEF Dequeue
<1>5. QED
  BY <1>1, <1>2, <1>3, <1>4, LockAndRecountInv, ClaimCommitsInv DEF SelectAndAssign

(* Only a conversation nobody owns may join the queue, so the desk a rotation  *)
(* recorded is not overwritten.                                                *)
LEMMA EnqueuedStands ==
  ASSUME TypeOK, RouterInv, NEW c \in Conversations, NEW d \in Keys,
         Enqueued(c, d), pushed' = pushed
  PROVE  Stands
<1>1. CASE MayJoinQueue(c)
  <2>1. pushed[c] = Unpushed
    BY <1>1, RoutingAssumption DEF MayJoinQueue, RouterInv, PushedInv
  <2>2. \A x \in Conversations \ {c} : row'[x] = row[x]
    BY <1>1 DEF Enqueued, TypeOK
  <2>3. QED
    BY <2>1, <2>2 DEF Stands
<1>2. CASE ~MayJoinQueue(c)
  BY <1>2 DEF Enqueued, Stands
<1>3. QED
  BY <1>1, <1>2

LEMMA HandlerInv ==
  ASSUME TypeOK, RouterInv, NEW p \in Procs, Handler(p)
  PROVE  RouterInv'
<1>1. CASE AutoAssignPool(p)
  <2>1. NobodyLocks
    BY <1>1, FinishQuiet, GotoQuiet DEF AutoAssignPool
  <2>2. QED
    BY <1>1, <2>1, SameRowsStand, QuietStep DEF AutoAssignPool
<1>2. CASE Enqueue(p)
  <2>1. job[p].conv \in Conversations /\ job[p].desk \in Keys
    BY <1>2 DEF TypeOK, Enqueue, JobFits, Job
  <2>2. Stands
    BY <1>2, <2>1, EnqueuedStands DEF Enqueue
  <2>3. QED
    BY <1>2, <2>2, FinishQuiet, QuietStep DEF Enqueue
<1>3. CASE SetAssignee(p)
  <2>1. Stands
    BY <1>3 DEF SetAssignee, TypeOK, Stands
  <2>2. QED
    BY <1>3, <2>1, FinishQuiet, QuietStep DEF SetAssignee
<1>4. CASE SetStatus(p)
  <2>1. job[p].conv \in Conversations /\ job[p].open \in BOOLEAN
    BY <1>4 DEF SetStatus, TypeOK, JobFits, Job
  <2>2. Stands
    BY <1>4, <2>1 DEF SetStatus, TypeOK, Row, Stands
  <2>3. QED
    BY <1>4, <2>2, FinishQuiet, QuietStep DEF SetStatus
<1>5. QED
  BY <1>1, <1>2, <1>3, <1>4, SelectAndAssignInv DEF Handler

LEMMA RequestInv ==
  ASSUME TypeOK, RouterInv, NEW p \in Procs, Request(p)
  PROVE  RouterInv'
<1>1. PICK c \in Conversations :
        \/ \E d \in Keys : AutoAssign(p, c, d)
        \/ \E o \in Operators \cup {NoOne} : AssignRequest(p, c, o)
        \/ \E open \in BOOLEAN : StatusRequest(p, c, open)
  BY DEF Request
<1>2. NobodyLocks
  BY <1>1, GotoQuiet DEF AutoAssign, AssignRequest, StatusRequest
<1>3. UNCHANGED <<row, pushed>>
  BY <1>1 DEF AutoAssign, AssignRequest, StatusRequest
<1>4. QED
  BY <1>2, <1>3, SameRowsStand, QuietStep

LEMMA DrainInv ==
  ASSUME TypeOK, RouterInv, NEW p \in Procs, Drain(p)
  PROVE  RouterInv'
<1>1. CASE Sweep(p)
  <2>1. NobodyLocks
    BY <1>1, GotoQuiet DEF Sweep
  <2>2. QED
    BY <1>1, <2>1, SameRowsStand, QuietStep DEF Sweep
<1>2. CASE Serve(p)
  <2>1. NobodyLocks
    BY <1>2, GotoQuiet DEF Serve
  <2>2. QED
    BY <1>2, <2>1, SameRowsStand, QuietStep DEF Serve
<1>3. CASE Mark(p)
  <2>1. Stands
    BY <1>3 DEF Mark, TypeOK, Row, Stands
  <2>2. QED
    BY <1>3, <2>1, FinishQuiet, QuietStep DEF Mark
<1>4. CASE Clear(p)
  <2>1. Stands
    BY <1>4 DEF Clear, TypeOK, Row, Stands
  <2>2. NobodyLocks
    BY <1>4, GotoQuiet DEF Clear
  <2>3. QED
    BY <2>1, <2>2, QuietStep
<1>5. CASE Fit(p)
  <2>1. NobodyLocks
    BY <1>5, GotoQuiet, FinishQuiet DEF Fit
  <2>2. QED
    BY <1>5, <2>1, SameRowsStand, QuietStep DEF Fit
<1>6. QED
  BY <1>1, <1>2, <1>3, <1>4, <1>5, SelectAndAssignInv DEF Drain

LEMMA HandoverInv ==
  ASSUME TypeOK, RouterInv, NEW p \in Procs, Handover(p)
  PROVE  RouterInv'
<1>1. CASE \E o \in Operators : ReadOpenWork(p, o)
  <2>1. NobodyLocks
    BY <1>1, GotoQuiet DEF ReadOpenWork
  <2>2. QED
    BY <1>1, <2>1, SameRowsStand, QuietStep DEF ReadOpenWork
<1>2. CASE ReadReturned(p)
  <2>1. NobodyLocks
    BY <1>2, GotoQuiet DEF ReadReturned
  <2>2. QED
    BY <1>2, <2>1, SameRowsStand, QuietStep DEF ReadReturned
<1>3. CASE ReturnToBacklog(p)
  <2>1. Stands
    <3>1. CASE row[job[p].conv].owner = job[p].pick
      <4>1. pushed' = [pushed EXCEPT ![job[p].conv] = Unpushed]
        BY <1>3, <3>1 DEF ReturnToBacklog
      <4>2. \A x \in Conversations \ {job[p].conv} : row'[x] = row[x]
        BY <1>3, <3>1 DEF ReturnToBacklog, TypeOK
      <4>3. QED
        BY <4>1, <4>2 DEF Stands, TypeOK
    <3>2. CASE row[job[p].conv].owner # job[p].pick
      BY <1>3, <3>2 DEF ReturnToBacklog, Stands
    <3>3. QED
      BY <3>1, <3>2
  <2>2. NobodyLocks
    BY <1>3, GotoQuiet DEF ReturnToBacklog
  <2>3. QED
    BY <2>1, <2>2, QuietStep
<1>4. QED
  BY <1>1, <1>2, <1>3 DEF Handover

LEMMA EnvironmentInv ==
  ASSUME TypeOK, RouterInv, Environment
  PROVE  RouterInv'
<1>1. CASE \E p \in Procs : Fail(p)
  <2>1. PICK p \in Procs : Fail(p)
    BY <1>1
  <2>2. NobodyLocks
    BY <2>1, FinishQuiet, GotoQuiet DEF Fail
  <2>3. QED
    BY <2>1, <2>2, SameRowsStand, QuietStep DEF Fail
<1>2. ASSUME UNCHANGED <<pc, job>> PROVE NobodyLocks
  BY <1>2 DEF NobodyLocks, Locked
<1>3. CASE \E c \in Conversations, b \in BOOLEAN : SetShelf(c, b)
  <2>1. PICK c \in Conversations, b \in BOOLEAN : SetShelf(c, b)
    BY <1>3
  <2>2. Stands
    BY <2>1 DEF SetShelf, TypeOK, Row, Stands
  <2>3. QED
    BY <1>2, <2>1, <2>2, QuietStep DEF SetShelf
<1>4. CASE \E c \in Conversations : IntakeEnqueue(c)
  <2>1. PICK c \in Conversations : IntakeEnqueue(c)
    BY <1>4
  <2>2. Stands
    <3>1. CASE ChannelDesk[c] \in Desks /\ Enqueued(c, ChannelDesk[c])
      BY <2>1, <3>1, EnqueuedStands DEF Keys, IntakeEnqueue
    <3>2. CASE row' = row
      BY <2>1, <3>2 DEF IntakeEnqueue, Stands
    <3>3. QED
      BY <2>1, <3>1, <3>2 DEF IntakeEnqueue
  <2>3. QED
    BY <1>2, <2>1, <2>2, QuietStep DEF IntakeEnqueue
<1>5. CASE \E o \in Operators, s \in {"here", "away", "gone"} : Presence(o, s)
  BY <1>2, <1>5, SameRowsStand, QuietStep DEF Presence
<1>6. CASE \E d \in Desks : SwitchDesk(d)
  BY <1>2, <1>6, SameRowsStand, QuietStep DEF SwitchDesk
<1>7. CASE Tick
  BY <1>2, <1>7, SameRowsStand, QuietStep DEF Tick
<1>8. QED
  BY <1>1, <1>3, <1>4, <1>5, <1>6, <1>7 DEF Environment

LEMMA InitInv == Init => RouterInv
<1> SUFFICES ASSUME Init PROVE RouterInv
  OBVIOUS
<1>1. LockInv /\ RoomInv /\ PushedInv
  BY DEF Init, LockInv, RoomInv, PushedInv, Locked
<1>2. DeskTookIt
  BY RoutingAssumption DEF Init, DeskTookIt, Keys
<1>3. BudgetHeld
  <2>1. \A o : PushedTo(o) = {}
    BY DEF Init, PushedTo
  <2>2. \A o : Cardinality(PushedTo(o)) = 0
    BY <2>1, FS_EmptySet, Zenon
  <2>3. QED
    BY <2>2, RoutingAssumption DEF BudgetHeld
<1>4. QED
  BY <1>1, <1>2, <1>3 DEF RouterInv

LEMMA NextInv == TypeOK /\ RouterInv /\ [Next]_vars => RouterInv'
<1> SUFFICES ASSUME TypeOK, RouterInv, [Next]_vars PROVE RouterInv'
  OBVIOUS
<1>1. CASE Next
  <2>1. \A p \in Handlers \cup Drains \cup Handovers : p \in Procs
    BY DEF Procs
  <2>2. CASE \E p \in Handlers : Request(p) \/ Handler(p)
    BY <2>1, <2>2, RequestInv, HandlerInv
  <2>3. CASE \E p \in Drains : Drain(p)
    BY <2>1, <2>3, DrainInv
  <2>4. CASE \E p \in Handovers : Handover(p)
    BY <2>1, <2>4, HandoverInv
  <2>5. QED
    BY <1>1, <2>2, <2>3, <2>4, EnvironmentInv DEF Next
<1>2. CASE UNCHANGED vars
  <2>1. NobodyLocks /\ Stands
    BY <1>2, SameRowsStand DEF vars, NobodyLocks, Locked
  <2>2. QED
    BY <2>1, QuietStep
<1>3. QED
  BY <1>1, <1>2

(* The routers' invariant: one router at a time between recount and claim of   *)
(* an operator, who has room for as long as it is there.                       *)
THEOREM RouterSafe == Spec => []RouterInv
<1>1. Init => TypeOK /\ RouterInv
  BY InitType, InitInv
<1>2. (TypeOK /\ RouterInv) /\ [Next]_vars => (TypeOK /\ RouterInv)'
  BY NextType, NextInv
<1>3. QED
  BY <1>1, <1>2, PTL DEF Spec

(* However many routers race, nobody holds more than the budget of what the    *)
(* rotations pushed at them.                                                   *)
THEOREM BudgetTheorem == Spec => []BudgetHeld
<1>1. RouterInv => BudgetHeld
  BY DEF RouterInv
<1>2. QED
  BY <1>1, RouterSafe, PTL

(* The desk on the row is the desk whose rotation assigned the conversation.   *)
THEOREM DeskTheorem == Spec => []DeskTookIt
<1>1. RouterInv => DeskTookIt
  BY DEF RouterInv
<1>2. QED
  BY <1>1, RouterSafe, PTL

----------------------------------------------------------------------------
(* The queue stamp.  Whatever is not a handover's second half leaves it, clears *)
(* it, or sets it to the present on work that has neither a stamp nor an owner.*)

QueueStep == \A c \in Conversations :
    \/ row'[c].at = row[c].at
    \/ row'[c].at = 0
    \/ row[c].at = 0 /\ row'[c].at = now /\ row'[c].owner = NoOne

JoinStep == \A c \in Conversations :
    row[c].at = 0 /\ row'[c].at # 0 => row'[c].owner = NoOne

DemoteStep == \A c \in Conversations :
    row[c].at # 0 /\ row'[c].at # 0 => row'[c].at <= row[c].at

LEMMA SameStampQueues ==
  ASSUME \A c \in Conversations : row'[c].at = row[c].at \/ row'[c].at = 0
  PROVE  QueueStep
  BY DEF QueueStep

LEMMA EnqueuedQueues ==
  ASSUME TypeOK, NEW c \in Conversations, NEW d \in Keys, Enqueued(c, d)
  PROVE  QueueStep
<1>1. CASE MayJoinQueue(c)
  <2>1. \A x \in Conversations \ {c} : row'[x] = row[x]
    BY <1>1 DEF Enqueued, TypeOK
  <2>2. row'[c].owner = row[c].owner /\ row'[c].at = now
    BY <1>1 DEF Enqueued, TypeOK, Row
  <2>3. QED
    BY <1>1, <2>1, <2>2 DEF QueueStep, MayJoinQueue
<1>2. CASE ~MayJoinQueue(c)
  BY <1>2 DEF Enqueued, QueueStep
<1>3. QED
  BY <1>1, <1>2

LEMMA SelectAndAssignQueues ==
  ASSUME TypeOK, NEW p \in Procs, SelectAndAssign(p)
  PROVE  QueueStep
<1>1. CASE ClaimCommits(p)
  BY <1>1, SameStampQueues DEF ClaimCommits, TypeOK, Row
<1>2. CASE Dequeue(p)
  BY <1>2, SameStampQueues DEF Dequeue, TypeOK, Row
<1>3. CASE Select(p) \/ LockAndRecount(p) \/ ReadBefore(p) \/ ClaimFails(p)
  BY <1>3, SameStampQueues DEF Select, LockAndRecount, ReadBefore, ClaimFails
<1>4. QED
  BY <1>1, <1>2, <1>3 DEF SelectAndAssign

LEMMA HandlerQueues ==
  ASSUME TypeOK, NEW p \in Procs, Request(p) \/ Handler(p)
  PROVE  QueueStep
<1>1. CASE Request(p) \/ AutoAssignPool(p)
  BY <1>1, SameStampQueues DEF Request, AutoAssign, AssignRequest, StatusRequest, AutoAssignPool
<1>2. CASE Enqueue(p)
  <2>1. job[p].conv \in Conversations /\ job[p].desk \in Keys
    BY <1>2 DEF TypeOK, Enqueue, JobFits, Job
  <2>2. QED
    BY <1>2, <2>1, EnqueuedQueues DEF Enqueue
<1>3. CASE SetAssignee(p)
  BY <1>3, SameStampQueues DEF SetAssignee, TypeOK, Row
<1>4. CASE SetStatus(p)
  BY <1>4, SameStampQueues DEF SetStatus, TypeOK, Row
<1>5. QED
  BY <1>1, <1>2, <1>3, <1>4, SelectAndAssignQueues DEF Handler

LEMMA DrainQueues ==
  ASSUME TypeOK, NEW p \in Procs, Drain(p)
  PROVE  QueueStep
<1>1. CASE Mark(p)
  BY <1>1, SameStampQueues DEF Mark, TypeOK, Row
<1>2. CASE Clear(p)
  BY <1>2, SameStampQueues DEF Clear, TypeOK, Row
<1>3. CASE Sweep(p) \/ Serve(p) \/ Fit(p)
  BY <1>3, SameStampQueues DEF Sweep, Serve, Fit
<1>4. QED
  BY <1>1, <1>2, <1>3, SelectAndAssignQueues DEF Drain

LEMMA ReadQueues ==
  ASSUME NEW p \in Procs, (\E o \in Operators : ReadOpenWork(p, o)) \/ ReadReturned(p)
  PROVE  QueueStep
  BY SameStampQueues DEF ReadOpenWork, ReadReturned

LEMMA EnvironmentQueues ==
  ASSUME TypeOK, Environment
  PROVE  QueueStep
<1>1. CASE \E c \in Conversations, b \in BOOLEAN : SetShelf(c, b)
  BY <1>1, SameStampQueues DEF SetShelf, TypeOK, Row
<1>2. CASE \E c \in Conversations : IntakeEnqueue(c)
  <2>1. PICK c \in Conversations : IntakeEnqueue(c)
    BY <1>2
  <2>2. CASE ChannelDesk[c] \in Desks /\ Enqueued(c, ChannelDesk[c])
    BY <2>2, EnqueuedQueues DEF Keys
  <2>3. CASE row' = row
    BY <2>3, SameStampQueues
  <2>4. QED
    BY <2>1, <2>2, <2>3 DEF IntakeEnqueue
<1>3. CASE ~(\E c \in Conversations, b \in BOOLEAN : SetShelf(c, b))
           /\ ~(\E c \in Conversations : IntakeEnqueue(c))
  BY <1>3, SameStampQueues DEF Environment, Fail, Presence, SwitchDesk, Tick
<1>4. QED
  BY <1>1, <1>2, <1>3

LEMMA NextQueues ==
  ASSUME TypeOK, [Next]_vars
  PROVE  QueueStep \/ \E p \in Handovers : ReturnToBacklog(p)
<1>1. \A p \in Handlers \cup Drains \cup Handovers : p \in Procs
  BY DEF Procs
<1>2. CASE \E p \in Handlers : Request(p) \/ Handler(p)
  BY <1>1, <1>2, HandlerQueues
<1>3. CASE \E p \in Drains : Drain(p)
  BY <1>1, <1>3, DrainQueues
<1>4. CASE \E p \in Handovers : Handover(p)
  BY <1>1, <1>4, ReadQueues DEF Handover
<1>5. CASE UNCHANGED vars
  BY <1>5 DEF QueueStep, vars
<1>6. QED
  BY <1>2, <1>3, <1>4, <1>5, EnvironmentQueues DEF Next

LEMMA ReturnToBacklogJoins ==
  ASSUME TypeOK, NEW p \in Procs, ReturnToBacklog(p)
  PROVE  JoinStep
<1> DEFINE c    == job[p].conv
           to   == job[p].leads[job[p].desk]
<1>1. c \in Conversations
  BY DEF ReturnToBacklog, TypeOK, JobFits
<1>2. CASE row[c].owner = job[p].pick
  <2>1. row' = [row EXCEPT
                  ![c].owner = to,
                  ![c].at = IF to # NoOne THEN 0
                            ELSE IF job[p].stamp # 0 THEN job[p].stamp ELSE job[p].at,
                  ![c].desk = job[p].desk,
                  ![c].unroutable = FALSE]
    BY <1>2 DEF ReturnToBacklog
  <2>2. \A x \in Conversations \ {c} : row'[x] = row[x]
    BY <2>1 DEF TypeOK
  <2>3. row'[c].owner = to /\ (to # NoOne => row'[c].at = 0)
    BY <1>1, <2>1 DEF TypeOK, Row
  <2>4. QED
    BY <2>2, <2>3 DEF JoinStep
<1>3. CASE row[c].owner # job[p].pick
  BY <1>3 DEF ReturnToBacklog, JoinStep
<1>4. QED
  BY <1>2, <1>3

(* Whoever queues a conversation - a router that found nobody, the intake, a   *)
(* handover - leaves it without an owner.                                      *)
THEOREM JoinTheorem == Spec => JoinsUnowned
<1>1. TypeOK /\ [Next]_vars => [JoinStep]_vars
  <2> SUFFICES ASSUME TypeOK, [Next]_vars PROVE JoinStep
    OBVIOUS
  <2>1. CASE QueueStep
    BY <2>1 DEF QueueStep, JoinStep
  <2>2. CASE \E p \in Handovers : ReturnToBacklog(p)
    BY <2>2, ReturnToBacklogJoins DEF Procs
  <2>3. QED
    BY <2>1, <2>2, NextQueues
<1>2. JoinsUnowned <=> [][JoinStep]_vars
  BY DEF JoinsUnowned, JoinStep
<1>3. QED
  BY <1>1, <1>2, TypeCorrect, PTL DEF Spec

----------------------------------------------------------------------------
(* Whose step it is: a process moves by an action of its own.                  *)

Own(p) ==
    \/ p \in Handlers /\ (Request(p) \/ Handler(p))
    \/ p \in Drains /\ Drain(p)
    \/ p \in Handovers /\ Handover(p)
    \/ Fail(p)

LEMMA OthersStay ==
  ASSUME TypeOK, NEW q \in Procs, Own(q), NEW p \in Procs, p # q
  PROVE  pc'[p] = pc[p] /\ job'[p] = job[p]
<1>1. \E l, j : Goto(q, l, j)
  <2>1. CASE Request(q) \/ Fail(q)
    BY <2>1 DEF Request, AutoAssign, AssignRequest, StatusRequest, Fail, Finish
  <2>2. CASE SelectAndAssign(q)
    BY <2>2 DEF SelectAndAssign, Select, LockAndRecount, ReadBefore, ClaimCommits, ClaimFails, Dequeue,
                Lost, Finish
  <2>3. CASE AutoAssignPool(q) \/ Enqueue(q) \/ SetAssignee(q) \/ SetStatus(q)
    BY <2>3 DEF AutoAssignPool, Enqueue, SetAssignee, SetStatus, Finish
  <2>4. CASE Sweep(q) \/ Serve(q) \/ Mark(q) \/ Clear(q) \/ Fit(q)
    BY <2>4 DEF Sweep, Serve, Mark, Clear, Fit, Finish
  <2>5. CASE Handover(q)
    BY <2>5 DEF Handover, ReadOpenWork, ReadReturned, ReturnToBacklog
  <2>6. QED
    BY <2>1, <2>2, <2>3, <2>4, <2>5 DEF Own, Handler, Drain
<1>2. QED
  BY <1>1 DEF Goto, TypeOK

LEMMA Mover ==
  ASSUME TypeOK, [Next]_vars, NEW p \in Procs, pc'[p] # pc[p] \/ job'[p] # job[p]
  PROVE  Own(p)
<1>1. CASE \E q \in Procs : Own(q)
  BY <1>1, OthersStay
<1>2. CASE ~\E q \in Procs : Own(q)
  <2>1. pc' = pc /\ job' = job
    BY <1>2 DEF Next, Environment, Own, Procs, vars, SetShelf, IntakeEnqueue, Presence, SwitchDesk, Tick
  <2>2. QED
    BY <2>1
<1>3. QED
  BY <1>1, <1>2

LEMMA DisjointProcs ==
  ASSUME NEW p \in Handovers
  PROVE  p \in Procs /\ p \notin Handlers /\ p \notin Drains
  BY RoutingAssumption DEF Procs

(* Only a claim that matches goes on to the dequeue.                           *)
LEMMA ClaimStep ==
  ASSUME TypeOK, [Next]_vars, NEW p \in Procs, pc[p] = "claim", pc'[p] = "dequeue"
  PROVE  ClaimMatches(p)
<1>1. Own(p)
  BY Mover
<1>2. ASSUME NEW l, NEW j, Goto(p, l, j) PROVE pc'[p] = l
  BY <1>2 DEF Goto, TypeOK
<1>3. ~Finish(p)
  BY <1>2 DEF Finish
<1>4. ~Lost(p)
  BY <1>2, <1>3 DEF Lost
<1>5. ~Fail(p)
  BY <1>2, <1>3 DEF Fail
<1>6. ~Request(p)
  BY DEF Request, AutoAssign, AssignRequest, StatusRequest
<1>7. ~Handover(p)
  BY DEF Handover, ReadOpenWork, ReadReturned, ReturnToBacklog
<1>8. SelectAndAssign(p)
  BY <1>1, <1>5, <1>6, <1>7 DEF Own, Handler, Drain, AutoAssignPool, Enqueue, SetAssignee, SetStatus,
                               Sweep, Serve, Mark, Clear, Fit
<1>9. ClaimCommits(p)
  BY <1>3, <1>4, <1>8 DEF SelectAndAssign, Select, LockAndRecount, ReadBefore, ClaimFails, Dequeue
<1>10. QED
  BY <1>9 DEF ClaimCommits

(* Only the second half of a handover gives anything back.                     *)
LEMMA GiveBackStep ==
  ASSUME TypeOK, [Next]_vars, NEW p \in Procs, pc[p] = "giveback", job'[p] # job[p], row' # row
  PROVE  p \in Handovers /\ ReturnToBacklog(p)
<1>1. Own(p) /\ ~Fail(p)
  BY Mover DEF Fail
<1>2. ~Request(p)
  BY DEF Request, AutoAssign, AssignRequest, StatusRequest
<1>3. ~SelectAndAssign(p)
  BY DEF SelectAndAssign, Select, LockAndRecount, ReadBefore, ClaimCommits, ClaimFails, Dequeue
<1>4. ~Handler(p) /\ ~Drain(p)
  BY <1>3 DEF Handler, Drain, AutoAssignPool, Enqueue, SetAssignee, SetStatus, Sweep, Serve, Mark, Clear, Fit
<1>5. p \in Handovers /\ Handover(p)
  BY <1>1, <1>2, <1>4 DEF Own
<1>6. QED
  BY <1>5 DEF Handover, ReadOpenWork, ReadReturned

(* A router that read nobody claims from nobody, and a handover changes the    *)
(* owner only of what is still the leaver's (selectAndAssign,                  *)
(* returnToBacklog).                                                           *)
THEOREM TakesTheorem == Spec => TakesWhatItRead
<1> DEFINE Takes == \A p \in Procs :
              LET c == job[p].conv IN
              /\ (pc[p] = "claim" /\ pc'[p] = "dequeue" /\ job[p].before = NoOne)
                     => row[c].owner = NoOne
              /\ (pc[p] = "giveback" /\ acts' = acts /\ row'[c].owner # row[c].owner
                     /\ job'[p] # job[p])
                     => row[c].owner = job[p].pick
<1>1. TypeOK /\ [Next]_vars => Takes
  <2> SUFFICES ASSUME TypeOK, [Next]_vars, NEW p \in Procs
               PROVE  LET c == job[p].conv IN
                      /\ (pc[p] = "claim" /\ pc'[p] = "dequeue" /\ job[p].before = NoOne)
                             => row[c].owner = NoOne
                      /\ (pc[p] = "giveback" /\ acts' = acts /\ row'[c].owner # row[c].owner
                             /\ job'[p] # job[p])
                             => row[c].owner = job[p].pick
    OBVIOUS
  <2>1. pc[p] = "claim" /\ pc'[p] = "dequeue" => ClaimMatches(p)
    BY ClaimStep
  <2>2. pc[p] = "giveback" /\ job'[p] # job[p] /\ row' # row => ReturnToBacklog(p)
    BY GiveBackStep
  <2>3. ReturnToBacklog(p) /\ row' # row => row[job[p].conv].owner = job[p].pick
    BY DEF ReturnToBacklog
  <2>4. QED
    BY <2>1, <2>2, <2>3 DEF ClaimMatches
<1>2. TakesWhatItRead <=> [][Takes]_vars
  BY DEF TakesWhatItRead
<1> HIDE DEF Takes
<1>3. QED
  BY <1>1, <1>2, TypeCorrect, PTL DEF Spec

----------------------------------------------------------------------------
(* The place in the queue.                                                     *)

(* Handovers follow one another: the offboarding tick works through its list.  *)
OneHandover == \A p, q \in Handovers : p = q

(* The stamp a handover will give back what it holds.                          *)
Restamp(j) == IF j.stamp # 0 THEN j.stamp ELSE j.at

(* It is no later than the place the conversation has meanwhile: the stamp it  *)
(* read is the place itself, or there was none when it looked, and whoever     *)
(* queued it since did so at a later instant.                                  *)
Handing(l, j, rows, t) ==
    /\ l \in {"return", "giveback"} => j.at <= t
    /\ l = "giveback" =>
          Restamp(j) <= t /\ (rows[j.conv].at = 0 \/ Restamp(j) <= rows[j.conv].at)

PlaceInv ==
    /\ \A c \in Conversations : row[c].at <= now
    /\ \A p \in Handovers : Handing(pc[p], job[p], row, now)

LEMMA RowAt ==
  ASSUME TypeOK, NEW c \in Conversations
  PROVE  row[c].at \in Nat
  BY DEF TypeOK, Row

LEMMA NowGrows ==
  ASSUME TypeOK, [Next]_vars
  PROVE  now' = now \/ now' = now + 1
<1>1. \A p : Own(p) => now' = now
  BY DEF Own, Request, AutoAssign, AssignRequest, StatusRequest, Fail, Handler, AutoAssignPool, Enqueue,
         SetAssignee, SetStatus, Drain, Sweep, Serve, Mark, Clear, Fit, SelectAndAssign, Select,
         LockAndRecount, ReadBefore, ClaimCommits, ClaimFails, Dequeue, Handover, ReadOpenWork,
         ReadReturned, ReturnToBacklog, env
<1>2. CASE Environment
  BY <1>1, <1>2 DEF Environment, Own, SetShelf, IntakeEnqueue, Presence, SwitchDesk, Tick, env
<1>3. CASE UNCHANGED vars
  BY <1>3 DEF vars
<1>4. QED
  BY <1>1, <1>2, <1>3 DEF Next, Own

(* What a handover does to the stamp.                                          *)
LEMMA ReturnToBacklogStamp ==
  ASSUME TypeOK, PlaceInv, NEW p \in Handovers, ReturnToBacklog(p), NEW c \in Conversations
  PROVE  \/ row'[c].at = row[c].at
         \/ row'[c].at = 0
         \/ c = job[p].conv /\ row'[c].at = Restamp(job[p])
<1> DEFINE to == job[p].leads[job[p].desk]
<1>1. job[p].conv \in Conversations
  BY DEF ReturnToBacklog, TypeOK, JobFits, Procs
<1>2. CASE row[job[p].conv].owner = job[p].pick
  <2>1. row' = [row EXCEPT
                  ![job[p].conv].owner = to,
                  ![job[p].conv].at = IF to # NoOne THEN 0
                            ELSE IF job[p].stamp # 0 THEN job[p].stamp ELSE job[p].at,
                  ![job[p].conv].desk = job[p].desk,
                  ![job[p].conv].unroutable = FALSE]
    BY <1>2 DEF ReturnToBacklog
  <2>2. c # job[p].conv => row'[c] = row[c]
    BY <2>1 DEF TypeOK
  <2>3. row'[job[p].conv].at = 0 \/ row'[job[p].conv].at = Restamp(job[p])
    BY <1>1, <2>1 DEF TypeOK, Row, Restamp
  <2>4. QED
    BY <2>2, <2>3
<1>3. CASE row[job[p].conv].owner # job[p].pick
  BY <1>3 DEF ReturnToBacklog
<1>4. QED
  BY <1>2, <1>3

LEMMA DemoteNever ==
  ASSUME TypeOK, PlaceInv, [Next]_vars
  PROVE  DemoteStep
<1>1. CASE QueueStep
  BY <1>1, RowAt DEF QueueStep, DemoteStep
<1>2. ASSUME NEW p \in Handovers, ReturnToBacklog(p) PROVE DemoteStep
  <2>1. pc[p] = "giveback" /\ job[p].conv \in Conversations
    BY <1>2 DEF ReturnToBacklog, TypeOK, JobFits, Procs
  <2>2. row[job[p].conv].at = 0 \/ Restamp(job[p]) <= row[job[p].conv].at
    BY <2>1 DEF PlaceInv, Handing
  <2>3. QED
    BY <1>2, <2>2, RowAt, ReturnToBacklogStamp DEF DemoteStep
<1>3. QED
  BY <1>1, <1>2, NextQueues

(* A handover that does not move, while work is queued at the present.         *)
LEMMA HandingStays ==
  ASSUME TypeOK, QueueStep, now' = now \/ now' = now + 1, NEW p \in Handovers,
         Handing(pc[p], job[p], row, now)
  PROVE  Handing(pc[p], job[p], row', now')
<1>1. now \in Nat /\ job[p] \in Job /\ (pc[p] = "giveback" => job[p].conv \in Conversations)
  BY DEF TypeOK, JobFits, Procs
<1>2. job[p].at \in Nat /\ Restamp(job[p]) \in Nat
  BY <1>1 DEF Job, Restamp
<1>3. pc[p] = "giveback" =>
          row'[job[p].conv].at = 0 \/ Restamp(job[p]) <= row'[job[p].conv].at
  BY <1>1, <1>2 DEF QueueStep, Handing
<1>4. QED
  BY <1>1, <1>2, <1>3 DEF Handing

(* One that moves.                                                             *)
LEMMA HandingMoves ==
  ASSUME TypeOK, TypeOK', PlaceInv, NEW p \in Handovers, Handover(p) \/ Fail(p)
  PROVE  Handing(pc'[p], job'[p], row', now')
<1>1. p \in Procs /\ p \notin Drains /\ now \in Nat /\ job[p] \in Job
  BY DisjointProcs DEF TypeOK
<1>2. \A l, j : Goto(p, l, j) => pc'[p] = l /\ job'[p] = j
  BY <1>1 DEF Goto, TypeOK
<1>3. ASSUME pc'[p] = "idle" PROVE Handing(pc'[p], job'[p], row', now')
  BY <1>3 DEF Handing
<1>4. CASE Fail(p)
  BY <1>1, <1>2, <1>3, <1>4 DEF Fail, Finish
<1>5. ASSUME NEW o \in Operators, ReadOpenWork(p, o)
      PROVE  Handing(pc'[p], job'[p], row', now')
  <2>1. PICK leads \in DeskLeads :
             Goto(p, "return",
                [NoJob EXCEPT !.pick = o, !.leads = Successors(leads, o), !.at = now,
                              !.batch = {ItemOf(c) : c \in WorkToReturn(o)}])
    BY <1>5 DEF ReadOpenWork
  <2> DEFINE j == [NoJob EXCEPT !.pick = o, !.leads = Successors(leads, o), !.at = now,
                              !.batch = {ItemOf(c) : c \in WorkToReturn(o)}]
  <2>2. j.at = now
    BY DEF NoJob
  <2> HIDE DEF j
  <2>3. pc'[p] = "return" /\ job'[p].at = now
    BY <1>2, <2>1, <2>2 DEF j
  <2>4. now' = now
    BY <1>5 DEF ReadOpenWork, env
  <2>5. QED
    BY <1>1, <2>3, <2>4 DEF Handing
<1>6. CASE ReadReturned(p)
  <2>1. PICK item \in FirstOf(job[p].batch) :
             LET c    == item.conv
                 d    == DestinationDesk(item)
                 rest == [job[p] EXCEPT !.batch = @ \ {item}]
             IN  IF d \in Desks /\ row[c].owner = job[p].pick
                 THEN Goto(p, "giveback", [rest EXCEPT !.conv = c, !.desk = d, !.stamp = row[c].at])
                 ELSE IF rest.batch = {} THEN Goto(p, "idle", NoJob)
                 ELSE Goto(p, "return", rest)
    BY <1>6 DEF ReadReturned
  <2> DEFINE c == item.conv
             rest == [job[p] EXCEPT !.batch = @ \ {item}]
             j == [rest EXCEPT !.conv = c, !.desk = DestinationDesk(item), !.stamp = row[c].at]
  <2>2. pc[p] = "return" /\ row' = row /\ now' = now
    BY <1>6 DEF ReadReturned, env
  <2>3. job[p].at <= now /\ job[p].at \in Nat
    BY <1>1, <2>2 DEF PlaceInv, Handing, Job
  <2>4. item.conv \in Conversations
    BY <1>1 DEF FirstOf, Job, Item
  <2>5. rest.at = job[p].at /\ j.at = job[p].at /\ j.conv = c /\ j.stamp = row[c].at
    BY <1>1 DEF Job
  <2>6. row[c].at \in Nat /\ row[c].at <= now
    BY <2>4, RowAt DEF PlaceInv
  <2>7. \/ pc'[p] = "giveback" /\ job'[p] = j
        \/ pc'[p] = "idle"
        \/ pc'[p] = "return" /\ job'[p] = rest
    BY <1>2, <2>1
  <2> HIDE DEF rest, j, c
  <2>8. CASE pc'[p] = "giveback" /\ job'[p] = j
    <3>1. Restamp(j) <= now /\ (row[j.conv].at = 0 \/ Restamp(j) <= row[j.conv].at)
      BY <2>3, <2>5, <2>6 DEF Restamp
    <3>2. QED
      BY <2>2, <2>3, <2>5, <2>8, <3>1 DEF Handing
  <2>9. CASE pc'[p] = "return" /\ job'[p] = rest
    BY <2>2, <2>3, <2>5, <2>9 DEF Handing
  <2>10. QED
    BY <1>3, <2>7, <2>8, <2>9
<1>7. ASSUME ReturnToBacklog(p), pc'[p] # "idle"
      PROVE  Handing(pc'[p], job'[p], row', now')
  <2> DEFINE j == [job[p] EXCEPT !.conv = NoOne, !.desk = NoDesk, !.stamp = 0]
  <2>1. pc[p] = "giveback" /\ now' = now
    BY <1>7 DEF ReturnToBacklog, env
  <2>2. job[p].at <= now
    BY <2>1 DEF PlaceInv, Handing
  <2>3. j.at = job[p].at
    BY <1>1 DEF Job
  <2>4. pc'[p] = "return" /\ job'[p] = j
    BY <1>2, <1>7 DEF ReturnToBacklog
  <2> HIDE DEF j
  <2>5. QED
    BY <2>1, <2>2, <2>3, <2>4 DEF Handing
<1>8. QED
  BY <1>3, <1>4, <1>5, <1>6, <1>7 DEF Handover

LEMMA PlaceNext ==
  ASSUME OneHandover, TypeOK, TypeOK', PlaceInv, [Next]_vars
  PROVE  PlaceInv'
<1>1. now \in Nat /\ (now' = now \/ now' = now + 1)
  BY NowGrows DEF TypeOK
<1>2. ASSUME NEW c \in Conversations PROVE row'[c].at <= now'
  <2>1. row[c].at \in Nat /\ row[c].at <= now
    BY RowAt DEF PlaceInv
  <2>2. CASE QueueStep
    BY <1>1, <2>1, <2>2 DEF QueueStep
  <2>3. ASSUME NEW p \in Handovers, ReturnToBacklog(p) PROVE row'[c].at <= now'
    <3>1. Restamp(job[p]) <= now /\ Restamp(job[p]) \in Nat
      BY <2>3 DEF ReturnToBacklog, PlaceInv, Handing, TypeOK, Procs, Job, Restamp
    <3>2. QED
      BY <1>1, <2>1, <2>3, <3>1, ReturnToBacklogStamp
  <2>4. QED
    BY <2>2, <2>3, NextQueues
<1>3. ASSUME NEW p \in Handovers PROVE Handing(pc'[p], job'[p], row', now')
  <2>1. p \in Procs
    BY DisjointProcs
  <2>2. CASE Handover(p) \/ Fail(p)
    BY <2>2, HandingMoves
  <2>3. CASE ~(Handover(p) \/ Fail(p))
    <3>1. pc'[p] = pc[p] /\ job'[p] = job[p]
      BY <2>1, <2>3, Mover, DisjointProcs DEF Own
    <3>2. QueueStep
      BY <2>3, NextQueues DEF OneHandover, Handover
    <3>3. Handing(pc[p], job[p], row, now)
      BY DEF PlaceInv
    <3>4. QED
      BY <1>1, <3>1, <3>2, <3>3, HandingStays
  <2>4. QED
    BY <2>2, <2>3
<1>4. QED
  BY <1>2, <1>3 DEF PlaceInv

(* While a conversation waits its place never gets worse: the first instant    *)
(* wins over retries, late handlers and the handover (enqueue,                 *)
(* returnToBacklog) - as long as handovers do not overlap.                     *)
THEOREM PlaceTheorem == ASSUME OneHandover PROVE Spec => NoDemotion
<1>1. Init => PlaceInv
  BY DisjointProcs DEF Init, PlaceInv, Handing
<1>2. TypeOK /\ TypeOK' /\ PlaceInv /\ [Next]_vars => PlaceInv'
  BY PlaceNext
<1>3. TypeOK /\ PlaceInv /\ [Next]_vars => [DemoteStep]_vars
  BY DemoteNever
<1>4. NoDemotion <=> [][DemoteStep]_vars
  BY DEF NoDemotion, DemoteStep
<1>5. QED
  BY <1>1, <1>2, <1>3, <1>4, TypeCorrect, PTL DEF Spec
=============================================================================
