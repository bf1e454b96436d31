------------------------------ MODULE Routing ------------------------------
(* Who owns a conversation and which conversations wait for an owner: the      *)
(* assignment component of the chats service.                                  *)
(*                                                                             *)
(* The shared state is the Conversation table and the RoundRobinState table of *)
(* one account.  Four kinds of process write it: request handlers              *)
(* (AutoAssignConversation, AssignConversation, SetConversationStatus), the    *)
(* backlog drain, the staff handover, and single-statement writers (the intake *)
(* that queues a fresh ticket, the shelf).  A handler is not one transaction:  *)
(* every await between two statements is a step of its own here, so the        *)
(* handlers interleave as they do over READ COMMITTED.  The statements of one  *)
(* transaction are separate steps where another process can act between them   *)
(* (a read followed by a conditional write) and the write, with all that       *)
(* commits with it, is one step.                                               *)
(*                                                                             *)
(* The transition stream, the audit entries and the realtime publications that *)
(* go with these writes are append-only and never read back by them; they are  *)
(* left out.                                                                   *)
EXTENDS RoundRobin

CONSTANTS
    Conversations,   \* conversation ids; a number, for the (backlog_at, id) order
    Operators,       \* operator ids; a number, for the order of the rotation
    Desks,           \* groups
    NoDesk,          \* no routed_group_id
    Handlers,        \* concurrent user requests
    Drains,          \* concurrent DrainBacklog calls
    Handovers,       \* concurrent ReturnOperatorWorkToBacklog calls
    MembersOf,       \* the staff of each desk
    ChannelDesk,     \* the default desk of the channel a conversation arrived on
    Exclusive,       \* the conversations on an exclusive channel (voice)
    Budget,          \* the budget of each conversation's brand
    MaxBudget,       \* the largest budget and the largest capacity a caller offers
    Offers,          \* candidate lists a caller may supply itself
    DeskLeads,       \* the desk -> lead tables an offboarding pass may hand over
    Limit,           \* how many conversations one drain or one handover takes up
    MaxActs,         \* bound: requests and outside events in one behaviour
    MaxNow,          \* bound: instants the clock can show
    Unpushed         \* history: the router does not answer for this ownership

Procs == Handlers \cup Drains \cup Handovers
Keys  == Desks \cup {NoDesk}    \* a rotation per desk, and the "default" one

ASSUME RoutingAssumption ==
    /\ Conversations \subseteq Nat \ {NoOne}
    /\ Operators \subseteq Nat \ {NoOne}
    /\ IsFiniteSet(Conversations)
    /\ NoDesk \notin Desks
    /\ Unpushed \notin Keys
    /\ Handlers \cap Drains = {} /\ Handlers \cap Handovers = {} /\ Drains \cap Handovers = {}
    /\ MembersOf \in [Desks -> SUBSET Operators]
    /\ ChannelDesk \in [Conversations -> Keys]
    /\ Exclusive \subseteq Conversations
    /\ MaxBudget \in Nat \ {0}
    /\ Budget \in [Conversations -> 1..MaxBudget]
    /\ Offers \subseteq SUBSET [operator : Operators, capacity : 0..MaxBudget, load : Nat]
    /\ DeskLeads \subseteq [Desks -> Operators \cup {NoOne}]
    /\ Limit \in Nat \ {0}
    /\ MaxActs \in Nat
    /\ MaxNow \in Nat \ {0}

VARIABLES
    row,        \* the Conversation table
    rotation,   \* last_operator_id per group_key; NoOne before the row exists
    staff,      \* an operator is "here", "away" or "gone" (deactivated)
    routable,   \* the desks whose Group.routable is set
    arriving,   \* conversations the intake has created and not yet queued
    pc,         \* where each process stands
    job,        \* what each process has read so far
    pushed,     \* history: the rotation that gave this conversation to its owner
    now,        \* the wall clock
    acts        \* requests and outside events so far

vars == <<row, rotation, staff, routable, arriving, pc, job, pushed, now, acts>>
env  == <<staff, routable, arriving, now>>

(* The columns of Conversation that routing reads or writes.  `at` is          *)
(* backlog_at with 0 for null, `unroutable` is "unroutable_since is not null", *)
(* `shelved` is "shelved_state is not null" and `open` is "the status is a     *)
(* non-terminal one".                                                          *)
Row == [owner : Operators \cup {NoOne}, at : Nat, desk : Keys,
        unroutable : BOOLEAN, shelved : BOOLEAN, open : BOOLEAN]

Candidate == [operator : Operators, capacity : 0..MaxBudget, load : Nat]

(* What a drain selects of a waiting conversation, and a handover of a held    *)
(* one (which it does not order by `at`).                                      *)
Item == [conv : Conversations, at : Nat, desk : Keys, unroutable : BOOLEAN]

(* What a process carries between two awaits: the conversation and the desk it *)
(* works on, the candidate list, the operator picked (or asked for, or         *)
(* departing) with the capacity they were picked at, the cursor and the owner  *)
(* it read, the rows it has left to serve, the leads it was given, its own     *)
(* instant, the stamp it read and a status flag.                               *)
NoJob == [conv |-> NoOne, desk |-> NoDesk, cands |-> {},
          pick |-> NoOne, capacity |-> 0, cursor |-> NoOne, before |-> NoOne,
          batch |-> {}, leads |-> [d \in Desks |-> NoOne],
          at |-> 0, stamp |-> 0, open |-> FALSE]

Init ==
    /\ row = [c \in Conversations |->
                [owner |-> NoOne, at |-> 0, desk |-> NoDesk,
                 unroutable |-> FALSE, shelved |-> FALSE, open |-> TRUE]]
    /\ rotation = [k \in Keys |-> NoOne]
    /\ staff = [o \in Operators |-> "here"]
    /\ routable = Desks
    /\ arriving = Conversations
    /\ pc = [p \in Procs |-> "idle"]
    /\ job = [p \in Procs |-> NoJob]
    /\ pushed = [c \in Conversations |-> Unpushed]
    /\ now = 1
    /\ acts = 0

----------------------------------------------------------------------------
(* Queries over the tables.                                                    *)

OpenWorkOf(o)    == {c \in Conversations : row[c].owner = o /\ row[c].open}
CountedWorkOf(o) == {c \in OpenWorkOf(o) : ~row[c].shelved}
Waiting          == {c \in Conversations : row[c].at # 0 /\ row[c].owner = NoOne}

ItemOf(c) == [conv |-> c, at |-> row[c].at, desk |-> row[c].desk,
              unroutable |-> row[c].unroutable]

(* (backlog_at ASC, id ASC).                                                   *)
Older(i, j) == i.at < j.at \/ (i.at = j.at /\ i.conv < j.conv)

(* The candidate list the pool builds for a desk, on the budget of the         *)
(* conversation's brand.                                                       *)
PoolOf(d, c) ==
    {[operator |-> o, capacity |-> Budget[c],
      load |-> ReportedLoad(CountedWorkOf(o), Exclusive, Budget[c])] :
         o \in {m \in MembersOf[d] : staff[m] = "here"}}

(* A process whose transaction has taken the advisory lock of an operator.     *)
HoldsLock(p, o) == pc[p] \in {"before", "claim"} /\ job[p].pick = o

----------------------------------------------------------------------------
(* Steps the handlers share.                                                   *)

Act == acts < MaxActs /\ acts' = acts + 1

Goto(p, l, j) ==
    /\ pc' = [pc EXCEPT ![p] = l]
    /\ job' = [job EXCEPT ![p] = j]

(* A variant with a bug: the job is dropped, the place in the handler is not.  *)
FinishInPlace(p) == Goto(p, pc[p], NoJob)

(* Done with this conversation: a drain goes on with the rest of its batch and *)
(* everybody else returns.                                                     *)
Finish(p) ==
    IF p \in Drains /\ job[p].batch # {}
    THEN Goto(p, "serve", [NoJob EXCEPT !.batch = job[p].batch])
    ELSE Goto(p, "idle", NoJob)

(* An await that rejects, or a process that dies between two statements: the   *)
(* open transaction is rolled back.  A drain counts the item as skipped and    *)
(* goes on; a crash loses the batch as well.                                   *)
Fail(p) ==
    /\ pc[p] # "idle"
    /\ Act
    /\ Finish(p) \/ Goto(p, "idle", NoJob)
    /\ UNCHANGED <<row, rotation, pushed, env>>

----------------------------------------------------------------------------
(* RoundRobinStateRepository.selectAndAssign, for handlers and drains.         *)

(* A candidate list nobody on has room: a handler queues the conversation, a   *)
(* drain leaves it where it stands.                                            *)
Lost(p) ==
    IF p \in Drains THEN Finish(p) ELSE Goto(p, "enqueue", job[p])

(* Read the cursor and choose.  The cursor row is not locked by this read.     *)
Select(p) ==
    /\ pc[p] = "select"
    /\ LET cursor == rotation[job[p].desk]
           turn   == NextInTurn(job[p].cands, cursor)
       IN  \/ turn = {} /\ Lost(p)
           \/ \E cand \in turn :
                  Goto(p, "lock",
                       [job[p] EXCEPT !.pick = cand.operator, !.cursor = cursor,
                                      !.capacity = cand.capacity, !.cands = {}])
    /\ UNCHANGED <<row, rotation, pushed, env, acts>>

(* A variant with a bug: the recount without the lock.                         *)
RecountUnlocked(p) ==
    /\ pc[p] = "lock"
    /\ IF IsFull(OpenWorkOf(job[p].pick), Exclusive, job[p].capacity)
       THEN Lost(p)
       ELSE Goto(p, "before", job[p])
    /\ UNCHANGED <<row, rotation, pushed, env, acts>>

(* pg_advisory_xact_lock on the chosen operator, then what they hold is read   *)
(* again.  Shelved work counts here: the query does not exclude it.            *)
LockAndRecount(p) ==
    /\ pc[p] = "lock"
    /\ \A q \in Procs \ {p} : ~HoldsLock(q, job[p].pick)
    /\ IF IsFull(OpenWorkOf(job[p].pick), Exclusive, job[p].capacity)
       THEN Lost(p)
       ELSE Goto(p, "before", job[p])
    /\ UNCHANGED <<row, rotation, pushed, env, acts>>

ReadBefore(p) ==
    /\ pc[p] = "before"
    /\ Goto(p, "claim", [job[p] EXCEPT !.before = row[job[p].conv].owner])
    /\ UNCHANGED <<row, rotation, pushed, env, acts>>

(* A variant with a bug: a claim that asserts nothing.                         *)
AlwaysMatches(p) == TRUE

(* The claim is conditional only when the conversation was read as unowned.    *)
ClaimMatches(p) ==
    job[p].before = NoOne => row[job[p].conv].owner = NoOne

(* Two first claims of one rotation: the second create violates the unique     *)
(* key and its whole transaction rolls back.                                   *)
CursorConflict(p) ==
    job[p].cursor = NoOne /\ rotation[job[p].desk] # NoOne

ClaimCommits(p) ==
    /\ pc[p] = "claim"
    /\ ClaimMatches(p)
    /\ ~CursorConflict(p)
    /\ LET c == job[p].conv IN
       /\ row' = [row EXCEPT ![c].owner = job[p].pick,
                             ![c].desk = IF job[p].desk = NoDesk THEN @ ELSE job[p].desk]
       /\ pushed' = [pushed EXCEPT ![c] = IF row[c].open THEN job[p].desk ELSE Unpushed]
    /\ rotation' = [rotation EXCEPT ![job[p].desk] = job[p].pick]
    /\ Goto(p, "dequeue", job[p])
    /\ UNCHANGED <<env, acts>>

ClaimFails(p) ==
    /\ pc[p] = "claim"
    /\ \/ ~ClaimMatches(p) /\ Lost(p)
       \/ ClaimMatches(p) /\ CursorConflict(p) /\ Finish(p)
    /\ UNCHANGED <<row, rotation, pushed, env, acts>>

(* BacklogRepository.dequeue: a statement of its own, after the commit.        *)
Dequeue(p) ==
    /\ pc[p] = "dequeue"
    /\ row' = [row EXCEPT ![job[p].conv].at = 0, ![job[p].conv].unroutable = FALSE]
    /\ Finish(p)
    /\ UNCHANGED <<rotation, pushed, env, acts>>

(* A variant with a bug: the queue takes owned work.                           *)
MayJoinOwned(c) == row[c].at = 0 /\ ~row[c].shelved

(* BacklogRepository.enqueue: the first instant wins, and neither owned nor    *)
(* shelved work joins.                                                         *)
MayJoinQueue(c) == row[c].at = 0 /\ row[c].owner = NoOne /\ ~row[c].shelved

Enqueued(c, d) ==
    row' = IF MayJoinQueue(c)
           THEN [row EXCEPT ![c].at = now, ![c].desk = IF d = NoDesk THEN @ ELSE d]
           ELSE row

SelectAndAssign(p) ==
    \/ Select(p) \/ LockAndRecount(p) \/ ReadBefore(p)
    \/ ClaimCommits(p) \/ ClaimFails(p) \/ Dequeue(p)

----------------------------------------------------------------------------
(* AutoAssignConversation: a desk, or the caller's own candidate list.         *)

AutoAssign(p, c, d) ==
    /\ pc[p] = "idle"
    /\ ~row[c].shelved
    /\ Act
    /\ Goto(p, "pool", [NoJob EXCEPT !.conv = c, !.desk = d])
    /\ UNCHANGED <<row, rotation, pushed, env>>

(* A desk that is not a queue refuses, an empty desk queues the conversation,  *)
(* and an empty list of the caller's own is only an answer.                    *)
AutoAssignPool(p) ==
    /\ pc[p] = "pool" /\ p \in Handlers
    /\ LET d == job[p].desk
           c == job[p].conv
       IN  IF d \in Desks
           THEN IF d \notin routable THEN Finish(p)
                ELSE IF PoolOf(d, c) = {} THEN Goto(p, "enqueue", job[p])
                ELSE Goto(p, "select", [job[p] EXCEPT !.cands = PoolOf(d, c)])
           ELSE \E offer \in Offers :
                    IF offer = {} THEN Finish(p)
                    ELSE Goto(p, "select", [job[p] EXCEPT !.cands = offer])
    /\ UNCHANGED <<row, rotation, pushed, env, acts>>

Enqueue(p) ==
    /\ pc[p] = "enqueue"
    /\ Enqueued(job[p].conv, job[p].desk)
    /\ Finish(p)
    /\ UNCHANGED <<rotation, pushed, env, acts>>

----------------------------------------------------------------------------
(* AssignConversation and SetConversationStatus: the shelf is checked on one   *)
(* read and the write is unconditional.                                        *)

AssignRequest(p, c, o) ==
    /\ pc[p] = "idle"
    /\ ~row[c].shelved
    /\ Act
    /\ Goto(p, "assign", [NoJob EXCEPT !.conv = c, !.pick = o])
    /\ UNCHANGED <<row, rotation, pushed, env>>

(* Assign, reassign or (NoOne) unassign.  backlog_at is not touched.           *)
SetAssignee(p) ==
    /\ pc[p] = "assign"
    /\ row' = [row EXCEPT ![job[p].conv].owner = job[p].pick]
    /\ pushed' = [pushed EXCEPT ![job[p].conv] = Unpushed]
    /\ Finish(p)
    /\ UNCHANGED <<rotation, env, acts>>

StatusRequest(p, c, open) ==
    /\ pc[p] = "idle"
    /\ ~row[c].shelved
    /\ Act
    /\ Goto(p, "status", [NoJob EXCEPT !.conv = c, !.open = open])
    /\ UNCHANGED <<row, rotation, pushed, env>>

SetStatus(p) ==
    /\ pc[p] = "status"
    /\ row' = [row EXCEPT ![job[p].conv].open = job[p].open]
    /\ pushed' = [pushed EXCEPT ![job[p].conv] =
                     IF job[p].open /\ row[job[p].conv].open THEN @ ELSE Unpushed]
    /\ Finish(p)
    /\ UNCHANGED <<rotation, env, acts>>

(* setShelf writes only over the state it read: shelve, or restore.            *)
SetShelf(c, shelve) ==
    /\ row[c].shelved # shelve
    /\ Act
    /\ row' = [row EXCEPT ![c].shelved = shelve]
    /\ UNCHANGED <<rotation, pushed, env, pc, job>>

(* The intake queues the ticket it has just created, on the default desk of    *)
(* its channel; the failure of that write is swallowed.                        *)
IntakeEnqueue(c) ==
    /\ c \in arriving
    /\ arriving' = arriving \ {c}
    /\ \/ ChannelDesk[c] \in Desks /\ Enqueued(c, ChannelDesk[c]) /\ UNCHANGED acts
       \/ ChannelDesk[c] = NoDesk /\ UNCHANGED <<row, acts>>
       \/ ChannelDesk[c] \in Desks /\ Act /\ UNCHANGED row
    /\ UNCHANGED <<rotation, pushed, staff, routable, now, pc, job>>

----------------------------------------------------------------------------
(* DrainBacklog: a snapshot of the oldest waiting conversations, then one item *)
(* after the other on what the snapshot said of it.                            *)

Oldest ==
    LET items == {ItemOf(c) : c \in Waiting}
    IN  {i \in items : Cardinality({j \in items : Older(j, i)}) < Limit}

Sweep(p) ==
    /\ pc[p] = "idle" /\ p \in Drains
    /\ Oldest # {}
    /\ Goto(p, "serve", [NoJob EXCEPT !.batch = Oldest])
    /\ UNCHANGED <<row, rotation, pushed, env, acts>>

FirstOf(batch) == {i \in batch : \A j \in batch \ {i} : Older(i, j)}

(* firstServable over the one item: somebody in the pool can take it.          *)
Servable(c, cands) ==
    \E cand \in cands : ServesChannel(c \in Exclusive, cand)

(* Take the next item and read the pool of its desk.  Without a desk, or with  *)
(* a desk that is not a queue, the work can reach nobody; otherwise a stamp    *)
(* the snapshot showed is cleared before the capacity test.                    *)
Serve(p) ==
    /\ pc[p] = "serve"
    /\ \E item \in FirstOf(job[p].batch) :
       LET j == [NoJob EXCEPT !.conv = item.conv, !.desk = item.desk,
                              !.batch = job[p].batch \ {item}]
       IN  IF item.desk = NoDesk \/ item.desk \notin routable THEN Goto(p, "mark", j)
           ELSE LET pool == [j EXCEPT !.cands = PoolOf(item.desk, item.conv)] IN
                IF item.unroutable THEN Goto(p, "clear", pool)
                ELSE Goto(p, "fit", pool)
    /\ UNCHANGED <<row, rotation, pushed, env, acts>>

(* markUnroutable: the stamp is set once, and stays.                           *)
Mark(p) ==
    /\ pc[p] = "mark"
    /\ row' = [row EXCEPT ![job[p].conv].unroutable = TRUE]
    /\ Finish(p)
    /\ UNCHANGED <<rotation, pushed, env, acts>>

Clear(p) ==
    /\ pc[p] = "clear"
    /\ row' = [row EXCEPT ![job[p].conv].unroutable = FALSE]
    /\ Goto(p, "fit", job[p])
    /\ UNCHANGED <<rotation, pushed, env, acts>>

Fit(p) ==
    /\ pc[p] = "fit"
    /\ IF Servable(job[p].conv, job[p].cands) THEN Goto(p, "select", job[p]) ELSE Finish(p)
    /\ UNCHANGED <<row, rotation, pushed, env, acts>>

Drain(p) == Sweep(p) \/ Serve(p) \/ Mark(p) \/ Clear(p) \/ Fit(p) \/ SelectAndAssign(p)

----------------------------------------------------------------------------
(* ReturnOperatorWorkToBacklog, called on every offboarding tick for every     *)
(* operator who has left.                                                      *)

(* openWorkOf: a snapshot of the leaver's open work, oldest first.             *)
WorkToReturn(o) ==
    {c \in CountedWorkOf(o) : Cardinality({d \in CountedWorkOf(o) : d < c}) < Limit}

(* The lead of a desk, unless that is the leaver or somebody without an active *)
(* profile.                                                                    *)
Successors(leads, leaver) ==
    [d \in Desks |-> IF leads[d] = leaver \/ leads[d] = NoOne THEN NoOne
                     ELSE IF staff[leads[d]] = "gone" THEN NoOne ELSE leads[d]]

ReadOpenWork(p, o) ==
    /\ pc[p] = "idle" /\ p \in Handovers
    /\ staff[o] = "gone"
    /\ WorkToReturn(o) # {}
    /\ \E leads \in DeskLeads :
       Goto(p, "return",
            [NoJob EXCEPT !.pick = o, !.leads = Successors(leads, o), !.at = now,
                          !.batch = {ItemOf(c) : c \in WorkToReturn(o)}])
    /\ UNCHANGED <<row, rotation, pushed, env, acts>>

(* A variant with a bug: work that never had a desk goes nowhere.              *)
OwnDeskOnly(item) == item.desk

DestinationDesk(item) == IF item.desk = NoDesk THEN ChannelDesk[item.conv] ELSE item.desk

(* The first half of returnToBacklog's transaction: the row as it stands, if   *)
(* it is still the leaver's.  A conversation with no desk is left alone.       *)
ReadReturned(p) ==
    /\ pc[p] = "return"
    /\ \E item \in FirstOf(job[p].batch) :
       LET c    == item.conv
           d    == DestinationDesk(item)
           rest == [job[p] EXCEPT !.batch = @ \ {item}]
       IN  IF d \in Desks /\ row[c].owner = job[p].pick
           THEN Goto(p, "giveback", [rest EXCEPT !.conv = c, !.desk = d, !.stamp = row[c].at])
           ELSE IF rest.batch = {} THEN Goto(p, "idle", NoJob)
           ELSE Goto(p, "return", rest)
    /\ UNCHANGED <<row, rotation, pushed, env, acts>>

(* A variant with a bug: the handover restamps work that waits already.        *)
ReturnRestamped(p) ==
    /\ pc[p] = "giveback"
    /\ LET c  == job[p].conv
           to == job[p].leads[job[p].desk]
       IN  IF row[c].owner = job[p].pick
           THEN /\ row' = [row EXCEPT
                     ![c].owner = to,
                     ![c].at = IF to # NoOne THEN 0 ELSE job[p].at,
                     ![c].desk = job[p].desk,
                     ![c].unroutable = FALSE]
                /\ pushed' = [pushed EXCEPT ![c] = Unpushed]
           ELSE UNCHANGED <<row, pushed>>
    /\ IF job[p].batch = {} THEN Goto(p, "idle", NoJob)
       ELSE Goto(p, "return", [job[p] EXCEPT !.conv = NoOne, !.desk = NoDesk, !.stamp = 0])
    /\ UNCHANGED <<rotation, env, acts>>

(* Its second half: the owner and the queue stamp in one statement, asserting  *)
(* the leaver again.  A stamp it read wins over a new one.                     *)
ReturnToBacklog(p) ==
    /\ pc[p] = "giveback"
    /\ LET c  == job[p].conv
           to == job[p].leads[job[p].desk]
       IN  IF row[c].owner = job[p].pick
           THEN /\ row' = [row EXCEPT
                     ![c].owner = to,
                     ![c].at = IF to # NoOne THEN 0
                               ELSE IF job[p].stamp # 0 THEN job[p].stamp ELSE job[p].at,
                     ![c].desk = job[p].desk,
                     ![c].unroutable = FALSE]
                /\ pushed' = [pushed EXCEPT ![c] = Unpushed]
           ELSE UNCHANGED <<row, pushed>>
    /\ IF job[p].batch = {} THEN Goto(p, "idle", NoJob)
       ELSE Goto(p, "return", [job[p] EXCEPT !.conv = NoOne, !.desk = NoDesk, !.stamp = 0])
    /\ UNCHANGED <<rotation, env, acts>>

Handover(p) ==
    \/ \E o \in Operators : ReadOpenWork(p, o)
    \/ ReadReturned(p)
    \/ ReturnToBacklog(p)

----------------------------------------------------------------------------
(* What happens around the component.                                          *)

(* An operator comes to, or leaves, their desk; leaving the company is final.  *)
Presence(o, s) ==
    /\ staff[o] # "gone" /\ staff[o] # s
    /\ Act
    /\ staff' = [staff EXCEPT ![o] = s]
    /\ UNCHANGED <<row, rotation, pushed, routable, arriving, now, pc, job>>

(* An administrator turns a desk into a queue, or out of one.                  *)
SwitchDesk(d) ==
    /\ Act
    /\ routable' = IF d \in routable THEN routable \ {d} ELSE routable \cup {d}
    /\ UNCHANGED <<row, rotation, pushed, staff, arriving, now, pc, job>>

Tick ==
    /\ now < MaxNow
    /\ now' = now + 1
    /\ UNCHANGED <<row, rotation, pushed, staff, routable, arriving, pc, job, acts>>

----------------------------------------------------------------------------
Handler(p) ==
    \/ AutoAssignPool(p) \/ SelectAndAssign(p) \/ Enqueue(p)
    \/ SetAssignee(p) \/ SetStatus(p)

Request(p) ==
    \E c \in Conversations :
        \/ \E d \in Keys : AutoAssign(p, c, d)
        \/ \E o \in Operators \cup {NoOne} : AssignRequest(p, c, o)
        \/ \E open \in BOOLEAN : StatusRequest(p, c, open)

Environment ==
    \/ \E p \in Procs : Fail(p)
    \/ \E c \in Conversations, b \in BOOLEAN : SetShelf(c, b)
    \/ \E c \in Conversations : IntakeEnqueue(c)
    \/ \E o \in Operators, s \in {"here", "away", "gone"} : Presence(o, s)
    \/ \E d \in Desks : SwitchDesk(d)
    \/ Tick

Next ==
    \/ \E p \in Handlers : Request(p) \/ Handler(p)
    \/ \E p \in Drains : Drain(p)
    \/ \E p \in Handovers : Handover(p)
    \/ Environment

Spec == Init /\ [][Next]_vars

(* Ticks repeat for ever and a call that started runs on: the sweep job (every *)
(* 30 s), the offboarding job (every minute) and the requests in flight.       *)
FairSpec ==
    /\ Spec
    /\ \A p \in Handlers  : WF_vars(Handler(p))
    /\ \A p \in Drains    : WF_vars(Drain(p))
    /\ \A p \in Handovers : WF_vars(Handover(p))

----------------------------------------------------------------------------
Job == [conv : Conversations \cup {NoOne}, desk : Keys, cands : SUBSET Candidate,
        pick : Operators \cup {NoOne}, capacity : 0..MaxBudget, cursor : Operators \cup {NoOne},
        before : Operators \cup {NoOne},
        batch : SUBSET Item,
        leads : [Desks -> Operators \cup {NoOne}], at : Nat, stamp : Nat, open : BOOLEAN]

Label == {"idle", "pool", "select", "lock", "before", "claim", "dequeue", "enqueue",
          "assign", "status", "serve", "mark", "clear", "fit", "return", "giveback"}

(* What a process at this point has filled in.                                 *)
JobFits(l, j) ==
    /\ l \notin {"idle", "serve", "return"} => j.conv \in Conversations
    /\ l \in {"lock", "before", "claim", "dequeue", "return", "giveback"} => j.pick \in Operators
    /\ l = "giveback" => j.desk \in Desks

TypeOK ==
    /\ row \in [Conversations -> Row]
    /\ rotation \in [Keys -> Operators \cup {NoOne}]
    /\ staff \in [Operators -> {"here", "away", "gone"}]
    /\ routable \subseteq Desks
    /\ arriving \subseteq Conversations
    /\ pc \in [Procs -> Label]
    /\ job \in [Procs -> Job]
    /\ \A p \in Procs : JobFits(pc[p], job[p])
    /\ pushed \in [Conversations -> Keys \cup {Unpushed}]
    /\ now \in Nat
    /\ acts \in Nat

(* The open work an operator holds because a rotation gave it to them, and     *)
(* which nobody has reassigned or closed since.                                *)
PushedTo(o) == {c \in Conversations : pushed[c] # Unpushed /\ row[c].owner = o}

(* Concurrent routers never push a person past the budget ("the agent ended up *)
(* holding 7 of 6", round-robin-state.repository.ts:141), whatever people      *)
(* assign, close or reopen meanwhile: what the budget does not bound is only   *)
(* what a human handed over.                                                   *)
BudgetHeld == \A o \in Operators : Cardinality(PushedTo(o)) <= MaxBudget

(* The desk recorded on a conversation is the desk whose rotation assigned it, *)
(* for as long as that assignment stands ("the two can never disagree",        *)
(* round-robin-state.repository.ts:189), although enqueue writes the column    *)
(* too and other routers may have failed on another desk.                      *)
DeskTookIt ==
    \A c \in Conversations : pushed[c] \in Desks => row[c].desk = pushed[c]

(* Why the budget holds.  A router between the recount and its claim holds the *)
(* lock of the operator it picked, alone; until it commits, that operator has  *)
(* room; and what a rotation assigned is still open work of its owner, so the  *)
(* recount saw it.                                                             *)
Locked(p) == pc[p] \in {"before", "claim"}

LockInv == \A p, q \in Procs : p # q /\ Locked(p) /\ Locked(q) => job[p].pick # job[q].pick

RoomInv == \A p \in Procs : Locked(p) => Cardinality(PushedTo(job[p].pick)) < MaxBudget

PushedInv == \A c \in Conversations :
                pushed[c] # Unpushed => row[c].open /\ row[c].owner \in Operators

RouterInv == LockInv /\ RoomInv /\ PushedInv /\ DeskTookIt /\ BudgetHeld

(* While a conversation stays in the queue its place never gets worse: retries,*)
(* skips, a handover and a late handler may not demote it (backlog.ts:52).     *)
NoDemotion ==
    [][\A c \in Conversations :
          row[c].at # 0 /\ row'[c].at # 0 => row'[c].at <= row[c].at]_vars

(* Nothing joins the queue with an owner, whoever queues it: a router whose    *)
(* claim failed, the intake, or a handover to a lead.                          *)
JoinsUnowned ==
    [][\A c \in Conversations :
          row[c].at = 0 /\ row'[c].at # 0 => row'[c].owner = NoOne]_vars

(* Two routers never both claim: a router that read the conversation as        *)
(* unowned takes it only from nobody, and a handover takes it only from the    *)
(* leaver, so a reassignment made in between stands.                           *)
TakesWhatItRead ==
    [][\A p \in Procs :
          LET c == job[p].conv IN
          /\ (pc[p] = "claim" /\ pc'[p] = "dequeue" /\ job[p].before = NoOne)
                 => row[c].owner = NoOne
          /\ (pc[p] = "giveback" /\ acts' = acts /\ row'[c].owner # row[c].owner
                 /\ job'[p] # job[p])
                 => row[c].owner = job[p].pick]_vars

----------------------------------------------------------------------------
(* A waiting conversation somebody on its desk could take.  The last conjunct  *)
(* sets aside the desks where shelved work fills a unit under the lock that    *)
(* the pool calls free: there the pick fails on every tick.                    *)
CouldBeTaken(c) ==
    /\ c \in Waiting
    /\ row[c].desk \in routable
    /\ \E o \in MembersOf[row[c].desk] :
          /\ staff[o] = "here"
          /\ ~IsFull(OpenWorkOf(o), Exclusive, Budget[c])
          /\ c \in Exclusive => OpenWorkOf(o) = {}
    /\ \A o \in MembersOf[row[c].desk] : OpenWorkOf(o) = CountedWorkOf(o)

(* Queued work is not stranded: as long as the ticks come, no conversation     *)
(* waits for ever while somebody on its desk is there and has room, whatever   *)
(* requests raced the drain or died half way (spec FR-008).  Limit must reach  *)
(* past what nobody can take.                                                  *)
NoStarvation == \A c \in Conversations : ~<>[]CouldBeTaken(c)

LeftWithLeaver(c) ==
    /\ row[c].owner \in Operators
    /\ staff[row[c].owner] = "gone"
    /\ row[c].open /\ ~row[c].shelved
    /\ row[c].desk # NoDesk \/ ChannelDesk[c] # NoDesk

(* The work of somebody who left does not stay with them: the offboarding tick *)
(* moves all of it that has a desk to go to, also what a router or a colleague *)
(* still gave them after they left (staff-offboarding.job.ts:14, SEC-PV2).     *)
LeaverDrained == \A c \in Conversations : ~<>[]LeftWithLeaver(c)

=============================================================================
