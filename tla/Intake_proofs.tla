---------------------------- MODULE Intake_proofs ----------------------------
(* Proofs about Intake, for any number of passes, copies, channels and tickets,*)
(* any threading of the copies, and any number of faults and agents' acts.     *)
EXTENDS Intake, TLAPS

----------------------------------------------------------------------------
(* The inductive invariant.                                                    *)

Made == [status : Statuses, channel : Channels]
Job  == [batch : SUBSET Copies, copy : Copies \cup {0}, ticket : Tickets \cup {NoTicket}, created : BOOLEAN]

WritingAt == {"reopen", "create", "post", "release"}
WriterAt  == WritingAt \cup {"stamp"}

Safe(k) == Stored(k) \/ k \in spoiled

Tables ==
    /\ seen \subseteq Copies /\ queued \subseteq Tickets /\ spoiled \subseteq Keys
    /\ ledger \in [Keys -> Entry]
    /\ ticket \in [Tickets -> Made \cup {Unmade}]
    /\ message \in [Tickets -> SUBSET Ids]
    /\ \A t \in Tickets : message[t] # {} => ticket[t] \in Made
    /\ faults \in Nat /\ acts \in Nat

(* What a pass holds where it stands: the ticket it is to write to is one of   *)
(* the channel the copy came through, and past the post the message is there.  *)
Sound(l, j, tickets, messages) ==
    /\ l # "idle" => j.copy \in Copies
    /\ l \in {"claim-reopen", "reopen", "post", "stamp", "queue"} => j.ticket \in Tickets
    /\ j.ticket # NoTicket => tickets[j.ticket] \in Made /\ tickets[j.ticket].channel = ChannelOf[j.copy]
    /\ l \in {"stamp", "queue"} => IdOf[j.copy] \in messages[j.ticket]

Walks ==
    /\ pc \in [Passes -> Label] /\ job \in [Passes -> Job]
    /\ \A p \in Passes : Sound(pc[p], job[p], ticket, message)

(* Who writes holds the claim, alone.                                          *)
Claims ==
    /\ \A p \in Passes : pc[p] \in WriterAt => ledger[Key(p)].outcome = "accepted"
    /\ \A p, q \in Passes : p # q /\ pc[p] \in WriterAt /\ pc[q] \in WriterAt => Key(p) # Key(q)

(* An API message has no external_id to be unique by: its claim alone keeps a  *)
(* second writer away from what is stored.                                     *)
Fresh ==
    \A k \in Keys : k[1] \in ApiChannels /\ Stored(k) =>
        /\ ledger[k] # Absent
        /\ \A p \in Passes : pc[p] \in WritingAt => Key(p) # k

Single == \A k \in Keys : \A s, t \in Tickets : Holds(s, k) /\ Holds(t, k) => s = t

(* A row stands for a write under way, a message that is there, or one of the  *)
(* four routes to a loss; so does the answer a pass acknowledges.              *)
Accounted ==
    /\ \A k \in Keys : ledger[k] # Absent =>
          Safe(k) \/ \E q \in Passes : pc[q] \in WritingAt /\ Key(q) = k
    /\ \A p \in Passes : pc[p] = "mark" => Safe(Key(p))

Inv ==
    /\ Tables /\ Walks /\ Claims /\ Fresh /\ Single /\ Accounted
    /\ AnnouncedWhenThere /\ LostOnlyIfSpoiled

----------------------------------------------------------------------------
(* Deliveries and the tickets that hold them.                                  *)

LEMMA KeyType ==
  ASSUME NEW m \in Copies
  PROVE  KeyOf(m) \in Keys /\ KeyOf(m)[1] = ChannelOf[m] /\ KeyOf(m)[2] = IdOf[m]
  BY IntakeAssumption DEF KeyOf, Keys

LEMMA PassKey ==
  ASSUME Walks, NEW p \in Passes, pc[p] # "idle"
  PROVE  /\ job[p].copy \in Copies /\ Key(p) \in Keys
         /\ Key(p)[1] = ChannelOf[job[p].copy] /\ Key(p)[2] = IdOf[job[p].copy]
  BY KeyType DEF Walks, Sound, Key

LEMMA MadeIsMade == Unmade \notin Made
  BY DEF Unmade, Made, Statuses

(* The tickets of a step stay what they were, but for their status.            *)
Kept == \A t \in Tickets : ticket[t] \in Made =>
            ticket'[t] \in Made /\ ticket'[t].channel = ticket[t].channel

LEMMA HoldsSame ==
  ASSUME Tables, Kept, message' = message, NEW t \in Tickets, NEW k
  PROVE  Holds(t, k)' <=> Holds(t, k)
<1>1. CASE message[t] = {}
  BY <1>1 DEF Holds
<1>2. CASE message[t] # {}
  <2>1. ticket'[t].channel = ticket[t].channel
    BY <1>2 DEF Tables, Kept
  <2>2. QED
    BY <2>1 DEF Holds
<1>3. QED
  BY <1>1, <1>2

LEMMA StoredSame ==
  ASSUME Tables, Kept, message' = message, NEW k
  PROVE  Stored(k)' <=> Stored(k)
<1>1. \A t \in Tickets : Holds(t, k)' <=> Holds(t, k)
  BY HoldsSame
<1>2. QED
  BY <1>1 DEF Stored

LEMMA SpoilDoes ==
  ASSUME Tables, NEW k \in Keys, Spoil(k)
  PROVE  spoiled \subseteq spoiled' /\ spoiled' \subseteq Keys /\ (Stored(k) \/ k \in spoiled')
  BY DEF Tables, Spoil

----------------------------------------------------------------------------
(* The initial states.                                                         *)

LEMMA NoJobIsJob == NoJob \in Job /\ NoJob.ticket = NoTicket
  BY DEF NoJob, Job

LEMMA AbsentEntry == Absent \in Entry /\ Absent.ticket = NoTicket /\ Absent.outcome = "none"
  BY DEF Absent, Entry

LEMMA InitInv == Init => Inv
<1> SUFFICES ASSUME Init PROVE Inv
  OBVIOUS
<1>1. Tables
  BY AbsentEntry DEF Init, Tables
<1>2. Walks
  BY NoJobIsJob DEF Init, Walks, Label, Sound
<1>3. \A t \in Tickets, k \in Keys : ~Holds(t, k)
  BY DEF Init, Holds
<1>4. Claims /\ Fresh /\ Single /\ Accounted
  BY <1>3 DEF Init, Claims, Fresh, Single, Accounted, Stored, WriterAt, WritingAt
<1>5. AnnouncedWhenThere /\ LostOnlyIfSpoiled
  BY AbsentEntry DEF Init, AnnouncedWhenThere, LostOnlyIfSpoiled
<1>6. QED
  BY <1>1, <1>2, <1>4, <1>5 DEF Inv

----------------------------------------------------------------------------
(* A pass moves, and the others stay where they are.                           *)

Moves(p, l, j) ==
    /\ pc' \in [Passes -> Label] /\ job' \in [Passes -> Job]
    /\ pc'[p] = l /\ job'[p] = j
    /\ \A q \in Passes \ {p} : pc'[q] = pc[q] /\ job'[q] = job[q]

LEMMA GotoMoves ==
  ASSUME Walks, NEW p \in Passes, NEW l \in Label, Goto(p, l)
  PROVE  Moves(p, l, job[p])
  BY DEF Walks, Goto, Moves

LEMMA GotoWithMoves ==
  ASSUME Walks, NEW p \in Passes, NEW l \in Label, NEW j \in Job, GotoWith(p, l, j)
  PROVE  Moves(p, l, j)
  BY DEF Walks, GotoWith, Moves

(* On to the next message: nothing is held but the copy.                       *)
LEMMA WorkOnMoves ==
  ASSUME Walks, NEW p \in Passes, NEW batch \in SUBSET Copies, WorkOn(p, batch)
  PROVE  \E l \in {"idle", "accept"}, j \in Job :
            Moves(p, l, j) /\ \A tickets, messages : Sound(l, j, tickets, messages)
<1>1. CASE batch = {} /\ GotoWith(p, "idle", NoJob)
  <2>1. Moves(p, "idle", NoJob)
    BY <1>1, NoJobIsJob, GotoWithMoves DEF Label
  <2>2. \A tickets, messages : Sound("idle", NoJob, tickets, messages)
    BY NoJobIsJob DEF Sound
  <2>3. QED
    BY <2>1, <2>2, NoJobIsJob
<1>2. ASSUME NEW m \in batch, GotoWith(p, "accept", [NoJob EXCEPT !.copy = m, !.batch = batch \ {m}])
      PROVE  \E l \in {"idle", "accept"}, j \in Job :
                Moves(p, l, j) /\ \A tickets, messages : Sound(l, j, tickets, messages)
  <2> DEFINE j == [NoJob EXCEPT !.copy = m, !.batch = batch \ {m}]
  <2>1. j \in Job /\ j.copy = m /\ j.ticket = NoTicket
    BY DEF NoJob, Job
  <2> HIDE DEF j
  <2>2. Moves(p, "accept", j)
    BY <1>2, <2>1, GotoWithMoves DEF Label, j
  <2>3. \A tickets, messages : Sound("accept", j, tickets, messages)
    BY <2>1 DEF Sound
  <2>4. QED
    BY <2>1, <2>2, <2>3
<1>3. QED
  BY <1>1, <1>2 DEF WorkOn

(* The tickets are kept and the messages grow, so that the others still hold   *)
(* what they held.                                                             *)
LEMMA MoveWalks ==
  ASSUME Walks, NEW p \in Passes, NEW l, NEW j, Moves(p, l, j), Kept,
         \A t \in Tickets : message[t] \subseteq message'[t],
         Sound(l, j, ticket', message')
  PROVE  Walks'
<1>1. ASSUME NEW q \in Passes PROVE Sound(pc'[q], job'[q], ticket', message')
  <2>1. CASE q = p
    BY <2>1 DEF Moves
  <2>2. CASE q # p
    <3>1. pc'[q] = pc[q] /\ job'[q] = job[q] /\ Sound(pc[q], job[q], ticket, message) /\ job[q] \in Job
      BY <2>2 DEF Moves, Walks
    <3>2. job[q].ticket \in Tickets \cup {NoTicket}
      BY <3>1 DEF Job
    <3>3. QED
      BY <3>1, <3>2 DEF Sound, Kept
  <2>3. QED
    BY <2>1, <2>2
<1>2. QED
  BY <1>1 DEF Walks, Moves

----------------------------------------------------------------------------
(* Steps that leave the ledger and the messages alone: nobody comes to write   *)
(* who did not, who stops has stored it or spoiled it, and what is             *)
(* acknowledged is safe.                                                       *)

LEMMA QuietStep ==
  ASSUME Inv, Tables', Walks', ledger' = ledger, message' = message, Kept, spoiled \subseteq spoiled',
         \A q \in Passes : pc'[q] \in WriterAt => pc[q] \in WriterAt /\ job'[q].copy = job[q].copy,
         \A q \in Passes : pc'[q] \in WritingAt => pc[q] \in WritingAt,
         \A q \in Passes : pc[q] \in WritingAt =>
            \/ pc'[q] \in WritingAt /\ job'[q].copy = job[q].copy
            \/ Stored(Key(q)) \/ Key(q) \in spoiled',
         \A q \in Passes : pc'[q] = "mark" =>
            Stored(KeyOf(job'[q].copy)) \/ KeyOf(job'[q].copy) \in spoiled',
         \A m \in seen' : Stored(KeyOf(m)) \/ KeyOf(m) \in spoiled',
         \A t \in queued' : message[t] # {}
  PROVE  Inv'
<1>1. \A t \in Tickets, k \in Keys : Holds(t, k)' <=> Holds(t, k)
  BY HoldsSame DEF Inv
<1>2. \A k : Stored(k)' <=> Stored(k)
  BY StoredSame DEF Inv
<1>3. \A q \in Passes : pc'[q] \in WriterAt => pc[q] \in WriterAt /\ Key(q)' = Key(q)
  BY DEF Key
<1>4. Claims'
  BY <1>3 DEF Inv, Claims
<1>5. Fresh'
  <2>1. \A q \in Passes : pc'[q] \in WritingAt => pc[q] \in WritingAt /\ Key(q)' = Key(q)
    BY <1>3 DEF WriterAt
  <2>2. QED
    BY <1>2, <2>1 DEF Inv, Fresh
<1>6. Single'
  BY <1>1 DEF Inv, Single
<1>7. Accounted'
  <2>1. ASSUME NEW k \in Keys, ledger[k] # Absent
        PROVE  Safe(k)' \/ \E q \in Passes : pc'[q] \in WritingAt /\ Key(q)' = k
    <3>1. CASE Safe(k)
      BY <1>2, <3>1 DEF Safe
    <3>2. CASE \E q \in Passes : pc[q] \in WritingAt /\ Key(q) = k
      <4>1. PICK q \in Passes : pc[q] \in WritingAt /\ Key(q) = k
        BY <3>2
      <4>2. CASE pc'[q] \in WritingAt /\ job'[q].copy = job[q].copy
        BY <4>1, <4>2 DEF Key
      <4>3. CASE Stored(Key(q)) \/ Key(q) \in spoiled'
        BY <1>2, <4>1, <4>3 DEF Safe
      <4>4. QED
        BY <4>1, <4>2, <4>3
    <3>3. QED
      BY <2>1, <3>1, <3>2 DEF Inv, Accounted
  <2>2. \A q \in Passes : pc'[q] = "mark" => Safe(Key(q))'
    BY <1>2 DEF Safe, Key
  <2>3. QED
    BY <2>1, <2>2 DEF Accounted
<1>8. AnnouncedWhenThere'
  BY DEF Inv, AnnouncedWhenThere
<1>9. LostOnlyIfSpoiled'
  BY <1>2 DEF LostOnlyIfSpoiled
<1>10. QED
  BY <1>4, <1>5, <1>6, <1>7, <1>8, <1>9 DEF Inv

(* ... of one pass.                                                            *)
LEMMA QuietMove ==
  ASSUME Inv, Tables', NEW p \in Passes, NEW l, NEW j, Moves(p, l, j),
         ledger' = ledger, message' = message, Kept, spoiled \subseteq spoiled',
         Sound(l, j, ticket', message'),
         l \in WriterAt => pc[p] \in WriterAt /\ j.copy = job[p].copy,
         l \in WritingAt => pc[p] \in WritingAt,
         pc[p] \in WritingAt => l \in WritingAt \/ Stored(Key(p)) \/ Key(p) \in spoiled',
         l = "mark" => Stored(KeyOf(j.copy)) \/ KeyOf(j.copy) \in spoiled',
         \A m \in seen' \ seen : Stored(KeyOf(m)) \/ KeyOf(m) \in spoiled',
         \A t \in queued' \ queued : message[t] # {}
  PROVE  Inv'
<1>1. Walks'
  BY MoveWalks DEF Inv
<1>2. \A q \in Passes : pc'[q] \in WriterAt => pc[q] \in WriterAt /\ job'[q].copy = job[q].copy
  BY DEF Moves
<1>3. \A q \in Passes : pc'[q] \in WritingAt => pc[q] \in WritingAt
  BY DEF Moves
<1>4. \A q \in Passes : pc[q] \in WritingAt =>
            \/ pc'[q] \in WritingAt /\ job'[q].copy = job[q].copy
            \/ Stored(Key(q)) \/ Key(q) \in spoiled'
  <2>1. l \in WritingAt => l \in WriterAt
    BY DEF WriterAt
  <2>2. QED
    BY <2>1 DEF Moves
<1>5. ASSUME NEW q \in Passes, pc'[q] = "mark"
      PROVE  Stored(KeyOf(job'[q].copy)) \/ KeyOf(job'[q].copy) \in spoiled'
  <2>1. CASE q = p
    BY <1>5, <2>1 DEF Moves
  <2>2. CASE q # p
    <3>1. pc[q] = "mark" /\ job'[q] = job[q]
      BY <1>5, <2>2 DEF Moves
    <3>2. Safe(Key(q))
      BY <3>1 DEF Inv, Accounted
    <3>3. QED
      BY <3>1, <3>2 DEF Safe, Key
  <2>3. QED
    BY <2>1, <2>2
<1>6. \A m \in seen' : Stored(KeyOf(m)) \/ KeyOf(m) \in spoiled'
  BY DEF Inv, LostOnlyIfSpoiled
<1>7. \A t \in queued' : message[t] # {}
  BY DEF Inv, AnnouncedWhenThere
<1>8. QED
  BY <1>1, <1>2, <1>3, <1>4, <1>5, <1>6, <1>7, QuietStep

LEMMA SameTickets == ASSUME ticket' = ticket PROVE Kept
  BY DEF Kept

LEMMA QuietTables ==
  ASSUME Tables, UNCHANGED <<ledger, ticket, message, acts>>,
         seen' \subseteq Copies, queued' \subseteq Tickets, spoiled' \subseteq Keys,
         faults' = faults \/ faults' = faults + 1
  PROVE  Tables'
  BY DEF Tables

LEMMA LabelSets ==
  /\ WriterAt = {"reopen", "create", "post", "release", "stamp"}
  /\ WritingAt = {"reopen", "create", "post", "release"}
  BY DEF WriterAt, WritingAt

LEMMA SearchKeeps == ASSUME Inv, NEW p \in Passes, Search(p) PROVE Inv'
<1>1. pc[p] = "idle" /\ UNCHANGED <<seen, ledger, ticket, message, queued, spoiled, faults, acts>>
  BY DEF Search, store
<1>2. \E batch \in SUBSET Copies : WorkOn(p, batch)
  BY DEF Search
<1>3. PICK l \in {"idle", "accept"}, j \in Job :
              Moves(p, l, j) /\ \A tickets, messages : Sound(l, j, tickets, messages)
  BY <1>2, WorkOnMoves DEF Inv
<1>4. Tables'
  BY <1>1, QuietTables DEF Inv, Tables
<1>5. QED
  BY <1>1, <1>3, <1>4, SameTickets, LabelSets, QuietMove

(* What is acknowledged is safe.                                               *)
LEMMA MarkSeenKeeps == ASSUME Inv, NEW p \in Passes, MarkSeen(p) PROVE Inv'
<1>1. /\ pc[p] = "mark" /\ UNCHANGED <<ledger, ticket, message, queued, spoiled, acts>>
      /\ WorkOn(p, job[p].batch) /\ seen' \in {seen, seen \cup {job[p].copy}}
      /\ faults' = faults \/ faults' = faults + 1
  BY DEF MarkSeen, store, NextMessage, Fault
<1>2. job[p].copy \in Copies /\ job[p].batch \in SUBSET Copies /\ Safe(Key(p))
  BY <1>1, PassKey DEF Inv, Walks, Job, Accounted
<1>3. PICK l \in {"idle", "accept"}, j \in Job :
              Moves(p, l, j) /\ \A tickets, messages : Sound(l, j, tickets, messages)
  BY <1>1, <1>2, WorkOnMoves DEF Inv
<1>4. Tables'
  BY <1>1, <1>2, QuietTables DEF Inv, Tables
<1>5. \A m \in seen' \ seen : Stored(KeyOf(m)) \/ KeyOf(m) \in spoiled'
  BY <1>1, <1>2 DEF Safe, Key
<1>6. QED
  BY <1>1, <1>3, <1>4, <1>5, SameTickets, LabelSets, QuietMove

(* The ticket of a thread holds a message, and is of the copy's channel.       *)
LEMMA DecideKeeps == ASSUME Inv, NEW p \in Passes, Decide(p) PROVE Inv'
<1>1. pc[p] = "accept" /\ UNCHANGED <<seen, ledger, ticket, message, queued, spoiled, faults, acts>>
  BY DEF Decide, store
<1>2. job[p] \in Job /\ job[p].copy \in Copies /\ Sound("accept", job[p], ticket, message)
  BY <1>1, PassKey DEF Inv, Walks
<1>3. Tables'
  BY <1>1, QuietTables DEF Inv, Tables
<1>4. ASSUME NEW t \in Match(job[p].copy), NEW l \in {"claim", "claim-reopen"},
             GotoWith(p, l, [job[p] EXCEPT !.ticket = t])
      PROVE  Inv'
  <2> DEFINE j == [job[p] EXCEPT !.ticket = t]
  <2>1. /\ t \in Tickets /\ ticket[t].channel = ChannelOf[job[p].copy] /\ ticket[t] \in Made
    BY DEF Match, Inv, Tables
  <2>2. j \in Job /\ j.copy = job[p].copy /\ j.ticket = t
    BY <1>2, <2>1 DEF Job
  <2> HIDE DEF j
  <2>3. l \in Label /\ Moves(p, l, j)
    BY <1>4, <2>2, GotoWithMoves DEF Label, j, Inv
  <2>4. Sound(l, j, ticket', message')
    BY <1>1, <1>2, <2>1, <2>2 DEF Sound
  <2>5. QED
    BY <1>1, <1>3, <2>3, <2>4, SameTickets, LabelSets, QuietMove
<1>5. CASE Goto(p, "claim")
  <2>1. "claim" \in Label /\ Moves(p, "claim", job[p])
    BY <1>5, GotoMoves DEF Label, Inv
  <2>2. Sound("claim", job[p], ticket', message')
    BY <1>1, <1>2 DEF Sound
  <2>3. QED
    BY <1>1, <1>3, <2>1, <2>2, SameTickets, LabelSets, QuietMove
<1>6. QED
  BY <1>4, <1>5 DEF Decide

LEMMA RefuseKeeps == ASSUME Inv, NEW p \in Passes, Refuse(p) PROVE Inv'
<1>1. /\ pc[p] = "accept" /\ UNCHANGED <<seen, ledger, ticket, message, queued, spoiled, acts>>
      /\ faults' = faults + 1
  BY DEF Refuse, store, Fault
<1>2. Sound("accept", job[p], ticket, message)
  BY <1>1 DEF Inv, Walks
<1>3. Moves(p, "refuse", job[p])
  BY GotoMoves DEF Refuse, Label, Inv
<1>4. Tables'
  BY <1>1, QuietTables DEF Inv, Tables
<1>5. Sound("refuse", job[p], ticket', message')
  BY <1>1, <1>2 DEF Sound
<1>6. QED
  BY <1>1, <1>3, <1>4, <1>5, SameTickets, LabelSets, QuietMove

LEMMA WriteFailsKeeps == ASSUME Inv, NEW p \in Passes, WriteFails(p) PROVE Inv'
<1>1. /\ pc[p] \in {"reopen", "create", "post"}
      /\ UNCHANGED <<seen, ledger, ticket, message, queued, spoiled, acts>> /\ faults' = faults + 1
  BY DEF WriteFails, store, Fault
<1>2. Sound(pc[p], job[p], ticket, message)
  BY DEF Inv, Walks
<1>3. Moves(p, "release", job[p])
  BY GotoMoves DEF WriteFails, Label, Inv
<1>4. Tables'
  BY <1>1, QuietTables DEF Inv, Tables
<1>5. Sound("release", job[p], ticket', message')
  BY <1>1, <1>2 DEF Sound
<1>6. QED
  BY <1>1, <1>3, <1>4, <1>5, SameTickets, LabelSets, QuietMove

LEMMA EnqueueKeeps == ASSUME Inv, NEW p \in Passes, Enqueue(p) PROVE Inv'
<1>1. /\ pc[p] = "queue" /\ UNCHANGED <<seen, ledger, ticket, message, spoiled, acts>>
      /\ queued' \in {queued, queued \cup {job[p].ticket}}
      /\ faults' = faults \/ faults' = faults + 1
  BY DEF Enqueue, Fault
<1>2. Sound("queue", job[p], ticket, message) /\ job[p].copy \in Copies /\ job[p] \in Job
  BY <1>1, PassKey DEF Inv, Walks
<1>3. /\ job[p].ticket \in Tickets /\ IdOf[job[p].copy] \in message[job[p].ticket]
      /\ ticket[job[p].ticket].channel = ChannelOf[job[p].copy]
  BY <1>2, IntakeAssumption DEF Sound
<1>4. Moves(p, "mark", job[p])
  BY GotoMoves DEF Enqueue, Label, Inv
<1>5. Tables'
  BY <1>1, <1>3, QuietTables DEF Inv, Tables
<1>6. Stored(KeyOf(job[p].copy))
  BY <1>2, <1>3, KeyType DEF Stored, Holds
<1>7. Sound("mark", job[p], ticket', message')
  BY <1>1, <1>2 DEF Sound
<1>8. QED
  BY <1>1, <1>3, <1>4, <1>5, <1>6, <1>7, SameTickets, LabelSets, QuietMove

LEMMA CrashKeeps == ASSUME Inv, NEW p \in Passes, Crash(p) PROVE Inv'
<1>1. /\ pc[p] # "idle" /\ UNCHANGED <<seen, ledger, ticket, message, queued, acts>> /\ faults' = faults + 1
      /\ IF pc[p] \in WritingAt THEN Spoil(Key(p)) ELSE UNCHANGED spoiled
  BY DEF Crash, store, Fault, Writing, WritingAt
<1>2. Key(p) \in Keys
  BY <1>1, PassKey DEF Inv
<1>3. /\ spoiled \subseteq spoiled' /\ spoiled' \subseteq Keys
      /\ pc[p] \in WritingAt => Stored(Key(p)) \/ Key(p) \in spoiled'
  BY <1>1, <1>2, SpoilDoes DEF Inv, Tables
<1>4. Moves(p, "idle", NoJob)
  BY NoJobIsJob, GotoWithMoves DEF Crash, Label, Inv
<1>5. Tables'
  BY <1>1, <1>3, QuietTables DEF Inv, Tables
<1>6. Sound("idle", NoJob, ticket', message')
  BY NoJobIsJob DEF Sound
<1>7. QED
  BY <1>1, <1>3, <1>4, <1>5, <1>6, SameTickets, LabelSets, QuietMove

(* The status of a ticket is no part of what holds a message.                  *)
LEMMA StatusTables ==
  ASSUME Tables, NEW t \in Tickets, NEW s \in Statuses, ticket[t] \in Made,
         ticket' = [ticket EXCEPT ![t].status = s],
         UNCHANGED <<seen, ledger, message, queued, spoiled, faults>>, acts' = acts \/ acts' = acts + 1
  PROVE  Tables' /\ Kept
<1> DEFINE r == [ticket[t] EXCEPT !.status = s]
<1>1. r \in Made /\ r.channel = ticket[t].channel
  BY DEF Made
<1>2. ticket' = [ticket EXCEPT ![t] = r]
  OBVIOUS
<1> HIDE DEF r
<1>3. /\ ticket' \in [Tickets -> Made \cup {Unmade}] /\ ticket'[t] = r
      /\ \A u \in Tickets \ {t} : ticket'[u] = ticket[u]
  BY <1>1, <1>2 DEF Tables
<1>4. QED
  BY <1>1, <1>3 DEF Tables, Kept

LEMMA ReopenKeeps == ASSUME Inv, NEW p \in Passes, Reopen(p) PROVE Inv'
<1>1. /\ pc[p] = "reopen" /\ ticket' = [ticket EXCEPT ![job[p].ticket].status = "open"]
      /\ UNCHANGED <<seen, ledger, message, queued, spoiled, faults, acts>>
  BY DEF Reopen
<1>2. Sound("reopen", job[p], ticket, message)
  BY <1>1 DEF Inv, Walks
<1>3. job[p].ticket \in Tickets /\ ticket[job[p].ticket] \in Made
  BY <1>2, IntakeAssumption DEF Sound
<1>4. Tables' /\ Kept
  BY <1>1, <1>3, StatusTables DEF Inv, Statuses
<1>5. Moves(p, "post", job[p])
  BY GotoMoves DEF Reopen, Label, Inv
<1>6. Sound("post", job[p], ticket', message')
  BY <1>2, <1>3, <1>4 DEF Sound, Kept
<1>7. QED
  BY <1>1, <1>4, <1>5, <1>6, LabelSets, QuietMove

LEMMA CreateKeeps == ASSUME Inv, NEW p \in Passes, Create(p) PROVE Inv'
<1>1. PICK t \in Tickets :
              /\ ticket[t] = Unmade
              /\ ticket' = [ticket EXCEPT ![t] = [status |-> "new", channel |-> Key(p)[1]]]
              /\ GotoWith(p, "post", [job[p] EXCEPT !.ticket = t, !.created = TRUE])
  BY DEF Create
<1>2. pc[p] = "create" /\ UNCHANGED <<seen, ledger, message, queued, spoiled, faults, acts>>
  BY DEF Create
<1>3. job[p] \in Job /\ job[p].copy \in Copies /\ Key(p)[1] = ChannelOf[job[p].copy]
  BY <1>2, PassKey DEF Inv, Walks
<1>4. ChannelOf[job[p].copy] \in Channels
  BY <1>3, IntakeAssumption
<1> DEFINE r == [status |-> "new", channel |-> Key(p)[1]]
           j == [job[p] EXCEPT !.ticket = t, !.created = TRUE]
<1>5. r \in Made /\ r.channel = ChannelOf[job[p].copy]
  BY <1>3, <1>4 DEF Made, Statuses
<1>6. j \in Job /\ j.copy = job[p].copy /\ j.ticket = t
  BY <1>3 DEF Job
<1>7. Moves(p, "post", j)
  BY <1>1, <1>6, GotoWithMoves DEF Label, Inv
<1>8. ticket' = [ticket EXCEPT ![t] = r]
  BY <1>1
<1> HIDE DEF r, j
<1>9. /\ ticket' \in [Tickets -> Made \cup {Unmade}] /\ ticket'[t] = r
      /\ \A u \in Tickets \ {t} : ticket'[u] = ticket[u]
  BY <1>5, <1>8 DEF Inv, Tables
<1>10. Tables' /\ Kept
  BY <1>1, <1>2, <1>5, <1>9, MadeIsMade DEF Inv, Tables, Kept
<1>11. Sound("post", j, ticket', message')
  BY <1>3, <1>5, <1>6, <1>9 DEF Sound
<1>12. QED
  BY <1>2, <1>6, <1>7, <1>10, <1>11, LabelSets, QuietMove

LEMMA AgentKeeps ==
  ASSUME Inv, NEW t \in Tickets, NEW s \in Statuses, AgentSetsStatus(t, s)
  PROVE  Inv'
<1>1. /\ ticket[t] \in Made /\ ticket' = [ticket EXCEPT ![t].status = s]
      /\ UNCHANGED <<seen, ledger, message, queued, pc, job, spoiled, faults>> /\ acts' = acts + 1
  BY DEF AgentSetsStatus, Inv, Tables
<1>2. Tables' /\ Kept
  BY <1>1, StatusTables DEF Inv
<1>3. Walks'
  <2>1. ASSUME NEW q \in Passes PROVE Sound(pc[q], job[q], ticket', message')
    <3>1. Sound(pc[q], job[q], ticket, message) /\ job[q].ticket \in Tickets \cup {NoTicket}
      BY DEF Inv, Walks, Job
    <3>2. QED
      BY <1>1, <1>2, <3>1 DEF Sound, Kept
  <2>2. QED
    BY <1>1, <2>1 DEF Inv, Walks
<1>4. \A q \in Passes : pc'[q] = "mark" =>
            Stored(KeyOf(job'[q].copy)) \/ KeyOf(job'[q].copy) \in spoiled'
  BY <1>1 DEF Inv, Accounted, Safe, Key
<1>5. \A m \in seen' : Stored(KeyOf(m)) \/ KeyOf(m) \in spoiled'
  BY <1>1 DEF Inv, LostOnlyIfSpoiled
<1>6. \A u \in queued' : message[u] # {}
  BY <1>1 DEF Inv, AnnouncedWhenThere
<1>7. QED
  BY <1>1, <1>2, <1>3, <1>4, <1>5, <1>6, QuietStep

----------------------------------------------------------------------------
(* Steps that write the row of the delivery a pass holds: a claim, a refusal,  *)
(* a claim given back, a stamp.                                                *)

LEMMA LedgerMove ==
  ASSUME Inv, Tables', NEW p \in Passes, pc[p] # "idle", NEW l, NEW j, Moves(p, l, j),
         UNCHANGED <<seen, ticket, message, queued>>, spoiled \subseteq spoiled',
         Sound(l, j, ticket, message),
         NEW k \in Keys, k = Key(p), NEW e \in Entry, ledger' = [ledger EXCEPT ![k] = e],
         \A q \in Passes \ {p} : pc[q] \in WriterAt => Key(q) # k,
         l \in WriterAt => l \in WritingAt /\ j.copy = job[p].copy /\ e.outcome = "accepted",
         k[1] \in ApiChannels /\ Stored(k) => e # Absent /\ l \notin WritingAt,
         e # Absent => Stored(k) \/ k \in spoiled' \/ l \in WritingAt,
         e.ticket # NoTicket => e.outcome = "accepted" /\ k[2] \in message[e.ticket],
         l = "mark" => j.copy = job[p].copy /\ (Stored(k) \/ k \in spoiled')
  PROVE  Inv'
<1>1. Kept
  BY SameTickets
<1>2. Walks'
  BY <1>1, MoveWalks DEF Inv
<1>3. \A t \in Tickets, m \in Keys : Holds(t, m)' <=> Holds(t, m)
  BY <1>1, HoldsSame DEF Inv
<1>4. \A m : Stored(m)' <=> Stored(m)
  BY <1>1, StoredSame DEF Inv
<1>5. ledger'[k] = e /\ \A m \in Keys \ {k} : ledger'[m] = ledger[m]
  BY DEF Inv, Tables
<1>6. \A q \in Passes \ {p} : pc'[q] = pc[q] /\ job'[q] = job[q] /\ Key(q)' = Key(q)
  BY DEF Moves, Key
<1>7. /\ pc'[p] = l
      /\ l \in WriterAt \/ l = "mark" => Key(p)' = k
      /\ l \in WritingAt => l \in WriterAt
  BY DEF Moves, Key, WriterAt
<1>8. \A q \in Passes : pc[q] \in WriterAt => Key(q) \in Keys
  BY PassKey DEF Inv, WriterAt, WritingAt
<1>9. Claims'
  <2>1. ASSUME NEW q \in Passes, pc'[q] \in WriterAt
        PROVE  ledger'[Key(q)'].outcome = "accepted"
    <3>1. CASE q = p
      BY <1>5, <1>7, <2>1, <3>1
    <3>2. CASE q # p
      BY <1>5, <1>6, <1>8, <2>1, <3>2 DEF Inv, Claims
    <3>3. QED
      BY <3>1, <3>2
  <2>2. ASSUME NEW q \in Passes, NEW r \in Passes, q # r, pc'[q] \in WriterAt, pc'[r] \in WriterAt
        PROVE  Key(q)' # Key(r)'
    <3>1. CASE q = p
      BY <1>6, <1>7, <2>2, <3>1
    <3>2. CASE r = p
      BY <1>6, <1>7, <2>2, <3>2
    <3>3. CASE q # p /\ r # p
      BY <1>6, <2>2, <3>3 DEF Inv, Claims
    <3>4. QED
      BY <3>1, <3>2, <3>3
  <2>3. QED
    BY <2>1, <2>2 DEF Claims
<1>10. Fresh'
  <2>1. ASSUME NEW m \in Keys, m[1] \in ApiChannels, Stored(m)'
        PROVE  ledger'[m] # Absent /\ \A q \in Passes : pc'[q] \in WritingAt => Key(q)' # m
    <3>1. /\ ledger[m] # Absent /\ \A q \in Passes : pc[q] \in WritingAt => Key(q) # m
      BY <1>4, <2>1 DEF Inv, Fresh
    <3>2. ledger'[m] # Absent
      BY <1>4, <1>5, <2>1, <3>1
    <3>3. ASSUME NEW q \in Passes, pc'[q] \in WritingAt PROVE Key(q)' # m
      <4>1. CASE q = p
        BY <1>4, <1>7, <2>1, <3>3, <4>1
      <4>2. CASE q # p
        BY <1>6, <3>1, <3>3, <4>2
      <4>3. QED
        BY <4>1, <4>2
    <3>4. QED
      BY <3>2, <3>3
  <2>2. QED
    BY <2>1 DEF Fresh
<1>11. Single'
  BY <1>3 DEF Inv, Single
<1>12. Accounted'
  <2>1. ASSUME NEW m \in Keys, ledger'[m] # Absent
        PROVE  Safe(m)' \/ \E q \in Passes : pc'[q] \in WritingAt /\ Key(q)' = m
    <3>1. CASE m = k
      BY <1>4, <1>5, <1>7, <2>1, <3>1 DEF Safe
    <3>2. CASE m # k
      <4>1. Safe(m) \/ \E q \in Passes : pc[q] \in WritingAt /\ Key(q) = m
        BY <1>5, <2>1, <3>2 DEF Inv, Accounted
      <4>2. QED
        BY <1>4, <1>6, <3>2, <4>1 DEF Safe
    <3>3. QED
      BY <3>1, <3>2
  <2>2. ASSUME NEW q \in Passes, pc'[q] = "mark" PROVE Safe(Key(q))'
    <3>1. CASE q = p
      BY <1>4, <1>7, <2>2, <3>1 DEF Safe
    <3>2. CASE q # p
      <4>1. Safe(Key(q)) /\ Key(q)' = Key(q)
        BY <1>6, <2>2, <3>2 DEF Inv, Accounted
      <4>2. QED
        BY <1>4, <4>1 DEF Safe
    <3>3. QED
      BY <3>1, <3>2
  <2>3. QED
    BY <2>1, <2>2 DEF Accounted
<1>13. AnnouncedWhenThere'
  BY <1>5 DEF Inv, AnnouncedWhenThere
<1>14. LostOnlyIfSpoiled'
  BY <1>4 DEF Inv, LostOnlyIfSpoiled
<1>15. QED
  BY <1>2, <1>9, <1>10, <1>11, <1>12, <1>13, <1>14 DEF Inv

LEMMA LedgerTables ==
  ASSUME Tables, UNCHANGED <<seen, ticket, message, queued, acts>>, spoiled' \subseteq Keys,
         faults' = faults, NEW k \in Keys, NEW e \in Entry, ledger' = [ledger EXCEPT ![k] = e]
  PROVE  Tables'
  BY DEF Tables

(* A refusal is put into a row only where there is none, and spoils it.        *)
LEMMA RecordRefusalKeeps == ASSUME Inv, NEW p \in Passes, RecordRefusal(p) PROVE Inv'
<1> DEFINE k == Key(p)
           e == [outcome |-> "refused", ticket |-> NoTicket]
<1>1. /\ pc[p] = "refuse" /\ UNCHANGED <<seen, ticket, message, queued, faults, acts>>
      /\ WorkOn(p, job[p].batch)
  BY DEF RecordRefusal, NextMessage
<1>2. k \in Keys /\ job[p].batch \in SUBSET Copies
  BY <1>1, PassKey DEF Inv, Walks, Job
<1>3. PICK l \in {"idle", "accept"}, j \in Job :
              Moves(p, l, j) /\ \A tickets, messages : Sound(l, j, tickets, messages)
  BY <1>1, <1>2, WorkOnMoves DEF Inv
<1>4. CASE ledger[k] = Absent /\ Spoil(k) /\ ledger' = [ledger EXCEPT ![k].outcome = "refused"]
  <2>1. e \in Entry /\ e.ticket = NoTicket
    BY DEF Entry
  <2>2. ledger' = [ledger EXCEPT ![k] = e]
    <3>1. [ledger[k] EXCEPT !.outcome = "refused"] = e
      BY <1>4 DEF Absent
    <3>2. QED
      BY <1>4, <3>1
  <2> HIDE DEF e
  <2>3. spoiled \subseteq spoiled' /\ spoiled' \subseteq Keys /\ (Stored(k) \/ k \in spoiled')
    BY <1>2, <1>4, SpoilDoes DEF Inv
  <2>4. Tables'
    BY <1>1, <1>2, <2>1, <2>2, <2>3, LedgerTables DEF Inv
  <2>5. \A q \in Passes : pc[q] \in WriterAt => Key(q) # k
    BY <1>4, AbsentEntry DEF Inv, Claims
  <2>6. k[1] \in ApiChannels => ~Stored(k)
    BY <1>2, <1>4 DEF Inv, Fresh
  <2>7. l \notin WriterAt /\ l \notin WritingAt /\ l # "mark"
    BY LabelSets
  <2> HIDE DEF k
  <2>8. QED
    BY <1>1, <1>2, <1>3, <2>1, <2>2, <2>3, <2>4, <2>5, <2>6, <2>7, LedgerMove DEF k
<1>5. CASE UNCHANGED <<ledger, spoiled>>
  <2>1. Tables'
    BY <1>1, <1>5, QuietTables DEF Inv, Tables
  <2>2. QED
    BY <1>1, <1>3, <1>5, <2>1, SameTickets, LabelSets, QuietMove
<1>6. QED
  BY <1>4, <1>5 DEF RecordRefusal

(* A claim is won where there is no row; a row that is there stands for what   *)
(* is stored, or spoiled, or is spoiled by this answer.                        *)
LEMMA ClaimKeeps == ASSUME Inv, NEW p \in Passes, Claim(p) PROVE Inv'
<1> DEFINE k == Key(p)
           e == [outcome |-> "accepted", ticket |-> NoTicket]
           next == IF pc[p] = "claim-reopen" THEN "reopen"
                   ELSE IF job[p].ticket = NoTicket THEN "create" ELSE "post"
<1>1. pc[p] \in {"claim", "claim-reopen"} /\ UNCHANGED <<seen, ticket, message, queued, faults, acts>>
  BY DEF Claim
<1>2. k \in Keys /\ job[p] \in Job /\ Sound(pc[p], job[p], ticket, message)
  BY <1>1, PassKey DEF Inv, Walks
<1>3. CASE ledger[k] = Absent
  <2>1. ledger' = [ledger EXCEPT ![k].outcome = "accepted"] /\ spoiled' = spoiled
    BY <1>3 DEF Claim
  <2>2. e \in Entry /\ e.ticket = NoTicket /\ e.outcome = "accepted"
    BY DEF Entry
  <2>3. ledger' = [ledger EXCEPT ![k] = e]
    <3>1. [ledger[k] EXCEPT !.outcome = "accepted"] = e
      BY <1>3 DEF Absent
    <3>2. QED
      BY <2>1, <3>1
  <2> HIDE DEF e
  <2>4. k \in Keys /\ pc[p] # "idle" /\ spoiled \subseteq spoiled'
    BY <1>1, <1>2, <2>1
  <2>5. PICK l \in {"reopen", "create", "post"} : Moves(p, l, job[p]) /\ Sound(l, job[p], ticket, message)
    <3>1. Moves(p, next, job[p])
      BY <1>3, GotoMoves DEF Claim, Label, Inv
    <3>2. Sound(next, job[p], ticket, message)
      BY <1>1, <1>2 DEF Sound, Job
    <3>3. QED
      BY <3>1, <3>2
  <2>6. l \in WritingAt /\ l # "mark"
    BY LabelSets
  <2>7. Tables'
    BY <1>1, <1>2, <2>1, <2>2, <2>3, LedgerTables DEF Inv, Tables
  <2>8. \A q \in Passes : pc[q] \in WriterAt => Key(q) # k
    BY <1>3, AbsentEntry DEF Inv, Claims
  <2>9. k[1] \in ApiChannels => ~Stored(k)
    BY <1>2, <1>3 DEF Inv, Fresh
  <2> HIDE DEF k
  <2>10. QED
    BY <1>1, <2>2, <2>3, <2>4, <2>5, <2>6, <2>7, <2>8, <2>9, LedgerMove DEF k
<1>4. CASE ledger[k] # Absent
  <2>1. /\ ledger' = ledger /\ Goto(p, "mark")
        /\ IF \E q \in Passes : pc[q] \in WritingAt /\ Key(q) = k THEN Spoil(k) ELSE UNCHANGED spoiled
    BY <1>4 DEF Claim, Writing, WritingAt
  <2>2. spoiled \subseteq spoiled' /\ spoiled' \subseteq Keys /\ (Stored(k) \/ k \in spoiled')
    <3>1. CASE \E q \in Passes : pc[q] \in WritingAt /\ Key(q) = k
      BY <1>2, <2>1, <3>1, SpoilDoes DEF Inv
    <3>2. CASE ~\E q \in Passes : pc[q] \in WritingAt /\ Key(q) = k
      BY <1>2, <1>4, <2>1, <3>2 DEF Inv, Tables, Accounted, Safe
    <3>3. QED
      BY <3>1, <3>2
  <2>3. Moves(p, "mark", job[p])
    BY <2>1, GotoMoves DEF Label, Inv
  <2>4. Sound("mark", job[p], ticket', message')
    BY <1>1, <1>2 DEF Sound
  <2>5. Tables'
    BY <1>1, <2>1, <2>2, QuietTables DEF Inv, Tables
  <2>6. QED
    BY <1>1, <2>1, <2>2, <2>3, <2>4, <2>5, SameTickets, LabelSets, QuietMove DEF Key
<1>5. QED
  BY <1>3, <1>4

LEMMA ReleaseKeeps == ASSUME Inv, NEW p \in Passes, Release(p) PROVE Inv'
<1> DEFINE k == Key(p)
<1>1. /\ pc[p] = "release" /\ UNCHANGED <<seen, ticket, message, queued, faults, acts>>
      /\ WorkOn(p, job[p].batch)
  BY DEF Release, NextMessage
<1>2. k \in Keys /\ job[p].batch \in SUBSET Copies
  BY <1>1, PassKey DEF Inv, Walks, Job
<1>3. PICK l \in {"idle", "accept"}, j \in Job :
              Moves(p, l, j) /\ \A tickets, messages : Sound(l, j, tickets, messages)
  BY <1>1, <1>2, WorkOnMoves DEF Inv
<1>4. CASE ledger' = [ledger EXCEPT ![k] = Absent] /\ UNCHANGED spoiled
  <2>1. Tables'
    BY <1>1, <1>2, <1>4, AbsentEntry, LedgerTables DEF Inv, Tables
  <2>2. \A q \in Passes \ {p} : pc[q] \in WriterAt => Key(q) # k
    BY <1>1, LabelSets DEF Inv, Claims
  <2>3. k[1] \in ApiChannels => ~Stored(k)
    BY <1>1, <1>2, LabelSets DEF Inv, Fresh
  <2> HIDE DEF k
  <2>4. QED
    BY <1>1, <1>2, <1>3, <1>4, <2>1, <2>2, <2>3, AbsentEntry, LabelSets, LedgerMove DEF k
<1>5. CASE Spoil(k) /\ UNCHANGED ledger
  <2>1. spoiled \subseteq spoiled' /\ spoiled' \subseteq Keys /\ (Stored(k) \/ k \in spoiled')
    BY <1>2, <1>5, SpoilDoes DEF Inv
  <2>2. Tables'
    BY <1>1, <1>5, <2>1, QuietTables DEF Inv, Tables
  <2>3. QED
    BY <1>1, <1>3, <1>5, <2>1, <2>2, SameTickets, LabelSets, QuietMove
<1>6. QED
  BY <1>4, <1>5 DEF Release

(* What is stamped is where the message is.                                    *)
LEMMA StampKeeps == ASSUME Inv, NEW p \in Passes, StampProduced(p) PROVE Inv'
<1> DEFINE k == Key(p)
           t == job[p].ticket
<1>1. pc[p] = "stamp" /\ UNCHANGED <<seen, ticket, message, queued, spoiled, acts>>
  BY DEF StampProduced
<1>2. /\ k \in Keys /\ job[p] \in Job /\ job[p].copy \in Copies /\ Sound("stamp", job[p], ticket, message)
      /\ k[1] = ChannelOf[job[p].copy] /\ k[2] = IdOf[job[p].copy]
  BY <1>1, PassKey DEF Inv, Walks
<1>3. t \in Tickets /\ k[2] \in message[t] /\ ticket[t].channel = k[1]
  BY <1>2, IntakeAssumption DEF Sound
<1>4. Stored(k)
  BY <1>3 DEF Stored, Holds
<1>5. ASSUME ledger' = [ledger EXCEPT ![k].ticket = t], faults' = faults,
             NEW l \in {"queue", "mark"}, Goto(p, l)
      PROVE  Inv'
  <2> DEFINE e == [ledger[k] EXCEPT !.ticket = t]
  <2>1. ledger[k] \in Entry /\ ledger[k].outcome = "accepted"
    BY <1>1, <1>2, LabelSets DEF Inv, Tables, Claims
  <2>2. e \in Entry /\ e.outcome = "accepted" /\ e.ticket = t
    BY <1>3, <2>1 DEF Entry
  <2>3. ledger' = [ledger EXCEPT ![k] = e]
    BY <1>5
  <2> HIDE DEF e
  <2>4. Moves(p, l, job[p])
    BY <1>5, GotoMoves DEF Label, Inv
  <2>5. Sound(l, job[p], ticket, message)
    BY <1>2 DEF Sound
  <2>6. Tables'
    BY <1>1, <1>2, <1>5, <2>2, <2>3, LedgerTables DEF Inv, Tables
  <2>7. \A q \in Passes \ {p} : pc[q] \in WriterAt => Key(q) # k
    BY <1>1, LabelSets DEF Inv, Claims
  <2>8. e # Absent /\ l \notin WritingAt /\ l \notin WriterAt
    BY <2>2, AbsentEntry, LabelSets
  <2> HIDE DEF k, t
  <2>9. QED
    BY <1>1, <1>2, <1>3, <1>4, <2>2, <2>3, <2>4, <2>5, <2>6, <2>7, <2>8, LedgerMove DEF k
<1>6. CASE Fault /\ NextMessage(p) /\ UNCHANGED ledger
  <2>1. PICK l \in {"idle", "accept"}, j \in Job :
              Moves(p, l, j) /\ \A tickets, messages : Sound(l, j, tickets, messages)
    BY <1>2, <1>6, WorkOnMoves DEF Inv, Job, NextMessage
  <2>2. Tables'
    BY <1>1, <1>6, QuietTables DEF Inv, Tables, Fault
  <2>3. QED
    BY <1>1, <1>6, <2>1, <2>2, SameTickets, LabelSets, QuietMove
<1>7. QED
  BY <1>5, <1>6 DEF StampProduced

----------------------------------------------------------------------------
(* The post.                                                                   *)

(* Two deliveries that a ticket of the channel of one of them can hold.        *)
LEMMA SameHolders ==
  ASSUME NEW t \in Tickets, NEW s \in Tickets, NEW k \in Keys, NEW m \in Keys,
         ticket[t].channel = k[1], k[2] = m[2],
         ticket[t].channel = m[1] \/ {ticket[t].channel, m[1]} \cap ApiChannels = {},
         Holds(s, m)
  PROVE  Holds(s, k)
<1>1. CASE k[1] = m[1]
  BY <1>1 DEF Holds
<1>2. CASE k[1] \notin ApiChannels /\ m[1] \notin ApiChannels
  BY <1>2 DEF Holds
<1>3. QED
  BY <1>1, <1>2

(* A message is posted where no ticket holds it yet: mail by the look at its   *)
(* external_id, the message of an API channel by its claim.                    *)
LEMMA PostKeeps == ASSUME Inv, NEW p \in Passes, Post(p) PROVE Inv'
<1> DEFINE k == Key(p)
           t == job[p].ticket
<1>1. pc[p] = "post" /\ UNCHANGED <<seen, ledger, ticket, queued, spoiled, faults, acts>>
  BY DEF Post
<1>2. /\ k \in Keys /\ job[p] \in Job /\ job[p].copy \in Copies /\ Sound("post", job[p], ticket, message)
      /\ k[1] = ChannelOf[job[p].copy] /\ k[2] = IdOf[job[p].copy]
  BY <1>1, PassKey DEF Inv, Walks
<1>3. t \in Tickets /\ ticket[t] \in Made /\ ticket[t].channel = k[1] /\ k[2] \in Ids
  BY <1>2, IntakeAssumption DEF Sound
<1>4. CASE AlreadyPosted(p)
  <2>1. Goto(p, "release") /\ message' = message
    BY <1>4 DEF Post
  <2>2. Moves(p, "release", job[p])
    BY <2>1, GotoMoves DEF Label, Inv
  <2>3. Tables'
    BY <1>1, <2>1, QuietTables DEF Inv, Tables
  <2>4. Sound("release", job[p], ticket', message')
    BY <1>1, <1>2, <2>1 DEF Sound
  <2>5. QED
    BY <1>1, <2>1, <2>2, <2>3, <2>4, SameTickets, LabelSets, QuietMove
<1>5. CASE ~AlreadyPosted(p)
  <2>1. message' = [message EXCEPT ![t] = @ \cup {k[2]}] /\ Goto(p, "stamp")
    BY <1>5 DEF Post
  <2>2. Moves(p, "stamp", job[p])
    BY <2>1, GotoMoves DEF Label, Inv
  <2>3. /\ message' \in [Tickets -> SUBSET Ids] /\ message'[t] = message[t] \cup {k[2]}
        /\ \A s \in Tickets \ {t} : message'[s] = message[s]
    BY <1>3, <2>1 DEF Inv, Tables
  <2>4. ~Stored(k)
    BY <1>1, <1>2, <1>5, LabelSets DEF AlreadyPosted, Inv, Fresh
  <2>5. Tables'
    BY <1>1, <1>3, <2>3 DEF Inv, Tables
  <2>6. \A s \in Tickets : message[s] \subseteq message'[s]
    BY <2>3
  <2>7. Walks'
    <3>1. Sound("stamp", job[p], ticket', message')
      BY <1>1, <1>2, <1>3, <2>3 DEF Sound
    <3>2. QED
      BY <1>1, <2>2, <2>6, <3>1, SameTickets, MoveWalks DEF Inv
  <2>8. \A s \in Tickets, m \in Keys : Holds(s, m) => Holds(s, m)'
    BY <1>1, <2>6 DEF Holds
  <2>9. \A m \in Keys : Stored(m) => Stored(m)'
    BY <2>8 DEF Stored
  <2>10. ASSUME NEW s \in Tickets, NEW m \in Keys, Holds(s, m)', ~Holds(s, m)
         PROVE  /\ s = t /\ k[2] = m[2]
                /\ ticket[t].channel = m[1] \/ {ticket[t].channel, m[1]} \cap ApiChannels = {}
    <3>1. /\ m[2] \in message'[s] /\ m[2] \notin message[s]
          /\ ticket[s].channel = m[1] \/ {ticket[s].channel, m[1]} \cap ApiChannels = {}
      BY <1>1, <2>10 DEF Holds
    <3>2. QED
      BY <2>3, <3>1
  <2>11. /\ pc'[p] = "stamp" /\ Key(p)' = k
         /\ \A q \in Passes \ {p} : pc'[q] = pc[q] /\ job'[q] = job[q] /\ Key(q)' = Key(q)
    BY <2>2 DEF Moves, Key
  <2>12. Stored(Key(p))'
    BY <1>1, <1>3, <2>3, <2>11 DEF Stored, Holds
  <2>13. \A q \in Passes : pc'[q] \in WriterAt => pc[q] \in WriterAt /\ Key(q)' = Key(q)
    BY <1>1, <2>11, LabelSets
  <2>14. Claims'
    BY <1>1, <2>13 DEF Inv, Claims
  <2>15. Single'
    <3>1. ASSUME NEW m \in Keys, NEW r \in Tickets, NEW s \in Tickets, Holds(r, m)', Holds(s, m)', ~Holds(r, m)
          PROVE  r = s
      <4>1. /\ r = t /\ k[2] = m[2]
            /\ ticket[t].channel = m[1] \/ {ticket[t].channel, m[1]} \cap ApiChannels = {}
        BY <2>10, <3>1
      <4>2. ~Holds(s, m)
        BY <1>2, <1>3, <2>4, <4>1, SameHolders DEF Stored
      <4>3. QED
        BY <2>10, <3>1, <4>1, <4>2
    <3>2. QED
      BY <3>1 DEF Inv, Single
  <2>16. Fresh'
    <3>1. ASSUME NEW m \in Keys, m[1] \in ApiChannels, Stored(m)'
          PROVE  ledger'[m] # Absent /\ \A q \in Passes : pc'[q] \in WritingAt => Key(q)' # m
      <4>1. \A q \in Passes : pc'[q] \in WritingAt => q # p /\ pc[q] \in WritingAt /\ Key(q)' = Key(q)
        BY <2>11, LabelSets
      <4>2. CASE Stored(m)
        BY <1>1, <3>1, <4>1, <4>2 DEF Inv, Fresh
      <4>3. CASE ~Stored(m)
        <5>1. PICK s \in Tickets : Holds(s, m)' /\ ~Holds(s, m)
          BY <3>1, <4>3 DEF Stored
        <5>2. k[2] = m[2] /\ k[1] = m[1]
          BY <1>3, <2>10, <3>1, <5>1
        <5>3. m = k
          BY <1>2, <5>2 DEF Keys
        <5>4. ledger[k].outcome = "accepted" /\ \A q \in Passes \ {p} : pc[q] \in WritingAt => Key(q) # k
          BY <1>1, LabelSets DEF Inv, Claims
        <5>5. QED
          BY <1>1, <4>1, <5>3, <5>4, AbsentEntry
      <4>4. QED
        BY <4>2, <4>3
    <3>2. QED
      BY <3>1 DEF Fresh
  <2>17. Accounted'
    <3>1. \A m \in Keys : Safe(m) => Safe(m)'
      BY <1>1, <2>9 DEF Safe
    <3>2. ASSUME NEW m \in Keys, ledger'[m] # Absent
          PROVE  Safe(m)' \/ \E q \in Passes : pc'[q] \in WritingAt /\ Key(q)' = m
      <4>1. Safe(m) \/ \E q \in Passes : pc[q] \in WritingAt /\ Key(q) = m
        BY <1>1, <3>2 DEF Inv, Accounted
      <4>2. Safe(Key(p))'
        BY <2>12 DEF Safe
      <4>3. QED
        BY <2>11, <3>1, <4>1, <4>2
    <3>3. ASSUME NEW q \in Passes, pc'[q] = "mark" PROVE Safe(Key(q))'
      <4>1. pc[q] = "mark" /\ Key(q)' = Key(q)
        BY <2>11, <3>3
      <4>2. Safe(Key(q)) /\ Key(q) \in Keys
        BY <4>1, PassKey DEF Inv, Accounted
      <4>3. QED
        BY <1>1, <2>9, <4>1, <4>2 DEF Safe
    <3>4. QED
      BY <3>2, <3>3 DEF Accounted
  <2>18. AnnouncedWhenThere'
    <3>1. ASSUME NEW m \in Keys, ledger[m].ticket # NoTicket
          PROVE  ledger[m].outcome = "accepted" /\ m[2] \in message'[ledger[m].ticket]
      <4>1. ledger[m].outcome = "accepted" /\ m[2] \in message[ledger[m].ticket] /\ ledger[m].ticket \in Tickets
        BY <3>1 DEF Inv, Tables, Entry, AnnouncedWhenThere
      <4>2. QED
        BY <2>6, <4>1
    <3>2. \A s \in queued : message'[s] # {}
      BY <2>6 DEF Inv, Tables, AnnouncedWhenThere
    <3>3. QED
      BY <1>1, <3>1, <3>2 DEF AnnouncedWhenThere
  <2>19. LostOnlyIfSpoiled'
    <3>1. \A m \in seen : KeyOf(m) \in Keys
      BY KeyType DEF Inv, Tables
    <3>2. QED
      BY <1>1, <2>9, <3>1 DEF Inv, LostOnlyIfSpoiled
  <2>20. QED
    BY <2>5, <2>7, <2>14, <2>15, <2>16, <2>17, <2>18, <2>19 DEF Inv
<1>6. QED
  BY <1>4, <1>5

----------------------------------------------------------------------------
LEMMA NextInv == Inv /\ [Next]_vars => Inv'
<1> SUFFICES ASSUME Inv, [Next]_vars PROVE Inv'
  OBVIOUS
<1>1. CASE UNCHANGED vars
  BY <1>1 DEF vars, Inv, Tables, Walks, Claims, Fresh, Single, Accounted, Safe, Stored, Holds, Key,
              AnnouncedWhenThere, LostOnlyIfSpoiled
<1>2. CASE Next
  BY <1>2, SearchKeeps, MarkSeenKeeps, DecideKeeps, RefuseKeeps, RecordRefusalKeeps, ClaimKeeps,
     ReopenKeeps, CreateKeeps, PostKeeps, ReleaseKeeps, StampKeeps, EnqueueKeeps, WriteFailsKeeps,
     CrashKeeps, AgentKeeps DEF Next, Pass
<1>3. QED
  BY <1>1, <1>2

----------------------------------------------------------------------------
(* The theorems.                                                               *)

LEMMA IntakeSafe == Spec => []Inv
  BY InitInv, NextInv, PTL DEF Spec

(* Every variable keeps its type, and a pass that is to write has a ticket.    *)
THEOREM IntakeTypes == Spec => []TypeOK
<1>1. ASSUME Inv PROVE TypeOK
  <2>1. \A t \in Tickets : ticket[t] = Unmade \/ ticket[t] \in [status : Statuses, channel : Channels]
    BY <1>1 DEF Inv, Tables, Made
  <2>2. ASSUME NEW p \in Passes
        PROVE  /\ job[p].batch \subseteq Copies
               /\ pc[p] # "idle" => job[p].copy \in Copies
               /\ pc[p] \in {"reopen", "post", "stamp", "queue"} => job[p].ticket \in Tickets
    BY <1>1 DEF Inv, Walks, Job, Sound
  <2>3. QED
    BY <1>1, <2>1, <2>2 DEF Inv, Tables, Walks, TypeOK
<1>2. QED
  BY <1>1, IntakeSafe, PTL

(* However often a delivery is retried, and by however many passes at a time,  *)
(* one ticket holds its message and one pass writes it (IntakeLedger.claim,    *)
(* the unique external_id).                                                    *)
THEOREM OneTicketTheorem == Spec => []WrittenOnce
<1>1. ASSUME Inv PROVE WrittenOnce
  <2>1. \A p \in Passes : Writing(p) \/ pc[p] = "stamp" => pc[p] \in WriterAt
    BY LabelSets DEF Writing
  <2>2. QED
    BY <1>1, <2>1 DEF Inv, Single, Claims, WrittenOnce
<1>2. QED
  BY <1>1, IntakeSafe, PTL

(* A duplicate is answered with the ticket where the message is, and only a    *)
(* ticket with a message is in the routing queue (stampProduced, enqueue).     *)
THEOREM AnnouncedTheorem == Spec => []AnnouncedWhenThere
<1>1. Inv => AnnouncedWhenThere
  BY DEF Inv
<1>2. QED
  BY <1>1, IntakeSafe, PTL

(* What is marked read and stored nowhere went one of the four routes: a       *)
(* recorded refusal, a writer that died, a claim that was not given back, or   *)
(* an answer "duplicate" while the write was still to fail.                    *)
THEOREM LossTheorem == Spec => []LostOnlyIfSpoiled
<1>1. Inv => LostOnlyIfSpoiled
  BY DEF Inv
<1>2. QED
  BY <1>1, IntakeSafe, PTL
=============================================================================
