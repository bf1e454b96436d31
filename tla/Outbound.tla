------------------------------ MODULE Outbound ------------------------------
(* How an operator's reply leaves by mail: the delivery queue of the chats     *)
(* service (channel/outbound.service.ts, channel/outbound.repository.ts) and   *)
(* the tick that drains it.                                                    *)
(*                                                                             *)
(* A process is one sendDue pass.  The tick runs one at a time, but a pass can *)
(* outlive its tick (the worker restarts, the call times out), so passes       *)
(* overlap.  A pass reads the clock once, when it starts.  Time is abstract:   *)
(* a claim may become older than STALE_CLAIM_MS at any moment (Age), and a     *)
(* failed attempt's next_attempt_at is reached some time later (Due); whatever *)
(* the length of the backoff, that is all the queries tell apart.              *)
EXTENDS Integers, Sequences, FiniteSets

CONSTANTS
    Passes,       \* concurrent sendDue calls
    Replies,      \* messages to deliver; numbers, in the order of created_at
    Blocked,      \* those canSend, or a missing participant, refuses
    MaxAttempts,  \* cfg.maxAttempts
    Batch,        \* rows one pass takes
    MaxFaults    \* bound: passes that die and answers that are lost, together

ASSUME OutboundAssumption ==
    /\ Replies \subseteq Nat \ {0} /\ IsFiniteSet(Replies)
    /\ Blocked \subseteq Replies
    /\ MaxAttempts \in Nat \ {0} /\ Batch \in Nat \ {0} /\ MaxFaults \in Nat

VARIABLES
    row,       \* the OutboundMessage table
    external,  \* Message.external_id of each reply; 0 for null
    minted,    \* Message-IDs generated so far for each reply; an identity is the
               \* reply and its number
    copies,    \* the Message-IDs of the copies the transport accepted, counted
    pc,        \* where each pass stands
    job,       \* what it holds
    stolen,    \* history: rows reclaimed from a pass that was still working
    died,      \* history: rows whose pass died after the transport accepted
    unheard,   \* history: rows accepted by a transport whose answer was lost
    faults

vars == <<row, external, minted, copies, pc, job, stolen, died, unheard, faults>>

NoRow  == 0
Status == {"unwritten", "pending", "sending", "failed", "gone"}

NoJob == [due |-> {}, left |-> 0, reply |-> NoRow, attempts |-> 0, id |-> 0, retry |-> FALSE]

Init ==
    /\ row = [r \in Replies |-> [status |-> "unwritten", attempts |-> 0,
                                 waiting |-> FALSE, old |-> FALSE]]
    /\ external = [r \in Replies |-> 0]
    /\ minted = [r \in Replies |-> 0]
    /\ copies = [r \in Replies |-> <<>>]
    /\ pc = [p \in Passes |-> "idle"]
    /\ job = [p \in Passes |-> NoJob]
    /\ stolen = {}
    /\ died = {}
    /\ unheard = {}
    /\ faults = 0

Goto(p, l, j) == pc' = [pc EXCEPT ![p] = l] /\ job' = [job EXCEPT ![p] = j]

Exists(r) == row[r].status \notin {"unwritten", "gone"}

(* A pass between its claim of r and the write that ends the attempt.          *)
WorksOn(p, r) == pc[p] \in {"load", "stamp", "send", "delete", "fail"} /\ job[p].reply = r

----------------------------------------------------------------------------
(* enqueue, in the transaction that writes the message.                        *)
Post(r) ==
    /\ row[r].status = "unwritten"
    /\ row' = [row EXCEPT ![r].status = "pending"]
    /\ UNCHANGED <<external, minted, copies, pc, job, stolen, died, unheard, faults>>

(* A variant with a bug: no claim is reclaimed.                                *)
ReclaimNothing(p) ==
    /\ pc[p] = "idle"
    /\ LET due == {r \in Replies : Exists(r) /\ ~row[r].waiting}
       IN  due # {} /\ Goto(p, "find", [NoJob EXCEPT !.due = due, !.left = Batch])
    /\ UNCHANGED <<row, external, minted, copies, stolen, died, unheard, faults>>

(* The start of sendDue: the clock is read and stale claims return to the      *)
(* queue.  What is due later than now is not for this pass.                    *)
ReclaimStale(p) ==
    /\ pc[p] = "idle"
    /\ LET stale == {r \in Replies : row[r].status = "sending" /\ row[r].old}
           due   == {r \in Replies : Exists(r) /\ ~row[r].waiting}
       IN  /\ due # {}
           /\ row' = [r \in Replies |->
                        IF r \in stale THEN [row[r] EXCEPT !.status = "pending"] ELSE row[r]]
           /\ stolen' = stolen \cup {r \in stale : \E q \in Passes : WorksOn(q, r)}
           /\ Goto(p, "find", [NoJob EXCEPT !.due = due, !.left = Batch])
    /\ UNCHANGED <<external, minted, copies, died, unheard, faults>>

Due(p) == {r \in job[p].due : row[r].status = "pending" /\ ~row[r].waiting}

(* claimNext reads the oldest due row...                                       *)
Find(p) ==
    /\ pc[p] = "find"
    /\ \/ (Due(p) = {} \/ job[p].left = 0) /\ Goto(p, "idle", NoJob)
       \/ /\ job[p].left > 0
          /\ \E r \in Due(p) : /\ \A s \in Due(p) : r <= s
                               /\ Goto(p, "claim", [job[p] EXCEPT !.reply = r, !.left = @ - 1])
    /\ UNCHANGED <<row, external, minted, copies, stolen, died, unheard, faults>>

(* A variant with a bug: the claim does not assert that the row is pending.    *)
ClaimUnchecked(p) ==
    /\ pc[p] = "claim"
    /\ LET r == job[p].reply IN
       /\ row' = [row EXCEPT ![r].status = "sending", ![r].old = FALSE]
       /\ Goto(p, "load", [job[p] EXCEPT !.attempts = row[r].attempts])
    /\ UNCHANGED <<external, minted, copies, stolen, died, unheard, faults>>

(* ...and takes it only if it is pending still; losing that race ends the pass.*)
ClaimNext(p) ==
    /\ pc[p] = "claim"
    /\ LET r == job[p].reply IN
       IF row[r].status = "pending"
       THEN /\ row' = [row EXCEPT ![r].status = "sending", ![r].old = FALSE]
            /\ Goto(p, "load", [job[p] EXCEPT !.attempts = row[r].attempts])
       ELSE Goto(p, "idle", NoJob) /\ UNCHANGED row
    /\ UNCHANGED <<external, minted, copies, stolen, died, unheard, faults>>

----------------------------------------------------------------------------
(* deliver.                                                                    *)

NextRow(p) == Goto(p, "find", [NoJob EXCEPT !.due = job[p].due, !.left = job[p].left])

(* The row may be gone again; otherwise the message is read, with the          *)
(* identity it has, and the capability gate is asked.                          *)
Load(p) ==
    /\ pc[p] = "load"
    /\ LET r == job[p].reply IN
       IF ~Exists(r) THEN NextRow(p)
       ELSE IF r \in Blocked THEN Goto(p, "fail", [job[p] EXCEPT !.retry = FALSE])
       ELSE Goto(p, IF external[r] = 0 THEN "stamp" ELSE "send", [job[p] EXCEPT !.id = external[r]])
    /\ UNCHANGED <<row, external, minted, copies, stolen, died, unheard, faults>>

(* A fresh Message-ID goes onto the message before the send.                   *)
StampId(p) ==
    /\ pc[p] = "stamp"
    /\ LET r == job[p].reply
           fresh == minted[r] + 1
       IN  /\ minted' = [minted EXCEPT ![r] = fresh]
           /\ external' = [external EXCEPT ![r] = fresh]
           /\ Goto(p, "send", [job[p] EXCEPT !.id = fresh])
    /\ UNCHANGED <<row, copies, stolen, died, unheard, faults>>

(* A variant with a bug: one attempt too many.                                 *)
SendOnceMore(p) ==
    /\ pc[p] = "send"
    /\ \E retry \in {FALSE, job[p].attempts < MaxAttempts} :
          Goto(p, "fail", [job[p] EXCEPT !.retry = retry])
    /\ UNCHANGED <<row, external, minted, copies, stolen, died, unheard, faults>>

(* The envelope is fetched and the transport asked.  An unreachable service or *)
(* relay is tried again within the budget; a refusal is final.  A connection   *)
(* that dies after the relay took the message reads as "unreachable" too.      *)
Send(p) ==
    /\ pc[p] = "send"
    /\ LET r        == job[p].reply
           again    == job[p].attempts + 1 < MaxAttempts
           accepted == copies' = [copies EXCEPT ![r] = Append(@, job[p].id)]
       IN  \/ accepted /\ Goto(p, "delete", job[p]) /\ UNCHANGED <<unheard, faults>>
           \/ /\ accepted
              /\ faults < MaxFaults /\ faults' = faults + 1
              /\ unheard' = unheard \cup {r}
              /\ Goto(p, "fail", [job[p] EXCEPT !.retry = again])
           \/ /\ \E retry \in {FALSE, again} : Goto(p, "fail", [job[p] EXCEPT !.retry = retry])
              /\ UNCHANGED <<copies, unheard, faults>>
    /\ UNCHANGED <<row, external, minted, stolen, died>>

(* A variant with a bug: only a row that reads as pending is deleted.          *)
DeletePending(p) ==
    /\ pc[p] = "delete"
    /\ row' = [row EXCEPT ![job[p].reply].status = IF @ = "pending" THEN "gone" ELSE @]
    /\ NextRow(p)
    /\ UNCHANGED <<external, minted, copies, stolen, died, unheard, faults>>

(* markSent: by id, whatever the status.                                       *)
MarkSent(p) ==
    /\ pc[p] = "delete"
    /\ row' = [row EXCEPT ![job[p].reply].status = "gone"]
    /\ NextRow(p)
    /\ UNCHANGED <<external, minted, copies, stolen, died, unheard, faults>>

(* markAttemptFailed: by id too.  The next attempt lies after the instant this *)
(* pass started at.                                                            *)
MarkAttemptFailed(p) ==
    /\ pc[p] = "fail"
    /\ LET r == job[p].reply IN
       /\ row' = IF Exists(r)
                 THEN [row EXCEPT ![r] = [status |-> IF job[p].retry THEN "pending" ELSE "failed",
                                          attempts |-> job[p].attempts + 1,
                                          waiting |-> TRUE, old |-> FALSE]]
                 ELSE row
       /\ Goto(p, "find", [NoJob EXCEPT !.due = job[p].due \ {r}, !.left = job[p].left])
    /\ UNCHANGED <<external, minted, copies, stolen, died, unheard, faults>>

----------------------------------------------------------------------------
(* The process dies, or a statement of its own database throws: the pass ends. *)
Crash(p) ==
    /\ pc[p] # "idle"
    /\ faults < MaxFaults /\ faults' = faults + 1
    /\ died' = IF pc[p] = "delete" THEN died \cup {job[p].reply} ELSE died
    /\ Goto(p, "idle", NoJob)
    /\ UNCHANGED <<row, external, minted, copies, stolen, unheard>>

Age(r) ==
    /\ row[r].status = "sending" /\ ~row[r].old
    /\ row' = [row EXCEPT ![r].old = TRUE]
    /\ UNCHANGED <<external, minted, copies, pc, job, stolen, died, unheard, faults>>

BecomesDue(r) ==
    /\ Exists(r) /\ row[r].waiting
    /\ row' = [row EXCEPT ![r].waiting = FALSE]
    /\ UNCHANGED <<external, minted, copies, pc, job, stolen, died, unheard, faults>>

Pass(p) ==
    \/ ReclaimStale(p) \/ Find(p) \/ ClaimNext(p)
    \/ Load(p) \/ StampId(p) \/ Send(p) \/ MarkSent(p) \/ MarkAttemptFailed(p)

Time(r) == Age(r) \/ BecomesDue(r)

Next ==
    \/ \E p \in Passes : Pass(p) \/ Crash(p)
    \/ \E r \in Replies : Post(r) \/ Time(r)

Spec == Init /\ [][Next]_vars

(* The tick repeats (every 15 s), a pass runs on, and time passes.             *)
FairSpec ==
    /\ Spec
    /\ \A p \in Passes : WF_vars(Pass(p))
    /\ \A r \in Replies : WF_vars(Time(r))

----------------------------------------------------------------------------
Label == {"idle", "find", "claim", "load", "stamp", "send", "delete", "fail"}

TypeOK ==
    /\ \A r \in Replies : row[r] \in [status : Status, attempts : 0..MaxAttempts,
                                      waiting : BOOLEAN, old : BOOLEAN]
    /\ minted \in [Replies -> Nat]
    /\ \A r \in Replies : external[r] \in 0..minted[r] /\ copies[r] \in Seq(1..minted[r])
    /\ pc \in [Passes -> Label]
    /\ \A p \in Passes :
          /\ job[p].due \subseteq Replies /\ job[p].left \in 0..Batch
          /\ pc[p] \notin {"idle", "find"} => job[p].reply \in Replies
          /\ pc[p] \in {"send", "delete"} => job[p].id \in 1..minted[job[p].reply]
          /\ job[p].attempts < MaxAttempts
    /\ stolen \subseteq Replies /\ died \subseteq Replies /\ unheard \subseteq Replies
    /\ faults \in Nat

(* A row leaves the queue only when the transport has accepted its message     *)
(* (outbound.service.ts:34), whichever pass deletes it.  The customer gets one *)
(* copy, over retries, faults and reclaims, except in three windows: the pass  *)
(* died between the acceptance and the delete, its claim was reclaimed while   *)
(* it was still at work, or the relay's answer was lost.                       *)
SentOnce ==
    \A r \in Replies :
        /\ row[r].status = "gone" => copies[r] # <<>>
        /\ Len(copies[r]) > 1 => r \in stolen \cup died \cup unheard

(* Until its claim is taken from it, a pass has the row to itself, so a reply  *)
(* keeps one identity over all its attempts, the one stored on the message,    *)
(* and whichever copy the customer answers can be threaded.                    *)
OneSender ==
    \A r \in Replies \ stolen :
        /\ \A i \in 1..Len(copies[r]) : copies[r][i] = external[r]
        /\ \A p \in Passes : WorksOn(p, r) =>
              /\ row[r].status = "sending"
              /\ \A q \in Passes \ {p} : ~WorksOn(q, r)

(* A dead letter stays for a person to find: no late pass revives or deletes   *)
(* it, short of a claim that was taken from a pass at work.                    *)
LetterStays ==
    \A r \in Replies : row[r].status = "failed" /\ row'[r].status # "failed" => r \in stolen

(* Every reply is delivered or dead-lettered in the end, and a dead letter     *)
(* stays.                                                                      *)
Resolved ==
    /\ \A r \in Replies : row[r].status = "pending" ~> row[r].status \in {"gone", "failed"}
    /\ [][LetterStays]_vars

=============================================================================
