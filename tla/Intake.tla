------------------------------- MODULE Intake -------------------------------
(* How a customer's message becomes a ticket: the mailbox reader of the worker *)
(* (channels/imap-reader.service.ts) and the intake of the chats service       *)
(* (channel/intake.service.ts) with its at-most-once ledger.                   *)
(*                                                                             *)
(* A process is one pass over the unread mail of a mailbox - the first look    *)
(* after connecting, an `exists` push, the sweep tick or another replica that  *)
(* lost its lease - or one delivery attempt of a webhook provider on an API    *)
(* channel.  Passes overlap: nothing serialises them.  Each await is a step.   *)
(*                                                                             *)
(* Mail copies are numbered by uid.  A copy the parser refuses, an attachment  *)
(* that is dropped, signature checks and who the customer is change no state   *)
(* here and are left out; so are the events and audit entries, which are       *)
(* append-only.                                                                *)
EXTENDS Integers, FiniteSets

CONSTANTS
    Passes,        \* concurrent passes and delivery attempts
    Copies,        \* messages as they lie in a mailbox or with a provider (uids)
    Channels,      \* configured channels
    ApiChannels,   \* those that are not a mailbox
    PushRouted,    \* channels with a default_group_id
    Ids,           \* Message-IDs and event ids
    NoId,
    ChannelOf,     \* the channel a copy arrives on
    IdOf,          \* its identifier
    AnswersTo,     \* the identifier its In-Reply-To quotes, or NoId
    Tickets,       \* bound: conversations that can be created; 1, 2, ...
    NoTicket,      \* not one of them
    MaxFaults,     \* bound: failing calls and crashes in one behaviour, not counting
                   \* those of the bookkeeping that follows another step
    MaxActs        \* bound: status changes by agents in one behaviour

ASSUME IntakeAssumption ==
    /\ Copies \subseteq Nat /\ IsFiniteSet(Copies)
    /\ ApiChannels \subseteq Channels /\ PushRouted \subseteq Channels
    /\ NoId \notin Ids
    /\ ChannelOf \in [Copies -> Channels]
    /\ IdOf \in [Copies -> Ids]
    /\ AnswersTo \in [Copies -> Ids \cup {NoId}]
    /\ Tickets \subseteq Nat /\ IsFiniteSet(Tickets)
    /\ NoTicket \notin Tickets
    /\ MaxFaults \in Nat /\ MaxActs \in Nat

VARIABLES
    seen,      \* the copies marked \Seen, or acknowledged to the provider
    ledger,    \* the ChannelIntake row of each channel and event id
    ticket,    \* the Conversation table
    message,   \* the event ids of the customer messages on each conversation
    queued,    \* the conversations the intake put into the routing queue
    pc,        \* where each pass stands
    job,       \* what it holds
    spoiled,   \* history: see Spoil
    faults,
    acts

vars  == <<seen, ledger, ticket, message, queued, pc, job, spoiled, faults, acts>>
store == <<ledger, ticket, message, queued>>

(* A status is its category; "pending" and "on_hold" behave as "open" does.    *)
Statuses == {"new", "open", "solved", "closed"}
Terminal(s) == s \in {"solved", "closed"}

Keys   == Channels \X Ids
KeyOf(m) == <<ChannelOf[m], IdOf[m]>>

Absent == [outcome |-> "none", ticket |-> NoTicket]
Entry  == [outcome : {"none", "accepted", "refused"}, ticket : Tickets \cup {NoTicket}]

Unmade == [status |-> "none", channel |-> "none"]

NoJob == [batch |-> {}, copy |-> 0, ticket |-> NoTicket, created |-> FALSE]

Init ==
    /\ seen = {}
    /\ ledger = [k \in Keys |-> Absent]
    /\ ticket = [t \in Tickets |-> Unmade]
    /\ message = [t \in Tickets |-> {}]
    /\ queued = {}
    /\ pc = [p \in Passes |-> "idle"]
    /\ job = [p \in Passes |-> NoJob]
    /\ spoiled = {}
    /\ faults = 0
    /\ acts = 0

----------------------------------------------------------------------------
Goto(p, l) == pc' = [pc EXCEPT ![p] = l] /\ UNCHANGED job

GotoWith(p, l, j) == pc' = [pc EXCEPT ![p] = l] /\ job' = [job EXCEPT ![p] = j]

(* On to the next message of the batch, the lowest uid first, or done.         *)
WorkOn(p, batch) ==
    \/ batch = {} /\ GotoWith(p, "idle", NoJob)
    \/ \E m \in batch :
          /\ \A n \in batch : m <= n
          /\ GotoWith(p, "accept", [NoJob EXCEPT !.copy = m, !.batch = batch \ {m}])

NextMessage(p) == WorkOn(p, job[p].batch)

Fault == faults < MaxFaults /\ faults' = faults + 1

Key(p) == KeyOf(job[p].copy)

(* Where the message of a delivery may be: Message-IDs are one name space for  *)
(* all mailboxes of the account, and each API channel has its own.             *)
Holds(t, k) ==
    /\ k[2] \in message[t]
    /\ ticket[t].channel = k[1] \/ {ticket[t].channel, k[1]} \cap ApiChannels = {}

Stored(k) == \E t \in Tickets : Holds(t, k)

(* A pass that has claimed a delivery and not stored it.                       *)
Writing(p) == pc[p] \in {"reopen", "create", "post", "release"}

(* History: the deliveries for which one of the routes to a loss was taken.    *)
Spoil(k) == spoiled' = IF Stored(k) THEN spoiled ELSE spoiled \cup {k}

----------------------------------------------------------------------------
(* The reader.                                                                 *)

(* takeInUnseen: the unread messages of one mailbox, as a snapshot.  A         *)
(* provider delivers one event at a time.                                      *)
Search(p) ==
    /\ pc[p] = "idle"
    /\ \E ch \in Channels :
       LET unseen == {m \in Copies \ seen : ChannelOf[m] = ch}
       IN  /\ unseen # {}
           /\ IF ch \in ApiChannels
              THEN \E m \in unseen : WorkOn(p, {m})
              ELSE WorkOn(p, unseen)
    /\ UNCHANGED <<seen, store, spoiled, faults, acts>>

(* \Seen, after the answer: for an acceptance and for a duplicate.  The flag   *)
(* may fail to be set, and the reader goes on.                                 *)
MarkSeen(p) ==
    /\ pc[p] = "mark"
    /\ \/ seen' = seen \cup {job[p].copy} /\ UNCHANGED faults
       \/ Fault /\ UNCHANGED seen
    /\ NextMessage(p)
    /\ UNCHANGED <<store, spoiled, acts>>

----------------------------------------------------------------------------
(* acceptInboundEmail and acceptNormalised.                                    *)

(* threads.resolve: the conversation of the message this one answers, if that  *)
(* came through a channel of the same brand.  API deliveries are not threaded. *)
Match(m) ==
    {t \in Tickets : /\ ChannelOf[m] \notin ApiChannels
                     /\ ticket[t].channel = ChannelOf[m]
                     /\ AnswersTo[m] \in message[t]}

(* decideThreadOutcome on the category the match shows now: append to live     *)
(* work, reopen solved work, and otherwise (no match, or a closed one) a new   *)
(* ticket.                                                                     *)
Decide(p) ==
    /\ pc[p] = "accept"
    /\ LET match == Match(job[p].copy)
           live(t)   == ~Terminal(ticket[t].status)
           solved(t) == ticket[t].status = "solved"
       IN  \/ \E t \in match : live(t) /\ GotoWith(p, "claim", [job[p] EXCEPT !.ticket = t])
           \/ \E t \in match : solved(t)
                 /\ GotoWith(p, "claim-reopen", [job[p] EXCEPT !.ticket = t])
           \/ (\A t \in match : ticket[t].status = "closed") /\ Goto(p, "claim")
    /\ UNCHANGED <<seen, store, spoiled, faults, acts>>

(* `users` cannot be reached (mail only), or the catalogue has no status of    *)
(* the category needed: the intake refuses before the claim...                 *)
Refuse(p) ==
    /\ pc[p] = "accept"
    /\ Fault
    /\ Goto(p, "refuse")
    /\ UNCHANGED <<seen, store, spoiled, acts>>

(* A variant with a bug: the reader marks a refused message as read.           *)
RefusalMarked(p) ==
    /\ pc[p] = "refuse"
    /\ seen' = seen \cup {job[p].copy}
    /\ NextMessage(p)
    /\ UNCHANGED <<store, spoiled, faults, acts>>

(* ...and recordRefusal writes the refusal under the delivery's own id.  A row *)
(* already there, and any other failure, is swallowed.  The reader leaves the  *)
(* message unread.                                                             *)
RecordRefusal(p) ==
    /\ pc[p] = "refuse"
    /\ \/ /\ ledger' = IF ledger[Key(p)] = Absent
                       THEN [ledger EXCEPT ![Key(p)].outcome = "refused"]
                       ELSE ledger
          /\ IF ledger[Key(p)] = Absent THEN Spoil(Key(p)) ELSE UNCHANGED spoiled
       \/ UNCHANGED <<ledger, spoiled>>
    /\ NextMessage(p)
    /\ UNCHANGED <<seen, ticket, message, queued, faults, acts>>

(* Variants with a bug: a claim that takes over one not stamped yet, and one   *)
(* that goes on to post before there is a ticket.                              *)
ClaimUnstamped(p) ==
    /\ pc[p] \in {"claim", "claim-reopen"}
    /\ IF ledger[Key(p)].outcome # "refused" /\ ledger[Key(p)].ticket = NoTicket
       THEN /\ ledger' = [ledger EXCEPT ![Key(p)].outcome = "accepted"]
            /\ Goto(p, IF pc[p] = "claim-reopen" THEN "reopen"
                       ELSE IF job[p].ticket = NoTicket THEN "create" ELSE "post")
       ELSE Goto(p, "mark") /\ UNCHANGED ledger
    /\ UNCHANGED <<seen, ticket, message, queued, spoiled, faults, acts>>

ClaimAndPost(p) ==
    /\ pc[p] \in {"claim", "claim-reopen"}
    /\ ledger[Key(p)] = Absent
    /\ ledger' = [ledger EXCEPT ![Key(p)].outcome = "accepted"]
    /\ Goto(p, IF pc[p] = "claim-reopen" THEN "reopen" ELSE "post")
    /\ UNCHANGED <<seen, ticket, message, queued, spoiled, faults, acts>>

(* IntakeLedger.claim: insert first; a row of either outcome is a duplicate,   *)
(* answered as a success.                                                      *)
Claim(p) ==
    /\ pc[p] \in {"claim", "claim-reopen"}
    /\ IF ledger[Key(p)] = Absent
       THEN /\ ledger' = [ledger EXCEPT ![Key(p)].outcome = "accepted"]
            /\ Goto(p, IF pc[p] = "claim-reopen" THEN "reopen"
                       ELSE IF job[p].ticket = NoTicket THEN "create" ELSE "post")
            /\ UNCHANGED spoiled
       ELSE /\ Goto(p, "mark")
            /\ IF \E q \in Passes : Writing(q) /\ Key(q) = Key(p)
               THEN Spoil(Key(p)) ELSE UNCHANGED spoiled
            /\ UNCHANGED ledger
    /\ UNCHANGED <<seen, ticket, message, queued, faults, acts>>

----------------------------------------------------------------------------
(* writeClaimed and applyThreadDecision.  The status change, the ticket and    *)
(* the message are three transactions; a failure in any of them gives the      *)
(* claim back.                                                                 *)

Reopen(p) ==
    /\ pc[p] = "reopen"
    /\ ticket' = [ticket EXCEPT ![job[p].ticket].status = "open"]
    /\ Goto(p, "post")
    /\ UNCHANGED <<seen, ledger, message, queued, spoiled, faults, acts>>

(* A variant with a bug: the row is stamped as soon as the ticket exists.      *)
CreateAndStamp(p) ==
    /\ pc[p] = "create"
    /\ \E t \in Tickets :
          /\ ticket[t] = Unmade
          /\ ticket' = [ticket EXCEPT ![t] = [status |-> "new", channel |-> Key(p)[1]]]
          /\ ledger' = [ledger EXCEPT ![Key(p)].ticket = t]
          /\ GotoWith(p, "post", [job[p] EXCEPT !.ticket = t, !.created = TRUE])
    /\ UNCHANGED <<seen, message, queued, spoiled, faults, acts>>

Create(p) ==
    /\ pc[p] = "create"
    /\ \E t \in Tickets :
          /\ ticket[t] = Unmade
          /\ \A s \in Tickets : ticket[s] = Unmade => t <= s
          /\ ticket' = [ticket EXCEPT ![t] = [status |-> "new", channel |-> Key(p)[1]]]
          /\ GotoWith(p, "post", [job[p] EXCEPT !.ticket = t, !.created = TRUE])
    /\ UNCHANGED <<seen, ledger, message, queued, spoiled, faults, acts>>

(* MessageRepository.post.  Mail carries its Message-ID as external_id, unique *)
(* in the account; an API message carries none.                                *)
AlreadyPosted(p) == Key(p)[1] \notin ApiChannels /\ Stored(Key(p))

Post(p) ==
    /\ pc[p] = "post"
    /\ IF AlreadyPosted(p)
       THEN Goto(p, "release") /\ UNCHANGED message
       ELSE /\ message' = [message EXCEPT ![job[p].ticket] = @ \cup {Key(p)[2]}]
            /\ Goto(p, "stamp")
    /\ UNCHANGED <<seen, ledger, ticket, queued, spoiled, faults, acts>>

(* A variant with a bug: a failed write keeps its claim.                       *)
WriteFailsClaimKept(p) ==
    /\ pc[p] \in {"reopen", "create", "post"}
    /\ Fault
    /\ NextMessage(p)
    /\ UNCHANGED <<seen, store, spoiled, acts>>

WriteFails(p) ==
    /\ pc[p] \in {"reopen", "create", "post"}
    /\ Fault
    /\ Goto(p, "release")
    /\ UNCHANGED <<seen, store, spoiled, acts>>

(* IntakeLedger.release, whose own failure is swallowed; then the write's      *)
(* error reaches the reader, which leaves the message unread.                  *)
Release(p) ==
    /\ pc[p] = "release"
    /\ \/ ledger' = [ledger EXCEPT ![Key(p)] = Absent] /\ UNCHANGED spoiled
       \/ Spoil(Key(p)) /\ UNCHANGED ledger
    /\ NextMessage(p)
    /\ UNCHANGED <<seen, ticket, message, queued, faults, acts>>

(* stampProduced is outside the try: its failure keeps the claim.              *)
StampProduced(p) ==
    /\ pc[p] = "stamp"
    /\ \/ /\ ledger' = [ledger EXCEPT ![Key(p)].ticket = job[p].ticket]
          /\ Goto(p, IF job[p].created /\ Key(p)[1] \in PushRouted THEN "queue" ELSE "mark")
          /\ UNCHANGED faults
       \/ Fault /\ NextMessage(p) /\ UNCHANGED ledger
    /\ UNCHANGED <<seen, ticket, message, queued, spoiled, acts>>

(* The new ticket joins the routing queue, if that write succeeds.             *)
Enqueue(p) ==
    /\ pc[p] = "queue"
    /\ \/ queued' = queued \cup {job[p].ticket} /\ UNCHANGED faults
       \/ Fault /\ UNCHANGED queued
    /\ Goto(p, "mark")
    /\ UNCHANGED <<seen, ledger, ticket, message, spoiled, acts>>

----------------------------------------------------------------------------
(* The process dies where it stands; a claim it holds stays.                   *)
Crash(p) ==
    /\ pc[p] # "idle"
    /\ Fault
    /\ GotoWith(p, "idle", NoJob)
    /\ IF Writing(p) THEN Spoil(Key(p)) ELSE UNCHANGED spoiled
    /\ UNCHANGED <<seen, store, acts>>

(* An agent moves a conversation to another status.                            *)
AgentSetsStatus(t, s) ==
    /\ ticket[t] # Unmade /\ ticket[t].status # s
    /\ acts < MaxActs /\ acts' = acts + 1
    /\ ticket' = [ticket EXCEPT ![t].status = s]
    /\ UNCHANGED <<seen, ledger, message, queued, pc, job, spoiled, faults>>

Pass(p) ==
    \/ Search(p) \/ MarkSeen(p)
    \/ Decide(p) \/ RecordRefusal(p) \/ Claim(p)
    \/ Reopen(p) \/ Create(p) \/ Post(p) \/ Release(p) \/ StampProduced(p) \/ Enqueue(p)

Next ==
    \/ \E p \in Passes : Pass(p) \/ Refuse(p) \/ WriteFails(p) \/ Crash(p)
    \/ \E t \in Tickets, s \in Statuses : AgentSetsStatus(t, s)

Spec == Init /\ [][Next]_vars

(* The sweep ticks for ever, a provider retries what was not acknowledged, and *)
(* a pass that started runs on.                                                *)
FairSpec == Spec /\ \A p \in Passes : WF_vars(Pass(p))

----------------------------------------------------------------------------
Label == {"idle", "accept", "refuse", "claim", "claim-reopen", "reopen", "create",
          "post", "release", "stamp", "queue", "mark"}

TypeOK ==
    /\ seen \subseteq Copies
    /\ ledger \in [Keys -> Entry]
    /\ \A t \in Tickets : ticket[t] = Unmade
                          \/ ticket[t] \in [status : Statuses, channel : Channels]
    /\ message \in [Tickets -> SUBSET Ids]
    /\ queued \subseteq Tickets
    /\ pc \in [Passes -> Label]
    /\ \A p \in Passes :
          /\ job[p].batch \subseteq Copies
          /\ pc[p] # "idle" => job[p].copy \in Copies
          /\ pc[p] \in {"reopen", "post", "stamp", "queue"} => job[p].ticket \in Tickets
    /\ spoiled \subseteq Keys
    /\ faults \in Nat /\ acts \in Nat

(* A delivery appears once, however often it is retried, by however many       *)
(* passes at a time, with a claim given back in between (intake.ledger.ts:50): *)
(* each claim has one writer, and one ticket at most holds the message.        *)
WrittenOnce ==
    /\ \A k \in Keys : \A s, t \in Tickets : Holds(s, k) /\ Holds(t, k) => s = t
    /\ \A p, q \in Passes :
          /\ p # q
          /\ Writing(p) \/ pc[p] = "stamp"
          /\ Writing(q) \/ pc[q] = "stamp"
          => Key(p) # Key(q)

(* Nothing is announced before it is there.  What a duplicate is answered with *)
(* is where the message really is ("a provider that retries deserves the same  *)
(* answer"), and a ticket whose write failed half way stays out of routing.    *)
AnnouncedWhenThere ==
    /\ \A k \in Keys :
          ledger[k].ticket # NoTicket =>
              ledger[k].outcome = "accepted" /\ k[2] \in message[ledger[k].ticket]
    /\ \A t \in queued : message[t] # {}

(* The ways a customer's message is lost - marked read with nothing stored -   *)
(* are exactly four: its refusal was recorded under its own id, its writer     *)
(* died, its claim could not be given back, or an overlapping pass was told    *)
(* "duplicate" while the write was still to fail.  In particular no failed     *)
(* write, failed stamp or lost flag alone loses one.                           *)
LostOnlyIfSpoiled == \A m \in seen : Stored(KeyOf(m)) \/ KeyOf(m) \in spoiled

(* Every message is taken in: whatever fails on the way, short of those four   *)
(* routes, a later pass stores it (intake.service.ts:303-308).                 *)
TakenIn == <>(\A m \in Copies : Stored(KeyOf(m)) \/ KeyOf(m) \in spoiled)

----------------------------------------------------------------------------
(* A statement of the repository that the code does not keep; a run finds it   *)
(* violated.                                                                   *)

(* "a refusal costs nothing and the next pass tries again"                     *)
(* (intake.service.ts:306): no message that was refused is marked read without *)
(* having been stored.                                                         *)
RefusalCostsNothing ==
    \A m \in seen : ledger[KeyOf(m)].outcome = "refused" => Stored(KeyOf(m))
=============================================================================
