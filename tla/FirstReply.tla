---------------------------- MODULE FirstReply ------------------------------
(* The first-reply clock of one conversation (chats, sla/), with the handlers  *)
(* that start it, stop it and find it overdue, and the rules (Automation.tla)  *)
(* that they run before they answer.                                           *)
(*                                                                             *)
(* A handler is one RPC: RecordIncomingMessage, PostMessage, a channel intake, *)
(* or a sweep.  Sweeps may overlap, since a call that the worker gives up on   *)
(* runs on.  Each action is what a handler does between two awaits.            *)
EXTENDS Automation

CONSTANT MaxReplies    \* bound: messages of the staff

ASSUME FirstReplyAssumption == MaxReplies \in Nat

VARIABLES
    policy,     \* some policy gives this conversation a target
    clock,      \* ConversationSlaState: its outcome, and breach_announced_at
    overdue,    \* the deadline has gone by
    posted,     \* the player's messages in the thread
    replies,    \* how many messages of the staff are
    inTime,     \* history: a public reply was posted before the deadline
    emitted     \* history: how often the breach was published

vars  == <<engine, pc, job, faults, policy, clock, overdue, posted, replies, inTime, emitted>>
sla   == <<policy, clock, overdue, posted, replies, inTime, emitted>>

Outcomes == {"none", "running", "met", "breached"}

Init ==
    /\ EngineInit
    /\ policy \in BOOLEAN
    /\ clock = [outcome |-> "none", announced |-> FALSE]
    /\ overdue = FALSE /\ posted = {} /\ replies = 0 /\ inTime = FALSE /\ emitted = 0

Running == clock.outcome = "running"

----------------------------------------------------------------------------
(* A message of the player, on which a clock is due if a policy is in force.   *)

Post(p, m, label) ==
    /\ pc[p] = "idle" /\ m \notin posted
    /\ posted' = posted \cup {m}
    /\ Goto(p, label, [NoJob EXCEPT !.event = m, !.due = policy])
    /\ UNCHANGED <<engine, faults, policy, clock, overdue, replies, inTime, emitted>>

(* RecordIncomingMessage: the clock, then the rules.                           *)
RecordIncoming(p, m) == Post(p, m, "look")

(* IntakeService.writeClaimed, for e-mail and the channel API: the message and *)
(* the rules.                                                                  *)
TakeIn(p, m) == Post(p, m, "facts")

(* onInboundPlayerMessage: the clock's state, then the policies.  A failing    *)
(* statement is swallowed and the message goes on to the rules.                *)
Look(p) ==
    /\ pc[p] = "look"
    /\ \/ clock.outcome # "none" /\ Goto(p, "facts", job[p]) /\ UNCHANGED faults
       \/ clock.outcome = "none" /\ Goto(p, "resolve", job[p]) /\ UNCHANGED faults
       \/ Fault /\ Goto(p, "facts", job[p])
    /\ UNCHANGED <<engine, sla>>

ResolveTarget(p) ==
    /\ pc[p] = "resolve"
    /\ \/ Goto(p, IF policy THEN "start" ELSE "facts", job[p]) /\ UNCHANGED faults
       \/ Fault /\ Goto(p, "facts", job[p])
    /\ UNCHANGED <<engine, sla>>

(* SlaRepository.start: one row a conversation, so the second start fails.     *)
Start(p) ==
    /\ pc[p] = "start"
    /\ \/ /\ clock' = IF clock.outcome = "none" THEN [clock EXCEPT !.outcome = "running"] ELSE clock
          /\ UNCHANGED faults
       \/ Fault /\ UNCHANGED clock
    /\ Goto(p, "facts", job[p])
    /\ UNCHANGED <<engine, policy, overdue, posted, replies, inTime, emitted>>

----------------------------------------------------------------------------
(* A message of the staff.                                                     *)

(* PostMessage: a public reply, or a private note.                             *)
PostMessage(p, public) ==
    /\ pc[p] = "idle" /\ posted # {} /\ replies < MaxReplies
    /\ replies' = replies + 1
    /\ inTime' = (inTime \/ (public /\ ~overdue))
    /\ Goto(p, "decide", [NoJob EXCEPT !.public = public])
    /\ UNCHANGED <<engine, faults, policy, clock, overdue, posted, emitted>>

(* decideStop, on the state as it is read.                                     *)
DecideStop(p) ==
    IF Running /\ job[p].public THEN (IF overdue THEN "breached" ELSE "met") ELSE "none"

Decide(p) ==
    /\ pc[p] = "decide"
    /\ LET intent == DecideStop(p)
       IN  \/ /\ intent # "none" /\ Goto(p, "stop", [job[p] EXCEPT !.intent = intent])
              /\ UNCHANGED faults
           \/ intent = "none" /\ Finish(p) /\ UNCHANGED faults
           \/ Fault /\ Finish(p)
    /\ UNCHANGED <<engine, sla>>

(* SlaRepository.stop: only a running clock stops.                             *)
Stop(p) ==
    /\ pc[p] = "stop"
    /\ \/ /\ clock' = IF Running THEN [clock EXCEPT !.outcome = job[p].intent] ELSE clock
          /\ UNCHANGED faults
       \/ Fault /\ UNCHANGED clock
    /\ Finish(p)
    /\ UNCHANGED <<engine, policy, overdue, posted, replies, inTime, emitted>>

----------------------------------------------------------------------------
(* SweepFirstReplySla, every 30 s.                                             *)

(* findDueConversationIds.                                                     *)
Sweep(p) ==
    /\ pc[p] = "idle" /\ Running /\ ~clock.announced /\ overdue
    /\ Goto(p, "mark", NoJob)
    /\ UNCHANGED <<engine, faults, sla>>

(* A variant with a bug: the row was found due, so it is marked.               *)
MarkAnyway(p) ==
    /\ pc[p] = "mark"
    /\ clock' = [outcome |-> "breached", announced |-> TRUE]
    /\ emitted' = emitted + 1
    /\ Goto(p, "facts", job[p])
    /\ UNCHANGED <<engine, faults, policy, overdue, posted, replies, inTime>>

(* A variant with a bug: announced in one statement and breached in another.   *)
MarkInTwo(p) ==
    /\ pc[p] = "mark"
    /\ \/ Running /\ ~clock.announced /\ UNCHANGED faults
          /\ clock' = [outcome |-> "breached", announced |-> TRUE]
       \/ Running /\ Fault /\ clock' = [clock EXCEPT !.announced = TRUE]
       \/ ~(Running /\ ~clock.announced) /\ UNCHANGED <<clock, faults>>
    /\ emitted' = emitted + 1 /\ Finish(p)
    /\ UNCHANGED <<engine, policy, overdue, posted, replies, inTime>>

(* markBreached; only who marked it publishes the breach.                      *)
MarkBreached(p) ==
    /\ pc[p] = "mark"
    /\ \/ /\ Running /\ ~clock.announced
          /\ clock' = [outcome |-> "breached", announced |-> TRUE]
          /\ emitted' = emitted + 1
          /\ Goto(p, "facts", job[p])
       \/ ~(Running /\ ~clock.announced) /\ Finish(p) /\ UNCHANGED <<clock, emitted>>
    /\ UNCHANGED <<engine, faults, policy, overdue, posted, replies, inTime>>

----------------------------------------------------------------------------
(* A handler dies, or a statement throws that nothing catches.                 *)
Crash(p) ==
    /\ pc[p] # "idle" /\ Fault
    /\ unheard' = unheard \cup Left(p)
    /\ Finish(p)
    /\ UNCHANGED <<status, active, entitled, runs, effects, edits, sla>>

(* SetFirstReplySlaPolicy.  A policy is never removed, only set again; a clock *)
(* that runs keeps the target it started with.                                 *)
SetPolicy ==
    /\ ~policy /\ policy' = TRUE
    /\ UNCHANGED <<engine, pc, job, faults, clock, overdue, posted, replies, inTime, emitted>>

PassDeadline ==
    /\ clock.outcome # "none" /\ ~overdue /\ overdue' = TRUE
    /\ UNCHANGED <<engine, pc, job, faults, policy, clock, posted, replies, inTime, emitted>>

Handle(p) ==
    \/ Look(p) \/ ResolveTarget(p) \/ Start(p)
    \/ Decide(p) \/ Stop(p) \/ MarkBreached(p)
    \/ Dispatch(p) /\ UNCHANGED sla

Next ==
    \/ \E p \in Handlers :
          \/ Handle(p) \/ Sweep(p) \/ Crash(p)
          \/ \E m \in Messages : RecordIncoming(p, m) \/ TakeIn(p, m)
          \/ \E public \in BOOLEAN : PostMessage(p, public)
    \/ SetPolicy \/ PassDeadline
    \/ /\ \/ \E r \in Rules : SwitchRule(r)
          \/ \E s \in Statuses : SetStatus(s)
          \/ ChangeRoles
       /\ UNCHANGED sla

Spec == Init /\ [][Next]_vars

(* What a handler began it goes on with, time passes, and the tick comes round *)
(* for as long as it finds something.                                          *)
FairSpec ==
    /\ Spec
    /\ \A p \in Handlers : WF_vars(Handle(p))
    /\ WF_vars(\E p \in Handlers : Sweep(p))
    /\ WF_vars(PassDeadline)

----------------------------------------------------------------------------
TypeOK ==
    /\ EngineTypeOK
    /\ pc \in [Handlers -> {"idle", "look", "resolve", "start", "decide", "stop", "mark",
                            "facts", "list", "rule", "apply"}]
    /\ \A p \in Handlers :
          job[p].public \in BOOLEAN /\ job[p].due \in BOOLEAN /\ job[p].intent \in {"none", "met", "breached"}
    /\ policy \in BOOLEAN /\ overdue \in BOOLEAN /\ inTime \in BOOLEAN
    /\ clock \in [outcome : Outcomes, announced : BOOLEAN]
    /\ posted \subseteq Messages /\ replies \in 0..MaxReplies /\ emitted \in Nat

(* The measurement is right whoever raced whom: "met" means a public reply was *)
(* posted in time, "breached" that the deadline went by, and a breach is       *)
(* published once, by the sweep that found it.                                 *)
OutcomeTrue ==
    /\ clock.outcome = "met" => inTime
    /\ clock.outcome = "breached" => overdue
    /\ clock.announced => clock.outcome = "breached"
    /\ emitted = IF clock.announced THEN 1 ELSE 0

(* No later reply, message or sweep changes an outcome, and a clock that runs  *)
(* is not taken away.                                                          *)
OutcomeStays ==
    /\ clock.outcome \in {"met", "breached"} => clock'.outcome = clock.outcome
    /\ Running => clock'.outcome # "none"

(* A clock is decided, once: the breach is found by a timer and not by a       *)
(* reader, so no clock runs on for ever, whatever happens to the sweeps, and   *)
(* what was decided stays (first-reply.ts:79, decideStart).                    *)
Decided ==
    /\ Running ~> ~Running
    /\ [][OutcomeStays]_clock

(* Every rule that a dispatch took up is answered for, by a record of what it  *)
(* did or why not, unless the dispatch was cut short.                          *)
RulesAnswered ==
    \A e \in Events : \A r \in {k \in Rules : RuleTrigger[k] = Trigger(e)} :
        (\E p \in Handlers : <<r, e>> \in Left(p)) ~> runs[r][e] # "none" \/ <<r, e>> \in unheard

----------------------------------------------------------------------------
(* A statement of the repository that the code does not keep; a run finds it   *)
(* violated.                                                                   *)

(* "one clock row per conversation.  Starts on the first inbound player        *)
(* message" (services/chats/README.md:75).  What arrives through a channel     *)
(* starts none.                                                                *)
MessageStartsClock ==
    \A p \in Handlers :
        pc[p] = "facts" /\ job[p].due /\ faults = 0 => clock.outcome # "none"
=============================================================================
