---------------------------- MODULE Automation -----------------------------
(* The automation engine (chats, automation/ and events/): one dispatch of one *)
(* domain event.  It runs inside the handler that caused the event, so this    *)
(* module has no specification of its own: FirstReply.tla, whose handlers      *)
(* publish, composes it.                                                       *)
(*                                                                             *)
(* One conversation.  A rule has a trigger, the status it asks for and the     *)
(* status it sets; what else a rule can ask for or do is of the same shape.    *)
(* All rules have one author.                                                  *)
EXTENDS Integers, FiniteSetsExt

CONSTANTS
    Handlers,    \* the handlers that may run at a time
    Rules,       \* numbered in the order they are evaluated
    RuleTrigger, \* of each rule: "message" or "breach"
    RuleWhen,    \* the status its condition asks for
    RuleSet,     \* the status its action sets
    Statuses,    \* of the account; a rule may name one that is no longer there
    Messages,    \* the player's messages, numbered from 1
    MaxFaults,   \* bound: failing statements and crashes in one behaviour
    MaxEdits     \* bound: changes of rules, of the author's roles, of the status by hand

ASSUME AutomationAssumption ==
    /\ Rules \subseteq Nat /\ Messages \subseteq Nat \ {0}
    /\ RuleTrigger \in [Rules -> {"message", "breach"}]
    /\ RuleWhen \in [Rules -> Statuses]
    /\ MaxFaults \in Nat /\ MaxEdits \in Nat

(* An event has a key of its own: a message's id, or the conversation's one    *)
(* breach.                                                                     *)
Breach     == 0
Events     == Messages \cup {Breach}
Trigger(e) == IF e = Breach THEN "breach" ELSE "message"

VARIABLES
    status,     \* the conversation's
    active,     \* the rules that are switched on
    entitled,   \* the author holds what the rules' actions ask for
    runs,       \* AutomationRun: the outcome of each rule on each event
    pc, job,    \* where each handler stands, and what it holds
    effects,    \* history: how often a rule's actions took effect on an event
    unheard,    \* history: <<rule, event>> of which a dispatch was cut short
    faults, edits

engine == <<status, active, entitled, runs, effects, unheard, edits>>

NoJob == [event |-> Breach, facts |-> "none", left |-> {}, perms |-> "unknown",
          public |-> FALSE, intent |-> "none", due |-> FALSE, barred |-> FALSE]

EngineInit ==
    /\ status \in Statuses /\ active = Rules /\ entitled = TRUE
    /\ runs = [r \in Rules |-> [e \in Events |-> "none"]]
    /\ effects = [r \in Rules |-> [e \in Events |-> 0]]
    /\ pc = [p \in Handlers |-> "idle"]
    /\ job = [p \in Handlers |-> NoJob]
    /\ unheard = {} /\ faults = 0 /\ edits = 0

Fault == faults < MaxFaults /\ faults' = faults + 1

Goto(p, l, j) == pc' = [pc EXCEPT ![p] = l] /\ job' = [job EXCEPT ![p] = j]
Finish(p)     == Goto(p, "idle", NoJob)

(* The rule a dispatch has come to: the first of those it still has to         *)
(* evaluate.                                                                   *)
Rule(p) == Min(job[p].left)

Left(p) == {<<r, job[p].event>> : r \in job[p].left}

(* A variant with a bug: the loop runs once past the last rule.                *)
AdvancePastEnd(p, perms) ==
    Goto(p, "rule", [job[p] EXCEPT !.left = IF @ = {} THEN {} ELSE @ \ {Min(@)}, !.perms = perms])

(* On to the next rule of the pass.                                            *)
Advance(p, perms) ==
    LET rest == job[p].left \ {Rule(p)}
    IN  IF rest = {} THEN Finish(p)
        ELSE Goto(p, "rule", [job[p] EXCEPT !.left = rest, !.perms = perms])

----------------------------------------------------------------------------
(* DomainEventPublisher.facts: read once, after the write that caused the      *)
(* event, and not again between the rules.                                     *)
ReadFacts(p) ==
    /\ pc[p] = "facts"
    /\ Goto(p, "list", [job[p] EXCEPT !.facts = status, !.perms = "unknown",
                                      !.barred = ~entitled])
    /\ UNCHANGED <<engine, faults>>

(* AutomationEngine.handle, listActiveByTrigger: the rules of this pass.       *)
ListRules(p) ==
    LET mine == {r \in active : RuleTrigger[r] = Trigger(job[p].event)}
    IN  /\ pc[p] = "list"
        /\ IF mine = {} THEN Finish(p)
           ELSE Goto(p, "rule", [job[p] EXCEPT !.left = mine])
        /\ UNCHANGED <<engine, faults>>

(* AutomationsRepository.recordRun: the unique key makes a second one a no-op; *)
(* a failure is swallowed.                                                     *)
RecordRun(p, outcome) ==
    LET r == Rule(p)
        e == job[p].event
    IN  \/ /\ runs' = [runs EXCEPT ![r][e] = IF @ = "none" THEN outcome ELSE @]
           /\ UNCHANGED <<unheard, faults>>
        \/ Fault /\ unheard' = unheard \cup {<<r, e>>} /\ UNCHANGED runs

(* A variant with a bug: the rule was allowed when it was written.             *)
AuthorityOnce(p) == "held"

(* resolveAuthority: one hop for all the rules of a pass.                      *)
Authority(p) ==
    IF job[p].perms # "unknown" THEN job[p].perms
    ELSE IF entitled THEN "held" ELSE "lacked"

(* A variant with a bug: a rule that is refused ends the pass.                 *)
EvaluateOrStop(p) ==
    /\ pc[p] = "rule"
    /\ IF job[p].facts = RuleWhen[Rule(p)] /\ Authority(p) = "held"
       THEN /\ Goto(p, "apply", [job[p] EXCEPT !.perms = "held"])
            /\ UNCHANGED <<runs, unheard, faults>>
       ELSE RecordRun(p, "refused") /\ Finish(p)
    /\ UNCHANGED <<status, active, entitled, effects, edits>>

(* evaluate, before the first write: the definition as the account now is, the *)
(* condition on the facts, and the author's authority.  Where the hop fails,   *)
(* the author is taken to lack what is asked for, for the rest of the pass.    *)
Evaluate(p) ==
    LET r       == Rule(p)
        known   == RuleSet[r] \in Statuses
        matched == known /\ job[p].facts = RuleWhen[r]
        perms   == Authority(p)
    IN  /\ pc[p] = "rule"
        /\ \/ ~known /\ RecordRun(p, "refused") /\ Advance(p, job[p].perms)
           \/ known /\ ~matched /\ RecordRun(p, "not_matched") /\ Advance(p, job[p].perms)
           \/ /\ matched /\ perms = "held"
              /\ Goto(p, "apply", [job[p] EXCEPT !.perms = perms])
              /\ UNCHANGED <<runs, unheard, faults>>
           \/ matched /\ perms = "lacked" /\ RecordRun(p, "refused") /\ Advance(p, perms)
           \/ /\ matched /\ job[p].perms = "unknown"
              /\ Fault /\ runs' = [runs EXCEPT ![r][job[p].event] = IF @ = "none" THEN "refused" ELSE @]
              /\ Advance(p, "lacked") /\ UNCHANGED unheard
        /\ UNCHANGED <<status, active, entitled, effects, edits>>

(* A variant with a bug: the record is a statement of its own.                 *)
ApplyThenRecord(p) ==
    LET r == Rule(p)
        e == job[p].event
    IN  /\ pc[p] = "apply"
        /\ status' = RuleSet[r]
        /\ effects' = [effects EXCEPT ![r][e] = @ + 1]
        /\ RecordRun(p, "applied")
        /\ Advance(p, job[p].perms)
        /\ UNCHANGED <<active, entitled, edits>>

(* applyWithRun: the actions and the run in one transaction, which a run       *)
(* already there aborts.  Any other failure leaves `handle`, and the rest of   *)
(* the pass with it.                                                           *)
Apply(p) ==
    LET r == Rule(p)
        e == job[p].event
    IN  /\ pc[p] = "apply"
        /\ \/ /\ runs[r][e] = "none"
              /\ runs' = [runs EXCEPT ![r][e] = "applied"]
              /\ status' = RuleSet[r]
              /\ effects' = [effects EXCEPT ![r][e] = @ + 1]
              /\ Advance(p, job[p].perms) /\ UNCHANGED <<unheard, faults>>
           \/ /\ runs[r][e] # "none"
              /\ Advance(p, job[p].perms) /\ UNCHANGED <<status, runs, effects, unheard, faults>>
           \/ /\ Fault /\ unheard' = unheard \cup Left(p)
              /\ Finish(p) /\ UNCHANGED <<status, runs, effects>>
        /\ UNCHANGED <<active, entitled, edits>>

Dispatch(p) ==
    ReadFacts(p) \/ ListRules(p) \/ Evaluate(p) \/ Apply(p)

----------------------------------------------------------------------------
(* Meanwhile an administrator switches a rule, the author's roles change, or   *)
(* somebody sets the status by hand.                                           *)
Edit ==
    /\ edits < MaxEdits /\ edits' = edits + 1
    /\ UNCHANGED <<runs, effects, unheard, pc, faults>>

(* AutomationsRepository.update, removeAudited.                                *)
SwitchRule(r) ==
    /\ active' = IF r \in active THEN active \ {r} ELSE active \cup {r}
    /\ Edit /\ UNCHANGED <<status, entitled, job>>

ChangeRoles ==
    /\ entitled' = ~entitled
    /\ job' = [p \in Handlers |-> [job[p] EXCEPT !.barred = FALSE]]
    /\ Edit /\ UNCHANGED <<status, active>>

SetStatus(s) ==
    /\ s # status /\ status' = s
    /\ Edit /\ UNCHANGED <<active, entitled, job>>

----------------------------------------------------------------------------
EngineTypeOK ==
    /\ status \in Statuses /\ active \subseteq Rules /\ entitled \in BOOLEAN
    /\ runs \in [Rules -> [Events -> {"none", "applied", "not_matched", "refused"}]]
    /\ effects \in [Rules -> [Events -> Nat]]
    /\ unheard \subseteq Rules \X Events
    /\ faults \in 0..MaxFaults /\ edits \in 0..MaxEdits
    /\ \A p \in Handlers :
          /\ job[p].event \in Events /\ job[p].facts \in Statuses \cup {"none"}
          /\ job[p].left \subseteq Rules
          /\ job[p].perms \in {"unknown", "held", "lacked"}
          /\ pc[p] \in {"rule", "apply"} => job[p].left # {}

(* "At most once per (rule, conversation, event)", and a rule that did         *)
(* something says so: its actions and its record happen together.              *)
AppliedMeansRecorded ==
    \A r \in Rules, e \in Events :
        effects[r][e] = IF runs[r][e] = "applied" THEN 1 ELSE 0

(* A rule is never stronger than its author: no rule acts on an event that was *)
(* published after the author had lost what the action asks for (FR-023).      *)
NeverOutranksAuthor ==
    [][\A p \in Handlers :
          pc[p] = "apply" /\ job'[p] # job[p] /\ effects' # effects => ~job[p].barred]_<<pc, job, effects>>
=============================================================================
