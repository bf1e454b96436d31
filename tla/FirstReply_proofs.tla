-------------------------- MODULE FirstReply_proofs --------------------------
(* Proofs about FirstReply and the automation engine it composes, for every    *)
(* number of handlers, rules, statuses and messages, and any number of faults  *)
(* and edits.                                                                  *)
EXTENDS FirstReply, WellFoundedInduction, TLAPS

----------------------------------------------------------------------------
(* The inductive invariant.                                                    *)

Labels == {"idle", "look", "resolve", "start", "decide", "stop", "mark",
           "facts", "list", "rule", "apply"}
Job    == [event : Events, facts : Statuses \cup {"none"}, left : SUBSET Rules,
           perms : {"unknown", "held", "lacked"}, public : BOOLEAN,
           intent : {"none", "met", "breached"}, due : BOOLEAN, barred : BOOLEAN]

EngineTyped ==
    /\ status \in Statuses /\ active \subseteq Rules /\ entitled \in BOOLEAN
    /\ runs \in [Rules -> [Events -> {"none", "applied", "not_matched", "refused"}]]
    /\ effects \in [Rules -> [Events -> Nat]]
    /\ unheard \subseteq Rules \X Events
    /\ faults \in 0..MaxFaults /\ edits \in 0..MaxEdits

ClockTyped ==
    /\ policy \in BOOLEAN /\ overdue \in BOOLEAN /\ inTime \in BOOLEAN
    /\ clock \in [outcome : Outcomes, announced : BOOLEAN]
    /\ posted \subseteq Messages /\ replies \in 0..MaxReplies /\ emitted \in Nat

(* What a handler knows where it stands.  It has a rule to evaluate, which can *)
(* be carried out when it is; a reply that was posted after the deadline met   *)
(* no clock; and who was barred when the event was published is not entitled,  *)
(* nor held to be, until the roles change.                                     *)
Knows(l, j, replied, late, may) ==
    /\ l \in {"rule", "apply"} => j.left # {}
    /\ l = "apply" => RuleSet[Min(j.left)] \in Statuses
    /\ l = "decide" /\ j.public => replied \/ late
    /\ l = "stop" => (j.intent = "met" /\ replied) \/ (j.intent = "breached" /\ late)
    /\ l = "mark" => late
    /\ l = "apply" => j.perms = "held"
    /\ j.barred => ~may /\ j.perms # "held"

Inv ==
    /\ EngineTyped /\ ClockTyped
    /\ pc \in [Handlers -> Labels] /\ job \in [Handlers -> Job]
    /\ \A p \in Handlers : Knows(pc[p], job[p], inTime, overdue, entitled)
    /\ OutcomeTrue /\ AppliedMeansRecorded
----------------------------------------------------------------------------
(* Lemmas about the steps.                                                     *)

LEMMA MinIn ==
  ASSUME NEW S, S \subseteq Rules, S # {} PROVE Min(S) \in S
<1>1. S \subseteq Nat
  BY AutomationAssumption
<1>2. PICK x \in S : \A y \in S : ~ (<<y, x>> \in OpToRel(<, Nat))
  BY <1>1, NatLessThanWellFounded, WFMin
<1>3. \A y \in S : x =< y
  <2>1. ASSUME NEW y \in S PROVE ~(y < x)
    BY <1>1, <1>2 DEF OpToRel
  <2>2. QED
    BY <1>1, <2>1
<1>4. QED
  BY <1>3 DEF Min

LEMMA NoJobTyped == NoJob \in Job
  BY DEF NoJob, Job, Events

LEMMA NoJobKnows ==
  ASSUME NEW replied, NEW late, NEW may PROVE Knows("idle", NoJob, replied, late, may)
  BY DEF NoJob, Knows

LEMMA FaultTyped == ASSUME Inv, faults' = faults \/ Fault PROVE faults' \in 0..MaxFaults
  BY AutomationAssumption DEF Fault, Inv, EngineTyped

(* Where the other handlers stand does not change, and what they know stays    *)
(* true: replies and deadlines do not go away.                                 *)
LEMMA StepKeeps ==
  ASSUME Inv, NEW p \in Handlers, NEW l \in Labels, NEW j \in Job, Goto(p, l, j),
         Knows(l, j, inTime', overdue', entitled),
         entitled' = entitled, inTime => inTime', overdue => overdue',
         EngineTyped', ClockTyped', OutcomeTrue', AppliedMeansRecorded'
  PROVE  Inv'
<1>1. /\ pc' \in [Handlers -> Labels] /\ job' \in [Handlers -> Job]
      /\ pc'[p] = l /\ job'[p] = j
      /\ \A q \in Handlers \ {p} : pc'[q] = pc[q] /\ job'[q] = job[q]
  BY DEF Goto, Inv
<1>2. ASSUME NEW q \in Handlers PROVE Knows(pc'[q], job'[q], inTime', overdue', entitled')
  <2>1. CASE q = p
    BY <1>1, <2>1
  <2>2. CASE q # p
    <3>1. Knows(pc[q], job[q], inTime, overdue, entitled)
      BY DEF Inv
    <3>2. QED
      BY <1>1, <2>2, <3>1 DEF Knows
  <2>3. QED
    BY <2>1, <2>2
<1>3. QED
  BY <1>1, <1>2 DEF Inv

(* A step that writes nothing.                                                 *)
LEMMA QuietKeeps ==
  ASSUME Inv, NEW p \in Handlers, NEW l \in Labels, NEW j \in Job, Goto(p, l, j),
         Knows(l, j, inTime, overdue, entitled),
         UNCHANGED <<status, active, entitled, runs, effects, edits, sla>>,
         unheard' \subseteq Rules \X Events, faults' = faults \/ Fault
  PROVE  Inv'
<1>1. EngineTyped'
  BY FaultTyped DEF Inv, EngineTyped
<1>2. ClockTyped' /\ OutcomeTrue' /\ AppliedMeansRecorded'
  BY DEF sla, Inv, ClockTyped, OutcomeTrue, AppliedMeansRecorded
<1>3. QED
  BY <1>1, <1>2, StepKeeps DEF sla

(* A step that changes the clock's side only.                                  *)
LEMMA ClockKeeps ==
  ASSUME Inv, NEW p \in Handlers, NEW l \in Labels, NEW j \in Job, Goto(p, l, j),
         UNCHANGED engine, faults' = faults \/ Fault,
         Knows(l, j, inTime', overdue', entitled),
         inTime => inTime', overdue => overdue', ClockTyped', OutcomeTrue'
  PROVE  Inv'
<1>1. EngineTyped' /\ AppliedMeansRecorded' /\ entitled' = entitled
  BY FaultTyped DEF engine, Inv, EngineTyped, AppliedMeansRecorded
<1>2. QED
  BY <1>1, StepKeeps

(* A handler that is done.                                                     *)
LEMMA FinishGoes ==
  ASSUME NEW p \in Handlers, Finish(p)
  PROVE  Goto(p, "idle", NoJob) /\ "idle" \in Labels /\ NoJob \in Job
  BY NoJobTyped DEF Finish, Labels

(* The field of a job that a step sets.                                        *)
LEMMA JobWith ==
  ASSUME NEW j \in Job
  PROVE  /\ \A e \in Events, d \in BOOLEAN : [j EXCEPT !.event = e, !.due = d] \in Job
         /\ \A b \in BOOLEAN : [j EXCEPT !.public = b] \in Job
         /\ \A i \in {"none", "met", "breached"} : [j EXCEPT !.intent = i] \in Job
         /\ \A s \in SUBSET Rules : [j EXCEPT !.left = s] \in Job
         /\ \A a \in {"unknown", "held", "lacked"} : [j EXCEPT !.perms = a] \in Job
         /\ \A b \in BOOLEAN : [j EXCEPT !.barred = b] \in Job
  BY DEF Job

----------------------------------------------------------------------------
(* The messages and the clock.                                                 *)

LEMMA PostKeeps ==
  ASSUME Inv, NEW p \in Handlers, NEW m \in Messages, RecordIncoming(p, m) \/ TakeIn(p, m)
  PROVE  Inv'
<1>1. PICK l \in {"look", "facts"} : Post(p, m, l)
  BY DEF RecordIncoming, TakeIn
<1> DEFINE j == [NoJob EXCEPT !.event = m, !.due = policy]
<1>2. Goto(p, l, j) /\ posted' = posted \cup {m}
      /\ UNCHANGED <<engine, faults, policy, clock, overdue, replies, inTime, emitted>>
  BY <1>1 DEF Post
<1>3. j \in Job
  BY NoJobTyped, JobWith DEF Inv, ClockTyped, Events
<1>4. Knows(l, j, inTime, overdue, entitled)
  BY DEF NoJob, Knows
<1>5. l \in Labels
  BY DEF Labels
<1>6. ClockTyped' /\ OutcomeTrue'
  BY <1>2 DEF Inv, ClockTyped, OutcomeTrue
<1> HIDE DEF j
<1>7. QED
  BY <1>2, <1>3, <1>4, <1>5, <1>6, ClockKeeps

LEMMA StayingJob ==
  ASSUME Inv, NEW p \in Handlers, NEW l \in {"look", "resolve", "start", "facts"}
  PROVE  /\ job[p] \in Job /\ l \in Labels
         /\ Knows(l, job[p], inTime, overdue, entitled)
  BY DEF Inv, Labels, Knows

LEMMA LookKeeps ==
  ASSUME Inv, NEW p \in Handlers, Look(p) \/ ResolveTarget(p) PROVE Inv'
<1>1. PICK l \in {"resolve", "start", "facts"} : Goto(p, l, job[p])
  BY DEF Look, ResolveTarget
<1>2. UNCHANGED <<engine, sla>> /\ (faults' = faults \/ Fault)
  BY DEF Look, ResolveTarget
<1>3. unheard' \subseteq Rules \X Events
  BY <1>2 DEF engine, Inv, EngineTyped
<1>4. QED
  BY <1>1, <1>2, <1>3, StayingJob, QuietKeeps DEF engine

LEMMA StartKeeps ==
  ASSUME Inv, NEW p \in Handlers, Start(p) PROVE Inv'
<1>1. UNCHANGED <<engine, policy, overdue, posted, replies, inTime, emitted>> /\ (faults' = faults \/ Fault)
  BY DEF Start
<1>2. Goto(p, "facts", job[p])
  BY DEF Start
<1>3. clock' = clock \/ (clock.outcome = "none" /\ clock' = [clock EXCEPT !.outcome = "running"])
  BY DEF Start
<1>4. ClockTyped' /\ OutcomeTrue'
  BY <1>1, <1>3 DEF Inv, ClockTyped, OutcomeTrue, Outcomes
<1>5. QED
  BY <1>1, <1>2, <1>4, StayingJob, ClockKeeps

LEMMA PostMessageKeeps ==
  ASSUME Inv, NEW p \in Handlers, NEW public \in BOOLEAN, PostMessage(p, public) PROVE Inv'
<1> DEFINE j == [NoJob EXCEPT !.public = public]
<1>1. /\ UNCHANGED <<engine, faults, policy, clock, overdue, posted, emitted>>
      /\ replies < MaxReplies /\ replies' = replies + 1
      /\ inTime' = (inTime \/ (public /\ ~overdue)) /\ Goto(p, "decide", j)
  BY DEF PostMessage
<1>2. j \in Job /\ "decide" \in Labels
  BY NoJobTyped, JobWith DEF Labels
<1>3. Knows("decide", j, inTime', overdue', entitled)
  BY <1>1 DEF NoJob, Knows
<1>4. ClockTyped'
  <2>1. replies' \in 0..MaxReplies
    BY <1>1, FirstReplyAssumption DEF Inv, ClockTyped
  <2>2. inTime' \in BOOLEAN
    BY <1>1
  <2>3. QED
    BY <1>1, <2>1, <2>2 DEF Inv, ClockTyped
<1>5. OutcomeTrue' /\ (inTime => inTime')
  BY <1>1 DEF Inv, OutcomeTrue
<1> HIDE DEF j
<1>6. QED
  BY <1>1, <1>2, <1>3, <1>4, <1>5, ClockKeeps

(* What decideStop finds is right when it finds it, and stays right.           *)
LEMMA DecideKeeps ==
  ASSUME Inv, NEW p \in Handlers, Decide(p) PROVE Inv'
<1> DEFINE intent == DecideStop(p)
           j      == [job[p] EXCEPT !.intent = intent]
<1>1. UNCHANGED <<engine, sla>> /\ (faults' = faults \/ Fault) /\ pc[p] = "decide"
  BY DEF Decide
<1>2. unheard' \subseteq Rules \X Events
  BY <1>1 DEF engine, Inv, EngineTyped
<1>3. CASE Finish(p)
  BY <1>1, <1>2, <1>3, FinishGoes, NoJobKnows, QuietKeeps DEF engine
<1>4. CASE intent # "none" /\ Goto(p, "stop", j)
  <2>1. /\ job[p].public /\ intent = (IF overdue THEN "breached" ELSE "met")
        /\ job[p] \in Job /\ Knows("decide", job[p], inTime, overdue, entitled)
    BY <1>1, <1>4 DEF DecideStop, Inv
  <2>2. j \in Job /\ "stop" \in Labels /\ j.intent = intent
        /\ j.barred = job[p].barred /\ j.perms = job[p].perms
    BY <2>1 DEF Job, Labels
  <2>3. Knows("stop", j, inTime, overdue, entitled)
    BY <2>1, <2>2 DEF Knows
  <2> HIDE DEF j
  <2>4. QED
    BY <1>1, <1>2, <1>4, <2>2, <2>3, QuietKeeps DEF engine
<1>5. QED
  BY <1>3, <1>4 DEF Decide

LEMMA StopKeeps ==
  ASSUME Inv, NEW p \in Handlers, Stop(p) PROVE Inv'
<1>1. /\ UNCHANGED <<engine, policy, overdue, posted, replies, inTime, emitted>> /\ pc[p] = "stop"
      /\ Finish(p) /\ (faults' = faults \/ Fault)
  BY DEF Stop
<1>2. clock' = clock \/ (Running /\ clock' = [clock EXCEPT !.outcome = job[p].intent])
  BY DEF Stop
<1>3. (job[p].intent = "met" /\ inTime) \/ (job[p].intent = "breached" /\ overdue)
  BY <1>1 DEF Inv, Knows
<1>4. ClockTyped' /\ OutcomeTrue'
  BY <1>1, <1>2, <1>3 DEF Inv, ClockTyped, OutcomeTrue, Outcomes, Running
<1>5. QED
  BY <1>1, <1>4, FinishGoes, NoJobKnows, ClockKeeps

LEMMA SweepKeeps ==
  ASSUME Inv, NEW p \in Handlers, Sweep(p) PROVE Inv'
<1>1. UNCHANGED <<engine, faults, sla>> /\ overdue /\ Goto(p, "mark", NoJob)
  BY DEF Sweep
<1>2. Knows("mark", NoJob, inTime, overdue, entitled) /\ "mark" \in Labels
  BY <1>1 DEF NoJob, Knows, Labels
<1>3. unheard' \subseteq Rules \X Events
  BY <1>1 DEF engine, Inv, EngineTyped
<1>4. QED
  BY <1>1, <1>2, <1>3, NoJobTyped, QuietKeeps DEF engine

LEMMA MarkKeeps ==
  ASSUME Inv, NEW p \in Handlers, MarkBreached(p) PROVE Inv'
<1>1. UNCHANGED <<engine, faults, policy, overdue, posted, replies, inTime>> /\ pc[p] = "mark" /\ overdue
  BY DEF MarkBreached, Inv, Knows
<1>2. CASE /\ Running /\ ~clock.announced
           /\ clock' = [outcome |-> "breached", announced |-> TRUE]
           /\ emitted' = emitted + 1 /\ Goto(p, "facts", job[p])
  <2>1. emitted = 0
    BY <1>2 DEF Inv, OutcomeTrue
  <2>2. ClockTyped' /\ OutcomeTrue'
    BY <1>1, <1>2, <2>1 DEF Inv, ClockTyped, OutcomeTrue, Outcomes
  <2>3. QED
    BY <1>1, <1>2, <2>2, StayingJob, ClockKeeps
<1>3. CASE Finish(p) /\ UNCHANGED <<clock, emitted>>
  <2>1. ClockTyped' /\ OutcomeTrue'
    BY <1>1, <1>3 DEF Inv, ClockTyped, OutcomeTrue
  <2>2. QED
    BY <1>1, <1>3, <2>1, FinishGoes, NoJobKnows, ClockKeeps
<1>4. QED
  BY <1>2, <1>3 DEF MarkBreached

LEMMA CrashKeeps ==
  ASSUME Inv, NEW p \in Handlers, Crash(p) PROVE Inv'
<1>1. /\ Fault /\ unheard' = unheard \cup Left(p) /\ Finish(p)
      /\ UNCHANGED <<status, active, entitled, runs, effects, edits, sla>>
  BY DEF Crash
<1>2. job[p].left \subseteq Rules /\ job[p].event \in Events
  BY DEF Inv, Job
<1>3. unheard' \subseteq Rules \X Events
  BY <1>1, <1>2 DEF Left, Inv, EngineTyped
<1>4. QED
  BY <1>1, <1>3, FinishGoes, NoJobKnows, QuietKeeps

----------------------------------------------------------------------------
(* The dispatch of an event.                                                   *)

LEMMA ReadFactsKeeps ==
  ASSUME Inv, NEW p \in Handlers, ReadFacts(p), UNCHANGED sla PROVE Inv'
<1> DEFINE j == [job[p] EXCEPT !.facts = status, !.perms = "unknown", !.barred = ~entitled]
<1>1. UNCHANGED <<engine, faults>> /\ Goto(p, "list", j)
  BY DEF ReadFacts
<1>2. job[p] \in Job /\ status \in Statuses /\ entitled \in BOOLEAN
  BY DEF Inv, EngineTyped
<1>3. j \in Job
  BY <1>2 DEF Job
<1>4. j.barred = ~entitled /\ j.perms = "unknown"
  BY <1>2 DEF Job
<1> HIDE DEF j
<1>5. Knows("list", j, inTime, overdue, entitled) /\ "list" \in Labels
  BY <1>4 DEF Knows, Labels
<1>6. unheard' \subseteq Rules \X Events
  BY <1>1 DEF engine, Inv, EngineTyped
<1>7. QED
  BY <1>1, <1>3, <1>5, <1>6, QuietKeeps DEF engine

LEMMA ListRulesKeeps ==
  ASSUME Inv, NEW p \in Handlers, ListRules(p), UNCHANGED sla PROVE Inv'
<1> DEFINE mine == {r \in active : RuleTrigger[r] = Trigger(job[p].event)}
           j    == [job[p] EXCEPT !.left = mine]
<1>1. UNCHANGED <<engine, faults>> /\ pc[p] = "list"
  BY DEF ListRules
<1>2. unheard' \subseteq Rules \X Events
  BY <1>1 DEF engine, Inv, EngineTyped
<1>3. CASE Finish(p)
  BY <1>1, <1>2, <1>3, FinishGoes, NoJobKnows, QuietKeeps DEF engine
<1>4. CASE mine # {} /\ Goto(p, "rule", j)
  <2>1. mine \in SUBSET Rules
    BY DEF Inv, EngineTyped
  <2>2. job[p] \in Job /\ Knows("list", job[p], inTime, overdue, entitled)
    BY <1>1 DEF Inv
  <2> HIDE DEF mine
  <2>3. j \in Job /\ j.left = mine /\ j.barred = job[p].barred /\ j.perms = job[p].perms
    BY <2>1, <2>2 DEF Job
  <2> HIDE DEF j
  <2>4. Knows("rule", j, inTime, overdue, entitled) /\ "rule" \in Labels
    BY <1>4, <2>2, <2>3 DEF Knows, Labels
  <2>5. QED
    BY <1>1, <1>2, <1>4, <2>3, <2>4, QuietKeeps DEF engine
<1>5. QED
  BY <1>3, <1>4 DEF ListRules

(* The rule a dispatch has come to, and the event it is about.                 *)
LEMMA RuleIs ==
  ASSUME Inv, NEW p \in Handlers, pc[p] \in {"rule", "apply"}
  PROVE  /\ Rule(p) \in Rules /\ job[p].event \in Events /\ job[p] \in Job
         /\ Knows(pc[p], job[p], inTime, overdue, entitled)
<1>1. job[p] \in Job /\ Knows(pc[p], job[p], inTime, overdue, entitled)
  BY DEF Inv
<1>2. job[p].left \subseteq Rules /\ job[p].left # {} /\ job[p].event \in Events
  BY <1>1 DEF Job, Knows
<1>3. QED
  BY <1>1, <1>2, MinIn DEF Rule

LEMMA AdvanceGoes ==
  ASSUME Inv, NEW p \in Handlers, pc[p] \in {"rule", "apply"},
         NEW perms \in {"unknown", "held", "lacked"}, job[p].barred => perms # "held",
         Advance(p, perms)
  PROVE  \E l \in Labels, j \in Job : Goto(p, l, j) /\ Knows(l, j, inTime, overdue, entitled)
<1> DEFINE rest == job[p].left \ {Rule(p)}
           j    == [job[p] EXCEPT !.left = rest, !.perms = perms]
<1>1. job[p] \in Job /\ Knows(pc[p], job[p], inTime, overdue, entitled)
  BY DEF Inv
<1>2. CASE Finish(p)
  BY <1>2, FinishGoes, NoJobKnows
<1>3. CASE rest # {} /\ Goto(p, "rule", j)
  <2>1. rest \in SUBSET Rules
    BY <1>1 DEF Job
  <2> HIDE DEF rest
  <2>2. j \in Job /\ j.left = rest /\ j.perms = perms /\ j.barred = job[p].barred
    BY <1>1, <2>1 DEF Job
  <2> HIDE DEF j
  <2>3. Knows("rule", j, inTime, overdue, entitled) /\ "rule" \in Labels
    BY <1>1, <1>3, <2>2 DEF Knows, Labels
  <2>4. QED
    BY <1>3, <2>2, <2>3
<1>4. QED
  BY <1>2, <1>3 DEF Advance

(* A step of a dispatch whose records and effects still agree.                 *)
LEMMA DispatchKeeps ==
  ASSUME Inv, NEW p \in Handlers, NEW l \in Labels, NEW j \in Job, Goto(p, l, j),
         Knows(l, j, inTime, overdue, entitled),
         UNCHANGED <<active, entitled, edits, sla>>, status' \in Statuses,
         runs' \in [Rules -> [Events -> {"none", "applied", "not_matched", "refused"}]],
         effects' \in [Rules -> [Events -> Nat]], AppliedMeansRecorded',
         unheard' \subseteq Rules \X Events, faults' = faults \/ Fault
  PROVE  Inv'
<1>1. EngineTyped'
  BY FaultTyped DEF Inv, EngineTyped
<1>2. ClockTyped' /\ OutcomeTrue'
  BY DEF sla, Inv, ClockTyped, OutcomeTrue
<1>3. QED
  BY <1>1, <1>2, StepKeeps DEF sla

(* A record that is not of an application agrees with effects that are not     *)
(* there.                                                                      *)
LEMMA RefusalAgrees ==
  ASSUME Inv, NEW r \in Rules, NEW e \in Events, NEW outcome \in {"not_matched", "refused"},
         UNCHANGED effects,
         runs' = [runs EXCEPT ![r][e] = IF @ = "none" THEN outcome ELSE @] \/ UNCHANGED runs
  PROVE  /\ runs' \in [Rules -> [Events -> {"none", "applied", "not_matched", "refused"}]]
         /\ effects' \in [Rules -> [Events -> Nat]] /\ AppliedMeansRecorded'
<1>1. CASE UNCHANGED runs
  BY <1>1 DEF Inv, EngineTyped, AppliedMeansRecorded
<1>2. CASE runs' = [runs EXCEPT ![r][e] = IF @ = "none" THEN outcome ELSE @]
  <2>1. runs' \in [Rules -> [Events -> {"none", "applied", "not_matched", "refused"}]]
    BY <1>2 DEF Inv, EngineTyped
  <2>2. ASSUME NEW s \in Rules, NEW f \in Events
        PROVE  runs'[s][f] = "applied" <=> runs[s][f] = "applied"
    BY <1>2 DEF Inv, EngineTyped
  <2>3. QED
    BY <2>1, <2>2 DEF Inv, EngineTyped, AppliedMeansRecorded
<1>3. QED
  BY <1>1, <1>2

LEMMA EvaluateKeeps ==
  ASSUME Inv, NEW p \in Handlers, Evaluate(p), UNCHANGED sla PROVE Inv'
<1> DEFINE r == Rule(p)
           e == job[p].event
           known   == RuleSet[r] \in Statuses
           matched == known /\ job[p].facts = RuleWhen[r]
<1>1. UNCHANGED <<status, active, entitled, effects, edits>> /\ pc[p] = "rule"
  BY DEF Evaluate
<1>2. /\ r \in Rules /\ e \in Events /\ job[p] \in Job
      /\ Knows("rule", job[p], inTime, overdue, entitled)
  BY <1>1, RuleIs
<1>3. ASSUME NEW outcome \in {"not_matched", "refused"},
             NEW perms \in {"unknown", "held", "lacked"}, job[p].barred => perms # "held",
             \/ RecordRun(p, outcome)
             \/ /\ Fault /\ UNCHANGED unheard
                /\ runs' = [runs EXCEPT ![r][e] = IF @ = "none" THEN outcome ELSE @],
             Advance(p, perms)
      PROVE  Inv'
  <2>1. /\ runs' \in [Rules -> [Events -> {"none", "applied", "not_matched", "refused"}]]
        /\ effects' \in [Rules -> [Events -> Nat]] /\ AppliedMeansRecorded'
    <3>1. runs' = [runs EXCEPT ![r][e] = IF @ = "none" THEN outcome ELSE @] \/ UNCHANGED runs
      BY <1>3 DEF RecordRun
    <3> HIDE DEF r, e
    <3>2. QED
      BY <1>1, <1>2, <3>1, RefusalAgrees
  <2>2. unheard' \subseteq Rules \X Events
    BY <1>2, <1>3 DEF RecordRun, Inv, EngineTyped
  <2>3. faults' = faults \/ Fault
    BY <1>3 DEF RecordRun
  <2>4. PICK l \in Labels, j \in Job : Goto(p, l, j) /\ Knows(l, j, inTime, overdue, entitled)
    BY <1>1, <1>3, AdvanceGoes
  <2>5. status' \in Statuses
    BY <1>1 DEF Inv, EngineTyped
  <2>6. QED
    BY <1>1, <2>1, <2>2, <2>3, <2>4, <2>5, DispatchKeeps
<1>4. Authority(p) \in {"unknown", "held", "lacked"} /\ (job[p].barred => Authority(p) # "held")
  BY <1>2 DEF Authority, Job, Knows
<1>5. CASE /\ matched /\ Authority(p) = "held"
           /\ Goto(p, "apply", [job[p] EXCEPT !.perms = Authority(p)])
           /\ UNCHANGED <<runs, unheard, faults>>
  <2> DEFINE j == [job[p] EXCEPT !.perms = "held"]
  <2>1. j \in Job /\ j.left = job[p].left /\ j.barred = job[p].barred /\ j.perms = "held"
    BY <1>2 DEF Job
  <2>2. Goto(p, "apply", j)
    BY <1>5
  <2> HIDE DEF j
  <2>3. RuleSet[Min(j.left)] \in Statuses
    BY <1>5, <2>1 DEF Rule
  <2>4. Knows("apply", j, inTime, overdue, entitled) /\ "apply" \in Labels
    BY <1>2, <1>4, <1>5, <2>1, <2>3 DEF Knows, Labels
  <2>5. unheard' \subseteq Rules \X Events
    BY <1>5 DEF Inv, EngineTyped
  <2>6. QED
    BY <1>1, <1>5, <2>1, <2>2, <2>4, <2>5, QuietKeeps
<1>6. CASE \/ ~known /\ RecordRun(p, "refused") /\ Advance(p, job[p].perms)
           \/ known /\ ~matched /\ RecordRun(p, "not_matched") /\ Advance(p, job[p].perms)
  BY <1>2, <1>3, <1>6 DEF Job, Knows
<1>7. CASE matched /\ RecordRun(p, "refused") /\ Advance(p, "lacked")
  BY <1>3, <1>7
<1>8. CASE /\ Fault /\ runs' = [runs EXCEPT ![r][e] = IF @ = "none" THEN "refused" ELSE @]
           /\ Advance(p, "lacked") /\ UNCHANGED unheard
  BY <1>3, <1>8
<1>9. QED
  BY <1>5, <1>6, <1>7, <1>8 DEF Evaluate

(* The actions and their record are one step, and a record that is there bars  *)
(* them.                                                                       *)
LEMMA ApplyKeeps ==
  ASSUME Inv, NEW p \in Handlers, Apply(p), UNCHANGED sla PROVE Inv'
<1> DEFINE r == Rule(p)
           e == job[p].event
<1>1. UNCHANGED <<active, entitled, edits>> /\ pc[p] = "apply"
  BY DEF Apply
<1>2. /\ r \in Rules /\ e \in Events /\ job[p] \in Job
      /\ Knows("apply", job[p], inTime, overdue, entitled)
  BY <1>1, RuleIs
<1>3. ASSUME Advance(p, job[p].perms)
      PROVE  \E l \in Labels, j \in Job : Goto(p, l, j) /\ Knows(l, j, inTime, overdue, entitled)
  BY <1>1, <1>2, <1>3, AdvanceGoes DEF Job, Knows
<1>4. CASE /\ runs[r][e] = "none" /\ runs' = [runs EXCEPT ![r][e] = "applied"]
           /\ status' = RuleSet[r] /\ effects' = [effects EXCEPT ![r][e] = @ + 1]
           /\ Advance(p, job[p].perms) /\ UNCHANGED <<unheard, faults>>
  <2>1. status' \in Statuses
    BY <1>2, <1>4 DEF Knows, Rule
  <2>2. /\ runs' \in [Rules -> [Events -> {"none", "applied", "not_matched", "refused"}]]
        /\ effects' \in [Rules -> [Events -> Nat]]
    BY <1>2, <1>4 DEF Inv, EngineTyped
  <2>3. AppliedMeansRecorded'
    <3>1. effects[r][e] = 0
      BY <1>2, <1>4 DEF Inv, AppliedMeansRecorded
    <3>2. ASSUME NEW s \in Rules, NEW f \in Events
          PROVE  effects'[s][f] = IF runs'[s][f] = "applied" THEN 1 ELSE 0
      <4>1. CASE s = r /\ f = e
        BY <1>2, <1>4, <3>1, <4>1 DEF Inv, EngineTyped
      <4>2. CASE ~(s = r /\ f = e)
        <5>1. runs'[s][f] = runs[s][f] /\ effects'[s][f] = effects[s][f]
          BY <1>2, <1>4, <4>2 DEF Inv, EngineTyped
        <5>2. QED
          BY <5>1 DEF Inv, AppliedMeansRecorded
      <4>3. QED
        BY <4>1, <4>2
    <3>3. QED
      BY <3>2 DEF AppliedMeansRecorded
  <2>4. unheard' \subseteq Rules \X Events
    BY <1>4 DEF Inv, EngineTyped
  <2>5. QED
    BY <1>1, <1>3, <1>4, <2>1, <2>2, <2>3, <2>4, DispatchKeeps
<1>5. CASE Advance(p, job[p].perms) /\ UNCHANGED <<status, runs, effects, unheard, faults>>
  <2>1. unheard' \subseteq Rules \X Events
    BY <1>5 DEF Inv, EngineTyped
  <2>2. QED
    BY <1>1, <1>3, <1>5, <2>1, QuietKeeps
<1>6. CASE Fault /\ unheard' = unheard \cup Left(p) /\ Finish(p) /\ UNCHANGED <<status, runs, effects>>
  <2>1. unheard' \subseteq Rules \X Events
    BY <1>2, <1>6 DEF Left, Job, Inv, EngineTyped
  <2>2. QED
    BY <1>1, <1>6, <2>1, FinishGoes, NoJobKnows, QuietKeeps
<1>7. QED
  BY <1>4, <1>5, <1>6 DEF Apply

----------------------------------------------------------------------------
(* What happens meanwhile.                                                     *)

LEMMA EditTyped == ASSUME Inv, Edit PROVE edits' \in 0..MaxEdits
  BY AutomationAssumption DEF Edit, Inv, EngineTyped

LEMMA SwitchKeeps ==
  ASSUME Inv, UNCHANGED sla,
         \/ \E r \in Rules : SwitchRule(r)
         \/ \E s \in Statuses : SetStatus(s)
  PROVE  Inv'
<1>1. UNCHANGED <<entitled, runs, effects, unheard, pc, job, faults>> /\ Edit
  BY DEF SwitchRule, SetStatus, Edit
<1>2. status' \in Statuses /\ active' \subseteq Rules
  BY DEF SwitchRule, SetStatus, Inv, EngineTyped
<1>3. EngineTyped'
  BY <1>1, <1>2, EditTyped DEF Inv, EngineTyped
<1>4. ClockTyped' /\ OutcomeTrue' /\ AppliedMeansRecorded'
  BY <1>1 DEF sla, Inv, ClockTyped, OutcomeTrue, AppliedMeansRecorded
<1>5. QED
  BY <1>1, <1>3, <1>4 DEF sla, Inv

LEMMA RolesKeep ==
  ASSUME Inv, ChangeRoles, UNCHANGED sla PROVE Inv'
<1>1. UNCHANGED <<status, active, runs, effects, unheard, pc, faults>> /\ Edit /\ entitled' = ~entitled
  BY DEF ChangeRoles, Edit
<1>2. EngineTyped'
  BY <1>1, EditTyped DEF Inv, EngineTyped
<1>3. ClockTyped' /\ OutcomeTrue' /\ AppliedMeansRecorded'
  BY <1>1 DEF sla, Inv, ClockTyped, OutcomeTrue, AppliedMeansRecorded
<1>4. job' = [p \in Handlers |-> [job[p] EXCEPT !.barred = FALSE]]
  BY DEF ChangeRoles
<1>5. ASSUME NEW p \in Handlers
      PROVE  job'[p] \in Job /\ Knows(pc'[p], job'[p], inTime', overdue', entitled')
  <2> DEFINE j == [job[p] EXCEPT !.barred = FALSE]
  <2>1. job[p] \in Job /\ Knows(pc[p], job[p], inTime, overdue, entitled)
    BY DEF Inv
  <2>2. /\ j \in Job /\ j.barred = FALSE /\ j.left = job[p].left /\ j.public = job[p].public
        /\ j.intent = job[p].intent /\ j.perms = job[p].perms
    BY <2>1 DEF Job
  <2>3. job'[p] = j
    BY <1>4
  <2> HIDE DEF j
  <2>4. QED
    BY <1>1, <2>1, <2>2, <2>3 DEF sla, Knows
<1>6. job' \in [Handlers -> Job]
  BY <1>4, <1>5
<1>7. QED
  BY <1>1, <1>2, <1>3, <1>5, <1>6 DEF Inv

LEMMA TimeKeeps ==
  ASSUME Inv, SetPolicy \/ PassDeadline PROVE Inv'
<1>1. /\ UNCHANGED <<engine, pc, job, faults, clock, posted, replies, inTime, emitted>>
      /\ policy' \in BOOLEAN /\ overdue' \in BOOLEAN /\ (overdue => overdue')
  BY DEF SetPolicy, PassDeadline, Inv, ClockTyped
<1>2. EngineTyped' /\ AppliedMeansRecorded'
  BY <1>1 DEF engine, Inv, EngineTyped, AppliedMeansRecorded
<1>3. ClockTyped' /\ OutcomeTrue'
  BY <1>1 DEF Inv, ClockTyped, OutcomeTrue
<1>4. ASSUME NEW p \in Handlers PROVE Knows(pc[p], job[p], inTime, overdue', entitled)
  <2>1. Knows(pc[p], job[p], inTime, overdue, entitled)
    BY DEF Inv
  <2>2. QED
    BY <1>1, <2>1 DEF Knows
<1>5. QED
  BY <1>1, <1>2, <1>3, <1>4 DEF engine, Inv

----------------------------------------------------------------------------
(* The invariant holds in the beginning, and every step keeps it.              *)

LEMMA InitInv == Init => Inv
<1> SUFFICES ASSUME Init PROVE Inv
  OBVIOUS
<1>1. EngineTyped /\ AppliedMeansRecorded
  BY AutomationAssumption DEF Init, EngineInit, EngineTyped, AppliedMeansRecorded
<1>2. ClockTyped /\ OutcomeTrue
  <2>1. replies \in 0..MaxReplies
    BY FirstReplyAssumption DEF Init
  <2>2. clock = [outcome |-> "none", announced |-> FALSE]
    BY DEF Init
  <2>3. clock \in [outcome : Outcomes, announced : BOOLEAN]
    BY <2>2 DEF Outcomes
  <2>4. ClockTyped
    BY <2>1, <2>3 DEF Init, ClockTyped
  <2>5. OutcomeTrue
    BY <2>2 DEF Init, OutcomeTrue
  <2>6. QED
    BY <2>4, <2>5
<1>3. pc \in [Handlers -> Labels] /\ job \in [Handlers -> Job]
  BY NoJobTyped DEF Init, EngineInit, Labels
<1>4. \A p \in Handlers : pc[p] = "idle" /\ job[p] = NoJob
  BY DEF Init, EngineInit
<1>5. QED
  BY <1>1, <1>2, <1>3, <1>4, NoJobKnows DEF Inv

LEMMA HandlerKeeps ==
  ASSUME Inv, NEW p \in Handlers,
         \/ Handle(p) \/ Sweep(p) \/ Crash(p)
         \/ \E m \in Messages : RecordIncoming(p, m) \/ TakeIn(p, m)
         \/ \E public \in BOOLEAN : PostMessage(p, public)
  PROVE  Inv'
<1>1. CASE Dispatch(p) /\ UNCHANGED sla
  BY <1>1, ReadFactsKeeps, ListRulesKeeps, EvaluateKeeps, ApplyKeeps DEF Dispatch
<1>2. CASE Look(p) \/ ResolveTarget(p) \/ Start(p) \/ Decide(p) \/ Stop(p) \/ MarkBreached(p)
  BY <1>2, LookKeeps, StartKeeps, DecideKeeps, StopKeeps, MarkKeeps
<1>3. CASE Sweep(p) \/ Crash(p)
  BY <1>3, SweepKeeps, CrashKeeps
<1>4. ASSUME NEW m \in Messages, RecordIncoming(p, m) \/ TakeIn(p, m) PROVE Inv'
  BY <1>4, PostKeeps
<1>5. ASSUME NEW public \in BOOLEAN, PostMessage(p, public) PROVE Inv'
  BY <1>5, PostMessageKeeps
<1>6. QED
  BY <1>1, <1>2, <1>3, <1>4, <1>5 DEF Handle

LEMMA NextInv == Inv /\ [Next]_vars => Inv'
<1> SUFFICES ASSUME Inv, [Next]_vars PROVE Inv'
  OBVIOUS
<1>1. CASE UNCHANGED vars
  BY <1>1 DEF vars, engine, Inv, EngineTyped, ClockTyped, OutcomeTrue, AppliedMeansRecorded
<1>2. QED
  BY <1>1, HandlerKeeps, SwitchKeeps, RolesKeep, TimeKeeps DEF Next

THEOREM InvHolds == Spec => []Inv
  BY InitInv, NextInv, PTL DEF Spec

----------------------------------------------------------------------------
(* The theorems.                                                               *)

(* Every value is of its type, and a dispatch that has come to a rule has one. *)
THEOREM FirstReplyTypes == Spec => []TypeOK
<1>1. Inv => TypeOK
  <2> SUFFICES ASSUME Inv PROVE TypeOK
    OBVIOUS
  <2>1. \A p \in Handlers : job[p] \in Job /\ Knows(pc[p], job[p], inTime, overdue, entitled)
    BY DEF Inv
  <2>2. EngineTypeOK
    BY <2>1 DEF Inv, EngineTyped, EngineTypeOK, Job, Knows
  <2>3. QED
    BY <2>1, <2>2 DEF Inv, ClockTyped, TypeOK, Job, Labels
<1>2. QED
  BY <1>1, InvHolds, PTL

(* "met" means a public reply was posted in time, "breached" that the deadline *)
(* went by, and a breach is published once.                                    *)
THEOREM OutcomeTheorem == Spec => []OutcomeTrue
<1>1. Inv => OutcomeTrue
  BY DEF Inv
<1>2. QED
  BY <1>1, InvHolds, PTL

(* A rule acts on an event at most once, and when it does its record says so.  *)
THEOREM AppliedTheorem == Spec => []AppliedMeansRecorded
<1>1. Inv => AppliedMeansRecorded
  BY DEF Inv
<1>2. QED
  BY <1>1, InvHolds, PTL

(* No rule acts on an event that was published after its author had lost what  *)
(* the action asks for: while the author is barred, no hop finds him entitled. *)
THEOREM AuthorTheorem == Spec => NeverOutranksAuthor
<1> DEFINE Allowed == \A p \in Handlers :
       pc[p] = "apply" /\ job'[p] # job[p] /\ effects' # effects => ~job[p].barred
<1>1. Inv /\ [Next]_vars => [Allowed]_<<pc, job, effects>>
  <2> SUFFICES ASSUME Inv, NEW p \in Handlers, pc[p] = "apply"
               PROVE  ~job[p].barred
    BY DEF vars
  <2>1. Knows(pc[p], job[p], inTime, overdue, entitled)
    BY DEF Inv
  <2>2. QED
    BY <2>1 DEF Knows
<1>2. QED
  BY <1>1, InvHolds, PTL DEF Spec, NeverOutranksAuthor

(* What was decided stays: the safety half of Decided.                         *)
THEOREM OutcomeStaysTheorem == Spec => [][OutcomeStays]_clock
<1>1. Inv /\ [Next]_vars => [OutcomeStays]_clock
  <2> SUFFICES ASSUME Inv, Next PROVE clock' = clock \/ OutcomeStays
    BY DEF vars
  <2>1. ASSUME NEW p \in Handlers, Stop(p) PROVE clock' = clock \/ OutcomeStays
    <3>1. job[p].intent \in {"met", "breached"}
      BY <2>1 DEF Stop, Inv, Knows
    <3>2. clock \in [outcome : Outcomes, announced : BOOLEAN]
      BY DEF Inv, ClockTyped
    <3>3. QED
      BY <2>1, <3>1, <3>2 DEF Stop, OutcomeStays, Running
  <2>2. ASSUME NEW p \in Handlers, Start(p) \/ MarkBreached(p) PROVE clock' = clock \/ OutcomeStays
    BY <2>2 DEF Start, MarkBreached, OutcomeStays, Running, Inv, ClockTyped
  <2>3. ASSUME NEW p \in Handlers, Handle(p), ~Stop(p), ~Start(p), ~MarkBreached(p)
        PROVE  clock' = clock
    BY <2>3 DEF Handle, Look, ResolveTarget, Decide, sla
  <2>4. ASSUME NEW p \in Handlers,
               \/ Sweep(p) \/ Crash(p)
               \/ \E m \in Messages : RecordIncoming(p, m) \/ TakeIn(p, m)
               \/ \E public \in BOOLEAN : PostMessage(p, public)
        PROVE  clock' = clock
    BY <2>4 DEF Sweep, Crash, RecordIncoming, TakeIn, Post, PostMessage, sla
  <2>5. ASSUME SetPolicy \/ PassDeadline \/ UNCHANGED sla PROVE clock' = clock
    BY <2>5 DEF SetPolicy, PassDeadline, sla
  <2>6. QED
    BY <2>1, <2>2, <2>3, <2>4, <2>5 DEF Next
<1>2. QED
  BY <1>1, InvHolds, PTL DEF Spec
=============================================================================
