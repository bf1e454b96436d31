------------------------------- MODULE Staff --------------------------------
(* Letting somebody go: the account (auth, provisioning/), the operator and    *)
(* the portfolio (users, maintenance/ and assignment/), and the worker's       *)
(* offboarding tick, which finishes what the closing of an account began.  The *)
(* fourth part, the return of the open conversations, is Handover in           *)
(* Routing.tla.                                                                *)
(*                                                                             *)
(* A person has two ids: auth knows them by one, and conversations and desks'  *)
(* queues by their operator's.  Everybody here has an operator.  One account;  *)
(* what is disabled stays inside the window the tick looks back.               *)
EXTENDS Integers, FiniteSets, Sequences, SequencesExt, FiniteSetsExt

CONSTANTS
    People,     \* by their auth user id
    Leads,      \* those who may be made the lead of a desk
    Desks,
    Players,
    Keys,       \* idempotency keys of the HR platform's calls
    Asks,       \* of each key: what it asks for, and of whom
    Calls,      \* HR calls that may be under way together
    Passes,     \* offboarding passes that may be under way together
    Batch,      \* STAFF_OFFBOARDING_BATCH
    NoOne,
    MaxFaults,  \* bound: failing calls and crashes in one behaviour
    MaxEdits    \* bound: changes made by hand

OperatorId(p) == <<p>>
Ids == People \cup {OperatorId(p) : p \in People}

ASSUME StaffAssumption ==
    /\ Leads \subseteq People /\ NoOne \notin Ids
    /\ Asks \in [Keys -> [op : {"create", "deactivate"}, person : People]]
    /\ Batch \in Nat \ {0} /\ MaxFaults \in Nat /\ MaxEdits \in Nat

VARIABLES
    account,    \* User.status
    closed,     \* who is disabled, the last one closed first
    operator,   \* Operator.active
    lead,       \* Group.lead_user_id
    period,     \* of each player: the number of the last period, and who holds it if it is open
    ledger,     \* ProvisioningRequest.outcome
    call,       \* where each HR call stands
    pc, pass,   \* where each offboarding pass stands, and what it holds
    hand,       \* an assignment made by hand that is under way
    freed,      \* history: players who never had a manager, or lost theirs by hand
    done,       \* history: how often the work of a key was done
    faults, edits

vars   == <<account, closed, operator, lead, period, ledger, call, pc, pass, hand, freed, done, faults, edits>>
hr     == <<ledger, call, done>>
people == <<account, closed>>
tick   == <<pc, pass>>

NoPass == [people |-> <<>>, leads |-> {}, cached |-> FALSE, rows |-> {}]
NoHand == [player |-> NoOne, number |-> 0, to |-> NoOne]

Init ==
    /\ account = [p \in People |-> "active"] /\ closed = <<>>
    /\ operator = [p \in People |-> TRUE]
    /\ lead \in {[d \in Desks |-> p] : p \in Leads}
    /\ period \in [Players -> [number : {0}, holder : (People \ Leads) \cup {NoOne}]]
    /\ ledger = [k \in Keys |-> "none"]
    /\ call = [c \in Calls |-> [at |-> "idle", key |-> NoOne]]
    /\ pc = [w \in Passes |-> "idle"] /\ pass = [w \in Passes |-> NoPass]
    /\ hand = NoHand
    /\ freed = {pl \in Players : period[pl].holder = NoOne}
    /\ done = [k \in Keys |-> 0]
    /\ faults = 0 /\ edits = 0

Fault == faults < MaxFaults /\ faults' = faults + 1

----------------------------------------------------------------------------
(* The HR platform's calls (auth, provisioning/).                              *)

At(c, l, k) == call' = [call EXCEPT ![c] = [at |-> l, key |-> k]]

(* A variant with a bug: the key is looked up and then written.                *)
ClaimLate(c, k) ==
    /\ call[c].at = "idle" /\ ledger[k] = "none"
    /\ At(c, "work", k)
    /\ UNCHANGED <<people, operator, lead, period, ledger, tick, hand, freed, done, faults, edits>>

(* ProvisioningRepository.claim: the insert, or the answer that is there.  A   *)
(* settled key is replayed and one in flight is a conflict: neither does work. *)
Claim(c, k) ==
    /\ call[c].at = "idle" /\ ledger[k] = "none"
    /\ ledger' = [ledger EXCEPT ![k] = "in_flight"]
    /\ At(c, "work", k)
    /\ UNCHANGED <<people, operator, lead, period, tick, hand, freed, done, faults, edits>>

(* deactivateUser, only while the account is not disabled; with the roles.     *)
Disable(p) ==
    IF account[p] = "disabled" THEN UNCHANGED people
    ELSE /\ account' = [account EXCEPT ![p] = "disabled"]
         /\ closed' = <<p>> \o closed

(* reinstateDisabledUser: disabled -> invited, behind a new invitation.        *)
Reinstate(p) ==
    IF account[p] # "disabled" THEN UNCHANGED people
    ELSE /\ account' = [account EXCEPT ![p] = "invited"]
         /\ \E i \in DOMAIN closed : closed[i] = p /\ closed' = RemoveAt(closed, i)

(* ProvisioningService.create and deactivate, for somebody known: their writes.*)
Work(c) ==
    LET k == call[c].key
    IN  /\ call[c].at = "work"
        /\ IF Asks[k].op = "deactivate" THEN Disable(Asks[k].person) ELSE Reinstate(Asks[k].person)
        /\ done' = [done EXCEPT ![k] = @ + 1]
        /\ At(c, "settle", k)
        /\ UNCHANGED <<operator, lead, period, ledger, tick, hand, freed, faults, edits>>

Settle(c) ==
    /\ call[c].at = "settle"
    /\ ledger' = [ledger EXCEPT ![call[c].key] = "settled"]
    /\ At(c, "idle", NoOne)
    /\ UNCHANGED <<people, operator, lead, period, tick, hand, freed, done, faults, edits>>

(* The call dies: its key stays in flight.                                     *)
CallDies(c) ==
    /\ call[c].at # "idle" /\ Fault
    /\ At(c, "idle", NoOne)
    /\ UNCHANGED <<people, operator, lead, period, ledger, tick, hand, freed, done, edits>>

(* RegistrationService: the invitation is taken up.                            *)
Register(p) ==
    /\ account[p] = "invited"
    /\ account' = [account EXCEPT ![p] = "active"]
    /\ UNCHANGED <<closed, operator, lead, period, hr, tick, hand, freed, faults, edits>>

----------------------------------------------------------------------------
(* The offboarding tick (worker, staff-offboarding.job.ts).                    *)

Person(w) == Head(pass[w].people)

Goto(w, l, j) == pc' = [pc EXCEPT ![w] = l] /\ pass' = [pass EXCEPT ![w] = j]

(* A variant with a bug: the loop runs once past the last person.              *)
NextPersonPastEnd(w) ==
    Goto(w, "deactivate", [pass[w] EXCEPT !.people = IF @ = <<>> THEN @ ELSE Tail(@), !.rows = {}])

(* A variant with a bug: one person is all a pass does.                        *)
NextPersonNever(w) == Goto(w, "idle", NoPass)

(* The pass is done with a person; the leads it read are kept.                 *)
NextPerson(w) ==
    LET rest == Tail(pass[w].people)
    IN  IF rest = <<>> THEN Goto(w, "idle", NoPass)
        ELSE Goto(w, "deactivate", [pass[w] EXCEPT !.people = rest, !.rows = {}])

(* listDisabledStaff: the last Batch whose account was closed.                 *)
Tick(w) ==
    /\ pc[w] = "idle" /\ closed # <<>>
    /\ \/ \E i \in DOMAIN closed : operator[closed[i]]
       \/ \E i \in DOMAIN closed, pl \in Players : period[pl].holder = closed[i]
    /\ Goto(w, "deactivate",
            [NoPass EXCEPT !.people = SubSeq(closed, 1, Min({Batch, Len(closed)}))])
    /\ UNCHANGED <<people, operator, lead, period, hr, hand, freed, faults, edits>>

(* StaffLifecycleRepository.setActive(false), which answers the operator.      *)
Deactivate(w) ==
    /\ pc[w] = "deactivate"
    /\ operator' = [operator EXCEPT ![Person(w)] = FALSE]
    /\ Goto(w, IF pass[w].cached THEN "read" ELSE "leads", pass[w])
    /\ UNCHANGED <<people, lead, period, hr, hand, freed, faults, edits>>

(* listDeskLeads.                                                              *)
ReadLeads(w) ==
    /\ pc[w] = "leads"
    /\ Goto(w, "resolve", [pass[w] EXCEPT !.leads = {lead[d] : d \in Desks}])
    /\ UNCHANGED <<people, operator, lead, period, hr, hand, freed, faults, edits>>

(* resolveOperatorIds of those: only active operators.                         *)
ResolveLeads(w) ==
    /\ pc[w] = "resolve"
    /\ Goto(w, "read", [pass[w] EXCEPT !.leads = {p \in @ : operator[p]}, !.cached = TRUE])
    /\ UNCHANGED <<people, operator, lead, period, hr, hand, freed, faults, edits>>

(* portfolioSuccessor: the one lead there is beside the person, if there is    *)
(* one.  What is handed on is the lead's operator id.                          *)
Successors(w) == pass[w].leads \ {Person(w)}
Unambiguous(w) == Cardinality(Successors(w)) = 1
Destination(w) == OperatorId(CHOOSE p \in Successors(w) : TRUE)

(* openAssignmentsOf.                                                          *)
ReadPortfolio(w) ==
    /\ pc[w] = "read"
    /\ LET mine == {<<pl, period[pl].number>> : pl \in {q \in Players : period[q].holder = Person(w)}}
       IN  IF Unambiguous(w) /\ mine # {} THEN Goto(w, "move", [pass[w] EXCEPT !.rows = mine])
           ELSE NextPerson(w)
    /\ UNCHANGED <<people, operator, lead, period, hr, hand, freed, faults, edits>>

(* A variant with a bug: closed in one transaction, opened in another.         *)
MoveInTwo(w, row) ==
    LET pl == row[1]
    IN  /\ period[pl] = [number |-> row[2], holder |-> Person(w)]
        /\ \/ period' = [period EXCEPT ![pl] = [number |-> @.number + 1, holder |-> Destination(w)]]
              /\ UNCHANGED faults
           \/ period' = [period EXCEPT ![pl].holder = NoOne] /\ Fault

(* A variant with a bug: the period is not looked at again.                    *)
MoveAnyway(w, row) ==
    /\ period' = [period EXCEPT ![row[1]] = [number |-> @.number + 1, holder |-> Destination(w)]]
    /\ UNCHANGED faults

(* handOver: one transaction closes the period, if it is open and still the    *)
(* person's, and opens the successor's.                                        *)
HandOver(w, row) ==
    LET pl == row[1]
    IN  /\ period' = IF period[pl] = [number |-> row[2], holder |-> Person(w)]
                     THEN [period EXCEPT ![pl] = [number |-> @.number + 1, holder |-> Destination(w)]]
                     ELSE period
        /\ UNCHANGED faults

MoveOne(w) ==
    /\ pc[w] = "move"
    /\ \E row \in pass[w].rows :
          /\ HandOver(w, row)
          /\ IF pass[w].rows = {row} THEN NextPerson(w)
             ELSE Goto(w, "move", [pass[w] EXCEPT !.rows = @ \ {row}])
    /\ UNCHANGED <<people, operator, lead, hr, hand, freed, edits>>

(* A call fails: the pass goes on with the next person.                        *)
StepFails(w) ==
    /\ pc[w] # "idle" /\ Fault
    /\ NextPerson(w)
    /\ UNCHANGED <<people, operator, lead, period, hr, hand, freed, edits>>

(* The worker dies.                                                            *)
PassDies(w) ==
    /\ pc[w] # "idle" /\ Fault
    /\ Goto(w, "idle", NoPass)
    /\ UNCHANGED <<people, operator, lead, period, hr, hand, freed, edits>>

----------------------------------------------------------------------------
(* By hand.                                                                    *)
Edit == edits < MaxEdits /\ edits' = edits + 1

(* AssignmentService.assign and unassign read the player's open period, and    *)
(* assign that the manager has an active profile ...                           *)
ReadPeriod(pl, to) ==
    /\ hand = NoHand /\ Edit
    /\ (to = NoOne) = (period[pl].holder # NoOne)      \* else the answer is all there is
    /\ to # NoOne => operator[to]
    /\ hand' = [player |-> pl, number |-> period[pl].number, to |-> to]
    /\ UNCHANGED <<people, operator, lead, period, hr, tick, freed, faults>>

(* ... and attach opens one, which the partial unique index refuses if there   *)
(* is one by now; detach closes the one that was read, whatever came of it.    *)
Attach ==
    /\ hand.to # NoOne
    /\ period' = IF period[hand.player].holder = NoOne
                 THEN [period EXCEPT ![hand.player] = [number |-> @.number + 1, holder |-> hand.to]]
                 ELSE period
    /\ hand' = NoHand
    /\ UNCHANGED <<people, operator, lead, hr, tick, freed, faults, edits>>

Detach ==
    /\ hand # NoHand /\ hand.to = NoOne
    /\ IF period[hand.player].number = hand.number
       THEN /\ period' = [period EXCEPT ![hand.player].holder = NoOne]
            /\ freed' = freed \cup {hand.player}
       ELSE UNCHANGED <<period, freed>>
    /\ hand' = NoHand
    /\ UNCHANGED <<people, operator, lead, hr, tick, faults, edits>>

(* Groups: a desk gets another lead.                                           *)
SetLead(d, p) ==
    /\ Edit /\ p # lead[d]
    /\ lead' = [lead EXCEPT ![d] = p]
    /\ UNCHANGED <<people, operator, period, hr, tick, hand, freed, faults>>

----------------------------------------------------------------------------
Call(c) == Work(c) \/ Settle(c)

Pass(w) ==
    \/ Tick(w) \/ Deactivate(w) \/ ReadLeads(w) \/ ResolveLeads(w)
    \/ ReadPortfolio(w) \/ MoveOne(w)

Next ==
    \/ \E c \in Calls : Call(c) \/ CallDies(c) \/ \E k \in Keys : Claim(c, k)
    \/ \E w \in Passes : Pass(w) \/ StepFails(w) \/ PassDies(w)
    \/ \E p \in People : Register(p)
    \/ \E pl \in Players, to \in People \cup {NoOne} : ReadPeriod(pl, to)
    \/ Attach \/ Detach
    \/ \E d \in Desks, p \in Leads : SetLead(d, p)

Spec == Init /\ [][Next]_vars

(* A call that began runs on, and the tick comes round every minute.           *)
FairSpec ==
    /\ Spec
    /\ \A c \in Calls : WF_vars(Call(c))
    /\ \A w \in Passes : WF_vars(Pass(w))

----------------------------------------------------------------------------
TypeOK ==
    /\ account \in [People -> {"active", "disabled", "invited"}]
    /\ ToSet(closed) = {p \in People : account[p] = "disabled"} /\ IsInjective(closed)
    /\ operator \in [People -> BOOLEAN] /\ lead \in [Desks -> Leads]
    /\ \A pl \in Players : period[pl].number \in Nat /\ period[pl].holder \in Ids \cup {NoOne}
    /\ ledger \in [Keys -> {"none", "in_flight", "settled"}]
    /\ \A c \in Calls : call[c].at \in {"idle", "work", "settle"} /\ call[c].key \in Keys \cup {NoOne}
    /\ pc \in [Passes -> {"idle", "deactivate", "leads", "resolve", "read", "move"}]
    /\ \A w \in Passes :
          /\ ToSet(pass[w].people) \subseteq People /\ pass[w].leads \subseteq Leads
          /\ pc[w] # "idle" => pass[w].people # <<>>
          /\ pc[w] = "move" => pass[w].rows # {}
    /\ freed \subseteq Players /\ faults \in 0..MaxFaults /\ edits \in 0..MaxEdits

(* A player is never without a manager because of an offboarding, whatever     *)
(* fails in it: only somebody who unassigns them leaves them so                *)
(* (assignment.repository.ts, handOver).                                       *)
NeverDropped == \A pl \in Players : period[pl].holder = NoOne => pl \in freed

(* An offboarding moves what is still the leaver's.  A player whom somebody    *)
(* unassigned or gave to another between the reading and the moving stays      *)
(* where they were put.                                                        *)
HandMovesStand ==
    [][\A w \in Passes, pl \in Players :
          pc[w] = "move" /\ pass'[w] # pass[w] /\ period'[pl] # period[pl]
              => period[pl].holder = Person(w)]_vars

(* "A retry ... the same result with no second side effect": the work of a key *)
(* is done once, and a settled key's was done.                                 *)
KeyOnce ==
    \A k \in Keys : done[k] <= 1 /\ (ledger[k] = "settled" => done[k] = 1)

(* Nobody who was let go keeps taking work or keeps their players, once there  *)
(* is one lead to take them: "whoever is left is picked up by the next tick".  *)
Eligible(p) == {q \in Leads \ {p} : operator[q] /\ \E d \in Desks : lead[d] = q}

LeaverLetGo ==
    \A p \in {Asks[k].person : k \in Keys} :
        account[p] = "disabled" ~>
            \/ account[p] # "disabled"
            \/ /\ ~operator[p]
               /\ Cardinality(Eligible(p)) = 1 => \A pl \in Players : period[pl].holder # p

----------------------------------------------------------------------------
(* A statement of the repository that the code does not keep; a run finds it   *)
(* violated.                                                                   *)

(* "Both are AUTH user ids -- the id space `PlayerAssignment.am_auth_user_id`  *)
(* holds" (users.proto:1010).                                                  *)
ManagerIsAUser == \A pl \in Players : period[pl].holder \in People \cup {NoOne}
=============================================================================
