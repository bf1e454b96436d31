------------------------------ MODULE Presence ------------------------------
(* Who is at their desk (users, presence/): what a person or a supervisor sets *)
(* by hand, the heartbeat of an open session, and the sweep that lowers those  *)
(* who have gone quiet.  Each reads the row and writes it afterwards, and the  *)
(* write asserts nothing about what was read.                                  *)
EXTENDS Integers, FiniteSets, Sequences, SequencesExt, FiniteSetsExt

CONSTANTS
    People,
    Handlers,   \* requests that may be under way together
    Passes,     \* sweeps that may be under way together
    Batch,      \* PRESENCE_SWEEP_BATCH
    NoOne,
    MaxFaults,  \* bound: failing writes and dying processes in one behaviour
    Settable,   \* bound: the states set by hand ...
    MaxSets     \* ... and how often

ASSUME PresenceAssumption ==
    /\ NoOne \notin People /\ Handlers \cap Passes = {}
    /\ Settable \subseteq {"online", "transfers_only", "away", "offline"}
    /\ Batch \in Nat \ {0} /\ MaxFaults \in Nat /\ MaxSets \in Nat

(* PRESENCE_STATES, the most available first, and isLowerAvailability.         *)
Rank   == [online |-> 0, transfers_only |-> 1, away |-> 2, offline |-> 3]
States == DOMAIN Rank
Causes == {"none", "manual", "admin", "auto_inactivity"}

Lower(from, to) == Rank[to] > Rank[from]

VARIABLES
    presence,   \* OperatorPresence: state and last_cause
    seen,       \* those who ever sent a heartbeat, the longest unseen first
    idle,       \* those unseen for PRESENCE_AWAY_AFTER_SECONDS ...
    gone,       \* ... and for PRESENCE_OFFLINE_AFTER_SECONDS
    pc, at,     \* where each request and each sweep stands, and what it holds
    lapsed,     \* history: those whose row was written after they had read it
    faults, sets

vars  == <<presence, seen, idle, gone, pc, at, lapsed, faults, sets>>
clock == <<seen, idle, gone>>

Nothing == [person |-> NoOne, by |-> "none", to |-> "offline", cause |-> "none",
            raise |-> FALSE, due |-> <<>>]

Init ==
    /\ presence = [p \in People |-> [state |-> "offline", cause |-> "none"]]    \* DEFAULT_PRESENCE
    /\ seen = <<>> /\ idle = {} /\ gone = {}
    /\ pc = [x \in Handlers \cup Passes |-> "idle"]
    /\ at = [x \in Handlers \cup Passes |-> Nothing]
    /\ lapsed = {}
    /\ faults = 0 /\ sets = 0

Goto(x, l, j) == pc' = [pc EXCEPT ![x] = l] /\ at' = [at EXCEPT ![x] = j]
Fault == faults < MaxFaults /\ faults' = faults + 1

(* PresenceRepository.applyState: an upsert by the person's id.                *)
Apply(x, p, state, cause) ==
    /\ presence' = [presence EXCEPT ![p] = [state |-> state, cause |-> cause]]
    /\ lapsed' = (lapsed \cup {y \in Handlers \cup Passes : at[y].by # "hand" /\ at[y].person = p}) \ {x}

----------------------------------------------------------------------------
(* Requests.                                                                   *)

(* PresenceService.setState reads the row.  A state that is held already is    *)
(* answered, and nothing is written - unless the label changes.                *)
SetState(h, p, state, cause, relabel) ==
    /\ pc[h] = "idle" /\ sets < MaxSets /\ sets' = sets + 1
    /\ IF presence[p].state = state /\ ~relabel
       THEN UNCHANGED <<pc, at>>
       ELSE Goto(h, "write", [Nothing EXCEPT !.person = p, !.by = "hand", !.to = state, !.cause = cause])
    /\ UNCHANGED <<presence, clock, lapsed, faults>>

(* A variant with a bug: a person's own choice counts, a supervisor's does not.*)
MayRaiseCorrected(cause) == cause # "manual"

(* mayHeartbeatRaise.                                                          *)
MayRaise(cause) == cause \in {"none", "auto_inactivity"}

(* heartbeat reads the row ...                                                 *)
Beat(h, p) ==
    /\ pc[h] = "idle"
    /\ Goto(h, "touch", [Nothing EXCEPT !.person = p, !.by = "beat", !.to = "online", !.cause = "manual",
                             !.raise = presence[p].state # "online" /\ MayRaise(presence[p].cause)])
    /\ UNCHANGED <<presence, clock, lapsed, faults, sets>>

(* ... stamps last_seen_at ...                                                 *)
Touch(h) ==
    LET p == at[h].person
    IN  /\ pc[h] = "touch"
        /\ IF p \in ToSet(seen)
           THEN \E i \in DOMAIN seen : seen[i] = p /\ seen' = Append(RemoveAt(seen, i), p)
           ELSE seen' = Append(seen, p)
        /\ idle' = idle \ {p} /\ gone' = gone \ {p}
        /\ IF at[h].raise THEN Goto(h, "write", at[h]) ELSE Goto(h, "idle", Nothing)
        /\ lapsed' = IF at[h].raise THEN lapsed ELSE lapsed \ {h}
        /\ UNCHANGED <<presence, faults, sets>>

(* ... and writes what it decided on the row it read.                          *)
Write(h) ==
    /\ pc[h] = "write"
    /\ Apply(h, at[h].person, at[h].to, at[h].cause)
    /\ Goto(h, "idle", Nothing)
    /\ UNCHANGED <<clock, faults, sets>>

----------------------------------------------------------------------------
(* The sweep (presence-sweep.service.ts).                                      *)

(* A variant with a bug: those who are away already are not looked at again.   *)
IdleSinceOnline(p) == p \in idle /\ presence[p].state = "online"

(* idleSince: last_seen_at before the nearer of the two cutoffs; a row without *)
(* one does not match.                                                         *)
IdleSince(p) == p \in idle /\ presence[p].state # "offline"

Late == {i \in DOMAIN seen : IdleSince(seen[i])}

(* The k-th of them, the longest unseen first.                                 *)
Oldest(k) == seen[CHOOSE i \in Late : Cardinality({j \in Late : j < i}) = k - 1]

(* The oldest Batch, each with the state its last_seen_at asks for.            *)
Tick(w) ==
    /\ pc[w] = "idle" /\ Late # {}
    /\ Goto(w, "look", [Nothing EXCEPT
           !.due = [k \in 1..Min({Batch, Cardinality(Late)}) |->
                       [person |-> Oldest(k), to |-> IF Oldest(k) \in gone THEN "offline" ELSE "away"]]])
    /\ UNCHANGED <<presence, clock, lapsed, faults, sets>>

(* A variant with a bug: the loop runs once past the last person.              *)
NextDuePastEnd(w) ==
    Goto(w, "look", [Nothing EXCEPT !.due = IF at[w].due = <<>> THEN <<>> ELSE Tail(at[w].due)])

NextDue(w) ==
    LET rest == Tail(at[w].due)
    IN  IF rest = <<>> THEN Goto(w, "idle", Nothing)
        ELSE Goto(w, "look", [Nothing EXCEPT !.due = rest])

(* lowerFromSweep reads the row; what is as low already stays.                 *)
Look(w) ==
    LET row == Head(at[w].due)
    IN  /\ pc[w] = "look"
        /\ IF Lower(presence[row.person].state, row.to)
           THEN Goto(w, "lower", [at[w] EXCEPT !.person = row.person, !.by = "sweep", !.to = row.to])
           ELSE NextDue(w)
        /\ UNCHANGED <<presence, clock, lapsed, faults, sets>>

LowerFromSweep(w) ==
    /\ pc[w] = "lower"
    /\ Apply(w, at[w].person, at[w].to, "auto_inactivity")
    /\ NextDue(w)
    /\ UNCHANGED <<clock, faults, sets>>

----------------------------------------------------------------------------
(* A write fails: the request is answered with an error, the sweep goes on.    *)
WriteFails(x) ==
    /\ pc[x] # "idle" /\ Fault
    /\ IF x \in Passes THEN NextDue(x) ELSE Goto(x, "idle", Nothing)
    /\ lapsed' = lapsed \ {x}
    /\ UNCHANGED <<presence, clock, sets>>

(* The sweep's process dies.                                                   *)
Die(w) ==
    /\ pc[w] # "idle" /\ Fault
    /\ Goto(w, "idle", Nothing) /\ lapsed' = lapsed \ {w}
    /\ UNCHANGED <<presence, clock, sets>>

(* Time passes.                                                                *)
Before(s, p) == {s[i] : i \in 1..(IndexFirstSubSeq(<<p>>, s) - 1)}

GoIdle(p) ==
    /\ p \in ToSet(seen) \ idle /\ Before(seen, p) \subseteq idle
    /\ idle' = idle \cup {p}
    /\ UNCHANGED <<presence, seen, gone, pc, at, lapsed, faults, sets>>

GoGone(p) ==
    /\ p \in idle \ gone /\ Before(seen, p) \subseteq gone
    /\ gone' = gone \cup {p}
    /\ UNCHANGED <<presence, seen, idle, pc, at, lapsed, faults, sets>>

----------------------------------------------------------------------------
Sweep(w) == Tick(w) \/ Look(w) \/ LowerFromSweep(w)

Next ==
    \/ \E h \in Handlers :
          \/ \E p \in People :
                \/ Beat(h, p)
                \/ \E state \in Settable, cause \in {"manual", "admin"}, relabel \in BOOLEAN :
                      SetState(h, p, state, cause, relabel)
          \/ Touch(h) \/ Write(h)
    \/ \E w \in Passes : Sweep(w) \/ Die(w)
    \/ \E x \in Handlers \cup Passes : WriteFails(x)
    \/ \E p \in People : GoIdle(p) \/ GoGone(p)

Spec == Init /\ [][Next]_vars

(* The tick comes round every minute.  Nobody has to beat.                     *)
FairSpec ==
    /\ Spec
    /\ \A w \in Passes : WF_vars(Sweep(w))
    /\ \A h \in Handlers : WF_vars(Touch(h) \/ Write(h))

----------------------------------------------------------------------------
TypeOK ==
    /\ presence \in [People -> [state : States, cause : Causes]]
    /\ ToSet(seen) \subseteq People /\ IsInjective(seen)
    /\ gone \subseteq idle /\ idle \subseteq ToSet(seen)
    /\ \A h \in Handlers : pc[h] \in {"idle", "touch", "write"} /\ (pc[h] # "idle" => at[h].person \in People)
    /\ \A w \in Passes :
          /\ pc[w] \in {"idle", "look", "lower"}
          /\ pc[w] # "idle" => at[w].due # <<>>
          /\ pc[w] = "lower" => at[w].person = at[w].due[1].person
    /\ lapsed \subseteq Handlers \cup Passes
    /\ faults \in 0..MaxFaults /\ sets \in 0..MaxSets

(* "The sweep only LOWERS; a heartbeat raises only what the sweep set" (users  *)
(* README): neither undoes a lunch or a supervisor's correction - but one that *)
(* was set between their reading the row and their writing it.                 *)
HandStands ==
    [][\A x \in Handlers \cup Passes, p \in People :
          presence'[p] # presence[p] /\ pc'[x] # pc[x] /\ at[x].person = p /\ x \notin lapsed =>
              /\ at[x].by = "beat"  => presence[p].cause \notin {"manual", "admin"}
              /\ at[x].by = "sweep" => Lower(presence[p].state, presence'[p].state)]_vars

(* Nobody who went home is pushed work for ever: whoever stays unseen past the *)
(* second threshold goes offline, from whatever state and whoever else the     *)
(* batch is full of.                                                           *)
GoesOffline ==
    \A p \in People : p \in gone ~> p \notin gone \/ presence[p].state = "offline"

=============================================================================
