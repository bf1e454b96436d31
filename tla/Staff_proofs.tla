---------------------------- MODULE Staff_proofs -----------------------------
(* Proofs about Staff, for everybody who works here, any leads, desks, players,*)
(* keys and calls, any number of passes and of faults.                         *)
EXTENDS Staff, SequenceTheorems, FiniteSetTheorems, TLAPS

----------------------------------------------------------------------------
(* The inductive invariant.                                                    *)

Labels  == {"idle", "deactivate", "leads", "resolve", "read", "move"}
Periods == [number : Nat, holder : Ids \cup {NoOne}]
Held    == [people : Seq(People), leads : SUBSET Leads, cached : BOOLEAN, rows : SUBSET (Players \X Nat)]

Typed ==
    /\ account \in [People -> {"active", "disabled", "invited"}]
    /\ operator \in [People -> BOOLEAN] /\ lead \in [Desks -> Leads]
    /\ period \in [Players -> Periods]
    /\ ledger \in [Keys -> {"none", "in_flight", "settled"}] /\ done \in [Keys -> Nat]
    /\ call \in [Calls -> [at : {"idle", "work", "settle"}, key : Keys \cup {NoOne}]]
    /\ hand \in [player : Players \cup {NoOne}, number : Nat, to : People \cup {NoOne}]
    /\ freed \subseteq Players /\ faults \in 0..MaxFaults /\ edits \in 0..MaxEdits

(* The accounts that are closed, each of them once.                            *)
Listed ==
    /\ closed \in Seq(People) /\ IsInjective(closed)
    /\ ToSet(closed) = {p \in People : account[p] = "disabled"}

(* A pass at work has a person; one that moves players has rows to move and    *)
(* one lead, and only one, to move them to.                                    *)
Walks ==
    /\ pc \in [Passes -> Labels] /\ pass \in [Passes -> Held]
    /\ \A w \in Passes : pc[w] # "idle" => pass[w].people # <<>>
    /\ \A w \in Passes : pc[w] = "move" => pass[w].rows # {} /\ Unambiguous(w)

Points == hand = NoHand \/ hand.player \in Players

(* Whoever holds a key has claimed it, alone, and its work is done when the    *)
(* call is past it.                                                            *)
Busy(c) == call[c].at # "idle"

Claims ==
    /\ \A c \in Calls : Busy(c) =>
          /\ call[c].key \in Keys
          /\ ledger[call[c].key] = "in_flight"
          /\ done[call[c].key] = IF call[c].at = "work" THEN 0 ELSE 1
    /\ \A c, d \in Calls : Busy(c) /\ Busy(d) /\ call[c].key = call[d].key => c = d
    /\ \A k \in Keys : done[k] <= 1 /\ (ledger[k] = "none" => done[k] = 0)

Inv == Typed /\ Listed /\ Walks /\ Points /\ Claims /\ KeyOnce /\ NeverDropped

----------------------------------------------------------------------------
(* The list of closed accounts.                                                *)

LEMMA ConsSet ==
  ASSUME NEW s \in Seq(People), IsInjective(s), NEW p \in People, p \notin ToSet(s)
  PROVE  /\ <<p>> \o s \in Seq(People) /\ IsInjective(<<p>> \o s)
         /\ ToSet(<<p>> \o s) = ToSet(s) \cup {p}
<1> DEFINE t == <<p>> \o s
<1>1. /\ t \in Seq(People) /\ Len(t) = Len(s) + 1 /\ Len(s) \in Nat
      /\ DOMAIN t = 1..Len(t) /\ DOMAIN s = 1..Len(s)
      /\ \A i \in 1..Len(t) : t[i] = IF i = 1 THEN p ELSE s[i - 1]
  OBVIOUS
<1> HIDE DEF t
<1>2. \A i \in DOMAIN s : i + 1 \in DOMAIN t /\ t[i + 1] = s[i]
  BY <1>1
<1>3. \A i \in DOMAIN t : i = 1 \/ (i - 1 \in DOMAIN s /\ t[i] = s[i - 1])
  BY <1>1
<1>4. 1 \in DOMAIN t /\ t[1] = p
  BY <1>1
<1>5. ToSet(t) = ToSet(s) \cup {p}
  BY <1>2, <1>3, <1>4 DEF ToSet
<1>6. IsInjective(t)
  <2>1. ASSUME NEW a \in DOMAIN t, NEW b \in DOMAIN t, t[a] = t[b] PROVE a = b
    <3>1. CASE a = 1
      BY <1>3, <1>4, <2>1, <3>1 DEF ToSet
    <3>2. CASE b = 1
      BY <1>3, <1>4, <2>1, <3>2 DEF ToSet
    <3>3. CASE a # 1 /\ b # 1
      <4>1. a - 1 = b - 1
        BY <1>3, <2>1, <3>3 DEF IsInjective
      <4>2. a \in Int /\ b \in Int
        BY <1>1
      <4>3. QED
        BY <4>1, <4>2
    <3>4. QED
      BY <3>1, <3>2, <3>3
  <2>2. QED
    BY <2>1 DEF IsInjective
<1>7. QED
  BY <1>1, <1>5, <1>6 DEF t

LEMMA DropSet ==
  ASSUME NEW s \in Seq(People), IsInjective(s), NEW n \in DOMAIN s
  PROVE  /\ RemoveAt(s, n) \in Seq(People) /\ IsInjective(RemoveAt(s, n))
         /\ ToSet(RemoveAt(s, n)) = ToSet(s) \ {s[n]}
<1> DEFINE u == SubSeq(s, 1, n - 1)
           v == SubSeq(s, n + 1, Len(s))
           t == u \o v
           at(i) == IF i < n THEN i ELSE i + 1
<1>1. n \in 1..Len(s) /\ Len(s) \in Nat /\ DOMAIN s = 1..Len(s)
  OBVIOUS
<1>2. /\ u \in Seq(People) /\ Len(u) = n - 1 /\ \A i \in 1..(n - 1) : u[i] = s[i]
      /\ v \in Seq(People) /\ Len(v) = Len(s) - n /\ \A i \in 1..(Len(s) - n) : v[i] = s[n + i]
  BY <1>1
<1> HIDE DEF u, v
<1>3. /\ t \in Seq(People) /\ Len(t) = Len(s) - 1 /\ DOMAIN t = 1..Len(t)
      /\ \A i \in 1..Len(t) : t[i] = IF i < n THEN u[i] ELSE v[i - (n - 1)]
  <2>1. /\ t \in Seq(People) /\ Len(t) = Len(u) + Len(v)
        /\ \A i \in 1..(Len(u) + Len(v)) : t[i] = IF i <= Len(u) THEN u[i] ELSE v[i - Len(u)]
    BY <1>2, ConcatProperties
  <2> HIDE DEF t
  <2>2. Len(u) + Len(v) = Len(s) - 1 /\ \A i \in Int : i <= Len(u) <=> i < n
    BY <1>1, <1>2
  <2>3. DOMAIN t = 1..Len(t)
    BY <2>1
  <2>4. QED
    BY <1>2, <2>1, <2>2, <2>3
<1> HIDE DEF t
<1>4. \A i \in DOMAIN t : at(i) \in DOMAIN s \ {n} /\ t[i] = s[at(i)]
  <2>1. ASSUME NEW i \in DOMAIN t PROVE at(i) \in DOMAIN s \ {n} /\ t[i] = s[at(i)]
    <3>1. CASE i < n
      <4>1. i \in 1..(n - 1) /\ i \in 1..Len(s) /\ i # n
        BY <1>1, <1>3, <3>1
      <4>2. t[i] = s[i]
        BY <1>2, <1>3, <3>1, <4>1
      <4>3. QED
        BY <1>1, <3>1, <4>1, <4>2
    <3>2. CASE ~(i < n)
      <4>1. i - (n - 1) \in 1..(Len(s) - n) /\ n + (i - (n - 1)) = i + 1
        BY <1>1, <1>3, <3>2
      <4>2. t[i] = s[i + 1]
        BY <1>2, <1>3, <3>2, <4>1
      <4>3. QED
        BY <1>1, <1>3, <3>2, <4>2
    <3>3. QED
      BY <3>1, <3>2
  <2>2. QED
    BY <2>1
<1>5. \A m \in DOMAIN s \ {n} : \E i \in DOMAIN t : at(i) = m
  <2>1. ASSUME NEW m \in DOMAIN s \ {n} PROVE \E i \in DOMAIN t : at(i) = m
    <3>1. CASE m < n
      BY <1>1, <1>3, <3>1
    <3>2. CASE m > n
      <4>1. m - 1 \in DOMAIN t /\ at(m - 1) = m
        BY <1>1, <1>3, <3>2
      <4>2. QED
        BY <4>1
    <3>3. QED
      BY <1>1, <3>1, <3>2
  <2>2. QED
    BY <2>1
<1>6. \A i, k \in DOMAIN t : at(i) = at(k) => i = k
  BY <1>1, <1>3
<1> HIDE DEF at
<1>7. IsInjective(t)
  BY <1>4, <1>6 DEF IsInjective
<1>8. ToSet(t) \subseteq ToSet(s) \ {s[n]}
  BY <1>4 DEF ToSet, IsInjective
<1>9. ToSet(s) \ {s[n]} \subseteq ToSet(t)
  <2>1. ASSUME NEW m \in DOMAIN s \ {n} PROVE s[m] \in ToSet(t)
    BY <1>4, <1>5 DEF ToSet
  <2>2. QED
    BY <2>1 DEF ToSet
<1>10. t = RemoveAt(s, n)
  BY DEF t, u, v, RemoveAt
<1>11. QED
  BY <1>3, <1>7, <1>8, <1>9, <1>10

----------------------------------------------------------------------------
(* The initial states.                                                         *)

LEMMA NoPassHeld == NoPass \in Held
  BY DEF NoPass, Held

LEMMA InitInv == Init => Inv
<1> SUFFICES ASSUME Init PROVE Inv
  OBVIOUS
<1>1. Typed
  <2>1. period \in [Players -> Periods]
    BY StaffAssumption DEF Init, Periods, Ids
  <2>2. lead \in [Desks -> Leads] /\ freed \subseteq Players
    BY DEF Init
  <2>3. hand \in [player : Players \cup {NoOne}, number : Nat, to : People \cup {NoOne}]
    BY DEF Init, NoHand
  <2>4. QED
    BY <2>1, <2>2, <2>3, StaffAssumption DEF Init, Typed
<1>2. Listed
  BY DEF Init, Listed, IsInjective, ToSet
<1>3. Walks
  BY NoPassHeld DEF Init, Walks, Labels
<1>4. Points /\ Claims /\ KeyOnce /\ NeverDropped
  BY DEF Init, Points, Claims, Busy, KeyOnce, NeverDropped
<1>5. QED
  BY <1>1, <1>2, <1>3, <1>4 DEF Inv

----------------------------------------------------------------------------
(* The keys: a step of one call, which holds its key alone.                    *)

LEMMA AtMoves ==
  ASSUME Typed, NEW c \in Calls, NEW l \in {"idle", "work", "settle"}, NEW k \in Keys \cup {NoOne}, At(c, l, k)
  PROVE  /\ call' \in [Calls -> [at : {"idle", "work", "settle"}, key : Keys \cup {NoOne}]]
         /\ call'[c] = [at |-> l, key |-> k]
         /\ \A d \in Calls \ {c} : call'[d] = call[d]
  BY DEF Typed, At

LEMMA ClaimKeeps ==
  ASSUME Inv, NEW c \in Calls, NEW k \in Keys, Claim(c, k)
  PROVE  (Claims /\ KeyOnce)' /\ ledger' \in [Keys -> {"none", "in_flight", "settled"}]
<1>1. /\ call[c].at = "idle" /\ ledger[k] = "none" /\ done' = done
      /\ ledger' = [ledger EXCEPT ![k] = "in_flight"] /\ At(c, "work", k)
  BY DEF Claim
<1>2. call'[c] = [at |-> "work", key |-> k] /\ \A d \in Calls \ {c} : call'[d] = call[d]
  BY <1>1, AtMoves DEF Inv
<1>3. /\ ledger' \in [Keys -> {"none", "in_flight", "settled"}] /\ ledger'[k] = "in_flight"
      /\ \A j \in Keys \ {k} : ledger'[j] = ledger[j]
  BY <1>1 DEF Inv, Typed
<1>4. done[k] = 0 /\ \A d \in Calls : Busy(d) => call[d].key # k
  BY <1>1 DEF Inv, Claims
<1>5. Claims'
  BY <1>1, <1>2, <1>3, <1>4 DEF Inv, Claims, Busy
<1>6. KeyOnce'
  BY <1>1, <1>3 DEF Inv, KeyOnce
<1>7. QED
  BY <1>3, <1>5, <1>6

LEMMA WorkKeeps ==
  ASSUME Inv, NEW c \in Calls, Work(c)
  PROVE  (Claims /\ KeyOnce)' /\ done' \in [Keys -> Nat]
<1> DEFINE k == call[c].key
<1>1. /\ call[c].at = "work" /\ done' = [done EXCEPT ![k] = @ + 1] /\ ledger' = ledger
      /\ At(c, "settle", k)
  BY DEF Work
<1>2. k \in Keys /\ ledger[k] = "in_flight" /\ done[k] = 0
  BY <1>1 DEF Inv, Claims, Busy
<1>3. call'[c] = [at |-> "settle", key |-> k] /\ \A d \in Calls \ {c} : call'[d] = call[d]
  BY <1>1, <1>2, AtMoves DEF Inv
<1>4. done' \in [Keys -> Nat] /\ done'[k] = 1 /\ \A j \in Keys \ {k} : done'[j] = done[j]
  BY <1>1, <1>2 DEF Inv, Typed
<1>5. \A d \in Calls \ {c} : Busy(d) => call[d].key # k
  BY <1>1 DEF Inv, Claims, Busy
<1>6. Claims'
  BY <1>1, <1>2, <1>3, <1>4, <1>5 DEF Inv, Claims, Busy
<1>7. KeyOnce'
  BY <1>1, <1>2, <1>4 DEF Inv, KeyOnce
<1>8. QED
  BY <1>4, <1>6, <1>7

LEMMA SettleKeeps ==
  ASSUME Inv, NEW c \in Calls, Settle(c)
  PROVE  (Claims /\ KeyOnce)' /\ ledger' \in [Keys -> {"none", "in_flight", "settled"}]
<1> DEFINE k == call[c].key
<1>1. /\ call[c].at = "settle" /\ ledger' = [ledger EXCEPT ![k] = "settled"] /\ done' = done
      /\ At(c, "idle", NoOne)
  BY DEF Settle
<1>2. k \in Keys /\ done[k] = 1
  BY <1>1 DEF Inv, Claims, Busy
<1>3. call'[c] = [at |-> "idle", key |-> NoOne] /\ \A d \in Calls \ {c} : call'[d] = call[d]
  BY <1>1, AtMoves DEF Inv
<1>4. /\ ledger' \in [Keys -> {"none", "in_flight", "settled"}] /\ ledger'[k] = "settled"
      /\ \A j \in Keys \ {k} : ledger'[j] = ledger[j]
  BY <1>1, <1>2 DEF Inv, Typed
<1>5. \A d \in Calls \ {c} : Busy(d) => call[d].key # k
  BY <1>1 DEF Inv, Claims, Busy
<1>6. Claims'
  BY <1>1, <1>2, <1>3, <1>4, <1>5 DEF Inv, Claims, Busy
<1>7. KeyOnce'
  BY <1>1, <1>2, <1>4 DEF Inv, KeyOnce
<1>8. QED
  BY <1>4, <1>6, <1>7

LEMMA CallDiesKeeps == ASSUME Inv, NEW c \in Calls, CallDies(c) PROVE (Claims /\ KeyOnce)'
<1>1. ledger' = ledger /\ done' = done /\ At(c, "idle", NoOne)
  BY DEF CallDies
<1>2. call'[c] = [at |-> "idle", key |-> NoOne] /\ \A d \in Calls \ {c} : call'[d] = call[d]
  BY <1>1, AtMoves DEF Inv
<1>3. QED
  BY <1>1, <1>2 DEF Inv, Claims, Busy, KeyOnce

----------------------------------------------------------------------------
(* A pass: who is next, and what it takes along.                               *)

LEMMA GotoKeeps ==
  ASSUME Inv, NEW w \in Passes, NEW l \in Labels, NEW j \in Held, Goto(w, l, j),
         l # "idle" => j.people # <<>>,
         l = "move" => j.rows # {} /\ Cardinality(j.leads \ {Head(j.people)}) = 1
  PROVE  Walks'
<1>1. /\ pc' \in [Passes -> Labels] /\ pass' \in [Passes -> Held]
      /\ pc'[w] = l /\ pass'[w] = j
      /\ \A v \in Passes \ {w} : pc'[v] = pc[v] /\ pass'[v] = pass[v]
  BY DEF Goto, Inv, Walks
<1>2. ASSUME NEW v \in Passes
      PROVE  /\ pc'[v] # "idle" => pass'[v].people # <<>>
             /\ pc'[v] = "move" => pass'[v].rows # {} /\ Cardinality(pass'[v].leads \ {Head(pass'[v].people)}) = 1
  <2>1. CASE v = w
    BY <1>1, <2>1
  <2>2. CASE v # w
    BY <1>1, <2>2 DEF Inv, Walks, Unambiguous, Successors, Person
  <2>3. QED
    BY <2>1, <2>2
<1>3. QED
  BY <1>1, <1>2 DEF Walks, Unambiguous, Successors, Person

LEMMA NextPersonKeeps ==
  ASSUME Inv, NEW w \in Passes, pc[w] # "idle", NextPerson(w)
  PROVE  Walks'
<1> DEFINE rest == Tail(pass[w].people)
<1>1. pass[w] \in Held /\ pass[w].people \in Seq(People) /\ pass[w].people # <<>>
  BY DEF Inv, Walks, Held
<1>2. rest \in Seq(People)
  BY <1>1
<1>3. CASE rest = <<>> /\ Goto(w, "idle", NoPass)
  BY <1>3, NoPassHeld, GotoKeeps DEF Labels
<1>4. CASE rest # <<>> /\ Goto(w, "deactivate", [pass[w] EXCEPT !.people = rest, !.rows = {}])
  <2> DEFINE j == [pass[w] EXCEPT !.people = rest, !.rows = {}]
  <2>1. j \in Held /\ j.people = rest /\ "deactivate" \in Labels
    BY <1>1, <1>2 DEF Held, Labels
  <2> HIDE DEF rest, j
  <2>2. QED
    BY <1>4, <2>1, GotoKeeps DEF j
<1>5. QED
  BY <1>3, <1>4 DEF NextPerson

LEMMA TickKeeps == ASSUME Inv, NEW w \in Passes, Tick(w) PROVE Walks'
<1> DEFINE n == Min({Batch, Len(closed)})
           first == SubSeq(closed, 1, n)
<1>1. closed \in Seq(People) /\ closed # <<>> /\ Len(closed) \in Nat \ {0} /\ Batch \in Nat \ {0}
  BY StaffAssumption DEF Tick, Inv, Listed
<1>2. n \in 1..Len(closed)
  <2>1. \E x \in {Batch, Len(closed)} : \A y \in {Batch, Len(closed)} : x =< y
    BY <1>1
  <2>2. n \in {Batch, Len(closed)} /\ n =< Len(closed)
    BY <2>1 DEF Min
  <2>3. QED
    BY <1>1, <2>2
<1> HIDE DEF n
<1>3. first \in Seq(People) /\ Len(first) = n
  BY <1>1, <1>2
<1>4. first # <<>>
  BY <1>2, <1>3
<1> DEFINE j == [NoPass EXCEPT !.people = first]
<1>5. j \in Held /\ j.people = first /\ "deactivate" \in Labels
  BY <1>3, NoPassHeld DEF NoPass, Held, Labels
<1>6. Goto(w, "deactivate", j)
  BY DEF Tick, n
<1> HIDE DEF first, j
<1>7. QED
  BY <1>4, <1>5, <1>6, GotoKeeps

LEMMA PassKeeps ==
  ASSUME Inv, NEW w \in Passes,
         Deactivate(w) \/ ReadLeads(w) \/ ResolveLeads(w) \/ ReadPortfolio(w) \/ MoveOne(w)
            \/ StepFails(w) \/ PassDies(w)
  PROVE  Walks'
<1>1. pass[w] \in Held /\ pass[w].people \in Seq(People)
  BY DEF Inv, Walks, Held
<1>2. pc[w] # "idle" => pass[w].people # <<>>
  BY DEF Inv, Walks
<1>3. CASE Deactivate(w)
  <2>1. /\ pc[w] # "idle"
        /\ \E l \in {"read", "leads"} : Goto(w, l, pass[w])
    BY <1>3 DEF Deactivate
  <2>2. QED
    BY <1>1, <1>2, <2>1, GotoKeeps DEF Labels
<1>4. CASE ReadLeads(w)
  <2> DEFINE leads == {lead[d] : d \in Desks}
             j == [pass[w] EXCEPT !.leads = leads]
  <2>0. leads \in SUBSET Leads
    BY DEF Inv, Typed
  <2>1. j \in Held /\ j.people = pass[w].people /\ "resolve" \in Labels
    <3> HIDE DEF leads
    <3>1. QED
      BY <1>1, <2>0 DEF Held, Labels
  <2>2. pc[w] # "idle" /\ Goto(w, "resolve", j)
    BY <1>4 DEF ReadLeads
  <2> HIDE DEF j
  <2>3. QED
    BY <1>2, <2>1, <2>2, GotoKeeps
<1>5. CASE ResolveLeads(w)
  <2> DEFINE j == [pass[w] EXCEPT !.leads = {p \in @ : operator[p]}, !.cached = TRUE]
  <2>1. j \in Held /\ j.people = pass[w].people /\ "read" \in Labels
    BY <1>1 DEF Held, Labels
  <2>2. pc[w] # "idle" /\ Goto(w, "read", j)
    BY <1>5 DEF ResolveLeads
  <2> HIDE DEF j
  <2>3. QED
    BY <1>2, <2>1, <2>2, GotoKeeps
<1>6. CASE ReadPortfolio(w)
  <2> DEFINE mine == {<<pl, period[pl].number>> : pl \in {q \in Players : period[q].holder = Person(w)}}
             j == [pass[w] EXCEPT !.rows = mine]
  <2>1. mine \subseteq Players \X Nat
    BY DEF Inv, Typed, Periods
  <2>2. j \in Held /\ j.people = pass[w].people /\ j.leads = pass[w].leads /\ j.rows = mine /\ "move" \in Labels
    BY <1>1, <2>1 DEF Held, Labels
  <2>3. pc[w] # "idle"
    BY <1>6 DEF ReadPortfolio
  <2>4. \/ Unambiguous(w) /\ mine # {} /\ Goto(w, "move", j)
        \/ NextPerson(w)
    BY <1>6 DEF ReadPortfolio
  <2> HIDE DEF j, mine
  <2>5. Unambiguous(w) => Cardinality(j.leads \ {Head(j.people)}) = 1
    BY <2>2 DEF Unambiguous, Successors, Person
  <2>6. QED
    BY <1>2, <2>2, <2>3, <2>4, <2>5, GotoKeeps, NextPersonKeeps
<1>7. CASE MoveOne(w)
  <2>1. PICK row \in pass[w].rows :
              IF pass[w].rows = {row} THEN NextPerson(w)
              ELSE Goto(w, "move", [pass[w] EXCEPT !.rows = @ \ {row}])
    BY <1>7 DEF MoveOne
  <2>2. pc[w] = "move" /\ Unambiguous(w)
    BY <1>7 DEF MoveOne, Inv, Walks
  <2> DEFINE j == [pass[w] EXCEPT !.rows = @ \ {row}]
  <2>3. /\ j \in Held /\ j.people = pass[w].people /\ j.leads = pass[w].leads
        /\ j.rows = pass[w].rows \ {row} /\ "move" \in Labels
    BY <1>1 DEF Held, Labels
  <2> HIDE DEF j
  <2>4. Cardinality(j.leads \ {Head(j.people)}) = 1
    BY <2>2, <2>3 DEF Unambiguous, Successors, Person
  <2>5. CASE pass[w].rows = {row}
    BY <2>1, <2>2, <2>5, NextPersonKeeps
  <2>6. CASE pass[w].rows # {row}
    <3>1. j.rows # {} /\ Goto(w, "move", j)
      BY <2>1, <2>3, <2>6 DEF j
    <3>2. QED
      BY <1>2, <2>2, <2>3, <2>4, <3>1, GotoKeeps
  <2>7. QED
    BY <2>5, <2>6
<1>8. CASE StepFails(w)
  BY <1>8, NextPersonKeeps DEF StepFails
<1>9. CASE PassDies(w)
  BY <1>9, NoPassHeld, GotoKeeps DEF PassDies, Labels
<1>10. QED
  BY <1>3, <1>4, <1>5, <1>6, <1>7, <1>8, <1>9

----------------------------------------------------------------------------
(* The periods.                                                                *)

LEMMA DestinationIsSomebody ==
  ASSUME Inv, NEW w \in Passes, pc[w] = "move"
  PROVE  Destination(w) \in Ids /\ Destination(w) # NoOne
<1> DEFINE p == CHOOSE x \in Successors(w) : TRUE
<1>1. Successors(w) \subseteq People /\ Cardinality(Successors(w)) = 1
  BY StaffAssumption DEF Inv, Walks, Unambiguous, Successors, Held
<1>2. Successors(w) # {}
  BY <1>1, FS_EmptySet
<1>3. p \in People
  BY <1>1, <1>2
<1>4. QED
  BY <1>3, StaffAssumption DEF Destination, OperatorId, Ids

(* What a move of one row does: the player's period, if it is still the        *)
(* leaver's and the one that was read, and nobody else's.                      *)
LEMMA HandOverKeeps ==
  ASSUME Inv, NEW w \in Passes, pc[w] = "move", NEW row \in pass[w].rows, HandOver(w, row)
  PROVE  /\ period' \in [Players -> Periods]
         /\ \A pl \in Players : period'[pl] # period[pl] =>
               period[pl].holder = Person(w) /\ period'[pl].holder # NoOne
<1>1. row \in Players \X Nat
  BY DEF Inv, Walks, Held
<1> DEFINE pl == row[1]
           new == [number |-> period[pl].number + 1, holder |-> Destination(w)]
<1>2. pl \in Players /\ new \in Periods /\ new.holder # NoOne
  BY <1>1, DestinationIsSomebody DEF Inv, Typed, Periods
<1>3. CASE period[pl] = [number |-> row[2], holder |-> Person(w)] /\ period' = [period EXCEPT ![pl] = new]
  <2> HIDE DEF new
  <2>1. QED
    BY <1>2, <1>3 DEF Inv, Typed
<1>4. CASE period' = period
  BY <1>4 DEF Inv, Typed
<1>5. QED
  BY <1>3, <1>4 DEF HandOver

LEMMA AttachKeeps ==
  ASSUME Inv, Attach
  PROVE  period' \in [Players -> Periods] /\ NeverDropped'
<1>1. hand.player \in Players /\ hand.to \in People /\ hand.to # NoOne
  BY DEF Attach, Inv, Points, NoHand, Typed
<1> DEFINE pl == hand.player
           new == [number |-> period[pl].number + 1, holder |-> hand.to]
<1>2. new \in Periods /\ new.holder # NoOne
  BY <1>1 DEF Inv, Typed, Periods, Ids
<1>3. CASE period' = [period EXCEPT ![pl] = new]
  <2> HIDE DEF new
  <2>1. QED
    BY <1>1, <1>2, <1>3 DEF Attach, Inv, Typed, NeverDropped
<1>4. CASE period' = period
  BY <1>4 DEF Attach, Inv, Typed, NeverDropped
<1>5. QED
  BY <1>3, <1>4 DEF Attach

LEMMA DetachKeeps ==
  ASSUME Inv, Detach
  PROVE  period' \in [Players -> Periods] /\ freed' \subseteq Players /\ NeverDropped'
<1>1. hand.player \in Players
  BY DEF Detach, Inv, Points
<1> DEFINE pl == hand.player
           new == [period[pl] EXCEPT !.holder = NoOne]
<1>2. new \in Periods
  BY <1>1 DEF Inv, Typed, Periods
<1>3. CASE period' = [period EXCEPT ![pl].holder = NoOne] /\ freed' = freed \cup {pl}
  <2>1. period' = [period EXCEPT ![pl] = new]
    BY <1>3
  <2> HIDE DEF new
  <2>2. QED
    BY <1>1, <1>2, <1>3, <2>1 DEF Inv, Typed, NeverDropped
<1>4. CASE UNCHANGED <<period, freed>>
  BY <1>4 DEF Inv, Typed, NeverDropped
<1>5. QED
  BY <1>3, <1>4 DEF Detach

----------------------------------------------------------------------------
(* The accounts.                                                               *)

LEMMA DisableKeeps ==
  ASSUME Inv, NEW p \in People, Disable(p)
  PROVE  account' \in [People -> {"active", "disabled", "invited"}] /\ Listed'
<1>1. CASE UNCHANGED people
  BY <1>1 DEF people, Inv, Typed, Listed
<1>2. CASE /\ account[p] # "disabled" /\ account' = [account EXCEPT ![p] = "disabled"]
           /\ closed' = <<p>> \o closed
  <2>1. p \notin ToSet(closed) /\ closed \in Seq(People) /\ IsInjective(closed)
    BY <1>2 DEF Inv, Listed
  <2>2. /\ account' \in [People -> {"active", "disabled", "invited"}] /\ account'[p] = "disabled"
        /\ \A q \in People \ {p} : account'[q] = account[q]
    BY <1>2 DEF Inv, Typed
  <2>3. {q \in People : account'[q] = "disabled"} = {q \in People : account[q] = "disabled"} \cup {p}
    BY <2>2
  <2>4. QED
    BY <1>2, <2>1, <2>2, <2>3, ConsSet DEF Inv, Listed
<1>3. QED
  BY <1>1, <1>2 DEF Disable

LEMMA ReinstateKeeps ==
  ASSUME Inv, NEW p \in People, Reinstate(p)
  PROVE  account' \in [People -> {"active", "disabled", "invited"}] /\ Listed'
<1>1. CASE UNCHANGED people
  BY <1>1 DEF people, Inv, Typed, Listed
<1>2. ASSUME NEW i \in DOMAIN closed, closed[i] = p, closed' = RemoveAt(closed, i),
             account[p] = "disabled", account' = [account EXCEPT ![p] = "invited"]
      PROVE  account' \in [People -> {"active", "disabled", "invited"}] /\ Listed'
  <2>1. closed \in Seq(People) /\ IsInjective(closed)
    BY DEF Inv, Listed
  <2>2. /\ account' \in [People -> {"active", "disabled", "invited"}] /\ account'[p] = "invited"
        /\ \A q \in People \ {p} : account'[q] = account[q]
    BY <1>2 DEF Inv, Typed
  <2>3. {q \in People : account'[q] = "disabled"} = {q \in People : account[q] = "disabled"} \ {p}
    BY <2>2
  <2>4. QED
    BY <1>2, <2>1, <2>2, <2>3, DropSet DEF Inv, Listed
<1>3. QED
  BY <1>1, <1>2 DEF Reinstate

LEMMA RegisterKeeps ==
  ASSUME Inv, NEW p \in People, Register(p)
  PROVE  account' \in [People -> {"active", "disabled", "invited"}] /\ Listed'
<1>1. /\ account[p] = "invited" /\ account' = [account EXCEPT ![p] = "active"] /\ closed' = closed
  BY DEF Register
<1>2. /\ account' \in [People -> {"active", "disabled", "invited"}] /\ account'[p] = "active"
      /\ \A q \in People \ {p} : account'[q] = account[q]
  BY <1>1 DEF Inv, Typed
<1>3. {q \in People : account'[q] = "disabled"} = {q \in People : account[q] = "disabled"}
  BY <1>1, <1>2
<1>4. QED
  BY <1>1, <1>2, <1>3 DEF Inv, Listed

----------------------------------------------------------------------------
(* The steps together.                                                         *)

(* What a step of a call leaves alone.                                         *)
LEMMA CallInv ==
  ASSUME Inv, NEW c \in Calls, Call(c) \/ CallDies(c) \/ \E k \in Keys : Claim(c, k)
  PROVE  Inv'
<1>1. UNCHANGED <<operator, lead, period, pc, pass, hand, freed, edits>>
  BY DEF Call, Work, Settle, CallDies, Claim, tick
<1>2. (Claims /\ KeyOnce)'
  BY WorkKeeps, SettleKeeps, CallDiesKeeps, ClaimKeeps DEF Call
<1>3. (Walks /\ Points /\ NeverDropped)'
  BY <1>1 DEF Inv, Walks, Points, NeverDropped, Unambiguous, Successors, Person
<1>4. faults' \in 0..MaxFaults
  <2>1. faults' = faults \/ Fault
    BY DEF Call, Work, Settle, CallDies, Claim
  <2>2. QED
    BY <2>1, StaffAssumption DEF Fault, Inv, Typed
<1>5. call' \in [Calls -> [at : {"idle", "work", "settle"}, key : Keys \cup {NoOne}]]
  <2>1. \E k \in Keys \cup {NoOne}, l \in {"idle", "work", "settle"} : At(c, l, k)
    <3>1. Work(c) => call[c].key \in Keys
      BY DEF Work, Inv, Claims, Busy
    <3>2. QED
      BY <3>1 DEF Call, Work, Settle, CallDies, Claim
  <2>2. QED
    BY <2>1, AtMoves DEF Inv
<1>6. ledger' \in [Keys -> {"none", "in_flight", "settled"}] /\ done' \in [Keys -> Nat]
  <2>1. CASE Work(c)
    BY <2>1, WorkKeeps DEF Work, Inv, Typed
  <2>2. CASE Settle(c)
    BY <2>2, SettleKeeps DEF Settle, Inv, Typed
  <2>3. CASE CallDies(c)
    BY <2>3 DEF CallDies, Inv, Typed
  <2>4. CASE \E k \in Keys : Claim(c, k)
    BY <2>4, ClaimKeeps DEF Claim, Inv, Typed
  <2>5. QED
    BY <2>1, <2>2, <2>3, <2>4 DEF Call
<1>7. account' \in [People -> {"active", "disabled", "invited"}] /\ Listed'
  <2>1. CASE Work(c)
    <3>1. call[c].key \in Keys
      BY <2>1 DEF Work, Inv, Claims, Busy
    <3>2. Asks[call[c].key].person \in People
      BY <3>1, StaffAssumption
    <3>3. QED
      BY <2>1, <3>2, DisableKeeps, ReinstateKeeps DEF Work
  <2>2. CASE UNCHANGED people
    BY <2>2 DEF people, Inv, Typed, Listed
  <2>3. QED
    BY <2>1, <2>2 DEF Call, Settle, CallDies, Claim
<1>8. Typed'
  BY <1>1, <1>4, <1>5, <1>6, <1>7 DEF Inv, Typed
<1>9. QED
  BY <1>2, <1>3, <1>7, <1>8 DEF Inv

LEMMA PassInv ==
  ASSUME Inv, NEW w \in Passes, Pass(w) \/ StepFails(w) \/ PassDies(w)
  PROVE  Inv'
<1>1. UNCHANGED <<account, closed, lead, ledger, call, done, hand, freed, edits>>
  BY DEF Pass, Tick, Deactivate, ReadLeads, ResolveLeads, ReadPortfolio, MoveOne, StepFails, PassDies,
         people, hr
<1>2. Walks'
  BY TickKeeps, PassKeeps DEF Pass
<1>3. (Listed /\ Points /\ Claims /\ KeyOnce)'
  BY <1>1 DEF Inv, Listed, Points, Claims, Busy, KeyOnce
<1>4. operator' \in [People -> BOOLEAN]
  BY DEF Pass, Tick, Deactivate, ReadLeads, ResolveLeads, ReadPortfolio, MoveOne, StepFails, PassDies,
         Inv, Typed
<1>5. faults' \in 0..MaxFaults
  <2>1. MoveOne(w) => UNCHANGED faults
    BY DEF MoveOne, HandOver
  <2>2. StepFails(w) \/ PassDies(w) => Fault
    BY DEF StepFails, PassDies
  <2>3. Tick(w) \/ Deactivate(w) \/ ReadLeads(w) \/ ResolveLeads(w) \/ ReadPortfolio(w) => UNCHANGED faults
    BY DEF Tick, Deactivate, ReadLeads, ResolveLeads, ReadPortfolio
  <2>4. faults' = faults \/ Fault
    BY <2>1, <2>2, <2>3 DEF Pass
  <2>5. QED
    BY <2>4, StaffAssumption DEF Fault, Inv, Typed
<1>6. period' \in [Players -> Periods] /\ NeverDropped'
  <2>1. CASE MoveOne(w)
    <3>1. PICK row \in pass[w].rows : HandOver(w, row)
      BY <2>1 DEF MoveOne
    <3>2. pc[w] = "move"
      BY <2>1 DEF MoveOne
    <3>3. QED
      BY <1>1, <3>1, <3>2, HandOverKeeps DEF Inv, NeverDropped
  <2>2. CASE UNCHANGED period
    BY <1>1, <2>2 DEF Inv, Typed, NeverDropped
  <2>3. QED
    BY <2>1, <2>2 DEF Pass, Tick, Deactivate, ReadLeads, ResolveLeads, ReadPortfolio, StepFails, PassDies
<1>7. Typed'
  BY <1>1, <1>4, <1>5, <1>6 DEF Inv, Typed
<1>8. QED
  BY <1>2, <1>3, <1>6, <1>7 DEF Inv

LEMMA HandInv ==
  ASSUME Inv,
         \/ \E p \in People : Register(p)
         \/ \E pl \in Players, to \in People \cup {NoOne} : ReadPeriod(pl, to)
         \/ Attach \/ Detach
         \/ \E d \in Desks, p \in Leads : SetLead(d, p)
  PROVE  Inv'
<1>1. UNCHANGED <<operator, ledger, call, done, pc, pass, faults>>
  BY DEF Register, ReadPeriod, Attach, Detach, SetLead, hr, tick
<1>2. (Walks /\ Claims /\ KeyOnce)'
  BY <1>1 DEF Inv, Walks, Claims, Busy, KeyOnce, Unambiguous, Successors, Person
<1>3. CASE \E p \in People : Register(p)
  <2>1. UNCHANGED <<lead, period, hand, freed, edits>>
    BY <1>3 DEF Register
  <2>2. account' \in [People -> {"active", "disabled", "invited"}] /\ Listed'
    BY <1>3, RegisterKeeps
  <2>3. QED
    BY <1>1, <1>2, <2>1, <2>2 DEF Inv, Typed, Points, NeverDropped
<1>4. ASSUME ~\E p \in People : Register(p)
      PROVE  Listed' /\ account' = account
  BY <1>4 DEF ReadPeriod, Attach, Detach, SetLead, people, Inv, Listed
<1>5. ASSUME NEW pl \in Players, NEW to \in People \cup {NoOne}, ReadPeriod(pl, to)
      PROVE  Inv'
  <2>1. UNCHANGED <<account, closed, lead, period, freed>>
    BY <1>5 DEF ReadPeriod, people
  <2>2. /\ hand' \in [player : Players \cup {NoOne}, number : Nat, to : People \cup {NoOne}]
        /\ hand'.player \in Players
    BY <1>5 DEF ReadPeriod, Inv, Typed, Periods
  <2>3. edits' \in 0..MaxEdits
    BY <1>5, StaffAssumption DEF ReadPeriod, Edit, Inv, Typed
  <2>4. QED
    BY <1>1, <1>2, <2>1, <2>2, <2>3 DEF Inv, Typed, Listed, Points, NeverDropped
<1>6. CASE Attach \/ Detach
  <2>1. hand' = NoHand /\ UNCHANGED <<account, closed, lead, edits>>
    BY <1>6 DEF Attach, Detach, people
  <2>2. NoHand \in [player : Players \cup {NoOne}, number : Nat, to : People \cup {NoOne}]
    BY DEF NoHand
  <2>3. period' \in [Players -> Periods] /\ freed' \subseteq Players /\ NeverDropped'
    <3>1. CASE Attach
      BY <3>1, AttachKeeps DEF Attach, Inv, Typed
    <3>2. CASE Detach
      BY <3>2, DetachKeeps
    <3>3. QED
      BY <1>6, <3>1, <3>2
  <2>4. QED
    BY <1>1, <1>2, <2>1, <2>2, <2>3 DEF Inv, Typed, Listed, Points
<1>7. ASSUME NEW d \in Desks, NEW p \in Leads, SetLead(d, p)
      PROVE  Inv'
  <2>1. UNCHANGED <<account, closed, period, hand, freed>> /\ lead' \in [Desks -> Leads]
    BY <1>7 DEF SetLead, people, Inv, Typed
  <2>2. edits' \in 0..MaxEdits
    BY <1>7, StaffAssumption DEF SetLead, Edit, Inv, Typed
  <2>3. QED
    BY <1>1, <1>2, <2>1, <2>2 DEF Inv, Typed, Listed, Points, NeverDropped
<1>8. QED
  BY <1>3, <1>5, <1>6, <1>7

LEMMA NextInv == Inv /\ [Next]_vars => Inv'
<1> SUFFICES ASSUME Inv, [Next]_vars PROVE Inv'
  OBVIOUS
<1>1. CASE UNCHANGED vars
  BY <1>1 DEF vars, Inv, Typed, Listed, Walks, Points, Claims, Busy, KeyOnce, NeverDropped,
              Unambiguous, Successors, Person
<1>2. QED
  BY <1>1, CallInv, PassInv, HandInv DEF Next

----------------------------------------------------------------------------
(* The theorems.                                                               *)

LEMMA StaffSafe == Spec => []Inv
<1>1. QED
  BY InitInv, NextInv, PTL DEF Spec

(* Every variable keeps its type, and what the tick is told of closed accounts *)
(* is each disabled account once.                                              *)
THEOREM StaffTypes == Spec => []TypeOK
<1>1. ASSUME Inv PROVE TypeOK
  <2>1. \A pl \in Players : period[pl].number \in Nat /\ period[pl].holder \in Ids \cup {NoOne}
    BY <1>1 DEF Inv, Typed, Periods
  <2>2. \A w \in Passes :
           /\ ToSet(pass[w].people) \subseteq People /\ pass[w].leads \subseteq Leads
           /\ pc[w] # "idle" => pass[w].people # <<>>
           /\ pc[w] = "move" => pass[w].rows # {}
    BY <1>1 DEF Inv, Walks, Held, ToSet
  <2>3. QED
    BY <1>1, <2>1, <2>2 DEF Inv, Typed, Listed, Walks, Labels, TypeOK
<1>2. QED
  BY <1>1, StaffSafe, PTL

(* An offboarding leaves no player without a manager, whatever fails in it:    *)
(* handOver closes a period only together with opening the next.               *)
THEOREM DroppedTheorem == Spec => []NeverDropped
<1>1. Inv => NeverDropped
  BY DEF Inv
<1>2. QED
  BY <1>1, StaffSafe, PTL

(* The work of an idempotency key is done at most once, and a key that is      *)
(* settled had it done (ProvisioningRepository.claim).                         *)
THEOREM KeyTheorem == Spec => []KeyOnce
<1>1. Inv => KeyOnce
  BY DEF Inv
<1>2. QED
  BY <1>1, StaffSafe, PTL

(* Whoever moves a player in the name of a leaver finds them still the         *)
(* leaver's: what was done by hand in between stands.                          *)
LEMMA MoveIsTheLeavers ==
  ASSUME Inv, [Next]_vars, NEW w \in Passes, NEW pl \in Players,
         pc[w] = "move", pass'[w] # pass[w], period'[pl] # period[pl]
  PROVE  period[pl].holder = Person(w)
<1>1. ASSUME NEW v \in Passes, Pass(v) \/ StepFails(v) \/ PassDies(v) PROVE v = w
  <2>1. \E l, j : Goto(v, l, j)
    BY <1>1 DEF Pass, Tick, Deactivate, ReadLeads, ResolveLeads, ReadPortfolio, MoveOne, StepFails,
                PassDies, NextPerson
  <2>2. QED
    BY <2>1 DEF Goto, Inv, Walks
<1>2. ASSUME Pass(w) \/ StepFails(w) \/ PassDies(w)
      PROVE  MoveOne(w)
  BY <1>2 DEF Pass, Tick, Deactivate, ReadLeads, ResolveLeads, ReadPortfolio, StepFails, PassDies
<1>3. ASSUME \/ \E c \in Calls : Call(c) \/ CallDies(c) \/ \E k \in Keys : Claim(c, k)
             \/ \E p \in People : Register(p)
             \/ \E q \in Players, to \in People \cup {NoOne} : ReadPeriod(q, to)
             \/ Attach \/ Detach
             \/ \E d \in Desks, p \in Leads : SetLead(d, p)
             \/ UNCHANGED vars
      PROVE  pass' = pass
  BY <1>3 DEF Call, Work, Settle, CallDies, Claim, Register, ReadPeriod, Attach, Detach, SetLead, tick, vars
<1>4. MoveOne(w)
  BY <1>1, <1>2, <1>3 DEF Next
<1>5. QED
  BY <1>4, HandOverKeeps DEF MoveOne

(* An offboarding moves only what is still the leaver's (handOver).            *)
THEOREM HandTheorem == Spec => HandMovesStand
<1>1. Inv /\ [Next]_vars => \A w \in Passes, pl \in Players :
          pc[w] = "move" /\ pass'[w] # pass[w] /\ period'[pl] # period[pl]
              => period[pl].holder = Person(w)
  BY MoveIsTheLeavers
<1>2. QED
  BY <1>1, StaffSafe, PTL DEF Spec, HandMovesStand
=============================================================================
