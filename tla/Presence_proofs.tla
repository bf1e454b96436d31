--------------------------- MODULE Presence_proofs ---------------------------
(* Proofs about Presence, for any number of people, requests and sweeps, every *)
(* batch size, and any number of faults.                                       *)
EXTENDS Presence, SequenceTheorems, FiniteSetTheorems, TLAPS

----------------------------------------------------------------------------
(* The inductive invariant.                                                    *)

Actors == Handlers \cup Passes
Labels == {"idle", "touch", "write", "look", "lower"}
Found  == [person : People, to : {"away", "offline"}]
Held   == [person : People \cup {NoOne}, by : {"none", "hand", "beat", "sweep"}, to : States,
           cause : Causes, raise : BOOLEAN, due : Seq(Found)]

RowsTyped == presence \in [People -> [state : States, cause : Causes]]

SeenTyped ==
    /\ seen \in Seq(People) /\ IsInjective(seen)
    /\ gone \subseteq idle /\ idle \subseteq ToSet(seen)

(* What an actor holds where it stands, and what it has read, unless its row   *)
(* was written since: a heartbeat that is to raise found a row nobody had set  *)
(* by hand, and a sweep that is to lower found a higher state.                 *)
Sound(x, l, j, rows, late) ==
    /\ x \in Handlers =>
          /\ l \in {"idle", "touch", "write"}
          /\ l # "idle" => j.person \in People
          /\ l = "touch" => j.by = "beat"
          /\ l = "write" => j.by \in {"hand", "beat"}
          /\ j.by = "beat" /\ (l = "write" \/ (l = "touch" /\ j.raise)) /\ x \notin late =>
                MayRaise(rows[j.person].cause)
    /\ x \in Passes =>
          /\ l \in {"idle", "look", "lower"}
          /\ l # "idle" => j.due # <<>>
          /\ l = "lower" => j.by = "sweep" /\ j.person = j.due[1].person
          /\ l = "lower" /\ x \notin late => Lower(rows[j.person].state, j.to)

Walks ==
    /\ pc \in [Actors -> Labels] /\ at \in [Actors -> Held]
    /\ \A x \in Actors : Sound(x, pc[x], at[x], presence, lapsed)

Counts == lapsed \subseteq Actors /\ faults \in 0..MaxFaults /\ sets \in 0..MaxSets

Inv == RowsTyped /\ SeenTyped /\ Walks /\ Counts

----------------------------------------------------------------------------
(* Those who were seen, each once: one moves to the end, or comes in there.    *)

LEMMA DropSet ==
  ASSUME NEW s \in Seq(People), IsInjective(s), NEW n \in DOMAIN s
  PROVE  /\ RemoveAt(s, n) \in Seq(People) /\ IsInjective(RemoveAt(s, n))
         /\ ToSet(RemoveAt(s, n)) = ToSet(s) \ {s[n]}
<1> DEFINE u == SubSeq(s, 1, n - 1)
           v == SubSeq(s, n + 1, Len(s))
           t == u \o v
           from(i) == IF i < n THEN i ELSE i + 1
<1>1. n \in 1..Len(s) /\ Len(s) \in Nat /\ DOMAIN s = 1..Len(s)
  OBVIOUS
<1>2. /\ u \in Seq(People) /\ Len(u) = n - 1 /\ \A i \in 1..(n - 1) : u[i] = s[i]
      /\ v \in Seq(People) /\ Len(v) = Len(s) - n /\ \A i \in 1..(Len(s) - n) : v[i] = s[n + i]
  BY <1>1
<1> HIDE DEF u, v
<1>3. /\ t \in Seq(People) /\ Len(t) = Len(s) - 1 /\ DOMAIN t = 1..Len(t)
      /\ \A i \in 1..Len(t) : t[i] = IF i < n THEN u[i] ELSE v[i - (n - 1)]
  <2>1. /\ t \in Seq(People) /\ Len(t) = Len(u) + Len(v)
        /\ \A i \in 1..(Len(u) + Len(v)) : t[i] = IF i <= Len(u) THEN u[i] ELSE v[i - Len(u)]
    BY <1>2, ConcatProperties
  <2> HIDE DEF t
  <2>2. Len(u) + Len(v) = Len(s) - 1 /\ \A i \in Int : i <= Len(u) <=> i < n
    BY <1>1, <1>2
  <2>3. DOMAIN t = 1..Len(t)
    BY <2>1
  <2>4. QED
    BY <1>2, <2>1, <2>2, <2>3
<1> HIDE DEF t
<1>4. \A i \in DOMAIN t : from(i) \in DOMAIN s \ {n} /\ t[i] = s[from(i)]
  <2>1. ASSUME NEW i \in DOMAIN t PROVE from(i) \in DOMAIN s \ {n} /\ t[i] = s[from(i)]
    <3>1. CASE i < n
      <4>1. i \in 1..(n - 1) /\ i \in 1..Len(s) /\ i # n
        BY <1>1, <1>3, <3>1
      <4>2. t[i] = s[i]
        BY <1>2, <1>3, <3>1, <4>1
      <4>3. QED
        BY <1>1, <3>1, <4>1, <4>2
    <3>2. CASE ~(i < n)
      <4>1. i - (n - 1) \in 1..(Len(s) - n) /\ n + (i - (n - 1)) = i + 1
        BY <1>1, <1>3, <3>2
      <4>2. t[i] = s[i + 1]
        BY <1>2, <1>3, <3>2, <4>1
      <4>3. QED
        BY <1>1, <1>3, <3>2, <4>2
    <3>3. QED
      BY <3>1, <3>2
  <2>2. QED
    BY <2>1
<1>5. \A m \in DOMAIN s \ {n} : \E i \in DOMAIN t : from(i) = m
  <2>1. ASSUME NEW m \in DOMAIN s \ {n} PROVE \E i \in DOMAIN t : from(i) = m
    <3>1. CASE m < n
      BY <1>1, <1>3, <3>1
    <3>2. CASE m > n
      <4>1. m - 1 \in DOMAIN t /\ from(m - 1) = m
        BY <1>1, <1>3, <3>2
      <4>2. QED
        BY <4>1
    <3>3. QED
      BY <1>1, <3>1, <3>2
  <2>2. QED
    BY <2>1
<1>6. \A i, k \in DOMAIN t : from(i) = from(k) => i = k
  BY <1>1, <1>3
<1> HIDE DEF from
<1>7. IsInjective(t)
  BY <1>4, <1>6 DEF IsInjective
<1>8. ToSet(t) \subseteq ToSet(s) \ {s[n]}
  BY <1>4 DEF ToSet, IsInjective
<1>9. ToSet(s) \ {s[n]} \subseteq ToSet(t)
  <2>1. ASSUME NEW m \in DOMAIN s \ {n} PROVE s[m] \in ToSet(t)
    BY <1>4, <1>5 DEF ToSet
  <2>2. QED
    BY <2>1 DEF ToSet
<1>10. t = RemoveAt(s, n)
  BY DEF t, u, v, RemoveAt
<1>11. QED
  BY <1>3, <1>7, <1>8, <1>9, <1>10

LEMMA AppendSet ==
  ASSUME NEW s \in Seq(People), IsInjective(s), NEW p \in People, p \notin ToSet(s)
  PROVE  /\ Append(s, p) \in Seq(People) /\ IsInjective(Append(s, p))
         /\ ToSet(Append(s, p)) = ToSet(s) \cup {p}
<1> DEFINE t == Append(s, p)
<1>1. /\ t \in Seq(People) /\ Len(t) = Len(s) + 1 /\ DOMAIN t = 1..Len(t) /\ DOMAIN s = 1..Len(s)
      /\ Len(s) \in Nat /\ t[Len(s) + 1] = p /\ \A i \in DOMAIN s : t[i] = s[i]
  OBVIOUS
<1> HIDE DEF t
<1>2. \A i \in DOMAIN t : i \in DOMAIN s \/ i = Len(s) + 1
  BY <1>1
<1>3. Len(s) + 1 \in DOMAIN t /\ DOMAIN s \subseteq DOMAIN t
  BY <1>1
<1>4. ToSet(t) = ToSet(s) \cup {p}
  BY <1>1, <1>2, <1>3 DEF ToSet
<1>5. \A i \in DOMAIN s : s[i] # p
  BY DEF ToSet
<1>6. IsInjective(t)
  BY <1>1, <1>2, <1>5 DEF IsInjective
<1>7. QED
  BY <1>1, <1>4, <1>6 DEF t

----------------------------------------------------------------------------
(* The initial states.                                                         *)

LEMMA NothingHeld == Nothing \in Held /\ Nothing.by = "none"
<1>1. Nothing.due \in Seq(Found)
  BY DEF Nothing
<1>2. "offline" \in States
  BY DEF States, Rank
<1>3. QED
  BY <1>1, <1>2 DEF Nothing, Held, Causes

LEMMA InitInv == Init => Inv
<1> SUFFICES ASSUME Init PROVE Inv
  OBVIOUS
<1>1. RowsTyped
  BY DEF Init, RowsTyped, States, Rank, Causes
<1>2. SeenTyped
  BY DEF Init, SeenTyped, IsInjective, ToSet
<1>3. Walks
  BY NothingHeld DEF Init, Walks, Labels, Actors, Sound
<1>4. Counts
  BY PresenceAssumption DEF Init, Counts
<1>5. QED
  BY <1>1, <1>2, <1>3, <1>4 DEF Inv

----------------------------------------------------------------------------
(* An actor moves, and the others keep what they hold.                         *)

LEMMA GotoMoves ==
  ASSUME Walks, NEW x \in Actors, NEW l \in Labels, NEW j \in Held, Goto(x, l, j)
  PROVE  /\ pc' \in [Actors -> Labels] /\ at' \in [Actors -> Held]
         /\ pc'[x] = l /\ at'[x] = j
         /\ \A y \in Actors \ {x} : pc'[y] = pc[y] /\ at'[y] = at[y]
  BY DEF Goto, Walks

(* ... when no row changes ...                                                 *)
LEMMA StepKeeps ==
  ASSUME Walks, NEW x \in Actors, NEW l \in Labels, NEW j \in Held, Goto(x, l, j),
         presence' = presence, lapsed \ {x} \subseteq lapsed', Sound(x, l, j, presence, lapsed')
  PROVE  Walks'
<1>1. /\ pc' \in [Actors -> Labels] /\ at' \in [Actors -> Held] /\ pc'[x] = l /\ at'[x] = j
      /\ \A y \in Actors \ {x} : pc'[y] = pc[y] /\ at'[y] = at[y]
  BY GotoMoves
<1>2. ASSUME NEW y \in Actors PROVE Sound(y, pc'[y], at'[y], presence', lapsed')
  <2>1. CASE y = x
    BY <1>1, <2>1
  <2>2. CASE y # x
    <3>1. Sound(y, pc[y], at[y], presence, lapsed)
      BY DEF Walks
    <3>2. y \in lapsed => y \in lapsed'
      BY <2>2
    <3>3. QED
      BY <1>1, <2>2, <3>1, <3>2 DEF Sound
  <2>3. QED
    BY <2>1, <2>2
<1>3. QED
  BY <1>1, <1>2 DEF Walks

(* ... and when one does: who had read it has lapsed.                          *)
LEMMA ApplyKeeps ==
  ASSUME RowsTyped, Walks, lapsed \subseteq Actors,
         NEW x \in Actors, NEW p \in People, NEW state \in States, NEW cause \in Causes,
         Apply(x, p, state, cause), NEW l \in Labels, NEW j \in Held, Goto(x, l, j),
         \A rows, late : Sound(x, l, j, rows, late)
  PROVE  /\ RowsTyped' /\ Walks' /\ lapsed' \subseteq Actors
         /\ presence'[p] = [state |-> state, cause |-> cause]
         /\ \A q \in People \ {p} : presence'[q] = presence[q]
<1>1. /\ pc' \in [Actors -> Labels] /\ at' \in [Actors -> Held] /\ pc'[x] = l /\ at'[x] = j
      /\ \A y \in Actors \ {x} : pc'[y] = pc[y] /\ at'[y] = at[y]
  BY GotoMoves
<1>2. /\ presence' \in [People -> [state : States, cause : Causes]]
      /\ presence'[p] = [state |-> state, cause |-> cause]
      /\ \A q \in People \ {p} : presence'[q] = presence[q]
  BY DEF RowsTyped, Apply
<1>3. lapsed' = (lapsed \cup {y \in Actors : at[y].by # "hand" /\ at[y].person = p}) \ {x}
  BY DEF Apply, Actors
<1>4. ASSUME NEW y \in Actors PROVE Sound(y, pc'[y], at'[y], presence', lapsed')
  <2>1. CASE y = x
    BY <1>1, <2>1
  <2>2. CASE y # x
    <3>1. Sound(y, pc[y], at[y], presence, lapsed) /\ at[y].person \in People \cup {NoOne}
      BY DEF Walks, Held
    <3>2. CASE at[y].person = p /\ at[y].by # "hand"
      BY <1>1, <1>3, <2>2, <3>1, <3>2 DEF Sound
    <3>3. CASE at[y].by = "hand"
      BY <1>1, <2>2, <3>1, <3>3 DEF Sound
    <3>4. CASE at[y].person # p
      <4>1. y \in lapsed => y \in lapsed'
        BY <1>3, <2>2
      <4>2. at[y].person \in People => presence'[at[y].person] = presence[at[y].person]
        BY <1>2, <3>4
      <4>3. y \in Handlers /\ pc[y] # "idle" => at[y].person \in People
        BY <3>1 DEF Sound
      <4>4. y \in Passes /\ pc[y] = "lower" => at[y].person \in People
        <5>1. ASSUME y \in Passes, pc[y] = "lower" PROVE at[y].person \in People
          <6>1. at[y].due \in Seq(Found) /\ at[y].due # <<>> /\ at[y].person = at[y].due[1].person
            BY <3>1, <5>1 DEF Sound, Walks, Held
          <6>2. at[y].due[1] \in Found
            BY <6>1
          <6>3. QED
            BY <6>1, <6>2 DEF Found
        <5>2. QED
          BY <5>1
      <4>5. QED
        BY <1>1, <2>2, <3>1, <4>1, <4>2, <4>3, <4>4 DEF Sound
    <3>5. QED
      BY <3>2, <3>3, <3>4
  <2>3. QED
    BY <2>1, <2>2
<1>5. QED
  BY <1>1, <1>2, <1>3, <1>4 DEF Walks, RowsTyped

----------------------------------------------------------------------------
(* Requests.                                                                   *)

LEMMA SetStateKeeps ==
  ASSUME Inv, NEW h \in Handlers, NEW p \in People, NEW state \in Settable, NEW cause \in {"manual", "admin"},
         NEW relabel \in BOOLEAN, SetState(h, p, state, cause, relabel)
  PROVE  Inv'
<1> DEFINE j == [Nothing EXCEPT !.person = p, !.by = "hand", !.to = state, !.cause = cause]
<1>1. UNCHANGED <<presence, seen, idle, gone, lapsed, faults>> /\ sets' \in 0..MaxSets
  BY PresenceAssumption DEF SetState, clock, Inv, Counts
<1>2. h \in Actors /\ h \notin Passes
  BY PresenceAssumption DEF Actors
<1>3. j \in Held /\ j.by = "hand" /\ j.person = p /\ "write" \in Labels
  <2>1. state \in States /\ cause \in Causes
    BY PresenceAssumption DEF States, Rank, Causes
  <2>2. Nothing.raise = FALSE /\ Nothing.due = <<>> /\ <<>> \in Seq(Found)
    BY DEF Nothing
  <2>3. QED
    BY <2>1, <2>2 DEF Nothing, Held, Labels
<1>4. UNCHANGED <<pc, at>> \/ Goto(h, "write", j)
  BY DEF SetState
<1> HIDE DEF j
<1>5. Walks'
  <2>1. CASE UNCHANGED <<pc, at>>
    BY <1>1, <2>1 DEF Inv, Walks
  <2>2. CASE Goto(h, "write", j)
    <3>1. Sound(h, "write", j, presence, lapsed')
      BY <1>2, <1>3 DEF Sound
    <3>2. QED
      BY <1>1, <1>2, <1>3, <2>2, <3>1, StepKeeps DEF Inv
  <2>3. QED
    BY <1>4, <2>1, <2>2
<1>6. QED
  BY <1>1, <1>5 DEF Inv, RowsTyped, SeenTyped, Counts

LEMMA BeatKeeps == ASSUME Inv, NEW h \in Handlers, NEW p \in People, Beat(h, p) PROVE Inv'
<1> DEFINE j == [Nothing EXCEPT !.person = p, !.by = "beat", !.to = "online", !.cause = "manual",
                    !.raise = presence[p].state # "online" /\ MayRaise(presence[p].cause)]
<1>1. UNCHANGED <<presence, seen, idle, gone, lapsed, faults, sets>> /\ Goto(h, "touch", j)
  BY DEF Beat, clock
<1>2. h \in Actors /\ h \notin Passes
  BY PresenceAssumption DEF Actors
<1>3. j \in Held /\ j.by = "beat" /\ j.person = p /\ (j.raise => MayRaise(presence[p].cause)) /\ "touch" \in Labels
  BY NothingHeld DEF Nothing, Held, Labels, States, Rank, Causes
<1> HIDE DEF j
<1>4. Sound(h, "touch", j, presence, lapsed')
  BY <1>2, <1>3 DEF Sound
<1>5. Walks'
  BY <1>1, <1>2, <1>3, <1>4, StepKeeps DEF Inv
<1>6. QED
  BY <1>1, <1>5 DEF Inv, RowsTyped, SeenTyped, Counts

LEMMA TouchKeeps == ASSUME Inv, NEW h \in Handlers, Touch(h) PROVE Inv'
<1> DEFINE p == at[h].person
<1>1. h \in Actors /\ h \notin Passes /\ at[h] \in Held
  BY PresenceAssumption DEF Actors, Inv, Walks
<1>2. Sound(h, "touch", at[h], presence, lapsed)
  BY <1>1 DEF Touch, Inv, Walks
<1>3. p \in People /\ at[h].by = "beat"
  BY <1>1, <1>2 DEF Sound
<1>4. /\ seen' \in Seq(People) /\ IsInjective(seen') /\ ToSet(seen') = ToSet(seen) \cup {p}
  <2>1. seen \in Seq(People) /\ IsInjective(seen)
    BY DEF Inv, SeenTyped
  <2>2. CASE p \in ToSet(seen)
    <3>1. PICK i \in DOMAIN seen : seen[i] = p /\ seen' = Append(RemoveAt(seen, i), p)
      BY <2>2 DEF Touch
    <3>2. /\ RemoveAt(seen, i) \in Seq(People) /\ IsInjective(RemoveAt(seen, i))
          /\ ToSet(RemoveAt(seen, i)) = ToSet(seen) \ {p}
      BY <2>1, <3>1, DropSet
    <3>3. QED
      BY <1>3, <2>2, <3>1, <3>2, AppendSet
  <2>3. CASE p \notin ToSet(seen)
    <3>1. seen' = Append(seen, p)
      BY <2>3 DEF Touch
    <3>2. QED
      BY <1>3, <2>1, <2>3, <3>1, AppendSet
  <2>4. QED
    BY <2>2, <2>3
<1>5. SeenTyped'
  <2>1. idle' = idle \ {p} /\ gone' = gone \ {p}
    BY DEF Touch
  <2>2. QED
    BY <1>4, <2>1 DEF Inv, SeenTyped
<1>6. UNCHANGED <<presence, faults, sets>> /\ lapsed' \in {lapsed, lapsed \ {h}}
  BY DEF Touch
<1>7. Walks'
  <2>1. CASE at[h].raise
    <3>1. Goto(h, "write", at[h]) /\ lapsed' = lapsed
      BY <2>1 DEF Touch
    <3>2. Sound(h, "write", at[h], presence, lapsed') /\ "write" \in Labels
      BY <1>1, <1>2, <1>3, <2>1, <3>1 DEF Sound, Labels
    <3>3. QED
      BY <1>1, <1>6, <3>1, <3>2, StepKeeps DEF Inv
  <2>2. CASE ~at[h].raise
    <3>1. Goto(h, "idle", Nothing)
      BY <2>2 DEF Touch
    <3>2. Sound(h, "idle", Nothing, presence, lapsed') /\ "idle" \in Labels
      BY <1>1 DEF Sound, Labels
    <3>3. QED
      BY <1>1, <1>6, <3>1, <3>2, NothingHeld, StepKeeps DEF Inv
  <2>3. QED
    BY <2>1, <2>2
<1>8. QED
  BY <1>5, <1>6, <1>7 DEF Inv, RowsTyped, Counts

(* A write puts down what was decided, and a heartbeat's raises only what      *)
(* nobody set by hand - unless the row was written since it was read.          *)
LEMMA WriteKeeps ==
  ASSUME Inv, NEW h \in Handlers, Write(h)
  PROVE  /\ Inv'
         /\ at[h].by \in {"hand", "beat"}
         /\ at[h].by = "beat" /\ h \notin lapsed => MayRaise(presence[at[h].person].cause)
<1>1. h \in Actors /\ h \notin Passes /\ at[h] \in Held
  BY PresenceAssumption DEF Actors, Inv, Walks
<1>2. Sound(h, "write", at[h], presence, lapsed)
  BY <1>1 DEF Write, Inv, Walks
<1>3. /\ at[h].person \in People /\ at[h].by \in {"hand", "beat"}
      /\ at[h].by = "beat" /\ h \notin lapsed => MayRaise(presence[at[h].person].cause)
  BY <1>1, <1>2 DEF Sound
<1>4. /\ Apply(h, at[h].person, at[h].to, at[h].cause) /\ Goto(h, "idle", Nothing)
      /\ UNCHANGED <<seen, idle, gone, faults, sets>>
  BY DEF Write, clock
<1>5. /\ \A rows, late : Sound(h, "idle", Nothing, rows, late)
      /\ "idle" \in Labels /\ at[h].to \in States /\ at[h].cause \in Causes
  BY <1>1 DEF Sound, Labels, Held
<1>6. RowsTyped' /\ Walks' /\ lapsed' \subseteq Actors
  BY <1>1, <1>3, <1>4, <1>5, NothingHeld, ApplyKeeps DEF Inv, Counts
<1>7. QED
  BY <1>3, <1>4, <1>6 DEF Inv, SeenTyped, Counts

----------------------------------------------------------------------------
(* The sweep.                                                                  *)

(* The members of a set of positions, counted from the lowest, take every rank.*)
LEMMA EveryRank ==
  ASSUME NEW n \in Nat, NEW L \in SUBSET (1..n)
  PROVE  /\ Cardinality(L) \in Nat /\ (L # {} => Cardinality(L) > 0)
         /\ \A k \in 1..Cardinality(L) : \E i \in L : Cardinality({j \in L : j < i}) = k - 1
<1> DEFINE c == Cardinality(L)
           below(i) == {j \in L : j < i}
           rank == [i \in L |-> Cardinality(below(i))]
<1>1. IsFiniteSet(L) /\ c \in Nat /\ (L # {} => c > 0)
  <2>1. IsFiniteSet(1..n)
    BY FS_Interval
  <2>2. IsFiniteSet(L)
    BY <2>1, FS_Subset
  <2>3. c \in Nat
    BY <2>2, FS_CardinalityType
  <2>4. L # {} => c # 0
    BY <2>2, FS_EmptySet
  <2>5. QED
    BY <2>2, <2>3, <2>4
<1>2. ASSUME NEW i \in L
      PROVE  IsFiniteSet(below(i)) /\ Cardinality(below(i)) \in 0..(c - 1)
  <2>1. below(i) \in SUBSET (L \ {i})
    OBVIOUS
  <2>2. IsFiniteSet(L \ {i}) /\ Cardinality(L \ {i}) = c - 1
    BY <1>1, FS_RemoveElement
  <2>3. IsFiniteSet(below(i)) /\ Cardinality(below(i)) <= c - 1
    BY <2>1, <2>2, FS_Subset
  <2>4. Cardinality(below(i)) \in Nat
    BY <2>3, FS_CardinalityType
  <2>5. QED
    BY <1>1, <2>3, <2>4
<1>3. ASSUME NEW i \in L, NEW k \in L, i < k
      PROVE  Cardinality(below(i)) < Cardinality(below(k))
  <2>1. Cardinality(below(i) \cup {i}) = Cardinality(below(i)) + 1
    BY <1>2, FS_AddElement
  <2>0. i \in Int /\ k \in Int /\ L \subseteq Int
    OBVIOUS
  <2>2. below(i) \cup {i} \in SUBSET below(k)
    <3>1. \A m \in L : m < i => m < k
      BY <1>3, <2>0
    <3>2. QED
      BY <1>3, <3>1
  <2>3. Cardinality(below(i) \cup {i}) <= Cardinality(below(k))
    BY <1>2, <2>2, FS_Subset
  <2>4. Cardinality(below(i)) \in Int /\ Cardinality(below(k)) \in Int
    BY <1>2
  <2> HIDE DEF below
  <2>5. QED
    BY <2>1, <2>3, <2>4
<1>4. rank \in [L -> 0..(c - 1)] /\ \A i \in L : rank[i] = Cardinality(below(i))
  BY <1>2
<1> HIDE DEF rank
<1>5. rank \in Injection(L, 0..(c - 1))
  <2>1. ASSUME NEW a \in L, NEW b \in L, rank[a] = rank[b] PROVE a = b
    <3>1. rank[a] \in Int /\ a \in Int /\ b \in Int
      BY <1>1, <1>4
    <3>2. a < b => rank[a] < rank[b]
      BY <1>3, <1>4
    <3>3. b < a => rank[b] < rank[a]
      BY <1>3, <1>4
    <3>4. QED
      BY <2>1, <3>1, <3>2, <3>3
  <2>2. QED
    BY <1>4, <2>1 DEF Injection, IsInjective
<1>6. IsFiniteSet(0..(c - 1)) /\ Cardinality(0..(c - 1)) = c
  <2>1. IsFiniteSet(0..(c - 1)) /\ Cardinality(0..(c - 1)) = IF 0 > c - 1 THEN 0 ELSE (c - 1) - 0 + 1
    BY <1>1, FS_Interval
  <2>2. QED
    BY <1>1, <2>1
<1>7. rank \in Surjection(L, 0..(c - 1))
  BY <1>5, <1>6, FS_Injection
<1>8. ASSUME NEW k \in 1..c PROVE \E i \in L : Cardinality(below(i)) = k - 1
  <2>1. k - 1 \in 0..(c - 1)
    BY <1>1
  <2>2. QED
    BY <1>4, <1>7, <2>1 DEF Surjection
<1>9. QED
  BY <1>1, <1>8

LEMMA OldestFound ==
  ASSUME SeenTyped
  PROVE  /\ Cardinality(Late) \in Nat /\ (Late # {} => Cardinality(Late) > 0)
         /\ \A k \in 1..Cardinality(Late) : Oldest(k) \in People
<1>1. seen \in Seq(People) /\ Late \in SUBSET (1..Len(seen)) /\ Len(seen) \in Nat
  BY DEF SeenTyped, Late
<1>2. /\ Cardinality(Late) \in Nat /\ (Late # {} => Cardinality(Late) > 0)
      /\ \A k \in 1..Cardinality(Late) : \E i \in Late : Cardinality({j \in Late : j < i}) = k - 1
  BY <1>1, EveryRank
<1>3. ASSUME NEW k \in 1..Cardinality(Late) PROVE Oldest(k) \in People
  <2> DEFINE i == CHOOSE m \in Late : Cardinality({j \in Late : j < m}) = k - 1
  <2>1. i \in Late
    BY <1>2
  <2> HIDE DEF i
  <2>2. seen[i] \in People
    BY <1>1, <2>1
  <2>3. QED
    BY <2>2 DEF Oldest, i
<1>4. QED
  BY <1>2, <1>3

LEMMA NextDueKeeps ==
  ASSUME Walks, NEW w \in Passes, pc[w] # "idle", NextDue(w)
  PROVE  \E l \in Labels, j \in Held : Goto(w, l, j) /\ \A rows, late : Sound(w, l, j, rows, late)
<1> DEFINE rest == Tail(at[w].due)
           j == [Nothing EXCEPT !.due = rest]
<1>1. w \in Actors /\ w \notin Handlers
  BY PresenceAssumption DEF Actors
<1>2. at[w] \in Held /\ Sound(w, pc[w], at[w], presence, lapsed)
  BY <1>1 DEF Walks
<1>3. at[w].due \in Seq(Found) /\ at[w].due # <<>>
  BY <1>2 DEF Held, Sound
<1>4. rest \in Seq(Found)
  BY <1>3
<1> HIDE DEF rest
<1>5. j \in Held /\ j.due = rest /\ "look" \in Labels /\ "idle" \in Labels
  BY <1>4, NothingHeld DEF Nothing, Held, Labels
<1>6. CASE rest = <<>>
  <2>1. Goto(w, "idle", Nothing)
    BY <1>6 DEF NextDue, rest
  <2>2. \A rows, late : Sound(w, "idle", Nothing, rows, late)
    BY <1>1 DEF Sound
  <2>3. QED
    BY <1>5, <2>1, <2>2, NothingHeld
<1>7. CASE rest # <<>>
  <2>1. Goto(w, "look", j)
    BY <1>7 DEF NextDue, rest
  <2> HIDE DEF j
  <2>2. \A rows, late : Sound(w, "look", j, rows, late)
    BY <1>1, <1>5, <1>7 DEF Sound
  <2>3. QED
    BY <1>5, <2>1, <2>2
<1>8. QED
  BY <1>6, <1>7

LEMMA TickKeeps == ASSUME Inv, NEW w \in Passes, Tick(w) PROVE Inv'
<1> DEFINE n == Min({Batch, Cardinality(Late)})
           due == [k \in 1..n |->
                      [person |-> Oldest(k), to |-> IF Oldest(k) \in gone THEN "offline" ELSE "away"]]
           j == [Nothing EXCEPT !.due = due]
<1>1. w \in Actors /\ w \notin Handlers
  BY PresenceAssumption DEF Actors
<1>2. UNCHANGED <<presence, seen, idle, gone, lapsed, faults, sets>> /\ Goto(w, "look", j)
  BY DEF Tick, clock
<1>3. /\ Cardinality(Late) \in Nat /\ Cardinality(Late) > 0
      /\ \A k \in 1..Cardinality(Late) : Oldest(k) \in People
  BY OldestFound DEF Tick, Inv
<1>4. n \in Nat /\ n > 0 /\ n <= Cardinality(Late)
  <2>1. Batch \in Nat /\ Batch > 0
    BY PresenceAssumption
  <2>2. \E x \in {Batch, Cardinality(Late)} : \A y \in {Batch, Cardinality(Late)} : x =< y
    BY <1>3, <2>1
  <2>3. n \in {Batch, Cardinality(Late)} /\ n =< Cardinality(Late)
    BY <2>2 DEF Min
  <2>4. QED
    BY <1>3, <2>1, <2>3
<1> HIDE DEF n
<1>5. \A k \in 1..n : Oldest(k) \in People
  BY <1>3, <1>4
<1>6. due \in Seq(Found) /\ due # <<>>
  <2>1. \A k \in 1..n : due[k] \in Found
    BY <1>5 DEF Found
  <2>2. DOMAIN due = 1..n
    OBVIOUS
  <2>3. due \in Seq(Found) /\ Len(due) = n
    BY <1>4, <2>1
  <2>4. QED
    BY <1>4, <2>3
<1> HIDE DEF due
<1>7. j \in Held /\ j.due = due /\ "look" \in Labels
  BY <1>6, NothingHeld DEF Nothing, Held, Labels
<1> HIDE DEF j
<1>8. Sound(w, "look", j, presence, lapsed')
  BY <1>1, <1>6, <1>7 DEF Sound
<1>9. Walks'
  BY <1>1, <1>2, <1>7, <1>8, StepKeeps DEF Inv
<1>10. QED
  BY <1>2, <1>9 DEF Inv, RowsTyped, SeenTyped, Counts

LEMMA LookKeeps == ASSUME Inv, NEW w \in Passes, Look(w) PROVE Inv'
<1> DEFINE row == Head(at[w].due)
           j == [at[w] EXCEPT !.person = row.person, !.by = "sweep", !.to = row.to]
<1>1. w \in Actors /\ w \notin Handlers /\ at[w] \in Held
  BY PresenceAssumption DEF Actors, Inv, Walks
<1>2. UNCHANGED <<presence, seen, idle, gone, lapsed, faults, sets>> /\ pc[w] = "look"
  BY DEF Look, clock
<1>3. Sound(w, "look", at[w], presence, lapsed)
  BY <1>1, <1>2 DEF Inv, Walks
<1>4. at[w].due \in Seq(Found) /\ at[w].due # <<>>
  BY <1>1, <1>3 DEF Sound, Held
<1>5. row \in Found /\ row = at[w].due[1]
  BY <1>4
<1> HIDE DEF row
<1>6. CASE Lower(presence[row.person].state, row.to)
  <2>1. Goto(w, "lower", j)
    BY <1>6 DEF Look, row
  <2>2. row.person \in People /\ row.to \in States
    BY <1>5 DEF Found, States, Rank
  <2>3. /\ j \in Held /\ j.person = row.person /\ j.by = "sweep" /\ j.to = row.to
        /\ j.due = at[w].due /\ "lower" \in Labels
    BY <1>1, <2>2 DEF Held, Labels
  <2> HIDE DEF j
  <2>4. Sound(w, "lower", j, presence, lapsed')
    BY <1>1, <1>4, <1>5, <1>6, <2>3 DEF Sound
  <2>5. Walks'
    BY <1>1, <1>2, <2>1, <2>3, <2>4, StepKeeps DEF Inv
  <2>6. QED
    BY <1>2, <2>5 DEF Inv, RowsTyped, SeenTyped, Counts
<1>7. CASE ~Lower(presence[row.person].state, row.to)
  <2>1. NextDue(w)
    BY <1>7 DEF Look, row
  <2>2. PICK l \in Labels, k \in Held : Goto(w, l, k) /\ \A rows, late : Sound(w, l, k, rows, late)
    BY <1>2, <2>1, NextDueKeeps DEF Inv
  <2>3. Walks'
    BY <1>1, <1>2, <2>2, StepKeeps DEF Inv
  <2>4. QED
    BY <1>2, <2>3 DEF Inv, RowsTyped, SeenTyped, Counts
<1>8. QED
  BY <1>6, <1>7

(* The sweep's write lowers - unless the row was written since it was read.    *)
LEMMA LowerKeeps ==
  ASSUME Inv, NEW w \in Passes, LowerFromSweep(w)
  PROVE  /\ Inv'
         /\ at[w].person \in People /\ at[w].by = "sweep" /\ presence'[at[w].person].state = at[w].to
         /\ w \notin lapsed => Lower(presence[at[w].person].state, at[w].to)
<1>1. w \in Actors /\ w \notin Handlers /\ at[w] \in Held
  BY PresenceAssumption DEF Actors, Inv, Walks
<1>2. /\ pc[w] = "lower" /\ Apply(w, at[w].person, at[w].to, "auto_inactivity") /\ NextDue(w)
      /\ UNCHANGED <<seen, idle, gone, faults, sets>>
  BY DEF LowerFromSweep, clock
<1>3. Sound(w, "lower", at[w], presence, lapsed)
  BY <1>1, <1>2 DEF Inv, Walks
<1>4. /\ at[w].by = "sweep" /\ at[w].person = at[w].due[1].person
      /\ at[w].due \in Seq(Found) /\ at[w].due # <<>>
      /\ w \notin lapsed => Lower(presence[at[w].person].state, at[w].to)
  BY <1>1, <1>3 DEF Sound, Held
<1>5. at[w].person \in People
  <2>1. at[w].due[1] \in Found
    BY <1>4
  <2>2. QED
    BY <1>4, <2>1 DEF Found
<1>6. PICK l \in Labels, k \in Held : Goto(w, l, k) /\ \A rows, late : Sound(w, l, k, rows, late)
  BY <1>2, NextDueKeeps DEF Inv
<1>7. at[w].to \in States /\ "auto_inactivity" \in Causes
  BY <1>1 DEF Held, Causes
<1>8. /\ RowsTyped' /\ Walks' /\ lapsed' \subseteq Actors
      /\ presence'[at[w].person] = [state |-> at[w].to, cause |-> "auto_inactivity"]
  BY <1>1, <1>2, <1>5, <1>6, <1>7, ApplyKeeps DEF Inv, Counts
<1>9. QED
  BY <1>2, <1>4, <1>5, <1>8 DEF Inv, SeenTyped, Counts

----------------------------------------------------------------------------
(* What goes wrong, and time.                                                  *)

LEMMA FaultKeeps == ASSUME Inv, Fault PROVE faults' \in 0..MaxFaults
  BY PresenceAssumption DEF Fault, Inv, Counts

LEMMA StopKeeps ==
  ASSUME Inv, NEW x \in Actors, NEW l \in Labels, NEW j \in Held, Goto(x, l, j), Fault,
         UNCHANGED <<presence, clock, sets>>, lapsed' = lapsed \ {x},
         \A rows, late : Sound(x, l, j, rows, late)
  PROVE  Inv'
<1>1. Walks'
  BY StepKeeps DEF Inv
<1>2. UNCHANGED <<seen, idle, gone>>
  BY DEF clock
<1>3. QED
  BY <1>1, <1>2, FaultKeeps DEF Inv, RowsTyped, SeenTyped, Counts

LEMMA WriteFailsKeeps == ASSUME Inv, NEW x \in Actors, WriteFails(x) PROVE Inv'
<1>1. /\ pc[x] # "idle" /\ Fault /\ lapsed' = lapsed \ {x} /\ UNCHANGED <<presence, clock, sets>>
  BY DEF WriteFails
<1>2. PICK l \in Labels, j \in Held : Goto(x, l, j) /\ \A rows, late : Sound(x, l, j, rows, late)
  <2>1. CASE x \in Passes
    BY <1>1, <2>1, NextDueKeeps DEF WriteFails, Inv
  <2>2. CASE x \notin Passes
    BY <2>2, NothingHeld DEF WriteFails, Sound, Labels
  <2>3. QED
    BY <2>1, <2>2
<1>3. QED
  BY <1>1, <1>2, StopKeeps

LEMMA DieKeeps == ASSUME Inv, NEW w \in Passes, Die(w) PROVE Inv'
<1>1. w \in Actors /\ Goto(w, "idle", Nothing) /\ "idle" \in Labels
  BY DEF Actors, Die, Labels
<1>2. \A rows, late : Sound(w, "idle", Nothing, rows, late)
  BY PresenceAssumption DEF Sound
<1>3. QED
  BY <1>1, <1>2, NothingHeld, StopKeeps DEF Die

LEMMA TimeKeeps == ASSUME Inv, NEW p \in People, GoIdle(p) \/ GoGone(p) PROVE Inv'
<1>1. UNCHANGED <<presence, seen, pc, at, lapsed, faults, sets>>
  BY DEF GoIdle, GoGone
<1>2. gone' \subseteq idle' /\ idle' \subseteq ToSet(seen)
  BY DEF GoIdle, GoGone, Inv, SeenTyped
<1>3. QED
  BY <1>1, <1>2 DEF Inv, RowsTyped, SeenTyped, Walks, Counts

LEMMA NextInv == Inv /\ [Next]_vars => Inv'
<1> SUFFICES ASSUME Inv, [Next]_vars PROVE Inv'
  OBVIOUS
<1>1. CASE UNCHANGED vars
  BY <1>1 DEF vars, Inv, RowsTyped, SeenTyped, Walks, Counts
<1>2. CASE Next
  BY <1>2, SetStateKeeps, BeatKeeps, TouchKeeps, WriteKeeps, TickKeeps, LookKeeps, LowerKeeps,
     WriteFailsKeeps, DieKeeps, TimeKeeps DEF Next, Sweep, Actors
<1>3. QED
  BY <1>1, <1>2

----------------------------------------------------------------------------
(* The theorems.                                                               *)

LEMMA PresenceSafe == Spec => []Inv
  BY InitInv, NextInv, PTL DEF Spec

(* Every variable keeps its type; a sweep that is under way has somebody to    *)
(* look at, and lowers the one it looked at.                                   *)
THEOREM PresenceTypes == Spec => []TypeOK
<1>1. ASSUME Inv PROVE TypeOK
  <2>1. ToSet(seen) \subseteq People
    BY <1>1 DEF Inv, SeenTyped, ToSet
  <2>2. ASSUME NEW x \in Actors PROVE Sound(x, pc[x], at[x], presence, lapsed)
    BY <1>1 DEF Inv, Walks
  <2>3. QED
    BY <1>1, <2>1, <2>2 DEF Inv, RowsTyped, SeenTyped, Counts, Sound, Actors, TypeOK
<1>2. QED
  BY <1>1, PresenceSafe, PTL

(* A step that changes a row, taken by the actor that holds the person.        *)
LEMMA WriterStands ==
  ASSUME Inv, [Next]_vars, NEW x \in Actors, NEW p \in People,
         presence'[p] # presence[p], pc'[x] # pc[x], at[x].person = p, x \notin lapsed
  PROVE  /\ at[x].by = "beat"  => presence[p].cause \notin {"manual", "admin"}
         /\ at[x].by = "sweep" => Lower(presence[p].state, presence'[p].state)
<1>1. PICK y \in Actors : (y \in Handlers /\ Write(y)) \/ (y \in Passes /\ LowerFromSweep(y))
  BY DEF Next, vars, Sweep, Actors, SetState, Beat, Touch, Tick, Look, WriteFails, Die, GoIdle, GoGone
<1>2. y = x
  <2>1. \E l, j : Goto(y, l, j)
    BY <1>1 DEF Write, LowerFromSweep, NextDue
  <2>2. QED
    BY <2>1 DEF Goto, Inv, Walks
<1>3. CASE y \in Handlers /\ Write(y)
  BY <1>2, <1>3, WriteKeeps DEF MayRaise
<1>4. CASE y \in Passes /\ LowerFromSweep(y)
  BY <1>2, <1>4, LowerKeeps
<1>5. QED
  BY <1>1, <1>3, <1>4

(* A heartbeat raises nobody whose row was set by hand, and the sweep lifts    *)
(* nobody - but when the row was written between their reading and writing it  *)
(* (heartbeat, lowerFromSweep).                                                *)
THEOREM StandTheorem == Spec => HandStands
<1>1. Inv /\ [Next]_vars =>
        \A x \in Handlers \cup Passes, p \in People :
          presence'[p] # presence[p] /\ pc'[x] # pc[x] /\ at[x].person = p /\ x \notin lapsed =>
              /\ at[x].by = "beat"  => presence[p].cause \notin {"manual", "admin"}
              /\ at[x].by = "sweep" => Lower(presence[p].state, presence'[p].state)
  BY WriterStands DEF Actors
<1>2. QED
  BY <1>1, PresenceSafe, PTL DEF Spec, HandStands
=============================================================================
