---------------------------- MODULE Fields_proofs ----------------------------
(* Proofs about Fields, for every finite set of fields, every option set, any  *)
(* forms, any compositions an administrator may send, any number of calls.     *)
EXTENDS Fields, FiniteSetTheorems, WellFoundedInduction, TLAPS

----------------------------------------------------------------------------
(* The inductive invariant.                                                    *)

Labels == {"idle", "form", "values", "option", "commit", "choose", "file", "solve",
           "update", "clear", "fill", "remove"}

MaybeForm  == Forms \cup {None}
MaybeValue == Values \cup {None}
Rows       == [Fields \ {Source} -> MaybeValue]

Job == [op : {"none", "value", "form", "solve", "compose", "option"}, field : Fields \cup {None},
        value : Values \cup Forms \cup {None}, sees : BOOLEAN, form : MaybeForm, sub : MaybeValue,
        entries : Compositions \cup {<<>>}, held : Compositions \cup {<<>>} \cup Rows,
        needed : SUBSET Fields]

Ticket == [form : MaybeForm, category : {CategoryOf[k] : k \in Forms} \cup {None},
           sub : MaybeValue, by : {"none", "human", "ai"}, solved : BOOLEAN]

Typed ==
    /\ def \in [Fields -> [required : BOOLEAN, withheld : BOOLEAN, applies : BOOLEAN]]
    /\ option \in [Values -> {"listed", "retired", "absent"}]
    /\ entries \in [Forms -> Compositions]
    /\ active \subseteq Forms /\ lock \in [Forms -> Handlers \cup {None}]
    /\ ticket \in Ticket /\ held \in Rows
    /\ pc \in [Handlers -> Labels] /\ job \in [Handlers -> Job]
    /\ disturbed \subseteq Busy /\ acts \in 0..MaxActs

(* What a call holds where it stands: only a save of a form locks the form's   *)
(* row, and what it is about to delete is what is there.                       *)
Holds(h) ==
    /\ pc[h] \in {"option", "commit"} => job[h].op = "value"
    /\ pc[h] = "solve" => job[h].op = "solve"
    /\ pc[h] \in {"form", "values"} => job[h].op \in {"value", "solve"}
    /\ job[h].op = "value" => job[h].field \in Fields /\ job[h].value \in MaybeValue
    /\ pc[h] = "choose" => job[h].value \in Forms
    /\ pc[h] = "file" => job[h].value \in MaybeForm
    /\ pc[h] = "remove" => job[h].value \in Values
    /\ pc[h] \in {"values", "option", "commit"} =>
          /\ job[h].form \in Forms
          /\ job[h].op = "value" => job[h].field \in DOMAIN job[h].entries
    /\ pc[h] \in {"update", "clear", "fill"} =>
          job[h].value \in Forms /\ job[h].entries \in Compositions /\ Accepted(job[h].entries)
    /\ pc[h] \in {"clear", "fill"} => lock[job[h].value] = h
    /\ pc[h] = "fill" => job[h].held = entries[job[h].value]

(* What a call that nobody disturbed has read is still so.                     *)
Fresh(h) ==
    h \in Busy \ disturbed =>
        /\ job[h].form = ticket.form /\ job[h].sub = ticket.sub
        /\ pc[h] \in {"values", "option", "commit"} => job[h].entries = entries[ticket.form]
        /\ pc[h] = "values" /\ job[h].op = "solve" =>
              job[h].needed = {f \in DOMAIN entries[ticket.form] : Gates(f, job[h].sees)}
        /\ pc[h] \in {"option", "commit"} =>
              job[h].held = held /\ Shown(job[h].entries, job[h].field, held, ticket.sub)
        /\ pc[h] = "solve" /\ ticket.form # None =>
              LET c == entries[ticket.form]
              IN  Missing(c, {f \in DOMAIN c : Gates(f, job[h].sees)}, held, ticket.sub) = {}

Inv == Typed /\ Composed /\ \A h \in Handlers : Holds(h) /\ Fresh(h)

----------------------------------------------------------------------------
(* Compositions: following the conditions up never comes round, and so, a form *)
(* having finitely many entries, neither does following them down.             *)

LEMMA LeastNat == ASSUME NEW S, S \subseteq Nat, S # {} PROVE \E x \in S : \A y \in S : x =< y
<1>1. PICK x \in S : \A y \in S : ~ (<<y, x>> \in OpToRel(<, Nat))
  BY NatLessThanWellFounded, WFMin
<1>2. ASSUME NEW y \in S PROVE x =< y
  <2>1. ~(y < x)
    BY <1>1 DEF OpToRel
  <2>2. QED
    BY <2>1
<1>3. QED
  BY <1>2

LEMMA Leaf ==
  ASSUME NEW c, IsFiniteSet(DOMAIN c), Accepted(c), NEW S \in SUBSET DOMAIN c, S # {}
  PROVE  \E f \in S : Children(c, f) \cap S = {}
<1> SUFFICES ASSUME \A f \in S : Children(c, f) \cap S # {} PROVE FALSE
  OBVIOUS
<1> DEFINE Bad == {T \in SUBSET S : T # {} /\ \A f \in T : Children(c, f) \cap T # {}}
           Sizes == {Cardinality(T) : T \in Bad}
<1>1. \A T \in Bad : IsFiniteSet(T) /\ Cardinality(T) \in Nat
  BY FS_Subset, FS_CardinalityType
<1>2. Sizes \subseteq Nat /\ Sizes # {}
  <2>1. S \in Bad
    OBVIOUS
  <2>2. QED
    BY <1>1, <2>1
<1>3. PICK n \in Sizes : \A m \in Sizes : n =< m
  BY <1>2, LeastNat
<1>4. PICK T \in Bad : Cardinality(T) = n
  BY <1>3
<1>5. PICK f \in T : c[f].parent \notin T
  BY <1>4 DEF Accepted
<1>6. T \ {f} \in Bad
  <2>1. ASSUME NEW x \in T PROVE \E g \in T \ {f} : g \in Children(c, x)
    <3>1. PICK g \in T : g \in Children(c, x)
      BY <1>4
    <3>2. g # f
      BY <1>5, <3>1 DEF Children
    <3>3. QED
      BY <3>1, <3>2
  <2>2. QED
    BY <1>4, <2>1
<1>7. Cardinality(T \ {f}) = n - 1
  BY <1>1, <1>4, FS_RemoveElement
<1>8. n - 1 \in Sizes
  BY <1>6, <1>7
<1> HIDE DEF Sizes
<1>9. n \in Nat /\ n =< n - 1
  BY <1>2, <1>3, <1>8
<1>10. QED
  BY <1>9

(* The recursion of `Below` has a solution: what no set that is closed under   *)
(* children can leave out.                                                     *)
LEMMA BelowDef ==
  ASSUME NEW c
  PROVE  Below(c) = [f \in DOMAIN c |-> {f} \cup UNION {Below(c)[g] : g \in Children(c, f)}]
<1> DEFINE Closed(T) == \A x \in T : Children(c, x) \subseteq T
           reach == [f \in DOMAIN c |->
                        {x \in DOMAIN c : \A T \in SUBSET DOMAIN c : f \in T /\ Closed(T) => x \in T}]
           F(b) == [f \in DOMAIN c |-> {f} \cup UNION {b[g] : g \in Children(c, f)}]
<1>1. ASSUME NEW f \in DOMAIN c PROVE reach[f] = {f} \cup UNION {reach[g] : g \in Children(c, f)}
  <2> DEFINE U == {f} \cup UNION {reach[g] : g \in Children(c, f)}
  <2>1. Children(c, f) \subseteq DOMAIN c
    BY DEF Children
  <2>2. U \subseteq reach[f]
    <3>1. f \in reach[f]
      OBVIOUS
    <3>2. ASSUME NEW g \in Children(c, f), NEW x \in reach[g] PROVE x \in reach[f]
      BY <2>1
    <3> HIDE DEF reach
    <3>3. QED
      BY <3>1, <3>2
  <2>3. U \subseteq DOMAIN c
    BY <2>2
  <2>4. \A g \in DOMAIN c : g \in reach[g]
    OBVIOUS
  <2>5. ASSUME NEW x \in U PROVE Children(c, x) \subseteq U
    <3>1. CASE x = f
      BY <2>1, <2>4, <3>1
    <3>2. ASSUME NEW g \in Children(c, f), x \in reach[g] PROVE Children(c, x) \subseteq U
      <4>1. ASSUME NEW y \in Children(c, x) PROVE y \in reach[g]
        <5>1. y \in DOMAIN c
          BY <4>1 DEF Children
        <5>2. ASSUME NEW T \in SUBSET DOMAIN c, g \in T, Closed(T) PROVE y \in T
          BY <2>1, <3>2, <4>1, <5>2
        <5>3. QED
          BY <2>1, <5>1, <5>2
      <4>2. QED
        BY <4>1
    <3>3. QED
      BY <3>1, <3>2
  <2>6. reach[f] \subseteq U
    BY <2>3, <2>5
  <2>7. QED
    BY <2>2, <2>6
<1>2. reach = F(reach)
  BY <1>1
<1>3. Below(c) = CHOOSE b : b = F(b)
  BY DEF Below
<1> HIDE DEF reach, F
<1>4. Below(c) = F(Below(c))
  BY <1>2, <1>3
<1>5. QED
  BY <1>4 DEF F

(* What is below an entry is closed downwards, and closed upwards but for it.  *)
LEMMA BelowClosed ==
  ASSUME NEW c, IsFiniteSet(DOMAIN c), Accepted(c), NEW f \in DOMAIN c
  PROVE  /\ f \in Below(c)[f] /\ Below(c)[f] \subseteq DOMAIN c
         /\ \A x \in Below(c)[f] : Children(c, x) \subseteq Below(c)[f]
         /\ \A x \in Below(c)[f] \ {f} : c[x].parent \in Below(c)[f]
<1> DEFINE B == Below(c)
           Good(x) == /\ x \in B[x] /\ B[x] \subseteq DOMAIN c
                      /\ \A y \in B[x] : Children(c, y) \subseteq B[x]
                      /\ \A y \in B[x] \ {x} : c[y].parent \in B[x]
           Wrong == {x \in DOMAIN c : ~Good(x)}
<1>1. \A x \in DOMAIN c : B[x] = {x} \cup UNION {B[g] : g \in Children(c, x)}
  BY BelowDef
<1> HIDE DEF B
<1>2. Wrong = {}
  <2> SUFFICES ASSUME Wrong # {} PROVE FALSE
    OBVIOUS
  <2>1. PICK x \in Wrong : Children(c, x) \cap Wrong = {}
    <3>1. Wrong \in SUBSET DOMAIN c
      OBVIOUS
    <3> HIDE DEF Wrong
    <3>2. QED
      BY <3>1, Leaf
  <2>2. \A g \in Children(c, x) : g \in DOMAIN c /\ Good(g) /\ c[g].parent = x
    BY <2>1 DEF Children
  <2>3. x \in B[x] /\ B[x] \subseteq DOMAIN c
    BY <1>1, <2>1, <2>2
  <2>4. ASSUME NEW y \in B[x] PROVE Children(c, y) \subseteq B[x]
    <3>1. CASE y = x
      BY <1>1, <2>1, <2>2, <3>1
    <3>2. ASSUME NEW g \in Children(c, x), y \in B[g] PROVE Children(c, y) \subseteq B[x]
      BY <1>1, <2>1, <2>2, <3>2
    <3>3. QED
      BY <1>1, <2>1, <3>1, <3>2
  <2>5. ASSUME NEW y \in B[x] \ {x} PROVE c[y].parent \in B[x]
    <3>1. PICK g \in Children(c, x) : y \in B[g]
      BY <1>1, <2>1
    <3>2. CASE y = g
      BY <2>2, <2>3, <3>1, <3>2
    <3>3. CASE y # g
      BY <1>1, <2>1, <2>2, <3>1, <3>3
    <3>4. QED
      BY <3>2, <3>3
  <2>6. QED
    BY <2>1, <2>3, <2>4, <2>5
<1>3. QED
  BY <1>2 DEF B

----------------------------------------------------------------------------
(* The steps, in four kinds: what moves one call; what a call writes; what is  *)
(* written beside the calls; what no call reads.                               *)

LEMMA NoJobTyped == NoJob \in Job
  BY DEF NoJob, Job, MaybeForm, MaybeValue

LEMMA InitInv == Init => Inv
<1> SUFFICES ASSUME Init PROVE Inv
  OBVIOUS
<1>1. ticket \in Ticket /\ held \in Rows
  BY DEF Init, Ticket, MaybeForm, MaybeValue, Rows
<1>2. Typed
  BY <1>1, NoJobTyped, FieldsAssumption DEF Init, Typed, Labels, Busy
<1>3. Composed
  BY FieldsAssumption DEF Init, Composed
<1>4. \A h \in Handlers : Holds(h) /\ Fresh(h)
  BY DEF Init, Holds, Fresh, Busy, NoJob
<1>5. QED
  BY <1>2, <1>3, <1>4 DEF Inv

LEMMA ActTyped == ASSUME Typed, Act PROVE acts' \in 0..MaxActs
  BY FieldsAssumption DEF Typed, Act

(* One call moves, and may take or give back the row of a form.                *)
LEMMA MoveInv ==
  ASSUME Inv, NEW h \in Handlers, NEW l \in Labels, NEW j \in Job, Goto(h, l, j),
         UNCHANGED <<def, option, entries, active, held>>, acts' \in 0..MaxActs,
         ticket' \in Ticket, ticket'.form = ticket.form, ticket'.sub = ticket.sub,
         lock' \in [Forms -> Handlers \cup {None}],
         \A g \in Handlers \ {h}, k \in Forms : lock[k] = g => lock'[k] = g,
         \/ disturbed' = disturbed /\ l # "idle"
         \/ disturbed' = disturbed \ {h},
         Holds(h)', Fresh(h)'
  PROVE  Inv'
<1>1. /\ pc' \in [Handlers -> Labels] /\ job' \in [Handlers -> Job] /\ pc'[h] = l
      /\ \A g \in Handlers \ {h} : pc'[g] = pc[g] /\ job'[g] = job[g]
  BY DEF Goto, Inv, Typed
<1>2. Typed'
  BY <1>1 DEF Inv, Typed, Busy
<1>3. Composed'
  BY DEF Inv, Composed
<1>4. ASSUME NEW g \in Handlers \ {h} PROVE Holds(g)' /\ Fresh(g)'
  <2>1. pc'[g] = pc[g] /\ job'[g] = job[g] /\ (g \in disturbed' <=> g \in disturbed)
    BY <1>1
  <2>2. Holds(g)'
    BY <2>1 DEF Inv, Holds
  <2>3. Fresh(g)'
    BY <2>1 DEF Inv, Fresh, Busy, Gates, Shown, Missing, Row
  <2>4. QED
    BY <2>2, <2>3
<1>5. QED
  BY <1>2, <1>3, <1>4 DEF Inv

LEMMA FinishInv ==
  ASSUME Inv, NEW h \in Handlers, Finish(h),
         UNCHANGED <<def, option, entries, active, held>>, acts' \in 0..MaxActs,
         ticket' \in Ticket, ticket'.form = ticket.form, ticket'.sub = ticket.sub,
         lock' \in [Forms -> Handlers \cup {None}],
         \A g \in Handlers \ {h}, k \in Forms : lock[k] = g => lock'[k] = g
  PROVE  Inv'
<1>1. Goto(h, "idle", NoJob) /\ disturbed' = disturbed \ {h} /\ "idle" \in Labels
  BY DEF Finish, Labels
<1>2. pc'[h] = "idle" /\ job'[h] = NoJob
  BY <1>1 DEF Goto, Inv, Typed
<1>3. Holds(h)' /\ Fresh(h)'
  BY <1>2 DEF Holds, Fresh, Busy, NoJob
<1>4. QED
  BY <1>1, <1>3, NoJobTyped, MoveInv

(* A call writes: whoever else is under way counts as disturbed.               *)
LEMMA WroteInv ==
  ASSUME Inv, NEW h \in Handlers, Wrote(h), Composed', acts' \in 0..MaxActs,
         def' = def, option' \in [Values -> {"listed", "retired", "absent"}],
         entries' \in [Forms -> Compositions], active' = active,
         ticket' \in Ticket, held' \in Rows, lock' \in [Forms -> Handlers \cup {None}],
         \A g \in Handlers \ {h}, k \in Forms : lock[k] = g => lock'[k] = g /\ entries'[k] = entries[k]
  PROVE  Inv'
<1>1. /\ pc' \in [Handlers -> Labels] /\ job' \in [Handlers -> Job]
      /\ pc'[h] = "idle" /\ job'[h] = NoJob
      /\ \A g \in Handlers \ {h} : pc'[g] = pc[g] /\ job'[g] = job[g]
  BY NoJobTyped DEF Wrote, Goto, Inv, Typed, Labels
<1>2. Busy' = Busy \ {h} /\ disturbed' = (disturbed \cup Busy) \ {h}
  BY <1>1 DEF Busy, Wrote
<1>3. Typed'
  BY <1>1, <1>2 DEF Inv, Typed
<1>4. ASSUME NEW g \in Handlers PROVE Holds(g)'
  <2>1. CASE g = h
    BY <1>1, <2>1 DEF Holds, NoJob
  <2>2. CASE g # h
    BY <1>1, <2>2 DEF Inv, Holds
  <2>3. QED
    BY <2>1, <2>2
<1>5. ASSUME NEW g \in Handlers PROVE Fresh(g)'
  BY <1>2 DEF Fresh
<1>6. QED
  BY <1>3, <1>4, <1>5 DEF Inv

(* An administrator, a macro or a rule writes.                                 *)
LEMMA AloneInv ==
  ASSUME Inv, WroteAlone, acts' \in 0..MaxActs,
         def' \in [Fields -> [required : BOOLEAN, withheld : BOOLEAN, applies : BOOLEAN]],
         option' \in [Values -> {"listed", "retired", "absent"}],
         active' \subseteq Forms, ticket' \in Ticket, UNCHANGED <<entries, lock, held>>
  PROVE  Inv'
<1>1. Busy' = Busy /\ disturbed' = disturbed \cup Busy /\ UNCHANGED <<pc, job>>
  BY DEF WroteAlone, Busy
<1>2. Typed'
  BY <1>1 DEF Inv, Typed
<1>3. Composed'
  BY DEF Inv, Composed
<1>4. ASSUME NEW g \in Handlers PROVE Holds(g)' /\ Fresh(g)'
  BY <1>1 DEF Inv, Holds, Fresh
<1>5. QED
  BY <1>2, <1>3, <1>4 DEF Inv

LEMMA QuietInv ==
  ASSUME Inv, acts' \in 0..MaxActs, UNCHANGED <<authored, held, pc, job, disturbed>>,
         ticket' \in Ticket, ticket'.form = ticket.form, ticket'.sub = ticket.sub
  PROVE  Inv'
<1>1. UNCHANGED <<def, option, entries, active, lock>> /\ Busy' = Busy
  BY DEF authored, Busy
<1>2. Typed'
  BY <1>1 DEF Inv, Typed
<1>3. Composed'
  BY <1>1 DEF Inv, Composed
<1>4. ASSUME NEW g \in Handlers PROVE Holds(g)' /\ Fresh(g)'
  <2>1. Holds(g)'
    BY <1>1 DEF Inv, Holds
  <2>2. Fresh(g)'
    BY <1>1 DEF Inv, Fresh, Gates, Shown, Missing, Row
  <2>3. QED
    BY <2>1, <2>2
<1>5. QED
  BY <1>2, <1>3, <1>4 DEF Inv

----------------------------------------------------------------------------
(* A call begins with the ticket it reads.                                     *)

LEMMA BeginInv ==
  ASSUME Inv, NEW h \in Handlers, NEW l \in {"form", "choose", "file", "update", "remove"},
         NEW j \in Job, Begin(h, l, j),
         l = "form" => j.op \in {"value", "solve"},
         j.op = "value" => j.field \in Fields /\ j.value \in MaybeValue,
         l = "choose" => j.value \in Forms,
         l = "file" => j.value \in MaybeForm,
         l = "remove" => j.value \in Values,
         l = "update" => j.value \in Forms /\ j.entries \in Compositions /\ Accepted(j.entries)
  PROVE  Inv'
<1> DEFINE new == [j EXCEPT !.form = ticket.form, !.sub = ticket.sub]
<1>1. /\ Goto(h, l, new) /\ disturbed' = disturbed /\ l \in Labels /\ l # "idle"
      /\ UNCHANGED <<def, option, entries, active, lock, ticket, held>>
  BY DEF Begin, Labels, authored, answers
<1>2. acts' \in 0..MaxActs
  BY ActTyped DEF Begin, Inv
<1>3. /\ new \in Job /\ new.op = j.op /\ new.field = j.field /\ new.value = j.value
      /\ new.entries = j.entries /\ new.form = ticket.form /\ new.sub = ticket.sub
  BY DEF Job, Inv, Typed, Ticket
<1> HIDE DEF new
<1>4. pc'[h] = l /\ job'[h] = new
  BY <1>1 DEF Goto, Inv, Typed
<1>5. Holds(h)'
  BY <1>3, <1>4 DEF Holds
<1>6. Fresh(h)'
  BY <1>1, <1>3, <1>4 DEF Fresh
<1>7. QED
  BY <1>1, <1>2, <1>3, <1>5, <1>6, MoveInv DEF Inv, Typed

LEMMA SetFieldValueInv ==
  ASSUME Inv, NEW h \in Handlers, NEW f \in Fields, NEW next \in MaybeValue, NEW sees \in BOOLEAN,
         SetFieldValue(h, f, next, sees)
  PROVE  Inv'
<1> DEFINE j == [NoJob EXCEPT !.op = "value", !.field = f, !.value = next, !.sees = sees]
<1>1. j \in Job /\ j.op = "value" /\ j.field = f /\ j.value = next
  BY NoJobTyped DEF NoJob, Job, MaybeValue
<1>2. Begin(h, "form", j)
  BY DEF SetFieldValue
<1> HIDE DEF j
<1>3. QED
  BY <1>1, <1>2, BeginInv

LEMMA SetFormInv ==
  ASSUME Inv, NEW h \in Handlers, NEW k \in MaybeForm, SetConversationForm(h, k)
  PROVE  Inv'
<1> DEFINE j == [NoJob EXCEPT !.op = "form", !.value = k]
           l == IF k = None THEN "file" ELSE "choose"
<1>1. j \in Job /\ j.op = "form" /\ j.value = k
  BY NoJobTyped DEF NoJob, Job, MaybeForm
<1>2. Begin(h, l, j) /\ l \in {"choose", "file"} /\ (l = "choose" => k \in Forms)
  BY DEF SetConversationForm, MaybeForm
<1> HIDE DEF j, l
<1>3. QED
  BY <1>1, <1>2, BeginInv

LEMMA SolveInv ==
  ASSUME Inv, NEW h \in Handlers, NEW sees \in BOOLEAN, Solve(h, sees)
  PROVE  Inv'
<1> DEFINE j == [NoJob EXCEPT !.op = "solve", !.sees = sees]
<1>1. j \in Job /\ j.op = "solve"
  BY NoJobTyped DEF NoJob, Job
<1>2. Begin(h, "form", j)
  BY DEF Solve
<1> HIDE DEF j
<1>3. QED
  BY <1>1, <1>2, BeginInv

LEMMA UpsertFormInv ==
  ASSUME Inv, NEW h \in Handlers, NEW k \in Forms, NEW c \in Compositions, UpsertForm(h, k, c)
  PROVE  Inv'
<1> DEFINE j == [NoJob EXCEPT !.op = "compose", !.value = k, !.entries = c]
<1>1. j \in Job /\ j.op = "compose" /\ j.value = k /\ j.entries = c
  BY NoJobTyped DEF NoJob, Job
<1>2. Begin(h, "update", j) /\ Accepted(c)
  BY DEF UpsertForm
<1> HIDE DEF j
<1>3. QED
  BY <1>1, <1>2, BeginInv

LEMMA FindUseInv ==
  ASSUME Inv, NEW h \in Handlers, NEW v \in Values, FindUse(h, v)
  PROVE  Inv'
<1> DEFINE j == [NoJob EXCEPT !.op = "option", !.value = v]
<1>1. j \in Job /\ j.op = "option" /\ j.value = v
  BY NoJobTyped DEF NoJob, Job
<1>2. Begin(h, "remove", j)
  BY DEF FindUse
<1> HIDE DEF j
<1>3. QED
  BY <1>1, <1>2, BeginInv

----------------------------------------------------------------------------
(* The steps that read.                                                        *)

LEMMA StayInv ==
  ASSUME Inv, NEW h \in Handlers, Finish(h), UNCHANGED <<authored, answers, acts>>
  PROVE  Inv'
<1>1. UNCHANGED <<def, option, entries, active, lock, ticket, held, acts>>
  BY DEF authored, answers
<1>2. QED
  BY <1>1, FinishInv DEF Inv, Typed

LEMMA ReadInv ==
  ASSUME Inv, NEW h \in Handlers, NEW l \in Labels \ {"idle"}, NEW j \in Job, Goto(h, l, j),
         UNCHANGED <<authored, answers, disturbed, acts>>,
         (pc'[h] = l /\ job'[h] = j) => Holds(h)' /\ Fresh(h)'
  PROVE  Inv'
<1>1. UNCHANGED <<def, option, entries, active, lock, ticket, held, disturbed, acts>>
  BY DEF authored, answers
<1>2. pc'[h] = l /\ job'[h] = j
  BY DEF Goto, Inv, Typed
<1>3. QED
  BY <1>1, <1>2, MoveInv DEF Inv, Typed

LEMMA FindEntryInv == ASSUME Inv, NEW h \in Handlers, FindEntry(h) PROVE Inv'
<1>1. CASE Finish(h)
  BY <1>1, StayInv DEF FindEntry
<1>2. CASE /\ MayFill(h, job[h].field) /\ UNCHANGED disturbed
           /\ Goto(h, "values", [job[h] EXCEPT !.entries = entries[job[h].form]])
  <2> DEFINE j == [job[h] EXCEPT !.entries = entries[job[h].form]]
  <2>1. pc[h] = "form" /\ job[h].op = "value" /\ job[h] \in Job /\ "values" \in Labels \ {"idle"}
    BY DEF FindEntry, Inv, Typed, Labels
  <2>2. job[h].form \in Forms /\ job[h].field \in DOMAIN entries[job[h].form]
    BY <1>2, <2>1 DEF MayFill, Job, MaybeForm
  <2>3. /\ j \in Job /\ j.entries = entries[job[h].form] /\ j.op = "value" /\ j.field = job[h].field
        /\ j.value = job[h].value /\ j.form = job[h].form /\ j.sub = job[h].sub
    BY <2>1, <2>2 DEF Job, Inv, Typed
  <2> HIDE DEF j
  <2>4. UNCHANGED <<authored, answers, acts, disturbed>> /\ Goto(h, "values", j)
    BY <1>2 DEF FindEntry, j
  <2>5. ASSUME pc'[h] = "values", job'[h] = j PROVE Holds(h)'
    BY <2>1, <2>2, <2>3, <2>5 DEF Inv, Holds
  <2>6. ASSUME pc'[h] = "values", job'[h] = j PROVE Fresh(h)'
    BY <2>1, <2>3, <2>4, <2>6 DEF Inv, Fresh, Busy, authored, answers
  <2>7. QED
    BY <2>1, <2>3, <2>4, <2>5, <2>6, ReadInv
<1>3. QED
  BY <1>1, <1>2 DEF FindEntry

(* A value may be written once it is known to be shown and to be one.          *)
Ready(h, j) ==
    /\ j \in Job /\ j.op = "value" /\ j.form \in Forms /\ j.field \in Fields \cap DOMAIN j.entries
    /\ j.value \in MaybeValue
    /\ h \notin disturbed =>
          /\ j.form = ticket.form /\ j.sub = ticket.sub /\ j.entries = entries[ticket.form]
          /\ j.held = held /\ Shown(j.entries, j.field, held, ticket.sub)

LEMMA ReadyInv ==
  ASSUME Inv, NEW h \in Handlers, NEW j, Ready(h, j), NEW l \in {"option", "commit"},
         Goto(h, l, j), UNCHANGED <<authored, answers, disturbed, acts>>
  PROVE  Inv'
<1>1. j \in Job /\ l \in Labels \ {"idle"}
  BY DEF Ready, Labels
<1>2. ASSUME pc'[h] = l, job'[h] = j PROVE Holds(h)'
  BY <1>2 DEF Ready, Holds
<1>3. ASSUME pc'[h] = l, job'[h] = j PROVE Fresh(h)'
  BY <1>3 DEF Ready, Fresh, authored, answers
<1>4. QED
  BY <1>1, <1>2, <1>3, ReadInv

LEMMA DecideInv ==
  ASSUME Inv, NEW h \in Handlers, NEW j, Ready(h, j), Decide(h, j), UNCHANGED <<authored, answers, acts>>
  PROVE  Inv'
<1>1. CASE Finish(h)
  BY <1>1, StayInv
<1>2. CASE Goto(h, "commit", j) /\ UNCHANGED disturbed
  BY <1>2, ReadyInv
<1>3. QED
  BY <1>1, <1>2 DEF Decide

LEMMA ReadValuesInv == ASSUME Inv, NEW h \in Handlers, ReadValues(h) PROVE Inv'
<1> DEFINE j == [job[h] EXCEPT !.held = held]
<1>1. pc[h] = "values" /\ job[h].op = "value" /\ job[h] \in Job /\ UNCHANGED <<authored, answers, acts>>
  BY DEF ReadValues, Inv, Typed
<1>2. /\ j \in Job /\ j.op = "value" /\ j.held = held /\ j.form = job[h].form /\ j.sub = job[h].sub
      /\ j.field = job[h].field /\ j.value = job[h].value /\ j.entries = job[h].entries
  BY <1>1 DEF Job, Inv, Typed
<1>3. \/ Finish(h)
      \/ /\ Shown(j.entries, j.field, held, j.sub)
         /\ (Goto(h, "option", j) /\ UNCHANGED disturbed) \/ Decide(h, j)
  BY DEF ReadValues
<1> HIDE DEF j
<1>4. CASE Finish(h)
  BY <1>1, <1>4, StayInv
<1>5. ASSUME Shown(j.entries, j.field, held, j.sub) PROVE Ready(h, j)
  BY <1>1, <1>2, <1>5 DEF Inv, Holds, Fresh, Busy, Ready
<1>6. CASE Shown(j.entries, j.field, held, j.sub) /\ Goto(h, "option", j) /\ UNCHANGED disturbed
  BY <1>1, <1>5, <1>6, ReadyInv
<1>7. CASE Shown(j.entries, j.field, held, j.sub) /\ Decide(h, j)
  BY <1>1, <1>5, <1>7, DecideInv
<1>8. QED
  BY <1>3, <1>4, <1>6, <1>7

LEMMA CheckOptionInv == ASSUME Inv, NEW h \in Handlers, CheckOption(h) PROVE Inv'
<1>1. Ready(h, job[h])
  BY DEF CheckOption, Inv, Typed, Holds, Fresh, Busy, Ready
<1>2. QED
  BY <1>1, StayInv, DecideInv DEF CheckOption

LEMMA FindFormInv == ASSUME Inv, NEW h \in Handlers, FindForm(h) PROVE Inv'
<1>1. CASE Finish(h)
  BY <1>1, StayInv DEF FindForm
<1>2. CASE Goto(h, "file", job[h]) /\ UNCHANGED disturbed
  <2>1. /\ pc[h] = "choose" /\ job[h] \in Job /\ job[h].value \in Forms
        /\ "file" \in Labels \ {"idle"} /\ UNCHANGED <<authored, answers, acts>>
    BY DEF FindForm, Inv, Typed, Holds, Labels
  <2>2. ASSUME pc'[h] = "file", job'[h] = job[h] PROVE Holds(h)'
    BY <2>1, <2>2 DEF Inv, Holds, MaybeForm
  <2>3. ASSUME pc'[h] = "file", job'[h] = job[h] PROVE Fresh(h)'
    BY <1>2, <2>1, <2>3 DEF Inv, Fresh, Busy, answers
  <2>4. QED
    BY <1>2, <2>1, <2>2, <2>3, ReadInv
<1>3. QED
  BY <1>1, <1>2 DEF FindForm

(* The gate: what a solve needs is read from the form the ticket is filed      *)
(* under, and then looked for in the values the ticket has.                    *)
LEMMA FindRequiredInv == ASSUME Inv, NEW h \in Handlers, FindRequired(h) PROVE Inv'
<1> DEFINE k == job[h].form
           needed == {f \in DOMAIN entries[k] : Gates(f, job[h].sees)}
           j == [job[h] EXCEPT !.entries = entries[k], !.needed = needed]
<1>1. /\ pc[h] = "form" /\ job[h].op = "solve" /\ job[h] \in Job /\ k \in MaybeForm
      /\ UNCHANGED <<authored, answers, disturbed, acts>>
      /\ {"solve", "values"} \subseteq Labels \ {"idle"}
  BY DEF FindRequired, Inv, Typed, Labels, Job
<1>2. h \notin disturbed => k = ticket.form /\ job[h].sub = ticket.sub
  BY <1>1 DEF Inv, Fresh, Busy
<1>3. CASE k = None /\ Goto(h, "solve", job[h])
  <2>1. ASSUME pc'[h] = "solve", job'[h] = job[h] PROVE Holds(h)'
    BY <1>1, <2>1 DEF Holds
  <2>2. ASSUME pc'[h] = "solve", job'[h] = job[h] PROVE Fresh(h)'
    BY <1>1, <1>2, <1>3, <2>2 DEF Fresh, answers
  <2>3. QED
    BY <1>1, <1>3, <2>1, <2>2, ReadInv
<1>4. CASE k # None /\ Goto(h, "values", j)
  <2>1. k \in Forms /\ entries[k] \in Compositions
    BY <1>1, <1>4 DEF MaybeForm, Inv, Typed
  <2>2. needed \subseteq Fields
    BY <2>1, FieldsAssumption
  <2>3. /\ j \in Job /\ j.op = "solve" /\ j.form = k /\ j.sub = job[h].sub /\ j.sees = job[h].sees
        /\ j.entries = entries[k] /\ j.needed = needed
    BY <1>1, <2>1, <2>2 DEF Job
  <2>4. ASSUME h \notin disturbed
        PROVE  j.needed = {f \in DOMAIN entries[ticket.form] : Gates(f, j.sees)}
    BY <1>2, <2>3, <2>4
  <2> HIDE DEF j, needed
  <2>5. ASSUME pc'[h] = "values", job'[h] = j PROVE Holds(h)'
    BY <2>1, <2>3, <2>5 DEF Holds
  <2>6. ASSUME pc'[h] = "values", job'[h] = j PROVE Fresh(h)'
    BY <1>1, <1>2, <2>3, <2>4, <2>6 DEF Fresh, authored, answers, Gates
  <2>7. QED
    BY <1>1, <1>4, <2>3, <2>5, <2>6, ReadInv
<1>5. QED
  BY <1>3, <1>4 DEF FindRequired

LEMMA CheckRequiredInv == ASSUME Inv, NEW h \in Handlers, CheckRequired(h) PROVE Inv'
<1>1. CASE Finish(h)
  BY <1>1, StayInv DEF CheckRequired
<1>2. CASE /\ Missing(job[h].entries, job[h].needed, held, job[h].sub) = {}
           /\ Goto(h, "solve", job[h]) /\ UNCHANGED disturbed
  <2>1. /\ pc[h] = "values" /\ job[h].op = "solve" /\ job[h] \in Job
        /\ "solve" \in Labels \ {"idle"} /\ UNCHANGED <<authored, answers, acts>>
    BY DEF CheckRequired, Inv, Typed, Labels
  <2>2. ASSUME pc'[h] = "solve", job'[h] = job[h] PROVE Holds(h)'
    BY <2>1, <2>2 DEF Holds
  <2>3. ASSUME h \notin disturbed
        PROVE  /\ job[h].form = ticket.form /\ job[h].sub = ticket.sub
               /\ Missing(entries[ticket.form],
                          {f \in DOMAIN entries[ticket.form] : Gates(f, job[h].sees)},
                          held, ticket.sub) = {}
    BY <1>2, <2>1, <2>3 DEF Inv, Fresh, Busy
  <2>4. ASSUME pc'[h] = "solve", job'[h] = job[h] PROVE Fresh(h)'
    BY <1>2, <2>1, <2>3, <2>4 DEF Fresh, authored, answers, Gates, Missing, Shown, Row
  <2>5. QED
    BY <1>2, <2>1, <2>2, <2>4, ReadInv
<1>3. QED
  BY <1>1, <1>2 DEF CheckRequired

LEMMA SetStatusInv == ASSUME Inv, NEW h \in Handlers, SetStatus(h) PROVE Inv'
<1>1. /\ Finish(h) /\ UNCHANGED <<def, option, entries, active, lock, held, acts>>
      /\ ticket' = [ticket EXCEPT !.solved = TRUE]
  BY DEF SetStatus, authored
<1>2. ticket' \in Ticket /\ ticket'.form = ticket.form /\ ticket'.sub = ticket.sub
  BY <1>1 DEF Inv, Typed, Ticket
<1>3. QED
  BY <1>1, <1>2, FinishInv DEF Inv, Typed

----------------------------------------------------------------------------
(* The steps that write.                                                       *)

LEMMA CommitInv == ASSUME Inv, NEW h \in Handlers, CommitValue(h) PROVE Inv'
<1> DEFINE j == job[h]
           After(f, old) == IF f = j.field THEN j.value ELSE IF f \in Doomed(j) THEN None ELSE old
           by == IF Source \in Doomed(j) \cup {j.field} THEN "human" ELSE ticket.by
<1>1. /\ pc[h] = "commit" /\ Wrote(h) /\ UNCHANGED <<authored, acts>>
      /\ held' = [f \in Fields \ {Source} |-> After(f, held[f])]
      /\ ticket' = [ticket EXCEPT !.sub = After(Source, ticket.sub), !.by = by]
  BY DEF CommitValue
<1>2. j.value \in MaybeValue
  BY <1>1 DEF Inv, Holds
<1>3. \A f, old : old \in MaybeValue => After(f, old) \in MaybeValue
  BY <1>2 DEF MaybeValue
<1>4. by \in {"none", "human", "ai"}
  BY DEF Inv, Typed, Ticket
<1> HIDE DEF After, by
<1>5. held' \in Rows
  BY <1>1, <1>3 DEF Inv, Typed, Rows
<1>6. ticket' \in Ticket
  BY <1>1, <1>3, <1>4 DEF Inv, Typed, Ticket
<1>7. Composed'
  BY <1>1 DEF Inv, Composed, authored
<1>8. QED
  BY <1>1, <1>5, <1>6, <1>7, WroteInv DEF authored, Inv, Typed

LEMMA FileTicketInv == ASSUME Inv, NEW h \in Handlers, FileTicket(h) PROVE Inv'
<1> DEFINE k == job[h].value
           category == IF k # None /\ CategoryOf[k] # None THEN CategoryOf[k] ELSE ticket.category
           by == IF k # None /\ CategoryOf[k] # None THEN "human" ELSE ticket.by
<1>1. /\ pc[h] = "file" /\ Wrote(h) /\ UNCHANGED <<authored, held, acts>>
      /\ ticket' = [ticket EXCEPT !.form = k, !.category = category, !.by = by]
  BY DEF FileTicket
<1>2. k \in MaybeForm
  BY <1>1 DEF Inv, Holds
<1>3. category \in {CategoryOf[x] : x \in Forms} \cup {None} /\ by \in {"none", "human", "ai"}
  BY <1>2 DEF Inv, Typed, Ticket, MaybeForm
<1> HIDE DEF category, by
<1>4. ticket' \in Ticket
  BY <1>1, <1>2, <1>3 DEF Inv, Typed, Ticket
<1>5. Composed'
  BY <1>1 DEF Inv, Composed, authored
<1>6. QED
  BY <1>1, <1>4, <1>5, WroteInv DEF authored, Inv, Typed

LEMMA RemoveOptionInv == ASSUME Inv, NEW h \in Handlers, RemoveOption(h) PROVE Inv'
<1>1. /\ Wrote(h) /\ UNCHANGED <<def, entries, active, lock, ticket, held, acts>>
      /\ option' = [option EXCEPT ![job[h].value] = "absent"]
  BY DEF RemoveOption, answers
<1>2. option' \in [Values -> {"listed", "retired", "absent"}]
  BY <1>1 DEF Inv, Typed
<1>3. Composed'
  BY <1>1 DEF Inv, Composed
<1>4. QED
  BY <1>1, <1>2, <1>3, WroteInv DEF Inv, Typed

(* A save of a form takes the form's row, and keeps it until it commits.       *)
LEMMA UpdateFormInv == ASSUME Inv, NEW h \in Handlers, UpdateForm(h) PROVE Inv'
<1> DEFINE k == job[h].value
<1>1. /\ pc[h] = "update" /\ lock[k] = None /\ Goto(h, "clear", job[h])
      /\ lock' = [lock EXCEPT ![k] = h]
      /\ UNCHANGED <<def, option, entries, active, ticket, held, disturbed, acts>>
  BY DEF UpdateForm, answers
<1>2. k \in Forms /\ job[h].entries \in Compositions /\ Accepted(job[h].entries) /\ job[h] \in Job
  BY <1>1 DEF Inv, Holds, Typed
<1>3. /\ lock' \in [Forms -> Handlers \cup {None}] /\ lock'[k] = h
      /\ \A g \in Handlers \ {h}, x \in Forms : lock[x] = g => lock'[x] = g
  BY <1>1, <1>2, FieldsAssumption DEF Inv, Typed
<1>4. pc'[h] = "clear" /\ job'[h] = job[h] /\ "clear" \in Labels
  BY <1>1 DEF Goto, Inv, Typed, Labels
<1>5. Holds(h)'
  BY <1>1, <1>2, <1>3, <1>4 DEF Inv, Holds
<1>6. Fresh(h)'
  BY <1>1, <1>4 DEF Inv, Fresh, Busy
<1>7. QED
  BY <1>1, <1>2, <1>3, <1>4, <1>5, <1>6, MoveInv DEF Inv, Typed

LEMMA ClearEntriesInv == ASSUME Inv, NEW h \in Handlers, ClearEntries(h) PROVE Inv'
<1> DEFINE k == job[h].value
           j == [job[h] EXCEPT !.held = entries[k]]
<1>1. /\ pc[h] = "clear" /\ Goto(h, "fill", j) /\ UNCHANGED <<authored, answers, disturbed, acts>>
      /\ "fill" \in Labels \ {"idle"}
  BY DEF ClearEntries, Labels
<1>2. /\ k \in Forms /\ job[h].entries \in Compositions /\ Accepted(job[h].entries)
      /\ lock[k] = h /\ job[h] \in Job /\ entries[k] \in Compositions
  BY <1>1 DEF Inv, Holds, Typed
<1>3. /\ j \in Job /\ j.held = entries[k] /\ j.value = k /\ j.entries = job[h].entries
      /\ j.op = job[h].op /\ j.field = job[h].field /\ j.form = job[h].form /\ j.sub = job[h].sub
  BY <1>2 DEF Job
<1> HIDE DEF j
<1>4. ASSUME pc'[h] = "fill", job'[h] = j PROVE Holds(h)'
  BY <1>1, <1>2, <1>3, <1>4 DEF Inv, Holds, authored
<1>5. ASSUME pc'[h] = "fill", job'[h] = j PROVE Fresh(h)'
  BY <1>1, <1>3, <1>5 DEF Inv, Fresh, Busy, answers
<1>6. QED
  BY <1>1, <1>3, <1>4, <1>5, ReadInv

LEMMA UnlockKeeps ==
  ASSUME Inv, NEW h \in Handlers, Unlock(h)
  PROVE  /\ lock' \in [Forms -> Handlers \cup {None}]
         /\ \A g \in Handlers \ {h}, k \in Forms : lock[k] = g => lock'[k] = g
  BY DEF Unlock, Inv, Typed

(* What was there is what it deleted, so that what it leaves is what was sent. *)
LEMMA FillEntriesInv == ASSUME Inv, NEW h \in Handlers, FillEntries(h) PROVE Inv'
<1> DEFINE k == job[h].value
           new == job[h].entries
           left == {f \in DOMAIN entries[k] : f \notin DOMAIN job[h].held \/ entries[k][f] # job[h].held[f]}
<1>1. pc[h] = "fill" /\ Unlock(h) /\ UNCHANGED <<def, option, active, ticket, held, acts>>
  BY DEF FillEntries, answers
<1>2. /\ k \in Forms /\ new \in Compositions /\ Accepted(new) /\ lock[k] = h
      /\ job[h].held = entries[k]
  BY <1>1 DEF Inv, Holds
<1>3. left = {}
  BY <1>2
<1>4. new = [f \in DOMAIN new |-> new[f]]
  BY <1>2, FieldsAssumption
<1>5. Wrote(h) /\ entries' = [entries EXCEPT ![k] = new]
  BY <1>3, <1>4 DEF FillEntries
<1>6. /\ entries' \in [Forms -> Compositions] /\ Composed'
      /\ \A x \in Forms \ {k} : entries'[x] = entries[x]
  BY <1>2, <1>5 DEF Inv, Typed, Composed
<1>7. \A g \in Handlers \ {h}, x \in Forms : lock[x] = g => lock'[x] = g /\ entries'[x] = entries[x]
  BY <1>1, <1>2, <1>6, UnlockKeeps
<1>8. QED
  BY <1>1, <1>5, <1>6, <1>7, UnlockKeeps, WroteInv DEF Inv, Typed

LEMMA AbandonInv == ASSUME Inv, NEW h \in Handlers, Abandon(h) PROVE Inv'
<1>1. Finish(h) /\ Unlock(h) /\ UNCHANGED <<def, option, entries, active, ticket, held, acts>>
  BY DEF Abandon, answers
<1>2. QED
  BY <1>1, UnlockKeeps, FinishInv DEF Inv, Typed

LEMMA OutsideInv ==
  ASSUME Inv,
         \/ Reopen \/ ApplyStatus
         \/ \E by \in {"human", "ai"} :
               \/ \E k \in Forms : ApplyCategory(by, k)
               \/ \E v \in Values : ApplySubCategory(by, v)
         \/ \E k \in Forms : ArchiveForm(k)
         \/ \E f \in Fields, flag \in {"required", "withheld", "applies"} : UpsertField(f, flag)
         \/ \E v \in Values, to \in {"listed", "retired"} : SwitchOption(v, to)
  PROVE  Inv'
<1>1. ASSUME Act PROVE acts' \in 0..MaxActs
  BY <1>1, ActTyped DEF Inv
<1>2. CASE Reopen \/ ApplyStatus
  <2>1. /\ acts' \in 0..MaxActs /\ UNCHANGED <<authored, held, pc, job, disturbed>>
        /\ \E b \in BOOLEAN : ticket' = [ticket EXCEPT !.solved = b]
    BY <1>1, <1>2 DEF Reopen, ApplyStatus
  <2>2. ticket' \in Ticket /\ ticket'.form = ticket.form /\ ticket'.sub = ticket.sub
    BY <2>1 DEF Inv, Typed, Ticket
  <2>3. QED
    BY <2>1, <2>2, QuietInv
<1>3. ASSUME NEW by \in {"human", "ai"}, NEW k \in Forms, ApplyCategory(by, k) PROVE Inv'
  <2>1. /\ acts' \in 0..MaxActs /\ UNCHANGED <<authored, held, pc, job, disturbed>>
        /\ ticket' = [ticket EXCEPT !.category = CategoryOf[k], !.by = by]
    BY <1>1, <1>3 DEF ApplyCategory
  <2>2. ticket' \in Ticket /\ ticket'.form = ticket.form /\ ticket'.sub = ticket.sub
    BY <2>1 DEF Inv, Typed, Ticket
  <2>3. QED
    BY <2>1, <2>2, QuietInv
<1>4. ASSUME NEW by \in {"human", "ai"}, NEW v \in Values, ApplySubCategory(by, v) PROVE Inv'
  <2>1. /\ acts' \in 0..MaxActs /\ UNCHANGED <<def, option, entries, active, lock, held>> /\ WroteAlone
        /\ ticket' = [ticket EXCEPT !.sub = v, !.by = by]
    BY <1>1, <1>4 DEF ApplySubCategory, authored
  <2>2. ticket' \in Ticket
    BY <2>1 DEF Inv, Typed, Ticket, MaybeValue
  <2>3. QED
    BY <2>1, <2>2, AloneInv DEF Inv, Typed
<1>5. ASSUME NEW k \in Forms, ArchiveForm(k) PROVE Inv'
  <2>1. /\ acts' \in 0..MaxActs /\ UNCHANGED <<def, option, entries, lock, ticket, held>> /\ WroteAlone
        /\ active' \subseteq Forms
    BY <1>1, <1>5 DEF ArchiveForm, answers, Inv, Typed
  <2>2. QED
    BY <2>1, AloneInv DEF Inv, Typed
<1>6. ASSUME NEW f \in Fields, NEW flag \in {"required", "withheld", "applies"}, UpsertField(f, flag)
      PROVE  Inv'
  <2>1. /\ acts' \in 0..MaxActs /\ WroteAlone
        /\ UNCHANGED <<option, entries, active, lock, ticket, held>>
        /\ def' = [def EXCEPT ![f][flag] = ~def[f][flag]]
    BY <1>1, <1>6 DEF UpsertField, answers
  <2>2. def[f] \in [required : BOOLEAN, withheld : BOOLEAN, applies : BOOLEAN]
    BY DEF Inv, Typed
  <2>3. [def[f] EXCEPT ![flag] = ~def[f][flag]] \in [required : BOOLEAN, withheld : BOOLEAN, applies : BOOLEAN]
    BY <2>2
  <2>4. def' = [def EXCEPT ![f] = [def[f] EXCEPT ![flag] = ~def[f][flag]]]
    BY <2>1
  <2>5. def' \in [Fields -> [required : BOOLEAN, withheld : BOOLEAN, applies : BOOLEAN]]
    BY <2>3, <2>4 DEF Inv, Typed
  <2>6. QED
    BY <2>1, <2>5, AloneInv DEF Inv, Typed
<1>7. ASSUME NEW v \in Values, NEW to \in {"listed", "retired"}, SwitchOption(v, to) PROVE Inv'
  <2>1. /\ acts' \in 0..MaxActs /\ UNCHANGED <<def, entries, active, lock, ticket, held>> /\ WroteAlone
        /\ option' \in [Values -> {"listed", "retired", "absent"}]
    BY <1>1, <1>7 DEF SwitchOption, answers, Inv, Typed
  <2>2. QED
    BY <2>1, AloneInv DEF Inv, Typed
<1>8. QED
  BY <1>2, <1>3, <1>4, <1>5, <1>6, <1>7

----------------------------------------------------------------------------
(* The theorems.                                                               *)

LEMMA NextInv == Inv /\ [Next]_vars => Inv'
<1> SUFFICES ASSUME Inv, [Next]_vars PROVE Inv'
  OBVIOUS
<1>1. CASE UNCHANGED vars
  BY <1>1 DEF vars, Inv, Typed, Composed, Holds, Fresh, Busy, Gates, Missing, Shown, Row
<1>2. ASSUME NEW h \in Handlers, Handle(h) PROVE Inv'
  BY <1>2, FindEntryInv, ReadValuesInv, CheckOptionInv, CommitInv, FindFormInv, FileTicketInv,
     FindRequiredInv, CheckRequiredInv, SetStatusInv, UpdateFormInv, ClearEntriesInv,
     FillEntriesInv, RemoveOptionInv DEF Handle
<1>3. ASSUME NEW h \in Handlers,
             \/ Abandon(h)
             \/ \E f \in Fields, next \in Values \cup {None}, sees \in BOOLEAN : SetFieldValue(h, f, next, sees)
             \/ \E k \in Forms \cup {None} : SetConversationForm(h, k)
             \/ \E sees \in BOOLEAN : Solve(h, sees)
             \/ \E k \in Forms, c \in Compositions : UpsertForm(h, k, c)
             \/ \E v \in Values : FindUse(h, v)
      PROVE  Inv'
  BY <1>3, AbandonInv, SetFieldValueInv, SetFormInv, SolveInv, UpsertFormInv, FindUseInv
     DEF MaybeForm, MaybeValue
<1>4. QED
  BY <1>1, <1>2, <1>3, OutsideInv DEF Next

LEMMA FieldsSafe == Spec => []Inv
<1>1. QED
  BY InitInv, NextInv, PTL DEF Spec

(* Every variable keeps its type, a call that fills in a field has found it on *)
(* the form it read, and a save of a form has the form's row for itself.       *)
THEOREM FieldTypes == Spec => []TypeOK
<1>1. ASSUME Inv PROVE TypeOK
  <2>1. /\ ticket.form \in Forms \cup {None} /\ ticket.sub \in Values \cup {None}
        /\ ticket.by \in {"none", "human", "ai"} /\ ticket.solved \in BOOLEAN
    BY <1>1 DEF Inv, Typed, Ticket, MaybeForm, MaybeValue
  <2>2. ASSUME NEW h \in Handlers
        PROVE  /\ pc[h] \in Labels
               /\ pc[h] \in {"values", "option", "commit"} /\ job[h].op = "value"
                     => job[h].field \in DOMAIN job[h].entries
               /\ pc[h] \in {"clear", "fill"} => \A g \in Handlers \ {h} : lock[job[h].value] # g
    BY <1>1 DEF Inv, Typed, Holds
  <2>3. QED
    BY <1>1, <2>1, <2>2 DEF Inv, Typed, TypeOK, Labels, Rows, MaybeValue
<1>2. QED
  BY <1>1, FieldsSafe, PTL

(* The entries of a form are always what one administrator sent, validated as  *)
(* a whole, however many saves of it overlap (FieldsRepository.upsertForm).    *)
THEOREM ComposedTheorem == Spec => []Composed
<1>1. Inv => Composed
  BY DEF Inv
<1>2. QED
  BY <1>1, FieldsSafe, PTL

(* Whoever passes the gate undisturbed has filled in every required field that *)
(* they can see (missingRequiredForSolve).                                     *)
THEOREM SolvedTheorem == Spec => SolvedComplete
<1> DEFINE Passed(h) ==
        pc[h] = "solve" /\ ticket'.solved # ticket.solved /\ pc'[h] = "idle"
              /\ h \notin disturbed /\ ticket.form # None =>
              LET c == entries[ticket.form]
              IN  \A f \in DOMAIN c :
                     Gates(f, job[h].sees) /\ Shown(c, f, held, ticket.sub)
                         => Row(f, held, ticket.sub) # None
<1>1. ASSUME Inv, NEW h \in Handlers PROVE Passed(h)
  BY <1>1 DEF Inv, Fresh, Busy, Missing
<1>2. Inv => \A h \in Handlers : Passed(h)
  BY <1>1
<1>3. QED
  BY <1>2, FieldsSafe, PTL DEF SolvedComplete

----------------------------------------------------------------------------
(* The cascade.                                                                *)

(* What loses its value when f takes v, and the values that are left.          *)
Cascaded(c, f, v, Old) ==
    {g \in UNION {Below(c)[s] : s \in {g \in Children(c, f) : c[g].value # v}} : Old[g] # None}
Left(c, f, v, Old) ==
    [g \in Fields |-> IF g = f THEN v ELSE IF g \in Cascaded(c, f, v, Old) THEN None ELSE Old[g]]

(* What is hidden and has a value then was hidden and had one before.          *)
LEMMA CascadeHides ==
  ASSUME NEW c, c \in Compositions, Accepted(c),
         NEW f \in DOMAIN c, NEW v, NEW Old, NEW New, New = Left(c, f, v, Old),
         c[f].parent = None \/ (c[f].parent \in DOMAIN c /\ Old[c[f].parent] = c[f].value),
         NEW g \in DOMAIN c, New[g] # None, c[g].parent # None, New[c[g].parent] # c[g].value
  PROVE  Old[g] # None /\ Old[c[g].parent] # c[g].value
<1> DEFINE shut == {x \in Children(c, f) : c[x].value # v}
           Gone == Cascaded(c, f, v, Old)
<1>0. \A x \in Fields : New[x] = (IF x = f THEN v ELSE IF x \in Gone THEN None ELSE Old[x])
  BY DEF Left
<1>1. /\ DOMAIN c \subseteq Fields /\ c \in [DOMAIN c -> Entry] /\ IsFiniteSet(DOMAIN c)
      /\ c[g].parent \in DOMAIN c
  BY FieldsAssumption, FS_Subset DEF Accepted
<1>2. shut \subseteq DOMAIN c /\ \A s \in shut : c[s].parent = f
  BY DEF Children
<1>3. Gone = {x \in UNION {Below(c)[s] : s \in shut} : Old[x] # None}
  BY DEF Cascaded
<1> HIDE DEF shut, Gone
<1>4. \A s \in shut : f \notin Below(c)[s]
  <2> SUFFICES ASSUME NEW s \in shut, f \in Below(c)[s] PROVE FALSE
    OBVIOUS
  <2>1. /\ s \in Below(c)[s] /\ Below(c)[s] \subseteq DOMAIN c
        /\ \A x \in Below(c)[s] \ {s} : c[x].parent \in Below(c)[s]
    BY <1>1, <1>2, BelowClosed
  <2>2. \A x \in Below(c)[s] : c[x].parent \in Below(c)[s]
    BY <1>2, <2>1
  <2>3. QED
    BY <2>1, <2>2 DEF Accepted
<1>5. g # f
  <2> SUFFICES ASSUME g = f PROVE FALSE
    OBVIOUS
  <2> DEFINE q == c[f].parent
  <2>1. q \in DOMAIN c /\ q # f /\ Old[q] = c[f].value /\ New[q] # c[f].value /\ f \in Children(c, q)
    BY <1>1 DEF Accepted, Children
  <2>2. q \in Gone
    BY <1>0, <1>1, <2>1
  <2>3. PICK s \in shut : q \in Below(c)[s]
    BY <1>3, <2>2
  <2>4. f \in Below(c)[s]
    BY <1>1, <1>2, <2>1, <2>3, BelowClosed
  <2>5. QED
    BY <1>4, <2>4
<1>6. g \notin Gone /\ New[g] = Old[g] /\ Old[g] # None
  BY <1>0, <1>1, <1>5
<1>7. Old[c[g].parent] # c[g].value
  <2> SUFFICES ASSUME Old[c[g].parent] = c[g].value PROVE FALSE
    OBVIOUS
  <2> DEFINE q == c[g].parent
  <2>1. CASE q = f
    <3>1. New[f] = v /\ g \in Children(c, f)
      BY <1>0, <1>1, <2>1 DEF Children
    <3>2. g \in shut
      BY <2>1, <3>1 DEF shut
    <3>3. g \in Below(c)[g]
      BY <1>1, BelowClosed
    <3>4. QED
      BY <1>3, <1>6, <3>2, <3>3
  <2>2. CASE q # f
    <3>1. q \in Gone
      BY <1>0, <1>1, <2>2
    <3>2. PICK s \in shut : q \in Below(c)[s]
      BY <1>3, <3>1
    <3>3. g \in Children(c, q)
      BY DEF Children
    <3>4. g \in Below(c)[s]
      BY <1>1, <1>2, <3>2, <3>3, BelowClosed
    <3>5. QED
      BY <1>3, <1>6, <3>4
  <2>3. QED
    BY <2>1, <2>2
<1>8. QED
  BY <1>6, <1>7

(* Only the commit of a value changes the answers when a call at it ends.      *)
LEMMA OnlyCommit ==
  ASSUME Inv, [Next]_vars, NEW h \in Handlers, pc[h] = "commit", pc'[h] = "idle", answers' # answers
  PROVE  CommitValue(h)
<1>1. pc' # pc
  BY DEF Inv, Typed
<1>2. ASSUME NEW g \in Handlers, NEW l, NEW j, Goto(g, l, j) PROVE g = h
  BY <1>2 DEF Goto, Inv, Typed
<1>3. ASSUME NEW g \in Handlers, Handle(g) \/ Abandon(g) PROVE g = h
  BY <1>2, <1>3 DEF Handle, Abandon, FindEntry, ReadValues, Decide, CheckOption, CommitValue, FindForm,
     FileTicket, FindRequired, CheckRequired, SetStatus, UpdateForm, ClearEntries, FillEntries,
     RemoveOption, Finish, Wrote
<1>4. ASSUME NEW g \in Handlers, NEW l, NEW j, Begin(g, l, j) PROVE FALSE
  BY <1>4 DEF Begin
<1>5. ~Abandon(h)
  BY DEF Abandon
<1>6. Handle(h) => CommitValue(h)
  BY DEF Handle, FindEntry, ReadValues, CheckOption, FindForm, FileTicket, FindRequired, CheckRequired,
     SetStatus, UpdateForm, ClearEntries, FillEntries, RemoveOption
<1>7. ASSUME NEW g \in Handlers,
             \/ \E f \in Fields, next \in Values \cup {None}, sees \in BOOLEAN : SetFieldValue(g, f, next, sees)
             \/ \E k \in Forms \cup {None} : SetConversationForm(g, k)
             \/ \E sees \in BOOLEAN : Solve(g, sees)
             \/ \E k \in Forms, c \in Compositions : UpsertForm(g, k, c)
             \/ \E v \in Values : FindUse(g, v)
      PROVE  FALSE
  BY <1>4, <1>7 DEF SetFieldValue, SetConversationForm, Solve, UpsertForm, FindUse
<1>8. ASSUME \/ Reopen \/ ApplyStatus
             \/ \E by \in {"human", "ai"} :
                   \/ \E k \in Forms : ApplyCategory(by, k)
                   \/ \E v \in Values : ApplySubCategory(by, v)
             \/ \E k \in Forms : ArchiveForm(k)
             \/ \E f \in Fields, flag \in {"required", "withheld", "applies"} : UpsertField(f, flag)
             \/ \E v \in Values, to \in {"listed", "retired"} : SwitchOption(v, to)
      PROVE  FALSE
  BY <1>1, <1>8 DEF Reopen, ApplyStatus, ApplyCategory, ApplySubCategory, ArchiveForm, UpsertField,
     SwitchOption, WroteAlone
<1>9. ~UNCHANGED vars
  BY DEF vars
<1>10. QED
  BY <1>3, <1>5, <1>6, <1>7, <1>8, <1>9 DEF Next

LEMMA CommitHides ==
  ASSUME Inv, NEW h \in Handlers, CommitValue(h), h \notin disturbed
  PROVE  HiddenHeld(entries[ticket.form], held', ticket'.sub)
            \subseteq HiddenHeld(entries[ticket.form], held, ticket.sub)
<1> DEFINE j == job[h]
           c == j.entries
           Old == [f \in Fields |-> Row(f, held, ticket.sub)]
           New == [f \in Fields |-> Row(f, held', ticket'.sub)]
           Gone == Doomed(j)
           After(f, old) == IF f = j.field THEN j.value ELSE IF f \in Gone THEN None ELSE old
<1>1. /\ pc[h] = "commit"
      /\ held' = [f \in Fields \ {Source} |-> After(f, held[f])]
      /\ ticket' = [ticket EXCEPT !.sub = After(Source, ticket.sub),
                                  !.by = IF Source \in Gone \cup {j.field} THEN "human" ELSE @]
  BY DEF CommitValue
<1>2. h \in Busy \ disturbed
  BY <1>1 DEF Busy
<1>3. /\ c = entries[ticket.form] /\ j.held = held /\ j.sub = ticket.sub
      /\ Shown(c, j.field, held, ticket.sub)
      /\ j.form = ticket.form /\ j.form \in Forms /\ j.field \in DOMAIN c
  BY <1>1, <1>2 DEF Inv, Holds, Fresh
<1>4. c \in Compositions /\ Accepted(c) /\ DOMAIN c \subseteq Fields
  BY <1>3, FieldsAssumption DEF Inv, Typed, Composed
<1>5. ticket'.sub = After(Source, ticket.sub)
  BY <1>1 DEF Inv, Typed, Ticket
<1>6. ASSUME NEW f \in Fields PROVE New[f] = After(f, Old[f])
  <2>1. CASE f = Source
    BY <1>5, <2>1 DEF Row
  <2>2. CASE f # Source
    BY <1>1, <2>2 DEF Row
  <2>3. QED
    BY <2>1, <2>2
<1>7. Gone = Cascaded(c, j.field, j.value, Old)
  <2>1. \A s \in Children(c, j.field) : Below(c)[s] \subseteq Fields
    BY <1>4, FieldsAssumption, FS_Subset, BelowClosed DEF Children
  <2>2. Gone = {g \in UNION {Below(c)[s] : s \in {g \in Children(c, j.field) : c[g].value # j.value}} :
                   Row(g, held, ticket.sub) # None}
    BY <1>3 DEF Doomed
  <2> HIDE DEF Gone, c
  <2>3. QED
    BY <2>1, <2>2 DEF Cascaded
<1>8. ASSUME NEW k, NEW rows, NEW sub, NEW f \in DOMAIN k
      PROVE  /\ Shown(k, f, rows, sub) <=>
                   (k[f].parent = None \/ (k[f].parent \in DOMAIN k /\ Row(k[f].parent, rows, sub) = k[f].value))
             /\ f \in HiddenHeld(k, rows, sub) <=> Row(f, rows, sub) # None /\ ~Shown(k, f, rows, sub)
  BY <1>8 DEF Shown, HiddenHeld
<1>9. ASSUME NEW g \in DOMAIN c, g \in HiddenHeld(c, held', ticket'.sub)
      PROVE  g \in HiddenHeld(c, held, ticket.sub)
  <2> DEFINE q == c[g].parent
  <2>1. q # None /\ q \in DOMAIN c /\ g \in Fields /\ q \in Fields
    BY <1>4, <1>8, <1>9 DEF Accepted
  <2>2. New[g] # None /\ New[q] # c[g].value
    BY <1>8, <1>9, <2>1
  <2>3. c[j.field].parent = None \/ (c[j.field].parent \in DOMAIN c /\ Old[c[j.field].parent] = c[j.field].value)
    BY <1>3, <1>4, <1>8
  <2>4. New = Left(c, j.field, j.value, Old)
    <3> HIDE DEF Old, Gone, c, j
    <3>1. New = [f \in Fields |-> After(f, Old[f])]
      BY <1>6
    <3>2. QED
      BY <1>7, <3>1 DEF Left
  <2> HIDE DEF Old, New, Gone, c, j
  <2>5. Old[g] # None /\ Old[q] # c[g].value
    BY <1>3, <1>4, <2>1, <2>2, <2>3, <2>4, CascadeHides
  <2>6. Row(g, held, ticket.sub) # None /\ Row(q, held, ticket.sub) # c[g].value
    BY <2>1, <2>5 DEF Old
  <2>7. QED
    BY <1>8, <2>1, <2>6
<1>10. HiddenHeld(c, held', ticket'.sub) \subseteq DOMAIN c
  BY DEF HiddenHeld
<1>11. QED
  BY <1>3, <1>9, <1>10

(* A value that is set, changed or cleared leaves no other value behind an     *)
(* entry that it hid, however deep the conditions are nested (the cascade of   *)
(* FieldsRepository.setFieldValue).                                            *)
THEOREM CascadeTheorem == Spec => NothingHidden
<1> DEFINE Clean(h) ==
        pc[h] = "commit" /\ pc'[h] = "idle" /\ answers' # answers /\ h \notin disturbed =>
            LET c == entries[ticket.form]
            IN  HiddenHeld(c, held', ticket'.sub) \subseteq HiddenHeld(c, held, ticket.sub)
<1>1. ASSUME Inv, [Next]_vars, NEW h \in Handlers PROVE Clean(h)
  BY <1>1, OnlyCommit, CommitHides
<1>2. Inv /\ [Next]_vars => \A h \in Handlers : Clean(h)
  BY <1>1
<1>3. QED
  BY <1>2, FieldsSafe, PTL DEF Spec, NothingHidden
=============================================================================
