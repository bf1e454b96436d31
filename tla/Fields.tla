------------------------------- MODULE Fields --------------------------------
(* The custom fields of a ticket (chats, fields/): what an administrator        *)
(* authors - fields, an option set, forms that are composed of fields -, what   *)
(* agents fill in, the gate a ticket passes when it is solved, and the macros   *)
(* and rules that write the same columns past both.                             *)
(*                                                                              *)
(* One ticket, never shelved, and one option set for all its dropdowns.  A form *)
(* shows an entry while the entry's parent holds one value; the value of the    *)
(* sub-category source is a column of the ticket, every other is a row of its   *)
(* own.  Names, labels and the order of things are left out.                    *)
EXTENDS Integers, FiniteSets, Functions

CONSTANTS
    Fields,
    Dropdowns,      \* the fields that take their value from the option set
    Source,         \* the one that is the sub-category source wherever it is used
    Forms,
    CategoryOf,     \* what choosing a form files the ticket under, or None
    Compositions,   \* what an administrator may send as the entries of a form
    FirstEntries,   \* of each form, when it was created
    Values,
    Handlers,       \* calls that may be under way together
    None,
    MaxActs         \* bound: calls in one behaviour

Entry == [parent : Fields \cup {None}, value : Values \cup {None}]

Children(c, f) == {g \in DOMAIN c : c[g].parent = f}

(* An entry and everything whose being shown depends on it.                    *)
Below(c) ==
    LET below[f \in DOMAIN c] == {f} \cup UNION {below[g] : g \in Children(c, f)}
    IN  below

(* upsertForm: a condition has both halves and names a dropdown of the same    *)
(* form, and following the conditions never comes round.                       *)
Accepted(c) ==
    /\ \A f \in DOMAIN c :
          /\ c[f].parent = None <=> c[f].value = None
          /\ c[f].parent # None => c[f].parent \in (DOMAIN c \cap Dropdowns) \ {f}
    /\ \A S \in SUBSET DOMAIN c : S # {} => \E f \in S : c[f].parent \notin S

ASSUME FieldsAssumption ==
    /\ Dropdowns \subseteq Fields /\ Source \in Dropdowns /\ IsFiniteSet(Fields)
    /\ None \notin Fields \cup Values \cup Forms \cup Handlers
    /\ \A c \in Compositions : DOMAIN c \subseteq Fields /\ c \in [DOMAIN c -> Entry]
    /\ FirstEntries \in [Forms -> Compositions] /\ \A k \in Forms : Accepted(FirstEntries[k])
    /\ MaxActs \in Nat

VARIABLES
    def,        \* FieldDefinition: required, withheld (restricted), applies (active, and of this brand)
    option,     \* the option set: OptionValue.active, or "absent"
    entries,    \* FormField: of each form, its composition
    active,     \* Form.active
    lock,       \* who holds the row of a form
    ticket,     \* Conversation: form_key, category, sub_category, classified_by, a solved status
    held,       \* ConversationFieldValue
    pc, job,    \* where each call stands, and what it has read
    disturbed,  \* history: calls since whose first read somebody else has written
    acts

vars     == <<def, option, entries, active, lock, ticket, held, pc, job, disturbed, acts>>
authored == <<def, option, entries, active, lock>>
answers  == <<ticket, held>>

NoJob == [op |-> "none", field |-> None, value |-> None, sees |-> FALSE, form |-> None,
          sub |-> None, entries |-> <<>>, held |-> <<>>, needed |-> {}]

Row(f, rows, sub) == IF f = Source THEN sub ELSE rows[f]

(* An entry is shown while its parent holds the value it asks for.             *)
Shown(c, f, rows, sub) ==
    c[f].parent = None \/ (c[f].parent \in DOMAIN c /\ Row(c[f].parent, rows, sub) = c[f].value)

HiddenHeld(c, rows, sub) == {f \in DOMAIN c : Row(f, rows, sub) # None /\ ~Shown(c, f, rows, sub)}

(* A ticket filed under a form, with what was filled in under it and, since a  *)
(* change of form takes nothing away, under others before.                     *)
Init ==
    /\ def = [f \in Fields |-> [required |-> TRUE, withheld |-> FALSE, applies |-> TRUE]]
    /\ option = [v \in Values |-> "listed"]
    /\ entries = FirstEntries
    /\ active = Forms
    /\ lock = [k \in Forms |-> None]
    /\ held \in [Fields \ {Source} -> Values \cup {None}]
    /\ ticket \in [form : Forms, category : {None}, sub : Values \cup {None}, by : {"none"}, solved : {FALSE}]
    /\ pc = [h \in Handlers |-> "idle"] /\ job = [h \in Handlers |-> NoJob]
    /\ disturbed = {} /\ acts = 0

Act == acts < MaxActs /\ acts' = acts + 1

Goto(h, l, j) == pc' = [pc EXCEPT ![h] = l] /\ job' = [job EXCEPT ![h] = j]
Finish(h)     == Goto(h, "idle", NoJob) /\ disturbed' = disturbed \ {h}

(* The call writes, and so do the others notice, later.                        *)
Busy == {h \in Handlers : pc[h] # "idle"}
Wrote(h) == Goto(h, "idle", NoJob) /\ disturbed' = (disturbed \cup Busy) \ {h}
WroteAlone == disturbed' = disturbed \cup Busy /\ UNCHANGED <<pc, job>>

Begin(h, l, j) ==
    /\ pc[h] = "idle" /\ Act
    /\ Goto(h, l, [j EXCEPT !.form = ticket.form, !.sub = ticket.sub])
    /\ UNCHANGED <<authored, answers, disturbed>>

----------------------------------------------------------------------------
(* SetConversationFieldValue.  Next is None when the value is cleared.         *)

SetFieldValue(h, f, next, sees) ==
    Begin(h, "form", [NoJob EXCEPT !.op = "value", !.field = f, !.value = next, !.sees = sees])

(* A variant with a bug: a field that is not on the ticket's form is accepted. *)
MayFillAny(h, f) == def[f].applies /\ (def[f].withheld => job[h].sees) /\ job[h].form # None

(* The field must be known to the caller and on the ticket's form.             *)
MayFill(h, f) ==
    /\ def[f].applies /\ (def[f].withheld => job[h].sees)
    /\ job[h].form # None /\ f \in DOMAIN entries[job[h].form]

FindEntry(h) ==
    /\ pc[h] = "form" /\ job[h].op = "value"
    /\ IF MayFill(h, job[h].field)
       THEN Goto(h, "values", [job[h] EXCEPT !.entries = entries[job[h].form]]) /\ UNCHANGED disturbed
       ELSE Finish(h)
    /\ UNCHANGED <<authored, answers, acts>>

(* What has its value already is answered, and nothing is written.             *)
Decide(h, j) ==
    IF Row(j.field, j.held, j.sub) = j.value
    THEN Finish(h)
    ELSE Goto(h, "commit", j) /\ UNCHANGED disturbed

ReadValues(h) ==
    /\ pc[h] = "values" /\ job[h].op = "value"
    /\ LET j == [job[h] EXCEPT !.held = held]
       IN  IF ~Shown(j.entries, j.field, held, j.sub) THEN Finish(h)
           ELSE IF j.field \in Dropdowns /\ j.value # None THEN Goto(h, "option", j) /\ UNCHANGED disturbed
           ELSE Decide(h, j)
    /\ UNCHANGED <<authored, answers, acts>>

CheckOption(h) ==
    /\ pc[h] = "option"
    /\ IF option[job[h].value] = "listed" THEN Decide(h, job[h]) ELSE Finish(h)
    /\ UNCHANGED <<authored, answers, acts>>

(* A variant with a bug: only the entries right below lose their values.       *)
DoomedNextTo(j) ==
    {g \in Children(j.entries, j.field) :
        j.entries[g].value # j.value /\ Row(g, j.held, j.sub) # None}

(* collect: below an entry whose condition no longer holds everything that has *)
(* a value loses it; below one that is still shown nothing does.               *)
Doomed(j) ==
    LET shut == {g \in Children(j.entries, j.field) : j.entries[g].value # j.value}
    IN  {g \in UNION {Below(j.entries)[s] : s \in shut} : Row(g, j.held, j.sub) # None}

(* The value and the cascade in one transaction, whatever the rows are now.    *)
CommitValue(h) ==
    LET j == job[h]
        gone == Doomed(j)
        After(f, old) == IF f = j.field THEN j.value ELSE IF f \in gone THEN None ELSE old
    IN  /\ pc[h] = "commit"
        /\ held' = [f \in Fields \ {Source} |-> After(f, held[f])]
        /\ ticket' = [ticket EXCEPT !.sub = After(Source, @),
                                    !.by = IF Source \in gone \cup {j.field} THEN "human" ELSE @]
        /\ Wrote(h)
        /\ UNCHANGED <<authored, acts>>

----------------------------------------------------------------------------
(* SetConversationForm.  The values that were filled in stay.                  *)

SetConversationForm(h, k) ==
    /\ ticket.form # k
    /\ Begin(h, IF k = None THEN "file" ELSE "choose", [NoJob EXCEPT !.op = "form", !.value = k])

FindForm(h) ==
    /\ pc[h] = "choose"
    /\ IF job[h].value \in active THEN Goto(h, "file", job[h]) /\ UNCHANGED disturbed ELSE Finish(h)
    /\ UNCHANGED <<authored, answers, acts>>

(* A form with a category files the ticket, and a person said so.              *)
FileTicket(h) ==
    LET k == job[h].value
        filed == k # None /\ CategoryOf[k] # None
    IN  /\ pc[h] = "file"
        /\ ticket' = [ticket EXCEPT !.form = k,
                                    !.category = IF filed THEN CategoryOf[k] ELSE @,
                                    !.by = IF filed THEN "human" ELSE @]
        /\ Wrote(h)
        /\ UNCHANGED <<authored, held, acts>>

----------------------------------------------------------------------------
(* SetConversationStatus, to a terminal status and back.                       *)

Solve(h, sees) == Begin(h, "form", [NoJob EXCEPT !.op = "solve", !.sees = sees])

(* missingRequiredForSolve: a field gates that is required and that the caller *)
(* can see.                                                                    *)
Gates(f, sees) == def[f].required /\ def[f].applies /\ (def[f].withheld => sees)

(* A variant with a bug: the values are looked for in the rows alone.          *)
MissingRows(c, needed, rows, sub) ==
    {f \in needed \ {Source} : Shown(c, f, rows, sub) /\ rows[f] = None}

Missing(c, needed, rows, sub) ==
    {f \in needed : Shown(c, f, rows, sub) /\ Row(f, rows, sub) = None}

FindRequired(h) ==
    /\ pc[h] = "form" /\ job[h].op = "solve"
    /\ LET k == job[h].form
       IN  IF k = None
           THEN Goto(h, "solve", job[h])
           ELSE Goto(h, "values", [job[h] EXCEPT !.entries = entries[k],
                                       !.needed = {f \in DOMAIN entries[k] : Gates(f, job[h].sees)}])
    /\ UNCHANGED <<authored, answers, disturbed, acts>>

CheckRequired(h) ==
    /\ pc[h] = "values" /\ job[h].op = "solve"
    /\ IF Missing(job[h].entries, job[h].needed, held, job[h].sub) = {}
       THEN Goto(h, "solve", job[h]) /\ UNCHANGED disturbed
       ELSE Finish(h)
    /\ UNCHANGED <<authored, answers, acts>>

SetStatus(h) ==
    /\ pc[h] = "solve"
    /\ ticket' = [ticket EXCEPT !.solved = TRUE]
    /\ Finish(h)
    /\ UNCHANGED <<authored, held, acts>>

Reopen ==
    /\ ticket.solved /\ Act
    /\ ticket' = [ticket EXCEPT !.solved = FALSE]
    /\ UNCHANGED <<authored, held, pc, job, disturbed>>

----------------------------------------------------------------------------
(* Macros and rules: one batch, which knows neither gate nor cascade.          *)

(* classificationLock: whom a classification of the ticket is open to.         *)
Unlocked(by) == by = "human" \/ ticket.by # "human"

ApplyStatus ==
    /\ Act
    /\ ticket' = [ticket EXCEPT !.solved = TRUE]
    /\ UNCHANGED <<authored, held, pc, job, disturbed>>

ApplyCategory(by, k) ==
    /\ Act /\ CategoryOf[k] # None /\ Unlocked(by)
    /\ ticket' = [ticket EXCEPT !.category = CategoryOf[k], !.by = by]
    /\ UNCHANGED <<authored, held, pc, job, disturbed>>

ApplySubCategory(by, v) ==
    /\ Act /\ Unlocked(by)
    /\ ticket' = [ticket EXCEPT !.sub = v, !.by = by]
    /\ WroteAlone
    /\ UNCHANGED <<authored, held>>

----------------------------------------------------------------------------
(* Authoring.                                                                  *)

(* upsertForm with entries: they are validated, and then replaced in one       *)
(* transaction, which updates the row of the form first.                       *)
UpsertForm(h, k, c) ==
    /\ Accepted(c)
    /\ Begin(h, "update", [NoJob EXCEPT !.op = "compose", !.value = k, !.entries = c])

(* A variant with a bug: the entries go first, and the form's row after them.  *)
UpdateFormLast(h) ==
    /\ pc[h] = "update"
    /\ Goto(h, "clear", job[h])
    /\ UNCHANGED <<authored, answers, disturbed, acts>>

UpdateForm(h) ==
    /\ pc[h] = "update" /\ lock[job[h].value] = None
    /\ lock' = [lock EXCEPT ![job[h].value] = h]
    /\ Goto(h, "clear", job[h])
    /\ UNCHANGED <<def, option, entries, active, answers, disturbed, acts>>

(* deleteMany: the entries that are there when it begins.                      *)
ClearEntries(h) ==
    /\ pc[h] = "clear"
    /\ Goto(h, "fill", [job[h] EXCEPT !.held = entries[job[h].value]])
    /\ UNCHANGED <<authored, answers, disturbed, acts>>

Unlock(h) == lock' = [k \in Forms |-> IF lock[k] = h THEN None ELSE lock[k]]

(* createMany and the commit.  A form has a field once.                        *)
FillEntries(h) ==
    LET k    == job[h].value
        new  == job[h].entries
        left == {f \in DOMAIN entries[k] : f \notin DOMAIN job[h].held \/ entries[k][f] # job[h].held[f]}
    IN  /\ pc[h] = "fill"
        /\ IF left \cap DOMAIN new = {}
           THEN /\ entries' = [entries EXCEPT ![k] =
                       [f \in left \cup DOMAIN new |-> IF f \in left THEN @[f] ELSE new[f]]]
                /\ Wrote(h)
           ELSE UNCHANGED entries /\ Finish(h)
        /\ Unlock(h)
        /\ UNCHANGED <<def, option, active, answers, acts>>

(* upsertForm without entries: archived, or brought back.                      *)
ArchiveForm(k) ==
    /\ Act /\ lock[k] = None
    /\ active' = IF k \in active THEN active \ {k} ELSE active \cup {k}
    /\ WroteAlone
    /\ UNCHANGED <<def, option, entries, lock, answers>>

UpsertField(f, flag) ==
    /\ Act
    /\ def' = [def EXCEPT ![f][flag] = ~@]
    /\ WroteAlone
    /\ UNCHANGED <<option, entries, active, lock, answers>>

(* upsertOptionSet, one value at a time: switched, or added again ...          *)
SwitchOption(v, to) ==
    /\ Act /\ option[v] # to
    /\ option' = [option EXCEPT ![v] = to]
    /\ WroteAlone
    /\ UNCHANGED <<def, entries, active, lock, answers>>

(* ... or removed, when no row holds it.                                       *)
Unused(v) == option[v] # "absent" /\ \A f \in Dropdowns \ {Source} : held[f] # v

FindUse(h, v) == Unused(v) /\ Begin(h, "remove", [NoJob EXCEPT !.op = "option", !.value = v])

RemoveOption(h) ==
    LET v == job[h].value
    IN  /\ pc[h] = "remove"
        /\ option' = [option EXCEPT ![v] = "absent"]
        /\ Wrote(h)
        /\ UNCHANGED <<def, entries, active, lock, answers, acts>>

----------------------------------------------------------------------------
(* A statement fails, or the process dies: what was not committed is undone.   *)
Abandon(h) ==
    /\ pc[h] # "idle" /\ Finish(h) /\ Unlock(h)
    /\ UNCHANGED <<def, option, entries, active, answers, acts>>

Handle(h) ==
    \/ FindEntry(h) \/ ReadValues(h) \/ CheckOption(h) \/ CommitValue(h)
    \/ FindForm(h) \/ FileTicket(h)
    \/ FindRequired(h) \/ CheckRequired(h) \/ SetStatus(h)
    \/ UpdateForm(h) \/ ClearEntries(h) \/ FillEntries(h) \/ RemoveOption(h)

Next ==
    \/ \E h \in Handlers :
          \/ Handle(h) \/ Abandon(h)
          \/ \E f \in Fields, next \in Values \cup {None}, sees \in BOOLEAN : SetFieldValue(h, f, next, sees)
          \/ \E k \in Forms \cup {None} : SetConversationForm(h, k)
          \/ \E sees \in BOOLEAN : Solve(h, sees)
          \/ \E k \in Forms, c \in Compositions : UpsertForm(h, k, c)
          \/ \E v \in Values : FindUse(h, v)
    \/ Reopen \/ ApplyStatus
    \/ \E by \in {"human", "ai"} :
          \/ \E k \in Forms : ApplyCategory(by, k)
          \/ \E v \in Values : ApplySubCategory(by, v)
    \/ \E k \in Forms : ArchiveForm(k)
    \/ \E f \in Fields, flag \in {"required", "withheld", "applies"} : UpsertField(f, flag)
    \/ \E v \in Values, to \in {"listed", "retired"} : SwitchOption(v, to)

Spec == Init /\ [][Next]_vars

----------------------------------------------------------------------------
TypeOK ==
    /\ def \in [Fields -> [required : BOOLEAN, withheld : BOOLEAN, applies : BOOLEAN]]
    /\ option \in [Values -> {"listed", "retired", "absent"}]
    /\ active \subseteq Forms /\ lock \in [Forms -> Handlers \cup {None}]
    /\ ticket.form \in Forms \cup {None} /\ ticket.sub \in Values \cup {None}
    /\ ticket.by \in {"none", "human", "ai"} /\ ticket.solved \in BOOLEAN
    /\ held \in [Fields \ {Source} -> Values \cup {None}]
    /\ \A h \in Handlers :
          /\ pc[h] \in {"idle", "form", "values", "option", "commit", "choose", "file", "solve",
                        "update", "clear", "fill", "remove"}
          /\ pc[h] \in {"values", "option", "commit"} /\ job[h].op = "value"
                => job[h].field \in DOMAIN job[h].entries
          /\ pc[h] \in {"clear", "fill"} => \A g \in Handlers \ {h} : lock[job[h].value] # g
    /\ disturbed \subseteq Busy /\ acts \in 0..MaxActs

(* "A form save replaces its entries atomically" (chats README.md:826), also   *)
(* when two administrators save the same form: its entries are what one of     *)
(* them sent, and never the one's beside the other's, whose conditions may     *)
(* come round or lead nowhere together although each was validated alone.      *)
Composed ==
    \A k \in Forms : entries[k] \in Compositions /\ Accepted(entries[k])

(* "A parent change clears every dependent whose condition no longer holds,    *)
(* RECURSIVELY, in the same transaction" (fields.repository.ts:798): a call    *)
(* that nothing overlapped leaves no value behind an entry that it hid.        *)
NothingHidden ==
    [][\A h \in Handlers :
          pc[h] = "commit" /\ pc'[h] = "idle" /\ answers' # answers /\ h \notin disturbed =>
              LET c == entries[ticket.form]
              IN  HiddenHeld(c, held', ticket'.sub) \subseteq HiddenHeld(c, held, ticket.sub)]_vars

(* "A transition into a terminal category is refused ... while a required,     *)
(* visible-to-the-actor field of the conversation's form is empty" (chats      *)
(* README.md:822): whoever passes the gate has filled in what they can see,    *)
(* unless somebody wrote while they were passing.                              *)
SolvedComplete ==
    [][\A h \in Handlers :
          pc[h] = "solve" /\ ticket'.solved # ticket.solved /\ pc'[h] = "idle"
              /\ h \notin disturbed /\ ticket.form # None =>
              LET c == entries[ticket.form]
              IN  \A f \in DOMAIN c :
                     Gates(f, job[h].sees) /\ Shown(c, f, held, ticket.sub)
                         => Row(f, held, ticket.sub) # None]_vars

=============================================================================
