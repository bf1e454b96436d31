------------------------------ MODULE Exports -------------------------------
(* Exports: the request and the runner (chats, export/), the storing and the   *)
(* purging of the file (users, uploads/), and the worker's two ticks.          *)
(*                                                                             *)
(* Three databases take part and no transaction spans two of them: the export  *)
(* job with its audit entry (chats), the upload row (users), and the object    *)
(* store.  A runner pass is one RunDueExports call; passes overlap, because    *)
(* every replica of the worker ticks and a call that is cut off runs on.       *)
(*                                                                             *)
(* Time is what has come to pass: a claim goes stale, an expiry goes by, a     *)
(* request leaves the quota's window.  A claim carries the instant its pass    *)
(* began, so it may be stale as soon as it is taken.  One requester is         *)
(* modelled; filters, names and bytes are not.                                 *)
EXTENDS Integers, FiniteSets, FiniteSetsExt

CONSTANTS
    Jobs,        \* bound: the requests that can be accepted, numbered as they are created
    Requests,    \* calls of CreateExport that may be under way together
    Passes,      \* calls of RunDueExports that may be under way together
    Limit,       \* EXPORT_RUN_BATCH
    QuotaMax,    \* exports a requester may ask for in a window
    MaxFaults    \* bound: failing calls and crashes in one behaviour

ASSUME ExportsAssumption ==
    /\ Jobs \subseteq Nat /\ IsFiniteSet(Jobs)
    /\ IsFiniteSet(Requests) /\ IsFiniteSet(Passes)
    /\ Limit \in Nat \ {0} /\ QuotaMax \in Nat \ {0} /\ MaxFaults \in Nat

(* The file a pass stores for a job.                                           *)
Uploads  == Jobs \X Passes
NoUpload == <<>>

VARIABLES
    asking,     \* where each request stands
    job,        \* the ExportJob table
    windowed,   \* the jobs created inside the quota's window
    stale,      \* the running jobs whose claim is older than STALE_CLAIM_MS
    past,       \* the jobs past their expires_at
    old,        \* the uploads past theirs
    audited,    \* the `export.create` entries of each job
    objects,    \* the object store
    listed,     \* the Upload table
    pc,         \* where each pass stands
    at,         \* what it holds
    stray,      \* history: objects whose row could not be written, nor they removed
    faults

vars  == <<asking, job, windowed, stale, past, old, audited, objects, listed, pc, at, stray, faults>>
chats == <<asking, job, windowed, stale, audited>>
users == <<objects, listed, stray>>

Statuses == {"none", "queued", "running", "ready", "failed", "expired"}
Row      == [status : Statuses, reason : {"none", "interrupted", "other"},
             upload : Uploads \cup {NoUpload}]

NoRow == [status |-> "none", reason |-> "none", upload |-> NoUpload]
NoJob == [due |-> {}, ran |-> {}, job |-> 0]

Init ==
    /\ asking = [r \in Requests |-> "idle"]
    /\ job = [j \in Jobs |-> NoRow]
    /\ windowed = {} /\ stale = {} /\ past = {} /\ old = {}
    /\ audited = [j \in Jobs |-> 0]
    /\ objects = {} /\ listed = {} /\ stray = {}
    /\ pc = [p \in Passes |-> "idle"]
    /\ at = [p \in Passes |-> NoJob]
    /\ faults = 0

In(s) == {j \in Jobs : job[j].status = s}

Fault == faults < MaxFaults /\ faults' = faults + 1

Goto(p, l) == pc' = [pc EXCEPT ![p] = l] /\ UNCHANGED at

Upload(p) == <<at[p].job, p>>

(* A variant with a bug: the loop runs once past the end of the batch.         *)
ProceedPastEnd(p) ==
    LET left == at[p].due
    IN  /\ pc' = [pc EXCEPT ![p] = "take"]
        /\ at' = [at EXCEPT ![p].job = IF left = {} THEN 0 ELSE Min(left),
                            ![p].due = {k \in left : k > Min(left)}]

(* A pass is done with one job and takes up the next, the oldest first.        *)
Proceed(p) ==
    LET left == at[p].due
    IN  \/ left = {} /\ pc' = [pc EXCEPT ![p] = "idle"] /\ at' = [at EXCEPT ![p] = NoJob]
        \/ /\ left # {}
           /\ pc' = [pc EXCEPT ![p] = "take"]
           /\ at' = [at EXCEPT ![p].job = Min(left), ![p].due = left \ {Min(left)}]

----------------------------------------------------------------------------
(* The request.                                                                *)

(* ExportQuota.assertWithinQuota: a count, and nothing holds it.               *)
Count(r) ==
    /\ asking[r] = "idle" /\ In("none") # {}
    /\ Cardinality(windowed) < QuotaMax
    /\ asking' = [asking EXCEPT ![r] = "insert"]
    /\ UNCHANGED <<job, windowed, stale, past, old, audited, users, pc, at, faults>>

(* ExportRepository.create.                                                    *)
Insert(r) ==
    /\ asking[r] = "insert"
    /\ asking' = [asking EXCEPT ![r] = "idle"]
    /\ \/ In("none") = {} /\ UNCHANGED <<job, windowed>>
       \/ /\ In("none") # {}
          /\ LET j == Min(In("none"))
             IN  /\ job' = [job EXCEPT ![j].status = "queued"]
                 /\ windowed' = windowed \cup {j}
    /\ UNCHANGED <<stale, past, old, audited, users, pc, at, faults>>

----------------------------------------------------------------------------
(* The runner: ExportMaintenance.runDueExports and ExportService.run.          *)

(* findDue: a snapshot, the oldest Limit of what waits and what has gone stale.*)
Due == In("queued") \cup (In("running") \cap stale)

Tick(p) ==
    /\ pc[p] = "idle" /\ Due # {}
    /\ LET batch == {j \in Due : Cardinality({k \in Due : k <= j}) <= Limit}
       IN  /\ pc' = [pc EXCEPT ![p] = "take"]
           /\ at' = [at EXCEPT ![p] = [due |-> batch \ {Min(batch)},
                                       ran |-> batch \cap In("running"),
                                       job |-> Min(batch)]]
    /\ UNCHANGED <<chats, past, old, users, faults>>

(* ExportRepository.fail and recoverStale: only a running job fails.           *)
FailRunning(j, reason) ==
    /\ job' = IF job[j].status = "running"
              THEN [job EXCEPT ![j].status = "failed", ![j].reason = reason]
              ELSE job
    /\ stale' = stale \ {j}

(* A job the snapshot holds as running is recovered.                           *)
Recover(p) ==
    /\ pc[p] = "take" /\ at[p].job \in at[p].ran
    /\ FailRunning(at[p].job, "interrupted")
    /\ Proceed(p)
    /\ UNCHANGED <<asking, windowed, past, old, audited, users, faults>>

(* ExportRepository.claim: queued -> running, for one pass only.               *)
Claimable(j) == job[j].status = "queued"

Claim(p) ==
    LET j == at[p].job
    IN  /\ pc[p] = "take" /\ j \notin at[p].ran
        /\ \/ /\ Claimable(j)
              /\ job' = [job EXCEPT ![j].status = "running"]
              /\ Goto(p, "produce")
           \/ ~Claimable(j) /\ Proceed(p) /\ UNCHANGED job
        /\ UNCHANGED <<asking, windowed, stale, past, old, audited, users, faults>>

(* The scope, the requester's authority as it is now, the rows and both caps:  *)
(* each of them may end the export.                                            *)
Produce(p) ==
    /\ pc[p] = "produce"
    /\ \/ Goto(p, "put")
       \/ Goto(p, "fail")
    /\ UNCHANGED <<chats, past, old, users, faults>>

(* UploadsRepository.create: the object first, or the store refuses it.        *)
Put(p) ==
    /\ pc[p] = "put"
    /\ \/ Goto(p, "row") /\ objects' = objects \cup {Upload(p)}
       \/ Goto(p, "fail") /\ UNCHANGED objects
    /\ UNCHANGED <<chats, past, old, listed, stray, faults>>

(* Then its row, whose expires_at is counted from now.  The answer may be lost;*)
(* the insert may fail, and then the object is taken away again if it can be.  *)
WriteRow(p) ==
    /\ pc[p] = "row"
    /\ \/ /\ listed' = listed \cup {Upload(p)}
          /\ \/ Goto(p, "record") /\ UNCHANGED faults
             \/ Goto(p, "fail") /\ Fault
          /\ UNCHANGED <<objects, stray>>
       \/ /\ Fault /\ Goto(p, "fail")
          /\ \/ objects' = objects \ {Upload(p)} /\ UNCHANGED stray
             \/ stray' = stray \cup {Upload(p)} /\ UNCHANGED objects
          /\ UNCHANGED listed
    /\ UNCHANGED <<chats, past, old>>

(* A variant with a bug: whatever the job has become.                          *)
CompleteAny(j, u) ==
    /\ job' = [job EXCEPT ![j].status = "ready", ![j].upload = u]
    /\ stale' = stale \ {j}

(* completeStatement: only a running job becomes ready.                        *)
Complete(j, u) ==
    /\ job' = IF job[j].status = "running"
              THEN [job EXCEPT ![j].status = "ready", ![j].upload = u]
              ELSE job
    /\ stale' = stale \ {j}

(* A variant with a bug: the entry is a statement after the transaction.       *)
RecordApart(p) ==
    /\ pc[p] = "record"
    /\ Complete(at[p].job, Upload(p))
    /\ \/ /\ audited' = [audited EXCEPT ![at[p].job] = @ + 1]
          /\ Proceed(p) /\ UNCHANGED faults
       \/ Goto(p, "fail") /\ Fault /\ UNCHANGED audited
    /\ UNCHANGED <<asking, windowed, past, old, users>>

(* The one transaction: the job and its audit entry.  It may fail, and its     *)
(* answer may be lost after it committed.                                      *)
Record(p) ==
    /\ pc[p] = "record"
    /\ \/ /\ Complete(at[p].job, Upload(p))
          /\ audited' = [audited EXCEPT ![at[p].job] = @ + 1]
          /\ \/ Proceed(p) /\ UNCHANGED faults
             \/ Goto(p, "fail") /\ Fault
       \/ Goto(p, "fail") /\ Fault /\ UNCHANGED <<job, stale, audited>>
    /\ UNCHANGED <<asking, windowed, past, old, users>>

(* The failure is written, or writing it fails too and the pass goes on.       *)
Fail(p) ==
    /\ pc[p] = "fail"
    /\ \/ FailRunning(at[p].job, "other") /\ UNCHANGED faults
       \/ Fault /\ UNCHANGED <<job, stale>>
    /\ Proceed(p)
    /\ UNCHANGED <<asking, windowed, past, old, audited, users>>

(* A statement outside `run` throws, or the process dies: the pass is over.    *)
Die(p) ==
    /\ pc[p] \notin {"idle", "row"}
    /\ Fault
    /\ pc' = [pc EXCEPT ![p] = "idle"] /\ at' = [at EXCEPT ![p] = NoJob]
    /\ UNCHANGED <<chats, past, old, users>>

----------------------------------------------------------------------------
(* The expiry tick.  Its two halves do not wait for one another, and each finds *)
(* its rows by a predicate that only they leave.                               *)

(* expireDueExports.                                                           *)
ExpireRecord(j) ==
    /\ job[j].status = "ready" /\ j \in past
    /\ job' = [job EXCEPT ![j].status = "expired", ![j].upload = NoUpload]
    /\ UNCHANGED <<asking, windowed, stale, past, old, audited, users, pc, at, faults>>

(* A variant with a bug: only the file of an expired export.                   *)
PurgeableExpired(u) == u \in listed /\ u \in old /\ job[u[1]].status = "expired"

(* findExpired: what is past its expires_at.                                   *)
Purgeable(u) == u \in listed /\ u \in old

(* purge: the object, if it is there, and then the row.                        *)
PurgeObject(u) ==
    /\ Purgeable(u) /\ u \in objects
    /\ objects' = objects \ {u}
    /\ UNCHANGED <<chats, past, old, listed, stray, pc, at, faults>>

(* A variant with a bug: the row does not wait for the object.                 *)
PurgeRowFirst(u) ==
    /\ Purgeable(u)
    /\ listed' = listed \ {u}
    /\ UNCHANGED <<chats, past, old, objects, stray, pc, at, faults>>

PurgeRow(u) ==
    /\ Purgeable(u) /\ u \notin objects
    /\ listed' = listed \ {u}
    /\ UNCHANGED <<chats, past, old, objects, stray, pc, at, faults>>

----------------------------------------------------------------------------
(* Time.                                                                       *)
GoStale(j) ==
    /\ job[j].status = "running" /\ j \notin stale
    /\ stale' = stale \cup {j}
    /\ UNCHANGED <<asking, job, windowed, past, old, audited, users, pc, at, faults>>

(* A job's time is counted from its request and a file's from its storing, by  *)
(* the same TTL: the file's is over later.  It is days; a run takes minutes.   *)
GoPast ==
    /\ \/ \E j \in In("ready") \cup In("failed") :
             j \notin past /\ past' = past \cup {j} /\ UNCHANGED old
       \/ \E u \in listed :
             u \notin old /\ u[1] \in past /\ old' = old \cup {u} /\ UNCHANGED past
    /\ UNCHANGED <<chats, users, pc, at, faults>>

(* The quota's window is as long, and slides over settled jobs only.           *)
SlideWindow ==
    /\ windowed # {} /\ Min(windowed) \notin In("queued") \cup In("running")
    /\ windowed' = windowed \ {Min(windowed)}
    /\ UNCHANGED <<asking, job, stale, past, old, audited, users, pc, at, faults>>

----------------------------------------------------------------------------
Work(p) ==
    \/ Tick(p) \/ Recover(p) \/ Claim(p) \/ Produce(p)
    \/ Put(p) \/ WriteRow(p) \/ Record(p) \/ Fail(p)

Next ==
    \/ \E r \in Requests : Count(r) \/ Insert(r)
    \/ \E p \in Passes : Work(p) \/ Die(p)
    \/ \E j \in Jobs : ExpireRecord(j) \/ GoStale(j)
    \/ \E u \in Uploads : PurgeObject(u) \/ PurgeRow(u)
    \/ GoPast \/ SlideWindow

(* The ticks come round and what was started is worked off; a producer cannot  *)
(* keep its claim fresh; time passes; the object store answers in the end.     *)
Fairness ==
    /\ \A p \in Passes : WF_vars(Work(p))
    /\ \A j \in Jobs : WF_vars(ExpireRecord(j)) /\ WF_vars(GoStale(j))
    /\ \A u \in Uploads : WF_vars(PurgeObject(u)) /\ WF_vars(PurgeRow(u))
    /\ WF_vars(GoPast)

Spec == Init /\ [][Next]_vars /\ Fairness


----------------------------------------------------------------------------
TypeOK ==
    /\ asking \in [Requests -> {"idle", "insert"}]
    /\ job \in [Jobs -> Row]
    /\ windowed \subseteq Jobs /\ stale \subseteq Jobs
    /\ past \subseteq Jobs /\ old \subseteq Uploads
    /\ audited \in [Jobs -> Nat]
    /\ objects \subseteq Uploads /\ listed \subseteq Uploads /\ stray \subseteq Uploads
    /\ pc \in [Passes -> {"idle", "take", "produce", "put", "row", "record", "fail"}]
    /\ \A p \in Passes :
          /\ at[p].due \subseteq Jobs /\ at[p].ran \subseteq Jobs
          /\ pc[p] # "idle" => at[p].job \in Jobs
    /\ faults \in 0..MaxFaults

(* FR-020 (export.service.ts:161): an export is never offered without its      *)
(* audit entry, whatever fails and whoever recovers the job meanwhile, and     *)
(* never has two.  An entry for an export nobody was given exists only when    *)
(* the job was taken for dead while its runner was still at work.              *)
Recorded ==
    \A j \in Jobs :
        /\ job[j].status \in {"ready", "expired"} => audited[j] = 1
        /\ audited[j] > 0 /\ job[j].status \notin {"ready", "expired"}
              => job[j].status = "failed" /\ job[j].reason = "interrupted"

(* Rows and bytes agree, whatever the expiry ticks and a late runner do: an    *)
(* export that is offered and whose time is not over can be downloaded, and    *)
(* personal data does not stay behind unseen - bytes without a row, which no   *)
(* sweep would find, are being stored right now or could not be removed.       *)
BytesMatchRows ==
    /\ \A j \in Jobs : job[j].status = "ready" /\ j \notin past =>
          job[j].upload \in listed \cap objects
    /\ \A u \in objects \ listed :
          u \in stray \/ \E p \in Passes : pc[p] = "row" /\ Upload(p) = u

(* What the requester sees of a job.                                           *)
Phase(status) ==
    CASE status = "none"                  -> "unasked"
      [] status \in {"queued", "running"} -> "pending"
      [] status = "ready"                 -> "offered"
      [] status = "failed"                -> "refused"
      [] status = "expired"               -> "gone"

Promise == INSTANCE ExportPromise WITH phase <- [j \in Jobs |-> Phase(job[j].status)]

(* The runner and its recovery keep the promise: every request is answered,    *)
(* once; a late runner never revives what was refused; an expiry follows.      *)
KeepsPromise == Promise!Spec

(* What was stored is taken away once its time is over, the uploads of exports *)
(* that failed after storing theirs included.                                  *)
BytesGo == \A u \in Uploads : u \in objects ~> u \notin objects \/ u \in stray
=============================================================================
