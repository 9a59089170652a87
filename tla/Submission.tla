----------------------------- MODULE Submission -----------------------------
(***************************************************************************)
(* How requests become rows and how rows are removed: the submission routes *)
(* of api.py with their idempotency keys, the transactions of storage.py    *)
(* that create tasks and batches and draw deferred seeds from the wall      *)
(* clock, and service.maintain, which deletes old rows, receipts and logs   *)
(* and evicts rows to keep the logs within a disk budget.                   *)
(*                                                                          *)
(* The routes and maintain() do not await: between them only a crash of the *)
(* controller can step in.  A definition marked "Mutant:" is a plausible    *)
(* bug, used only to check that a property notices it.                      *)
(***************************************************************************)
EXTENDS Integers, FiniteSets, Sequences

CONSTANTS
    MaxTask,        \* bound: tasks are numbered 1..MaxTask in creation order
    MaxClock,       \* bound: wall-clock readings
    MaxCrash,       \* bound: crashes of the controller
    Key,            \* idempotency keys
    NoKey,          \* a request without the Idempotency-Key header
    Batches,        \* the lists of drafts that requests expand to
    Legacy,         \* rows left queued by the former starting-time seeds
    RetentionDays,  \* retention.task_days
    Budget          \* logging.task_total_mb, in logs

Task == 1..MaxTask
Draft == {"plain", "seeded", "colliding"}
Route == {"tasks", "batches"}

ASSUME SubmissionAssumption ==
    /\ {MaxTask, MaxClock, MaxCrash, RetentionDays, Budget} \subseteq Nat
    /\ NoKey \notin Key
    /\ Batches \subseteq Seq(Draft)
    /\ Legacy \in 0..MaxTask

VARIABLES
    row,       \* row[t]: "absent", "queued", "ended" or "deleted"
    ended_at,  \* ended_at[t]: wall-clock reading when t ended
    seed,      \* seed[t]: the deferred value of t, 0 for none
    batch,     \* batch[t]: the batch of t, 0 for none
    batches,   \* rows of the batches table
    receipts,  \* rows of the idempotency table
    drawn,     \* metadata: the last value drawn in the seed namespace
    logs,      \* tasks with a log directory
    clock,     \* the wall clock
    up,        \* the controller is running
    job,       \* progress of maintain()
    reply,     \* the last reply to a client
    made,      \* history: submissions carried out per route and key
    excused,   \* history: receipts lost to a crash or to their age
    evicted,   \* history: tasks evicted by the disk budget
    setback,   \* history: the wall clock was set back
    crashes    \* history: crashes

tables == <<row, ended_at, seed, batch, batches, receipts, drawn>>
history == <<made, excused, evicted, setback, crashes>>
vars == <<tables, logs, clock, up, job, reply, history>>

-----------------------------------------------------------------------------
(* Rows                                                                    *)

Rows == {t \in Task : row[t] \in {"queued", "ended"}}
Ended == {t \in Task : row[t] = "ended"}
Unused == {t \in Task : row[t] = "absent"}

\* The slots of a list of n drafts: the next n task numbers.
SlotRank(t) == Cardinality({u \in Unused : u <= t})
Slots(n) == {t \in Unused : SlotRank(t) <= n}

\* A batch is named by its first task.  The batches that a plugin left empty have
\* no task to tell them apart and are one element of the table.
Hollow == MaxTask + 1
BatchName(drafts) == IF drafts = <<>> THEN Hollow ELSE CHOOSE t \in Slots(1) : TRUE

HasRoom(n) == n <= Cardinality(Unused)

Idle == [pc |-> "idle", todo |-> {}]
Serving == up /\ job = Idle

\* Mutant: the seed is the wall clock.
ClockSeed(i) == clock + i - 1

\* _allocate_deferred_locked for the i-th seeded draft of one transaction.
DeferredSeed(i) == (IF clock > drawn THEN clock ELSE drawn + 1) + i - 1

SeededBefore(drafts, i) == Cardinality({j \in 1..i : drafts[j] = "seeded"})
SeedsIn(drafts) == SeededBefore(drafts, Len(drafts))

\* _materialize_draft_locked, for every draft of the transaction.
MaterializedSeed(drafts, i) ==
    IF drafts[i] = "seeded" THEN DeferredSeed(SeededBefore(drafts, i)) ELSE 0

Collides(drafts) == \E i \in DOMAIN drafts : drafts[i] = "colliding"

\* The inserts of one transaction: a row per draft.
Insert(drafts, name) ==
    LET new == Slots(Len(drafts))
    IN /\ row' = [t \in Task |-> IF t \in new THEN "queued" ELSE row[t]]
       /\ seed' = [t \in Task |-> IF t \in new THEN MaterializedSeed(drafts, SlotRank(t))
                                  ELSE seed[t]]
       /\ batch' = [t \in Task |-> IF t \in new THEN name ELSE batch[t]]
       /\ drawn' = IF SeedsIn(drafts) = 0 THEN drawn ELSE DeferredSeed(SeedsIn(drafts))
       /\ UNCHANGED ended_at

Receipt(route, key, tasks) == [route |-> route, key |-> key, tasks |-> tasks, at |-> clock]

\* idempotency_put, only for a request that carries a key.
Stored(route, key, tasks) == IF key = NoKey THEN {} ELSE {Receipt(route, key, tasks)}

ReceiptFor(route, key) == {r \in receipts : r.route = route /\ r.key = key}

Counted(route, key) ==
    IF key = NoKey THEN made ELSE [made EXCEPT ![<<route, key>>] = @ + 1]

\* The transaction is rolled back and the client gets an error.
Refused ==
    /\ reply' = "error"
    /\ UNCHANGED <<tables, logs, clock, up, job, history>>

-----------------------------------------------------------------------------
(* POST /tasks                                                             *)

\* The stored reply is returned as it is; its task is not looked at.
CreateTaskReplay(key) ==
    /\ Serving
    /\ ReceiptFor("tasks", key) # {}
    /\ reply' = "ok"
    /\ UNCHANGED <<tables, logs, clock, up, job, history>>

CreateTask(key, draft) ==
    /\ Serving
    /\ ReceiptFor("tasks", key) = {}
    /\ HasRoom(1)
    /\ \/ Collides(<<draft>>) /\ Refused
       \/ /\ ~Collides(<<draft>>)
          /\ Insert(<<draft>>, 0)
          /\ receipts' = receipts \cup Stored("tasks", key, Slots(1))
          /\ logs' = logs \cup Slots(1)
          /\ reply' = "ok"
          /\ made' = Counted("tasks", key)
          /\ UNCHANGED <<batches, clock, up, job, excused, evicted, setback, crashes>>

\* The controller dies after the task's transaction and before idempotency_put.
CreateTaskTorn(key, draft) ==
    /\ Serving
    /\ crashes < MaxCrash
    /\ ReceiptFor("tasks", key) = {}
    /\ HasRoom(1)
    /\ ~Collides(<<draft>>)
    /\ Insert(<<draft>>, 0)
    /\ \E done \in SUBSET Slots(1) : logs' = logs \cup done
    /\ made' = Counted("tasks", key)
    /\ excused' = IF key = NoKey THEN excused ELSE [excused EXCEPT ![<<"tasks", key>>] = @ + 1]
    /\ crashes' = crashes + 1
    /\ up' = FALSE
    /\ UNCHANGED <<receipts, batches, clock, job, reply, evicted, setback>>

-----------------------------------------------------------------------------
(* POST /batches, /runs and /config/files/.../runs                         *)

\* get_task finds every row of the receipt, or raises KeyError.
Readable(r) == r.tasks \subseteq Rows

\* The receipt is found: its tasks are read, and a deleted one is an error.
CreateBatchReplay(key) ==
    /\ Serving
    /\ \E r \in ReceiptFor("batches", key) : reply' = IF Readable(r) THEN "ok" ELSE "gone"
    /\ UNCHANGED <<tables, logs, clock, up, job, history>>

\* Mutant: the receipt is stored by a statement of its own and may be missing.
CreateBatchLoose(key, drafts) ==
    /\ Serving
    /\ HasRoom(Len(drafts))
    /\ Insert(drafts, BatchName(drafts))
    /\ batches' = batches \cup {BatchName(drafts)}
    /\ receipts' = receipts
    /\ logs' = logs \cup Slots(Len(drafts))
    /\ reply' = "ok"
    /\ made' = Counted("batches", key)
    /\ UNCHANGED <<clock, up, job, excused, evicted, setback, crashes>>

\* Store.create_batch: rows, batch, receipt and events in one transaction.  No
\* drafts make a batch without a task.
InsertBatch(key, drafts) ==
    /\ Insert(drafts, BatchName(drafts))
    /\ batches' = batches \cup {BatchName(drafts)}
    /\ receipts' = receipts \cup Stored("batches", key, Slots(Len(drafts)))
    /\ made' = Counted("batches", key)

\* submit_batch: the transaction, and then the log lines of its tasks, so a crash
\* may leave rows without a log.
CreateBatch(key, drafts) ==
    /\ Serving
    /\ ReceiptFor("batches", key) = {}
    /\ HasRoom(Len(drafts))
    /\ \/ Collides(drafts) /\ Refused
       \/ /\ ~Collides(drafts)
          /\ InsertBatch(key, drafts)
          /\ \/ /\ logs' = logs \cup Slots(Len(drafts))
                /\ reply' = "ok"
                /\ UNCHANGED <<up, crashes>>
             \/ /\ crashes < MaxCrash
                /\ crashes' = crashes + 1
                /\ up' = FALSE
                /\ UNCHANGED <<logs, reply>>
          /\ UNCHANGED <<clock, job, excused, evicted, setback>>

\* POST /templates/{name}/runs: the drafts are submitted one by one, with no key;
\* a draft that is refused leaves the ones before it queued.
RunTemplate(drafts) ==
    /\ Serving
    /\ HasRoom(Len(drafts))
    /\ \E n \in 0..Len(drafts) :
        /\ ~Collides(SubSeq(drafts, 1, n))
        /\ n < Len(drafts) => drafts[n + 1] = "colliding"
        /\ Insert(SubSeq(drafts, 1, n), 0)
        /\ logs' = logs \cup Slots(n)
        /\ reply' = IF n = Len(drafts) THEN "ok" ELSE "error"
    /\ UNCHANGED <<batches, receipts, clock, up, job, history>>

-----------------------------------------------------------------------------
(* maintain()                                                              *)

\* _delete_tasks, called with one row or more: batches without a row go with them.
BatchesLeft(gone) == {b \in batches : \E t \in Rows \ gone : batch[t] = b}

DeleteRows(gone) ==
    /\ row' = [t \in Task |-> IF t \in gone THEN "deleted" ELSE row[t]]
    /\ batch' = [t \in Task |-> IF t \in gone THEN 0 ELSE batch[t]]
    /\ ended_at' = [t \in Task |-> IF t \in gone THEN 0 ELSE ended_at[t]]
    /\ batches' = IF gone = {} THEN batches ELSE BatchesLeft(gone)
    /\ UNCHANGED <<seed, drawn>>

Cutoff == clock - RetentionDays

\* Mutant: receipts are kept for ever.
NoReceiptExpires == {}

ExpiredReceipts == {r \in receipts : r.at < Cutoff}

\* Mutant: the logs of deleted rows are left to the disk budget.
MaintainPurgeRowsOnly ==
    /\ Serving
    /\ DeleteRows({t \in Ended : ended_at[t] < Cutoff})
    /\ job' = [pc |-> "logs", todo |-> {}]
    /\ receipts' = receipts \ ExpiredReceipts
    /\ UNCHANGED <<logs, clock, up, reply, history>>

\* purge_retention: one transaction for rows, events and receipts.
MaintainPurge ==
    /\ Serving
    /\ LET old == {t \in Ended : ended_at[t] < Cutoff}
       IN /\ DeleteRows(old)
          /\ job' = [pc |-> "logs", todo |-> old \cap logs]
    /\ receipts' = receipts \ ExpiredReceipts
    /\ excused' = [rk \in DOMAIN excused |->
                    excused[rk] + Cardinality({r \in ExpiredReceipts : <<r.route, r.key>> = rk})]
    /\ UNCHANGED <<logs, clock, up, reply, made, evicted, setback, crashes>>

\* rmtree of one log directory of a deleted row.
MaintainRemoveLog ==
    /\ up
    /\ job.pc \in {"logs", "evicting"}
    /\ \E t \in job.todo :
        /\ logs' = logs \ {t}
        /\ job' = [job EXCEPT !.todo = @ \ {t}]
    /\ UNCHANGED <<tables, clock, up, reply, history>>

WithinBudget == Cardinality(logs) <= Budget

\* The oldest ended rows that still have a log, in the order (ended_at, id).
Oldest(t) ==
    \A u \in Ended \cap logs : <<ended_at[t], t>> = <<ended_at[u], u>>
                               \/ ended_at[t] < ended_at[u]
                               \/ (ended_at[t] = ended_at[u] /\ t < u)

\* The budget loop: one transaction per evicted row, then its log.
MaintainEvict ==
    /\ up
    /\ job.pc \in {"logs", "evicting"}
    /\ job.todo = {}
    /\ ~WithinBudget
    /\ \E t \in Ended \cap logs :
        /\ Oldest(t)
        /\ DeleteRows({t})
        /\ evicted' = evicted \cup {t}
        /\ job' = [pc |-> "evicting", todo |-> {t}]
    /\ UNCHANGED <<receipts, logs, clock, up, reply, made, excused, setback, crashes>>

MaintainDone ==
    /\ up
    /\ job.pc \in {"logs", "evicting"}
    /\ job.todo = {}
    /\ WithinBudget \/ Ended \cap logs = {}
    /\ job' = Idle
    /\ UNCHANGED <<tables, logs, clock, up, reply, history>>

-----------------------------------------------------------------------------
(* Tasks, the clock and the controller                                     *)

\* Whatever ends a task; a task that ran has a log.
TaskEnds(t) ==
    /\ Serving
    /\ row[t] = "queued"
    /\ row' = [row EXCEPT ![t] = "ended"]
    /\ ended_at' = [ended_at EXCEPT ![t] = clock]
    /\ logs' = logs \cup {t}
    /\ UNCHANGED <<seed, batch, batches, receipts, drawn, clock, up, job, reply, history>>

ClockAdvances ==
    /\ clock < MaxClock
    /\ clock' = clock + 1
    /\ UNCHANGED <<tables, logs, up, job, reply, history>>

\* POST /system/time, or the host, sets the clock back.
ClockSetBack ==
    /\ clock > 0
    /\ ~setback
    /\ clock' = clock - 1
    /\ setback' = TRUE
    /\ UNCHANGED <<tables, logs, up, job, reply, made, excused, evicted, crashes>>

Crash ==
    /\ up
    /\ crashes < MaxCrash
    /\ crashes' = crashes + 1
    /\ up' = FALSE
    /\ job' = Idle
    /\ UNCHANGED <<tables, logs, clock, reply, made, excused, evicted, setback>>

\* The n-th legacy row, in row order.
LegacyRows == {t \in Task : row[t] = "queued" /\ seed[t] = -1}
LegacyRank(t) == Cardinality({u \in LegacyRows : u <= t})

\* Store.__init__ draws a seed for every queued row of the former contract.
Start ==
    /\ ~up
    /\ up' = TRUE
    /\ seed' = [t \in Task |-> IF t \in LegacyRows THEN DeferredSeed(LegacyRank(t)) ELSE seed[t]]
    /\ drawn' = IF LegacyRows = {} THEN drawn ELSE DeferredSeed(Cardinality(LegacyRows))
    /\ UNCHANGED <<row, ended_at, batch, batches, receipts, logs, clock, job, reply, history>>

Init ==
    /\ row = [t \in Task |-> IF t <= Legacy THEN "queued" ELSE "absent"]
    /\ ended_at = [t \in Task |-> 0]
    /\ seed = [t \in Task |-> IF t <= Legacy THEN -1 ELSE 0]
    /\ batch = [t \in Task |-> 0]
    /\ batches = {}
    /\ receipts = {}
    /\ drawn = 0
    /\ logs = 1..Legacy
    /\ clock = 0
    /\ up = FALSE
    /\ job = Idle
    /\ reply = "ok"
    /\ made = [rk \in Route \X Key |-> 0]
    /\ excused = [rk \in Route \X Key |-> 0]
    /\ evicted = {}
    /\ setback = FALSE
    /\ crashes = 0

Next ==
    \/ \E key \in Key \cup {NoKey} :
        \/ CreateTaskReplay(key)
        \/ CreateBatchReplay(key)
        \/ \E draft \in Draft : CreateTask(key, draft) \/ CreateTaskTorn(key, draft)
        \/ \E drafts \in Batches : CreateBatch(key, drafts)
    \/ \E drafts \in Batches : RunTemplate(drafts)
    \/ MaintainPurge
    \/ MaintainRemoveLog
    \/ MaintainEvict
    \/ MaintainDone
    \/ \E t \in Task : TaskEnds(t)
    \/ ClockAdvances
    \/ ClockSetBack
    \/ Crash
    \/ Start

Spec == Init /\ [][Next]_vars

-----------------------------------------------------------------------------
(* Properties                                                              *)

Reply == {"ok", "gone", "error"}

\* The tables, the file system and the maintenance job.
TypeOK ==
    /\ row \in [Task -> {"absent", "queued", "ended", "deleted"}]
    /\ ended_at \in [Task -> 0..MaxClock]
    /\ seed \in [Task -> Int]
    /\ batch \in [Task -> 0..MaxTask]
    /\ batches \subseteq 1..Hollow
    /\ \A r \in receipts : r.route \in Route /\ r.key \in Key /\ r.tasks \subseteq Task
    /\ drawn \in Nat
    /\ logs \subseteq Task
    /\ clock \in 0..MaxClock
    /\ up \in BOOLEAN
    /\ job.pc \in {"idle", "logs", "evicting"} /\ job.todo \subseteq Task
    /\ reply \in Reply

\* An idempotency key is carried out once: more often only after its receipt was
\* deleted for its age, or, for POST /tasks alone, once per crash that fell
\* between the task's transaction and idempotency_put.
OncePerKey ==
    \A rk \in Route \X Key : made[rk] <= 1 + excused[rk]

\* A stored batch receipt can be replayed: its tasks are still there, unless the
\* disk budget evicted one of them or the wall clock was set back; for no other
\* reason is a replay answered with an error.
ReceiptsReadable ==
    /\ \A r \in receipts :
         r.route = "batches" /\ ~setback => r.tasks \subseteq Rows \cup evicted
    /\ reply = "gone" => evicted # {} \/ setback

\* Seeds drawn in one namespace are never given twice, whatever the clock does,
\* and the last one drawn is on record.
SeedsUnique ==
    /\ \A t, u \in Task : t # u /\ seed[t] > 0 => seed[t] # seed[u]
    /\ \A t \in Task : seed[t] <= drawn

\* Every batch of a row is in the batches table, and whenever rows have just been
\* deleted the table holds no batch but those: only a batch that never had a task
\* is without one, until then.
BatchesBacked ==
    LET backed == {batch[t] : t \in {u \in Rows : batch[u] # 0}}
    IN /\ backed \subseteq batches
       /\ job.todo # {} => batches \subseteq backed

\* Deleting goes from the row to the log: an ended row has its log, and a log
\* directory without a row is being removed or was left by a crash.
LogsFollowRows ==
    /\ Ended \subseteq logs
    /\ crashes = 0 => logs \subseteq Rows \cup job.todo

\* Deleting rows leaves nothing behind that refers to them: no batch, and no log
\* directory but after a crash.
NothingDangling == BatchesBacked /\ LogsFollowRows
=============================================================================
