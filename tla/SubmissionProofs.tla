-------------------------- MODULE SubmissionProofs --------------------------
(***************************************************************************)
(* That a key is carried out once, that receipts can be replayed, that no    *)
(* seed is drawn twice and that deleting leaves nothing behind, for any      *)
(* number of rows, keys and crashes, any lists of drafts, any retention and  *)
(* any budget.                                                               *)
(***************************************************************************)
EXTENDS Submission, FiniteSetTheorems, SequenceTheorems, WellFoundedInduction, TLAPS

-----------------------------------------------------------------------------
(* The inductive invariant                                                 *)

RowState == {"absent", "queued", "ended", "deleted"}
ReceiptRow == [route : Route, key : Key, tasks : SUBSET Task, at : Nat]

\* The types that the argument uses.
Typed ==
    /\ row \in [Task -> RowState]
    /\ ended_at \in [Task -> Nat]
    /\ seed \in [Task -> Int]
    /\ drawn \in Nat
    /\ clock \in Nat
    /\ crashes \in Nat
    /\ receipts \subseteq ReceiptRow
    /\ made \in [Route \X Key -> Nat]
    /\ excused \in [Route \X Key -> Nat]

HasReceipt(rk) == \E r \in receipts : <<r.route, r.key>> = rk

\* One receipt per route and key, and one excuse for every submission but the one
\* the receipt stands for.
KeysAccounted ==
    /\ \A r, s \in receipts : r.route = s.route /\ r.key = s.key => r = s
    /\ \A rk \in Route \X Key :
         made[rk] <= excused[rk] + (IF HasReceipt(rk) THEN 1 ELSE 0)

\* While the clock has only gone forward, no receipt is younger than the end of
\* one of its tasks.
ReceiptsOlder ==
    ~setback => \A r \in receipts :
        r.at <= clock /\ \A t \in r.tasks : row[t] = "ended" => r.at <= ended_at[t]

\* A log under removal belongs to a deleted row.
RemovesDeleted == \A t \in job.todo : row[t] = "deleted"

SubmissionInv ==
    /\ Typed
    /\ KeysAccounted
    /\ ReceiptsOlder
    /\ ReceiptsReadable
    /\ SeedsUnique
    /\ RemovesDeleted
    /\ 0 \notin batches
    /\ BatchesBacked
    /\ LogsFollowRows

-----------------------------------------------------------------------------
(* Ranks                                                                   *)

Rank(T, t) == Cardinality({x \in T : x <= t})

\* Ranks in a finite set of numbers go from one to its size and tell its
\* members apart.
LEMMA Ranks ==
    ASSUME NEW n \in Nat, NEW T \in SUBSET (1..n), NEW t \in T
    PROVE  /\ Rank(T, t) \in Nat /\ Rank(T, t) >= 1
           /\ Cardinality(T) \in Nat /\ Rank(T, t) <= Cardinality(T)
           /\ \A u \in 1..n : u < t => Rank(T, u) \in Nat /\ Rank(T, u) < Rank(T, t)
<1>1. IsFiniteSet(1..n) /\ T \subseteq 1..n
  BY FS_Interval
<1>2. IsFiniteSet(T) /\ Cardinality(T) \in Nat
  BY <1>1, FS_Subset, FS_CardinalityType
<1> DEFINE Below(u) == {x \in T : x <= u}
<1>3. ASSUME NEW u PROVE IsFiniteSet(Below(u)) /\ Cardinality(Below(u)) \in Nat
                         /\ Cardinality(Below(u)) <= Cardinality(T)
  <2>1. Below(u) \in SUBSET T
    OBVIOUS
  <2> HIDE DEF Below
  <2> QED
    BY <1>2, <2>1, FS_Subset, FS_CardinalityType
<1>4. ASSUME NEW u \in 1..n, u < t
      PROVE  Cardinality(Below(u)) < Cardinality(Below(t))
  <2>a. t \in Int /\ u \in Int /\ \A x \in T : x \in Int
    BY <1>1
  <2>1. t \notin Below(u) /\ Below(u) \cup {t} \in SUBSET Below(t)
    <3>1. t \notin Below(u) /\ t \in Below(t)
      BY <1>4, <2>a
    <3>2. ASSUME NEW x \in Below(u) PROVE x \in Below(t)
      BY <1>4, <2>a
    <3> QED
      BY <3>1, <3>2
  <2>2. IsFiniteSet(Below(u)) /\ IsFiniteSet(Below(t)) /\ Cardinality(Below(u)) \in Nat
        /\ Cardinality(Below(t)) \in Nat
    BY <1>3
  <2> HIDE DEF Below
  <2>3. Cardinality(Below(u) \cup {t}) = Cardinality(Below(u)) + 1
    BY <2>1, <2>2, FS_AddElement
  <2>4. Cardinality(Below(u) \cup {t}) <= Cardinality(Below(t))
    BY <2>1, <2>2, FS_Subset
  <2> QED
    BY <2>2, <2>3, <2>4
<1>5. Cardinality(Below(t)) >= 1
  <2>1. Below(t) # {}
    BY <1>1
  <2>2. IsFiniteSet(Below(t)) /\ Cardinality(Below(t)) \in Nat
    BY <1>3
  <2> HIDE DEF Below
  <2>3. Cardinality(Below(t)) # 0
    BY <2>1, <2>2, FS_EmptySet
  <2> QED
    BY <2>2, <2>3
<1>6. \A u : Rank(T, u) = Cardinality(Below(u))
  BY DEF Rank
<1> HIDE DEF Below
<1> QED
  BY <1>2, <1>3, <1>4, <1>5, <1>6

\* The seeded drafts of a list are numbered in order.
LEMMA SeededInOrder ==
    ASSUME NEW drafts \in Seq(Draft)
    PROVE  /\ SeedsIn(drafts) \in Nat
           /\ \A j \in 1..Len(drafts) : drafts[j] = "seeded" =>
                /\ SeededBefore(drafts, j) \in 1..SeedsIn(drafts)
                /\ \A i \in 1..Len(drafts) : i < j =>
                     /\ SeededBefore(drafts, i) \in Nat
                     /\ SeededBefore(drafts, i) < SeededBefore(drafts, j)
<1> DEFINE n == Len(drafts)
           T == {j \in 1..n : drafts[j] = "seeded"}
<1>1. n \in Nat /\ T \in SUBSET (1..n)
  OBVIOUS
<1>2. ASSUME NEW i \in 1..n PROVE SeededBefore(drafts, i) = Rank(T, i)
  <2>1. {j \in 1..i : drafts[j] = "seeded"} = {x \in T : x <= i}
    BY <1>1, <1>2
  <2> QED
    BY <2>1 DEF SeededBefore, Rank
<1>3. SeedsIn(drafts) = Cardinality(T)
  BY DEF SeedsIn, SeededBefore
<1>4. IsFiniteSet(T) /\ Cardinality(T) \in Nat
  <2>1. IsFiniteSet(1..n)
    BY <1>1, FS_Interval
  <2> HIDE DEF n, T
  <2> QED
    BY <2>1, <1>1, FS_Subset, FS_CardinalityType
<1>5. ASSUME NEW j \in 1..n, drafts[j] = "seeded"
      PROVE  /\ SeededBefore(drafts, j) \in 1..SeedsIn(drafts)
             /\ \A i \in 1..n : i < j =>
                     /\ SeededBefore(drafts, i) \in Nat
                     /\ SeededBefore(drafts, i) < SeededBefore(drafts, j)
  <2>1. j \in T
    BY <1>5
  <2> HIDE DEF n, T
  <2>2. /\ Rank(T, j) \in Nat /\ Rank(T, j) >= 1 /\ Rank(T, j) <= Cardinality(T)
        /\ \A u \in 1..n : u < j => Rank(T, u) \in Nat /\ Rank(T, u) < Rank(T, j)
    BY <1>1, <2>1, Ranks
  <2> QED
    BY <1>2, <1>3, <1>4, <1>5, <2>2
<1> QED
  BY <1>3, <1>4, <1>5

-----------------------------------------------------------------------------
(* The inserts of one transaction                                          *)

LEMMA SlotsAreNew ==
    ASSUME Typed, NEW n \in Nat, NEW t \in Slots(n)
    PROVE  /\ t \in Task /\ row[t] = "absent"
           /\ SlotRank(t) \in 1..n
           /\ \A u \in Slots(n) : u < t => SlotRank(u) \in 1..n /\ SlotRank(u) < SlotRank(t)
<1>1. MaxTask \in Nat /\ Unused \in SUBSET (1..MaxTask)
  BY SubmissionAssumption DEF Unused, Task
<1>2. \A u : SlotRank(u) = Rank(Unused, u)
  BY DEF SlotRank, Rank
<1>3. ASSUME NEW u \in Slots(n)
      PROVE  u \in 1..MaxTask /\ row[u] = "absent" /\ SlotRank(u) \in 1..n
  <2>1. u \in Unused /\ SlotRank(u) <= n
    BY DEF Slots
  <2>2. Rank(Unused, u) \in Nat /\ Rank(Unused, u) >= 1
    BY <1>1, <2>1, Ranks
  <2> QED
    BY <1>1, <1>2, <2>1, <2>2 DEF Unused
<1>4. \A u \in 1..MaxTask : u < t => Rank(Unused, u) < Rank(Unused, t)
  <2>1. t \in Unused
    BY DEF Slots
  <2> QED
    BY <1>1, <2>1, Ranks
<1> QED
  BY <1>2, <1>3, <1>4 DEF Task

LEMMA DeferredGrows ==
    ASSUME Typed, NEW i \in Nat \ {0}
    PROVE  /\ DeferredSeed(i) \in Nat /\ drawn < DeferredSeed(i)
           /\ \A j \in Nat : i < j => DeferredSeed(i) < DeferredSeed(j)
           /\ \A j \in Nat : i <= j => DeferredSeed(i) <= DeferredSeed(j)
BY DEF Typed, DeferredSeed

\* The rows of the drafts are new and the others stay as they are.
LEMMA InsertRows ==
    ASSUME Typed, NEW n \in Nat, NEW drafts, Len(drafts) = n, NEW name, Insert(drafts, name)
    PROVE  /\ row' \in [Task -> RowState] /\ ended_at' = ended_at
           /\ Rows' = Rows \cup Slots(n) /\ Ended' = Ended
           /\ \A t \in Task : row[t] # "absent" => row'[t] = row[t] /\ batch'[t] = batch[t]
           /\ \A t \in Slots(n) : batch'[t] = name /\ row'[t] = "queued"
<1>1. \A t \in Slots(n) : t \in Task /\ row[t] = "absent"
  BY SlotsAreNew
<1>2. /\ row' = [t \in Task |-> IF t \in Slots(n) THEN "queued" ELSE row[t]]
      /\ batch' = [t \in Task |-> IF t \in Slots(n) THEN name ELSE batch[t]]
      /\ ended_at' = ended_at
  BY DEF Insert
<1>3. row \in [Task -> RowState]
  BY DEF Typed
<1> HIDE DEF Slots
<1> QED
  BY <1>1, <1>2, <1>3 DEF Rows, Ended, RowState

\* The seeds of a list of drafts are new, and recorded.
LEMMA InsertSeeds ==
    ASSUME Typed, SeedsUnique, NEW drafts \in Seq(Draft), NEW name, Insert(drafts, name)
    PROVE  seed' \in [Task -> Int] /\ drawn' \in Nat /\ SeedsUnique'
<1> DEFINE new == Slots(Len(drafts))
           Fresh(t) == /\ t \in new /\ drafts[SlotRank(t)] = "seeded"
           Nth(t) == SeededBefore(drafts, SlotRank(t))
<1>1. /\ Len(drafts) \in Nat
      /\ seed' = [t \in Task |-> IF t \in new THEN MaterializedSeed(drafts, SlotRank(t))
                                 ELSE seed[t]]
      /\ drawn' = IF SeedsIn(drafts) = 0 THEN drawn ELSE DeferredSeed(SeedsIn(drafts))
      /\ drawn \in Nat /\ seed \in [Task -> Int]
  BY DEF Insert, Typed
<1>2. \A t \in new : t \in Task /\ SlotRank(t) \in 1..Len(drafts)
  BY <1>1, SlotsAreNew
<1>3. ASSUME NEW t, Fresh(t)
      PROVE  /\ Nth(t) \in Nat \ {0} /\ SeedsIn(drafts) \in Nat \ {0}
             /\ Nth(t) <= SeedsIn(drafts)
             /\ seed'[t] = DeferredSeed(Nth(t)) /\ seed'[t] \in Nat
             /\ drawn < seed'[t] /\ seed'[t] <= drawn'
  <2>1. SlotRank(t) \in 1..Len(drafts) /\ t \in new /\ t \in Task
    BY <1>2, <1>3
  <2>2. Nth(t) \in 1..SeedsIn(drafts) /\ SeedsIn(drafts) \in Nat
    BY <1>3, <2>1, SeededInOrder
  <2>3. seed'[t] = DeferredSeed(Nth(t))
    BY <1>1, <1>3, <2>1 DEF MaterializedSeed
  <2> HIDE DEF Nth
  <2>4. /\ DeferredSeed(Nth(t)) \in Nat /\ drawn < DeferredSeed(Nth(t))
        /\ DeferredSeed(Nth(t)) <= DeferredSeed(SeedsIn(drafts))
    BY <2>2, DeferredGrows
  <2> QED
    BY <1>1, <2>2, <2>3, <2>4
<1>4. ASSUME NEW t \in Task, ~Fresh(t)
      PROVE  seed'[t] \in Int /\ (seed'[t] = 0 \/ (seed'[t] = seed[t] /\ t \notin new))
  BY <1>1, <1>4 DEF MaterializedSeed
<1>5. drawn' \in Nat /\ drawn <= drawn'
  <2>1. SeedsIn(drafts) \in Nat
    BY SeededInOrder
  <2>2. SeedsIn(drafts) # 0 => DeferredSeed(SeedsIn(drafts)) \in Nat
                               /\ drawn < DeferredSeed(SeedsIn(drafts))
    BY <2>1, DeferredGrows
  <2> QED
    BY <1>1, <2>1, <2>2
<1>6. seed' \in [Task -> Int]
  <2>1. \A t \in Task : seed'[t] \in Int
    BY <1>3, <1>4
  <2>2. seed' = [t \in Task |-> seed'[t]]
    BY <1>1
  <2> QED
    BY <2>1, <2>2
<1>7. \A t \in Task : seed'[t] <= drawn'
  <2> TAKE t \in Task
  <2>1. seed[t] <= drawn /\ seed[t] \in Int /\ drawn \in Nat
    BY <1>1 DEF SeedsUnique
  <2>2. CASE Fresh(t)
    BY <1>3, <2>2
  <2>3. CASE ~Fresh(t)
    <3>1. seed'[t] = 0 \/ seed'[t] = seed[t]
      BY <1>4, <2>3
    <3> QED
      BY <1>5, <2>1, <3>1
  <2> QED
    BY <2>2, <2>3
<1>8. ASSUME NEW t \in Task, NEW u \in Task, t < u, Fresh(t), Fresh(u)
      PROVE  seed'[t] < seed'[u]
  <2>1. SlotRank(t) \in 1..Len(drafts) /\ SlotRank(u) \in 1..Len(drafts)
    BY <1>2, <1>8
  <2>2. SlotRank(t) < SlotRank(u)
    BY <1>1, <1>8, SlotsAreNew
  <2>3. Nth(t) < Nth(u)
    BY <1>8, <2>1, <2>2, SeededInOrder
  <2>4. /\ Nth(t) \in Nat \ {0} /\ Nth(u) \in Nat
        /\ seed'[t] = DeferredSeed(Nth(t)) /\ seed'[u] = DeferredSeed(Nth(u))
    BY <1>3, <1>8
  <2> HIDE DEF Nth
  <2> QED
    BY <2>3, <2>4, DeferredGrows
<1>9. ASSUME NEW t \in Task, NEW u \in Task, t # u, seed'[t] > 0
      PROVE  seed'[t] # seed'[u]
  <2>1. CASE Fresh(t) /\ Fresh(u)
    <3>1. t \in Int /\ u \in Int
      BY DEF Task
    <3>2. seed'[t] \in Nat /\ seed'[u] \in Nat
      BY <1>3, <2>1
    <3> QED
      BY <1>8, <1>9, <2>1, <3>1, <3>2
  <2>2. CASE Fresh(t) /\ ~Fresh(u)
    <3>1. seed'[u] = 0 \/ seed'[u] = seed[u]
      BY <1>4, <2>2
    <3>2. seed[u] <= drawn /\ seed[u] \in Int /\ drawn \in Nat
      BY <1>1 DEF SeedsUnique
    <3>3. seed'[t] \in Nat /\ drawn < seed'[t]
      BY <1>3, <2>2
    <3> QED
      BY <3>1, <3>2, <3>3
  <2>3. CASE ~Fresh(t) /\ Fresh(u)
    <3>1. seed'[t] = 0 \/ seed'[t] = seed[t]
      BY <1>4, <2>3
    <3>2. seed[t] <= drawn /\ seed[t] \in Int /\ drawn \in Nat
      BY <1>1 DEF SeedsUnique
    <3>3. seed'[u] \in Nat /\ drawn < seed'[u]
      BY <1>3, <2>3
    <3> QED
      BY <3>1, <3>2, <3>3
  <2>4. CASE ~Fresh(t) /\ ~Fresh(u)
    <3>1. seed'[t] = seed[t] /\ seed[t] > 0
      BY <1>4, <1>9, <2>4
    <3>2. seed'[u] = 0 \/ seed'[u] = seed[u]
      BY <1>4, <2>4
    <3> QED
      BY <1>9, <3>1, <3>2 DEF SeedsUnique
  <2> QED
    BY <2>1, <2>2, <2>3, <2>4
<1> QED
  BY <1>5, <1>6, <1>7, <1>9 DEF SeedsUnique

-----------------------------------------------------------------------------
(* Submissions                                                             *)

\* What the submission of one transaction does to the receipts.
Accounts(route, key, tasks) ==
    /\ ReceiptFor(route, key) = {}
    /\ made' = Counted(route, key)
    /\ \/ receipts' = receipts \cup Stored(route, key, tasks) /\ UNCHANGED excused
       \/ /\ UNCHANGED receipts
          /\ excused' = IF key = NoKey THEN excused
                        ELSE [excused EXCEPT ![<<route, key>>] = @ + 1]

\* The common part of the submission actions.
Submits(drafts, name) ==
    /\ Serving
    /\ Insert(drafts, name)
    /\ (name = 0 /\ batches' = batches) \/ (name # 0 /\ batches' = batches \cup {name})
    /\ logs \subseteq logs' /\ logs' \subseteq logs \cup Slots(Len(drafts))
    /\ crashes' = crashes \/ crashes' = crashes + 1
    /\ reply' = reply \/ reply' # "gone"
    /\ \/ UNCHANGED <<receipts, made, excused>>
       \/ \E route \in Route, key \in Key \cup {NoKey} :
            Accounts(route, key, Slots(Len(drafts)))
    /\ UNCHANGED <<clock, job, evicted, setback>>

\* There is a first slot when there is room for a draft.
LEMMA BatchNamed ==
    ASSUME Typed, NEW drafts \in Seq(Draft), HasRoom(Len(drafts))
    PROVE  BatchName(drafts) # 0
<1>1. MaxTask \in Nat /\ Unused \subseteq 1..MaxTask
  BY SubmissionAssumption DEF Unused, Task
<1>2. CASE drafts = <<>>
  BY <1>1, <1>2 DEF BatchName, Hollow
<1>3. CASE drafts # <<>>
  <2>1. Unused # {}
    <3>1. Len(drafts) >= 1
      BY <1>3
    <3>2. Len(drafts) \in Nat /\ Len(drafts) <= Cardinality(Unused)
      BY DEF HasRoom
    <3>3. Cardinality({}) = 0
      BY FS_EmptySet
    <3>4. ASSUME Unused = {} PROVE FALSE
      <4>1. Cardinality(Unused) = 0
        BY <3>3, <3>4
      <4> QED
        BY <3>1, <3>2, <4>1
    <3> QED
      BY <3>4
  <2>2. Unused \subseteq Nat
    BY <1>1
  <2>3. PICK t \in Unused : \A u \in Unused : ~(<<u, t>> \in OpToRel(<, Nat))
    BY <2>1, <2>2, WFMin, NatLessThanWellFounded
  <2>4. \A u \in Unused : u <= t => u = t
    <3> TAKE u \in Unused
    <3>1. u \in Nat /\ t \in Nat
      BY <2>2
    <3>2. ~(u < t)
      BY <2>3, <3>1 DEF OpToRel
    <3> QED
      BY <3>1, <3>2
  <2>5. {u \in Unused : u <= t} = {t}
    <3>1. t \in Unused /\ t <= t
      BY <2>2
    <3> QED
      BY <2>4, <3>1
  <2>6. t \in Slots(1)
    <3>1. SlotRank(t) = 1
      BY <2>5, FS_Singleton DEF SlotRank
    <3> QED
      BY <3>1 DEF Slots
  <2>7. BatchName(drafts) \in Slots(1)
    BY <1>3, <2>6 DEF BatchName
  <2> QED
    BY <1>1, <2>7 DEF Slots
<1> QED
  BY <1>2, <1>3

LEMMA TaskSubmissions ==
    ASSUME NEW key \in Key \cup {NoKey}, NEW draft \in Draft,
           CreateTask(key, draft) \/ CreateTaskTorn(key, draft)
    PROVE  \/ Refused
           \/ \E list \in Seq(Draft) : \E name : Submits(list, name)
<1>1. <<draft>> \in Seq(Draft) /\ Len(<<draft>>) = 1
  OBVIOUS
<1>2. ASSUME CreateTask(key, draft), ~Refused PROVE Submits(<<draft>>, 0)
  <2>1. /\ Serving /\ Insert(<<draft>>, 0) /\ ReceiptFor("tasks", key) = {}
        /\ logs' = logs \cup Slots(1) /\ reply' = "ok" /\ made' = Counted("tasks", key)
        /\ receipts' = receipts \cup Stored("tasks", key, Slots(1))
        /\ UNCHANGED <<batches, clock, up, job, excused, evicted, setback, crashes>>
    BY <1>2 DEF CreateTask
  <2>2. Accounts("tasks", key, Slots(Len(<<draft>>)))
    BY <1>1, <2>1 DEF Accounts
  <2> QED
    BY <1>1, <2>1, <2>2 DEF Submits, Route
<1>3. ASSUME CreateTaskTorn(key, draft) PROVE Submits(<<draft>>, 0)
  <2>1. /\ Serving /\ Insert(<<draft>>, 0) /\ ReceiptFor("tasks", key) = {}
        /\ \E done \in SUBSET Slots(1) : logs' = logs \cup done
        /\ made' = Counted("tasks", key) /\ crashes' = crashes + 1
        /\ excused' = IF key = NoKey THEN excused ELSE [excused EXCEPT ![<<"tasks", key>>] = @ + 1]
        /\ UNCHANGED <<receipts, batches, clock, job, reply, evicted, setback>>
    BY <1>3 DEF CreateTaskTorn
  <2>2. Accounts("tasks", key, Slots(Len(<<draft>>)))
    BY <2>1 DEF Accounts
  <2> QED
    BY <1>1, <2>1, <2>2 DEF Submits, Route
<1> QED
  BY <1>1, <1>2, <1>3

LEMMA ListSubmissions ==
    ASSUME Typed, NEW key \in Key \cup {NoKey}, NEW drafts \in Batches,
           CreateBatch(key, drafts) \/ RunTemplate(drafts)
    PROVE  \/ Refused
           \/ \E list \in Seq(Draft) : \E name : Submits(list, name)
<1>1. drafts \in Seq(Draft)
  BY SubmissionAssumption
<1>2. ASSUME CreateBatch(key, drafts), ~Refused PROVE Submits(drafts, BatchName(drafts))
  <2>1. /\ Serving /\ Insert(drafts, BatchName(drafts)) /\ ReceiptFor("batches", key) = {}
        /\ batches' = batches \cup {BatchName(drafts)}
        /\ receipts' = receipts \cup Stored("batches", key, Slots(Len(drafts)))
        /\ made' = Counted("batches", key)
        /\ \/ logs' = logs \cup Slots(Len(drafts)) /\ reply' = "ok" /\ crashes' = crashes
           \/ logs' = logs /\ reply' = reply /\ crashes' = crashes + 1
        /\ UNCHANGED <<clock, job, excused, evicted, setback>>
    BY <1>2 DEF CreateBatch, InsertBatch
  <2>3. BatchName(drafts) # 0
    BY <1>1, <1>2, BatchNamed DEF CreateBatch
  <2>2. Accounts("batches", key, Slots(Len(drafts)))
    BY <2>1 DEF Accounts
  <2> QED
    BY <2>1, <2>2, <2>3 DEF Submits, Route
<1>3. ASSUME RunTemplate(drafts)
      PROVE  \E list \in Seq(Draft) : Submits(list, 0)
  <2>1. PICK n \in 0..Len(drafts) :
               /\ Insert(SubSeq(drafts, 1, n), 0) /\ logs' = logs \cup Slots(n)
               /\ reply' = IF n = Len(drafts) THEN "ok" ELSE "error"
    BY <1>3 DEF RunTemplate
  <2>2. /\ Serving
        /\ UNCHANGED <<batches, receipts, clock, up, job, made, excused, evicted, setback, crashes>>
    BY <1>3 DEF RunTemplate, history
  <2>3. SubSeq(drafts, 1, n) \in Seq(Draft) /\ Len(SubSeq(drafts, 1, n)) = n
    <3>1. n \in Int /\ n >= 0 /\ \A i \in 1..n : drafts[i] \in Draft
      BY <1>1
    <3>2. /\ SubSeq(drafts, 1, n) \in Seq(Draft)
          /\ Len(SubSeq(drafts, 1, n)) = IF 1 <= n THEN n - 1 + 1 ELSE 0
      BY <3>1, SubSeqProperties
    <3> QED
      BY <3>1, <3>2
  <2>4. Submits(SubSeq(drafts, 1, n), 0)
    BY <2>1, <2>2, <2>3 DEF Submits
  <2> QED
    BY <2>3, <2>4
<1> QED
  BY <1>1, <1>2, <1>3

\* A submission is accounted for, by its receipt or by an excuse.
LEMMA AccountsKept ==
    ASSUME Typed, KeysAccounted, NEW route \in Route, NEW key \in Key \cup {NoKey},
           NEW tasks \in SUBSET Task, Accounts(route, key, tasks)
    PROVE  /\ receipts' \subseteq ReceiptRow
           /\ made' \in [Route \X Key -> Nat] /\ excused' \in [Route \X Key -> Nat]
           /\ KeysAccounted'
           /\ \A r \in receipts' : r \in receipts \/ (r.tasks = tasks /\ r.at = clock)
<1> DEFINE at == <<route, key>>
<1>1. /\ receipts \subseteq ReceiptRow /\ clock \in Nat
      /\ made \in [Route \X Key -> Nat] /\ excused \in [Route \X Key -> Nat]
  BY DEF Typed
<1>2. CASE key = NoKey
  <2>1. UNCHANGED <<receipts, made, excused>>
    BY <1>2 DEF Accounts, Counted, Stored
  <2> QED
    BY <1>1, <2>1 DEF KeysAccounted, HasReceipt
<1>3. CASE key # NoKey
  <2>1. key \in Key /\ at \in Route \X Key
    BY <1>3
  <2>2. ~HasReceipt(at)
    BY <1>1 DEF Accounts, ReceiptFor, HasReceipt
  <2>3. made[at] <= excused[at]
    <3>1. made[at] <= excused[at] + 0
      BY <2>1, <2>2 DEF KeysAccounted
    <3> QED
      BY <1>1, <2>1, <3>1
  <2>4. made' = [made EXCEPT ![at] = @ + 1]
    BY <1>3 DEF Accounts, Counted
  <2>5. /\ made' \in [Route \X Key -> Nat] /\ made'[at] = made[at] + 1
        /\ \A rk \in Route \X Key : rk # at => made'[rk] = made[rk]
    BY <1>1, <2>1, <2>4
  <2>6. CASE receipts' = receipts \cup Stored(route, key, tasks) /\ excused' = excused
    <3>1. receipts' = receipts \cup {Receipt(route, key, tasks)}
      BY <1>3, <2>6 DEF Stored
    <3>2. /\ Receipt(route, key, tasks) \in ReceiptRow
          /\ Receipt(route, key, tasks).route = route /\ Receipt(route, key, tasks).key = key
          /\ Receipt(route, key, tasks).tasks = tasks /\ Receipt(route, key, tasks).at = clock
      BY <1>1, <2>1 DEF Receipt, ReceiptRow
    <3> HIDE DEF Receipt
    <3>3. \A r, s \in receipts' : r.route = s.route /\ r.key = s.key => r = s
      BY <2>2, <3>1, <3>2 DEF KeysAccounted, HasReceipt
    <3>4. HasReceipt(at)' /\ \A rk : HasReceipt(rk) => HasReceipt(rk)'
      BY <3>1, <3>2 DEF HasReceipt
    <3>5. ASSUME NEW rk \in Route \X Key
          PROVE  made'[rk] <= excused'[rk] + (IF HasReceipt(rk)' THEN 1 ELSE 0)
      <4>1. CASE rk = at
        <5>1. made[at] \in Nat /\ excused[at] \in Nat
          BY <1>1, <2>1
        <5> QED
          BY <2>3, <2>5, <2>6, <3>4, <4>1, <5>1
      <4>2. CASE rk # at
        <5>1. made[rk] \in Nat /\ excused[rk] \in Nat
          BY <1>1
        <5>2. made[rk] <= excused[rk] + (IF HasReceipt(rk) THEN 1 ELSE 0)
          BY DEF KeysAccounted
        <5> QED
          BY <2>5, <2>6, <3>4, <4>2, <5>1, <5>2
      <4> QED
        BY <4>1, <4>2
    <3> QED
      BY <1>1, <2>5, <2>6, <3>1, <3>2, <3>3, <3>5 DEF KeysAccounted
  <2>7. CASE receipts' = receipts /\ excused' = [excused EXCEPT ![at] = @ + 1]
    <3>1. /\ excused' \in [Route \X Key -> Nat] /\ excused'[at] = excused[at] + 1
          /\ \A rk \in Route \X Key : rk # at => excused'[rk] = excused[rk]
      BY <1>1, <2>1, <2>7
    <3>2. \A rk : HasReceipt(rk)' <=> HasReceipt(rk)
      BY <2>7 DEF HasReceipt
    <3>3. ASSUME NEW rk \in Route \X Key
          PROVE  made'[rk] <= excused'[rk] + (IF HasReceipt(rk)' THEN 1 ELSE 0)
      <4>1. made[rk] \in Nat /\ excused[rk] \in Nat
        BY <1>1
      <4>2. made[rk] <= excused[rk] + (IF HasReceipt(rk) THEN 1 ELSE 0)
        BY DEF KeysAccounted
      <4> QED
        BY <2>5, <3>1, <3>2, <4>1, <4>2
    <3> QED
      BY <1>1, <2>5, <2>7, <3>1, <3>3 DEF KeysAccounted
  <2> QED
    BY <1>3, <2>6, <2>7 DEF Accounts
<1> QED
  BY <1>2, <1>3

\* Every submission keeps the invariant.
LEMMA SubmitsStep ==
    ASSUME SubmissionInv, NEW drafts \in Seq(Draft), NEW name, Submits(drafts, name)
    PROVE  SubmissionInv'
<1> DEFINE n == Len(drafts)
           new == Slots(n)
<1> USE DEF SubmissionInv
<1>1. n \in Nat /\ Insert(drafts, name)
  BY DEF Submits
<1>2. job.todo = {} /\ job' = job
  BY DEF Submits, Serving, Idle
<1>3. /\ row' \in [Task -> RowState] /\ ended_at' = ended_at
      /\ Rows' = Rows \cup new /\ Ended' = Ended
      /\ \A t \in Task : row[t] # "absent" => row'[t] = row[t] /\ batch'[t] = batch[t]
      /\ \A t \in new : batch'[t] = name /\ row'[t] = "queued"
  BY <1>1, InsertRows
<1>4. new \in SUBSET Task
  BY <1>1, SlotsAreNew
<1>5. seed' \in [Task -> Int] /\ drawn' \in Nat /\ SeedsUnique'
  BY <1>1, InsertSeeds
<1>6. /\ receipts' \subseteq ReceiptRow
      /\ made' \in [Route \X Key -> Nat] /\ excused' \in [Route \X Key -> Nat]
      /\ KeysAccounted'
      /\ \A r \in receipts' : r \in receipts \/ (r.tasks = new /\ r.at = clock)
  <2>1. CASE UNCHANGED <<receipts, made, excused>>
    BY <2>1 DEF KeysAccounted, HasReceipt, Typed
  <2>2. CASE \E route \in Route, key \in Key \cup {NoKey} : Accounts(route, key, new)
    <3>1. PICK route \in Route, key \in Key \cup {NoKey} : Accounts(route, key, new)
      BY <2>2
    <3> HIDE DEF new
    <3> QED
      BY <1>4, <3>1, AccountsKept
  <2> QED
    BY <2>1, <2>2 DEF Submits
<1>7. UNCHANGED <<clock, evicted, setback>> /\ clock \in Nat
  BY DEF Submits, Typed
<1>8. Typed'
  <2>1. crashes' \in Nat
    BY DEF Submits, Typed
  <2> QED
    BY <1>3, <1>5, <1>6, <1>7, <2>1 DEF Typed
<1>9. ReceiptsOlder'
  <2> SUFFICES ASSUME ~setback, NEW r \in receipts'
               PROVE  r.at <= clock /\ \A t \in r.tasks : row'[t] = "ended" => r.at <= ended_at'[t]
    BY <1>7 DEF ReceiptsOlder
  <2>1. CASE r \in receipts
    <3>1. r.at <= clock /\ \A t \in r.tasks : row[t] = "ended" => r.at <= ended_at[t]
      BY <2>1 DEF ReceiptsOlder
    <3>2. \A t \in r.tasks : t \in Task
      BY <2>1 DEF Typed, ReceiptRow
    <3>3. \A t \in Task : row'[t] = "ended" => row[t] = "ended"
      BY <1>3 DEF Ended
    <3> QED
      BY <1>3, <3>1, <3>2, <3>3
  <2>2. CASE r.tasks = new /\ r.at = clock
    BY <1>3, <1>7, <2>2
  <2> QED
    BY <1>6, <2>1, <2>2
<1>10. ReceiptsReadable'
  <2>1. ASSUME NEW r \in receipts', r.route = "batches", ~setback
        PROVE  r.tasks \subseteq Rows' \cup evicted
    <3>1. CASE r \in receipts
      BY <1>3, <2>1, <3>1 DEF ReceiptsReadable
    <3>2. CASE r.tasks = new
      BY <1>3, <3>2
    <3> QED
      BY <1>6, <3>1, <3>2
  <2>2. reply' = "gone" => evicted # {} \/ setback
    BY DEF Submits, ReceiptsReadable
  <2> QED
    BY <1>7, <2>1, <2>2 DEF ReceiptsReadable
<1>11. RemovesDeleted'
  BY <1>2 DEF RemovesDeleted
<1>12. BatchesBacked'
  <2>1. {batch[t] : t \in {u \in Rows : batch[u] # 0}} \subseteq batches
    BY DEF BatchesBacked
  <2>2. \A t \in Rows : t \in Task /\ row[t] # "absent"
    BY DEF Rows
  <2>3. ASSUME NEW t \in Rows', batch'[t] # 0 PROVE batch'[t] \in batches'
    <3>1. CASE t \in Rows
      BY <1>3, <2>1, <2>2, <2>3, <3>1 DEF Submits
    <3>2. CASE t \in new
      BY <1>3, <2>3, <3>2 DEF Submits
    <3> QED
      BY <1>3, <3>1, <3>2
  <2> QED
    BY <1>2, <2>3 DEF BatchesBacked
<1>13. LogsFollowRows'
  <2>1. Ended' \subseteq logs'
    BY <1>3 DEF LogsFollowRows, Submits
  <2>2. crashes' = 0 => crashes = 0
    BY DEF Typed, Submits
  <2>3. logs' \subseteq logs \cup new
    BY DEF Submits
  <2> QED
    BY <1>2, <1>3, <2>1, <2>2, <2>3 DEF LogsFollowRows
<1>14. 0 \notin batches'
  BY DEF Submits
<1> QED
  BY <1>5, <1>6, <1>8, <1>9, <1>10, <1>11, <1>12, <1>13, <1>14

-----------------------------------------------------------------------------
(* Maintenance                                                             *)

\* Ended rows are deleted, and the batches that are left without a row.
LEMMA DeleteRowsStep ==
    ASSUME SubmissionInv, NEW gone \in SUBSET Ended, DeleteRows(gone)
    PROVE  /\ row' \in [Task -> RowState] /\ ended_at' \in [Task -> Nat]
           /\ seed' = seed /\ drawn' = drawn
           /\ Rows' = Rows \ gone /\ Ended' = Ended \ gone
           /\ \A t \in gone : row'[t] = "deleted"
           /\ \A t \in Task \ gone : row'[t] = row[t] /\ ended_at'[t] = ended_at[t]
           /\ 0 \notin batches'
           /\ \A t \in Rows' : batch'[t] # 0 => batch'[t] \in batches'
           /\ gone # {} => \A b \in batches' : \E t \in Rows' : batch'[t] # 0 /\ batch'[t] = b
<1> USE DEF SubmissionInv
<1>1. /\ row' = [t \in Task |-> IF t \in gone THEN "deleted" ELSE row[t]]
      /\ batch' = [t \in Task |-> IF t \in gone THEN 0 ELSE batch[t]]
      /\ ended_at' = [t \in Task |-> IF t \in gone THEN 0 ELSE ended_at[t]]
      /\ batches' = IF gone = {} THEN batches ELSE BatchesLeft(gone)
      /\ seed' = seed /\ drawn' = drawn
  BY DEF DeleteRows
<1>2. row \in [Task -> RowState] /\ ended_at \in [Task -> Nat]
  BY DEF Typed
<1>3. \A t \in gone : t \in Task /\ row[t] = "ended"
  BY DEF Ended
<1>4. row' \in [Task -> RowState] /\ ended_at' \in [Task -> Nat]
  BY <1>1, <1>2 DEF RowState
<1>5. /\ Rows' = Rows \ gone /\ Ended' = Ended \ gone
      /\ \A t \in gone : row'[t] = "deleted"
      /\ \A t \in Task \ gone : /\ row'[t] = row[t] /\ ended_at'[t] = ended_at[t]
                                /\ batch'[t] = batch[t]
  BY <1>1, <1>2, <1>3 DEF Rows, Ended
<1>6. batches' \subseteq batches /\ 0 \notin batches
  BY <1>1 DEF BatchesLeft
<1>7. Rows \subseteq Task
  BY DEF Rows
<1>8. \A t \in Rows : batch[t] # 0 => batch[t] \in batches
  BY DEF BatchesBacked
<1>9. ASSUME NEW t \in Rows', batch'[t] # 0 PROVE batch'[t] \in batches'
  <2>1. t \in Rows \ gone /\ batch'[t] = batch[t] /\ batch[t] \in batches
    BY <1>5, <1>7, <1>8, <1>9
  <2> QED
    BY <1>1, <2>1 DEF BatchesLeft
<1>10. ASSUME gone # {}, NEW b \in batches'
       PROVE  \E t \in Rows' : batch'[t] # 0 /\ batch'[t] = b
  <2>1. PICK t \in Rows \ gone : batch[t] = b
    BY <1>1, <1>10 DEF BatchesLeft
  <2>2. b # 0
    BY <1>6
  <2> QED
    BY <1>5, <1>7, <2>1, <2>2
<1> QED
  BY <1>1, <1>4, <1>5, <1>6, <1>9, <1>10

\* The batches table, from what it holds.
LEMMA Backs ==
    ASSUME \A t \in Rows' : batch'[t] # 0 => batch'[t] \in batches',
           job'.todo # {} =>
               \A b \in batches' : \E t \in Rows' : batch'[t] # 0 /\ batch'[t] = b
    PROVE  BatchesBacked'
BY DEF BatchesBacked

\* An expired receipt becomes an excuse.
LEMMA ExpiryAccounted ==
    ASSUME Typed, KeysAccounted, receipts' = receipts \ ExpiredReceipts,
           excused' = [rk \in DOMAIN excused |->
               excused[rk] + Cardinality({r \in ExpiredReceipts : <<r.route, r.key>> = rk})],
           made' = made
    PROVE  excused' \in [Route \X Key -> Nat] /\ KeysAccounted'
<1> DEFINE Lost(rk) == {r \in ExpiredReceipts : <<r.route, r.key>> = rk}
<1>1. /\ receipts \subseteq ReceiptRow /\ ExpiredReceipts \subseteq receipts
      /\ made \in [Route \X Key -> Nat] /\ excused \in [Route \X Key -> Nat]
  BY DEF Typed, ExpiredReceipts
<1>2. ASSUME NEW rk
      PROVE  \/ Lost(rk) = {} /\ (HasReceipt(rk) => HasReceipt(rk)')
             \/ \E r : Lost(rk) = {r}
  <2>1. ASSUME NEW r \in Lost(rk), NEW s \in Lost(rk) PROVE r = s
    BY <1>1, <2>1 DEF KeysAccounted
  <2>2. CASE Lost(rk) = {}
    BY <2>2 DEF HasReceipt
  <2>3. CASE Lost(rk) # {}
    BY <2>1, <2>3
  <2> QED
    BY <2>2, <2>3
<1>3. ASSUME NEW rk
      PROVE  /\ Cardinality(Lost(rk)) \in Nat
             /\ Cardinality(Lost(rk)) >= 1 \/ (HasReceipt(rk) => HasReceipt(rk)')
  <2>1. CASE Lost(rk) = {} /\ (HasReceipt(rk) => HasReceipt(rk)')
    <3>1. Cardinality({}) = 0
      BY FS_EmptySet
    <3>2. Cardinality(Lost(rk)) = 0
      BY <2>1, <3>1
    <3> HIDE DEF Lost
    <3> QED
      BY <2>1, <3>2
  <2>2. CASE \E r : Lost(rk) = {r}
    <3>1. PICK r : Lost(rk) = {r}
      BY <2>2
    <3>2. Cardinality({r}) = 1
      BY FS_Singleton
    <3>3. Cardinality(Lost(rk)) = 1
      BY <3>1, <3>2
    <3> HIDE DEF Lost
    <3> QED
      BY <3>3
  <2> QED
    BY <1>2, <2>1, <2>2
<1>4. \A rk \in Route \X Key : excused'[rk] = excused[rk] + Cardinality(Lost(rk))
  BY <1>1
<1> HIDE DEF Lost
<1>5. excused' \in [Route \X Key -> Nat]
  <2>1. \A rk \in Route \X Key : excused'[rk] \in Nat
    BY <1>1, <1>3, <1>4
  <2>2. excused' = [rk \in Route \X Key |-> excused'[rk]]
    BY <1>1
  <2> QED
    BY <2>1, <2>2
<1>6. ASSUME NEW rk \in Route \X Key
      PROVE  made'[rk] <= excused'[rk] + (IF HasReceipt(rk)' THEN 1 ELSE 0)
  <2>1. made[rk] \in Nat /\ excused[rk] \in Nat /\ made'[rk] = made[rk]
    BY <1>1
  <2>2. made[rk] <= excused[rk] + (IF HasReceipt(rk) THEN 1 ELSE 0)
    BY DEF KeysAccounted
  <2>3. made[rk] <= excused[rk] + 1 /\ (~HasReceipt(rk) => made[rk] <= excused[rk])
    BY <2>1, <2>2
  <2>4. excused'[rk] = excused[rk] + Cardinality(Lost(rk)) /\ Cardinality(Lost(rk)) \in Nat
    BY <1>3, <1>4
  <2>5. CASE Cardinality(Lost(rk)) >= 1
    BY <2>1, <2>3, <2>4, <2>5
  <2>6. CASE HasReceipt(rk)'
    BY <2>1, <2>3, <2>4, <2>6
  <2>7. CASE ~HasReceipt(rk)
    BY <2>1, <2>3, <2>4, <2>7
  <2> QED
    BY <1>3, <2>5, <2>6, <2>7
<1>7. \A r, s \in receipts' : r.route = s.route /\ r.key = s.key => r = s
  BY <1>1 DEF KeysAccounted
<1> QED
  BY <1>5, <1>6, <1>7 DEF KeysAccounted

\* Retention: a receipt that stays is young enough for its tasks to stay.
LEMMA PurgeStep ==
    ASSUME SubmissionInv, MaintainPurge
    PROVE  SubmissionInv'
<1> DEFINE old == {t \in Ended : ended_at[t] < Cutoff}
<1> USE DEF SubmissionInv
<1>1. old \in SUBSET Ended /\ DeleteRows(old)
  BY DEF MaintainPurge
<1>2. /\ job' = [pc |-> "logs", todo |-> old \cap logs]
      /\ receipts' = receipts \ ExpiredReceipts
      /\ UNCHANGED <<logs, clock, up, reply, made, evicted, setback, crashes>>
      /\ excused' = [rk \in DOMAIN excused |->
           excused[rk] + Cardinality({r \in ExpiredReceipts : <<r.route, r.key>> = rk})]
      /\ job.todo = {}
  BY DEF MaintainPurge, Serving, Idle
<1>3. /\ row' \in [Task -> RowState] /\ ended_at' \in [Task -> Nat]
      /\ seed' = seed /\ drawn' = drawn
      /\ Rows' = Rows \ old /\ Ended' = Ended \ old
      /\ \A t \in old : row'[t] = "deleted"
      /\ \A t \in Task \ old : row'[t] = row[t] /\ ended_at'[t] = ended_at[t]
      /\ 0 \notin batches'
      /\ \A t \in Rows' : batch'[t] # 0 => batch'[t] \in batches'
      /\ old # {} => \A b \in batches' : \E t \in Rows' : batch'[t] # 0 /\ batch'[t] = b
  <2> HIDE DEF old
  <2> QED
    BY <1>1, DeleteRowsStep
<1>4. excused' \in [Route \X Key -> Nat] /\ KeysAccounted'
  BY <1>2, ExpiryAccounted
<1>5. Typed'
  BY <1>2, <1>3, <1>4 DEF Typed
<1>6. \A r \in receipts' : r \in receipts /\ r.tasks \subseteq Task
  BY <1>2 DEF Typed, ReceiptRow
<1>7. ReceiptsOlder'
  <2> SUFFICES ASSUME ~setback, NEW r \in receipts'
               PROVE  r.at <= clock /\ \A t \in r.tasks : row'[t] = "ended" => r.at <= ended_at'[t]
    BY <1>2 DEF ReceiptsOlder
  <2>1. r.at <= clock /\ \A t \in r.tasks : row[t] = "ended" => r.at <= ended_at[t]
    BY <1>6 DEF ReceiptsOlder
  <2>2. \A t \in r.tasks : row'[t] = "ended" => row[t] = "ended" /\ ended_at'[t] = ended_at[t]
    BY <1>3, <1>6
  <2> QED
    BY <2>1, <2>2
<1>8. ASSUME NEW r \in receipts', ~setback, NEW t \in r.tasks PROVE t \notin old
  <2>1. r \in receipts /\ r.at \in Nat /\ ~(r.at < Cutoff) /\ t \in Task
    BY <1>2, <1>6 DEF ExpiredReceipts, Typed, ReceiptRow
  <2>2. row[t] = "ended" => r.at <= ended_at[t]
    BY <1>8, <2>1 DEF ReceiptsOlder
  <2>3. Cutoff \in Int /\ ended_at[t] \in Nat
    BY SubmissionAssumption, <2>1 DEF Cutoff, Typed
  <2> QED
    BY <2>1, <2>2, <2>3 DEF Ended
<1>9. ReceiptsReadable'
  <2>1. ASSUME NEW r \in receipts', r.route = "batches", ~setback
        PROVE  r.tasks \subseteq Rows' \cup evicted
    <3>1. r.tasks \subseteq Rows \cup evicted
      BY <1>6, <2>1 DEF ReceiptsReadable
    <3> HIDE DEF old
    <3> QED
      BY <1>3, <1>8, <2>1, <3>1
  <2> QED
    BY <1>2, <2>1 DEF ReceiptsReadable
<1>10. SeedsUnique'
  BY <1>3 DEF SeedsUnique
<1>11. job'.todo = old \cap logs
  BY <1>2
<1>12. RemovesDeleted'
  BY <1>3, <1>11 DEF RemovesDeleted
<1>13. BatchesBacked'
  <2>1. job'.todo # {} => old # {}
    BY <1>11
  <2> HIDE DEF old
  <2> QED
    BY <1>3, <2>1, Backs
<1>14. LogsFollowRows'
  <2>1. Ended' \subseteq logs'
    BY <1>2, <1>3 DEF LogsFollowRows
  <2>2. crashes = 0 => logs \subseteq Rows
    BY <1>2 DEF LogsFollowRows
  <2> HIDE DEF old
  <2> QED
    BY <1>2, <1>3, <1>11, <2>1, <2>2 DEF LogsFollowRows
<1> QED
  BY <1>3, <1>4, <1>5, <1>7, <1>9, <1>10, <1>12, <1>13, <1>14

\* The disk budget: the row goes with its log, and is on record as evicted.
LEMMA EvictStep ==
    ASSUME SubmissionInv, MaintainEvict
    PROVE  SubmissionInv'
<1> USE DEF SubmissionInv
<1>1. PICK t \in Ended \cap logs : /\ DeleteRows({t})
                                   /\ evicted' = evicted \cup {t}
                                   /\ job' = [pc |-> "evicting", todo |-> {t}]
  BY DEF MaintainEvict
<1>2. /\ UNCHANGED <<receipts, logs, clock, up, reply, made, excused, setback, crashes>>
      /\ job.todo = {} /\ job'.todo = {t}
  BY <1>1 DEF MaintainEvict
<1>3. /\ row' \in [Task -> RowState] /\ ended_at' \in [Task -> Nat]
      /\ seed' = seed /\ drawn' = drawn
      /\ Rows' = Rows \ {t} /\ Ended' = Ended \ {t}
      /\ row'[t] = "deleted"
      /\ \A u \in Task \ {t} : row'[u] = row[u] /\ ended_at'[u] = ended_at[u]
      /\ 0 \notin batches'
      /\ \A u \in Rows' : batch'[u] # 0 => batch'[u] \in batches'
      /\ \A b \in batches' : \E u \in Rows' : batch'[u] # 0 /\ batch'[u] = b
  <2>1. {t} \in SUBSET Ended /\ {t} # {} /\ t \in {t} /\ DeleteRows({t})
    BY <1>1
  <2> QED
    BY <2>1, DeleteRowsStep
<1>4. Typed'
  BY <1>2, <1>3 DEF Typed
<1>5. KeysAccounted' /\ SeedsUnique'
  BY <1>2, <1>3 DEF KeysAccounted, HasReceipt, SeedsUnique
<1>6. ReceiptsOlder'
  <2> SUFFICES ASSUME ~setback, NEW r \in receipts
               PROVE  r.at <= clock /\ \A u \in r.tasks : row'[u] = "ended" => r.at <= ended_at'[u]
    BY <1>2 DEF ReceiptsOlder
  <2>1. r.at <= clock /\ \A u \in r.tasks : row[u] = "ended" => r.at <= ended_at[u]
    BY DEF ReceiptsOlder
  <2>2. \A u \in r.tasks : u \in Task
    BY DEF Typed, ReceiptRow
  <2>3. \A u \in r.tasks : row'[u] = "ended" => row[u] = "ended" /\ ended_at'[u] = ended_at[u]
    BY <1>3, <2>2
  <2> QED
    BY <2>1, <2>3
<1>7. ReceiptsReadable'
  BY <1>1, <1>2, <1>3 DEF ReceiptsReadable
<1>8. RemovesDeleted'
  BY <1>2, <1>3 DEF RemovesDeleted
<1>9. BatchesBacked'
  BY <1>3, Backs
<1>10. LogsFollowRows'
  BY <1>2, <1>3 DEF LogsFollowRows
<1> QED
  BY <1>3, <1>4, <1>5, <1>6, <1>7, <1>8, <1>9, <1>10

\* Logs go only after their rows.
LEMMA RemoveLogStep ==
    ASSUME SubmissionInv, MaintainRemoveLog
    PROVE  SubmissionInv'
<1> USE DEF SubmissionInv
<1>1. PICK t \in job.todo : logs' = logs \ {t} /\ job' = [job EXCEPT !.todo = @ \ {t}]
  BY DEF MaintainRemoveLog
<1>2. job'.todo = job.todo \ {t} \/ job'.todo = job.todo
  BY <1>1
<1>3. UNCHANGED <<tables, clock, up, reply, history>>
  BY DEF MaintainRemoveLog
<1>4. Typed' /\ KeysAccounted' /\ SeedsUnique' /\ ReceiptsOlder' /\ ReceiptsReadable'
      /\ 0 \notin batches'
  BY <1>3
  DEF tables, history, Typed, KeysAccounted, HasReceipt, SeedsUnique, ReceiptsOlder,
      ReceiptsReadable, Rows
<1>5. RemovesDeleted'
  BY <1>2, <1>3 DEF RemovesDeleted, tables
<1>6. BatchesBacked'
  BY <1>2, <1>3 DEF BatchesBacked, Rows, tables
<1>7. LogsFollowRows'
  <2>1. t \notin Ended
    BY <1>1 DEF RemovesDeleted, Ended
  <2>2. job'.todo = job.todo \ {t} \/ (job'.todo = job.todo /\ t \in job.todo)
    BY <1>2
  <2> QED
    BY <1>1, <1>3, <2>1, <2>2 DEF LogsFollowRows, Rows, Ended, tables, history
<1> QED
  BY <1>4, <1>5, <1>6, <1>7

\* Maintenance ends, or the controller dies: nothing is under removal.
LEMMA JobEndsStep ==
    ASSUME SubmissionInv, MaintainDone \/ Crash
    PROVE  SubmissionInv'
<1> USE DEF SubmissionInv
<1>1. /\ UNCHANGED <<tables, logs, clock, reply, made, excused, evicted, setback>>
      /\ job'.todo = {}
  BY DEF MaintainDone, Crash, Idle, history
<1>2. crashes' = crashes \/ crashes' = crashes + 1
  BY DEF MaintainDone, Crash, history
<1>3. crashes' \in Nat /\ (crashes' = 0 => crashes' = crashes /\ job.todo = {})
  <2>1. crashes \in Nat
    BY DEF Typed
  <2>2. crashes' = crashes + 1 \/ (crashes' = crashes /\ job.todo = {})
    BY <2>1 DEF MaintainDone, Crash, history
  <2> QED
    BY <2>1, <2>2
<1>4. Typed' /\ KeysAccounted' /\ SeedsUnique' /\ ReceiptsOlder' /\ ReceiptsReadable'
      /\ 0 \notin batches'
  BY <1>1, <1>3
  DEF tables, Typed, KeysAccounted, HasReceipt, SeedsUnique, ReceiptsOlder, ReceiptsReadable, Rows
<1>5. RemovesDeleted' /\ BatchesBacked'
  BY <1>1 DEF RemovesDeleted, BatchesBacked, Rows, tables
<1>6. LogsFollowRows'
  BY <1>1, <1>3 DEF LogsFollowRows, Rows, Ended, tables
<1> QED
  BY <1>4, <1>5, <1>6

-----------------------------------------------------------------------------
(* The other steps                                                         *)

LEMMA RepliesStep ==
    ASSUME SubmissionInv, NEW key,
           CreateTaskReplay(key) \/ CreateBatchReplay(key) \/ Refused
    PROVE  SubmissionInv'
<1> USE DEF SubmissionInv
<1>1. UNCHANGED <<tables, logs, clock, up, job, history>>
  BY DEF CreateTaskReplay, CreateBatchReplay, Refused
<1>2. Typed' /\ KeysAccounted' /\ SeedsUnique' /\ ReceiptsOlder' /\ RemovesDeleted'
      /\ 0 \notin batches' /\ BatchesBacked' /\ LogsFollowRows'
  BY <1>1
  DEF tables, history, Typed, KeysAccounted, HasReceipt, SeedsUnique, ReceiptsOlder,
      RemovesDeleted, BatchesBacked, LogsFollowRows, Rows, Ended
<1>3. reply' = "gone" => evicted # {} \/ setback
  <2>1. CASE CreateTaskReplay(key) \/ Refused
    BY <2>1 DEF CreateTaskReplay, Refused
  <2>2. CASE CreateBatchReplay(key)
    <3>1. PICK r \in ReceiptFor("batches", key) :
                 reply' = IF r.tasks \subseteq Rows THEN "ok" ELSE "gone"
      BY <2>2 DEF CreateBatchReplay, Readable
    <3>2. r \in receipts /\ r.route = "batches"
      BY DEF ReceiptFor
    <3> QED
      BY <3>1, <3>2 DEF ReceiptsReadable
  <2> QED
    BY <2>1, <2>2
<1>4. ReceiptsReadable'
  BY <1>1, <1>3 DEF ReceiptsReadable, Rows, tables, history
<1> QED
  BY <1>2, <1>4

\* A task ends now, and no receipt is from the future.
LEMMA TaskEndsStep ==
    ASSUME SubmissionInv, NEW t \in Task, TaskEnds(t)
    PROVE  SubmissionInv'
<1> USE DEF SubmissionInv
<1>1. /\ row[t] = "queued" /\ row' = [row EXCEPT ![t] = "ended"]
      /\ ended_at' = [ended_at EXCEPT ![t] = clock]
      /\ logs' = logs \cup {t}
      /\ UNCHANGED <<seed, batch, batches, receipts, drawn, clock, up, job, reply>>
      /\ UNCHANGED <<made, excused, evicted, setback, crashes>>
  BY DEF TaskEnds, history
<1>2. row \in [Task -> RowState] /\ ended_at \in [Task -> Nat] /\ clock \in Nat
  BY DEF Typed
<1>3. /\ row' \in [Task -> RowState] /\ ended_at' \in [Task -> Nat]
      /\ Rows' = Rows /\ Ended' = Ended \cup {t}
      /\ \A u \in Task : u # t => row'[u] = row[u] /\ ended_at'[u] = ended_at[u]
      /\ ended_at'[t] = clock
  BY <1>1, <1>2 DEF Rows, Ended, RowState
<1>4. Typed'
  BY <1>1, <1>3 DEF Typed
<1>5. KeysAccounted' /\ SeedsUnique' /\ 0 \notin batches' /\ BatchesBacked'
  BY <1>1, <1>3 DEF KeysAccounted, HasReceipt, SeedsUnique, BatchesBacked
<1>6. ReceiptsReadable' /\ LogsFollowRows'
  <2>1. t \in Rows
    BY <1>1 DEF Rows
  <2>2. ReceiptsReadable'
    BY <1>1, <1>3 DEF ReceiptsReadable
  <2> QED
    BY <1>1, <1>3, <2>1, <2>2 DEF LogsFollowRows
<1>7. ReceiptsOlder'
  <2> SUFFICES ASSUME ~setback, NEW r \in receipts
               PROVE  r.at <= clock /\ \A u \in r.tasks : row'[u] = "ended" => r.at <= ended_at'[u]
    BY <1>1 DEF ReceiptsOlder
  <2>1. r.at <= clock /\ \A u \in r.tasks : row[u] = "ended" => r.at <= ended_at[u]
    BY DEF ReceiptsOlder
  <2>2. \A u \in r.tasks : u \in Task
    BY DEF Typed, ReceiptRow
  <2> QED
    BY <1>3, <2>1, <2>2
<1>8. RemovesDeleted'
  <2>1. \A u \in job.todo : row[u] = "deleted" /\ u # t
    BY <1>1 DEF RemovesDeleted
  <2> QED
    BY <1>1, <1>2, <2>1 DEF RemovesDeleted
<1> QED
  BY <1>4, <1>5, <1>6, <1>7, <1>8

LEMMA ClockStep ==
    ASSUME SubmissionInv, ClockAdvances \/ ClockSetBack
    PROVE  SubmissionInv'
<1> USE DEF SubmissionInv
<1>1. /\ UNCHANGED <<tables, logs, up, job, reply, made, excused, evicted, crashes>>
      /\ clock \in Nat /\ receipts \subseteq ReceiptRow
  BY DEF ClockAdvances, ClockSetBack, history, Typed
<1>2. (clock' = clock + 1 /\ setback' = setback) \/ (clock > 0 /\ clock' = clock - 1 /\ setback' = TRUE)
  BY DEF ClockAdvances, ClockSetBack, history
<1>3. clock' \in Nat
  BY <1>1, <1>2
<1>4. Typed' /\ KeysAccounted' /\ SeedsUnique' /\ RemovesDeleted'
      /\ 0 \notin batches' /\ BatchesBacked' /\ LogsFollowRows'
  BY <1>1, <1>3
  DEF tables, Typed, KeysAccounted, HasReceipt, SeedsUnique, RemovesDeleted, BatchesBacked,
      LogsFollowRows, Rows, Ended
<1>5. ReceiptsOlder'
  <2> SUFFICES ASSUME ~setback', NEW r \in receipts
               PROVE  r.at <= clock' /\ \A u \in r.tasks : row[u] = "ended" => r.at <= ended_at[u]
    BY <1>1 DEF ReceiptsOlder, tables
  <2>1. ~setback /\ clock' = clock + 1 /\ r.at \in Nat
    BY <1>1, <1>2 DEF ReceiptRow
  <2>2. r.at <= clock /\ \A u \in r.tasks : row[u] = "ended" => r.at <= ended_at[u]
    BY <2>1 DEF ReceiptsOlder
  <2> QED
    BY <1>1, <2>1, <2>2
<1>6. ReceiptsReadable'
  BY <1>1, <1>2 DEF ReceiptsReadable, Rows, tables
<1> QED
  BY <1>4, <1>5, <1>6

\* The seeds drawn for the rows of an old database.
LEMMA StartStep ==
    ASSUME SubmissionInv, Start
    PROVE  SubmissionInv'
<1> USE DEF SubmissionInv
<1>1. UNCHANGED <<row, ended_at, batch, batches, receipts, logs, clock, job, reply, history>>
  BY DEF Start
<1>2. KeysAccounted' /\ RemovesDeleted' /\ ReceiptsOlder' /\ ReceiptsReadable'
      /\ 0 \notin batches' /\ BatchesBacked' /\ LogsFollowRows'
  BY <1>1
  DEF history, KeysAccounted, HasReceipt, RemovesDeleted, ReceiptsOlder, ReceiptsReadable,
      BatchesBacked, LogsFollowRows, Rows, Ended
<1> DEFINE L == LegacyRows
<1>3. MaxTask \in Nat /\ L \in SUBSET (1..MaxTask) /\ L \subseteq Task
  BY SubmissionAssumption DEF LegacyRows, Task
<1>4. \A t : LegacyRank(t) = Rank(L, t)
  BY DEF LegacyRank, Rank
<1>5. /\ seed' = [t \in Task |-> IF t \in L THEN DeferredSeed(LegacyRank(t)) ELSE seed[t]]
      /\ drawn' = IF L = {} THEN drawn ELSE DeferredSeed(Cardinality(L))
  BY DEF Start
<1>6. seed \in [Task -> Int] /\ drawn \in Nat
  BY DEF Typed
<1> HIDE DEF L
<1>7. ASSUME NEW t \in L
      PROVE  /\ LegacyRank(t) \in Nat \ {0} /\ seed'[t] = DeferredSeed(LegacyRank(t))
             /\ seed'[t] \in Nat /\ drawn < seed'[t] /\ seed'[t] <= drawn'
             /\ drawn' \in Nat
             /\ \A u \in L : u < t => seed'[u] < seed'[t]
  <2>1. /\ Rank(L, t) \in Nat /\ Rank(L, t) >= 1 /\ Cardinality(L) \in Nat
        /\ Rank(L, t) <= Cardinality(L)
    BY <1>3, Ranks
  <2>2. \A u \in 1..MaxTask : u < t => Rank(L, u) < Rank(L, t)
    BY <1>3, Ranks
  <2>3. \A u \in L : seed'[u] = DeferredSeed(Rank(L, u))
    BY <1>3, <1>4, <1>5
  <2>4. /\ DeferredSeed(Rank(L, t)) \in Nat /\ drawn < DeferredSeed(Rank(L, t))
        /\ DeferredSeed(Rank(L, t)) <= DeferredSeed(Cardinality(L))
    BY <2>1, DeferredGrows
  <2>5. drawn' = DeferredSeed(Cardinality(L)) /\ drawn' \in Nat
    <3>1. Cardinality(L) \in Nat \ {0}
      BY <2>1
    <3>2. L # {}
      OBVIOUS
    <3> QED
      BY <1>5, <3>1, <3>2, DeferredGrows
  <2>6. ASSUME NEW u \in L, u < t PROVE seed'[u] < seed'[t]
    <3>a. Rank(L, u) \in Nat /\ Rank(L, u) >= 1
      BY <1>3, Ranks
    <3>1. Rank(L, u) \in Nat \ {0}
      BY <3>a
    <3>2. Rank(L, u) < Rank(L, t)
      BY <1>3, <2>2, <2>6
    <3> QED
      BY <2>1, <2>3, <3>1, <3>2, DeferredGrows
  <2> QED
    BY <1>4, <2>1, <2>3, <2>4, <2>5, <2>6
<1>8. drawn' \in Nat /\ drawn <= drawn'
  <2>1. CASE L = {}
    BY <1>5, <1>6, <2>1
  <2>2. CASE L # {}
    <3>1. PICK t \in L : TRUE
      BY <2>2
    <3> QED
      BY <1>6, <1>7, <3>1
  <2> QED
    BY <2>1, <2>2
<1>9. \A t \in Task : t \notin L => seed'[t] = seed[t] /\ seed[t] \in Int /\ seed[t] <= drawn
  BY <1>5, <1>6 DEF SeedsUnique
<1>10. seed' \in [Task -> Int]
  <2>1. \A t \in Task : seed'[t] \in Int
    BY <1>7, <1>9
  <2>2. seed' = [t \in Task |-> seed'[t]]
    BY <1>5
  <2> QED
    BY <2>1, <2>2
<1>11. SeedsUnique'
  <2>1. ASSUME NEW t \in Task PROVE seed'[t] <= drawn'
    <3>1. CASE t \in L
      BY <1>7, <3>1
    <3>2. CASE t \notin L
      BY <1>6, <1>8, <1>9, <3>2
    <3> QED
      BY <3>1, <3>2
  <2>2. ASSUME NEW t \in Task, NEW u \in Task, t # u, seed'[t] > 0
        PROVE  seed'[t] # seed'[u]
    <3>1. CASE t \in L /\ u \in L
      <4>1. t \in Int /\ u \in Int /\ (t < u \/ u < t)
        BY <2>2 DEF Task
      <4>2. seed'[t] \in Nat /\ seed'[u] \in Nat
        BY <1>7, <3>1
      <4>3. seed'[t] < seed'[u] \/ seed'[u] < seed'[t]
        BY <1>7, <3>1, <4>1
      <4> QED
        BY <4>2, <4>3
    <3>2. CASE t \in L /\ u \notin L
      BY <1>6, <1>7, <1>9, <3>2
    <3>3. CASE t \notin L /\ u \in L
      BY <1>6, <1>7, <1>9, <3>3
    <3>4. CASE t \notin L /\ u \notin L
      BY <1>9, <2>2, <3>4 DEF SeedsUnique
    <3> QED
      BY <3>1, <3>2, <3>3, <3>4
  <2> QED
    BY <2>1, <2>2 DEF SeedsUnique
<1>12. Typed'
  BY <1>1, <1>8, <1>10 DEF Typed, history
<1> QED
  BY <1>2, <1>11, <1>12

-----------------------------------------------------------------------------
(* Theorems                                                                *)

LEMMA SubmissionInitial == Init => SubmissionInv
<1> SUFFICES ASSUME Init PROVE SubmissionInv
  OBVIOUS
<1> USE DEF Init
<1>1. Legacy \in 0..MaxTask /\ MaxTask \in Nat
  BY SubmissionAssumption
<1>2. Typed
  BY DEF Typed, RowState
<1>3. KeysAccounted
  BY DEF KeysAccounted, HasReceipt
<1>4. ReceiptsOlder /\ ReceiptsReadable /\ 0 \notin batches
  BY DEF ReceiptsOlder, ReceiptsReadable
<1>5. SeedsUnique
  BY DEF SeedsUnique
<1>6. RemovesDeleted /\ BatchesBacked
  <2>1. job.todo = {} /\ \A t \in Rows : batch[t] = 0
    BY DEF Idle, Rows
  <2>2. {u \in Rows : batch[u] # 0} = {}
    BY <2>1
  <2> QED
    BY <2>1, <2>2 DEF RemovesDeleted, BatchesBacked
<1>7. LogsFollowRows
  BY <1>1 DEF LogsFollowRows, Rows, Ended, Task
<1> QED
  BY <1>2, <1>3, <1>4, <1>5, <1>6, <1>7 DEF SubmissionInv

LEMMA SubmissionStep == SubmissionInv /\ [Next]_vars => SubmissionInv'
<1> SUFFICES ASSUME SubmissionInv, [Next]_vars PROVE SubmissionInv'
  OBVIOUS
<1>1. CASE UNCHANGED vars
  BY <1>1
  DEF vars, tables, history, SubmissionInv, Typed, KeysAccounted, HasReceipt, SeedsUnique,
      ReceiptsOlder, ReceiptsReadable, RemovesDeleted, BatchesBacked, LogsFollowRows, Rows, Ended
<1>2. ASSUME NEW key \in Key \cup {NoKey}, NEW draft \in Draft,
             CreateTask(key, draft) \/ CreateTaskTorn(key, draft)
      PROVE  SubmissionInv'
  <2>1. <<draft>> \in Seq(Draft)
    OBVIOUS
  <2> QED
    BY <1>2, TaskSubmissions, SubmitsStep, RepliesStep DEF SubmissionInv
<1>3. ASSUME NEW key \in Key \cup {NoKey}, NEW drafts \in Batches,
             CreateBatch(key, drafts) \/ RunTemplate(drafts)
      PROVE  SubmissionInv'
  BY <1>3, ListSubmissions, SubmitsStep, RepliesStep DEF SubmissionInv
<1> QED
  BY <1>1, <1>2, <1>3, RepliesStep, PurgeStep, RemoveLogStep, EvictStep, JobEndsStep,
     TaskEndsStep, ClockStep, StartStep DEF Next

\* The accounts of keys, seeds, rows and logs, for every value of the constants.
THEOREM SubmissionInvariant == Spec => []SubmissionInv
BY SubmissionInitial, SubmissionStep, PTL DEF Spec

\* A key is carried out once but for receipts lost to their age and crashes between
\* the task's transaction and idempotency_put (api.py: create_task; storage.py:
\* create_batch, purge_retention).
THEOREM KeysOnce == Spec => []OncePerKey
<1>1. SubmissionInv => OncePerKey
  <2> SUFFICES ASSUME SubmissionInv, NEW rk \in Route \X Key PROVE made[rk] <= 1 + excused[rk]
    BY DEF OncePerKey
  <2>1. made[rk] \in Nat /\ excused[rk] \in Nat
    BY DEF SubmissionInv, Typed
  <2>2. made[rk] <= excused[rk] + (IF HasReceipt(rk) THEN 1 ELSE 0)
    BY DEF SubmissionInv, KeysAccounted
  <2> QED
    BY <2>1, <2>2
<1> QED
  BY <1>1, SubmissionInvariant, PTL

\* A batch receipt can be replayed unless the disk budget or the clock took its
\* tasks (storage.py: create_batch, purge_retention).
THEOREM ReceiptsReplay == Spec => []ReceiptsReadable
<1>1. SubmissionInv => ReceiptsReadable
  BY DEF SubmissionInv
<1> QED
  BY <1>1, SubmissionInvariant, PTL

\* No seed is drawn twice, whatever the clock does and however many are drawn in
\* one transaction (storage.py: _allocate_deferred_locked).
THEOREM SeedsDistinct == Spec => []SeedsUnique
<1>1. SubmissionInv => SeedsUnique
  BY DEF SubmissionInv
<1> QED
  BY <1>1, SubmissionInvariant, PTL

\* Deleting leaves no batch and no log behind (storage.py: _delete_tasks;
\* service.py: maintain).
THEOREM DeletesClean == Spec => []NothingDangling
<1>1. SubmissionInv => NothingDangling
  BY DEF SubmissionInv, NothingDangling
<1> QED
  BY <1>1, SubmissionInvariant, PTL
=============================================================================
