--------------------------- MODULE TaskLogProofs ----------------------------
(***************************************************************************)
(* Proofs about a task log.  Its writers: for any set of them that append   *)
(* chunks of any length (LogSpec), then for those of a task (Spec of        *)
(* TaskLog), whose every step is a step of LogSpec or leaves the log alone. *)
(* Its readers (ScansSpec): a search of it, a window of it, and the result  *)
(* of its simulation.                                                       *)
(***************************************************************************)
EXTENDS TaskLog, Scans, FiniteSetTheorems, SequenceTheorems, WellFoundedInduction, TLAPS

\* An object that has stopped storing, and a loss, are on record unless the
\* record itself could not be kept.
Reported == receipt \in IncompleteReasons \/ broken

LossReported ==
    /\ dropped => Reported
    /\ \A w \in Writer : log[w].open /\ log[w].stopped => Reported

Slack == IF broken THEN Marker - 1 ELSE 0

\* An object's cached size lags behind the file by what others appended, and an
\* object that still stores has room for its marker.
CachedSizes ==
    MaxBytes # 0 =>
        /\ size <= MaxBytes + foreign + Slack
        /\ ~Reported => size <= PayloadLimit + foreign
        /\ \A w \in Writer : log[w].open =>
            /\ size <= log[w].cached + foreign
            /\ ~log[w].stopped => /\ log[w].cached < MaxBytes
                                  /\ broken \/ size <= PayloadLimit + foreign

LogInv == LogTypeOK /\ LossReported /\ CachedSizes

\* write(n) never appends more than n bytes plus the marker, and a chunk that
\* does not fit leaves the file, as the object sees it, at most at its limit.
LEMMA WriteOutcomesBound ==
    ASSUME NEW x \in WriterObject, NEW n \in Nat \ {0}, NEW o \in WriteOutcomes(x, n)
    PROVE  /\ o.kept \in Nat
           /\ o.reason \in IncompleteReasons \cup {"none"}
           /\ x.stopped => o.kept = 0 /\ o.reason = "none"
           /\ MaxBytes # 0 /\ x.cached <= MaxBytes =>
                x.cached + o.kept <= MaxBytes \/ (x.cached > PayloadLimit /\ o.kept <= Marker)
           /\ o.reason = "none" /\ ~x.stopped /\ MaxBytes # 0 => x.cached + o.kept <= PayloadLimit
           /\ o.reason = "none" /\ ~x.stopped => o.kept = n
<1>1. /\ MaxBytes \in Nat /\ Marker \in Nat \ {0} /\ x.cached \in Nat
      /\ x.stopped \in BOOLEAN /\ x.fresh \in BOOLEAN
  BY BoundedLogAssumption DEF WriterObject
<1>2. /\ Wanted(x, n) \in Nat
      /\ Fits(x, n) => Wanted(x, n) = n
      /\ ~Fits(x, n) /\ x.cached <= PayloadLimit => x.cached + Wanted(x, n) = MaxBytes
      /\ ~Fits(x, n) /\ x.cached > PayloadLimit => Wanted(x, n) = Marker
  BY <1>1 DEF Wanted, Payload, Fits, PayloadLimit
<1>3. CASE x.stopped
  BY <1>3, <1>1 DEF WriteOutcomes
<1>4. CASE ~x.stopped
  <2>1. \/ o = [kept |-> 0, reason |-> "disk_reserve"]
        \/ o = [kept |-> Wanted(x, n), reason |-> IF Fits(x, n) THEN "none" ELSE "file_limit"]
        \/ \E k \in 0..(Wanted(x, n) - 1) : o = [kept |-> k, reason |-> "write_error"]
    BY <1>4 DEF WriteOutcomes
  <2>2. CASE o = [kept |-> 0, reason |-> "disk_reserve"]
    BY <2>2, <1>1, <1>4 DEF IncompleteReasons
  <2>3. CASE o = [kept |-> Wanted(x, n), reason |-> IF Fits(x, n) THEN "none" ELSE "file_limit"]
    BY <2>3, <1>1, <1>2, <1>4 DEF IncompleteReasons, Fits, PayloadLimit
  <2>4. CASE \E k \in 0..(Wanted(x, n) - 1) : o = [kept |-> k, reason |-> "write_error"]
    <3>1. PICK k \in 0..(Wanted(x, n) - 1) : o = [kept |-> k, reason |-> "write_error"]
      BY <2>4
    <3>2. CASE Fits(x, n)
      BY <3>1, <3>2, <1>1, <1>2, <1>4 DEF IncompleteReasons, Fits, PayloadLimit
    <3>3. CASE ~Fits(x, n)
      BY <3>1, <3>3, <1>1, <1>2, <1>4 DEF IncompleteReasons, PayloadLimit
    <3> QED BY <3>2, <3>3
  <2> QED BY <2>1, <2>2, <2>3, <2>4
<1> QED BY <1>3, <1>4

-----------------------------------------------------------------------------
(* The writers                                                             *)

\* _mark_incomplete leaves the receipt negative, or the failure is remembered.
LEMMA MarkReports ==
    ASSUME LogTypeOK, NEW reason \in IncompleteReasons \cup {"none"}, MarkIncomplete(reason)
    PROVE  /\ receipt' \in Receipt
           /\ broken' \in BOOLEAN
           /\ broken => broken'
           /\ Reported => Reported'
           /\ reason # "none" => Reported'
<1>1. CASE reason = "none"
  BY <1>1 DEF MarkIncomplete, LogTypeOK, Reported
<1>2. CASE reason # "none"
  <2>1. PICK r \in MarkOutcomes(reason) : receipt' = r /\ broken' = (broken \/ r # reason)
    BY <1>2 DEF MarkIncomplete
  <2>2. r \in Receipt
    BY <1>2 DEF MarkOutcomes, Receipt, IncompleteReasons, LogTypeOK
  <2>3. broken' \in BOOLEAN /\ (broken => broken')
    BY <2>1, Zenon DEF LogTypeOK
  <2>4. reason \in IncompleteReasons
    BY <1>2
  <2>5. Reported'
    BY <2>1, <2>4, Zenon DEF Reported
  <2> QED BY <1>2, <2>1, <2>2, <2>3, <2>5
<1> QED BY <1>1, <1>2

\* One writer's step, split over the facts it can disturb.
LEMMA WriteInv ==
    ASSUME LogInv, NEW w \in Writer, NEW n \in Nat \ {0}, NEW closes \in BOOLEAN,
           Write(w, n, closes)
    PROVE  LogInv'
<1> USE BoundedLogAssumption
<1>1. PICK o \in WriteOutcomes(log[w], n) :
        /\ size' = size + o.kept
        /\ marked' = IF o.kept = 0 THEN marked
                     ELSE o.reason = "file_limit" /\ o.kept = Wanted(log[w], n)
        /\ MarkIncomplete(o.reason)
        /\ log' = [log EXCEPT ![w] =
                      IF closes THEN NoWriter
                      ELSE [open |-> TRUE, cached |-> @.cached + o.kept, fresh |-> FALSE,
                            stopped |-> @.stopped \/ o.reason # "none"]]
        /\ dropped' = (dropped \/ o.kept < n \/ o.reason # "none")
        /\ foreign' = foreign + (IF OthersOpen(w) THEN o.kept ELSE 0)
  BY DEF Write
<1>2. log[w] \in WriterObject /\ log[w].open /\ log[w].cached \in Nat
      /\ log[w].stopped \in BOOLEAN
  BY DEF LogInv, LogTypeOK, WriterObject, Write
<1>3. /\ o.kept \in Nat
      /\ o.reason \in IncompleteReasons \cup {"none"}
      /\ log[w].stopped => o.kept = 0 /\ o.reason = "none"
      /\ MaxBytes # 0 /\ log[w].cached <= MaxBytes =>
            \/ log[w].cached + o.kept <= MaxBytes
            \/ log[w].cached > PayloadLimit /\ o.kept <= Marker
      /\ o.reason = "none" /\ ~log[w].stopped /\ MaxBytes # 0 =>
            log[w].cached + o.kept <= PayloadLimit
      /\ o.reason = "none" /\ ~log[w].stopped => o.kept = n
  BY <1>1, <1>2, WriteOutcomesBound
<1>4. /\ receipt' \in Receipt
      /\ broken' \in BOOLEAN
      /\ broken => broken'
      /\ Reported => Reported'
      /\ o.reason # "none" => Reported'
  BY <1>1, <1>3, MarkReports DEF LogInv
<1>5. /\ exists' \in BOOLEAN /\ disk_low' \in BOOLEAN /\ dropped' \in BOOLEAN
      /\ marked' \in BOOLEAN
  <2>1. exists' = exists /\ disk_low' = disk_low
    BY DEF Write
  <2>2. dropped' \in BOOLEAN
    BY <1>1, <1>3, Zenon
  <2>3. marked' \in BOOLEAN
    BY <1>1, Zenon DEF LogInv, LogTypeOK
  <2> QED BY <2>1, <2>2, <2>3 DEF LogInv, LogTypeOK
<1>6. /\ size \in Nat /\ foreign \in Nat /\ size' \in Nat /\ foreign' \in Nat
  BY <1>1, <1>3 DEF LogInv, LogTypeOK
<1>7. /\ log' \in [Writer -> WriterObject]
      /\ \A v \in Writer \ {w} : log'[v] = log[v]
      /\ log'[w].open => /\ log'[w].cached = log[w].cached + o.kept
                         /\ log'[w].stopped = (log[w].stopped \/ o.reason # "none")
  BY <1>1, <1>2, <1>3 DEF LogInv, LogTypeOK, WriterObject, NoWriter
<1>8. LogTypeOK'
  BY <1>4, <1>5, <1>6, <1>7 DEF LogTypeOK
<1>9. LossReported'
  <2>1. log[w].stopped => Reported'
    BY <1>2, <1>4 DEF LogInv, LossReported
  <2>2. dropped' => Reported'
    <3>1. CASE dropped
      BY <3>1, <1>4 DEF LogInv, LossReported
    <3>2. CASE ~dropped /\ dropped'
      <4>1. o.kept < n \/ o.reason # "none"
        BY <3>2, <1>1, Zenon
      <4>2. CASE o.reason # "none"
        BY <4>2, <1>4
      <4>3. CASE o.reason = "none" /\ o.kept < n
        <5>1. o.kept # n
          BY <4>3, <1>3
        <5> QED BY <5>1, <4>3, <1>3, <2>1
      <4> QED BY <4>1, <4>2, <4>3
    <3> QED BY <3>1, <3>2
  <2>3. ASSUME NEW v \in Writer, log'[v].open, log'[v].stopped PROVE Reported'
    <3>1. CASE v = w
      BY <3>1, <2>3, <2>1, <1>4, <1>7
    <3>2. CASE v # w
      BY <3>2, <2>3, <1>4, <1>7 DEF LogInv, LossReported
    <3> QED BY <3>1, <3>2
  <2> QED BY <2>2, <2>3 DEF LossReported
<1>10. CachedSizes'
  <2> SUFFICES ASSUME MaxBytes # 0 PROVE
        /\ size' <= MaxBytes + foreign' + Slack'
        /\ ~Reported' => size' <= PayloadLimit + foreign'
        /\ \A v \in Writer : log'[v].open =>
            /\ size' <= log'[v].cached + foreign'
            /\ ~log'[v].stopped => /\ log'[v].cached < MaxBytes
                                   /\ broken' \/ size' <= PayloadLimit + foreign'
    BY DEF CachedSizes, PayloadLimit
  <2>1. /\ size <= MaxBytes + foreign + Slack
        /\ ~Reported => size <= PayloadLimit + foreign
        /\ size <= log[w].cached + foreign
        /\ ~log[w].stopped => /\ log[w].cached < MaxBytes
                              /\ broken \/ size <= PayloadLimit + foreign
    BY <1>2 DEF LogInv, CachedSizes
  <2>2. /\ Slack \in Nat /\ Slack' \in Nat /\ Slack <= Slack'
        /\ broken' => Slack' = Marker - 1
        /\ PayloadLimit \in Nat /\ PayloadLimit + Marker = MaxBytes
    BY <1>4 DEF Slack, PayloadLimit
  <2>3. foreign' = foreign + o.kept \/ (foreign' = foreign /\ ~OthersOpen(w))
    BY <1>1, <1>3, <1>6
  <2>4. size' <= MaxBytes + foreign' + Slack'
    <3>1. CASE log[w].stopped
      BY <3>1, <1>1, <1>3, <1>6, <2>1, <2>2, <2>3
    <3>2. CASE foreign' = foreign + o.kept
      BY <3>2, <1>1, <1>3, <1>6, <2>1, <2>2
    <3>3. CASE ~log[w].stopped /\ foreign' = foreign /\ log[w].cached + o.kept <= MaxBytes
      BY <3>3, <1>1, <1>2, <1>3, <1>6, <2>1, <2>2
    <3>4. CASE ~log[w].stopped /\ foreign' = foreign /\ o.kept <= Marker
      BY <3>4, <1>1, <1>2, <1>3, <1>4, <1>6, <2>1, <2>2
    <3> QED BY <3>1, <3>2, <3>3, <3>4, <2>1, <2>3, <1>2, <1>3
  <2>5. size' <= log[w].cached + o.kept + foreign'
    BY <1>1, <1>2, <1>3, <1>6, <2>1, <2>3
  <2>6. ~log[w].stopped /\ o.reason = "none" =>
            /\ log[w].cached + o.kept <= PayloadLimit
            /\ size' <= PayloadLimit + foreign'
    BY <2>2, <2>5, <1>2, <1>3, <1>6
  <2>7. ~Reported' => size' <= PayloadLimit + foreign'
    <3>1. CASE log[w].stopped
      BY <3>1, <1>2, <1>4 DEF LogInv, LossReported
    <3>2. CASE ~log[w].stopped
      BY <3>2, <2>6, <1>4, <1>3
    <3> QED BY <3>1, <3>2, <1>2
  <2>8. ASSUME NEW v \in Writer, log'[v].open
        PROVE  /\ size' <= log'[v].cached + foreign'
               /\ ~log'[v].stopped => /\ log'[v].cached < MaxBytes
                                      /\ broken' \/ size' <= PayloadLimit + foreign'
    <3>1. CASE v = w
      <4>1. size' <= log'[v].cached + foreign'
        BY <3>1, <2>8, <2>5, <1>7
      <4>2. ASSUME ~log'[v].stopped
            PROVE  log'[v].cached < MaxBytes /\ size' <= PayloadLimit + foreign'
        <5>1. ~log[w].stopped /\ o.reason = "none"
          BY <4>2, <3>1, <2>8, <1>7, Zenon
        <5>2. log'[v].cached = log[w].cached + o.kept
          BY <3>1, <2>8, <1>7
        <5> QED BY <5>1, <5>2, <2>6, <2>2, <1>2, <1>3
      <4> QED BY <4>1, <4>2
    <3>2. CASE v # w
      <4>1. log'[v] = log[v] /\ log[v].open
        BY <3>2, <2>8, <1>7
      <4>2. OthersOpen(w)
        BY <3>2, <4>1 DEF OthersOpen
      <4>3. foreign' = foreign + o.kept
        BY <4>2, <2>3
      <4>4. /\ size <= log[v].cached + foreign
            /\ ~log[v].stopped => /\ log[v].cached < MaxBytes
                                  /\ broken \/ size <= PayloadLimit + foreign
        BY <4>1 DEF LogInv, CachedSizes
      <4>5. log[v].cached \in Nat
        BY DEF LogInv, LogTypeOK, WriterObject
      <4> QED BY <4>1, <4>3, <4>4, <4>5, <1>1, <1>3, <1>4, <1>6, <2>2
    <3> QED BY <3>1, <3>2
  <2> QED BY <2>4, <2>7, <2>8
<1> QED BY <1>8, <1>9, <1>10 DEF LogInv

\* The constructor of a writer.
LEMMA OpenInv ==
    ASSUME LogInv, NEW w \in Writer, Open(w)
    PROVE  LogInv'
<1> USE BoundedLogAssumption
<1> DEFINE full == MaxBytes # 0 /\ size >= MaxBytes
<1>1. /\ size' = size /\ foreign' = foreign /\ dropped' = dropped /\ exists' = TRUE
      /\ marked' = marked /\ disk_low' = disk_low
      /\ log' = [log EXCEPT ![w] =
                    [open |-> TRUE, cached |-> size, fresh |-> TRUE,
                     stopped |-> OpenedReceipt \in IncompleteReasons \/ full]]
  BY DEF Open
<1>2. /\ size \in Nat /\ foreign \in Nat /\ LogTypeOK
      /\ log \in [Writer -> WriterObject]
  BY DEF LogInv, LogTypeOK
<1>3. /\ receipt' \in Receipt /\ broken' \in BOOLEAN
      /\ broken => broken'
      /\ Reported => Reported'
      /\ full => Reported'
      /\ OpenedReceipt \in IncompleteReasons => Reported'
  <2>1. CASE ~full
    <3>1. receipt' = OpenedReceipt /\ broken' = broken
      BY <2>1 DEF Open
    <3>2. /\ OpenedReceipt \in Receipt
          /\ receipt \in IncompleteReasons => OpenedReceipt = receipt
      BY <1>2 DEF OpenedReceipt, Receipt, IncompleteReasons, LogTypeOK
    <3> QED BY <2>1, <3>1, <3>2, <1>2, Zenon DEF Reported, LogTypeOK
  <2>2. CASE full
    <3>1. MarkIncomplete("file_limit")
      BY <2>2 DEF Open
    <3> QED BY <3>1, <2>2, <1>2, MarkReports DEF IncompleteReasons
  <2> QED BY <2>1, <2>2
<1>4. /\ log' \in [Writer -> WriterObject]
      /\ \A v \in Writer \ {w} : log'[v] = log[v]
      /\ log'[w].cached = size
      /\ log'[w].stopped = (OpenedReceipt \in IncompleteReasons \/ full)
  BY <1>1, <1>2 DEF WriterObject
<1>5. LogTypeOK'
  BY <1>1, <1>2, <1>3, <1>4 DEF LogTypeOK
<1>6. LossReported'
  <2>1. dropped' => Reported'
    BY <1>1, <1>3 DEF LogInv, LossReported
  <2>2. ASSUME NEW v \in Writer, log'[v].open, log'[v].stopped PROVE Reported'
    <3>1. CASE v = w
      <4>1. OpenedReceipt \in IncompleteReasons \/ full
        BY <3>1, <2>2, <1>4, Zenon
      <4> QED BY <4>1, <1>3
    <3>2. CASE v # w
      BY <3>2, <2>2, <1>3, <1>4 DEF LogInv, LossReported
    <3> QED BY <3>1, <3>2
  <2> QED BY <2>1, <2>2 DEF LossReported
<1>7. CachedSizes'
  <2> SUFFICES ASSUME MaxBytes # 0 PROVE
        /\ size' <= MaxBytes + foreign' + Slack'
        /\ ~Reported' => size' <= PayloadLimit + foreign'
        /\ \A v \in Writer : log'[v].open =>
            /\ size' <= log'[v].cached + foreign'
            /\ ~log'[v].stopped => /\ log'[v].cached < MaxBytes
                                   /\ broken' \/ size' <= PayloadLimit + foreign'
    BY DEF CachedSizes, PayloadLimit
  <2>1. /\ size <= MaxBytes + foreign + Slack
        /\ ~Reported => size <= PayloadLimit + foreign
    BY DEF LogInv, CachedSizes
  <2>2. Slack \in Nat /\ Slack' \in Nat /\ Slack <= Slack'
    BY <1>3 DEF Slack
  <2>3. size' <= MaxBytes + foreign' + Slack'
    BY <1>1, <1>2, <1>3, <2>1 DEF Slack
  <2>4. ~Reported' => size' <= PayloadLimit + foreign'
    BY <1>1, <1>3, <2>1
  <2>5. ASSUME NEW v \in Writer, log'[v].open
        PROVE  /\ size' <= log'[v].cached + foreign'
               /\ ~log'[v].stopped => /\ log'[v].cached < MaxBytes
                                      /\ broken' \/ size' <= PayloadLimit + foreign'
    <3>1. CASE v = w
      <4>1. size' <= log'[v].cached + foreign'
        BY <3>1, <1>1, <1>2, <1>4
      <4>2. ASSUME ~log'[v].stopped
            PROVE  log'[v].cached < MaxBytes /\ (broken' \/ size' <= PayloadLimit + foreign')
        <5>1. OpenedReceipt \notin IncompleteReasons /\ ~full
          BY <4>2, <3>1, <1>4, Zenon
        <5>2. log'[v].cached < MaxBytes
          BY <5>1, <3>1, <1>2, <1>4
        <5>3. receipt' = OpenedReceipt /\ broken' = broken
          BY <5>1 DEF Open
        <5>4. broken' \/ ~Reported'
          BY <5>1, <5>3, Zenon DEF Reported
        <5> QED BY <5>2, <5>4, <2>4
      <4> QED BY <4>1, <4>2
    <3>2. CASE v # w
      BY <3>2, <2>5, <1>1, <1>3, <1>4 DEF LogInv, CachedSizes
    <3> QED BY <3>1, <3>2
  <2> QED BY <2>3, <2>4, <2>5
<1> QED BY <1>5, <1>6, <1>7 DEF LogInv

\* The remaining steps of the log.
LEMMA OtherLogInv ==
    ASSUME LogInv,
           \/ \E w \in Writer : OpenFails(w) \/ Abandon(w)
           \/ DiskFills
           \/ UNCHANGED logVars
    PROVE  LogInv'
<1> USE BoundedLogAssumption
<1>1. ASSUME NEW w \in Writer, OpenFails(w) PROVE LogInv'
  <2>1. /\ broken' = TRUE /\ receipt' = "unreadable" /\ exists' = TRUE
        /\ UNCHANGED <<size, marked, disk_low, log, dropped, foreign>>
    BY <1>1 DEF OpenFails
  <2>2. LogTypeOK'
    BY <2>1 DEF LogInv, LogTypeOK, Receipt
  <2>3. LossReported'
    BY <2>1 DEF LogInv, LossReported, Reported
  <2>5. CachedSizes'
    <3>1. MaxBytes \in Nat /\ size \in Nat /\ foreign \in Nat /\ Reported'
      BY <2>1 DEF LogInv, LogTypeOK, Reported
    <3>2. MaxBytes # 0 => size' <= MaxBytes + foreign' + Slack'
      BY <2>1, <3>1 DEF LogInv, CachedSizes, Slack
    <3>3. MaxBytes # 0 =>
            \A v \in Writer : log'[v].open =>
                /\ size' <= log'[v].cached + foreign'
                /\ ~log'[v].stopped => log'[v].cached < MaxBytes
      BY <2>1 DEF LogInv, CachedSizes
    <3> QED BY <2>1, <3>1, <3>2, <3>3 DEF CachedSizes
  <2> QED BY <2>2, <2>3, <2>5 DEF LogInv
<1>2. ASSUME NEW w \in Writer, Abandon(w) PROVE LogInv'
  <2>1. /\ log' = [log EXCEPT ![w] = NoWriter]
        /\ UNCHANGED <<exists, size, marked, receipt, disk_low, dropped, broken, foreign>>
    BY <1>2 DEF Abandon
  <2>2. /\ log' \in [Writer -> WriterObject]
        /\ \A v \in Writer : log'[v].open => log'[v] = log[v]
    BY <2>1 DEF LogInv, LogTypeOK, WriterObject, NoWriter
  <2>3. Reported' = Reported /\ Slack' = Slack
    BY <2>1 DEF Reported, Slack
  <2>4. LogTypeOK'
    BY <2>1, <2>2 DEF LogInv, LogTypeOK
  <2>5. LossReported'
    BY <2>1, <2>2, <2>3 DEF LogInv, LossReported
  <2>6. CachedSizes'
    BY <2>1, <2>2, <2>3 DEF LogInv, CachedSizes, PayloadLimit
  <2> QED BY <2>4, <2>5, <2>6 DEF LogInv
<1>3. CASE DiskFills
  BY <1>3 DEF DiskFills, LogInv, LogTypeOK, LossReported, CachedSizes, PayloadLimit, Reported, Slack
<1>4. CASE UNCHANGED logVars
  BY <1>4 DEF logVars, LogInv, LogTypeOK, LossReported, CachedSizes, PayloadLimit, Reported, Slack
<1> QED BY <1>1, <1>2, <1>3, <1>4

\* Initially there is no file and no writer.
LEMMA LogInitInv == LogInit => LogInv
<1> SUFFICES ASSUME LogInit PROVE LogInv
  OBVIOUS
<1>1. log = [w \in Writer |-> NoWriter] /\ \A w \in Writer : ~log[w].open
  BY DEF LogInit, NoWriter
<1>2. LogTypeOK
  <2>1. "missing" \in Receipt /\ NoWriter \in WriterObject
    BY DEF Receipt, WriterObject, NoWriter
  <2>2. log \in [Writer -> WriterObject]
    BY <1>1, <2>1
  <2> QED BY <2>1, <2>2 DEF LogInit, LogTypeOK
<1>3. LossReported
  BY <1>1 DEF LogInit, LossReported
<1>4. CachedSizes
  <2>1. MaxBytes \in Nat /\ Marker \in Nat /\ (MaxBytes # 0 => MaxBytes > Marker)
    BY BoundedLogAssumption
  <2>2. size = 0 /\ foreign = 0 /\ Slack = 0
    BY DEF LogInit, Slack
  <2> QED BY <1>1, <2>1, <2>2 DEF CachedSizes, PayloadLimit
<1> QED BY <1>2, <1>3, <1>4 DEF LogInv

\* Any number of writers, appending chunks of any length, keep LogInv.
THEOREM LogInvariant == LogSpec => []LogInv
<1>1. LogInv /\ [LogNext]_logVars => LogInv'
  BY WriteInv, OpenInv, OtherLogInv DEF LogNext
<1> QED BY <1>1, LogInitInv, PTL DEF LogSpec

\* The consequences a reader of a log relies on.
LEMMA LogInvImplies == LogInv => HonestReceipt /\ OverlapBound
<1> SUFFICES ASSUME LogInv PROVE HonestReceipt /\ OverlapBound
  OBVIOUS
<1>1. HonestReceipt
  <2>1. SUFFICES ASSUME output_integrity = "complete", ~broken, dropped PROVE FALSE
    BY DEF HonestReceipt
  <2>2. receipt \in IncompleteReasons
    BY <2>1 DEF LogInv, LossReported, Reported
  <2>3. receipt # "missing" /\ receipt # "complete"
    BY <2>2 DEF IncompleteReasons
  <2> QED BY <2>1, <2>3 DEF output_integrity
<1>2. OverlapBound
  BY DEF LogInv, CachedSizes, OverlapBound, Slack
<1> QED BY <1>1, <1>2

-----------------------------------------------------------------------------
(* The writers of a task                                                   *)

TerminalOK == pty \in Nat /\ ("output" \in ready => pty > 0)

\* The pseudo terminal holds a number of bytes: a read takes no more than it has,
\* and finds what select reported.
LEMMA TerminalType == Spec => []TerminalOK
<1>1. Init => TerminalOK
  BY DEF Init, TerminalOK
<1>2. TerminalOK /\ [Next]_vars => TerminalOK'
  <2> SUFFICES ASSUME TerminalOK, [Next]_vars PROVE TerminalOK'
    OBVIOUS
  <2> USE DEF TerminalOK
  <2>1. "output" \in Ready => pty > 0
    BY DEF Ready
  <2>2. CASE SupervisorReads
    <3>1. /\ ReadSize \in Nat /\ pty' = pty - Least(pty, ReadSize)
          /\ ready' = Ready \ {"output"}
      BY <2>2, TaskLogAssumption DEF SupervisorReads, Served
    <3> QED BY <3>1 DEF Least
  <2>3. CASE ProgramWrites
    BY <2>3 DEF ProgramWrites, loopVars
  <2>4. CASE SupervisorReceives
    <3>1. pty' = pty /\ ready' = Ready \ {"control"}
      BY <2>4 DEF SupervisorReceives, Served
    <3> QED BY <2>1, <3>1
  <2>5. CASE SupervisorTypes
    <3>1. pty' = pty /\ ready' = ready
      BY <2>5 DEF SupervisorTypes, Served
    <3> QED BY <3>1
  <2>6. CASE ~SupervisorReads /\ ~ProgramWrites /\ ~SupervisorReceives /\ ~SupervisorTypes
    <3>1. pty' = pty /\ ready' = ready
      BY <2>6 DEF Next, vars, programVars, loopVars, Controller, ServiceOpens, ServiceWrites,
         ExecutorOpens, ExecutorStarting, ExecutorAccepted, ExecutorStartFailed, ControllerSends,
         SystemdRuns, ProgramReads, ProgramExits, Supervisor, SupervisorOpens, SupervisorPreamble,
         SelectTimesOut, TypingFails, WaitpidAlive, WaitpidExited, SupervisorKilled, Disk
    <3> QED BY <3>1
  <2> QED BY <2>2, <2>3, <2>4, <2>5, <2>6
<1> QED BY <1>1, <1>2, PTL DEF Spec

\* Every step of TaskLog appends through one of the three writers or leaves the
\* log alone: the service, the executor and the supervisor together implement
\* the log that LogSpec describes.
THEOREM TaskLogImplementsLog == Spec => LogSpec
<1>0. Spec => []TerminalOK
  BY TerminalType
<1>1. Init => LogInit
  BY DEF Init
<1>2. TerminalOK /\ Next => [LogNext]_logVars
  <2> SUFFICES ASSUME TerminalOK, Next PROVE [LogNext]_logVars
    OBVIOUS
  <2> USE TaskLogAssumption
  <2>1. CASE Controller
    <3>1. \/ \E w \in Writer : Open(w) \/ OpenFails(w)
          \/ \E w \in Writer, closes \in BOOLEAN : Write(w, 1, closes)
          \/ UNCHANGED logVars
      BY <2>1 DEF Controller, ServiceOpens, ServiceWrites, ExecutorOpens, ExecutorStarting,
         ExecutorAccepted, ExecutorStartFailed, ControllerSends
    <3> QED BY <3>1 DEF LogNext
  <2>2. CASE Supervisor
    <3>1. CASE SupervisorOpens
      BY <3>1 DEF SupervisorOpens, LogNext
    <3>2. CASE SupervisorPreamble \/ WaitpidExited
      <4>1. \E w \in Writer, closes \in BOOLEAN : Write(w, 1, closes)
        BY <3>2 DEF SupervisorPreamble, WaitpidExited
      <4> QED BY <4>1 DEF LogNext
    <3>3. CASE SupervisorReceives \/ SupervisorTypes \/ SelectTimesOut \/ WaitpidAlive
      BY <3>3 DEF SupervisorReceives, SupervisorTypes, SelectTimesOut, WaitpidAlive
    <3>4. CASE SupervisorReads
      <4>1. Write("supervisor", Least(pty, ReadSize), FALSE)
        BY <3>4 DEF SupervisorReads
      <4>2. pty \in Nat \ {0}
        BY <3>4 DEF SupervisorReads, Serving, Ready, TerminalOK
      <4>3. Least(pty, ReadSize) \in Nat \ {0}
        BY <4>2 DEF Least
      <4> QED BY <4>1, <4>3 DEF LogNext
    <3> QED BY <2>2, <3>1, <3>2, <3>3, <3>4 DEF Supervisor
  <2>3. CASE SystemdRuns \/ ProgramWrites \/ ProgramReads \/ ProgramExits
    BY <2>3 DEF SystemdRuns, ProgramWrites, ProgramReads, ProgramExits
  <2>4. CASE TypingFails \/ SupervisorKilled
    BY <2>4 DEF TypingFails, SupervisorKilled, LogNext
  <2>5. CASE Disk
    BY <2>5 DEF Disk, LogNext
  <2> QED BY <2>1, <2>2, <2>3, <2>4, <2>5 DEF Next
<1>3. UNCHANGED vars => UNCHANGED logVars
  BY DEF vars
<1> QED BY <1>0, <1>1, <1>2, <1>3, PTL DEF Spec, LogSpec

\* The receipt of a task log is honest, whatever limit, full disk or write error
\* its three writers meet (log_files.py:84-160).
THEOREM TaskLogReceipt == Spec => []HonestReceipt
  BY TaskLogImplementsLog, LogInvariant, LogInvImplies, PTL

\* A task log exceeds its limit only by what overlapping writers appended, and by
\* one marker if its receipt was lost (log_files.py:74, 122-160).
THEOREM TaskLogBound == Spec => []OverlapBound
  BY TaskLogImplementsLog, LogInvariant, LogInvImplies, PTL

-----------------------------------------------------------------------------
(* Counting bytes                                                          *)

\* The length and the bytes of a part of a log.
LEMMA PartOf ==
    ASSUME NEW S, NEW s \in Seq(S), NEW a \in Nat, NEW b \in Nat, a <= b, b <= Len(s)
    PROVE  /\ SubSeq(s, a + 1, b) \in Seq(S)
           /\ Len(SubSeq(s, a + 1, b)) = b - a
           /\ DOMAIN SubSeq(s, a + 1, b) = 1..b - a
           /\ \A i \in 1..b - a : SubSeq(s, a + 1, b)[i] = s[a + i]
<1>1. \A i \in a + 1..b : s[i] \in S
  BY ElementOfSeq
<1>2. /\ SubSeq(s, a + 1, b) \in Seq(S)
      /\ Len(SubSeq(s, a + 1, b)) = IF a + 1 <= b THEN b - (a + 1) + 1 ELSE 0
      /\ \A i \in 1..b - (a + 1) + 1 : SubSeq(s, a + 1, b)[i] = s[a + 1 + i - 1]
  BY <1>1, SubSeqProperties
<1>3. Len(SubSeq(s, a + 1, b)) = b - a
  BY <1>2
<1>4. DOMAIN SubSeq(s, a + 1, b) = 1..Len(SubSeq(s, a + 1, b))
  BY <1>2, LenProperties
<1>5. \A i \in 1..b - a : SubSeq(s, a + 1, b)[i] = s[a + i]
  BY <1>2
<1> QED BY <1>2, <1>3, <1>4, <1>5

Places(s, a, b, x) == {i \in a + 1..b : s[i] = x}

\* A byte is counted in a part of a log where it stands in the log.
LEMMA BytesOfPart ==
    ASSUME NEW S, NEW s \in Seq(S), NEW a \in Nat, NEW b \in Nat, a <= b, b <= Len(s), NEW x
    PROVE  /\ IsFiniteSet(Places(s, a, b, x))
           /\ Bytes(SubSeq(s, a + 1, b), x) = Cardinality(Places(s, a, b, x))
           /\ Bytes(SubSeq(s, a + 1, b), x) \in 0..b - a
<1> DEFINE P == SubSeq(s, a + 1, b)
           D == {i \in DOMAIN P : P[i] = x}
           E == Places(s, a, b, x)
           f == [i \in D |-> a + i]
<1>1. /\ IsFiniteSet(1..b - a) /\ Cardinality(1..b - a) = b - a
  BY FS_Interval
<1>2. D \subseteq 1..b - a
  BY PartOf
<1>3. IsFiniteSet(D) /\ Cardinality(D) \in 0..b - a
  <2>1. IsFiniteSet(D) /\ Cardinality(D) <= Cardinality(1..b - a)
    BY <1>1, <1>2, FS_Subset
  <2>2. Cardinality(D) \in Nat
    BY <2>1, FS_CardinalityType
  <2> HIDE DEF D
  <2> QED BY <2>1, <2>2, <1>1
<1>4. D = {i \in 1..b - a : s[a + i] = x}
  <2>1. DOMAIN P = 1..b - a /\ \A i \in 1..b - a : P[i] = s[a + i]
    BY PartOf
  <2> HIDE DEF P
  <2> QED BY <2>1
<1>5. f \in Bijection(D, E)
  <2>1. f \in [D -> E]
    BY <1>4 DEF Places
  <2>2. \A i, j \in D : f[i] = f[j] => i = j
    BY <1>4
  <2>3. \A e \in E : \E i \in D : f[i] = e
    <3> TAKE e \in E
    <3>1. e - a \in D
      <4>1. e \in a + 1..b /\ s[e] = x
        BY DEF Places
      <4>2. e - a \in 1..b - a /\ a + (e - a) = e
        BY <4>1
      <4> HIDE DEF D
      <4> QED BY <1>4, <4>1, <4>2
    <3> WITNESS e - a \in D
    <3> QED BY <3>1 DEF Places
  <2> QED BY <2>1, <2>2, <2>3 DEF Bijection, Injection, Surjection, IsInjective
<1>6. ExistsBijection(D, E)
  BY <1>5 DEF ExistsBijection
<1>7. IsFiniteSet(E) /\ Cardinality(E) = Cardinality(D)
  BY <1>3, <1>6, FS_Bijection
<1>8. Bytes(P, x) = Cardinality(D)
  BY DEF Bytes
<1> QED BY <1>3, <1>7, <1>8

\* What is counted in two parts that touch is counted in both together.
LEMMA BytesSplit ==
    ASSUME NEW S, NEW s \in Seq(S), NEW a \in Nat, NEW b \in Nat, NEW c \in Nat,
           a <= b, b <= c, c <= Len(s), NEW x
    PROVE  Bytes(SubSeq(s, a + 1, c), x) =
             Bytes(SubSeq(s, a + 1, b), x) + Bytes(SubSeq(s, b + 1, c), x)
<1> DEFINE A == Places(s, a, b, x)
           B == Places(s, b, c, x)
<1>1. /\ IsFiniteSet(A) /\ Bytes(SubSeq(s, a + 1, b), x) = Cardinality(A)
      /\ IsFiniteSet(B) /\ Bytes(SubSeq(s, b + 1, c), x) = Cardinality(B)
      /\ Bytes(SubSeq(s, a + 1, c), x) = Cardinality(Places(s, a, c, x))
  <2>1. b <= Len(s) /\ a <= c
    BY LenProperties
  <2> QED BY <2>1, BytesOfPart
<1>2. Places(s, a, c, x) = A \cup B /\ A \cap B = {}
  BY DEF Places
<1>3. Cardinality(A \cup B) = Cardinality(A) + Cardinality(B) - Cardinality(A \cap B)
  BY <1>1, FS_Union
<1>4. Cardinality(A) \in Nat /\ Cardinality(B) \in Nat /\ Cardinality({}) = 0
  BY <1>1, FS_CardinalityType, FS_EmptySet
<1>5. Cardinality(A \cap B) = 0
  BY <1>2, <1>4
<1>6. Cardinality(Places(s, a, c, x)) = Cardinality(A \cup B)
  BY <1>2
<1> QED BY <1>1, <1>3, <1>4, <1>5, <1>6

-----------------------------------------------------------------------------
(* What a terminal window costs                                            *)

LEMMA ProductMonotone ==
    ASSUME NEW k \in Nat, NEW m \in Nat, NEW n \in Nat, m <= n
    PROVE  k * m \in Nat /\ k * n \in Nat /\ k * m <= k * n
<1>1. PICK d \in Nat : n = m + d
  <2>1. n - m \in Nat /\ n = m + (n - m)
    OBVIOUS
  <2> QED BY <2>1
<1>2. k * (m + d) = k * m + k * d /\ k * d \in Nat /\ k * m \in Nat
  OBVIOUS
<1> QED BY <1>1, <1>2

LEMMA QuotientMonotone ==
    ASSUME NEW c \in Nat \ {0}, NEW m \in Nat, NEW n \in Nat, m <= n
    PROVE  m \div c \in Nat /\ n \div c \in Nat /\ m \div c <= n \div c
<1> DEFINE p == m \div c
           q == n \div c
<1>1. /\ p \in Nat /\ m = c * p + (m % c) /\ m % c \in 0..c - 1
      /\ q \in Nat /\ n = c * q + (n % c) /\ n % c \in 0..c - 1
  OBVIOUS
<1>2. ASSUME q + 1 <= p PROVE FALSE
  <2>1. c * (q + 1) <= c * p
    BY <1>1, <1>2, ProductMonotone
  <2>2. c * (q + 1) = c * q + c /\ c * q \in Nat /\ c * p \in Nat
    BY <1>1
  <2> HIDE DEF p, q
  <2> QED BY <1>1, <2>1, <2>2
<1> HIDE DEF p, q
<1>3. p <= q
  BY <1>1, <1>2
<1> QED BY <1>1, <1>3 DEF p, q

\* A part of a part takes no more rows.
LEMMA CostMonotone ==
    ASSUME NEW s \in Seq(Byte), NEW a \in Nat, NEW b \in Nat, NEW c \in Nat, NEW d \in Nat,
           a <= b, b <= c, c <= d, d <= Len(s)
    PROVE  /\ Cost(SubSeq(s, b + 1, c)) \in Nat
           /\ Cost(SubSeq(s, b + 1, c)) <= Cost(SubSeq(s, a + 1, d))
<1>0. /\ Columns \in Nat \ {0} /\ Columns - 1 \in Nat
      /\ Tab - 1 \in Nat
  BY WindowAssumption
<1> DEFINE B(x) == Bytes(SubSeq(s, b + 1, c), x)
           A(x) == Bytes(SubSeq(s, a + 1, d), x)
           inner == c - b + (Tab - 1) * B("t") + Columns - 1
           outer == d - a + (Tab - 1) * A("t") + Columns - 1
<1>1. \A x : B(x) \in Nat /\ A(x) \in Nat /\ B(x) <= A(x)
  <2> TAKE x
  <2>1. a <= d /\ b <= d /\ c <= Len(s) /\ b <= Len(s)
    BY LenProperties
  <2>2. A(x) = Bytes(SubSeq(s, a + 1, b), x) + Bytes(SubSeq(s, b + 1, d), x)
    BY <2>1, BytesSplit
  <2>3. Bytes(SubSeq(s, b + 1, d), x) = B(x) + Bytes(SubSeq(s, c + 1, d), x)
    BY <2>1, BytesSplit
  <2>4. /\ Bytes(SubSeq(s, a + 1, b), x) \in 0..b - a
        /\ Bytes(SubSeq(s, c + 1, d), x) \in 0..d - c
        /\ B(x) \in 0..c - b
    BY <2>1, BytesOfPart
  <2> HIDE DEF A, B
  <2> QED BY <2>2, <2>3, <2>4
<1>2. Len(SubSeq(s, b + 1, c)) = c - b /\ Len(SubSeq(s, a + 1, d)) = d - a
  <2>1. a <= d /\ c <= Len(s)
    BY LenProperties
  <2> QED BY <2>1, PartOf
<1>3. /\ Cost(SubSeq(s, b + 1, c)) = B("n") + inner \div Columns
      /\ Cost(SubSeq(s, a + 1, d)) = A("n") + outer \div Columns
  BY <1>2 DEF Cost
<1>4. inner \in Nat /\ outer \in Nat /\ inner <= outer
  <2>1. /\ (Tab - 1) * B("t") \in Nat /\ (Tab - 1) * A("t") \in Nat
        /\ (Tab - 1) * B("t") <= (Tab - 1) * A("t")
    BY <1>0, <1>1, ProductMonotone
  <2> HIDE DEF A, B
  <2> QED BY <2>1, <1>0
<1> HIDE DEF A, B, inner, outer
<1>5. /\ inner \div Columns \in Nat /\ outer \div Columns \in Nat
      /\ inner \div Columns <= outer \div Columns
  BY <1>0, <1>4, QuotientMonotone
<1> QED BY <1>1, <1>3, <1>5

\* A part of the bytes that any as many bytes fit with fits.
LEMMA FewFit ==
    ASSUME NEW n \in Nat, AllFit(n), NEW s \in Seq(Byte), NEW a \in Nat, NEW b \in Nat,
           a <= b, b <= Len(s), b - a <= n
    PROVE  Cost(SubSeq(s, a + 1, b)) <= Rows
<1> DEFINE t == [i \in 1..n |-> IF i <= b - a THEN s[a + i] ELSE "a"]
<1>1. t \in [1..n -> Byte]
  <2>1. \A i \in 1..b - a : a + i \in 1..Len(s)
    BY LenProperties
  <2>2. \A i \in 1..b - a : s[a + i] \in Byte
    BY <2>1, ElementOfSeq
  <2> QED BY <2>2 DEF Byte
<1>2. Cost(t) <= Rows
  BY <1>1 DEF AllFit
<1>3. t \in Seq(Byte) /\ Len(t) = n
  BY <1>1, IsASeq DEF Byte
<1>4. SubSeq(s, a + 1, b) = SubSeq(t, 1, b - a)
  <2>1. /\ SubSeq(s, a + 1, b) \in Seq(Byte)
        /\ Len(SubSeq(s, a + 1, b)) = b - a
        /\ \A i \in 1..b - a : SubSeq(s, a + 1, b)[i] = s[a + i]
    BY PartOf
  <2>2. /\ SubSeq(t, 0 + 1, b - a) \in Seq(Byte)
        /\ Len(SubSeq(t, 0 + 1, b - a)) = b - a - 0
        /\ \A i \in 1..b - a - 0 : SubSeq(t, 0 + 1, b - a)[i] = t[0 + i]
    <3> HIDE DEF t
    <3> QED BY <1>3, PartOf
  <2>3. 0 + 1 = 1 /\ b - a - 0 = b - a
    OBVIOUS
  <2>4. /\ SubSeq(t, 1, b - a) \in Seq(Byte)
        /\ Len(SubSeq(t, 1, b - a)) = b - a
        /\ \A i \in 1..b - a : SubSeq(t, 1, b - a)[i] = s[a + i]
    BY <2>2, <2>3
  <2> HIDE DEF t
  <2> QED BY <2>1, <2>4, SeqEqual
<1>5. SubSeq(t, 1, n) = t
  <2> HIDE DEF t
  <2> QED BY <1>3, SubSeqFull
<1>6. /\ Cost(SubSeq(t, 1, b - a)) \in Nat
      /\ Cost(SubSeq(t, 1, b - a)) <= Cost(SubSeq(t, 1, n))
      /\ Cost(SubSeq(t, 1, n)) \in Nat
  <2> HIDE DEF t
  <2>1. b - a \in Nat /\ n <= Len(t) /\ 0 + 1 = 1 /\ 0 \in Nat /\ 0 <= b - a /\ 0 <= 0 /\ 0 <= n /\ n <= n
    BY <1>3
  <2>2. /\ Cost(SubSeq(t, 0 + 1, b - a)) \in Nat
        /\ Cost(SubSeq(t, 0 + 1, b - a)) <= Cost(SubSeq(t, 0 + 1, n))
    BY <1>3, <2>1, CostMonotone
  <2>3. Cost(SubSeq(t, 0 + 1, n)) \in Nat
    BY <1>3, <2>1, CostMonotone
  <2> QED BY <2>1, <2>2, <2>3
<1> HIDE DEF t
<1>7. Rows \in Nat
  BY WindowAssumption
<1>8. Cost(SubSeq(t, 1, n)) <= Rows
  BY <1>2, <1>5
<1>9. Cost(SubSeq(s, a + 1, b)) = Cost(SubSeq(t, 1, b - a))
  BY <1>4
<1> QED BY <1>6, <1>7, <1>8, <1>9

-----------------------------------------------------------------------------
(* The window of a terminal                                                *)

Direction == {"tail", "later", "hit"}

RequestOK ==
    /\ text \in Seq(Byte)
    /\ request \in [start : Nat, end : Nat, hit : Nat, direction : Direction]

WindowTypeOK ==
    /\ RequestOK
    /\ low \in Nat
    /\ high \in Nat

\* low bytes fit and, unless they are all, more than high bytes do not.
WindowInv ==
    /\ WindowTypeOK
    /\ low <= high
    /\ high <= End(request) - Start(request)
    /\ Cost(Part(request, low)) <= Rows
    /\ high < End(request) - Start(request) => ~(Cost(Part(request, high + 1)) <= Rows)
    /\ window # <<>> => low = high /\ window = Chosen(request)

LEMMA ExtremeOfTwo ==
    ASSUME NEW x \in Int, NEW y \in Int
    PROVE  /\ Min({x, y}) = IF x <= y THEN x ELSE y
           /\ Max({x, y}) = IF x <= y THEN y ELSE x
  BY DEF Min, Max

LEMMA ExtremeOfThree ==
    ASSUME NEW x \in Int, NEW y \in Int, NEW z \in Int
    PROVE  /\ Max({x, y, z}) \in {x, y, z}
           /\ Max({x, y, z}) >= x /\ Max({x, y, z}) >= y /\ Max({x, y, z}) >= z
<1>1. \E m \in {x, y, z} : \A k \in {x, y, z} : m >= k
  <2>1. CASE x >= y /\ x >= z
    BY <2>1
  <2>2. CASE y >= x /\ y >= z
    BY <2>2
  <2>3. CASE z >= x /\ z >= y
    BY <2>3
  <2> QED BY <2>1, <2>2, <2>3
<1> QED BY <1>1 DEF Max

\* What is looked at lies in the log, and reaches back to what leads up to a hit.
LEMMA Looked ==
    ASSUME RequestOK
    PROVE  /\ Start(request) \in Nat /\ End(request) \in Nat /\ Len(text) \in Nat
           /\ Start(request) <= End(request) /\ End(request) <= Len(text)
           /\ request.direction = "hit" /\ request.hit < End(request) =>
                request.hit - Lead <= Start(request)
<1> DEFINE e == End(request)
           top == Max({0, request.start, e - Span})
           from == Min({e, top})
<1>1. /\ request.start \in Nat /\ request.end \in Nat /\ request.hit \in Nat
      /\ Len(text) \in Nat /\ Span \in Nat /\ Lead \in Nat
  BY WindowAssumption, LenProperties DEF RequestOK
<1>2. e \in Nat /\ e <= Len(text)
  BY <1>1 DEF End, Clip
<1>3. top \in Int /\ top >= 0
  <2> HIDE DEF e
  <2>1. 0 \in Int /\ request.start \in Int /\ e - Span \in Int
    BY <1>1, <1>2
  <2>2. /\ top \in {0, request.start, e - Span}
        /\ top >= 0
    BY <2>1, ExtremeOfThree
  <2> HIDE DEF top
  <2> QED BY <2>1, <2>2
<1>4. from \in Nat /\ from <= e
  <2> HIDE DEF e, top
  <2> QED BY <1>2, <1>3, ExtremeOfTwo
<1>5. CASE request.direction # "hit"
  BY <1>1, <1>2, <1>4, <1>5 DEF Start
<1>6. CASE request.direction = "hit"
  <2> DEFINE before == Min({e, request.hit}) - Lead
  <2>1. Start(request) = Max({from, before})
    BY <1>6 DEF Start
  <2>2. before \in Int /\ before <= e /\ (request.hit < e => before = request.hit - Lead)
    <3> HIDE DEF e
    <3> QED BY <1>1, <1>2, ExtremeOfTwo
  <2>3. Max({from, before}) = IF from <= before THEN before ELSE from
    <3> HIDE DEF from, before
    <3> QED BY <1>4, <2>2, ExtremeOfTwo
  <2> HIDE DEF e, from, before
  <2> QED BY <1>1, <1>2, <1>4, <2>1, <2>2, <2>3 DEF e
<1> QED BY <1>5, <1>6

\* The part that k bytes are, by its places in the log.
LEMMA PartPlaces ==
    ASSUME RequestOK, NEW k \in Nat, k <= End(request) - Start(request)
    PROVE  LET a == IF Forward(request) THEN Start(request) ELSE End(request) - k
               b == IF Forward(request) THEN Start(request) + k ELSE End(request)
           IN /\ a \in Nat /\ b \in Nat /\ a <= b /\ Start(request) <= a /\ b <= End(request)
              /\ b - a = k
              /\ Part(request, k) = SubSeq(text, a + 1, b)
<1>1. /\ Start(request) \in Nat /\ End(request) \in Nat /\ Start(request) <= End(request)
  BY Looked
<1>2. CASE Forward(request)
  <2>1. Part(request, k) = SubSeq(text, Start(request) + 1, Start(request) + k)
    BY <1>2 DEF Part
  <2>2. /\ Start(request) + k \in Nat /\ Start(request) <= Start(request) + k
        /\ Start(request) + k <= End(request) /\ (Start(request) + k) - Start(request) = k
        /\ Start(request) <= Start(request)
    BY <1>1
  <2> QED BY <1>1, <1>2, <2>1, <2>2, Zenon
<1>3. CASE ~Forward(request)
  <2>1. Part(request, k) = SubSeq(text, End(request) - k + 1, End(request))
    BY <1>3 DEF Part
  <2> QED BY <1>1, <1>3, <2>1
<1> QED BY <1>2, <1>3

\* When halving ends, all bytes fit or as many as any bytes that fit.
LEMMA AsManyAsFit ==
    ASSUME WindowInv, low = high, NEW n \in Nat, AllFit(n)
    PROVE  low = End(request) - Start(request) \/ low >= n
<1>1. /\ Start(request) \in Nat /\ End(request) \in Nat /\ Start(request) <= End(request)
      /\ End(request) <= Len(text) /\ Len(text) \in Nat /\ low \in Nat /\ RequestOK
      /\ low <= End(request) - Start(request)
  BY Looked DEF WindowInv, WindowTypeOK, RequestOK
<1>2. SUFFICES ASSUME low < End(request) - Start(request), low + 1 <= n
               PROVE  FALSE
  BY <1>1
<1> DEFINE a == IF Forward(request) THEN Start(request) ELSE End(request) - (low + 1)
           b == IF Forward(request) THEN Start(request) + (low + 1) ELSE End(request)
<1>3. ~(Cost(Part(request, low + 1)) <= Rows)
  BY <1>1, <1>2 DEF WindowInv
<1>4. /\ a \in Nat /\ b \in Nat /\ a <= b /\ b <= End(request) /\ b - a = low + 1
      /\ Part(request, low + 1) = SubSeq(text, a + 1, b)
  <2>1. low + 1 \in Nat /\ low + 1 <= End(request) - Start(request)
    BY <1>1, <1>2
  <2> QED BY <1>1, <2>1, PartPlaces
<1> HIDE DEF a, b
<1>5. b <= Len(text) /\ b - a <= n /\ text \in Seq(Byte)
  BY <1>1, <1>2, <1>4 DEF RequestOK
<1>6. Cost(SubSeq(text, a + 1, b)) <= Rows
  BY <1>4, <1>5, FewFit
<1> QED BY <1>3, <1>4, <1>6

LEMMA LeastExists ==
    ASSUME NEW T, T \subseteq Nat, T # {}
    PROVE  \E m \in T : \A k \in T : m <= k
<1>1. PICK m \in T : \A k \in T : ~(<<k, m>> \in OpToRel(<, Nat))
  BY NatLessThanWellFounded, WFMin
<1>2. \A k \in T : ~(k < m)
  BY <1>1 DEF OpToRel
<1>3. \A k \in T : m <= k
  BY <1>2
<1> QED BY <1>3

\* Going back from an edge stops at the start of a character, unless the bytes before
\* the edge are of none; it passes over no other start, and not all bytes.
LEMMA AlignedBack ==
    ASSUME RequestOK, Forward(request), NEW edge \in Nat,
           Start(request) <= edge, edge <= End(request),
           edge = End(request) \/ edge - Start(request) > Further
    PROVE  LET e == Aligned(edge, -1, request)
           IN /\ e \in Nat /\ Start(request) <= e /\ e <= edge /\ edge - e <= Further
              /\ Start(request) < edge => Start(request) < e
              /\ \A p \in e + 1..edge : Inside(p, request)
              /\ \/ ~Inside(e, request)
                 \/ \A k \in 0..Further : Inside(e - k, request)
<1> DEFINE st == Start(request)
           ok == Steps(edge, -1, request)
           e == IF ok = {} THEN edge ELSE edge + Min(ok) * (-1)
           A == Aligned(edge, -1, request)
<1>1. /\ st \in Nat /\ End(request) \in Nat /\ Further \in Nat
  BY Looked, WindowAssumption
<1>2. A = IF e = st THEN edge ELSE e
  BY DEF Aligned
<1>3. \A k \in Int : edge + k * (-1) = edge - k
  OBVIOUS
<1>4. ok = {k \in 0..Further : /\ st <= edge - k /\ ~Inside(edge - k, request)
                              /\ \A j \in 0..k - 1 : Inside(edge - j, request)}
  BY <1>1, <1>3 DEF Steps
<1>5. ~Inside(End(request), request)
  BY <1>1 DEF Inside
<1>6. CASE ok = {}
  <2>1. ASSUME NEW k \in 0..Further, ~Inside(edge - k, request)
        PROVE  FALSE
    <3> DEFINE T == {i \in 0..Further : ~Inside(edge - i, request)}
    <3>1. PICK m \in T : \A i \in T : m <= i
      <4>1. k \in T /\ T \subseteq Nat
        BY <1>1, <2>1
      <4> HIDE DEF T
      <4> QED BY <4>1, LeastExists
    <3>2. \A j \in 0..m - 1 : Inside(edge - j, request)
      BY <3>1, <1>1
    <3>3. edge # End(request) => st <= edge - m
      BY <1>1, <3>1
    <3>4. edge = End(request) => m = 0
      BY <1>1, <1>5, <3>1, <3>2
    <3>5. st <= edge - m
      BY <1>1, <3>3, <3>4
    <3>6. m \in ok
      BY <1>4, <3>1, <3>2, <3>5
    <3> QED BY <3>6, <1>6
  <2>2. A = edge
    BY <1>2, <1>6
  <2> QED BY <1>1, <2>1, <2>2
<1>7. CASE ok # {}
  <2>1. PICK k \in ok : e = edge + k * (-1)
    <3>1. ok \subseteq Nat
      BY <1>1 DEF Steps
    <3>2. Min(ok) \in ok
      <4> HIDE DEF ok
      <4>1. \E m \in ok : \A k \in ok : m <= k
        BY <1>7, <3>1, LeastExists
      <4> QED BY <4>1 DEF Min
    <3> QED BY <1>7, <3>2
  <2>2. /\ k \in 0..Further /\ st <= edge - k /\ ~Inside(edge - k, request)
        /\ \A j \in 0..k - 1 : Inside(edge - j, request)
    BY <1>4, <2>1
  <2>3. e = edge - k
    BY <1>3, <2>1, <2>2
  <2> HIDE DEF e, ok
  <2>4. CASE edge - k = st
    <3>1. A = edge
      BY <1>2, <2>3, <2>4
    <3>2. edge = End(request)
      BY <1>1, <2>2, <2>4
    <3> QED BY <1>1, <1>5, <3>1, <3>2
  <2>5. CASE edge - k # st
    <3>1. A = edge - k
      BY <1>2, <2>3, <2>5
    <3>2. \A p \in edge - k + 1..edge : Inside(p, request)
      <4> TAKE p \in edge - k + 1..edge
      <4>1. edge - p \in 0..k - 1 /\ edge - (edge - p) = p
        BY <1>1, <2>2
      <4> QED BY <2>2, <4>1
    <3> QED BY <1>1, <2>2, <2>5, <3>1, <3>2
  <2> QED BY <2>4, <2>5
<1> QED BY <1>6, <1>7

\* So does going on from an edge.
LEMMA AlignedOn ==
    ASSUME RequestOK, ~Forward(request), NEW edge \in Nat,
           Start(request) <= edge, edge <= End(request)
    PROVE  LET s == Aligned(edge, 1, request)
           IN /\ s \in Nat /\ edge <= s /\ s <= End(request)
              /\ edge < End(request) => s < End(request)
              /\ \A p \in edge..s - 1 : Inside(p, request)
              /\ \/ ~Inside(s, request)
                 \/ \A k \in 0..Further : s + k < End(request) => Inside(s + k, request)
<1> DEFINE ok == Steps(edge, 1, request)
           s == IF ok = {} THEN edge ELSE edge + Min(ok) * 1
           A == Aligned(edge, 1, request)
<1>1. /\ Start(request) \in Nat /\ End(request) \in Nat /\ Further \in Nat
  BY Looked, WindowAssumption
<1>2. A = IF s = End(request) THEN edge ELSE s
  BY DEF Aligned
<1>3. \A k \in Int : edge + k * 1 = edge + k
  OBVIOUS
<1>4. ok = {k \in 0..Further : /\ edge + k <= End(request) /\ ~Inside(edge + k, request)
                              /\ \A j \in 0..k - 1 : Inside(edge + j, request)}
  BY <1>1, <1>3 DEF Steps
<1>5. \A p \in Nat : End(request) <= p => ~Inside(p, request)
  BY <1>1 DEF Inside
<1>6. CASE ok = {}
  <2>1. ASSUME NEW k \in 0..Further, ~Inside(edge + k, request)
        PROVE  FALSE
    <3> DEFINE T == {i \in 0..Further : ~Inside(edge + i, request)}
    <3>1. PICK m \in T : \A i \in T : m <= i
      <4>1. k \in T /\ T \subseteq Nat
        BY <1>1, <2>1
      <4> HIDE DEF T
      <4> QED BY <4>1, LeastExists
    <3>2. \A j \in 0..m - 1 : Inside(edge + j, request)
      BY <3>1, <1>1
    <3>3. edge + m <= End(request)
      <4>1. SUFFICES ASSUME edge + m > End(request)
                     PROVE  FALSE
        BY <1>1, <3>1
      <4>2. m - 1 \in 0..m - 1 /\ End(request) <= edge + (m - 1) /\ edge + (m - 1) \in Nat
        BY <1>1, <3>1, <4>1
      <4> QED BY <1>5, <3>2, <4>2
    <3>4. m \in ok
      BY <1>4, <3>1, <3>2, <3>3
    <3> QED BY <3>4, <1>6
  <2>2. A = edge
    BY <1>2, <1>6
  <2> QED BY <1>1, <2>1, <2>2
<1>7. CASE ok # {}
  <2>1. PICK k \in ok : s = edge + k * 1
    <3>1. ok \subseteq Nat
      BY <1>1 DEF Steps
    <3>2. Min(ok) \in ok
      <4> HIDE DEF ok
      <4>1. \E m \in ok : \A k \in ok : m <= k
        BY <1>7, <3>1, LeastExists
      <4> QED BY <4>1 DEF Min
    <3> QED BY <1>7, <3>2
  <2>2. /\ k \in 0..Further /\ edge + k <= End(request) /\ ~Inside(edge + k, request)
        /\ \A j \in 0..k - 1 : Inside(edge + j, request)
    BY <1>4, <2>1
  <2>3. s = edge + k
    BY <1>3, <2>1, <2>2
  <2> HIDE DEF s, ok
  <2>4. CASE edge + k = End(request)
    <3>1. A = edge
      BY <1>2, <2>3, <2>4
    <3>2. \A j \in 0..Further : edge + j < End(request) => Inside(edge + j, request)
      BY <1>1, <2>2, <2>4
    <3> QED BY <1>1, <3>1, <3>2
  <2>5. CASE edge + k # End(request)
    <3>1. A = edge + k
      BY <1>2, <2>3, <2>5
    <3>2. \A p \in edge..edge + k - 1 : Inside(p, request)
      <4> TAKE p \in edge..edge + k - 1
      <4>1. p - edge \in 0..k - 1 /\ edge + (p - edge) = p
        BY <1>1, <2>2
      <4> QED BY <2>2, <4>1
    <3> QED BY <1>1, <2>2, <2>5, <3>1, <3>2
  <2> QED BY <2>4, <2>5
<1> QED BY <1>6, <1>7

\* What halving leaves and aligning gives is a sound window.
LEMMA ChosenSound ==
    ASSUME WindowInv, window # <<>>
    PROVE  WindowSound
<1> DEFINE st == Start(request)
           en == End(request)
<1>1. /\ st \in Nat /\ en \in Nat /\ st <= en /\ en <= Len(text) /\ Len(text) \in Nat
      /\ low \in Nat /\ low = high /\ low <= en - st /\ RequestOK
      /\ text \in Seq(Byte) /\ window = Chosen(request)
  BY Looked DEF WindowInv, WindowTypeOK, RequestOK
<1>2. /\ Further \in Nat /\ Lead \in Nat /\ Rows \in Nat
  BY WindowAssumption
<1>3. low = en - st \/ low >= Further + 1
  BY <1>1, <1>2, AsManyAsFit, CharacterFits
<1>4. LeadFits => low = en - st \/ low >= Lead + Further + 1
  BY <1>1, <1>2, AsManyAsFit DEF LeadFits
<1>5. Cost(Part(request, low)) <= Rows
  BY DEF WindowInv
<1>6. low # en - st => /\ low + 1 \in Nat /\ low + 1 <= en - st
                       /\ ~(Cost(Part(request, low + 1)) <= Rows)
  BY <1>1 DEF WindowInv
<1>7. request.hit \in Nat
  BY <1>1 DEF RequestOK
<1>8. CASE Forward(request)
  <2> DEFINE edge == st + low
             e == Aligned(edge, -1, request)
  <2>1. /\ edge \in Nat /\ st <= edge /\ edge <= en
        /\ edge = en \/ edge - st > Further
    BY <1>1, <1>2, <1>3
  <2>2. /\ e \in Nat /\ st <= e /\ e <= edge /\ edge - e <= Further
        /\ st < edge => st < e
        /\ \A p \in e + 1..edge : Inside(p, request)
        /\ \/ ~Inside(e, request)
           \/ \A k \in 0..Further : Inside(e - k, request)
    <3> HIDE DEF edge
    <3> QED BY <1>1, <1>8, <2>1, AlignedBack
  <2>3. window[1] = st /\ window[2] = e
    BY <1>1, <1>8 DEF Chosen
  <2>4. Part(request, low) = SubSeq(text, st + 1, edge)
    BY <1>8 DEF Part
  <2> HIDE DEF e
  <2>5. Cost(SubSeq(text, st + 1, e)) <= Rows
    <3>1. /\ Cost(SubSeq(text, st + 1, e)) \in Nat
          /\ Cost(SubSeq(text, st + 1, e)) <= Cost(SubSeq(text, st + 1, edge))
      <4>1. edge <= Len(text) /\ st <= st
        BY <1>1, <2>1
      <4> HIDE DEF edge, st
      <4> QED BY <1>1, <2>1, <2>2, <4>1, CostMonotone
    <3>2. Cost(SubSeq(text, st + 1, edge)) \in Nat
      <4>1. edge <= Len(text) /\ st <= st /\ edge <= edge
        BY <1>1, <2>1
      <4> HIDE DEF edge, st
      <4> QED BY <1>1, <2>1, <4>1, CostMonotone
    <3> HIDE DEF st, edge
    <3> QED BY <1>2, <1>5, <2>4, <3>1, <3>2
  <2>6. st < en => st < e
    BY <1>1, <1>2, <1>3, <2>2
  <2>7. \/ Boundary(e) \/ e = en
        \/ \A k \in 0..Further : Inside(e - k, request)
    <3>1. e < en /\ ~Inside(e, request) => Boundary(e)
      BY <1>1, <2>2 DEF Inside, Boundary
    <3> QED BY <1>1, <2>1, <2>2, <3>1
  <2>8. ASSUME LeadFits, request.direction = "hit", st <= request.hit, request.hit < en
        PROVE  request.hit < e
    <3>1. request.hit - Lead <= st
      BY <1>1, <2>8, Looked
    <3>2. CASE low = en - st
      <4>1. edge = en /\ ~Inside(en, request)
        BY <1>1, <3>2 DEF Inside
      <4>2. e = en
        BY <1>1, <2>2, <4>1
      <4> QED BY <2>8, <4>2
    <3>3. CASE low >= Lead + Further + 1
      BY <1>1, <1>2, <1>7, <2>1, <2>2, <3>1, <3>3
    <3> QED BY <1>4, <2>8, <3>2, <3>3
  <2>9. ASSUME NEW i \in e + 1..en, Boundary(i)
        PROVE  Cost(SubSeq(text, st + 1, i)) > Rows
    <3>0. i \in Nat /\ st <= i /\ i <= en /\ i <= Len(text)
      <4>1. e \in Nat /\ st <= e
        BY <2>2
      <4> HIDE DEF st, en
      <4> QED BY <1>1, <4>1
    <3>1. i > edge
      <4>1. SUFFICES ASSUME i <= edge
                     PROVE  FALSE
        BY <1>1, <2>1, <2>2
      <4>2. Inside(i, request)
        BY <1>1, <2>1, <2>2, <4>1
      <4> QED BY <1>1, <2>9, <4>2 DEF Inside, Boundary
    <3>2. low # en - st
      BY <1>1, <3>1
    <3>3. Part(request, low + 1) = SubSeq(text, st + 1, st + (low + 1))
      BY <1>8 DEF Part
    <3>4. /\ Cost(SubSeq(text, st + 1, st + (low + 1))) \in Nat
          /\ Cost(SubSeq(text, st + 1, st + (low + 1))) <= Cost(SubSeq(text, st + 1, i))
      <4>1. /\ st <= st /\ st <= st + (low + 1) /\ st + (low + 1) <= i /\ i <= Len(text)
            /\ i \in Nat /\ st + (low + 1) \in Nat
        BY <1>1, <3>0, <3>1
      <4> HIDE DEF st
      <4> QED BY <1>1, <4>1, CostMonotone
    <3>5. Cost(SubSeq(text, st + 1, i)) \in Nat
      <4>1. i \in Nat /\ st <= i /\ i <= i /\ st <= st /\ i <= Len(text)
        BY <1>1, <3>0
      <4> HIDE DEF st
      <4> QED BY <1>1, <4>1, CostMonotone
    <3>6. ~(Cost(Part(request, low + 1)) <= Rows)
      BY <1>6, <3>2
    <3>7. ~(Cost(SubSeq(text, st + 1, st + (low + 1))) <= Rows)
      BY <3>3, <3>6
    <3> HIDE DEF st
    <3> QED BY <1>2, <3>4, <3>5, <3>7
  <2>10. e <= en
    BY <1>1, <2>1, <2>2
  <2> HIDE DEF st, en
  <2> QED BY <1>8, <2>3, <2>5, <2>6, <2>7, <2>8, <2>9, <2>10 DEF WindowSound, st, en
<1>9. CASE ~Forward(request)
  <2> DEFINE edge == en - low
             s == Aligned(edge, 1, request)
  <2>1. /\ edge \in Nat /\ st <= edge /\ edge <= en
    BY <1>1
  <2>2. /\ s \in Nat /\ edge <= s /\ s <= en
        /\ edge < en => s < en
        /\ \A p \in edge..s - 1 : Inside(p, request)
        /\ \/ ~Inside(s, request)
           \/ \A k \in 0..Further : s + k < en => Inside(s + k, request)
    <3> HIDE DEF edge
    <3> QED BY <1>1, <1>9, <2>1, AlignedOn
  <2>3. window[1] = s /\ window[2] = en
    BY <1>1, <1>9 DEF Chosen
  <2>4. Part(request, low) = SubSeq(text, edge + 1, en)
    BY <1>9 DEF Part
  <2> HIDE DEF s
  <2>5. Cost(SubSeq(text, s + 1, en)) <= Rows
    <3>1. /\ Cost(SubSeq(text, s + 1, en)) \in Nat
          /\ Cost(SubSeq(text, s + 1, en)) <= Cost(SubSeq(text, edge + 1, en))
      <4>1. en <= en
        BY <1>1
      <4> HIDE DEF edge, en
      <4> QED BY <1>1, <2>1, <2>2, <4>1, CostMonotone
    <3>2. Cost(SubSeq(text, edge + 1, en)) \in Nat
      <4>1. en <= en /\ edge <= edge
        BY <1>1, <2>1
      <4> HIDE DEF edge, en
      <4> QED BY <1>1, <2>1, <4>1, CostMonotone
    <3> HIDE DEF en, edge
    <3> QED BY <1>2, <1>5, <2>4, <3>1, <3>2
  <2>6. st < en => s < en
    BY <1>1, <1>2, <1>3, <2>2
  <2>7. \/ Boundary(s) \/ s = st
        \/ \A k \in 0..Further : s + k < en => Inside(s + k, request)
    <3>1. s = en => s = st
      BY <1>1, <2>1, <2>2, <2>6
    <3>2. s < en /\ ~Inside(s, request) => Boundary(s)
      BY <1>1, <2>2 DEF Inside, Boundary
    <3> QED BY <1>1, <2>2, <3>1, <3>2
  <2>8. request.direction # "hit"
    BY <1>9 DEF Forward
  <2>9. ASSUME NEW i \in st..s - 1, Boundary(i)
        PROVE  Cost(SubSeq(text, i + 1, en)) > Rows
    <3>1. i < edge
      <4>1. SUFFICES ASSUME edge <= i
                     PROVE  FALSE
        BY <1>1, <2>1, <2>2
      <4>2. Inside(i, request)
        BY <1>1, <2>1, <2>2, <4>1
      <4> QED BY <1>1, <2>9, <4>2 DEF Inside, Boundary
    <3>2. low # en - st
      BY <1>1, <3>1
    <3>3. Part(request, low + 1) = SubSeq(text, (en - (low + 1)) + 1, en)
      BY <1>9 DEF Part
    <3>4. /\ Cost(SubSeq(text, (en - (low + 1)) + 1, en)) \in Nat
          /\ Cost(SubSeq(text, (en - (low + 1)) + 1, en)) <= Cost(SubSeq(text, i + 1, en))
      <4>1. /\ en <= en /\ i <= en - (low + 1) /\ en - (low + 1) <= en
            /\ i \in Nat /\ en - (low + 1) \in Nat
        BY <1>1, <2>1, <2>2, <3>1
      <4> HIDE DEF en
      <4> QED BY <1>1, <4>1, CostMonotone
    <3>5. Cost(SubSeq(text, i + 1, en)) \in Nat
      <4>1. i \in Nat /\ i <= en /\ en <= en /\ i <= i
        BY <1>1, <2>1, <2>2, <3>1
      <4> HIDE DEF en
      <4> QED BY <1>1, <4>1, CostMonotone
    <3>6. ~(Cost(Part(request, low + 1)) <= Rows)
      BY <1>6, <3>2
    <3>7. ~(Cost(SubSeq(text, (en - (low + 1)) + 1, en)) <= Rows)
      BY <3>3, <3>6
    <3> HIDE DEF en
    <3> QED BY <1>2, <3>4, <3>5, <3>7
  <2> QED BY <1>1, <1>9, <2>1, <2>2, <2>3, <2>5, <2>6, <2>7, <2>8, <2>9 DEF WindowSound
<1> QED BY <1>8, <1>9

LEMMA WindowInitInv == WindowInit => WindowInv
<1> SUFFICES ASSUME WindowInit PROVE WindowInv
  OBVIOUS
<1>1. RequestOK
  <2>1. text \in Seq(Byte)
    BY WindowAssumption DEF WindowInit
  <2>2. Len(text) \in Nat
    BY <2>1, LenProperties
  <2> QED BY <2>1, <2>2 DEF WindowInit, RequestOK, Direction
<1>2. Start(request) \in Nat /\ End(request) \in Nat /\ Start(request) <= End(request)
      /\ Len(text) \in Nat /\ End(request) <= Len(text)
  BY <1>1, Looked
<1>3. low = 0 /\ high = End(request) - Start(request) /\ window = <<>>
  BY DEF WindowInit
<1>4. Cost(Part(request, 0)) <= Rows
  <2>1. AllFit(Further + 1) /\ Further + 1 \in Nat
    BY CharacterFits, WindowAssumption
  <2>2. PICK a \in Nat : a <= Len(text) /\ Part(request, 0) = SubSeq(text, a + 1, a)
    <3>1. CASE Forward(request)
      <4>1. Part(request, 0) = SubSeq(text, Start(request) + 1, Start(request) + 0)
        BY <3>1 DEF Part
      <4> QED BY <1>2, <4>1
    <3>2. CASE ~Forward(request)
      <4>1. Part(request, 0) = SubSeq(text, End(request) - 0 + 1, End(request))
        BY <3>2 DEF Part
      <4> QED BY <1>2, <4>1
    <3> QED BY <3>1, <3>2
  <2>3. a <= a /\ a - a <= Further + 1 /\ text \in Seq(Byte)
    BY <1>1, <2>1 DEF RequestOK
  <2> QED BY <2>1, <2>2, <2>3, FewFit
<1> QED BY <1>1, <1>2, <1>3, <1>4 DEF WindowInv, WindowTypeOK

LEMMA HalveInv == WindowInv /\ Halve => WindowInv'
<1> SUFFICES ASSUME WindowInv, Halve PROVE WindowInv'
  OBVIOUS
<1> DEFINE middle == (low + high + 1) \div 2
<1>1. /\ RequestOK /\ low \in Nat /\ high \in Nat /\ low < high
      /\ Start(request) \in Nat /\ End(request) \in Nat
      /\ high <= End(request) - Start(request)
      /\ Cost(Part(request, low)) <= Rows
      /\ high < End(request) - Start(request) => ~(Cost(Part(request, high + 1)) <= Rows)
  BY Looked DEF WindowInv, WindowTypeOK, Halve
<1>2. middle \in Nat /\ low < middle /\ middle <= high
  BY <1>1
<1>3. /\ text' = text /\ request' = request /\ window' = window /\ window = <<>>
  BY DEF Halve
<1>4. /\ Start(request)' = Start(request) /\ End(request)' = End(request)
      /\ \A k : Part(request, k)' = Part(request, k)
  BY <1>3 DEF Start, End, Part
<1>5. RequestOK'
  BY <1>1, <1>3 DEF RequestOK
<1>6. CASE Cost(Part(request, middle)) <= Rows
  <2>1. low' = middle /\ high' = high
    BY <1>6 DEF Halve
  <2> HIDE DEF middle
  <2>2. Cost(Part(request', low')) <= Rows
    BY <1>3, <1>6, <2>1
  <2> QED BY <1>1, <1>2, <1>3, <1>4, <1>5, <1>6, <2>1 DEF WindowInv, WindowTypeOK
<1>7. CASE ~(Cost(Part(request, middle)) <= Rows)
  <2>1. low' = low /\ high' = middle - 1
    BY <1>7 DEF Halve
  <2> HIDE DEF middle
  <2>2. high' \in Nat /\ low' <= high' /\ high' + 1 = middle
    BY <1>1, <1>2, <2>1
  <2> QED BY <1>1, <1>2, <1>3, <1>4, <1>5, <1>7, <2>1, <2>2 DEF WindowInv, WindowTypeOK
<1> QED BY <1>6, <1>7

LEMMA AnswerInv == WindowInv /\ Answer => WindowInv'
<1> SUFFICES ASSUME WindowInv, Answer PROVE WindowInv'
  OBVIOUS
<1>1. /\ text' = text /\ request' = request /\ low' = low /\ high' = high
      /\ window' = Chosen(request) /\ low >= high
  BY DEF Answer
<1>2. /\ Start(request)' = Start(request) /\ End(request)' = End(request)
      /\ \A k : Part(request, k)' = Part(request, k)
  BY <1>1 DEF Start, End, Part
<1>3. Chosen(request)' = Chosen(request)
  <2>1. \A i : Inside(i, request)' = Inside(i, request)
    BY <1>1, <1>2 DEF Inside
  <2>2. \A edge, step : Steps(edge, step, request)' = Steps(edge, step, request)
    BY <1>2, <2>1 DEF Steps
  <2>3. \A edge, step : Aligned(edge, step, request)' = Aligned(edge, step, request)
    BY <1>1, <1>2, <2>2 DEF Aligned, Forward
  <2> QED BY <1>1, <1>2, <2>3 DEF Chosen, Forward
<1>4. low \in Nat /\ high \in Nat /\ low = high
  BY <1>1 DEF WindowInv, WindowTypeOK
<1> QED BY <1>1, <1>2, <1>3, <1>4 DEF WindowInv, WindowTypeOK, RequestOK

-----------------------------------------------------------------------------
(* The search of a log                                                     *)

Hit == [offset : Nat, line : Int]

Reading == search.phase = "reading"
Matching == search.phase = "matching"

\* A block begins at this place of the log, with what was carried over to it.
Base == search.absolute - Len(search.overlap)

Searches ==
    [phase : {"idle", "reading", "matching", "done", "raised"}, size : Nat, remaining : Nat,
     absolute : Nat, lines_seen : Nat, overlap : Seq(Letter), combined : Seq(Letter),
     pos : Nat \ {0}, items : Seq(Hit), truncated : BOOLEAN]

SearchTypeOK ==
    /\ content \in Seq(Letter)
    /\ query \in Queries
    /\ search \in Searches
    /\ search.size <= Len(content)
    /\ search.phase = "idle" => search = NotSearching

\* Where the search is, and what it knows of the bytes before.
BlockInv ==
    /\ Len(search.overlap) = IF search.absolute < Overlap THEN search.absolute ELSE Overlap
    /\ search.overlap = SubSeq(content, Base + 1, search.absolute)
    /\ search.lines_seen = Lines(SubSeq(content, 1, search.absolute))
    /\ search.truncated = FALSE
    /\ Reading => search.absolute + search.remaining = search.size
    /\ Matching => /\ Len(search.overlap) <= Len(search.combined)
                   /\ search.pos <= Len(search.combined) + 1
                   /\ Base + Len(search.combined) + search.remaining = search.size
                   /\ search.combined = SubSeq(content, Base + 1, Base + Len(search.combined))

\* The hits are in order, each an occurrence, on its line.
HitsInv ==
    /\ Len(search.items) <= MaxResults
    /\ \A j, k \in 1..Len(search.items) :
         j < k => search.items[j].offset < search.items[k].offset
    /\ At \subseteq Occurrences
    /\ \A k \in 1..Len(search.items) :
         search.items[k].line = Lines(SubSeq(content, 1, search.items[k].offset)) + 1

\* No hit ends behind the bytes that are dealt with, and every occurrence that does
\* not is reported or overlaps another one.
FrontInv ==
    /\ \A k \in 1..Len(search.items) :
         \/ search.items[k].offset + Len(query) <= search.absolute
         \/ Matching /\ search.items[k].offset + Len(query) < Base + search.pos
    /\ \A i \in Occurrences :
         \/ i + Len(query) - 1 <= search.absolute
         \/ Matching /\ i < Base + search.pos
         => i \in At \/ Overlapped(i)

SearchInv ==
    /\ SearchTypeOK
    /\ Reading \/ Matching => BlockInv /\ HitsInv /\ FrontInv
    /\ SearchExact

LEMMA QueryLength ==
    ASSUME query \in Queries
    PROVE  query # <<>> /\ Len(query) \in Nat /\ Len(query) >= 1 /\ Len(query) <= Overlap + 1
  BY SearchAssumption

\* A part of a part.
LEMMA PartOfPart ==
    ASSUME NEW S, NEW s \in Seq(S), NEW a \in Nat, NEW b \in Nat, a <= b, b <= Len(s),
           NEW i \in 1..b - a, NEW j \in 1..b - a
    PROVE  SubSeq(SubSeq(s, a + 1, b), i, j) = SubSeq(s, a + i, a + j)
<1>1. /\ a + 1 \in 1..Len(s) /\ b \in 1..Len(s)
      /\ i \in 1..b - (a + 1) + 1 /\ j \in 1..b - (a + 1) + 1
  BY LenProperties
<1>2. SubSeq(SubSeq(s, a + 1, b), i, j) = SubSeq(s, (a + 1) + i - 1, (a + 1) + j - 1)
  BY <1>1, SubSeqOfSubSeq
<1>3. (a + 1) + i - 1 = a + i /\ (a + 1) + j - 1 = a + j
  OBVIOUS
<1> QED BY <1>2, <1>3

\* What is appended to a log leaves its parts as they are.
LEMMA PartOfAppend ==
    ASSUME NEW S, NEW s \in Seq(S), NEW x \in S, NEW a \in Nat, NEW b \in Nat, b <= Len(s)
    PROVE  SubSeq(Append(s, x), a + 1, b) = SubSeq(s, a + 1, b)
<1>1. /\ Append(s, x) \in Seq(S) /\ Len(Append(s, x)) = Len(s) + 1 /\ Len(s) \in Nat
      /\ \A i \in 1..Len(s) : Append(s, x)[i] = s[i]
  BY AppendProperties, LenProperties
<1>2. CASE b < a
  BY <1>2, SubSeqEmpty
<1>3. CASE a <= b
  <2>1. /\ SubSeq(s, a + 1, b) \in Seq(S)
        /\ Len(SubSeq(s, a + 1, b)) = b - a
        /\ \A i \in 1..b - a : SubSeq(s, a + 1, b)[i] = s[a + i]
    BY <1>3, PartOf
  <2>2. /\ SubSeq(Append(s, x), a + 1, b) \in Seq(S)
        /\ Len(SubSeq(Append(s, x), a + 1, b)) = b - a
        /\ \A i \in 1..b - a : SubSeq(Append(s, x), a + 1, b)[i] = Append(s, x)[a + i]
    <3>1. b <= Len(Append(s, x))
      BY <1>1
    <3> QED BY <1>1, <1>3, <3>1, PartOf
  <2>3. \A i \in 1..b - a : a + i \in 1..Len(s)
    BY <1>1, <1>3
  <2> QED BY <1>1, <2>1, <2>2, <2>3, SeqEqual
<1> QED BY <1>2, <1>3

LEMMA LinesSplit ==
    ASSUME NEW S, NEW s \in Seq(S), NEW a \in Nat, NEW b \in Nat, NEW c \in Nat,
           a <= b, b <= c, c <= Len(s)
    PROVE  /\ Lines(SubSeq(s, a + 1, b)) \in Nat
           /\ Lines(SubSeq(s, b + 1, c)) \in Nat
           /\ Lines(SubSeq(s, a + 1, c)) = Lines(SubSeq(s, a + 1, b)) + Lines(SubSeq(s, b + 1, c))
<1>1. b <= Len(s)
  BY LenProperties
<1>2. Bytes(SubSeq(s, a + 1, b), "n") \in 0..b - a /\ Bytes(SubSeq(s, b + 1, c), "n") \in 0..c - b
  BY <1>1, BytesOfPart
<1>3. \A t : Lines(t) = Bytes(t, "n")
  BY DEF Lines, Bytes
<1> QED BY <1>2, <1>3, BytesSplit

\* The facts about lengths that every step needs.
LEMMA BlockPlaces ==
    ASSUME SearchTypeOK, BlockInv, Reading \/ Matching
    PROVE  /\ Base \in Nat /\ Base <= search.absolute /\ search.absolute \in Nat
           /\ search.absolute <= search.size /\ search.size <= Len(content)
           /\ search.size \in Nat /\ Len(content) \in Nat /\ search.remaining \in Nat
           /\ Len(search.overlap) \in Nat /\ search.pos \in Nat /\ search.pos >= 1
           /\ search.absolute = Base + Len(search.overlap)
           /\ Overlap \in Nat
           /\ Base = 0 \/ Len(search.overlap) = Overlap
           /\ Matching => /\ Len(search.combined) \in Nat
                          /\ search.absolute <= Base + Len(search.combined)
                          /\ search.pos <= Len(search.combined) + 1
                          /\ Base + Len(search.combined) <= search.size
<1>1. /\ search.absolute \in Nat /\ search.size \in Nat /\ search.remaining \in Nat
      /\ search.overlap \in Seq(Letter) /\ search.combined \in Seq(Letter)
      /\ content \in Seq(Letter) /\ search.pos \in Nat \ {0} /\ search.size <= Len(content)
  BY DEF SearchTypeOK, Searches
<1>2. Len(search.overlap) \in Nat /\ Len(search.combined) \in Nat /\ Len(content) \in Nat
  BY <1>1, LenProperties
<1>3. Overlap \in Nat
  BY SearchAssumption
<1>4. /\ Len(search.overlap) = IF search.absolute < Overlap THEN search.absolute ELSE Overlap
      /\ Base = search.absolute - Len(search.overlap)
  BY DEF BlockInv, Base
<1>5. /\ Base \in Nat /\ Base <= search.absolute /\ search.absolute = Base + Len(search.overlap)
      /\ Base = 0 \/ Len(search.overlap) = Overlap
  BY <1>1, <1>2, <1>3, <1>4
<1>6. CASE Reading
  <2>1. search.absolute + search.remaining = search.size /\ ~Matching
    BY <1>6 DEF BlockInv, Reading, Matching
  <2> QED BY <1>1, <1>2, <1>3, <1>5, <2>1
<1>7. CASE Matching
  <2>1. /\ Len(search.overlap) <= Len(search.combined)
        /\ search.pos <= Len(search.combined) + 1
        /\ Base + Len(search.combined) + search.remaining = search.size
    BY <1>7 DEF BlockInv
  <2>2. search.absolute <= Base + Len(search.combined)
    BY <1>1, <1>2, <1>5, <2>1
  <2>3. Base + Len(search.combined) <= search.size
    BY <1>1, <1>2, <1>5, <2>1
  <2>4. search.absolute <= search.size
    BY <1>1, <1>2, <1>5, <2>2, <2>3
  <2> QED BY <1>1, <1>2, <1>3, <1>5, <2>1, <2>2, <2>3, <2>4
<1> QED BY <1>6, <1>7

\* A place of the block is a place of the log.
LEMMA BlockOccurs ==
    ASSUME SearchTypeOK, BlockInv, Matching,
           NEW i \in Nat, 1 <= i, i + Len(query) - 1 <= Len(search.combined)
    PROVE  OccursAt(search.combined, query, i) <=> Base + i \in Occurrences
<1>1. /\ Base \in Nat /\ Len(search.combined) \in Nat /\ search.size \in Nat
      /\ Base + Len(search.combined) <= search.size /\ search.size <= Len(content)
      /\ Len(content) \in Nat
  BY BlockPlaces
<1>2. Len(query) \in Nat /\ Len(query) >= 1
  BY QueryLength DEF SearchTypeOK, Searches
<1> DEFINE e == Base + Len(search.combined)
           j == i + Len(query) - 1
<1>3. /\ search.combined = SubSeq(content, Base + 1, e)
      /\ content \in Seq(Letter)
  BY DEF SearchTypeOK, Searches, BlockInv
<1>4. /\ e \in Nat /\ Base <= e /\ e <= Len(content)
      /\ i \in 1..e - Base /\ j \in 1..e - Base
  BY <1>1, <1>2
<1>5. SubSeq(search.combined, i, j) = SubSeq(content, Base + i, Base + j)
  <2> HIDE DEF e, j
  <2> QED BY <1>1, <1>3, <1>4, PartOfPart
<1>6. Base + j = (Base + i) + Len(query) - 1
  BY <1>1, <1>2
<1>7. Base + i \in 1..search.size /\ Base + i + Len(query) - 1 <= search.size
  BY <1>1, <1>2
<1> QED BY <1>5, <1>6, <1>7 DEF Occurrences, OccursAt

\* The hit at a place of the block names its place and its line in the log.
LEMMA ItemPlace ==
    ASSUME SearchTypeOK, BlockInv, Matching,
           NEW i \in Nat, 1 <= i, i <= Len(search.combined)
    PROVE  /\ Item(i) \in Hit
           /\ Item(i).offset = Base + i - 1
           /\ Item(i).line = Lines(SubSeq(content, 1, Item(i).offset)) + 1
<1>1. /\ Base \in Nat /\ Len(search.combined) \in Nat /\ search.size \in Nat
      /\ Base + Len(search.combined) <= search.size /\ search.size <= Len(content)
      /\ Len(content) \in Nat /\ search.absolute \in Nat /\ Base <= search.absolute
      /\ search.absolute <= search.size /\ Len(search.overlap) \in Nat
      /\ search.absolute = Base + Len(search.overlap)
  BY BlockPlaces
<1> DEFINE e == Base + Len(search.combined)
           p == Base + i - 1
<1>2. /\ search.combined = SubSeq(content, Base + 1, e)
      /\ search.overlap = SubSeq(content, Base + 1, search.absolute)
      /\ search.lines_seen = Lines(SubSeq(content, 1, search.absolute))
      /\ content \in Seq(Letter)
  BY DEF SearchTypeOK, Searches, BlockInv
<1>3. search.absolute + i - 1 - Len(search.overlap) = p
  <2> DEFINE l == Len(search.overlap)
  <2>1. search.absolute = Base + l /\ Base \in Int /\ l \in Int
    BY <1>1
  <2> HIDE DEF l
  <2>2. search.absolute + i - 1 - l = p
    BY <2>1
  <2> QED BY <2>2 DEF l
<1>4. SubSeq(search.combined, 1, i - 1) = SubSeq(content, Base + 1, p)
  <2>1. CASE i = 1
    <3>1. SubSeq(search.combined, 1, i - 1) = <<>>
      BY <2>1, SubSeqEmpty
    <3>2. SubSeq(content, Base + 1, p) = <<>>
      BY <1>1, <2>1, SubSeqEmpty
    <3> QED BY <3>1, <3>2
  <2>2. CASE i # 1
    <3>1. 1 \in 1..e - Base /\ i - 1 \in 1..e - Base /\ Base <= e /\ e <= Len(content) /\ e \in Nat
      BY <1>1, <2>2
    <3>2. SubSeq(search.combined, 1, i - 1) = SubSeq(content, Base + 1, Base + (i - 1))
      <4> HIDE DEF e
      <4> QED BY <1>1, <1>2, <3>1, PartOfPart
    <3>3. Base + (i - 1) = p
      BY <1>1
    <3> QED BY <3>2, <3>3
  <2> QED BY <2>1, <2>2
<1>5. p \in Nat /\ Base <= p /\ p <= Len(content)
  BY <1>1
<1> HIDE DEF p
<1>6. /\ Lines(SubSeq(content, 0 + 1, Base)) \in Nat
      /\ Lines(SubSeq(content, Base + 1, search.absolute)) \in Nat
      /\ Lines(SubSeq(content, 0 + 1, search.absolute)) =
           Lines(SubSeq(content, 0 + 1, Base)) + Lines(SubSeq(content, Base + 1, search.absolute))
  <2> DEFINE a == search.absolute
  <2>1. /\ 0 \in Nat /\ Base \in Nat /\ a \in Nat /\ 0 <= Base /\ Base <= a
        /\ a <= Len(content) /\ content \in Seq(Letter)
    BY <1>1, <1>2
  <2> HIDE DEF a, e
  <2>2. /\ Lines(SubSeq(content, 0 + 1, Base)) \in Nat
        /\ Lines(SubSeq(content, Base + 1, a)) \in Nat
        /\ Lines(SubSeq(content, 0 + 1, a)) =
             Lines(SubSeq(content, 0 + 1, Base)) + Lines(SubSeq(content, Base + 1, a))
    BY <2>1, LinesSplit, ZenonT(30)
  <2> QED BY <2>2 DEF a
<1>7. /\ Lines(SubSeq(content, Base + 1, p)) \in Nat
      /\ Lines(SubSeq(content, 0 + 1, p)) =
           Lines(SubSeq(content, 0 + 1, Base)) + Lines(SubSeq(content, Base + 1, p))
  <2>1. 0 \in Nat /\ 0 <= Base /\ Base \in Nat /\ content \in Seq(Letter)
    BY <1>1, <1>2
  <2> QED BY <1>5, <2>1, LinesSplit, ZenonT(30)
<1>8. 0 + 1 = 1
  OBVIOUS
<1>9. search.lines_seen - Lines(search.overlap) + Lines(SubSeq(search.combined, 1, i - 1)) + 1
        = Lines(SubSeq(content, 1, p)) + 1
  <2> DEFINE A == Lines(SubSeq(content, 0 + 1, Base))
             B == Lines(SubSeq(content, Base + 1, search.absolute))
             C == Lines(SubSeq(content, Base + 1, p))
  <2>1. A \in Nat /\ B \in Nat /\ C \in Nat
    BY <1>6, <1>7
  <2>2. search.lines_seen = A + B /\ Lines(search.overlap) = B
    BY <1>2, <1>6, <1>8
  <2>3. Lines(SubSeq(search.combined, 1, i - 1)) = C /\ Lines(SubSeq(content, 1, p)) = A + C
    BY <1>4, <1>7, <1>8
  <2> HIDE DEF A, B, C
  <2> QED BY <2>1, <2>2, <2>3
<1>10. Item(i) = [offset |-> p, line |-> Lines(SubSeq(content, 1, p)) + 1]
  BY <1>3, <1>9 DEF Item
<1>11. Lines(SubSeq(content, 1, p)) \in Nat
  BY <1>6, <1>7, <1>8
<1> QED BY <1>5, <1>10, <1>11 DEF Hit, p

\* An occurrence that begins before the block ends before it does.
LEMMA BeforeBlock ==
    ASSUME SearchTypeOK, BlockInv, Reading \/ Matching, NEW i \in Occurrences, i <= Base
    PROVE  i + Len(query) - 1 <= search.absolute
<1> DEFINE l == Len(search.overlap)
           q == Len(query)
<1>1. /\ Base \in Nat /\ search.absolute = Base + l /\ l \in Nat
      /\ Overlap \in Nat /\ (Base = 0 \/ l = Overlap) /\ search.size \in Nat
  BY BlockPlaces
<1>2. i \in Nat /\ i >= 1
  BY <1>1 DEF Occurrences
<1>3. q \in Nat /\ q <= Overlap + 1
  BY QueryLength DEF SearchTypeOK, Searches
<1> HIDE DEF l, q
<1>4. i + q - 1 <= search.absolute
  BY <1>1, <1>2, <1>3
<1> QED BY <1>4 DEF q

LEMMA OccurrencesKept ==
    ASSUME content' = content, query' = query, search'.size = search.size
    PROVE  Occurrences' = Occurrences /\ \A i : Overlapped(i)' = Overlapped(i)
<1>1. Occurrences' = Occurrences
  BY DEF Occurrences, OccursAt
<1> QED BY <1>1 DEF Overlapped

LEMMA NoLines == Lines(<<>>) = 0
<1>1. {i \in DOMAIN <<>> : <<>>[i] = "n"} = {}
  OBVIOUS
<1> QED BY <1>1, FS_EmptySet DEF Lines

LEMMA SearchInitInv == SearchInit => SearchInv
<1> SUFFICES ASSUME SearchInit PROVE SearchInv
  OBVIOUS
<1>1. content = <<>> /\ query \in Queries /\ search = NotSearching
  BY DEF SearchInit
<1>2. <<>> \in Seq(Letter) /\ <<>> \in Seq(Hit) /\ Len(content) = 0
  BY <1>1, EmptySeq
<1>3. SearchTypeOK
  BY <1>1, <1>2 DEF SearchTypeOK, Searches, NotSearching
<1>4. search.phase = "idle"
  BY <1>1 DEF NotSearching
<1> QED BY <1>3, <1>4 DEF SearchInv, Reading, Matching, SearchExact

LEMMA SearchOpenInv == SearchInv /\ SearchOpen => SearchInv'
<1> SUFFICES ASSUME SearchInv, SearchOpen PROVE SearchInv'
  OBVIOUS
<1>1. /\ search = NotSearching /\ content' = content /\ query' = query
      /\ content \in Seq(Letter) /\ query \in Queries
      /\ search' = [search EXCEPT !.phase = "reading", !.size = Len(content),
                                  !.remaining = Len(content)]
  BY DEF SearchInv, SearchTypeOK, Searches, SearchOpen
<1>2. /\ <<>> \in Seq(Letter) /\ <<>> \in Seq(Hit) /\ Len(<<>>) = 0 /\ Len(content) \in Nat
      /\ Overlap \in Nat /\ MaxResults \in Nat
  BY <1>1, EmptySeq, LenProperties, SearchAssumption
<1>3. /\ search'.phase = "reading" /\ search'.size = Len(content)
      /\ search'.remaining = Len(content) /\ search'.absolute = 0 /\ search'.lines_seen = 0
      /\ search'.overlap = <<>> /\ search'.combined = <<>> /\ search'.pos = 1
      /\ search'.items = <<>> /\ search'.truncated = FALSE
  BY <1>1 DEF NotSearching
<1>4. SearchTypeOK'
  <2>1. search \in Searches
    BY <1>1 DEF SearchInv, SearchTypeOK
  <2>2. search' \in Searches
    BY <1>1, <1>2, <2>1 DEF Searches
  <2>3. search'.size <= Len(content') /\ search'.phase # "idle"
    BY <1>1, <1>2, <1>3
  <2> QED BY <1>1, <2>2, <2>3 DEF SearchTypeOK
<1>5. Reading' /\ ~Matching' /\ Base' = 0
  <2>1. Len(search'.overlap) = 0
    BY <1>2, <1>3
  <2> DEFINE a == search'.absolute
             l == Len(search'.overlap)
  <2>3. a = 0 /\ l = 0
    BY <1>3, <2>1
  <2> HIDE DEF a, l
  <2>4. a - l = 0
    BY <2>3
  <2>2. search'.absolute - Len(search'.overlap) = 0
    BY <2>4 DEF a, l
  <2> QED BY <1>3, <2>2 DEF Reading, Matching, Base
<1>6. BlockInv'
  <2>1. SubSeq(content, 1, 0) = <<>>
    BY SubSeqEmpty
  <2>2. /\ Len(search'.overlap) = IF search'.absolute < Overlap THEN search'.absolute ELSE Overlap
        /\ search'.absolute + search'.remaining = search'.size
    BY <1>2, <1>3
  <2>3. /\ search'.overlap = SubSeq(content', Base' + 1, search'.absolute)
        /\ search'.lines_seen = Lines(SubSeq(content', 1, search'.absolute))
    <3>1. SubSeq(content', Base' + 1, search'.absolute) = <<>>
      BY <1>1, <1>3, <1>5, <2>1
    <3>2. Lines(SubSeq(content', 1, search'.absolute)) = 0
      BY <1>1, <1>3, <2>1, NoLines
    <3> QED BY <1>3, <3>1, <3>2
  <2> QED BY <1>3, <1>5, <2>2, <2>3 DEF BlockInv
<1>7. At' = {}
  BY <1>2, <1>3 DEF At
<1>8. HitsInv'
  BY <1>2, <1>3, <1>7 DEF HitsInv
<1>9. FrontInv'
  <2>1. Len(query) \in Nat /\ Len(query) >= 1
    BY <1>1, QueryLength
  <2>2. \A i \in Occurrences' : i \in Nat /\ i >= 1
    BY <1>2, <1>3 DEF Occurrences
  <2>3. \A i \in Occurrences' : ~(i + Len(query) - 1 <= 0)
    BY <2>1, <2>2
  <2> QED BY <1>1, <1>2, <1>3, <1>5, <2>3 DEF FrontInv
<1> QED BY <1>3, <1>4, <1>6, <1>8, <1>9 DEF SearchInv, SearchExact

\* A step that changes neither the log nor the hits keeps what is known of the hits.
LEMMA HitsKept ==
    ASSUME HitsInv, content' = content, query' = query, search'.size = search.size,
           search'.items = search.items
    PROVE  HitsInv' /\ At' = At
<1>1. Occurrences' = Occurrences
  BY OccurrencesKept
<1>2. At' = At
  BY DEF At
<1> QED BY <1>1, <1>2 DEF HitsInv

LEMMA SearchReadInv == SearchInv /\ SearchRead => SearchInv'
<1> SUFFICES ASSUME SearchInv, SearchRead PROVE SearchInv'
  OBVIOUS
<1> DEFINE n == IF Block < search.remaining THEN Block ELSE search.remaining
           raw == SubSeq(content, search.absolute + 1, search.absolute + n)
           l == Len(search.overlap)
<1>1. /\ SearchTypeOK /\ Reading /\ ~Matching /\ BlockInv /\ HitsInv /\ FrontInv
      /\ search.remaining > 0 /\ content' = content /\ query' = query
      /\ search' = [search EXCEPT !.phase = "matching", !.remaining = @ - n,
                                  !.combined = search.overlap \o raw, !.pos = 1]
  BY DEF SearchInv, SearchRead, Reading, Matching
<1>2. /\ Base \in Nat /\ Base <= search.absolute /\ search.absolute \in Nat
      /\ search.absolute <= search.size /\ search.size <= Len(content)
      /\ search.size \in Nat /\ Len(content) \in Nat /\ search.remaining \in Nat
      /\ l \in Nat /\ search.absolute = Base + l
      /\ search.absolute + search.remaining = search.size
      /\ search.overlap = SubSeq(content, Base + 1, search.absolute)
      /\ content \in Seq(Letter)
  BY <1>1, BlockPlaces DEF BlockInv, SearchTypeOK, Searches
<1>3. n \in Nat /\ n <= search.remaining
  BY <1>2, SearchAssumption
<1> HIDE DEF n, l
<1> DEFINE e == search.absolute + n
<1>4. search.overlap \o raw = SubSeq(content, Base + 1, e)
  <2>1. /\ Base + 1 \in 1..Len(content) + 1
        /\ search.absolute \in (Base + 1) - 1..Len(content)
        /\ e \in search.absolute..Len(content)
    BY <1>2, <1>3
  <2> HIDE DEF e
  <2>2. SubSeq(content, Base + 1, search.absolute) \o SubSeq(content, search.absolute + 1, e)
          = SubSeq(content, Base + 1, e)
    BY <1>2, <2>1, ConcatAdjacentSubSeq
  <2> QED BY <1>2, <2>2 DEF e
<1>5. /\ search.overlap \o raw \in Seq(Letter)
      /\ Len(search.overlap \o raw) = l + n
  <2>1. /\ SubSeq(content, Base + 1, e) \in Seq(Letter)
        /\ Len(SubSeq(content, Base + 1, e)) = e - Base
    <3>1. e \in Nat /\ Base <= e /\ e <= Len(content)
      BY <1>2, <1>3
    <3> HIDE DEF e
    <3> QED BY <1>2, <3>1, PartOf
  <2>2. e - Base = l + n
    BY <1>2, <1>3
  <2> QED BY <1>4, <2>1, <2>2
<1>6. /\ search'.phase = "matching" /\ search'.size = search.size
      /\ search'.remaining = search.remaining - n /\ search'.absolute = search.absolute
      /\ search'.lines_seen = search.lines_seen /\ search'.overlap = search.overlap
      /\ search'.combined = search.overlap \o raw /\ search'.pos = 1
      /\ search'.items = search.items /\ search'.truncated = search.truncated
  <2> HIDE DEF raw
  <2> QED BY <1>1 DEF SearchTypeOK, Searches
<1>7. SearchTypeOK'
  <2> HIDE DEF raw
  <2>1. search.remaining - n \in Nat
    BY <1>2, <1>3
  <2>2. search' \in Searches
    <3> DEFINE w == search.overlap \o raw
               r == search.remaining - n
    <3>1. w \in Seq(Letter) /\ r \in Nat /\ search \in Searches /\ 1 \in Nat \ {0}
      BY <1>1, <1>5, <2>1 DEF SearchTypeOK
    <3>2. search' = [search EXCEPT !.phase = "matching", !.remaining = r,
                                   !.combined = w, !.pos = 1]
      BY <1>1, <3>1 DEF Searches
    <3> HIDE DEF w, r
    <3> QED BY <3>1, <3>2 DEF Searches
  <2>3. search'.size <= Len(content') /\ search'.phase # "idle"
    BY <1>1, <1>2, <1>6
  <2> QED BY <1>1, <2>2, <2>3 DEF SearchTypeOK
<1>8. Matching' /\ ~Reading' /\ Base' = Base
  BY <1>6 DEF Reading, Matching, Base
<1> HIDE DEF raw
<1>9. BlockInv'
  <2>1. /\ l <= l + n /\ Base + (l + n) + (search.remaining - n) = search.size
        /\ Base + (l + n) = e
    BY <1>2, <1>3
  <2>2. Len(search.overlap) <= Len(search'.combined)
    BY <1>5, <1>6, <2>1 DEF l
  <2>5. search'.pos <= Len(search'.combined) + 1
    BY <1>2, <1>3, <1>5, <1>6
  <2>3. Base + Len(search'.combined) + search'.remaining = search.size
    BY <1>5, <1>6, <2>1
  <2>4. search'.combined = SubSeq(content, Base + 1, Base + Len(search'.combined))
    BY <1>4, <1>5, <1>6, <2>1
  <2> QED BY <1>1, <1>6, <1>8, <2>2, <2>3, <2>4, <2>5 DEF BlockInv
<1>10. HitsInv' /\ At' = At
  BY <1>1, <1>6, HitsKept
<1>11. FrontInv'
  <2>1. Occurrences' = Occurrences /\ \A i : Overlapped(i)' = Overlapped(i)
    BY <1>1, <1>6, OccurrencesKept
  <2>2. ASSUME NEW i \in Occurrences, i < Base + 1
        PROVE  i + Len(query) - 1 <= search.absolute
    <3>1. i <= Base
      BY <1>2, <2>2 DEF Occurrences
    <3> QED BY <1>1, <3>1, BeforeBlock
  <2>3. \A i \in Occurrences : i + Len(query) - 1 <= search.absolute => i \in At \/ Overlapped(i)
    BY <1>1 DEF FrontInv
  <2>4. \A k \in 1..Len(search.items) : search.items[k].offset + Len(query) <= search.absolute
    BY <1>1 DEF FrontInv
  <2> QED BY <1>1, <1>6, <1>8, <1>10, <2>1, <2>2, <2>3, <2>4 DEF FrontInv
<1> QED BY <1>6, <1>7, <1>9, <1>10, <1>11 DEF SearchInv, SearchExact

\* The next match in the block: a place of the query in the log, and none before it
\* is left. What begins before the match ends is reported, or overlaps it or another.
LEMMA NextMatch ==
    ASSUME SearchInv, Matching, NEW i \in Found, \A j \in Found : i <= j
    PROVE  /\ i \in Nat /\ i >= search.pos /\ i >= 1
           /\ i + Len(query) - 1 <= Len(search.combined)
           /\ Base + i \in Occurrences
           /\ \A o \in Occurrences :
                o < Base + i + Len(query) => o = Base + i \/ o \in At \/ Overlapped(o)
<1> DEFINE q == Len(query)
           c == Len(search.combined)
           b == Base
<1>1. SearchTypeOK /\ BlockInv /\ FrontInv
  BY DEF SearchInv
<1>2. b \in Nat /\ c \in Nat /\ search.size \in Nat /\ search.pos \in Nat /\ search.pos >= 1
  BY <1>1, BlockPlaces
<1>3. q \in Nat /\ q >= 1
  BY <1>1, QueryLength DEF SearchTypeOK
<1>4. i \in search.pos..c - q + 1 /\ OccursAt(search.combined, query, i)
  BY DEF Found
<1>5. i \in Nat /\ i >= search.pos /\ i >= 1 /\ i + q - 1 <= c
  <2> HIDE DEF q, c
  <2> QED BY <1>2, <1>3, <1>4
<1>6. b + i \in Occurrences
  BY <1>1, <1>4, <1>5, BlockOccurs
<1>7. ASSUME NEW o \in Occurrences, o < b + i + q
      PROVE  o = b + i \/ o \in At \/ Overlapped(o)
  <2>1. o \in Nat
    BY <1>2 DEF Occurrences
  <2>2. CASE o < b + search.pos
    BY <1>1, <2>2 DEF FrontInv
  <2>3. CASE b + search.pos <= o /\ o < b + i
    <3> DEFINE j == o - b
    <3>1. j \in Nat /\ 1 <= j /\ search.pos <= j /\ j < i /\ j + q - 1 <= c /\ b + j = o
      <4> HIDE DEF q, c, b
      <4> QED BY <1>2, <1>3, <1>5, <2>1, <2>3
    <3>2. j \in search.pos..c - q + 1
      <4> HIDE DEF q, c, j
      <4> QED BY <1>2, <1>3, <3>1
    <3>3. OccursAt(search.combined, query, j)
      <4>1. Base + j \in Occurrences
        BY <3>1
      <4> HIDE DEF j
      <4> QED BY <1>1, <3>1, <4>1, BlockOccurs
    <3>4. j \in Found
      BY <3>2, <3>3 DEF Found
    <3> HIDE DEF j
    <3> QED BY <1>5, <3>1, <3>4
  <2>4. CASE b + i < o
    <3>1. b + i \in Occurrences \ {o} /\ o < (b + i) + q /\ b + i < o + q
      <4> HIDE DEF q, b
      <4> QED BY <1>2, <1>3, <1>5, <1>6, <1>7, <2>1, <2>4
    <3> QED BY <3>1 DEF Overlapped
  <2> HIDE DEF q, b
  <2> QED BY <1>2, <1>5, <2>1, <2>2, <2>3, <2>4
<1> QED BY <1>5, <1>6, <1>7

\* The search goes on behind a match that was reported with the block before.
LEMMA MatchSkippedInv ==
    ASSUME SearchInv, Matching, content' = content, query' = query,
           NEW i \in Found, \A j \in Found : i <= j, ~EndsInside(i),
           search' = [search EXCEPT !.pos = i + Len(query)]
    PROVE  SearchInv'
<1> DEFINE q == Len(query)
           b == Base
<1>1. SearchTypeOK /\ BlockInv /\ HitsInv /\ FrontInv
  BY DEF SearchInv
<1>2. /\ i \in Nat /\ i >= search.pos /\ i >= 1 /\ i + q - 1 <= Len(search.combined)
      /\ b + i \in Occurrences
      /\ \A o \in Occurrences : o < b + i + q => o = b + i \/ o \in At \/ Overlapped(o)
  BY NextMatch
<1>3. q \in Nat /\ q >= 1
  BY <1>1, QueryLength DEF SearchTypeOK
<1>4. /\ search'.phase = search.phase /\ search'.size = search.size
      /\ search'.remaining = search.remaining /\ search'.absolute = search.absolute
      /\ search'.lines_seen = search.lines_seen /\ search'.overlap = search.overlap
      /\ search'.combined = search.combined /\ search'.pos = i + q
      /\ search'.items = search.items /\ search'.truncated = search.truncated
  BY <1>1 DEF SearchTypeOK, Searches
<1>5. Matching' /\ ~Reading' /\ Base' = b
  BY <1>4 DEF Matching, Reading, Base
<1>6. SearchTypeOK'
  <2>1. i + q \in Nat \ {0}
    BY <1>2, <1>3
  <2>2. search' \in Searches
    BY <1>1, <2>1 DEF SearchTypeOK, Searches
  <2>3. search'.size <= Len(content') /\ search'.phase # "idle"
    BY <1>1, <1>4 DEF SearchTypeOK, Matching
  <2> QED BY <1>1, <2>2, <2>3 DEF SearchTypeOK
<1>7. BlockInv'
  <2>1. search'.pos <= Len(search'.combined) + 1
    <3>1. Len(search.combined) \in Nat
      BY <1>1, BlockPlaces
    <3> QED BY <1>2, <1>3, <1>4, <3>1
  <2> QED BY <1>1, <1>4, <1>5, <2>1 DEF BlockInv
<1>8. HitsInv' /\ At' = At
  BY <1>1, <1>4, HitsKept
<1>9. FrontInv'
  <2>1. Occurrences' = Occurrences /\ \A o : Overlapped(o)' = Overlapped(o)
    BY <1>4, OccurrencesKept
  <2>2. b \in Nat /\ search.pos \in Nat /\ b + i + q = b + search'.pos
    BY <1>1, <1>2, <1>3, <1>4, BlockPlaces
  <2>3. b + i \in At \/ Overlapped(b + i)
    <3> DEFINE l == Len(search.overlap)
    <3>1. search.absolute = b + l /\ l \in Nat /\ i - 1 + q <= l
      <4>1. search.absolute = b + l /\ l \in Nat
        BY <1>1, BlockPlaces
      <4>2. ~(i - 1 + q > l)
        BY DEF EndsInside
      <4> HIDE DEF b, l, q
      <4> QED BY <1>2, <1>3, <4>1, <4>2
    <3> HIDE DEF l
    <3>2. (b + i) + q - 1 <= search.absolute
      BY <1>2, <1>3, <2>2, <3>1
    <3> QED BY <1>1, <1>2, <3>2 DEF FrontInv
  <2>4. \A o \in Occurrences :
          o + q - 1 <= search.absolute \/ o < b + search'.pos => o \in At \/ Overlapped(o)
    BY <1>1, <1>2, <2>2, <2>3 DEF FrontInv
  <2>5. ASSUME NEW k \in 1..Len(search.items)
        PROVE  \/ search.items[k].offset + q <= search.absolute
               \/ search.items[k].offset + q < b + search'.pos
    <3>1. \/ search.items[k].offset + q <= search.absolute
          \/ search.items[k].offset + q < b + search.pos
      BY <1>1 DEF FrontInv
    <3>2. search.items[k].offset \in Nat
      <4>1. search.items \in Seq(Hit)
        BY <1>1 DEF SearchTypeOK, Searches
      <4>2. search.items[k] \in Hit
        BY <4>1, ElementOfSeq
      <4> QED BY <4>2 DEF Hit
    <3>3. b + search.pos <= b + search'.pos
      <4>1. search.pos \in Nat /\ search'.pos \in Nat /\ search.pos <= search'.pos
        BY <1>2, <1>3, <1>4, <2>2
      <4> HIDE DEF b
      <4> QED BY <2>2, <4>1
    <3> DEFINE o == search.items[k].offset + q
               u == b + search.pos
               v == b + search'.pos
    <3>4. o \in Int /\ u \in Int /\ v \in Int
      <4>1. o \in Int
        BY <1>3, <3>2
      <4>2. u \in Int
        BY <2>2
      <4>3. v \in Int
        <5>1. i + q \in Int /\ search'.pos = i + q
          BY <1>2, <1>3, <1>4
        <5> QED BY <2>2, <5>1
      <4> QED BY <4>1, <4>2, <4>3
    <3> HIDE DEF o, u, v
    <3>5. u <= v /\ (o <= search.absolute \/ o < u)
      BY <3>1, <3>3 DEF o, u, v
    <3>6. o <= search.absolute \/ o < v
      BY <3>4, <3>5
    <3> QED BY <3>6 DEF o, v
  <2> QED BY <1>4, <1>5, <1>8, <2>1, <2>4, <2>5 DEF FrontInv
<1> QED BY <1>4, <1>5, <1>6, <1>7, <1>8, <1>9 DEF SearchInv, SearchExact, Matching

\* The search is cut short: it holds as many hits as it may.
LEMMA MatchTruncatedInv ==
    ASSUME SearchInv, Matching, content' = content, query' = query,
           Len(search.items) >= MaxResults,
           search' = [search EXCEPT !.phase = "done", !.truncated = TRUE]
    PROVE  SearchInv'
<1>1. SearchTypeOK /\ HitsInv
  BY DEF SearchInv
<1>2. /\ search'.phase = "done" /\ search'.size = search.size
      /\ search'.items = search.items /\ search'.truncated = TRUE
  BY <1>1 DEF SearchTypeOK, Searches
<1>3. SearchTypeOK'
  <2>1. search' \in Searches
    BY <1>1 DEF SearchTypeOK, Searches
  <2> QED BY <1>1, <1>2, <2>1 DEF SearchTypeOK
<1>4. HitsInv'
  BY <1>1, <1>2, HitsKept
<1>5. SearchExact'
  <2>1. Len(search.items) \in Nat /\ MaxResults \in Nat
    BY <1>1, LenProperties, SearchAssumption DEF SearchTypeOK, Searches
  <2>2. Len(search'.items) = MaxResults
    BY <1>1, <1>2, <2>1 DEF HitsInv
  <2>3. DOMAIN search'.items = 1..Len(search'.items)
    BY <1>1, <1>2, LenProperties DEF SearchTypeOK, Searches
  <2>4. \A k \in 1..Len(search'.items) - 1 :
          search'.items[k].offset < search'.items[k + 1].offset
    <3>1. ASSUME NEW k \in 1..Len(search'.items) - 1
          PROVE  k \in 1..Len(search'.items) /\ k + 1 \in 1..Len(search'.items) /\ k < k + 1
      BY <1>2, <2>1
    <3> QED BY <1>4, <3>1 DEF HitsInv
  <2> QED BY <1>2, <1>4, <2>2, <2>3, <2>4 DEF SearchExact, HitsInv
<1> QED BY <1>2, <1>3, <1>5 DEF SearchInv, Reading, Matching

\* A hit is reported.
LEMMA MatchReportedInv ==
    ASSUME SearchInv, Matching, content' = content, query' = query,
           NEW i \in Found, \A j \in Found : i <= j, EndsInside(i),
           ~(Len(search.items) >= MaxResults),
           search' = [search EXCEPT !.pos = i + Len(query), !.items = Append(@, Item(i))]
    PROVE  SearchInv'
<1> DEFINE q == Len(query)
           b == Base
           m == Len(search.items)
           x == Item(i)
<1>1. SearchTypeOK /\ BlockInv /\ HitsInv /\ FrontInv
  BY DEF SearchInv
<1>2. /\ i \in Nat /\ i >= search.pos /\ i >= 1 /\ i + q - 1 <= Len(search.combined)
      /\ b + i \in Occurrences
      /\ \A o \in Occurrences : o < b + i + q => o = b + i \/ o \in At \/ Overlapped(o)
  BY NextMatch
<1>3. q \in Nat /\ q >= 1 /\ m \in Nat /\ MaxResults \in Nat /\ m + 1 <= MaxResults
  <2>1. q \in Nat /\ q >= 1
    BY <1>1, QueryLength DEF SearchTypeOK
  <2>2. m \in Nat /\ MaxResults \in Nat
    BY <1>1, LenProperties, SearchAssumption DEF SearchTypeOK, Searches
  <2> QED BY <2>1, <2>2
<1>4. /\ b \in Nat /\ Len(search.combined) \in Nat /\ search.absolute \in Nat
      /\ search.pos \in Nat
  BY <1>1, BlockPlaces
<1>5. /\ x \in Hit /\ x.offset = b + i - 1
      /\ x.line = Lines(SubSeq(content, 1, x.offset)) + 1
  <2>1. i <= Len(search.combined)
    BY <1>2, <1>3, <1>4
  <2> QED BY <1>1, <1>2, <2>1, ItemPlace
<1>6. i + q \in Nat \ {0}
  BY <1>2, <1>3
<1> HIDE DEF x
<1>7. search.items \in Seq(Hit)
  BY <1>1 DEF SearchTypeOK, Searches
<1>8. /\ Append(search.items, x) \in Seq(Hit) /\ Len(Append(search.items, x)) = m + 1
      /\ \A k \in 1..m : Append(search.items, x)[k] = search.items[k]
      /\ Append(search.items, x)[m + 1] = x
  BY <1>5, <1>7, AppendProperties
<1>9. /\ search'.phase = search.phase /\ search'.size = search.size
      /\ search'.remaining = search.remaining /\ search'.absolute = search.absolute
      /\ search'.lines_seen = search.lines_seen /\ search'.overlap = search.overlap
      /\ search'.combined = search.combined /\ search'.pos = i + q
      /\ search'.items = Append(search.items, x) /\ search'.truncated = search.truncated
  BY <1>1 DEF SearchTypeOK, Searches, x
<1>10. Matching' /\ ~Reading' /\ Base' = b
  BY <1>9 DEF Matching, Reading, Base
<1>11. SearchTypeOK'
  <2>1. search' \in Searches
    BY <1>1, <1>6, <1>8 DEF SearchTypeOK, Searches, x
  <2>2. search'.size <= Len(content') /\ search'.phase # "idle"
    BY <1>1, <1>9 DEF SearchTypeOK, Matching
  <2> QED BY <1>1, <2>1, <2>2 DEF SearchTypeOK
<1>12. BlockInv'
  <2>1. search'.pos <= Len(search'.combined) + 1
    BY <1>2, <1>3, <1>4, <1>9
  <2> QED BY <1>1, <1>9, <1>10, <2>1 DEF BlockInv
<1>13. Occurrences' = Occurrences /\ \A o : Overlapped(o)' = Overlapped(o)
  BY <1>9, OccurrencesKept
<1> DEFINE items2 == Append(search.items, x)
<1>14. \A k \in 1..m + 1 : \/ k \in 1..m /\ items2[k] = search.items[k]
                           \/ k = m + 1 /\ items2[k] = x
  BY <1>3, <1>8
<1>15. /\ Len(items2) = m + 1 /\ DOMAIN items2 = 1..m + 1 /\ DOMAIN search.items = 1..m
       /\ search'.items = items2
  BY <1>7, <1>8, <1>9, LenProperties
<1> HIDE DEF items2
<1>16. At' = At \cup {b + i}
  <2>1. x.offset + 1 = b + i
    BY <1>2, <1>4, <1>5
  <2>2. 1..m \subseteq 1..m + 1 /\ m + 1 \in 1..m + 1
    BY <1>3
  <2>3. \A k \in 1..m : items2[k] = search.items[k]
    BY <1>8 DEF items2
  <2>4. items2[m + 1] = x
    BY <1>8 DEF items2
  <2>5. At' = {items2[k].offset + 1 : k \in 1..m + 1}
    BY <1>15 DEF At
  <2>6. At = {search.items[k].offset + 1 : k \in 1..m}
    BY <1>15 DEF At
  <2> HIDE DEF m
  <2>7. ASSUME NEW o \in At' PROVE o \in At \cup {b + i}
    <3>1. PICK k \in 1..m + 1 : o = items2[k].offset + 1
      BY <2>5, <2>7
    <3> QED BY <1>14, <2>1, <2>6, <3>1
  <2>8. ASSUME NEW o \in At PROVE o \in At'
    BY <2>2, <2>3, <2>5, <2>6, <2>8
  <2>9. b + i \in At'
    BY <2>1, <2>2, <2>4, <2>5
  <2> QED BY <2>7, <2>8, <2>9
<1>17. ASSUME NEW k \in 1..m
       PROVE  /\ search.items[k].offset \in Nat
              /\ search.items[k].offset < x.offset
              /\ search.items[k].offset + q < b + (i + q)
  <2>1. \/ search.items[k].offset + q <= search.absolute
        \/ search.items[k].offset + q < b + search.pos
    BY <1>1 DEF FrontInv
  <2>2. search.items[k].offset \in Nat
    <3>1. search.items[k] \in Hit
      BY <1>7, ElementOfSeq
    <3> QED BY <3>1 DEF Hit
  <2> DEFINE l == Len(search.overlap)
  <2>3. search.absolute = b + l /\ l \in Nat /\ i - 1 + q > l
    BY <1>1, <1>2, <1>3, BlockPlaces DEF EndsInside
  <2> DEFINE o == search.items[k].offset
             p == search.pos
  <2>4. /\ o \in Nat /\ l \in Nat /\ q \in Nat /\ q >= 1 /\ i \in Nat /\ i >= p /\ p \in Nat
        /\ b \in Nat /\ i - 1 + q > l
        /\ o + q <= b + l \/ o + q < b + p
        /\ x.offset = b + i - 1
    BY <1>2, <1>3, <1>4, <1>5, <2>1, <2>2, <2>3
  <2> HIDE DEF l, b, q, m, o, p
  <2>5. o + q < b + (i + q)
    <3>1. CASE o + q <= b + l
      BY <2>4, <3>1
    <3>2. CASE o + q < b + p
      BY <2>4, <3>2
    <3> QED BY <2>4, <3>1, <3>2
  <2>6. o < b + i - 1
    <3>1. CASE o + q <= b + l
      BY <2>4, <3>1
    <3>2. CASE o + q < b + p
      BY <2>4, <3>2
    <3> QED BY <2>4, <3>1, <3>2
  <2> QED BY <2>2, <2>4, <2>5, <2>6 DEF o
<1>18. x.offset \in Nat /\ x.offset + q < b + (i + q)
  <2>1. q \in Nat /\ b \in Nat /\ i \in Nat /\ i >= 1 /\ x.offset = b + i - 1
    <3>1. i \in Nat /\ i >= 1
      BY <1>2
    <3>2. q \in Nat
      BY <1>3
    <3>3. b \in Nat
      BY <1>4
    <3>4. x.offset = b + i - 1
      BY <1>5
    <3> HIDE DEF b, q
    <3> QED BY <3>1, <3>2, <3>3, <3>4
  <2> DEFINE o == x.offset
  <2> HIDE DEF b, o, q
  <2>2. o \in Nat /\ o + q < b + (i + q)
    BY <2>1 DEF o
  <2> QED BY <2>2 DEF o
<1>19. HitsInv'
  <2>1. \A j, k \in 1..m + 1 : j < k => items2[j].offset < items2[k].offset
    <3> SUFFICES ASSUME NEW j \in 1..m + 1, NEW k \in 1..m + 1, j < k
                 PROVE  items2[j].offset < items2[k].offset
      OBVIOUS
    <3>1. j \in 1..m /\ items2[j] = search.items[j]
      BY <1>3, <1>14
    <3>2. CASE k \in 1..m /\ items2[k] = search.items[k]
      BY <1>1, <3>1, <3>2 DEF HitsInv
    <3>3. CASE items2[k] = x
      BY <1>17, <3>1, <3>3
    <3> QED BY <1>14, <3>2, <3>3
  <2>2. At' \subseteq Occurrences'
    BY <1>1, <1>2, <1>13, <1>16 DEF HitsInv
  <2>3. \A k \in 1..m + 1 :
          items2[k].line = Lines(SubSeq(content, 1, items2[k].offset)) + 1
    <3> SUFFICES ASSUME NEW k \in 1..m + 1
                 PROVE  items2[k].line = Lines(SubSeq(content, 1, items2[k].offset)) + 1
      OBVIOUS
    <3>1. CASE k \in 1..m /\ items2[k] = search.items[k]
      BY <1>1, <3>1 DEF HitsInv
    <3>2. CASE items2[k] = x
      BY <1>5, <3>2
    <3> QED BY <1>14, <3>1, <3>2
  <2>4. m + 1 <= MaxResults
    BY <1>3
  <2>5. content' = content
    OBVIOUS
  <2> HIDE DEF m
  <2> QED BY <1>15, <2>1, <2>2, <2>3, <2>4, <2>5 DEF HitsInv
<1>20. FrontInv'
  <2>1. ASSUME NEW k \in 1..m + 1 PROVE items2[k].offset + q < b + (i + q)
    BY <1>14, <1>17, <1>18
  <2>2. b + i + q = b + (i + q)
    BY <1>2, <1>3, <1>4
  <2>3. ASSUME NEW o \in Occurrences,
               o + q - 1 <= search.absolute \/ o < b + (i + q)
        PROVE  o \in At' \/ Overlapped(o)
    <3>1. o + q - 1 <= search.absolute => o \in At \/ Overlapped(o)
      BY <1>1 DEF FrontInv
    <3> QED BY <1>2, <1>16, <2>2, <2>3, <3>1
  <2> HIDE DEF m
  <2> QED BY <1>9, <1>10, <1>13, <1>15, <2>1, <2>3 DEF FrontInv
<1> QED BY <1>9, <1>10, <1>11, <1>12, <1>19, <1>20 DEF SearchInv, SearchExact, Matching

LEMMA SearchMatchInv == SearchInv /\ SearchMatch => SearchInv'
<1> SUFFICES ASSUME SearchInv, SearchMatch PROVE SearchInv'
  OBVIOUS
<1>1. Matching /\ content' = content /\ query' = query
  BY DEF SearchMatch, Matching
<1>2. PICK i \in Found :
        /\ \A j \in Found : i <= j
        /\ search' = IF ~EndsInside(i) THEN [search EXCEPT !.pos = i + Len(query)]
                     ELSE IF Len(search.items) >= MaxResults
                     THEN [search EXCEPT !.phase = "done", !.truncated = TRUE]
                     ELSE [search EXCEPT !.pos = i + Len(query), !.items = Append(@, Item(i))]
  BY DEF SearchMatch
<1>3. CASE ~EndsInside(i)
  BY <1>1, <1>2, <1>3, MatchSkippedInv
<1>4. CASE EndsInside(i) /\ Len(search.items) >= MaxResults
  BY <1>1, <1>2, <1>4, MatchTruncatedInv
<1>5. CASE EndsInside(i) /\ ~(Len(search.items) >= MaxResults)
  BY <1>1, <1>2, <1>5, MatchReportedInv
<1> QED BY <1>3, <1>4, <1>5

\* The block has no match left: every occurrence that ends in it is dealt with.
LEMMA SearchBlockEndsInv == SearchInv /\ SearchBlockEnds => SearchInv'
<1> SUFFICES ASSUME SearchInv, SearchBlockEnds PROVE SearchInv'
  OBVIOUS
<1> DEFINE q == Len(query)
           b == Base
           c == Len(search.combined)
           l == Len(search.overlap)
           e == b + c
           from == IF Overlap < c THEN c - Overlap + 1 ELSE 1
           w == LastN(search.combined, Overlap)
<1>1. /\ SearchTypeOK /\ Matching /\ BlockInv /\ HitsInv /\ FrontInv
      /\ content' = content /\ query' = query /\ Found = {}
      /\ search' = [search EXCEPT !.phase = "reading", !.lines_seen = @ + Lines(Raw),
                                  !.absolute = @ + Len(Raw), !.overlap = w]
  BY DEF SearchInv, SearchBlockEnds, Matching
<1>2. /\ b \in Nat /\ b <= search.absolute /\ search.absolute \in Nat
      /\ search.size \in Nat /\ Len(content) \in Nat /\ search.remaining \in Nat
      /\ l \in Nat /\ search.absolute = b + l /\ Overlap \in Nat
      /\ b = 0 \/ l = Overlap
      /\ c \in Nat /\ search.absolute <= e /\ search.pos <= c + 1 /\ search.pos \in Nat
      /\ e <= search.size /\ search.size <= Len(content)
  BY <1>1, BlockPlaces
<1>3. /\ content \in Seq(Letter) /\ search.combined \in Seq(Letter)
      /\ search.combined = SubSeq(content, b + 1, e)
      /\ e + search.remaining = search.size
      /\ search.lines_seen = Lines(SubSeq(content, 1, search.absolute))
  BY <1>1 DEF SearchTypeOK, Searches, BlockInv
<1>4. q \in Nat /\ q >= 1
  BY <1>1, QueryLength DEF SearchTypeOK
<1>5. l <= c /\ e \in Nat /\ b <= e /\ e <= Len(content)
  BY <1>2
<1>6. Raw = SubSeq(content, search.absolute + 1, e) /\ Len(Raw) = c - l
  <2>1. Raw = SubSeq(search.combined, l + 1, c)
    BY DEF Raw
  <2>2. CASE l = c
    <3>1. Raw = <<>>
      <4> HIDE DEF l, c
      <4> QED BY <1>2, <2>1, <2>2, SubSeqEmpty
    <3>2. SubSeq(content, search.absolute + 1, e) = <<>>
      <4>1. search.absolute = e
        BY <1>2, <2>2
      <4> HIDE DEF e
      <4>2. search.absolute + 1 \in Int /\ e \in Int /\ e < search.absolute + 1
        BY <1>5, <4>1
      <4> QED BY <4>2, SubSeqEmpty
    <3>3. Len(<<>>) = 0 /\ c - l = 0
      <4> HIDE DEF l, c
      <4> QED BY <1>2, <2>2
    <3> QED BY <3>1, <3>2, <3>3
  <2>3. CASE l < c
    <3>1. l + 1 \in 1..e - b /\ c \in 1..e - b
      <4> HIDE DEF b, l, c
      <4> QED BY <1>2, <2>3
    <3>2. SubSeq(search.combined, l + 1, c) = SubSeq(content, b + (l + 1), b + c)
      <4> HIDE DEF b, l, c, e
      <4> QED BY <1>2, <1>3, <1>5, <3>1, PartOfPart
    <3>3. b + (l + 1) = search.absolute + 1
      BY <1>2
    <3>4. Len(SubSeq(content, search.absolute + 1, e)) = e - search.absolute
      <4>1. search.absolute \in Nat /\ search.absolute <= e /\ content \in Seq(Letter)
        BY <1>2, <1>3
      <4> HIDE DEF e
      <4> QED BY <1>5, <4>1, PartOf
    <3>5. e - search.absolute = c - l
      <4> HIDE DEF b, l, c
      <4> QED BY <1>2
    <3> QED BY <2>1, <3>2, <3>3, <3>4, <3>5
  <2>4. l = c \/ l < c
    <3> HIDE DEF l, c
    <3> QED BY <1>2, <1>5
  <2> QED BY <2>2, <2>3, <2>4
<1>7. search.absolute + Len(Raw) = e
  <2> HIDE DEF b, l, c
  <2> QED BY <1>2, <1>6
<1>8. /\ w = SubSeq(search.combined, from, c)
      /\ w \in Seq(Letter)
      /\ Len(w) = IF e < Overlap THEN e ELSE Overlap
      /\ w = SubSeq(content, (e - Len(w)) + 1, e)
  <2>1. w = SubSeq(search.combined, from, c)
    BY DEF LastN
  <2> DEFINE f == from - 1
  <2>2. f \in Nat /\ f <= c /\ f + 1 = from /\ f = IF Overlap < c THEN c - Overlap ELSE 0
    <3> HIDE DEF c
    <3> QED BY <1>2
  <2> HIDE DEF f, from
  <2>3. w \in Seq(Letter) /\ Len(w) = c - f
    <3>1. c \in Nat /\ c <= Len(search.combined) /\ search.combined \in Seq(Letter)
      BY <1>2, <1>3
    <3> DEFINE z == search.combined
               v == SubSeq(z, f + 1, c)
    <3> HIDE DEF w, c, z
    <3>2. f \in Nat /\ c \in Nat /\ f <= c /\ c <= Len(z) /\ z \in Seq(Letter)
      BY <2>2, <3>1 DEF z
    <3>3. v \in Seq(Letter) /\ Len(v) = c - f
      BY <3>2, PartOf
    <3>4. w = v
      BY <2>1, <2>2 DEF z
    <3> QED BY <3>3, <3>4
  <2>4. c - f = IF e < Overlap THEN e ELSE Overlap
    <3> HIDE DEF b, c, l
    <3> QED BY <1>2, <1>5, <2>2
  <2>5. e - (c - f) = b + f
    <3> HIDE DEF b, c
    <3> QED BY <1>2, <2>2
  <2>6. w = SubSeq(content, (b + f) + 1, e)
    <3>1. CASE f = c
      <4>1. w = <<>>
        <5> HIDE DEF w, c
        <5> QED BY <1>2, <2>1, <2>2, <3>1, SubSeqEmpty
      <4>2. SubSeq(content, e + 1, e) = <<>>
        <5> HIDE DEF e
        <5> QED BY <1>5, SubSeqEmpty
      <4> QED BY <3>1, <4>1, <4>2
    <3>2. CASE f < c
      <4>1. f + 1 \in 1..e - b /\ c \in 1..e - b
        <5> HIDE DEF b, c
        <5> QED BY <1>2, <2>2, <3>2
      <4>2. SubSeq(search.combined, f + 1, c) = SubSeq(content, b + (f + 1), b + c)
        <5>1. b \in Nat
          BY <1>2
        <5>2. search.combined = SubSeq(content, b + 1, e) /\ content \in Seq(Letter)
          BY <1>3
        <5> HIDE DEF b, c, e
        <5>3. SubSeq(SubSeq(content, b + 1, e), f + 1, c) = SubSeq(content, b + (f + 1), b + c)
          BY <1>5, <4>1, <5>1, <5>2, PartOfPart
        <5> QED BY <5>2, <5>3
      <4>3. b + (f + 1) = (b + f) + 1
        <5> HIDE DEF b
        <5> QED BY <1>2, <2>2
      <4> QED BY <2>1, <2>2, <4>2, <4>3
    <3>3. f = c \/ f < c
      <4> HIDE DEF c
      <4> QED BY <1>2, <2>2
    <3> QED BY <3>1, <3>2, <3>3
  <2> HIDE DEF w, e
  <2> QED BY <2>1, <2>2, <2>3, <2>4, <2>5, <2>6
<1> HIDE DEF from, w
<1>9. /\ Lines(SubSeq(content, 1, e)) \in Nat
      /\ search.lines_seen + Lines(Raw) = Lines(SubSeq(content, 1, e))
  <2>1. 0 \in Nat /\ 0 + 1 = 1 /\ 0 <= search.absolute /\ search.absolute <= e
    BY <1>2
  <2>2. /\ Lines(SubSeq(content, 0 + 1, search.absolute)) \in Nat
        /\ Lines(SubSeq(content, search.absolute + 1, e)) \in Nat
        /\ Lines(SubSeq(content, 0 + 1, e)) = Lines(SubSeq(content, 0 + 1, search.absolute))
                                              + Lines(SubSeq(content, search.absolute + 1, e))
    <3>1. search.absolute \in Nat /\ content \in Seq(Letter)
      BY <1>2, <1>3
    <3> HIDE DEF e
    <3> QED BY <1>5, <2>1, <3>1, LinesSplit, ZenonT(30)
  <2> DEFINE A == Lines(SubSeq(content, 0 + 1, search.absolute))
             B == Lines(SubSeq(content, search.absolute + 1, e))
  <2>3. search.lines_seen = A /\ Lines(Raw) = B /\ Lines(SubSeq(content, 1, e)) = A + B
    BY <1>3, <1>6, <2>1, <2>2
  <2>4. A \in Nat /\ B \in Nat
    BY <2>2
  <2> HIDE DEF A, B
  <2> QED BY <2>3, <2>4
<1> DEFINE breaks == Lines(SubSeq(content, 1, e))
<1>10. search' = [search EXCEPT !.phase = "reading", !.lines_seen = breaks,
                                !.absolute = e, !.overlap = w]
  <2>1. search.lines_seen + Lines(Raw) = breaks /\ search.absolute + Len(Raw) = e
    BY <1>7, <1>9
  <2> HIDE DEF e, breaks
  <2> QED BY <1>1, <2>1
<1> HIDE DEF breaks, e
<1>11. search \in Searches /\ breaks \in Nat /\ w \in Seq(Letter) /\ e \in Nat
  BY <1>1, <1>5, <1>8, <1>9 DEF SearchTypeOK, breaks
<1>12. /\ search'.phase = "reading" /\ search'.size = search.size
       /\ search'.remaining = search.remaining /\ search'.absolute = e
       /\ search'.lines_seen = breaks /\ search'.overlap = w
       /\ search'.items = search.items /\ search'.truncated = search.truncated
       /\ search' \in Searches
  BY <1>10, <1>11 DEF Searches
<1>13. Reading' /\ ~Matching' /\ Base' = e - Len(w)
  BY <1>12 DEF Reading, Matching, Base
<1>14. SearchTypeOK'
  BY <1>1, <1>2, <1>12 DEF SearchTypeOK
<1>15. BlockInv'
  BY <1>1, <1>3, <1>8, <1>12, <1>13 DEF BlockInv, breaks
<1>16. HitsInv' /\ At' = At
  BY <1>1, <1>12, HitsKept
<1>17. FrontInv'
  <2>1. Occurrences' = Occurrences /\ \A o : Overlapped(o)' = Overlapped(o)
    BY <1>1, <1>12, OccurrencesKept
  <2>2. ASSUME NEW k \in 1..Len(search.items) PROVE search.items[k].offset + q <= e
    <3>1. \/ search.items[k].offset + q <= search.absolute
          \/ search.items[k].offset + q < b + search.pos
      BY <1>1 DEF FrontInv
    <3>2. search.items[k] \in Hit
      <4>1. search.items \in Seq(Hit)
        BY <1>1 DEF SearchTypeOK, Searches
      <4> QED BY <4>1, ElementOfSeq
    <3> DEFINE o == search.items[k].offset + q
               p == search.pos
    <3>3. o \in Int /\ (o <= search.absolute \/ o < b + p)
      BY <1>4, <3>1, <3>2 DEF Hit
    <3>4. p \in Nat /\ p <= c + 1 /\ e = b + c
      BY <1>2 DEF e
    <3> HIDE DEF o, p, b, c
    <3>5. o <= e
      BY <1>2, <1>5, <3>3, <3>4
    <3> QED BY <3>5 DEF o
  <2>3. ASSUME NEW o \in Occurrences, o + q - 1 <= e
        PROVE  o \in At \/ Overlapped(o)
    <3>1. CASE o < b + search.pos
      BY <1>1, <3>1 DEF FrontInv
    <3>2. CASE ~(o < b + search.pos)
      <4> DEFINE j == o - b
                 p == search.pos
      <4>1. o \in Nat /\ p \in Nat /\ p >= 1 /\ ~(o < b + p) /\ e = b + c
        BY <1>1, <1>2, <3>2, BlockPlaces DEF Occurrences, e
      <4>2. /\ j \in Nat /\ 1 <= j /\ j + q - 1 <= c /\ b + j = o
            /\ j \in p..c - q + 1
        <5> HIDE DEF b, c, q, p
        <5> QED BY <1>2, <1>4, <2>3, <4>1
      <4>3. Base + j \in Occurrences
        BY <4>2
      <4> HIDE DEF j
      <4>4. OccursAt(search.combined, query, j)
        BY <1>1, <4>2, <4>3, BlockOccurs
      <4>5. j \in Found
        BY <4>2, <4>4 DEF Found
      <4> QED BY <1>1, <4>5
    <3> QED BY <3>1, <3>2
  <2> QED BY <1>1, <1>12, <1>13, <1>16, <2>1, <2>2, <2>3 DEF FrontInv
<1> QED BY <1>12, <1>13, <1>14, <1>15, <1>16, <1>17 DEF SearchInv, SearchExact

LEMMA SearchDoneInv == SearchInv /\ SearchDone => SearchInv'
<1> SUFFICES ASSUME SearchInv, SearchDone PROVE SearchInv'
  OBVIOUS
<1>1. /\ SearchTypeOK /\ Reading /\ ~Matching /\ BlockInv /\ HitsInv /\ FrontInv
      /\ search.remaining = 0 /\ content' = content /\ query' = query
      /\ search' = [search EXCEPT !.phase = "done"]
  BY DEF SearchInv, SearchDone, Reading, Matching
<1>2. /\ search'.phase = "done" /\ search'.size = search.size
      /\ search'.items = search.items /\ search'.truncated = FALSE
  BY <1>1 DEF SearchTypeOK, Searches, BlockInv
<1>3. SearchTypeOK'
  <2>1. search' \in Searches
    BY <1>1 DEF SearchTypeOK, Searches
  <2> QED BY <1>1, <1>2, <2>1 DEF SearchTypeOK
<1>4. HitsInv' /\ At' = At
  BY <1>1, <1>2, HitsKept
<1>5. Occurrences' = Occurrences /\ \A i : Overlapped(i)' = Overlapped(i)
  BY <1>1, <1>2, OccurrencesKept
<1>6. \A i \in Occurrences : i \in At \/ Overlapped(i)
  <2>1. search.absolute = search.size
    BY <1>1 DEF BlockInv, SearchTypeOK, Searches
  <2>2. \A i \in Occurrences : i + Len(query) - 1 <= search.absolute
    BY <2>1 DEF Occurrences
  <2> QED BY <1>1, <2>2 DEF FrontInv
<1>7. SearchExact'
  <2>1. Len(search.items) \in Nat /\ DOMAIN search.items = 1..Len(search.items)
    BY <1>1, LenProperties DEF SearchTypeOK, Searches
  <2>2. \A k \in 1..Len(search'.items) - 1 :
          search'.items[k].offset < search'.items[k + 1].offset
    <3>1. ASSUME NEW k \in 1..Len(search'.items) - 1
          PROVE  k \in 1..Len(search'.items) /\ k + 1 \in 1..Len(search'.items) /\ k < k + 1
      BY <1>2, <2>1
    <3> QED BY <1>4, <3>1 DEF HitsInv
  <2> QED BY <1>2, <1>4, <1>5, <1>6, <2>1, <2>2 DEF SearchExact, HitsInv
<1> QED BY <1>2, <1>3, <1>7 DEF SearchInv, Reading, Matching

LEMMA SearchTimesOutInv == SearchInv /\ SearchTimesOut => SearchInv'
<1> SUFFICES ASSUME SearchInv, SearchTimesOut PROVE SearchInv'
  OBVIOUS
<1>1. /\ SearchTypeOK /\ content' = content /\ query' = query
      /\ search' = [search EXCEPT !.phase = "raised"]
  BY DEF SearchInv, SearchTimesOut
<1>2. search' \in Searches /\ search'.phase = "raised" /\ search'.size = search.size
  BY <1>1 DEF SearchTypeOK, Searches
<1> QED BY <1>1, <1>2 DEF SearchTypeOK, SearchInv, Reading, Matching, SearchExact

\* What the task writes lies behind the size seen.
LEMMA TaskWritesInv == SearchInv /\ TaskWrites => SearchInv'
<1> SUFFICES ASSUME SearchInv, TaskWrites PROVE SearchInv'
  OBVIOUS
<1>1. PICK x \in Letter : content' = Append(content, x)
  BY DEF TaskWrites
<1>2. /\ SearchTypeOK /\ query' = query /\ search' = search
      /\ search.phase \notin {"done", "raised"}
  BY DEF SearchInv, TaskWrites
<1>3. /\ content \in Seq(Letter) /\ content' \in Seq(Letter) /\ search \in Searches
      /\ Len(content) \in Nat /\ Len(content') = Len(content) + 1
  BY <1>1, <1>2, AppendProperties, LenProperties DEF SearchTypeOK
<1>4. search.size \in Nat /\ search.size <= Len(content) /\ Len(query) \in Nat
  BY <1>2, QueryLength DEF SearchTypeOK, Searches
<1>5. \A a \in Nat, z \in Nat :
        z <= search.size => SubSeq(content', a + 1, z) = SubSeq(content, a + 1, z)
  BY <1>1, <1>3, <1>4, PartOfAppend
<1>6. SearchTypeOK'
  BY <1>2, <1>3, <1>4 DEF SearchTypeOK
<1>7. Occurrences' = Occurrences
  <2>1. ASSUME NEW i \in 1..search.size, i + Len(query) - 1 <= search.size
        PROVE  OccursAt(content', query, i) <=> OccursAt(content, query, i)
    <3>1. i - 1 \in Nat /\ i + Len(query) - 1 \in Nat /\ (i - 1) + 1 = i
      BY <1>4
    <3> QED BY <1>5, <2>1, <3>1 DEF OccursAt
  <2> QED BY <1>2, <2>1 DEF Occurrences
<1>8. \A i : Overlapped(i)' = Overlapped(i)
  BY <1>2, <1>7 DEF Overlapped
<1>9. At' = At /\ Reading' = Reading /\ Matching' = Matching /\ Base' = Base
  BY <1>2 DEF At, Reading, Matching, Base
<1>10. CASE ~(Reading \/ Matching)
  BY <1>2, <1>6, <1>9, <1>10 DEF SearchInv, SearchExact
<1>11. CASE Reading \/ Matching
  <2>1. BlockInv /\ HitsInv /\ FrontInv
    BY <1>11 DEF SearchInv
  <2>2. /\ Base \in Nat /\ search.absolute \in Nat /\ search.absolute <= search.size
        /\ Matching => Len(search.combined) \in Nat
                       /\ Base + Len(search.combined) <= search.size
    BY <1>2, <1>11, <2>1, BlockPlaces
  <2>3. BlockInv'
    <3>1. SubSeq(content', Base + 1, search.absolute) = SubSeq(content, Base + 1, search.absolute)
      BY <1>5, <2>2
    <3>2. SubSeq(content', 1, search.absolute) = SubSeq(content, 1, search.absolute)
      <4>1. 0 \in Nat /\ 0 + 1 = 1
        OBVIOUS
      <4> QED BY <1>5, <2>2, <4>1
    <3>3. Matching => SubSeq(content', Base + 1, Base + Len(search.combined))
                        = SubSeq(content, Base + 1, Base + Len(search.combined))
      <4>1. Matching => Base + Len(search.combined) \in Nat
        BY <2>2
      <4> QED BY <1>5, <2>2, <4>1
    <3> QED BY <1>2, <1>9, <2>1, <3>1, <3>2, <3>3 DEF BlockInv
  <2>4. HitsInv'
    <3>1. \A k \in 1..Len(search.items) :
            SubSeq(content', 1, search.items[k].offset) = SubSeq(content, 1, search.items[k].offset)
      <4> SUFFICES ASSUME NEW k \in 1..Len(search.items)
                   PROVE  SubSeq(content', 1, search.items[k].offset)
                            = SubSeq(content, 1, search.items[k].offset)
        OBVIOUS
      <4> DEFINE o == search.items[k].offset
      <4>1. o \in Nat
        <5>1. search.items \in Seq(Hit)
          BY <1>3 DEF Searches
        <5>2. search.items[k] \in Hit
          BY <5>1, ElementOfSeq
        <5> QED BY <5>2 DEF Hit
      <4>2. o + 1 \in Occurrences
        <5>1. DOMAIN search.items = 1..Len(search.items)
          BY <1>3, LenProperties DEF Searches
        <5> QED BY <2>1, <5>1 DEF HitsInv, At
      <4>3. o <= search.size /\ 0 \in Nat /\ 0 + 1 = 1
        <5>1. o + 1 \in 1..search.size
          BY <4>2 DEF Occurrences
        <5> HIDE DEF o
        <5> QED BY <1>4, <4>1, <5>1
      <4> QED BY <1>5, <4>1, <4>3
    <3> QED BY <1>2, <1>7, <1>9, <2>1, <3>1 DEF HitsInv
  <2>5. FrontInv'
    BY <1>2, <1>7, <1>8, <1>9, <2>1 DEF FrontInv
  <2> QED BY <1>2, <1>6, <2>3, <2>4, <2>5 DEF SearchInv, SearchExact
<1> QED BY <1>10, <1>11

LEMMA SearchNextInv == SearchInv /\ SearchNext => SearchInv' /\ query' = query
<1>1. SearchInv /\ SearchNext => SearchInv'
  BY SearchOpenInv, SearchReadInv, SearchMatchInv, SearchBlockEndsInv, SearchDoneInv,
     SearchTimesOutInv, TaskWritesInv DEF SearchNext
<1>2. SearchNext => query' = query
  BY DEF SearchNext, SearchOpen, SearchRead, SearchMatch, SearchBlockEnds, SearchDone,
         SearchTimesOut, TaskWrites
<1> QED BY <1>1, <1>2

LEMMA SearchKept == SearchInv /\ UNCHANGED searchVars => SearchInv'
<1> SUFFICES ASSUME SearchInv, UNCHANGED searchVars PROVE SearchInv'
  OBVIOUS
<1>1. content' = content /\ query' = query /\ search' = search
  BY DEF searchVars
<1>2. At' = At /\ Occurrences' = Occurrences /\ Base' = Base
      /\ Reading' = Reading /\ Matching' = Matching /\ \A i : Overlapped(i)' = Overlapped(i)
  BY <1>1 DEF At, Occurrences, OccursAt, Base, Reading, Matching, Overlapped
<1>3. SearchTypeOK' = SearchTypeOK /\ BlockInv' = BlockInv /\ SearchExact' = SearchExact
  BY <1>1, <1>2 DEF SearchTypeOK, BlockInv, SearchExact
<1>4. HitsInv' = HitsInv /\ FrontInv' = FrontInv
  BY <1>1, <1>2 DEF HitsInv, FrontInv
<1> QED BY <1>2, <1>3, <1>4 DEF SearchInv

LEMMA WindowKept == WindowInv /\ UNCHANGED windowVars => WindowInv'
<1> SUFFICES ASSUME WindowInv, UNCHANGED windowVars PROVE WindowInv'
  OBVIOUS
<1>1. text' = text /\ request' = request /\ low' = low /\ high' = high /\ window' = window
  BY DEF windowVars
<1>2. /\ Start(request)' = Start(request) /\ End(request)' = End(request)
      /\ \A k : Part(request, k)' = Part(request, k)
  BY <1>1 DEF Start, End, Part
<1>3. Chosen(request)' = Chosen(request)
  <2>1. \A i : Inside(i, request)' = Inside(i, request)
    BY <1>1, <1>2 DEF Inside
  <2>2. \A edge, step : Steps(edge, step, request)' = Steps(edge, step, request)
    BY <1>2, <2>1 DEF Steps
  <2>3. \A edge, step : Aligned(edge, step, request)' = Aligned(edge, step, request)
    BY <1>1, <1>2, <2>2 DEF Aligned, Forward
  <2> QED BY <1>1, <1>2, <2>3 DEF Chosen, Forward
<1> QED BY <1>1, <1>2, <1>3 DEF WindowInv, WindowTypeOK, RequestOK

\* However the file grows and wherever a block ends, a search that finishes reports
\* places of the query in order, once each and on their lines, and unless it is cut
\* short leaves out none that does not overlap another (search_log, service.py).
THEOREM SearchIsExact == ScansSpec => []SearchExact
<1> DEFINE Inv == (query = <<>> /\ search = NotSearching) \/ SearchInv
<1>1. ScansInit => Inv
  BY SearchInitInv DEF ScansInit, SearchIdle
<1>2. Inv /\ [ScansNext]_scansVars => Inv'
  <2> SUFFICES ASSUME Inv, [ScansNext]_scansVars PROVE Inv'
    OBVIOUS
  <2>1. (query # <<>> /\ SearchNext) \/ UNCHANGED searchVars
    BY DEF ScansNext, scansVars
  <2>2. CASE query # <<>> /\ SearchNext
    BY <2>2, SearchNextInv
  <2>3. CASE UNCHANGED searchVars
    <3>1. query' = query /\ search' = search
      BY <2>3 DEF searchVars
    <3>2. NotSearching' = NotSearching
      BY DEF NotSearching
    <3> QED BY <2>3, <3>1, <3>2, SearchKept
  <2> QED BY <2>1, <2>2, <2>3
<1>3. Inv => SearchExact
  <2>1. NotSearching.phase = "idle"
    BY DEF NotSearching
  <2> QED BY <2>1 DEF SearchInv, SearchExact
<1> QED BY <1>1, <1>2, <1>3, PTL DEF ScansSpec

\* A window lies in the log and fits the terminal, is not empty while there is something
\* to show, cuts no character, shows the hit it was asked for and leaves out nothing
\* that would fit, for every log, of text or not, and every size of the terminal
\* (terminal_windows.py).
THEOREM WindowIsSound == ScansSpec => []WindowSound
<1> DEFINE Inv == text = <<>> \/ WindowInv
<1>1. ScansInit => Inv
  BY WindowInitInv DEF ScansInit, WindowIdle
<1>2. Inv /\ [ScansNext]_scansVars => Inv'
  <2> SUFFICES ASSUME Inv, [ScansNext]_scansVars PROVE Inv'
    OBVIOUS
  <2>1. (text # <<>> /\ WindowNext) \/ UNCHANGED windowVars
    BY DEF ScansNext, scansVars
  <2>2. CASE text # <<>> /\ WindowNext
    BY <2>2, HalveInv, AnswerInv DEF WindowNext
  <2>3. CASE UNCHANGED windowVars
    <3>1. text' = text
      BY <2>3 DEF windowVars
    <3> QED BY <2>3, <3>1, WindowKept
  <2> QED BY <2>1, <2>2, <2>3
<1>3. Inv => WindowSound
  <2>1. CASE text = <<>> \/ window = <<>>
    BY <2>1 DEF WindowSound
  <2>2. CASE WindowInv /\ window # <<>>
    BY <2>2, ChosenSound
  <2> QED BY <2>1, <2>2
<1> QED BY <1>1, <1>2, <1>3, PTL DEF ScansSpec

-----------------------------------------------------------------------------
(* Compacting                                                              *)

\* What holds of the empty sequence and is kept by appending holds of all.
LEMMA AppendInduction ==
    ASSUME NEW S, NEW G, G \subseteq Seq(S), <<>> \in G,
           \A s \in G, x \in S : Append(s, x) \in G
    PROVE  G = Seq(S)
<1> DEFINE T == {n \in Nat : \E s \in Seq(S) \ G : Len(s) = n}
<1>1. SUFFICES ASSUME NEW t \in Seq(S) \ G
               PROVE  FALSE
  OBVIOUS
<1>2. Len(t) \in T /\ T \subseteq Nat
  BY LenProperties
<1>3. PICK n \in T : \A k \in T : n <= k
  <2> HIDE DEF T
  <2> QED BY <1>2, LeastExists
<1>4. PICK s \in Seq(S) \ G : Len(s) = n
  BY <1>3
<1>5. PICK r \in Seq(S), x \in S : s = Append(r, x)
  BY <1>4, SequenceEmptyOrAppend
<1>6. Len(s) = Len(r) + 1 /\ Len(r) \in Nat
  BY <1>5, AppendProperties, LenProperties
<1>7. r \notin G
  BY <1>4, <1>5
<1>8. Len(r) \in T
  BY <1>6, <1>7
<1> HIDE DEF T
<1> QED BY <1>3, <1>4, <1>6, <1>8

\* An empty text is compact.
LEMMA CompactEmpty == Compact(<<>>) = <<>>
<1>1. Kept(<<>>) = {}
  BY DEF Kept
<1>2. Cardinality(Kept(<<>>)) = 0
  BY <1>1, FS_EmptySet
<1>3. 1..0 = {}
  OBVIOUS
<1> QED BY <1>2, <1>3 DEF Compact

\* The places kept are as many as a number.
LEMMA KeptCounts ==
    ASSUME NEW s \in Seq(Symbol), NEW i \in Nat
    PROVE  /\ IsFiniteSet(Kept(s)) /\ Cardinality(Kept(s)) \in Nat
           /\ IsFiniteSet(Kept(s) \cap 1..i)
           /\ Cardinality(Kept(s) \cap 1..i) \in Nat
           /\ Cardinality(Kept(s) \cap 1..i) <= Cardinality(Kept(s))
<1>1. Kept(s) \subseteq 1..Len(s) /\ Len(s) \in Nat
  BY LenProperties DEF Kept
<1>2. IsFiniteSet(1..Len(s))
  BY <1>1, FS_Interval
<1>3. IsFiniteSet(Kept(s))
  BY <1>1, <1>2, FS_Subset
<1>4. IsFiniteSet(Kept(s) \cap 1..i) /\ Cardinality(Kept(s) \cap 1..i) <= Cardinality(Kept(s))
  BY <1>3, FS_Subset
<1> QED BY <1>3, <1>4, FS_CardinalityType

\* Every number up to that of the places kept is the rank of one.
LEMMA RankExists ==
    ASSUME NEW s \in Seq(Symbol), NEW k \in 1..Cardinality(Kept(s))
    PROVE  \E i \in Kept(s) : Cardinality(Kept(s) \cap 1..i) = k
<1> DEFINE c(m) == Cardinality(Kept(s) \cap 1..m)
           T == {m \in Nat : c(m) >= k}
<1>1. Kept(s) \subseteq 1..Len(s) /\ Len(s) \in Nat
  BY LenProperties DEF Kept
<1>2. /\ k \in Nat /\ k >= 1 /\ k <= Cardinality(Kept(s))
      /\ Cardinality(Kept(s)) \in Nat
      /\ \A m \in Nat : c(m) \in Nat
  <2>1. \A m \in Nat : c(m) \in Nat
    BY KeptCounts
  <2>2. Cardinality(Kept(s)) \in Nat
    BY KeptCounts
  <2> HIDE DEF c
  <2> QED BY <2>1, <2>2
<1>3. Len(s) \in T
  <2>1. Kept(s) \cap 1..Len(s) = Kept(s)
    BY <1>1
  <2> QED BY <1>1, <1>2, <2>1
<1>4. PICK m \in T : \A j \in T : m <= j
  <2>1. T \subseteq Nat /\ T # {}
    BY <1>3
  <2> HIDE DEF T
  <2> QED BY <2>1, LeastExists
<1>5. m # 0
  <2>1. Kept(s) \cap 1..0 = {}
    OBVIOUS
  <2>2. c(0) = 0
    BY <2>1, FS_EmptySet
  <2>3. c(m) >= k
    BY <1>4
  <2> HIDE DEF c
  <2> QED BY <1>2, <2>2, <2>3
<1>6. m - 1 \in Nat /\ m \in Nat /\ c(m - 1) < k
  <2>1. m - 1 \in Nat /\ m \in Nat /\ ~(m <= m - 1)
    BY <1>4, <1>5
  <2>2. m - 1 \notin T
    <3> HIDE DEF T
    <3> QED BY <1>4, <2>1
  <2>3. ~(c(m - 1) >= k) /\ c(m - 1) \in Nat
    BY <1>2, <2>1, <2>2
  <2> HIDE DEF c
  <2> QED BY <1>2, <2>1, <2>3
<1>7. 1..m = (1..m - 1) \cup {m} /\ m \notin 1..m - 1
  BY <1>5, <1>6
<1>8. c(m) >= k /\ c(m) \in Nat
  BY <1>2, <1>4
<1>9. m \in Kept(s)
  <2>1. SUFFICES ASSUME m \notin Kept(s)
                 PROVE  FALSE
    OBVIOUS
  <2>2. Kept(s) \cap 1..m = Kept(s) \cap 1..m - 1
    BY <1>7, <2>1
  <2>3. c(m) = c(m - 1)
    BY <2>2
  <2> HIDE DEF c
  <2> QED BY <1>2, <1>6, <1>8, <2>3
<1>10. c(m) = c(m - 1) + 1
  <2>1. Kept(s) \cap 1..m = (Kept(s) \cap 1..m - 1) \cup {m}
    BY <1>7, <1>9
  <2>2. IsFiniteSet(Kept(s) \cap 1..m - 1) /\ m \notin Kept(s) \cap 1..m - 1
    BY <1>6, <1>7, KeptCounts
  <2> QED BY <2>1, <2>2, FS_AddElement
<1>11. c(m) = k
  <2> HIDE DEF c
  <2> QED BY <1>2, <1>6, <1>8, <1>10
<1> QED BY <1>9, <1>11

Sort(x) == IF x \in Blank THEN "w" ELSE x

Ends(s, x) == s # <<>> /\ s[Len(s)] \in Blank /\ x \in Blank

\* What appending a symbol does to a compacted text.
LEMMA CompactAppend ==
    ASSUME NEW s \in Seq(Symbol), NEW x \in Symbol
    PROVE  Compact(Append(s, x)) =
             IF Ends(s, x) THEN Compact(s) ELSE Append(Compact(s), Sort(x))
<1> DEFINE t == Append(s, x)
           n == Len(s)
           c == Cardinality(Kept(s))
<1>1. /\ n \in Nat /\ DOMAIN s = 1..n /\ DOMAIN t = 1..n + 1 /\ t \in Seq(Symbol)
      /\ \A i \in 1..n : t[i] = s[i]
      /\ t[n + 1] = x
  BY LenProperties, AppendProperties
<1>2. c \in Nat
  BY KeptCounts
<1>3. \A i \in 1..n : i \in Kept(t) <=> i \in Kept(s)
  <2> TAKE i \in 1..n
  <2>1. i # 1 => i - 1 \in 1..n
    BY <1>1
  <2> QED BY <1>1, <2>1 DEF Kept
<1>4. Kept(s) \subseteq 1..n /\ Kept(t) \subseteq 1..n + 1
  BY <1>1 DEF Kept
<1>5. n + 1 \in Kept(t) <=> ~Ends(s, x)
  <2>1. s # <<>> <=> n # 0
    BY EmptySeq
  <2>2. (n + 1) - 1 = n /\ (n + 1 = 1 <=> n = 0) /\ n + 1 \in 1..n + 1
    BY <1>1
  <2>3. n # 0 => t[n] = s[n]
    <3> HIDE DEF n, t
    <3> QED BY <1>1
  <2> HIDE DEF n, t
  <2>4. n + 1 \in Kept(t) <=> x \notin Blank \/ n = 0 \/ t[n] \notin Blank
    BY <1>1, <2>2 DEF Kept
  <2> QED BY <2>1, <2>3, <2>4 DEF Ends, n
<1>6. \A i \in 1..n : Kept(t) \cap 1..i = Kept(s) \cap 1..i
  <2> TAKE i \in 1..n
  <2>1. \A j \in 1..i : j \in 1..n
    BY <1>1
  <2> QED BY <1>3, <2>1
<1>11. \A i \in 1..n + 1 : i \in 1..n \/ i = n + 1
  BY <1>1
<1>12. n + 1 \notin Kept(s) /\ IsFiniteSet(Kept(s))
  BY <1>1, <1>4, KeptCounts
<1> DEFINE at(u, k) == CHOOSE i \in Kept(u) : Cardinality(Kept(u) \cap 1..i) = k
           symbol(u, k) == IF u[at(u, k)] \in Blank THEN "w" ELSE u[at(u, k)]
<1>7. /\ Compact(s) = [k \in 1..c |-> symbol(s, k)]
      /\ Compact(t) = [k \in 1..Cardinality(Kept(t)) |-> symbol(t, k)]
  BY DEF Compact
<1> HIDE DEF t, c, n
<1>8. ASSUME NEW k \in 1..c
      PROVE  symbol(t, k) = symbol(s, k)
  <2>1. \A i : /\ i \in Kept(t) /\ Cardinality(Kept(t) \cap 1..i) = k
               <=> i \in Kept(s) /\ Cardinality(Kept(s) \cap 1..i) = k
    <3> TAKE i
    <3>1. CASE i \in 1..n
      BY <1>3, <1>6, <3>1
    <3>2. CASE i = n + 1 /\ i \in Kept(t)
      <4>1. Kept(t) \cap 1..n + 1 = Kept(s) \cup {n + 1}
        BY <1>3, <1>4, <1>11, <3>2
      <4>2. Cardinality(Kept(t) \cap 1..n + 1) = c + 1
        BY <1>12, <3>2, <4>1, FS_AddElement DEF c
      <4> QED BY <1>2, <1>12, <3>2, <4>2
    <3>3. CASE i \notin Kept(t) /\ i \notin 1..n
      BY <1>4, <3>3
    <3> QED BY <1>4, <1>11, <3>1, <3>2, <3>3
  <2>2. at(t, k) = at(s, k)
    BY <2>1
  <2>3. at(s, k) \in Kept(s)
    <3>1. \E i \in Kept(s) : Cardinality(Kept(s) \cap 1..i) = k
      BY RankExists DEF c
    <3> QED BY <3>1
  <2>4. t[at(s, k)] = s[at(s, k)]
    BY <1>1, <1>4, <2>3
  <2> QED BY <2>2, <2>4
<1>9. CASE Ends(s, x)
  <2>1. Kept(t) = Kept(s)
    BY <1>3, <1>4, <1>5, <1>9, <1>11 DEF t, n
  <2> QED BY <1>7, <1>8, <1>9, <2>1 DEF c, t
<1>10. CASE ~Ends(s, x)
  <2>1. Kept(t) = Kept(s) \cup {n + 1}
    BY <1>3, <1>4, <1>5, <1>10, <1>11
  <2>2. Cardinality(Kept(t)) = c + 1
    BY <1>12, <2>1, FS_AddElement DEF c
  <2>3. at(t, c + 1) = n + 1
    <3>1. \A i \in Kept(t) : Cardinality(Kept(t) \cap 1..i) = c + 1 => i = n + 1
      <4> TAKE i \in Kept(t)
      <4>1. CASE i \in 1..n
        <5>1. i \in Nat
          BY <1>1, <4>1
        <5>2. Cardinality(Kept(s) \cap 1..i) <= c /\ Cardinality(Kept(s) \cap 1..i) \in Nat
          BY <5>1, KeptCounts DEF c
        <5>3. Cardinality(Kept(t) \cap 1..i) = Cardinality(Kept(s) \cap 1..i)
          BY <1>6, <4>1
        <5> QED BY <1>2, <5>2, <5>3
      <4> QED BY <1>4, <1>11, <4>1
    <3>2. Kept(t) \cap 1..n + 1 = Kept(t) /\ n + 1 \in Kept(t)
      BY <1>4, <2>1
    <3> QED BY <2>2, <3>1, <3>2
  <2>4. symbol(t, c + 1) = Sort(x)
    <3>1. t[n + 1] = x
      BY <1>1
    <3> HIDE DEF at
    <3> QED BY <2>3, <3>1 DEF Sort
  <2>5. Compact(s) \in [1..c -> {Sort(y) : y \in Symbol}]
    <3>1. \A k \in 1..c : symbol(s, k) \in {Sort(y) : y \in Symbol}
      <4> TAKE k \in 1..c
      <4>1. at(s, k) \in Kept(s)
        <5>1. \E i \in Kept(s) : Cardinality(Kept(s) \cap 1..i) = k
          BY RankExists DEF c
        <5> QED BY <5>1
      <4>2. s[at(s, k)] \in Symbol
        BY <1>1, <1>4, <4>1, ElementOfSeq DEF n
      <4> HIDE DEF at
      <4> QED BY <4>2 DEF Sort
    <3> HIDE DEF symbol
    <3> QED BY <1>7, <3>1
  <2>6. Compact(s) \in Seq({Sort(y) : y \in Symbol}) /\ Len(Compact(s)) = c
    <3> DEFINE S == {Sort(y) : y \in Symbol}
    <3>1. Compact(s) \in Seq(S)
      BY <1>2, <2>5, SeqDef
    <3>2. DOMAIN Compact(s) = 1..c /\ DOMAIN Compact(s) = 1..Len(Compact(s)) /\ Len(Compact(s)) \in Nat
      BY <2>5, <3>1, LenProperties
    <3> QED BY <1>2, <3>1, <3>2
  <2> DEFINE S == {Sort(y) : y \in Symbol}
             p == Compact(s)
             y == Sort(x)
  <2>7. y \in S /\ p \in Seq(S) /\ Len(p) = c
    BY <2>6
  <2>8. /\ Append(p, y) \in Seq(S) /\ Len(Append(p, y)) = c + 1
        /\ \A k \in 1..c : Append(p, y)[k] = p[k]
        /\ Append(p, y)[c + 1] = y
        /\ DOMAIN Append(p, y) = 1..c + 1
    <3> HIDE DEF S, p, y
    <3>1. Append(p, y) \in Seq(S) /\ Len(Append(p, y)) = c + 1
      BY <2>7, AppendProperties
    <3> QED BY <2>7, <3>1, AppendProperties, LenProperties
  <2>9. Append(p, y) = [k \in 1..c + 1 |-> Append(p, y)[k]]
    <3> HIDE DEF S, p, y
    <3>1. Append(p, y) \in [1..c + 1 -> S]
      BY <2>8, LenProperties
    <3> QED BY <3>1
  <2>10. \A k \in 1..c + 1 : symbol(t, k) = Append(p, y)[k]
    <3> TAKE k \in 1..c + 1
    <3>1. CASE k = c + 1
      BY <2>4, <2>8, <3>1
    <3>2. CASE k \in 1..c
      <4>1. symbol(t, k) = symbol(s, k)
        BY <1>8, <3>2
      <4>2. p[k] = symbol(s, k)
        BY <1>7, <3>2
      <4>3. Append(p, y)[k] = p[k]
        BY <2>8, <3>2
      <4> HIDE DEF symbol, p, y
      <4> QED BY <4>1, <4>2, <4>3
    <3>3. k = c + 1 \/ k \in 1..c
      BY <1>2
    <3> QED BY <3>1, <3>2, <3>3
  <2>11. Compact(t) = [k \in 1..c + 1 |-> symbol(t, k)]
    BY <1>7, <2>2
  <2>12. Compact(t) = Append(p, y)
    <3> HIDE DEF symbol, p, y
    <3> QED BY <2>9, <2>10, <2>11
  <2> QED BY <1>10, <2>12 DEF t
<1> QED BY <1>9, <1>10 DEF t

\* Appending to a compacted text: a blank after a blank is left out.
Put(c, y) == IF c # <<>> /\ c[Len(c)] = "w" /\ y = "w" THEN c ELSE Append(c, y)

\* No line break, and no blank after a blank.
IsCompact(c) ==
    /\ c \in Seq(Symbol)
    /\ \A i \in 1..Len(c) : c[i] # "n" /\ (c[i] = "w" /\ i # 1 => c[i - 1] # "w")

\* Appending to the second of two texts appends to both.
LEMMA ConcatAppend ==
    ASSUME NEW S, NEW s \in Seq(S), NEW r \in Seq(S), NEW x \in S
    PROVE  /\ s \o r \in Seq(S) /\ Append(r, x) \in Seq(S)
           /\ s \o Append(r, x) = Append(s \o r, x)
<1>1. s \o r \in Seq(S) /\ Append(r, x) \in Seq(S) /\ <<x>> \in Seq(S)
  BY ConcatProperties, AppendProperties
<1>2. Append(r, x) = r \o <<x>> /\ Append(s \o r, x) = (s \o r) \o <<x>>
  BY <1>1, AppendIsConcat
<1>3. (s \o r) \o <<x>> = s \o (r \o <<x>>)
  BY <1>1, ConcatAssociative
<1> QED BY <1>1, <1>2, <1>3

USE DEF Summed

\* A blank of any kind is compacted to "w", another symbol stays.
LEMMA SortFacts ==
    ASSUME NEW x \in Symbol
    PROVE  /\ Sort(x) \in Symbol /\ Sort(x) # "n"
           /\ Sort(x) = "w" <=> x \in Blank
           /\ x \notin Blank => Sort(x) = x
           /\ x # "n" => Sort(x) = x
  BY DEF Sort, Symbol, Blank

\* What is appended to a compacted text is its last symbol; what was there stays.
LEMMA PutFacts ==
    ASSUME NEW c, IsCompact(c), NEW y \in Symbol, y # "n"
    PROVE  /\ IsCompact(Put(c, y))
           /\ Put(c, y)[Len(Put(c, y))] = y
           /\ Len(Put(c, y)) \in {Len(c), Len(c) + 1} /\ Len(Put(c, y)) > 0
           /\ \A i \in 1..Len(c) : Put(c, y)[i] = c[i]
           /\ y # "w" => Len(Put(c, y)) = Len(c) + 1
<1>1. c \in Seq(Symbol) /\ Len(c) \in Nat /\ (c = <<>> <=> Len(c) = 0)
  BY LenProperties, EmptySeq DEF IsCompact
<1>2. CASE c # <<>> /\ c[Len(c)] = "w" /\ y = "w"
  BY <1>1, <1>2 DEF Put
<1>3. CASE ~(c # <<>> /\ c[Len(c)] = "w" /\ y = "w")
  <2> DEFINE d == Append(c, y)
             n == Len(c)
  <2>1. /\ d \in Seq(Symbol) /\ Len(d) = n + 1 /\ d[n + 1] = y
        /\ \A i \in 1..n : d[i] = c[i]
    BY <1>1, AppendProperties
  <2>2. Put(c, y) = d
    BY <1>3 DEF Put
  <2>3. \A i \in 1..n : c[i] # "n" /\ (c[i] = "w" /\ i # 1 => c[i - 1] # "w")
    BY DEF IsCompact
  <2>4. n # 0 => c[n] # "w" \/ y # "w"
    BY <1>1, <1>3
  <2> HIDE DEF d, n
  <2>5. ASSUME NEW i \in 1..n + 1
        PROVE  d[i] # "n" /\ (d[i] = "w" /\ i # 1 => d[i - 1] # "w")
    <3>1. n \in Nat
      BY <1>1 DEF n
    <3>2. CASE i = n + 1
      <4>1. i # 1 => n \in 1..n /\ i - 1 = n
        BY <3>1, <3>2
      <4> QED BY <2>1, <2>4, <3>1, <3>2, <4>1
    <3>3. CASE i \in 1..n
      <4>1. i # 1 => i - 1 \in 1..n
        BY <3>1, <3>3
      <4> QED BY <2>1, <2>3, <3>3, <4>1
    <3> QED BY <3>1, <3>2, <3>3
  <2> QED BY <1>1, <2>1, <2>2, <2>5 DEF IsCompact, n
<1> QED BY <1>2, <1>3

\* Compacting goes symbol by symbol.
LEMMA CompactPut ==
    ASSUME NEW s \in Seq(Symbol)
    PROVE  /\ IsCompact(Compact(s))
           /\ s = <<>> => Compact(s) = <<>>
           /\ s # <<>> => Len(Compact(s)) > 0 /\ Compact(s)[Len(Compact(s))] = Sort(s[Len(s)])
           /\ \A x \in Symbol : Compact(Append(s, x)) = Put(Compact(s), Sort(x))
<1> DEFINE Good(r) == /\ IsCompact(Compact(r))
                      /\ r # <<>> => /\ Len(Compact(r)) > 0
                                     /\ Compact(r)[Len(Compact(r))] = Sort(r[Len(r)])
           G == {r \in Seq(Symbol) : Good(r)}
<1>1. ASSUME NEW r \in G, NEW x \in Symbol
      PROVE  Compact(Append(r, x)) = Put(Compact(r), Sort(x))
  <2>1. r \in Seq(Symbol) /\ Good(r)
    OBVIOUS
  <2>2. Compact(Append(r, x)) =
          IF Ends(r, x) THEN Compact(r) ELSE Append(Compact(r), Sort(x))
    BY <2>1, CompactAppend
  <2>3. Ends(r, x) <=>
          Compact(r) # <<>> /\ Compact(r)[Len(Compact(r))] = "w" /\ Sort(x) = "w"
    <3>1. Sort(x) = "w" <=> x \in Blank
      BY SortFacts
    <3>2. CASE r = <<>>
      BY <3>2, CompactEmpty DEF Ends
    <3>3. CASE r # <<>>
      <4>1. Len(r) \in 1..Len(r)
        BY <2>1, <3>3, EmptySeq
      <4>2. r[Len(r)] \in Symbol
        BY <2>1, <4>1, ElementOfSeq
      <4>3. Sort(r[Len(r)]) = "w" <=> r[Len(r)] \in Blank
        BY <4>2, SortFacts
      <4>4. Compact(r) # <<>>
        BY <2>1, <3>3, EmptySeq
      <4> QED BY <2>1, <3>1, <3>3, <4>3, <4>4 DEF Ends
    <3> QED BY <3>2, <3>3
  <2> QED BY <2>2, <2>3 DEF Put
<1>2. <<>> \in G
  <2>1. IsCompact(<<>>)
    BY EmptySeq DEF IsCompact
  <2> QED BY <2>1, CompactEmpty, EmptySeq
<1>3. ASSUME NEW r \in G, NEW x \in Symbol
      PROVE  Append(r, x) \in G
  <2>1. Compact(Append(r, x)) = Put(Compact(r), Sort(x))
    BY <1>1
  <2>2. Sort(x) \in Symbol /\ Sort(x) # "n"
    BY SortFacts
  <2>3. r \in Seq(Symbol) /\ IsCompact(Compact(r))
    OBVIOUS
  <2>4. /\ Append(r, x) \in Seq(Symbol) /\ Len(Append(r, x)) = Len(r) + 1
        /\ Append(r, x)[Len(r) + 1] = x
    BY <2>3, AppendProperties
  <2> DEFINE d == Put(Compact(r), Sort(x))
  <2>5. IsCompact(d) /\ d[Len(d)] = Sort(x) /\ Len(d) > 0
    BY <2>2, <2>3, PutFacts
  <2> HIDE DEF d
  <2> QED BY <2>1, <2>4, <2>5 DEF d
<1>4. G = Seq(Symbol)
  <2> HIDE DEF G
  <2>1. G \subseteq Seq(Symbol)
    BY DEF G
  <2> QED BY <1>2, <1>3, <2>1, AppendInduction
<1> QED BY <1>1, <1>4, CompactEmpty

\* What is compact stays as it is.
LEMMA CompactFixed ==
    ASSUME NEW c, IsCompact(c)
    PROVE  Compact(c) = c
<1> DEFINE G == {r \in Seq(Symbol) : IsCompact(r) => Compact(r) = r}
<1>1. <<>> \in G
  BY CompactEmpty, EmptySeq
<1>2. ASSUME NEW r \in G, NEW x \in Symbol
      PROVE  Append(r, x) \in G
  <2> DEFINE d == Append(r, x)
             n == Len(r)
  <2>1. r \in Seq(Symbol) /\ n \in Nat /\ (r = <<>> <=> n = 0)
    BY LenProperties, EmptySeq
  <2>2. /\ d \in Seq(Symbol) /\ Len(d) = n + 1 /\ d[n + 1] = x
        /\ \A i \in 1..n : d[i] = r[i]
    BY <2>1, AppendProperties
  <2>3. SUFFICES ASSUME IsCompact(d)
                 PROVE  Compact(d) = d
    BY <2>2
  <2>4. \A i \in 1..n + 1 : d[i] # "n" /\ (d[i] = "w" /\ i # 1 => d[i - 1] # "w")
    BY <2>2, <2>3 DEF IsCompact
  <2> HIDE DEF d, n
  <2>5. IsCompact(r)
    <3>1. \A i \in 1..n : r[i] # "n" /\ (r[i] = "w" /\ i # 1 => r[i - 1] # "w")
      <4> TAKE i \in 1..n
      <4>1. i \in 1..n + 1 /\ (i # 1 => i - 1 \in 1..n)
        BY <2>1
      <4> QED BY <2>2, <2>4, <4>1
    <3> QED BY <2>1, <3>1 DEF IsCompact, n
  <2>6. n + 1 \in 1..n + 1 /\ (n # 0 => n + 1 # 1 /\ (n + 1) - 1 = n /\ n \in 1..n)
    BY <2>1
  <2>7. x # "n" /\ (n # 0 => ~(r[n] = "w" /\ x = "w"))
    BY <2>2, <2>4, <2>6
  <2>8. Sort(x) = x
    BY <2>7, SortFacts
  <2>9. Compact(r) = r
    BY <2>5
  <2>10. Compact(d) = Put(r, x)
    BY <2>1, <2>8, <2>9, CompactPut DEF d
  <2> QED BY <2>1, <2>7, <2>10 DEF Put, d, n
<1>3. G = Seq(Symbol)
  <2> HIDE DEF G
  <2>1. G \subseteq Seq(Symbol)
    BY DEF G
  <2> QED BY <1>1, <1>2, <2>1, AppendInduction
<1> QED BY <1>3 DEF IsCompact

\* Texts compacted one after another: the first part stays.
LEMMA CompactLonger ==
    ASSUME NEW s \in Seq(Symbol), NEW y \in Seq(Symbol)
    PROVE  /\ Len(Compact(s)) <= Len(Compact(s \o y))
           /\ \A i \in 1..Len(Compact(s)) : Compact(s \o y)[i] = Compact(s)[i]
<1> DEFINE Good(r) == /\ Len(Compact(s)) <= Len(Compact(s \o r))
                      /\ \A i \in 1..Len(Compact(s)) : Compact(s \o r)[i] = Compact(s)[i]
           G == {r \in Seq(Symbol) : Good(r)}
<1>0. IsCompact(Compact(s)) /\ Len(Compact(s)) \in Nat
  BY CompactPut, LenProperties DEF IsCompact
<1>1. <<>> \in G
  <2>1. s \o <<>> = s
    BY ConcatEmptySeq
  <2> QED BY <1>0, <2>1, EmptySeq
<1>2. ASSUME NEW r \in G, NEW x \in Symbol
      PROVE  Append(r, x) \in G
  <2>1. r \in Seq(Symbol) /\ Good(r) /\ Append(r, x) \in Seq(Symbol)
    BY AppendProperties
  <2>2. s \o r \in Seq(Symbol) /\ s \o Append(r, x) = Append(s \o r, x)
    BY <2>1, ConcatAppend
  <2> DEFINE c == Compact(s \o r)
             d == Compact(s \o Append(r, x))
  <2>3. IsCompact(c) /\ d = Put(c, Sort(x))
    BY <2>2, CompactPut
  <2>4. Sort(x) \in Symbol /\ Sort(x) # "n"
    BY SortFacts
  <2>5. Len(c) \in Nat
    BY <2>3, LenProperties DEF IsCompact
  <2>6. Len(c) <= Len(d) /\ \A i \in 1..Len(c) : d[i] = c[i]
    <3> HIDE DEF c, d
    <3>1. /\ Len(Put(c, Sort(x))) \in {Len(c), Len(c) + 1}
          /\ \A i \in 1..Len(c) : Put(c, Sort(x))[i] = c[i]
      BY <2>3, <2>4, PutFacts
    <3> QED BY <2>3, <2>5, <3>1
  <2>7. Len(d) \in Nat
    <3> HIDE DEF c, d
    <3> QED BY <2>3, <2>4, PutFacts, LenProperties DEF IsCompact
  <2>8. Good(Append(r, x))
    <3>1. Len(Compact(s)) <= Len(c) /\ \A i \in 1..Len(Compact(s)) : c[i] = Compact(s)[i]
      BY <2>1
    <3> HIDE DEF c, d
    <3>2. Len(Compact(s)) <= Len(d)
      BY <1>0, <2>5, <2>6, <2>7, <3>1
    <3>3. \A i \in 1..Len(Compact(s)) : d[i] = Compact(s)[i]
      <4> TAKE i \in 1..Len(Compact(s))
      <4>1. i \in 1..Len(c)
        BY <1>0, <2>5, <3>1
      <4> QED BY <2>6, <3>1, <4>1
    <3> QED BY <3>2, <3>3 DEF d
  <2> QED BY <2>1, <2>8
<1>3. G = Seq(Symbol)
  <2> HIDE DEF G
  <2>1. G \subseteq Seq(Symbol)
    BY DEF G
  <2> QED BY <1>1, <1>2, <2>1, AppendInduction
<1> QED BY <1>3

\* A text may be cut into these parts: if nothing is left, it does not end with a blank.
Cuts(pre, p) == p = <<>> => pre = <<>> \/ pre[Len(pre)] # "w"

\* Appending to the rest of a text appends to the text.
LEMMA PutConcat ==
    ASSUME NEW pre \in Seq(Symbol), NEW q \in Seq(Symbol), NEW e \in Symbol,
           Cuts(pre, q)
    PROVE  Put(pre \o q, e) = pre \o Put(q, e)
<1>1. pre \o Append(q, e) = Append(pre \o q, e)
  BY ConcatAppend
<1>2. CASE q = <<>>
  <2>1. pre \o q = pre
    BY <1>2, ConcatEmptySeq
  <2>2. Put(q, e) = Append(q, e) /\ Put(pre, e) = Append(pre, e)
    BY <1>2 DEF Put, Cuts
  <2> QED BY <1>1, <2>1, <2>2
<1>3. CASE q # <<>>
  <2>1. Len(q) \in Nat /\ Len(q) > 0 /\ Len(pre) \in Nat
    BY <1>3, EmptySeq, LenProperties
  <2>2. /\ Len(pre \o q) = Len(pre) + Len(q) /\ pre \o q \in Seq(Symbol)
        /\ (pre \o q)[Len(pre) + Len(q)] = q[Len(q)]
    BY <2>1, ConcatProperties
  <2>3. pre \o q # <<>>
    BY <2>1, <2>2, EmptySeq
  <2> QED BY <1>1, <1>3, <2>2, <2>3 DEF Put
<1> QED BY <1>2, <1>3

\* What has been compacted may be cut off, unless it ends with a blank and all is cut.
Makes(s, pre, p) == Compact(s) = pre \o p

\* A compacted text may be cut and its rest compacted with what follows.
LEMMA CompactCut ==
    ASSUME NEW s \in Seq(Symbol), NEW pre \in Seq(Symbol), NEW p, IsCompact(p),
           Makes(s, pre, p), Cuts(pre, p), NEW y \in Seq(Symbol)
    PROVE  Makes(s \o y, pre, Compact(p \o y))
<1> DEFINE G == {r \in Seq(Symbol) : Compact(s \o r) = pre \o Compact(p \o r)}
<1>0. p \in Seq(Symbol)
  BY DEF IsCompact
<1>1. <<>> \in G
  <2>1. s \o <<>> = s /\ p \o <<>> = p
    BY <1>0, ConcatEmptySeq
  <2>2. Compact(p) = p
    BY CompactFixed
  <2> QED BY <2>1, <2>2, EmptySeq DEF Makes
<1>2. ASSUME NEW r \in G, NEW x \in Symbol
      PROVE  Append(r, x) \in G
  <2>1. r \in Seq(Symbol) /\ Compact(s \o r) = pre \o Compact(p \o r)
        /\ Append(r, x) \in Seq(Symbol)
    BY AppendProperties
  <2>2. /\ s \o r \in Seq(Symbol) /\ s \o Append(r, x) = Append(s \o r, x)
        /\ p \o r \in Seq(Symbol) /\ p \o Append(r, x) = Append(p \o r, x)
    <3>1. r \in Seq(Symbol)
      BY <2>1
    <3>2. s \o r \in Seq(Symbol) /\ s \o Append(r, x) = Append(s \o r, x)
      BY <3>1, ConcatAppend
    <3>3. p \o r \in Seq(Symbol) /\ p \o Append(r, x) = Append(p \o r, x)
      BY <1>0, <3>1, ConcatAppend
    <3> QED BY <3>2, <3>3
  <2> DEFINE q == Compact(p \o r)
             e == Sort(x)
  <2>3. /\ Compact(s \o Append(r, x)) = Put(pre \o q, e)
        /\ Compact(p \o Append(r, x)) = Put(q, e)
        /\ q \in Seq(Symbol)
    <3>1. IsCompact(q)
      BY <2>2, CompactPut
    <3>2. Compact(s \o Append(r, x)) = Put(Compact(s \o r), e)
      BY <2>2, CompactPut
    <3>3. Compact(p \o Append(r, x)) = Put(q, e)
      BY <2>2, CompactPut
    <3> QED BY <2>1, <3>1, <3>2, <3>3 DEF IsCompact
  <2>4. e \in Symbol
    BY SortFacts
  <2>5. Cuts(pre, q)
    <3>1. SUFFICES ASSUME q = <<>>
                   PROVE  p = <<>>
      BY DEF Cuts
    <3>2. Len(q) = 0
      BY <3>1, EmptySeq
    <3>3. p \o r = <<>>
      <4>1. p \o r # <<>> => Len(q) > 0
        BY <2>2, CompactPut
      <4> HIDE DEF q
      <4> QED BY <3>2, <4>1
    <3> QED BY <1>0, <2>1, <3>3, ConcatEqualIffEmpty
  <2> HIDE DEF q, e
  <2>6. Put(pre \o q, e) = pre \o Put(q, e)
    BY <2>3, <2>4, <2>5, PutConcat
  <2> QED BY <2>1, <2>3, <2>6
<1>3. G = Seq(Symbol)
  <2> HIDE DEF G
  <2>1. G \subseteq Seq(Symbol)
    BY DEF G
  <2> QED BY <1>1, <1>2, <2>1, AppendInduction
<1> QED BY <1>3 DEF Makes

-----------------------------------------------------------------------------
(* Events                                                                  *)

\* The greatest number of a set is its maximum.
LEMMA MaxIs ==
    ASSUME NEW T, T \subseteq Int, NEW m \in T, \A k \in T : k <= m
    PROVE  Max(T) = m
<1>1. \A x \in T : (\A y \in T : x >= y) => x = m
  OBVIOUS
<1>2. \A y \in T : m >= y
  OBVIOUS
<1> QED BY <1>1, <1>2 DEF Max

\* A set of numbers up to n has a greatest.
LEMMA GreatestExists ==
    ASSUME NEW n \in Nat, NEW T, T \subseteq 1..n, T # {}
    PROVE  \E m \in T : \A k \in T : k <= m
<1> DEFINE D == {k \in Nat : n - k \in T}
<1>1. PICK k \in T : TRUE
  OBVIOUS
<1>2. n - k \in Nat /\ n - (n - k) = k
  BY <1>1
<1>3. n - k \in D
  BY <1>1, <1>2
<1>4. PICK m \in D : \A j \in D : m <= j
  <2>1. D \subseteq Nat /\ D # {}
    BY <1>3
  <2> HIDE DEF D
  <2> QED BY <2>1, LeastExists
<1>5. ASSUME NEW j \in T
      PROVE  j <= n - m
  <2>1. n - j \in Nat /\ n - (n - j) = j
    OBVIOUS
  <2>2. n - j \in D
    BY <2>1
  <2>3. m <= n - j
    BY <1>4, <2>2
  <2> QED BY <1>4, <2>1, <2>3
<1> QED BY <1>4, <1>5

\* The digits of a count go on to the end of the text or to another symbol.
LEMMA DigitsToIs ==
    ASSUME NEW s \in Seq(Symbol), NEW i \in 1..Len(s), CountAt(s, i)
    PROVE  LET f == DigitsFrom(s, i)
               e == DigitsTo(s, i)
           IN /\ f \in {i + 1, i + 2} /\ (f = i + 2 => s[i + 1] = "w")
              /\ e \in Nat /\ f <= e /\ e <= Len(s)
              /\ \A k \in f..e : s[k] \in Digit
              /\ e # Len(s) => s[e + 1] \notin Digit
              /\ \A d \in Nat : /\ f <= d /\ d <= Len(s)
                                /\ \A k \in f..d : s[k] \in Digit
                                /\ d # Len(s) => s[d + 1] \notin Digit
                                => e = d
<1> DEFINE f == DigitsFrom(s, i)
           T == {j \in f..Len(s) : \A k \in f..j : s[k] \in Digit}
           Last(d) == /\ f <= d /\ d <= Len(s)
                      /\ \A k \in f..d : s[k] \in Digit
                      /\ d # Len(s) => s[d + 1] \notin Digit
           W == {d \in Nat : f <= d /\ d <= Len(s) /\ (d # Len(s) => s[d + 1] \notin Digit)}
<1>1. /\ Len(s) \in Nat /\ f \in {i + 1, i + 2} /\ (f = i + 2 => s[i + 1] = "w")
      /\ f <= Len(s) /\ s[f] \in Digit /\ f \in Nat
  BY LenProperties DEF DigitsFrom, CountAt
<1>2. ASSUME NEW d \in Nat, Last(d)
      PROVE  DigitsTo(s, i) = d
  <2>1. d \in T
    BY <1>1, <1>2
  <2>2. \A j \in T : j <= d
    <3> SUFFICES ASSUME NEW j \in T, ~(j <= d)
                 PROVE  FALSE
      OBVIOUS
    <3>1. j \in f..Len(s) /\ d + 1 \in f..j /\ d # Len(s)
      BY <1>1, <1>2
    <3>2. s[d + 1] \in Digit
      BY <3>1
    <3> QED BY <1>2, <3>1, <3>2
  <2>3. T \subseteq Int
    BY <1>1
  <2>4. DigitsTo(s, i) = Max(T)
    BY DEF DigitsTo
  <2> HIDE DEF T
  <2> QED BY <2>1, <2>2, <2>3, <2>4, MaxIs
<1>3. PICK d \in W : \A k \in W : d <= k
  <2>1. W \subseteq Nat /\ Len(s) \in W
    BY <1>1
  <2> HIDE DEF W
  <2> QED BY <2>1, LeastExists
<1>4. d \in Nat /\ Last(d)
  <2>1. d \in Nat /\ f <= d /\ d <= Len(s) /\ (d # Len(s) => s[d + 1] \notin Digit)
    BY <1>3
  <2>2. ASSUME NEW k \in f..d, s[k] \notin Digit
        PROVE  FALSE
    <3>1. k # f
      BY <1>1, <2>2
    <3>2. k - 1 \in Nat /\ f <= k - 1 /\ k - 1 <= Len(s) /\ (k - 1) + 1 = k /\ ~(d <= k - 1)
      BY <1>1, <2>1, <3>1
    <3>3. k - 1 \in W
      BY <2>2, <3>2
    <3> QED BY <1>3, <3>2, <3>3
  <2> QED BY <2>1, <2>2
<1>5. DigitsTo(s, i) = d
  BY <1>2, <1>4
<1> QED BY <1>1, <1>2, <1>4, <1>5

\* No event begins within another; an event does not end with a blank.
LEMMA EventSpan ==
    ASSUME NEW s \in Seq(Symbol), NEW i \in Events(s)
    PROVE  /\ i \in 1..Len(s) /\ s[i] \in {"u", "e", "f", "i"}
           /\ HeadingAt(s, i) <=> ~CountAt(s, i)
           /\ HeadingAt(s, i) <=> s[i] = "u"
           /\ EventEnd(s, i) \in Nat /\ i < EventEnd(s, i) /\ EventEnd(s, i) <= Len(s)
           /\ \A k \in i + 1..EventEnd(s, i) : s[k] \notin {"u", "e", "f", "i"}
           /\ s[EventEnd(s, i)] # "w"
<1>1. i \in 1..Len(s) /\ Len(s) \in Nat /\ (HeadingAt(s, i) \/ CountAt(s, i))
  BY LenProperties DEF Events
<1>2. CASE HeadingAt(s, i)
  <2>1. /\ i + 2 <= Len(s) /\ s[i] = "u" /\ s[i + 1] = "w" /\ s[i + 2] = "r"
        /\ EventEnd(s, i) = i + 2
    BY <1>2 DEF HeadingAt, EventEnd
  <2>2. ~CountAt(s, i)
    BY <2>1 DEF CountAt
  <2>3. \A k \in i + 1..i + 2 : k = i + 1 \/ k = i + 2
    BY <1>1
  <2> QED BY <1>1, <1>2, <2>1, <2>2, <2>3
<1>3. CASE CountAt(s, i)
  <2> DEFINE f == DigitsFrom(s, i)
             e == DigitsTo(s, i)
  <2>1. /\ f \in {i + 1, i + 2} /\ (f = i + 2 => s[i + 1] = "w")
        /\ e \in Nat /\ f <= e /\ e <= Len(s)
        /\ \A k \in f..e : s[k] \in Digit
    BY <1>1, <1>3, DigitsToIs
  <2>2. s[i] \in Summed /\ ~HeadingAt(s, i)
    BY <1>3 DEF CountAt, HeadingAt
  <2>3. EventEnd(s, i) = e
    BY <2>2 DEF EventEnd
  <2> HIDE DEF e, f
  <2>4. i < e /\ s[e] \in Digit
    BY <1>1, <2>1
  <2>5. \A k \in i + 1..e : s[k] \notin {"u", "e", "f", "i"}
    <3> TAKE k \in i + 1..e
    <3>1. k \in f..e \/ (k = i + 1 /\ f = i + 2)
      BY <1>1, <2>1
    <3> QED BY <2>1, <3>1 DEF Digit
  <2> QED BY <1>1, <1>3, <2>1, <2>2, <2>3, <2>4, <2>5 DEF Digit
<1> QED BY <1>1, <1>2, <1>3

Amount(s, i) == Value(SubSeq(s, DigitsFrom(s, i), DigitsTo(s, i)))

\* s is the part of t after its first b symbols.
IsPart(s, t, b) ==
    /\ s \in Seq(Symbol) /\ t \in Seq(Symbol) /\ b \in Nat
    /\ Len(s) + b <= Len(t)
    /\ \A i \in 1..Len(s) : t[i + b] = s[i]

\* An event of a part is one of the text, and the other way round where the part
\* shows enough of it.
LEMMA PartEvents ==
    ASSUME NEW s, NEW t, NEW b, IsPart(s, t, b), NEW i \in 1..Len(s)
    PROVE  /\ i + b \in 1..Len(t) /\ i \in Nat
           /\ HeadingAt(s, i) => HeadingAt(t, i + b)
           /\ CountAt(s, i) => CountAt(t, i + b) /\ DigitsFrom(t, i + b) = DigitsFrom(s, i) + b
           /\ i \in Events(s) => i + b \in Events(t)
           /\ i \in Events(s) => (HeadingAt(s, i) <=> HeadingAt(t, i + b))
           /\ (i + 2 <= Len(s) \/ Len(s) + b = Len(t)) =>
                /\ HeadingAt(s, i) <=> HeadingAt(t, i + b)
                /\ CountAt(s, i) <=> CountAt(t, i + b)
                /\ i \in Events(s) <=> i + b \in Events(t)
<1>1. /\ s \in Seq(Symbol) /\ t \in Seq(Symbol) /\ b \in Nat
      /\ Len(s) + b <= Len(t) /\ Len(s) \in Nat /\ Len(t) \in Nat
      /\ \A j \in 1..Len(s) : t[j + b] = s[j]
      /\ DOMAIN s = 1..Len(s) /\ DOMAIN t = 1..Len(t)
  BY LenProperties DEF IsPart
<1>2. i + b \in 1..Len(t) /\ i \in Nat
  BY <1>1
<1>3. HeadingAt(s, i) => HeadingAt(t, i + b)
  <2>1. SUFFICES ASSUME HeadingAt(s, i)
                 PROVE  HeadingAt(t, i + b)
    OBVIOUS
  <2>2. i + 1 \in 1..Len(s) /\ i + 2 \in 1..Len(s)
    BY <1>1, <2>1 DEF HeadingAt
  <2>3. t[i + b] = s[i] /\ t[(i + 1) + b] = s[i + 1] /\ t[(i + 2) + b] = s[i + 2]
    BY <1>1, <2>2
  <2>4. (i + 1) + b = (i + b) + 1 /\ (i + 2) + b = (i + b) + 2 /\ (i + b) + 2 <= Len(t)
    BY <1>1, <2>2
  <2> QED BY <2>1, <2>3, <2>4 DEF HeadingAt
<1>4. CountAt(s, i) => CountAt(t, i + b) /\ DigitsFrom(t, i + b) = DigitsFrom(s, i) + b
  <2>1. SUFFICES ASSUME CountAt(s, i)
                 PROVE  CountAt(t, i + b) /\ DigitsFrom(t, i + b) = DigitsFrom(s, i) + b
    OBVIOUS
  <2>2. s[i] \in Summed /\ DigitsFrom(s, i) <= Len(s) /\ s[DigitsFrom(s, i)] \in Digit
    BY <2>1 DEF CountAt
  <2>3. i + 1 \in 1..Len(s) /\ DigitsFrom(s, i) \in 1..Len(s) /\ i < Len(s)
    BY <1>1, <2>2 DEF DigitsFrom
  <2>4. t[i + b] = s[i] /\ t[(i + b) + 1] = s[i + 1] /\ i + b < Len(t)
    <3>1. t[(i + 1) + b] = s[i + 1] /\ (i + 1) + b = (i + b) + 1
      BY <1>1, <2>3
    <3> QED BY <1>1, <2>3, <3>1
  <2>5. DigitsFrom(t, i + b) = DigitsFrom(s, i) + b
    BY <1>1, <2>3, <2>4 DEF DigitsFrom
  <2>6. t[DigitsFrom(s, i) + b] = s[DigitsFrom(s, i)] /\ DigitsFrom(s, i) + b <= Len(t)
    BY <1>1, <2>3
  <2> QED BY <2>2, <2>4, <2>5, <2>6 DEF CountAt
<1>5. ASSUME i + 2 <= Len(s) \/ Len(s) + b = Len(t), HeadingAt(t, i + b)
      PROVE  HeadingAt(s, i)
  <2>1. /\ (i + b) + 2 <= Len(t) /\ t[i + b] = "u" /\ t[(i + b) + 1] = "w"
        /\ t[(i + b) + 2] = "r"
    BY <1>5 DEF HeadingAt
  <2>2. i + 1 \in 1..Len(s) /\ i + 2 \in 1..Len(s)
    <3> DEFINE n == Len(s)
               m == Len(t)
    <3>1. /\ n \in Nat /\ m \in Nat /\ b \in Nat /\ n + b <= m /\ i \in 1..n
          /\ (i + b) + 2 <= m /\ (i + 2 <= n \/ n + b = m)
      BY <1>1, <1>5, <2>1, Zenon
    <3> HIDE DEF n, m
    <3>2. i + 1 \in 1..n /\ i + 2 \in 1..n
      BY <3>1
    <3> QED BY <3>2 DEF n
  <2>3. t[i + b] = s[i] /\ t[(i + 1) + b] = s[i + 1] /\ t[(i + 2) + b] = s[i + 2]
    BY <1>1, <2>2
  <2>4. (i + 1) + b = (i + b) + 1 /\ (i + 2) + b = (i + b) + 2 /\ i + 2 <= Len(s)
    BY <1>1, <2>2
  <2> QED BY <2>1, <2>3, <2>4 DEF HeadingAt
<1>6. ASSUME i + 2 <= Len(s) \/ Len(s) + b = Len(t), CountAt(t, i + b)
      PROVE  CountAt(s, i)
  <2> DEFINE g == DigitsFrom(t, i + b)
  <2>1. t[i + b] \in Summed /\ g <= Len(t) /\ t[g] \in Digit
    BY <1>6 DEF CountAt
  <2>2. g \in {(i + b) + 1, (i + b) + 2} /\ (g = (i + b) + 2 <=> t[(i + b) + 1] = "w")
    BY <1>1, <1>2, <2>1 DEF DigitsFrom, Digit
  <2>3. i + 1 \in 1..Len(s) /\ g - b \in 1..Len(s) /\ i < Len(s) /\ (g - b) + b = g
    <3> DEFINE n == Len(s)
               m == Len(t)
    <3>1. /\ n \in Nat /\ m \in Nat /\ b \in Nat /\ n + b <= m /\ i \in 1..n
          /\ g <= m /\ (g = i + b + 1 \/ g = i + b + 2) /\ (i + 2 <= n \/ n + b = m)
      <4> HIDE DEF g
      <4>1. g = (i + b) + 1 \/ g = (i + b) + 2
        BY <2>2
      <4> QED BY <1>1, <1>6, <2>1, <4>1, Zenon
    <3> HIDE DEF n, m, g
    <3>2. i + 1 \in 1..n /\ g - b \in 1..n /\ i < n /\ (g - b) + b = g
      BY <3>1
    <3> QED BY <3>2 DEF n
  <2>4. t[i + b] = s[i] /\ t[(i + b) + 1] = s[i + 1] /\ t[g] = s[g - b]
    <3>1. t[(i + 1) + b] = s[i + 1] /\ (i + 1) + b = (i + b) + 1
      <4> HIDE DEF g
      <4>1. i + 1 \in 1..Len(s)
        BY <2>3
      <4>2. t[(i + 1) + b] = s[i + 1]
        BY <1>1, <4>1
      <4>3. (i + 1) + b = (i + b) + 1
        BY <1>1
      <4> QED BY <4>2, <4>3
    <3>2. t[(g - b) + b] = s[g - b] /\ (g - b) + b = g
      <4> HIDE DEF g
      <4> QED BY <1>1, <2>3
    <3>3. t[i + b] = s[i]
      BY <1>1
    <3> HIDE DEF g
    <3>4. t[(i + b) + 1] = s[i + 1]
      BY <3>1
    <3>5. t[g] = s[g - b]
      BY <3>2
    <3> QED BY <3>3, <3>4, <3>5
  <2>5. DigitsFrom(s, i) = g - b
    <3> HIDE DEF g
    <3> QED BY <1>1, <2>2, <2>3, <2>4 DEF DigitsFrom
  <2> QED BY <2>1, <2>3, <2>4, <2>5 DEF CountAt
<1>7. i \in Events(s) <=> HeadingAt(s, i) \/ CountAt(s, i)
  BY <1>1 DEF Events
<1>8. i + b \in Events(t) <=> HeadingAt(t, i + b) \/ CountAt(t, i + b)
  BY <1>1, <1>2 DEF Events
<1>9. ~(HeadingAt(t, i + b) /\ CountAt(t, i + b))
  BY DEF HeadingAt, CountAt
<1> QED BY <1>2, <1>3, <1>4, <1>5, <1>6, <1>7, <1>8, <1>9

\* A count of a part is that of the text, unless it may go on after the part.
LEMMA PartAmount ==
    ASSUME NEW s, NEW t, NEW b, IsPart(s, t, b), NEW i \in 1..Len(s), CountAt(s, i),
           DigitsTo(s, i) < Len(s) \/ Len(s) + b = Len(t)
    PROVE  DigitsTo(t, i + b) = DigitsTo(s, i) + b /\ Amount(t, i + b) = Amount(s, i)
<1> DEFINE f == DigitsFrom(s, i)
           e == DigitsTo(s, i)
<1>1. /\ s \in Seq(Symbol) /\ t \in Seq(Symbol) /\ b \in Nat
      /\ Len(s) + b <= Len(t) /\ Len(s) \in Nat /\ Len(t) \in Nat
      /\ \A j \in 1..Len(s) : t[j + b] = s[j]
  BY LenProperties DEF IsPart
<1>2. /\ i + b \in 1..Len(t) /\ CountAt(t, i + b) /\ DigitsFrom(t, i + b) = f + b
  BY PartEvents
<1>3. /\ f \in {i + 1, i + 2} /\ e \in Nat /\ f <= e /\ e <= Len(s)
      /\ \A k \in f..e : s[k] \in Digit
      /\ e # Len(s) => s[e + 1] \notin Digit
  BY <1>1, DigitsToIs
<1>4. \A d \in Nat : /\ f + b <= d /\ d <= Len(t)
                     /\ \A k \in f + b..d : t[k] \in Digit
                     /\ d # Len(t) => t[d + 1] \notin Digit
                     => DigitsTo(t, i + b) = d
  BY <1>1, <1>2, DigitsToIs
<1> HIDE DEF f, e
<1>5. f + b <= e + b /\ e + b <= Len(t) /\ e + b \in Nat /\ f \in Nat
  BY <1>1, <1>3
<1>6. \A k \in f + b..e + b : t[k] \in Digit
  <2> TAKE k \in f + b..e + b
  <2>1. k - b \in f..e /\ k - b \in 1..Len(s) /\ (k - b) + b = k
    BY <1>1, <1>3
  <2>2. t[(k - b) + b] = s[k - b]
    BY <1>1, <2>1
  <2> QED BY <1>3, <2>1, <2>2
<1>7. e + b # Len(t) => t[(e + b) + 1] \notin Digit
  <2>1. SUFFICES ASSUME e + b # Len(t)
                 PROVE  t[(e + b) + 1] \notin Digit
    OBVIOUS
  <2>2. e < Len(s)
    BY <1>1, <1>3, <2>1 DEF e
  <2>3. e + 1 \in 1..Len(s) /\ (e + 1) + b = (e + b) + 1 /\ e # Len(s)
    <3> DEFINE n == Len(s)
    <3>1. n \in Nat /\ e \in Nat /\ b \in Nat /\ e < n
      BY <1>1, <1>3, <2>2
    <3> HIDE DEF n
    <3>2. e + 1 \in 1..n /\ (e + 1) + b = (e + b) + 1 /\ e # n
      BY <3>1
    <3> QED BY <3>2 DEF n
  <2>4. t[(e + 1) + b] = s[e + 1]
    BY <1>1, <2>3
  <2> QED BY <1>3, <2>3, <2>4
<1>8. DigitsTo(t, i + b) = e + b
  BY <1>4, <1>5, <1>6, <1>7
<1>9. SubSeq(t, f + b, e + b) = SubSeq(s, f, e)
  <2>1. \A k \in f..e : s[k] \in Symbol
    <3> TAKE k \in f..e
    <3>1. k \in 1..Len(s)
      BY <1>1, <1>3
    <3> QED BY <1>1, <3>1, ElementOfSeq
  <2>2. \A k \in f + b..e + b : t[k] \in Symbol
    BY <1>6 DEF Digit, Symbol
  <2>3. f \in Int /\ e \in Int /\ f + b \in Int /\ e + b \in Int
    BY <1>1, <1>3, <1>5
  <2>4. /\ SubSeq(s, f, e) \in Seq(Symbol)
        /\ Len(SubSeq(s, f, e)) = e - f + 1
        /\ \A k \in 1..e - f + 1 : SubSeq(s, f, e)[k] = s[f + k - 1]
    <3>1. f \in Int /\ e \in Int /\ f <= e + 1 /\ f <= e
      BY <1>3, <2>3
    <3> HIDE DEF f, e
    <3>2. /\ SubSeq(s, f, e) \in Seq(Symbol)
          /\ Len(SubSeq(s, f, e)) = IF f <= e THEN e - f + 1 ELSE 0
          /\ \A k \in 1..e - f + 1 : SubSeq(s, f, e)[k] = s[f + k - 1]
      BY <2>1, <3>1, SubSeqProperties
    <3> QED BY <3>1, <3>2
  <2>5. /\ SubSeq(t, f + b, e + b) \in Seq(Symbol)
        /\ Len(SubSeq(t, f + b, e + b)) = (e + b) - (f + b) + 1
        /\ \A k \in 1..(e + b) - (f + b) + 1 : SubSeq(t, f + b, e + b)[k] = t[(f + b) + k - 1]
    <3> DEFINE m == f + b
               n == e + b
    <3>1. m \in Int /\ n \in Int /\ (\A k \in m..n : t[k] \in Symbol) /\ m <= n + 1
      BY <1>5, <2>2, <2>3
    <3> HIDE DEF m, n
    <3>2. /\ SubSeq(t, m, n) \in Seq(Symbol)
          /\ Len(SubSeq(t, m, n)) = n - m + 1
          /\ \A k \in 1..n - m + 1 : SubSeq(t, m, n)[k] = t[m + k - 1]
      BY <3>1, SubSeqProperties
    <3> QED BY <3>2 DEF m, n
  <2>6. (e + b) - (f + b) + 1 = e - f + 1
    BY <1>1, <2>3
  <2>7. \A k \in 1..e - f + 1 : t[(f + b) + k - 1] = s[f + k - 1]
    <3> TAKE k \in 1..e - f + 1
    <3>1. f + k - 1 \in 1..Len(s) /\ (f + k - 1) + b = (f + b) + k - 1
      BY <1>1, <1>3
    <3> QED BY <1>1, <3>1
  <2> DEFINE p == SubSeq(s, f, e)
             q == SubSeq(t, f + b, e + b)
             n == e - f + 1
  <2>8. /\ p \in Seq(Symbol) /\ q \in Seq(Symbol) /\ Len(p) = n /\ Len(q) = n
        /\ \A k \in 1..n : q[k] = p[k]
    BY <2>4, <2>5, <2>6, <2>7
  <2> HIDE DEF p, q, n
  <2>9. q = p
    BY <2>8, SeqEqual
  <2> QED BY <2>9 DEF p, q
<1> QED BY <1>2, <1>8, <1>9 DEF Amount, f, e

\* Where name x stands among the events after the last heading.
Of(s, es, x) == {i \in es : s[i] = x /\ \A h \in es : HeadingAt(s, h) => h < i}

Latest(s, es, x, m) == m \in Of(s, es, x) /\ \A j \in Of(s, es, x) : j <= m

Headed(s, es) == \E h \in es : HeadingAt(s, h)
PlacesOf(s, es) == s \in Seq(Symbol) /\ es \subseteq 1..Len(s)
Name(x) == x \in Summed
Counted(c, s, es, x) == CountsAfter(c, s, es)[x]

\* A count is that of the last place, or missing after a heading, or as it was.
LEMMA CountsLast ==
    ASSUME NEW c, NEW s, NEW es, PlacesOf(s, es), NEW x, Name(x), NEW m, Latest(s, es, x, m)
    PROVE  Counted(c, s, es, x) = Amount(s, m)
<1> DEFINE T == Of(s, es, x)
<1>1. T \subseteq Int /\ T # {}
  <2>1. T \subseteq 1..Len(s) /\ Len(s) \in Nat
    BY LenProperties DEF Of, PlacesOf
  <2>2. T # {}
    BY DEF Latest
  <2> HIDE DEF T
  <2> QED BY <2>1, <2>2
<1>2. m \in T /\ \A j \in T : j <= m
  BY DEF Latest
<1>3. Counted(c, s, es, x) =
        IF T # {} THEN Amount(s, Max(T)) ELSE IF Headed(s, es) THEN Missing ELSE c[x]
  BY DEF CountsAfter, Counted, Of, Amount, Name, Headed
<1> HIDE DEF T
<1>4. Max(T) = m
  BY <1>1, <1>2, MaxIs
<1> QED BY <1>1, <1>3, <1>4

\* A count is missing after a heading, or as it was, where its name is not there.
LEMMA CountsNone ==
    ASSUME NEW c, NEW s, NEW es, PlacesOf(s, es), NEW x, Name(x), Of(s, es, x) = {}
    PROVE  Counted(c, s, es, x) = IF Headed(s, es) THEN Missing ELSE c[x]
  BY DEF CountsAfter, Counted, Of, Name, Headed

\* A name that is there has a last place.
LEMMA LatestExists ==
    ASSUME NEW s, NEW es, PlacesOf(s, es), NEW x, Of(s, es, x) # {}
    PROVE  \E m : Latest(s, es, x, m)
<1>1. Of(s, es, x) \subseteq 1..Len(s) /\ Len(s) \in Nat
  BY LenProperties DEF Of, PlacesOf
<1> QED BY <1>1, GreatestExists DEF Latest

\* Counts are the same when they are for each name.
LEMMA CountsEqual ==
    ASSUME NEW c, NEW s, NEW es, NEW d, NEW t, NEW fs,
           \A x : Name(x) => Counted(c, s, es, x) = Counted(d, t, fs, x)
    PROVE  CountsAfter(c, s, es) = CountsAfter(d, t, fs)
<1> DEFINE p == CountsAfter(c, s, es)
           q == CountsAfter(d, t, fs)
<1>1. p = [x \in Summed |-> p[x]] /\ q = [x \in Summed |-> q[x]]
  BY DEF CountsAfter
<1>2. \A x \in Summed : p[x] = q[x]
  BY DEF Counted, Name
<1> HIDE DEF p, q
<1>3. p = q
  BY <1>1, <1>2
<1> QED BY <1>3 DEF p, q

\* Events one after another may be counted one after another.
LEMMA CountsCompose ==
    ASSUME NEW c, NEW t, NEW E, NEW F, PlacesOf(t, E), PlacesOf(t, F), \A i \in E, j \in F : i < j
    PROVE  CountsAfter(CountsAfter(c, t, E), t, F) = CountsAfter(c, t, E \cup F)
<1> DEFINE d == CountsAfter(c, t, E)
           U == E \cup F
<1>1. PlacesOf(t, U) /\ (Headed(t, U) <=> Headed(t, E) \/ Headed(t, F))
  BY DEF PlacesOf, Headed
<1>2. \A i \in E, j \in F : ~(j < i) /\ i <= j
  <2>1. Len(t) \in Nat
    BY LenProperties DEF PlacesOf
  <2> QED BY <2>1 DEF PlacesOf
<1> HIDE DEF d
<1>3. ASSUME NEW x, Name(x)
      PROVE  Counted(d, t, F, x) = Counted(c, t, U, x)
  <2>1. \A j \in F : j \in Of(t, U, x) <=> j \in Of(t, F, x)
    BY DEF Of
  <2>2. /\ \A i \in Of(t, U, x) : i \in E \/ i \in F
        /\ Of(t, F, x) \subseteq F /\ Of(t, E, x) \subseteq E
    BY DEF Of
  <2> HIDE DEF U
  <2>3. CASE Of(t, F, x) # {}
    <3>1. PICK m : Latest(t, F, x, m)
      BY <2>3, LatestExists
    <3>2. m \in F /\ m \in Of(t, U, x)
      BY <2>1, <2>2, <3>1 DEF Latest
    <3>3. \A j \in Of(t, U, x) : j <= m
      BY <1>2, <2>1, <2>2, <3>1, <3>2 DEF Latest
    <3>4. Latest(t, U, x, m)
      BY <3>2, <3>3 DEF Latest
    <3> QED BY <1>1, <1>3, <3>1, <3>4, CountsLast
  <2>4. CASE Of(t, F, x) = {} /\ Headed(t, F)
    <3>1. Of(t, U, x) = {}
      <4> SUFFICES ASSUME NEW i \in Of(t, U, x)
                   PROVE  FALSE
        OBVIOUS
      <4>1. i \in E
        BY <2>1, <2>2, <2>4
      <4>2. PICK h \in F : HeadingAt(t, h)
        BY <2>4 DEF Headed
      <4>3. h < i
        BY <4>2 DEF Of, U
      <4> QED BY <1>2, <4>1, <4>2, <4>3
    <3> QED BY <1>1, <1>3, <2>4, <3>1, CountsNone
  <2>5. CASE Of(t, F, x) = {} /\ ~Headed(t, F)
    <3>1. Counted(d, t, F, x) = d[x]
      BY <1>3, <2>5, CountsNone
    <3>2. d[x] = Counted(c, t, E, x)
      BY DEF d, Counted
    <3>3. Of(t, U, x) = Of(t, E, x)
      <4>1. \A i \in E : i \in Of(t, U, x) <=> i \in Of(t, E, x)
        BY <2>5 DEF Of, Headed, U
      <4> QED BY <2>1, <2>2, <2>5, <4>1
    <3>4. CASE Of(t, E, x) # {}
      <4>1. PICK m : Latest(t, E, x, m)
        BY <3>4, LatestExists
      <4>2. Latest(t, U, x, m)
        BY <3>3, <4>1 DEF Latest
      <4> QED BY <1>1, <1>3, <3>1, <3>2, <4>1, <4>2, CountsLast
    <3>5. CASE Of(t, E, x) = {}
      <4>1. Counted(c, t, E, x) = IF Headed(t, E) THEN Missing ELSE c[x]
        BY <1>3, <3>5, CountsNone
      <4>2. Counted(c, t, U, x) = IF Headed(t, U) THEN Missing ELSE c[x]
        BY <1>1, <1>3, <3>3, <3>5, CountsNone
      <4> QED BY <1>1, <2>5, <3>1, <3>2, <4>1, <4>2
    <3> QED BY <3>4, <3>5
  <2> QED BY <2>3, <2>4, <2>5
<1> HIDE DEF U
<1>4. CountsAfter(d, t, F) = CountsAfter(c, t, U)
  BY <1>3, CountsEqual
<1> QED BY <1>4 DEF d, U

\* The counts after events of a part are those after the same events of the text.
LEMMA CountsShift ==
    ASSUME NEW c, NEW s, NEW t, NEW b, IsPart(s, t, b), NEW D, D \subseteq Events(s),
           \A i \in D : HeadingAt(s, i) \/ DigitsTo(s, i) < Len(s) \/ Len(s) + b = Len(t)
    PROVE  CountsAfter(c, s, D) = CountsAfter(c, t, {i + b : i \in D})
<1> DEFINE F == {i + b : i \in D}
<1>1. /\ s \in Seq(Symbol) /\ t \in Seq(Symbol) /\ b \in Nat /\ Len(s) \in Nat /\ Len(t) \in Nat
      /\ \A j \in 1..Len(s) : t[j + b] = s[j]
  BY LenProperties DEF IsPart
<1>2. D \subseteq 1..Len(s)
  BY <1>1, LenProperties DEF Events
<1>3. ASSUME NEW i \in D
      PROVE  /\ i + b \in 1..Len(t) /\ i \in Nat /\ t[i + b] = s[i]
             /\ HeadingAt(s, i) <=> HeadingAt(t, i + b)
             /\ s[i] \in Summed => Amount(t, i + b) = Amount(s, i)
  <2>1. i \in 1..Len(s) /\ i \in Events(s)
    BY <1>2
  <2>2. i + b \in 1..Len(t) /\ i \in Nat /\ (HeadingAt(s, i) <=> HeadingAt(t, i + b))
    BY <2>1, PartEvents
  <2>3. s[i] \in Summed => CountAt(s, i) /\ ~HeadingAt(s, i)
    BY <2>1 DEF Events, HeadingAt
  <2>4. s[i] \in Summed => Amount(t, i + b) = Amount(s, i)
    BY <2>1, <2>3, PartAmount
  <2> QED BY <1>1, <2>1, <2>2, <2>4
<1>4. F \subseteq 1..Len(t) /\ (Headed(t, F) <=> Headed(s, D))
  BY <1>3 DEF Headed
<1>5. PlacesOf(s, D) /\ PlacesOf(t, F)
  BY <1>1, <1>2, <1>4 DEF PlacesOf
<1>6. ASSUME NEW x, Name(x)
      PROVE  Counted(c, s, D, x) = Counted(c, t, F, x)
  <2>1. \A i \in D : i + b \in Of(t, F, x) <=> i \in Of(s, D, x)
    <3> TAKE i \in D
    <3>1. i + b \in F /\ (t[i + b] = x <=> s[i] = x)
      BY <1>3
    <3>2. (\A h \in F : HeadingAt(t, h) => h < i + b) <=> (\A h \in D : HeadingAt(s, h) => h < i)
      <4>1. \A h \in D : h + b < i + b <=> h < i
        BY <1>1, <1>3
      <4> QED BY <1>3, <4>1
    <3> QED BY <3>1, <3>2 DEF Of
  <2>2. Of(t, F, x) \subseteq F /\ Of(s, D, x) \subseteq D
    BY DEF Of
  <2>3. CASE Of(s, D, x) # {}
    <3>1. PICK m : Latest(s, D, x, m)
      BY <1>5, <2>3, LatestExists
    <3>2. m \in D /\ s[m] = x /\ m + b \in Of(t, F, x)
      BY <2>1, <2>2, <3>1 DEF Of, Latest
    <3>3. \A j \in Of(t, F, x) : j <= m + b
      <4> TAKE j \in Of(t, F, x)
      <4>1. PICK i \in D : j = i + b
        BY <2>2
      <4>2. i <= m
        BY <2>1, <3>1, <4>1 DEF Latest
      <4> QED BY <1>1, <1>3, <3>2, <4>1, <4>2
    <3> HIDE DEF F
    <3>4. Latest(t, F, x, m + b)
      BY <3>2, <3>3 DEF Latest
    <3>5. Amount(t, m + b) = Amount(s, m)
      BY <1>3, <1>6, <3>2 DEF Name
    <3> QED BY <1>5, <1>6, <3>1, <3>4, <3>5, CountsLast
  <2>4. CASE Of(s, D, x) = {}
    <3>1. Of(t, F, x) = {}
      BY <2>1, <2>2, <2>4
    <3> HIDE DEF F
    <3> QED BY <1>4, <1>5, <1>6, <2>4, <3>1, CountsNone
  <2> QED BY <2>3, <2>4
<1> HIDE DEF F
<1>7. CountsAfter(c, s, D) = CountsAfter(c, t, F)
  BY <1>6, CountsEqual
<1> QED BY <1>7 DEF F

-----------------------------------------------------------------------------
(* Feeding                                                                 *)

\* No event begins at place i unless the text shows it.
Plain(s, i) == i \in Events(s) \/ s[i] \notin {"u", "e", "f", "i"} \/ i + 2 <= Len(s)

\* What of a text is done, when its first b symbols are: no event reaches beyond
\* them, none is there that only more text would show, and no heading is left.
DoneTo(c, b) ==
    /\ b \in Nat /\ b <= Len(c)
    /\ b = Len(c) => c = <<>> \/ c[Len(c)] # "w"
    /\ \A i \in 1..b : Plain(c, i)
    /\ \A i \in 1..b : i \in Events(c) => EventEnd(c, i) <= b
    /\ \A i \in 1..b : CountAt(c, i) => DigitsTo(c, i) < Len(c)
    /\ \A i \in 1..Len(c) : HeadingAt(c, i) => i <= b

\* A compacted text is compact from any place on.
LEMMA CompactTail ==
    ASSUME NEW c, IsCompact(c), NEW b \in Nat, b <= Len(c)
    PROVE  /\ IsCompact(SubSeq(c, b + 1, Len(c)))
           /\ SubSeq(c, 1, b) \in Seq(Symbol) /\ Len(SubSeq(c, 1, b)) = b
           /\ \A i \in 1..b : SubSeq(c, 1, b)[i] = c[i]
           /\ Len(SubSeq(c, b + 1, Len(c))) = Len(c) - b
           /\ c = SubSeq(c, 1, b) \o SubSeq(c, b + 1, Len(c))
<1> DEFINE p == SubSeq(c, b + 1, Len(c))
           n == Len(c)
<1>1. c \in Seq(Symbol) /\ n \in Nat /\ b <= n
      /\ \A i \in 1..n : c[i] # "n" /\ (c[i] = "w" /\ i # 1 => c[i - 1] # "w")
  BY LenProperties DEF IsCompact
<1>2. p \in Seq(Symbol) /\ Len(p) = n - b /\ \A i \in 1..n - b : p[i] = c[b + i]
  BY <1>1, PartOf
<1>3. /\ SubSeq(c, 1, b) \in Seq(Symbol) /\ Len(SubSeq(c, 1, b)) = b
      /\ \A i \in 1..b : SubSeq(c, 1, b)[i] = c[i]
  <2>1. 0 \in Nat /\ 0 <= b /\ 0 + 1 = 1 /\ b - 0 = b /\ \A i \in 1..b : 0 + i = i
    OBVIOUS
  <2>2. /\ SubSeq(c, 0 + 1, b) \in Seq(Symbol) /\ Len(SubSeq(c, 0 + 1, b)) = b - 0
        /\ \A i \in 1..b - 0 : SubSeq(c, 0 + 1, b)[i] = c[0 + i]
    BY <1>1, <2>1, PartOf
  <2> QED BY <2>1, <2>2
<1>4. c = SubSeq(c, 1, b) \o p
  <2>1. 1 \in 1..n + 1 /\ b \in 1 - 1..n /\ n \in b..n
    BY <1>1
  <2>2. SubSeq(c, 1, b) \o SubSeq(c, b + 1, n) = SubSeq(c, 1, n)
    BY <1>1, <2>1, ConcatAdjacentSubSeq
  <2> QED BY <1>1, <2>2, SubSeqFull
<1> HIDE DEF p, n
<1>5. IsCompact(p)
  <2>1. \A i \in 1..Len(p) : p[i] # "n" /\ (p[i] = "w" /\ i # 1 => p[i - 1] # "w")
    <3> TAKE i \in 1..Len(p)
    <3>2. i \in 1..n - b /\ b + i \in 1..n /\ p[i] = c[b + i]
      BY <1>1, <1>2
    <3>3. i # 1 => i - 1 \in 1..n - b /\ b + (i - 1) = (b + i) - 1 /\ b + i # 1
      BY <1>1, <3>2
    <3>4. i # 1 => p[i - 1] = c[(b + i) - 1]
      BY <1>2, <3>3
    <3> QED BY <1>1, <3>2, <3>3, <3>4
  <2> QED BY <1>2, <2>1 DEF IsCompact
<1> QED BY <1>2, <1>3, <1>4, <1>5 DEF p, n

\* What is kept back and what is read make the rest of the text when compacted.
LEMMA FeedText ==
    ASSUME NEW X \in Seq(Symbol), NEW y \in Seq(Symbol), NEW b, DoneTo(Compact(X), b)
    PROVE  LET c == Compact(X)
               t == Compact(X \o y)
               s == Compact(SubSeq(c, b + 1, Len(c)) \o y)
           IN /\ IsPart(s, t, b) /\ Len(s) + b = Len(t) /\ IsPart(c, t, 0)
<1> DEFINE c == Compact(X)
           t == Compact(X \o y)
           p == SubSeq(c, b + 1, Len(c))
           pre == SubSeq(c, 1, b)
           s == Compact(p \o y)
<1>1. IsCompact(c) /\ c \in Seq(Symbol) /\ Len(c) \in Nat
  BY CompactPut, LenProperties DEF IsCompact
<1>2. b \in Nat /\ b <= Len(c) /\ (b = Len(c) => c = <<>> \/ c[Len(c)] # "w")
  BY DEF DoneTo
<1> HIDE DEF c
<1>3. /\ IsCompact(p) /\ pre \in Seq(Symbol) /\ Len(pre) = b /\ c = pre \o p
      /\ Len(p) = Len(c) - b
      /\ \A i \in 1..b : pre[i] = c[i]
  BY <1>1, <1>2, CompactTail
<1>4. Cuts(pre, p)
  <2>1. SUFFICES ASSUME p = <<>>, pre # <<>>
                 PROVE  pre[Len(pre)] # "w"
    BY DEF Cuts
  <2>2. Len(p) = 0 /\ Len(pre) # 0
    BY <1>3, <2>1, EmptySeq
  <2> HIDE DEF p, pre
  <2>3. b = Len(c) /\ b \in 1..b
    BY <1>1, <1>2, <1>3, <2>2
  <2>4. c # <<>>
    BY <1>1, <2>3, EmptySeq
  <2> QED BY <1>2, <1>3, <2>3, <2>4
<1>5. p \in Seq(Symbol) /\ p \o y \in Seq(Symbol) /\ X \o y \in Seq(Symbol)
  BY <1>3, ConcatProperties DEF IsCompact
<1>6. s \in Seq(Symbol) /\ t \in Seq(Symbol)
  BY <1>5, CompactPut DEF IsCompact
<1> HIDE DEF p, pre
<1>7. t = pre \o s
  <2>1. Makes(X, pre, p)
    BY <1>3 DEF c, Makes
  <2>2. Makes(X \o y, pre, Compact(p \o y))
    <3>1. pre \in Seq(Symbol) /\ IsCompact(p)
      BY <1>3
    <3> QED BY <1>4, <2>1, <3>1, CompactCut
  <2> QED BY <2>2 DEF Makes
<1>8. Len(c) <= Len(t) /\ \A i \in 1..Len(c) : t[i] = c[i]
  BY CompactLonger DEF c
<1> HIDE DEF s, t
<1>9. Len(s) \in Nat /\ Len(t) = b + Len(s) /\ \A i \in 1..Len(s) : t[i + b] = s[i]
  <2>1. /\ Len(pre \o s) = b + Len(s) /\ Len(s) \in Nat
        /\ \A i \in 1..b + Len(s) : (pre \o s)[i] = IF i <= b THEN pre[i] ELSE s[i - b]
    BY <1>3, <1>6, ConcatProperties, LenProperties
  <2>2. \A i \in 1..Len(s) : i + b \in 1..b + Len(s) /\ ~(i + b <= b) /\ (i + b) - b = i
    BY <1>2, <2>1
  <2> QED BY <1>7, <2>1, <2>2
<1>10. IsPart(s, t, b) /\ Len(s) + b = Len(t)
  BY <1>2, <1>6, <1>9 DEF IsPart
<1>11. IsPart(c, t, 0)
  <2>1. Len(c) + 0 <= Len(t)
    BY <1>1, <1>8
  <2>2. \A i \in 1..Len(c) : t[i + 0] = c[i]
    BY <1>8
  <2> QED BY <1>1, <1>6, <2>1, <2>2 DEF IsPart
<1> QED BY <1>10, <1>11 DEF c, t, s, p

\* Up to where a feed is done.
BoundOf(s, final) ==
    LET held == Held(s, final)
        done == Events(s) \ held
        top == Max({0, IF final THEN Len(s) ELSE Len(s) - Keep} \cup {EventEnd(s, i) : i \in done})
    IN Min({top} \cup {i - 1 : i \in held})

\* A feed of s may be done up to place d.
Bounded(s, d) ==
    /\ d \in Nat /\ d <= Len(s)
    /\ d = Len(s) => s = <<>> \/ s[Len(s)] # "w"
    /\ \A i \in 1..d : Plain(s, i)
    /\ \A i \in Events(s) \ Held(s, FALSE) : EventEnd(s, i) <= d
    /\ \A i \in Held(s, FALSE) : ~(i <= d)

\* The events that a feed holds back begin after the place up to which it is done.
LEMMA FeedBound ==
    ASSUME NEW s \in Seq(Symbol)
    PROVE  Bounded(s, BoundOf(s, FALSE))
<1> DEFINE held == Held(s, FALSE)
           done == Events(s) \ held
           n == Len(s)
           T == {0, n - Keep} \cup {EventEnd(s, i) : i \in done}
           top == Max(T)
           b == Min({top} \cup {i - 1 : i \in held})
           end(i) == EventEnd(s, i)
<1>0. Keep \in Nat \ {0, 1}
  BY ScanAssumption
<1>13. b = BoundOf(s, FALSE)
  BY DEF BoundOf
<1>1. /\ n \in Nat
      /\ \A i \in Events(s) : /\ i \in 1..n /\ end(i) \in Nat /\ i < end(i) /\ end(i) <= n
                              /\ s[i] \in {"u", "e", "f", "i"} /\ s[end(i)] # "w"
                              /\ \A k \in i + 1..end(i) : s[k] \notin {"u", "e", "f", "i"}
  BY LenProperties, EventSpan
<1>2. \A i \in held : i \in Events(s) /\ end(i) = n
  BY DEF Held
<1>3. ASSUME NEW i \in Events(s), NEW j \in Events(s), i < j
      PROVE  end(i) < j
  <2>1. j \notin i + 1..end(i)
    BY <1>1
  <2>2. i \in Int /\ j \in Int /\ end(i) \in Int
    BY <1>1
  <2> HIDE DEF end
  <2> QED BY <1>3, <2>1, <2>2
<1> HIDE DEF held, end
<1>4. \A i \in T : i \in Int /\ i <= n
  <2>1. \A i \in done : end(i) \in Int /\ end(i) <= n
    BY <1>1
  <2> QED BY <1>0, <1>1, <2>1 DEF end
<1>5. top \in T /\ \A i \in T : i <= top
  <2>1. \E m \in T : \A k \in T : k <= m
    <3> DEFINE P == T \cap 1..n
    <3>1. CASE P = {}
      <4>1. 0 \in T
        OBVIOUS
      <4>2. \A k \in T : k <= 0
        <5> HIDE DEF T
        <5> QED BY <1>1, <1>4, <3>1
      <4> QED BY <4>1, <4>2
    <3>2. CASE P # {}
      <4>1. PICK m \in P : \A k \in P : k <= m
        <5>1. P \subseteq 1..n
          OBVIOUS
        <5> HIDE DEF P
        <5> QED BY <1>1, <3>2, <5>1, GreatestExists
      <4>2. \A k \in T : k <= m
        <5> HIDE DEF T
        <5> QED BY <1>1, <1>4, <4>1
      <4> QED BY <4>1, <4>2
    <3> QED BY <3>1, <3>2
  <2>2. PICK m \in T : \A k \in T : k <= m
    BY <2>1
  <2>3. T \subseteq Int
    BY <1>4
  <2> HIDE DEF T
  <2>4. Max(T) = m
    BY <2>2, <2>3, MaxIs
  <2> QED BY <2>2, <2>4 DEF top
<1>6. /\ top \in Nat /\ top <= n
      /\ \A i \in done : end(i) <= top
      /\ top = 0 \/ top = n - Keep \/ \E i \in done : top = end(i)
  <2>1. 0 \in T /\ \A i \in done : end(i) \in T
    BY DEF end
  <2>2. \A i \in T : i = 0 \/ i = n - Keep \/ \E j \in done : i = end(j)
    BY DEF end
  <2> HIDE DEF T, top, done
  <2> QED BY <1>1, <1>4, <1>5, <2>1, <2>2
<1> HIDE DEF top
<1>7. /\ b \in Nat /\ b <= top
      /\ b = top \/ \E h \in held : b = h - 1
      /\ \A i \in held : b <= i - 1
  <2>1. CASE held = {}
    <3>1. {top} \cup {i - 1 : i \in held} = {top, top}
      BY <2>1
    <3>2. Min({top, top}) = top
      BY <1>6, ExtremeOfTwo
    <3>3. b = top
      BY <3>1, <3>2
    <3> QED BY <1>6, <2>1, <3>3
  <2>2. ASSUME NEW h \in held
        PROVE  held = {h}
    <3>1. \A i \in held : i = h
      <4> TAKE i \in held
      <4>1. i \in Events(s) /\ h \in Events(s) /\ end(i) = n /\ end(h) = n
        BY <1>2
      <4>2. i \in 1..n /\ h \in 1..n
        BY <1>1, <4>1
      <4>3. ~(i < h) /\ ~(h < i)
        BY <1>1, <1>3, <4>1, <4>2
      <4> QED BY <1>1, <4>2, <4>3
    <3> QED BY <3>1
  <2>3. CASE held # {}
    <3>1. PICK h \in held : TRUE
      BY <2>3
    <3>2. {top} \cup {i - 1 : i \in held} = {top, h - 1}
      BY <2>2
    <3>3. h - 1 \in Nat
      BY <1>1, <1>2
    <3>4. Min({top, h - 1}) = IF top <= h - 1 THEN top ELSE h - 1
      BY <1>6, <3>3, ExtremeOfTwo
    <3>5. b = IF top <= h - 1 THEN top ELSE h - 1
      BY <3>2, <3>4
    <3>6. \A i \in held : i = h
      BY <2>2
    <3> HIDE DEF b
    <3> QED BY <1>6, <3>1, <3>3, <3>5, <3>6
  <2> QED BY <2>1, <2>3
<1> HIDE DEF b
<1>8. \A i \in held : ~(i <= b)
  <2> TAKE i \in held
  <2>1. i \in Nat
    BY <1>1, <1>2
  <2>2. b <= i - 1
    BY <1>7
  <2> QED BY <1>7, <2>1, <2>2
<1>9. \A i \in done : end(i) <= b
  <2> TAKE i \in done
  <2>1. i \in Events(s) /\ i \notin held /\ end(i) <= top /\ i \in 1..n /\ end(i) \in Nat
    BY <1>1, <1>6
  <2>2. ASSUME NEW h \in held, b = h - 1
        PROVE  end(i) <= b
    <3>1. h \in Events(s) /\ end(h) = n /\ h \in 1..n
      BY <1>1, <1>2
    <3>2. ~(h < i)
      BY <1>1, <1>3, <2>1, <3>1
    <3>3. i # h
      BY <2>1
    <3>4. i < h
      BY <1>1, <2>1, <3>1, <3>2, <3>3
    <3>5. end(i) < h
      BY <1>3, <2>1, <3>1, <3>4
    <3> QED BY <2>1, <2>2, <3>1, <3>5
  <2> QED BY <1>7, <2>1, <2>2
<1>10. \A i \in 1..b : Plain(s, i)
  <2> TAKE i \in 1..b
  <2>1. i \in Nat /\ 1 <= i /\ i <= top
    BY <1>6, <1>7
  <2>2. CASE top = n - Keep
    <3>1. i + 2 <= n
      BY <1>0, <1>1, <2>1, <2>2
    <3> QED BY <3>1 DEF Plain
  <2>3. ASSUME NEW j \in done, top = end(j)
        PROVE  Plain(s, i)
    <3>1. j \in Events(s) /\ j \in 1..n /\ end(j) \in Nat /\ j < end(j) /\ end(j) <= n
      BY <1>1
    <3>2. CASE i = j
      BY <3>1, <3>2 DEF Plain
    <3>3. CASE i \in j + 1..end(j)
      <4>1. s[i] \notin {"u", "e", "f", "i"}
        BY <1>1, <3>1, <3>3
      <4> QED BY <4>1 DEF Plain
    <3>4. CASE i < j
      <4>1. i + 2 <= n
        BY <1>1, <2>1, <3>1, <3>4
      <4> QED BY <4>1 DEF Plain
    <3>5. i = j \/ i < j \/ i \in j + 1..end(j)
      BY <2>1, <2>3, <3>1
    <3> QED BY <3>2, <3>3, <3>4, <3>5
  <2> QED BY <1>6, <2>1, <2>2, <2>3
<1>11. b = n => s = <<>> \/ s[n] # "w"
  <2>1. SUFFICES ASSUME b = n, n # 0
                 PROVE  s[n] # "w"
    BY EmptySeq
  <2>2. top = n
    BY <1>1, <1>6, <1>7, <2>1
  <2>3. PICK j \in done : top = end(j)
    BY <1>0, <1>1, <1>6, <2>1, <2>2
  <2> QED BY <1>1, <2>2, <2>3
<1>12. b \in Nat /\ b <= n
  BY <1>1, <1>6, <1>7
<1>14. Bounded(s, b)
  BY <1>8, <1>9, <1>10, <1>11, <1>12 DEF Bounded, held, end
<1> QED BY <1>13, <1>14

\* An event of a part ends where it ends in the text.
LEMMA PartEnd ==
    ASSUME NEW s, NEW t, NEW b, IsPart(s, t, b), NEW i \in Events(s),
           HeadingAt(s, i) \/ DigitsTo(s, i) < Len(s) \/ Len(s) + b = Len(t)
    PROVE  EventEnd(t, i + b) = EventEnd(s, i) + b
<1>1. s \in Seq(Symbol) /\ b \in Nat /\ i \in 1..Len(s)
  BY LenProperties DEF IsPart, Events
<1>2. i \in Nat /\ (HeadingAt(s, i) <=> HeadingAt(t, i + b))
  BY <1>1, PartEvents
<1>3. CASE HeadingAt(s, i)
  BY <1>1, <1>2, <1>3 DEF EventEnd
<1>4. CASE ~HeadingAt(s, i)
  <2>1. CountAt(s, i)
    BY <1>4 DEF Events
  <2>2. DigitsTo(t, i + b) = DigitsTo(s, i) + b
    BY <1>1, <1>4, <2>1, PartAmount
  <2> QED BY <1>2, <1>4, <2>2 DEF EventEnd
<1> QED BY <1>3, <1>4

\* What was done of a text stays done when more is read.
LEMMA DoneStays ==
    ASSUME NEW c, NEW t, IsPart(c, t, 0), NEW b, DoneTo(c, b)
    PROVE  /\ \A i \in 1..b : /\ i \in Events(t) <=> i \in Events(c)
                              /\ HeadingAt(t, i) <=> HeadingAt(c, i)
                              /\ i \in Events(t) => EventEnd(t, i) <= b
                              /\ CountAt(t, i) => DigitsTo(t, i) < Len(t)
                              /\ Plain(t, i)
           /\ \A i \in 1..Len(t) : HeadingAt(t, i) => (i + 2 > Len(c) <=> ~(i <= b))
           /\ \A i \in 1..Len(c) : HeadingAt(c, i) => HeadingAt(t, i)
<1>1. /\ c \in Seq(Symbol) /\ t \in Seq(Symbol) /\ Len(c) \in Nat /\ Len(t) \in Nat
      /\ Len(c) <= Len(t) /\ \A i \in 1..Len(c) : i + 0 = i /\ t[i] = c[i]
  BY LenProperties DEF IsPart
<1>2. /\ b \in Nat /\ b <= Len(c)
      /\ \A i \in 1..b : Plain(c, i)
      /\ \A i \in 1..b : i \in Events(c) => EventEnd(c, i) <= b
      /\ \A i \in 1..b : CountAt(c, i) => DigitsTo(c, i) < Len(c)
      /\ \A i \in 1..Len(c) : HeadingAt(c, i) => i <= b
  BY DEF DoneTo
<1>3. ASSUME NEW i \in 1..b
      PROVE  /\ i \in Events(t) <=> i \in Events(c)
             /\ HeadingAt(t, i) <=> HeadingAt(c, i)
             /\ i \in Events(t) => EventEnd(t, i) <= b
             /\ CountAt(t, i) => DigitsTo(t, i) < Len(t)
             /\ Plain(t, i)
  <2>1. i \in 1..Len(c) /\ i + 0 = i /\ i \in Nat
    BY <1>1, <1>2
  <2>2. /\ i \in Events(c) => i \in Events(t)
        /\ i \in Events(c) => (HeadingAt(c, i) <=> HeadingAt(t, i))
        /\ i + 2 <= Len(c) => (i \in Events(c) <=> i \in Events(t))
    BY <2>1, PartEvents
  <2>3. /\ i \in Events(t) => t[i] \in {"u", "e", "f", "i"}
        /\ HeadingAt(t, i) => i \in Events(t)
        /\ HeadingAt(c, i) => i \in Events(c)
        /\ CountAt(t, i) => i \in Events(t) /\ ~HeadingAt(t, i)
        /\ i \in Events(c) /\ ~HeadingAt(c, i) => CountAt(c, i)
    BY <1>1, <2>1, LenProperties DEF Events, HeadingAt, CountAt
  <2>4. i \in Events(t) <=> i \in Events(c)
    BY <1>1, <1>2, <2>1, <2>2, <2>3 DEF Plain
  <2>5. HeadingAt(t, i) <=> HeadingAt(c, i)
    BY <2>2, <2>3, <2>4
  <2>6. i \in Events(c) => EventEnd(t, i) = EventEnd(c, i)
    <3>1. SUFFICES ASSUME i \in Events(c)
                   PROVE  EventEnd(t, i) = EventEnd(c, i)
      OBVIOUS
    <3>2. HeadingAt(c, i) \/ DigitsTo(c, i) < Len(c)
      BY <1>2, <2>3, <3>1
    <3>3. EventEnd(t, i + 0) = EventEnd(c, i) + 0
      BY <3>1, <3>2, PartEnd
    <3>4. EventEnd(c, i) \in Nat
      BY <1>1, <3>1, EventSpan
    <3> QED BY <2>1, <3>3, <3>4
  <2>7. CountAt(t, i) => DigitsTo(t, i) < Len(t)
    <3>1. SUFFICES ASSUME CountAt(t, i)
                   PROVE  DigitsTo(t, i) < Len(t)
      OBVIOUS
    <3>2. i \in Events(c) /\ CountAt(c, i)
      BY <2>3, <2>4, <2>5, <3>1
    <3>3. DigitsTo(c, i) < Len(c)
      BY <1>2, <3>2
    <3>4. DigitsTo(t, i + 0) = DigitsTo(c, i) + 0
      BY <2>1, <3>2, <3>3, PartAmount
    <3>5. DigitsTo(c, i) \in Nat
      BY <1>1, <2>1, <3>2, DigitsToIs
    <3> QED BY <1>1, <2>1, <3>3, <3>4, <3>5
  <2>8. Plain(t, i)
    BY <1>1, <1>2, <2>1, <2>4 DEF Plain
  <2> QED BY <1>2, <2>4, <2>5, <2>6, <2>7, <2>8
<1>4. ASSUME NEW i \in 1..Len(c), HeadingAt(c, i)
      PROVE  HeadingAt(t, i)
  <2>1. HeadingAt(t, i + 0)
    BY <1>4, PartEvents
  <2> QED BY <1>1, <2>1
<1>5. ASSUME NEW i \in 1..Len(t), HeadingAt(t, i)
      PROVE  i + 2 > Len(c) <=> ~(i <= b)
  <2>1. CASE i <= b
    <3>1. i \in 1..b
      BY <1>2, <2>1
    <3>2. HeadingAt(c, i)
      BY <1>3, <1>5, <3>1
    <3>3. i + 2 <= Len(c)
      BY <3>2 DEF HeadingAt
    <3> QED BY <1>1, <2>1, <3>3
  <2>2. CASE ~(i <= b)
    <3>1. SUFFICES ASSUME i + 2 <= Len(c)
                   PROVE  FALSE
      BY <1>1, <2>2
    <3>2. i \in 1..Len(c) /\ i + 0 = i
      BY <1>1, <3>1
    <3>3. HeadingAt(c, i)
      BY <1>5, <3>1, <3>2, PartEvents
    <3> QED BY <1>2, <2>2, <3>2, <3>3
  <2> QED BY <2>1, <2>2
<1> QED BY <1>3, <1>4, <1>5

\* The events that begin among the first b symbols.
EventsTo(c, b) == {i \in Events(c) : i <= b}
Moved(D, b) == {i + b : i \in D}

\* Counting the events of what is left and read counts those of the text.
LEMMA CountsOn ==
    ASSUME NEW c, NEW t, IsPart(c, t, 0), NEW b, DoneTo(c, b), NEW s, IsPart(s, t, b),
           Len(s) + b = Len(t), NEW D, D \subseteq Events(s), NEW m
    PROVE  CountsAfter(CountsAfter(m, c, EventsTo(c, b)), s, D) =
             CountsAfter(m, t, EventsTo(c, b) \cup Moved(D, b))
<1> DEFINE E == {i \in Events(c) : i <= b}
           F == {i + b : i \in D}
<1>1. /\ c \in Seq(Symbol) /\ t \in Seq(Symbol) /\ s \in Seq(Symbol)
      /\ Len(c) \in Nat /\ Len(t) \in Nat /\ Len(s) \in Nat
      /\ Len(c) <= Len(t) /\ b \in Nat /\ b <= Len(c)
  BY LenProperties DEF IsPart, DoneTo
<1>2. \A i \in D : i \in 1..Len(s)
  BY <1>1, LenProperties DEF Events
<1>3. ASSUME NEW i \in E
      PROVE  i \in 1..Len(c) /\ i \in Events(c) /\ i <= b /\ i + 0 = i /\ i \in 1..Len(t)
  BY <1>1, LenProperties DEF Events
<1>4. \A d : CountsAfter(d, s, D) = CountsAfter(d, t, F)
  BY CountsShift
<1>5. CountsAfter(m, c, E) = CountsAfter(m, t, E)
  <2>1. \A i \in E : HeadingAt(c, i) \/ DigitsTo(c, i) < Len(c) \/ Len(c) + 0 = Len(t)
    <3> TAKE i \in E
    <3>1. i \in 1..b
      BY <1>1, <1>3
    <3>2. HeadingAt(c, i) \/ CountAt(c, i)
      BY <1>3 DEF Events
    <3> QED BY <3>1, <3>2 DEF DoneTo
  <2>2. E \subseteq Events(c)
    OBVIOUS
  <2>3. {i + 0 : i \in E} = E
    BY <1>3
  <2> HIDE DEF E
  <2>4. CountsAfter(m, c, E) = CountsAfter(m, t, {i + 0 : i \in E})
    BY <2>1, <2>2, CountsShift
  <2> QED BY <2>3, <2>4
<1>6. PlacesOf(t, E) /\ PlacesOf(t, F)
  BY <1>1, <1>2, <1>3 DEF PlacesOf
<1>7. \A i \in E, j \in F : i < j
  BY <1>1, <1>2, <1>3
<1> HIDE DEF E, F
<1>8. CountsAfter(CountsAfter(m, t, E), t, F) = CountsAfter(m, t, E \cup F)
  BY <1>6, <1>7, CountsCompose
<1>9. CountsAfter(CountsAfter(m, c, E), s, D) = CountsAfter(CountsAfter(m, t, E), t, F)
  BY <1>4, <1>5
<1> QED BY <1>8, <1>9 DEF E, F, EventsTo, Moved

\* A heading of t ends where c does not reach.
NewHeading(c, t) == \E i \in 1..Len(t) : HeadingAt(t, i) /\ i + 2 > Len(c)

\* A heading in what is left and read is one that the text read before did not have.
LEMMA HeadedOn ==
    ASSUME NEW c, NEW t, IsPart(c, t, 0), NEW b, DoneTo(c, b), NEW s, IsPart(s, t, b),
           Len(s) + b = Len(t)
    PROVE  /\ Headed(s, Events(s)) <=> NewHeading(c, t)
           /\ Headed(t, Events(t)) <=> Headed(c, Events(c)) \/ Headed(s, Events(s))
<1>1. /\ c \in Seq(Symbol) /\ t \in Seq(Symbol) /\ s \in Seq(Symbol)
      /\ Len(c) \in Nat /\ Len(t) \in Nat /\ Len(s) \in Nat
      /\ Len(c) <= Len(t) /\ b \in Nat /\ b <= Len(c)
  BY LenProperties DEF IsPart, DoneTo
<1>2. \A x \in Seq(Symbol) : Headed(x, Events(x)) <=> \E i \in 1..Len(x) : HeadingAt(x, i)
  BY LenProperties DEF Headed, Events
<1>3. ASSUME NEW i \in 1..Len(s), HeadingAt(s, i)
      PROVE  i + b \in 1..Len(t) /\ HeadingAt(t, i + b) /\ (i + b) + 2 > Len(c)
  <2>1. i + b \in 1..Len(t) /\ HeadingAt(t, i + b)
    BY <1>3, PartEvents
  <2>2. ~(i + b <= b)
    BY <1>1
  <2> QED BY <2>1, <2>2, DoneStays
<1>4. ASSUME NEW i \in 1..Len(t), HeadingAt(t, i), ~(i <= b)
      PROVE  \E j \in 1..Len(s) : HeadingAt(s, j)
  <2>1. i - b \in 1..Len(s) /\ (i - b) + b = i
    BY <1>1, <1>4
  <2>2. HeadingAt(s, i - b)
    BY <1>4, <2>1, PartEvents
  <2> QED BY <2>1, <2>2
<1>5. ASSUME NEW i \in 1..Len(t), HeadingAt(t, i), i + 2 > Len(c)
      PROVE  \E j \in 1..Len(s) : HeadingAt(s, j)
  <2>1. ~(i <= b)
    BY <1>5, DoneStays
  <2> QED BY <1>4, <1>5, <2>1
<1>6. ASSUME NEW i \in 1..Len(t), HeadingAt(t, i), i <= b
      PROVE  \E j \in 1..Len(c) : HeadingAt(c, j)
  <2>1. i \in 1..b /\ i \in 1..Len(c)
    BY <1>1, <1>6
  <2>2. HeadingAt(c, i)
    BY <1>6, <2>1, DoneStays
  <2> QED BY <2>1, <2>2
<1>7. ASSUME NEW i \in 1..Len(c), HeadingAt(c, i)
      PROVE  \E j \in 1..Len(t) : HeadingAt(t, j)
  <2>1. i \in 1..Len(t)
    BY <1>1
  <2> QED BY <1>7, <2>1, DoneStays
<1> QED BY <1>1, <1>2, <1>3, <1>4, <1>5, <1>6, <1>7 DEF NewHeading

-----------------------------------------------------------------------------
(* A feed                                                                  *)

\* The scan is a record of these.
IsScan(sc) ==
    sc = [at |-> sc.at, size |-> sc.size, pending |-> sc.pending, counts |-> sc.counts,
          reports |-> sc.reports, prefix |-> sc.prefix, found |-> sc.found]

\* The scan has been fed X and is done up to place b of it.
Fed(sc, X, b) ==
    LET c == Compact(X)
    IN /\ DoneTo(c, b)
       /\ sc.pending = SubSeq(c, b + 1, Len(c))
       /\ sc.counts = CountsAfter(NoScan.counts, c, EventsTo(c, b))
       /\ sc.reports \in Nat
       /\ sc.reports # 0 <=> Headed(c, Events(c))

\* A scan after another: its counts, reports and what it keeps back.
Feeds(sc, fed, k, r, p) ==
    /\ IsScan(fed)
    /\ fed.at = sc.at /\ fed.size = sc.size /\ fed.prefix = sc.prefix /\ fed.found = sc.found
    /\ fed.counts = k /\ fed.reports = r /\ fed.pending = p

\* A feed changes the counts, the reports and what is kept back.
LEMMA ScanExcept ==
    ASSUME NEW sc, IsScan(sc), NEW k, NEW r, NEW p
    PROVE  Feeds(sc, [sc EXCEPT !.counts = k, !.reports = r, !.pending = p], k, r, p)
<1> DEFINE at0 == sc.at
           size0 == sc.size
           prefix0 == sc.prefix
           found0 == sc.found
           pending0 == sc.pending
           counts0 == sc.counts
           reports0 == sc.reports
<1>1. sc = [at |-> at0, size |-> size0, pending |-> pending0, counts |-> counts0,
            reports |-> reports0, prefix |-> prefix0, found |-> found0]
  BY DEF IsScan
<1> HIDE DEF at0, size0, pending0, counts0, reports0, prefix0, found0
<1> DEFINE fed == [sc EXCEPT !.counts = k, !.reports = r, !.pending = p]
<1>2. sc \in [at : {at0}, size : {size0}, pending : {pending0, p}, counts : {counts0, k},
              reports : {reports0, r}, prefix : {prefix0}, found : {found0}]
  BY <1>1
<1>3. fed \in [at : {at0}, size : {size0}, pending : {pending0, p}, counts : {counts0, k},
               reports : {reports0, r}, prefix : {prefix0}, found : {found0}]
  BY <1>2
<1>4. fed.counts = k /\ fed.reports = r /\ fed.pending = p
  BY <1>2
<1> HIDE DEF fed
<1>5. fed.at = at0 /\ fed.size = size0 /\ fed.prefix = prefix0 /\ fed.found = found0
  BY <1>3
<1>6. fed = [at |-> fed.at, size |-> fed.size, pending |-> fed.pending, counts |-> fed.counts,
             reports |-> fed.reports, prefix |-> fed.prefix, found |-> fed.found]
  BY <1>3
<1>7. IsScan(fed)
  BY <1>6 DEF IsScan
<1> QED BY <1>4, <1>5, <1>7 DEF Feeds, fed, at0, size0, pending0, counts0, reports0, prefix0, found0

HeadingsOf(s, final) == Cardinality({i \in Events(s) \ Held(s, final) : HeadingAt(s, i)})

\* What a feed changes them to.
LEMMA FeedFields ==
    ASSUME NEW sc, IsScan(sc), NEW y, NEW final
    PROVE  LET s == Compact(sc.pending \o y)
           IN Feeds(sc, Feed(sc, y, final),
                    CountsAfter(sc.counts, s, Events(s) \ Held(s, final)),
                    sc.reports + HeadingsOf(s, final),
                    SubSeq(s, BoundOf(s, final) + 1, Len(s)))
<1> DEFINE s == Compact(sc.pending \o y)
           k == CountsAfter(sc.counts, s, Events(s) \ Held(s, final))
           r == sc.reports + HeadingsOf(s, final)
           p == SubSeq(s, BoundOf(s, final) + 1, Len(s))
<1>1. Feed(sc, y, final) = [sc EXCEPT !.counts = k, !.reports = r, !.pending = p]
  BY DEF Feed, BoundOf, HeadingsOf
<1> HIDE DEF k, r, p
<1>2. Feeds(sc, [sc EXCEPT !.counts = k, !.reports = r, !.pending = p], k, r, p)
  BY ScanExcept
<1>3. Feeds(sc, Feed(sc, y, final), k, r, p)
  BY <1>1, <1>2
<1> QED BY <1>3 DEF k, r, p

\* A feed counts reports when a heading is among its events.
LEMMA HeadingsCount ==
    ASSUME NEW s \in Seq(Symbol), NEW final
    PROVE  /\ HeadingsOf(s, final) \in Nat
           /\ HeadingsOf(s, final) # 0 <=> Headed(s, Events(s))
<1> DEFINE held == Held(s, final)
<1>0. \A i \in held : ~HeadingAt(s, i)
  BY DEF Held
<1> DEFINE D == {i \in Events(s) \ held : HeadingAt(s, i)}
<1>1. D \subseteq 1..Len(s) /\ Len(s) \in Nat
  BY LenProperties DEF Events
<1>2. IsFiniteSet(D)
  <2> HIDE DEF D
  <2>1. IsFiniteSet(1..Len(s))
    BY <1>1, FS_Interval
  <2> QED BY <1>1, <2>1, FS_Subset
<1>3. Headed(s, Events(s)) <=> D # {}
  BY <1>0 DEF Headed
<1>4. Cardinality(D) \in Nat /\ (Cardinality(D) = 0 <=> D = {})
  <2> HIDE DEF D
  <2> QED BY <1>2, FS_CardinalityType, FS_EmptySet
<1> QED BY <1>3, <1>4 DEF HeadingsOf

\* The events among the first b + d symbols are those among the first b and those of s.
Gains(c, t, b, s, d) ==
    EventsTo(t, b + d) = EventsTo(c, b) \cup Moved(Events(s) \ Held(s, FALSE), b)

\* What a feed of more text leaves done.
LEMMA DoneMore ==
    ASSUME NEW c, NEW t, IsPart(c, t, 0), NEW b, DoneTo(c, b), NEW s, IsPart(s, t, b),
           Len(s) + b = Len(t),
           NEW d, Bounded(s, d)
    PROVE  /\ DoneTo(t, b + d)
           /\ Gains(c, t, b, s, d)
<1> DEFINE held == Held(s, FALSE)
<1>0. /\ d \in Nat /\ d <= Len(s)
      /\ d = Len(s) => s = <<>> \/ s[Len(s)] # "w"
      /\ \A i \in 1..d : Plain(s, i)
      /\ \A i \in Events(s) \ held : EventEnd(s, i) <= d
      /\ \A i \in held : ~(i <= d)
  BY DEF Bounded
<1>1. /\ c \in Seq(Symbol) /\ t \in Seq(Symbol) /\ s \in Seq(Symbol)
      /\ Len(c) \in Nat /\ Len(t) \in Nat /\ Len(s) \in Nat
      /\ Len(c) <= Len(t) /\ b \in Nat /\ b <= Len(c)
      /\ \A i \in 1..Len(s) : t[i + b] = s[i]
      /\ \A i \in 1..Len(c) : t[i + 0] = c[i]
      /\ b + d \in Nat /\ b + d <= Len(t)
  BY <1>0, LenProperties DEF IsPart, DoneTo
<1>2. \A i \in held : i \in Events(s) /\ ~HeadingAt(s, i) /\ EventEnd(s, i) = Len(s)
  BY DEF Held
<1> HIDE DEF held
<1>3. ASSUME NEW i \in 1..Len(s)
      PROVE  /\ i + b \in 1..Len(t) /\ ~(i + b <= b) /\ i \in Nat
             /\ i \in Events(s) <=> i + b \in Events(t)
             /\ HeadingAt(s, i) <=> HeadingAt(t, i + b)
             /\ CountAt(s, i) <=> CountAt(t, i + b)
             /\ i \in Events(s) => EventEnd(t, i + b) = EventEnd(s, i) + b
             /\ CountAt(s, i) => DigitsTo(t, i + b) = DigitsTo(s, i) + b
             /\ Plain(s, i) => Plain(t, i + b)
  <2>1. /\ i + b \in 1..Len(t) /\ i \in Nat
        /\ i \in Events(s) <=> i + b \in Events(t)
        /\ HeadingAt(s, i) <=> HeadingAt(t, i + b)
        /\ CountAt(s, i) <=> CountAt(t, i + b)
    BY PartEvents
  <2>2. i \in Events(s) => EventEnd(t, i + b) = EventEnd(s, i) + b
    BY PartEnd
  <2>3. CountAt(s, i) => DigitsTo(t, i + b) = DigitsTo(s, i) + b
    BY PartAmount
  <2>4. ~(i + b <= b)
    BY <1>1
  <2>5. i + 2 <= Len(s) => (i + b) + 2 <= Len(t)
    BY <1>1
  <2>6. Plain(s, i) => Plain(t, i + b)
    BY <1>1, <2>1, <2>5 DEF Plain
  <2> QED BY <2>1, <2>2, <2>3, <2>4, <2>6
<1>4. \A i \in Events(s) : i \in 1..Len(s)
  BY <1>1, LenProperties DEF Events
<1>5. \A i \in Events(t) : i \in 1..Len(t)
  BY <1>1, LenProperties DEF Events
<1>6. ASSUME NEW i \in 1..Len(t), ~(i <= b)
      PROVE  i - b \in 1..Len(s) /\ (i - b) + b = i /\ (i <= b + d => i - b \in 1..d)
  BY <1>0, <1>1, <1>6
<1>7. ASSUME NEW i \in Events(s)
      PROVE  EventEnd(s, i) \in Nat /\ i < EventEnd(s, i)
  BY <1>1, EventSpan
<1>8. DoneTo(t, b + d)
  <2>1. b + d = Len(t) => t = <<>> \/ t[Len(t)] # "w"
    <3>1. SUFFICES ASSUME b + d = Len(t), t # <<>>
                   PROVE  t[Len(t)] # "w"
      OBVIOUS
    <3>2. d = Len(s) /\ Len(t) > 0
      BY <1>0, <1>1, <3>1, EmptySeq
    <3>3. CASE s = <<>>
      <4>1. Len(s) = 0
        BY <3>3, EmptySeq
      <4>2. b = Len(c) /\ b = Len(t) /\ b \in 1..Len(c) /\ b + 0 = b
        BY <1>1, <3>2, <4>1
      <4>3. c # <<>>
        <5>1. Len(c) # 0 /\ Len(<<>>) = 0
          BY <1>1, <4>2, EmptySeq
        <5> QED BY <5>1
      <4> QED BY <1>1, <4>2, <4>3 DEF DoneTo
    <3>4. CASE s # <<>>
      <4>1. Len(s) \in 1..Len(s)
        BY <1>1, <3>4, EmptySeq
      <4> QED BY <1>0, <1>1, <3>2, <3>4, <4>1
    <3> QED BY <3>3, <3>4
  <2>2. ASSUME NEW i \in 1..b + d
        PROVE  /\ Plain(t, i)
               /\ i \in Events(t) => EventEnd(t, i) <= b + d
               /\ CountAt(t, i) => DigitsTo(t, i) < Len(t)
    <3>1. CASE i <= b
      <4>1. i \in 1..b
        BY <1>1, <3>1
      <4>2. /\ Plain(t, i) /\ (i \in Events(t) => EventEnd(t, i) <= b)
            /\ CountAt(t, i) => DigitsTo(t, i) < Len(t)
        BY <4>1, DoneStays
      <4>3. i \in Events(t) => EventEnd(t, i) \in Nat
        BY <1>1, EventSpan
      <4> QED BY <1>0, <1>1, <4>2, <4>3
    <3>2. CASE ~(i <= b)
      <4> DEFINE j == i - b
      <4>1. j \in 1..Len(s) /\ j + b = i /\ j \in 1..d
        BY <1>1, <1>6, <3>2
      <4> HIDE DEF j
      <4>2. Plain(t, i)
        BY <1>0, <1>3, <4>1
      <4>3. j \in Events(s) => j \notin held /\ EventEnd(s, j) <= d
        <5>1. j <= d
          BY <4>1
        <5>2. j \notin held
          BY <1>0, <5>1
        <5> QED BY <1>0, <5>2
      <4>4. i \in Events(t) => EventEnd(t, i) <= b + d
        <5>1. i \in Events(t) => EventEnd(t, i) = EventEnd(s, j) + b /\ j \in Events(s)
          BY <1>3, <4>1
        <5>2. SUFFICES ASSUME i \in Events(t)
                       PROVE  EventEnd(t, i) <= b + d
          OBVIOUS
        <5>3. EventEnd(s, j) <= d /\ EventEnd(s, j) \in Nat
          BY <1>7, <4>3, <5>1, <5>2
        <5> QED BY <1>0, <1>1, <5>1, <5>2, <5>3
      <4>5. CountAt(t, i) => DigitsTo(t, i) < Len(t)
        <5>1. SUFFICES ASSUME CountAt(t, i)
                       PROVE  DigitsTo(t, i) < Len(t)
          OBVIOUS
        <5>2. CountAt(s, j) /\ DigitsTo(t, i) = DigitsTo(s, j) + b
          BY <1>3, <4>1, <5>1
        <5>3. j \in Events(s) /\ ~HeadingAt(s, j)
          BY <1>1, <4>1, <5>2, LenProperties DEF Events, HeadingAt, CountAt
        <5>4. EventEnd(s, j) # Len(s)
          BY <4>3, <5>3 DEF Held, held
        <5>5. DigitsTo(s, j) # Len(s) /\ DigitsTo(s, j) \in Nat /\ DigitsTo(s, j) <= Len(s)
          BY <1>1, <4>1, <5>2, <5>3, <5>4, DigitsToIs DEF EventEnd
        <5> QED BY <1>1, <5>2, <5>5
      <4> QED BY <4>2, <4>4, <4>5
    <3> QED BY <3>1, <3>2
  <2>3. ASSUME NEW i \in 1..Len(t), HeadingAt(t, i)
        PROVE  i <= b + d
    <3>1. CASE i <= b
      BY <1>0, <1>1, <3>1
    <3>2. CASE ~(i <= b)
      <4> DEFINE j == i - b
      <4>1. j \in 1..Len(s) /\ j + b = i
        BY <1>6, <3>2
      <4> HIDE DEF j
      <4>2. HeadingAt(s, j) /\ j \in Events(s)
        BY <1>1, <1>3, <2>3, <4>1, LenProperties DEF Events
      <4>3. j \notin held
        BY <1>2, <4>2
      <4>4. EventEnd(s, j) <= d
        BY <1>0, <4>2, <4>3
      <4> QED BY <1>0, <1>1, <1>7, <4>1, <4>2, <4>4
    <3> QED BY <3>1, <3>2
  <2> QED BY <1>1, <2>1, <2>2, <2>3 DEF DoneTo
<1>9. ASSUME NEW i
      PROVE  i \in Events(t) /\ i <= b + d <=>
               (i \in Events(c) /\ i <= b) \/ \E j \in Events(s) \ held : i = j + b
  <2>1. ASSUME i \in Events(t), i <= b + d, ~(i <= b)
        PROVE  \E j \in Events(s) \ held : i = j + b
    <3>1. i - b \in 1..Len(s) /\ (i - b) + b = i /\ i - b \in 1..d
      BY <1>5, <1>6, <2>1
    <3>2. i - b \in Events(s)
      BY <1>3, <2>1, <3>1
    <3>3. i - b \notin held
      <4>1. i - b <= d
        BY <3>1
      <4> QED BY <1>0, <4>1
    <3> QED BY <3>1, <3>2, <3>3
  <2>2. ASSUME i \in Events(t), i <= b
        PROVE  i \in Events(c)
    <3>1. i \in 1..b
      BY <1>1, <1>5, <2>2
    <3> QED BY <2>2, <3>1, DoneStays
  <2>3. ASSUME i \in Events(c), i <= b
        PROVE  i \in Events(t) /\ i <= b + d
    <3>1. i \in 1..Len(c)
      BY <1>1, <2>3, LenProperties DEF Events
    <3>2. i \in 1..b
      BY <1>1, <2>3, <3>1
    <3> QED BY <1>0, <1>1, <2>3, <3>2, DoneStays
  <2>4. ASSUME NEW j \in Events(s) \ held, i = j + b
        PROVE  i \in Events(t) /\ i <= b + d
    <3>1. j \in 1..Len(s) /\ EventEnd(s, j) <= d /\ EventEnd(s, j) \in Nat /\ j < EventEnd(s, j)
      BY <1>0, <1>4, <1>7
    <3> QED BY <1>0, <1>1, <1>3, <2>4, <3>1
  <2> QED BY <2>1, <2>2, <2>3, <2>4
<1>10. EventsTo(t, b + d) = EventsTo(c, b) \cup Moved(Events(s) \ held, b)
  <2> DEFINE A == {i \in Events(t) : i <= b + d}
             B == {i \in Events(c) : i <= b}
             D == {i + b : i \in Events(s) \ held}
  <2>1. \A i : i \in A <=> i \in Events(t) /\ i <= b + d
    OBVIOUS
  <2>2. \A i : i \in B <=> i \in Events(c) /\ i <= b
    OBVIOUS
  <2>3. \A i : i \in D <=> \E j \in Events(s) \ held : i = j + b
    OBVIOUS
  <2>4. \A i : i \in A <=> i \in B \/ i \in D
    <3> HIDE DEF A, B, D
    <3> QED BY <1>9, <2>1, <2>2, <2>3
  <2>6. A = EventsTo(t, b + d) /\ B = EventsTo(c, b) /\ D = Moved(Events(s) \ held, b)
    BY DEF EventsTo, Moved
  <2> HIDE DEF A, B, D
  <2>5. A = B \cup D
    BY <2>4
  <2> QED BY <2>5, <2>6, Zenon
<1> QED BY <1>8, <1>10 DEF Gains, held

\* Feeding y to a scan that was fed X leaves it as if X and y were fed at once;
\* the reports change when a heading ends in y.
LEMMA FeedStep ==
    ASSUME NEW sc, IsScan(sc), NEW X \in Seq(Symbol), NEW b, Fed(sc, X, b), NEW y \in Seq(Symbol)
    PROVE  LET fed == Feed(sc, y, FALSE)
               t == Compact(X \o y)
           IN /\ IsScan(fed)
              /\ fed.at = sc.at /\ fed.size = sc.size /\ fed.prefix = sc.prefix
              /\ fed.found = sc.found
              /\ \E d : Fed(fed, X \o y, d)
              /\ fed.reports # sc.reports <=>
                   NewHeading(Compact(X), t)
<1> DEFINE c == Compact(X)
           t == Compact(X \o y)
           s == Compact(sc.pending \o y)
           held == Held(s, FALSE)
           done == Events(s) \ held
           d == BoundOf(s, FALSE)
           n == HeadingsOf(s, FALSE)
           fed == Feed(sc, y, FALSE)
           E == EventsTo(c, b)
<1>1. /\ DoneTo(c, b) /\ sc.pending = SubSeq(c, b + 1, Len(c))
      /\ sc.counts = CountsAfter(NoScan.counts, c, E)
      /\ sc.reports \in Nat
      /\ sc.reports # 0 <=> Headed(c, Events(c))
  BY DEF Fed
<1>2. IsPart(s, t, b) /\ Len(s) + b = Len(t) /\ IsPart(c, t, 0)
  BY <1>1, FeedText
<1>3. /\ s \in Seq(Symbol) /\ t \in Seq(Symbol) /\ b \in Nat /\ Len(s) \in Nat /\ Len(t) \in Nat
  BY <1>2, LenProperties DEF IsPart
<1>4. Bounded(s, d)
  BY <1>3, FeedBound
<1>5. Feeds(sc, fed, CountsAfter(sc.counts, s, done), sc.reports + n, SubSeq(s, d + 1, Len(s)))
  BY FeedFields
<1>6. /\ IsScan(fed)
      /\ fed.at = sc.at /\ fed.size = sc.size /\ fed.prefix = sc.prefix
      /\ fed.found = sc.found
      /\ fed.counts = CountsAfter(sc.counts, s, done)
      /\ fed.reports = sc.reports + n
      /\ fed.pending = SubSeq(s, d + 1, Len(s))
  BY <1>5 DEF Feeds
<1>7. n \in Nat /\ (n # 0 <=> Headed(s, Events(s)))
  BY <1>3, HeadingsCount
<1> HIDE DEF d, n, fed, held, c, t, s, E
<1>8. /\ DoneTo(t, b + d)
      /\ EventsTo(t, b + d) = E \cup Moved(done, b)
  <2>1. DoneTo(c, b) /\ IsPart(s, t, b) /\ Len(s) + b = Len(t) /\ IsPart(c, t, 0) /\ Bounded(s, d)
    BY <1>1, <1>2, <1>4
  <2>2. DoneTo(t, b + d)
    BY <2>1, DoneMore
  <2>3. Gains(c, t, b, s, d)
    BY <2>1, DoneMore
  <2> QED BY <2>2, <2>3 DEF E, held, Gains
<1>9. fed.counts = CountsAfter(NoScan.counts, t, EventsTo(t, b + d))
  <2>1. done \subseteq Events(s)
    OBVIOUS
  <2> HIDE DEF done
  <2>2. CountsAfter(CountsAfter(NoScan.counts, c, E), s, done) =
          CountsAfter(NoScan.counts, t, E \cup Moved(done, b))
    BY <1>1, <1>2, <2>1, CountsOn DEF E
  <2> QED BY <1>1, <1>6, <1>8, <2>2
<1>10. SubSeq(s, d + 1, Len(s)) = SubSeq(t, (b + d) + 1, Len(t))
  <2> DEFINE p == SubSeq(s, d + 1, Len(s))
             q == SubSeq(t, (b + d) + 1, Len(t))
             m == Len(s) - d
  <2>1. b + d \in Nat /\ b + d <= Len(t) /\ Len(t) - (b + d) = m
    BY <1>2, <1>3, <1>4 DEF Bounded
  <2>2. p \in Seq(Symbol) /\ Len(p) = m /\ \A i \in 1..m : p[i] = s[d + i]
    <3> DEFINE z == Len(s)
    <3>1. d \in Nat /\ z \in Nat /\ d <= z /\ z <= Len(s) /\ s \in Seq(Symbol)
      BY <1>3, <1>4 DEF Bounded
    <3> HIDE DEF z
    <3>2. /\ SubSeq(s, d + 1, z) \in Seq(Symbol) /\ Len(SubSeq(s, d + 1, z)) = z - d
          /\ \A i \in 1..z - d : SubSeq(s, d + 1, z)[i] = s[d + i]
      BY <3>1, PartOf
    <3> QED BY <3>2 DEF z
  <2>3. q \in Seq(Symbol) /\ Len(q) = m /\ \A i \in 1..m : q[i] = t[(b + d) + i]
    <3> DEFINE z == Len(t)
               l == b + d
    <3>1. l \in Nat /\ z \in Nat /\ l <= z /\ z <= Len(t) /\ t \in Seq(Symbol) /\ z - l = m
      BY <1>3, <2>1
    <3> HIDE DEF z, l, m
    <3>2. /\ SubSeq(t, l + 1, z) \in Seq(Symbol) /\ Len(SubSeq(t, l + 1, z)) = z - l
          /\ \A i \in 1..z - l : SubSeq(t, l + 1, z)[i] = t[l + i]
      BY <3>1, PartOf
    <3> QED BY <3>1, <3>2 DEF z, l
  <2>4. \A i \in 1..m : t[(b + d) + i] = s[d + i]
    <3> TAKE i \in 1..m
    <3>1. d + i \in 1..Len(s) /\ (d + i) + b = (b + d) + i
      BY <1>3, <1>4 DEF Bounded
    <3>2. t[(d + i) + b] = s[d + i]
      BY <1>2, <3>1 DEF IsPart
    <3> QED BY <3>1, <3>2
  <2> HIDE DEF p, q, m
  <2>5. \A i \in 1..Len(p) : p[i] = q[i]
    BY <2>2, <2>3, <2>4
  <2>6. p = q
    BY <2>2, <2>3, <2>5, SeqEqual
  <2> QED BY <2>6 DEF p, q
<1>11. /\ Headed(s, Events(s)) <=> NewHeading(c, t)
       /\ Headed(t, Events(t)) <=> Headed(c, Events(c)) \/ Headed(s, Events(s))
  BY <1>1, <1>2, HeadedOn
<1>12. fed.reports \in Nat /\ (fed.reports # 0 <=> Headed(t, Events(t)))
  BY <1>1, <1>6, <1>7, <1>11
<1>13. Fed(fed, X \o y, b + d)
  BY <1>6, <1>8, <1>9, <1>10, <1>12 DEF Fed, t
<1>14. fed.reports # sc.reports <=> NewHeading(c, t)
  BY <1>1, <1>6, <1>7, <1>11
<1> QED BY <1>6, <1>13, <1>14 DEF fed, t, c

\* The last feed counts every event of what was fed.
LEMMA FeedLast ==
    ASSUME NEW sc, IsScan(sc), NEW X \in Seq(Symbol), NEW b, Fed(sc, X, b)
    PROVE  LET fed == Feed(sc, <<>>, TRUE)
               c == Compact(X)
           IN /\ fed.found = sc.found
              /\ fed.counts = CountsAfter(NoScan.counts, c, Events(c))
              /\ fed.reports \in Nat
              /\ fed.reports # 0 <=> Headed(c, Events(c))
<1> DEFINE c == Compact(X)
           s == Compact(sc.pending \o <<>>)
           held == Held(s, TRUE)
           done == Events(s) \ held
           n == HeadingsOf(s, TRUE)
           fed == Feed(sc, <<>>, TRUE)
           E == EventsTo(c, b)
<1>1. /\ DoneTo(c, b) /\ sc.pending = SubSeq(c, b + 1, Len(c))
      /\ sc.counts = CountsAfter(NoScan.counts, c, E)
      /\ sc.reports \in Nat
      /\ sc.reports # 0 <=> Headed(c, Events(c))
  BY DEF Fed
<1>2. X \o <<>> = X /\ <<>> \in Seq(Symbol)
  BY ConcatEmptySeq, EmptySeq
<1>3. IsPart(s, c, b) /\ Len(s) + b = Len(c) /\ IsPart(c, c, 0)
  <2>1. IsPart(s, Compact(X \o <<>>), b) /\ Len(s) + b = Len(Compact(X \o <<>>))
        /\ IsPart(c, Compact(X \o <<>>), 0)
    BY <1>1, <1>2, FeedText
  <2> QED BY <1>2, <2>1
<1>4. s \in Seq(Symbol) /\ c \in Seq(Symbol) /\ b \in Nat /\ Len(s) \in Nat /\ Len(c) \in Nat
  BY <1>3, LenProperties DEF IsPart
<1>5. held = {} /\ done = Events(s)
  BY DEF Held
<1>6. /\ fed.found = sc.found
      /\ fed.counts = CountsAfter(sc.counts, s, done)
      /\ fed.reports = sc.reports + n
  <2>1. Feeds(sc, fed, CountsAfter(sc.counts, s, done), sc.reports + n,
              SubSeq(s, BoundOf(s, TRUE) + 1, Len(s)))
    BY FeedFields
  <2> QED BY <2>1 DEF Feeds
<1>7. n \in Nat /\ (n # 0 <=> Headed(s, Events(s)))
  BY <1>4, HeadingsCount
<1> HIDE DEF n, fed, held, c, s, E
<1>8. E \cup Moved(Events(s), b) = Events(c)
  <2>1. \A i \in Events(c) : i <= b \/ \E j \in Events(s) : i = j + b
    <3> SUFFICES ASSUME NEW i \in Events(c), ~(i <= b)
                 PROVE  \E j \in Events(s) : i = j + b
      OBVIOUS
    <3>1. i \in 1..Len(c)
      BY <1>4, LenProperties DEF Events
    <3>2. i - b \in 1..Len(s) /\ (i - b) + b = i
      BY <1>3, <1>4, <3>1
    <3>3. i - b \in Events(s)
      BY <1>3, <3>2, PartEvents
    <3> QED BY <3>2, <3>3
  <2>2. \A j \in Events(s) : j + b \in Events(c)
    <3> TAKE j \in Events(s)
    <3>1. j \in 1..Len(s)
      BY <1>4, LenProperties DEF Events
    <3> QED BY <1>3, <3>1, PartEvents
  <2> QED BY <2>1, <2>2 DEF E, EventsTo, Moved
<1>9. fed.counts = CountsAfter(NoScan.counts, c, Events(c))
  <2>1. CountsAfter(CountsAfter(NoScan.counts, c, E), s, Events(s)) =
          CountsAfter(NoScan.counts, c, E \cup Moved(Events(s), b))
    BY <1>1, <1>3, CountsOn DEF E
  <2> QED BY <1>1, <1>5, <1>6, <1>8, <2>1
<1>10. Headed(s, Events(s)) => Headed(c, Events(c))
  <2>1. SUFFICES ASSUME NEW i \in Events(s), HeadingAt(s, i)
                 PROVE  Headed(c, Events(c))
    BY DEF Headed
  <2>2. i \in 1..Len(s)
    BY <1>4, LenProperties DEF Events
  <2>3. i + b \in Events(c) /\ HeadingAt(c, i + b)
    BY <1>3, <2>1, <2>2, PartEvents
  <2> QED BY <2>3 DEF Headed
<1>11. fed.reports \in Nat /\ (fed.reports # 0 <=> Headed(c, Events(c)))
  BY <1>1, <1>6, <1>7, <1>10
<1> QED BY <1>6, <1>9, <1>11 DEF fed, c

-----------------------------------------------------------------------------
(* Headings                                                                *)

\* The text ends with the first word of a heading and blanks.
Opens(t) == \E j \in 1..Len(t) - 1 : t[j] = "u" /\ \A k \in j + 1..Len(t) : t[k] \in Blank
OpensCompact(c) == 2 <= Len(c) /\ c[Len(c) - 1] = "u" /\ c[Len(c)] = "w"

\* Appending a symbol opens a heading in a text when it does in the compacted text.
LEMMA OpensAfter ==
    ASSUME NEW t \in Seq(Symbol), Opens(t) <=> OpensCompact(Compact(t)), NEW x \in Symbol
    PROVE  Opens(Append(t, x)) <=> OpensCompact(Compact(Append(t, x)))
<1> DEFINE s == Append(t, x)
           n == Len(t)
           c == Compact(t)
           d == Compact(s)
<1>1. /\ n \in Nat /\ Len(s) = n + 1 /\ s[n + 1] = x
      /\ \A i \in 1..n : s[i] = t[i]
      /\ t = <<>> <=> n = 0
  BY LenProperties, AppendProperties, EmptySeq
<1>2. /\ IsCompact(c) /\ Len(c) \in Nat /\ d = Put(c, Sort(x))
      /\ t # <<>> => Len(c) > 0 /\ c[Len(c)] = Sort(t[Len(t)])
      /\ t = <<>> => c = <<>>
      /\ c = <<>> <=> Len(c) = 0
  <2>1. IsCompact(c) /\ d = Put(c, Sort(x))
    BY CompactPut
  <2>2. Len(c) \in Nat /\ (c = <<>> <=> Len(c) = 0)
    <3> HIDE DEF c
    <3> QED BY <2>1, LenProperties, EmptySeq DEF IsCompact
  <2> QED BY <2>1, <2>2, CompactPut
<1>3. Sort(x) \in Symbol /\ Sort(x) # "n" /\ (Sort(x) = "w" <=> x \in Blank)
  BY SortFacts
<1>4. n # 0 => t[n] \in Symbol /\ (Sort(t[n]) = "w" <=> t[n] \in Blank)
               /\ (Sort(t[n]) = "u" <=> t[n] = "u")
  <2>1. SUFFICES ASSUME n # 0
                 PROVE  t[n] \in Symbol /\ (Sort(t[n]) = "w" <=> t[n] \in Blank)
                        /\ (Sort(t[n]) = "u" <=> t[n] = "u")
    OBVIOUS
  <2>2. n \in 1..Len(t)
    BY <1>1, <2>1
  <2>3. t[n] \in Symbol
    BY <2>2, ElementOfSeq
  <2> HIDE DEF n
  <2> QED BY <2>3, SortFacts DEF Sort, Blank
<1>5. /\ d[Len(d)] = Sort(x) /\ Len(d) \in {Len(c), Len(c) + 1}
      /\ \A i \in 1..Len(c) : d[i] = c[i]
  <2> HIDE DEF c, d
  <2> QED BY <1>2, <1>3, PutFacts
<1>6. Opens(t) <=> \E j \in 1..n - 1 : t[j] = "u" /\ \A k \in j + 1..n : t[k] \in Blank
  BY DEF Opens
<1>7. Opens(s) <=> \E j \in 1..n : s[j] = "u" /\ \A k \in j + 1..n + 1 : s[k] \in Blank
  <2>1. Opens(s) <=> \E j \in 1..Len(s) - 1 : s[j] = "u" /\ \A k \in j + 1..Len(s) : s[k] \in Blank
    BY DEF Opens
  <2>2. Len(s) = n + 1 /\ Len(s) - 1 = n
    BY <1>1
  <2> HIDE DEF s, n
  <2> QED BY <2>1, <2>2
<1>8. /\ OpensCompact(c) <=> 2 <= Len(c) /\ c[Len(c) - 1] = "u" /\ c[Len(c)] = "w"
      /\ OpensCompact(d) <=> 2 <= Len(d) /\ d[Len(d) - 1] = "u" /\ d[Len(d)] = "w"
      /\ Opens(t) <=> OpensCompact(c)
  BY DEF OpensCompact
<1>13. n = Len(t)
  OBVIOUS
<1> HIDE DEF c, d, s, n
<1>9. CASE x \notin Blank
  <2>1. ~Opens(s)
    <3>1. \A j \in 1..n : n + 1 \in j + 1..n + 1
      BY <1>1
    <3> QED BY <1>1, <1>7, <1>9, <3>1
  <2> QED BY <1>3, <1>5, <1>8, <1>9, <2>1 DEF d, s
<1>10. CASE x \in Blank /\ n = 0
  <2>1. ~Opens(s)
    BY <1>7, <1>10
  <2>2. Len(c) = 0 /\ ~(2 <= Len(d))
    BY <1>1, <1>2, <1>5, <1>10
  <2> QED BY <1>8, <2>1, <2>2 DEF d, s
<1>11. CASE x \in Blank /\ n # 0 /\ t[n] \in Blank
  <2>1. c # <<>> /\ c[Len(c)] = "w"
    BY <1>1, <1>2, <1>4, <1>11, <1>13
  <2>2. d = c
    BY <1>2, <1>3, <1>11, <2>1 DEF Put
  <2>3. Opens(s) <=> Opens(t)
    <3>1. ASSUME NEW j \in 1..n, s[j] = "u", \A k \in j + 1..n + 1 : s[k] \in Blank
          PROVE  j \in 1..n - 1 /\ t[j] = "u" /\ \A k \in j + 1..n : t[k] \in Blank
      <4>1. t[j] = "u"
        BY <1>1, <3>1
      <4>2. j # n
        BY <1>11, <4>1 DEF Blank
      <4>3. \A k \in j + 1..n : k \in j + 1..n + 1 /\ k \in 1..n
        BY <1>1
      <4> QED BY <1>1, <3>1, <4>1, <4>2, <4>3
    <3>2. ASSUME NEW j \in 1..n - 1, t[j] = "u", \A k \in j + 1..n : t[k] \in Blank
          PROVE  j \in 1..n /\ s[j] = "u" /\ \A k \in j + 1..n + 1 : s[k] \in Blank
      <4>1. j \in 1..n /\ \A k \in j + 1..n + 1 : k = n + 1 \/ (k \in j + 1..n /\ k \in 1..n)
        BY <1>1
      <4> QED BY <1>1, <1>11, <3>2, <4>1
    <3> QED BY <1>6, <1>7, <3>1, <3>2
  <2> QED BY <1>8, <2>2, <2>3 DEF d, s
<1>12. CASE x \in Blank /\ n # 0 /\ t[n] \notin Blank
  <2>1. c[Len(c)] = Sort(t[n]) /\ Sort(t[n]) # "w" /\ Len(c) > 0
    BY <1>1, <1>2, <1>4, <1>12, <1>13
  <2>2. d = Append(c, "w") /\ c \in Seq(Symbol) /\ "w" \in Symbol
    BY <1>2, <1>3, <1>12, <2>1 DEF Put, IsCompact, Symbol
  <2>3. Len(d) = Len(c) + 1
    BY <2>2, AppendProperties
  <2>4. d[Len(d) - 1] = c[Len(c)] /\ 2 <= Len(d)
    <3>1. Len(d) - 1 = Len(c) /\ Len(c) \in 1..Len(c) /\ 2 <= Len(d)
      BY <1>2, <2>1, <2>3
    <3> QED BY <1>5, <3>1
  <2>5. OpensCompact(d) <=> t[n] = "u"
    BY <1>3, <1>4, <1>5, <1>8, <1>12, <2>1, <2>4
  <2>6. Opens(s) <=> t[n] = "u"
    <3>1. ASSUME NEW j \in 1..n, s[j] = "u", \A k \in j + 1..n + 1 : s[k] \in Blank
          PROVE  t[n] = "u"
      <4>1. n \in j + 1..n + 1 => s[n] \in Blank
        BY <3>1
      <4>2. n \in 1..n /\ s[n] = t[n] /\ s[j] = t[j]
        BY <1>1, <1>12
      <4>3. n \notin j + 1..n + 1
        BY <1>12, <4>1, <4>2
      <4>4. j = n
        BY <1>1, <4>3
      <4> QED BY <3>1, <4>2, <4>4
    <3>2. ASSUME t[n] = "u"
          PROVE  n \in 1..n /\ s[n] = "u" /\ \A k \in n + 1..n + 1 : s[k] \in Blank
      <4>1. n \in 1..n /\ \A k \in n + 1..n + 1 : k = n + 1
        BY <1>1, <1>12
      <4> QED BY <1>1, <1>12, <3>2, <4>1
    <3> QED BY <1>7, <3>1, <3>2
  <2> QED BY <2>5, <2>6 DEF d, s
<1> QED BY <1>9, <1>10, <1>11, <1>12

\* The last heading is open in the text exactly when it is in the compacted text.
LEMMA OpensIff ==
    ASSUME NEW t \in Seq(Symbol)
    PROVE  Opens(t) <=> OpensCompact(Compact(t))
<1> DEFINE G == {s \in Seq(Symbol) : Opens(s) <=> OpensCompact(Compact(s))}
<1>1. <<>> \in G
  <2>1. Len(<<>>) = 0 /\ <<>> \in Seq(Symbol)
    BY EmptySeq
  <2>2. ~Opens(<<>>)
    <3>1. 1..0 - 1 = {}
      OBVIOUS
    <3> QED BY <2>1, <3>1 DEF Opens
  <2>3. ~OpensCompact(Compact(<<>>))
    <3>1. ~(2 <= 0)
      OBVIOUS
    <3> QED BY <2>1, <3>1, CompactEmpty DEF OpensCompact
  <2> QED BY <2>1, <2>2, <2>3
<1>2. ASSUME NEW s \in G, NEW x \in Symbol
      PROVE  Append(s, x) \in G
  <2>1. s \in Seq(Symbol) /\ (Opens(s) <=> OpensCompact(Compact(s)))
    OBVIOUS
  <2>2. Append(s, x) \in Seq(Symbol)
    BY <2>1, AppendProperties
  <2>3. Opens(Append(s, x)) <=> OpensCompact(Compact(Append(s, x)))
    BY <2>1, OpensAfter
  <2> QED BY <2>2, <2>3
<1>3. G = Seq(Symbol)
  <2> HIDE DEF G
  <2>1. G \subseteq Seq(Symbol)
    BY DEF G
  <2> QED BY <1>1, <1>2, <2>1, AppendInduction
<1> QED BY <1>3

\* Which headings end with a symbol that is appended.
LEMMA HeadingsAppend ==
    ASSUME NEW t \in Seq(Symbol), NEW x \in Symbol
    PROVE  /\ \A i : i \in Headings(Append(t, x)) <=>
                       i \in Headings(t) \/ (i = Len(t) + 1 /\ x = "r" /\ Opens(t))
           /\ Headings(t) \subseteq 1..Len(t)
<1> DEFINE s == Append(t, x)
           n == Len(t)
           Begun(u, i) == \E j \in 1..i - 2 : u[j] = "u" /\ \A k \in j + 1..i - 1 : u[k] \in Blank
<1>1. /\ n \in Nat /\ Len(s) = n + 1 /\ s[n + 1] = x /\ s \in Seq(Symbol)
      /\ \A i \in 1..n : s[i] = t[i]
      /\ DOMAIN t = 1..n /\ DOMAIN s = 1..n + 1
  BY LenProperties, AppendProperties
<1>2. /\ \A i : i \in Headings(t) <=> i \in 1..n /\ t[i] = "r" /\ Begun(t, i)
      /\ \A i : i \in Headings(s) <=> i \in 1..n + 1 /\ s[i] = "r" /\ Begun(s, i)
  BY <1>1 DEF Headings
<1>3. ASSUME NEW i \in 1..n + 1
      PROVE  Begun(s, i) <=> Begun(t, i)
  <2>1. \A j \in 1..i - 2 : j \in 1..n /\ \A k \in j + 1..i - 1 : k \in 1..n
    BY <1>1
  <2> QED BY <1>1, <2>1
<1>4. Opens(t) <=> Begun(t, n + 1)
  <2>1. (n + 1) - 2 = n - 1 /\ (n + 1) - 1 = n
    BY <1>1
  <2> QED BY <2>1 DEF Opens
<1> HIDE DEF Begun, s, n
<1>5. \A i : i \in Headings(s) <=> i \in Headings(t) \/ (i = n + 1 /\ x = "r" /\ Opens(t))
  <2> TAKE i
  <2>1. CASE i \in 1..n
    <3>1. i \in 1..n + 1 /\ i # n + 1
      BY <1>1, <2>1
    <3> QED BY <1>1, <1>2, <1>3, <2>1, <3>1
  <2>2. CASE i = n + 1
    <3>1. i \in 1..n + 1 /\ i \notin 1..n
      BY <1>1, <2>2
    <3> QED BY <1>1, <1>2, <1>3, <1>4, <2>2, <3>1
  <2>3. CASE i \notin 1..n + 1
    <3>1. i \notin 1..n /\ i # n + 1
      BY <1>1, <2>3
    <3> QED BY <1>2, <2>3, <3>1
  <2>4. i \in 1..n \/ i = n + 1 \/ i \notin 1..n + 1
    BY <1>1
  <2> QED BY <2>1, <2>2, <2>3, <2>4
<1>6. Headings(t) \subseteq 1..n
  BY <1>2
<1> QED BY <1>5, <1>6 DEF s, n

\* The same of the compacted text.
LEMMA NewAppend ==
    ASSUME NEW t \in Seq(Symbol), NEW x \in Symbol, NEW c, Len(c) \in Nat,
           Len(c) <= Len(Compact(t))
    PROVE  NewHeading(c, Compact(Append(t, x))) <=>
             NewHeading(c, Compact(t)) \/ (x = "r" /\ Opens(t))
<1> DEFINE p == Compact(t)
           d == Compact(Append(t, x))
           n == Len(p)
           m == Len(d)
<1>1. IsCompact(p) /\ n \in Nat /\ d = Put(p, Sort(x))
  <2>1. IsCompact(p) /\ d = Put(p, Sort(x))
    BY CompactPut
  <2> HIDE DEF p
  <2> QED BY <2>1, LenProperties DEF IsCompact
<1>2. Sort(x) \in Symbol /\ Sort(x) # "n" /\ (Sort(x) = "r" <=> x = "r")
  BY SortFacts DEF Sort, Blank
<1>3. Opens(t) <=> 2 <= n /\ p[n - 1] = "u" /\ p[n] = "w"
  BY OpensIff DEF OpensCompact
<1> HIDE DEF p, d
<1>4. /\ d[m] = Sort(x) /\ m \in {n, n + 1} /\ m \in Nat
      /\ \A i \in 1..n : d[i] = p[i]
      /\ x = "r" => m = n + 1
  <2>1. /\ d[m] = Sort(x) /\ m \in {n, n + 1}
        /\ \A i \in 1..n : d[i] = p[i]
        /\ Sort(x) # "w" => m = n + 1
    BY <1>1, <1>2, PutFacts
  <2> HIDE DEF m, n
  <2> QED BY <1>1, <1>2, <2>1
<1>5. Len(c) \in Nat /\ Len(c) <= n
  BY DEF p
<1>6. /\ \A i : HeadingAt(p, i) <=> i + 2 <= n /\ p[i] = "u" /\ p[i + 1] = "w" /\ p[i + 2] = "r"
      /\ \A i : HeadingAt(d, i) <=> i + 2 <= m /\ d[i] = "u" /\ d[i + 1] = "w" /\ d[i + 2] = "r"
      /\ NewHeading(c, p) <=> \E i \in 1..n : HeadingAt(p, i) /\ i + 2 > Len(c)
      /\ NewHeading(c, d) <=> \E i \in 1..m : HeadingAt(d, i) /\ i + 2 > Len(c)
  BY DEF HeadingAt, NewHeading
<1> HIDE DEF m, n
<1>7. ASSUME NEW i \in 1..m, HeadingAt(d, i), i + 2 > Len(c)
      PROVE  NewHeading(c, p) \/ (x = "r" /\ Opens(t))
  <2>1. i + 2 <= m /\ d[i] = "u" /\ d[i + 1] = "w" /\ d[i + 2] = "r"
    BY <1>6, <1>7
  <2>2. CASE i + 2 <= n
    <3>1. i \in 1..n /\ i + 1 \in 1..n /\ i + 2 \in 1..n
      BY <1>1, <2>2
    <3>2. d[i] = p[i] /\ d[i + 1] = p[i + 1] /\ d[i + 2] = p[i + 2]
      BY <1>4, <3>1
    <3> QED BY <1>6, <1>7, <2>1, <2>2, <3>1, <3>2
  <2>3. CASE ~(i + 2 <= n)
    <3>1. i + 2 = n + 1 /\ m = n + 1 /\ i = n - 1 /\ i + 1 = n /\ 2 <= n
      BY <1>1, <1>4, <2>1, <2>3
    <3>2. i \in 1..n /\ i + 1 \in 1..n
      BY <1>1, <3>1
    <3>3. d[i] = p[i] /\ d[i + 1] = p[i + 1]
      BY <1>4, <3>2
    <3>4. x = "r"
      BY <1>2, <1>4, <2>1, <3>1
    <3> QED BY <1>3, <2>1, <3>1, <3>3, <3>4
  <2> QED BY <2>2, <2>3
<1>8. ASSUME NEW i \in 1..n, HeadingAt(p, i), i + 2 > Len(c)
      PROVE  NewHeading(c, d)
  <2>1. i + 2 <= n /\ p[i] = "u" /\ p[i + 1] = "w" /\ p[i + 2] = "r"
    BY <1>6, <1>8
  <2>2. i + 1 \in 1..n /\ i + 2 \in 1..n /\ i + 2 <= m /\ i \in 1..m
    BY <1>1, <1>4, <2>1
  <2>3. d[i] = p[i] /\ d[i + 1] = p[i + 1] /\ d[i + 2] = p[i + 2]
    BY <1>4, <2>2
  <2> QED BY <1>6, <1>8, <2>1, <2>2, <2>3
<1>9. ASSUME x = "r", Opens(t)
      PROVE  NewHeading(c, d)
  <2> DEFINE i == n - 1
  <2>1. i \in 1..n /\ i \in 1..m /\ i + 1 = n /\ i + 2 = m /\ i + 2 > Len(c) /\ n \in 1..n
    BY <1>1, <1>3, <1>4, <1>5, <1>9
  <2>2. d[i] = p[i] /\ d[i + 1] = p[i + 1] /\ p[i] = "u" /\ p[i + 1] = "w" /\ d[i + 2] = "r"
    BY <1>2, <1>3, <1>4, <1>9, <2>1
  <2> HIDE DEF i
  <2>3. HeadingAt(d, i)
    <3>1. i + 2 <= m
      BY <1>4, <2>1
    <3> QED BY <1>6, <2>2, <3>1
  <2>4. i \in 1..m /\ i + 2 > Len(c)
    BY <2>1
  <2> QED BY <1>6, <2>3, <2>4
<1> QED BY <1>6, <1>7, <1>8, <1>9 DEF p, d

\* A heading is new in the compacted text when one ends in what was read.
LEMMA NewIff ==
    ASSUME NEW X \in Seq(Symbol), NEW y \in Seq(Symbol)
    PROVE  NewHeading(Compact(X), Compact(X \o y)) <=> \E h \in Headings(X \o y) : h > Len(X)
<1> DEFINE c == Compact(X)
           Good(r) == NewHeading(c, Compact(X \o r)) <=> \E h \in Headings(X \o r) : h > Len(X)
           G == {r \in Seq(Symbol) : Good(r)}
<1>0. Len(c) \in Nat /\ Len(X) \in Nat
  BY CompactPut, LenProperties DEF IsCompact
<1>1. <<>> \in G
  <2>1. X \o <<>> = X /\ <<>> \in Seq(Symbol)
    BY ConcatEmptySeq, EmptySeq
  <2>2. ~NewHeading(c, c)
    BY <1>0 DEF NewHeading, HeadingAt
  <2>3. ~\E h \in Headings(X) : h > Len(X)
    <3>1. Headings(X) \subseteq 1..Len(X)
      <4>1. "u" \in Symbol
        BY DEF Symbol
      <4> QED BY <4>1, HeadingsAppend
    <3> QED BY <1>0, <3>1
  <2> QED BY <2>1, <2>2, <2>3
<1>2. ASSUME NEW r \in G, NEW x \in Symbol
      PROVE  Append(r, x) \in G
  <2>1. r \in Seq(Symbol) /\ Good(r)
    OBVIOUS
  <2>2. Append(r, x) \in Seq(Symbol) /\ X \o r \in Seq(Symbol)
        /\ X \o Append(r, x) = Append(X \o r, x)
    BY <2>1, ConcatAppend
  <2> DEFINE t == X \o r
  <2>3. Len(c) <= Len(Compact(t))
    BY <2>1, CompactLonger
  <2>4. Len(t) \in Nat /\ Len(X) <= Len(t)
    <3>1. Len(t) = Len(X) + Len(r) /\ Len(r) \in Nat
      BY <2>1, ConcatProperties, LenProperties
    <3> QED BY <1>0, <3>1
  <2> HIDE DEF t, c
  <2>5. NewHeading(c, Compact(Append(t, x))) <=> NewHeading(c, Compact(t)) \/ (x = "r" /\ Opens(t))
    BY <1>0, <2>2, <2>3, NewAppend DEF t
  <2>6. \A i : i \in Headings(Append(t, x)) <=>
                 i \in Headings(t) \/ (i = Len(t) + 1 /\ x = "r" /\ Opens(t))
    BY <2>2, HeadingsAppend DEF t
  <2>7. Len(t) + 1 > Len(X)
    BY <1>0, <2>4
  <2>8. NewHeading(c, Compact(t)) <=> \E h \in Headings(t) : h > Len(X)
    BY <2>1 DEF t
  <2>9. (\E h \in Headings(Append(t, x)) : h > Len(X)) <=>
          (\E h \in Headings(t) : h > Len(X)) \/ (x = "r" /\ Opens(t))
    BY <2>6, <2>7
  <2>10. NewHeading(c, Compact(Append(t, x))) <=> \E h \in Headings(Append(t, x)) : h > Len(X)
    BY <2>5, <2>8, <2>9
  <2> QED BY <2>2, <2>10 DEF t
<1>3. G = Seq(Symbol)
  <2> HIDE DEF G
  <2>1. G \subseteq Seq(Symbol)
    BY DEF G
  <2> QED BY <1>1, <1>2, <2>1, AppendInduction
<1> QED BY <1>3

\* A text has a heading when its compacted text has one.
LEMMA HeadedIff ==
    ASSUME NEW t \in Seq(Symbol)
    PROVE  /\ Headed(Compact(t), Events(Compact(t))) <=> Headings(t) # {}
           /\ Headings(t) \subseteq 1..Len(t)
<1> DEFINE c == Compact(t)
<1>1. <<>> \in Seq(Symbol) /\ <<>> \o t = t /\ Len(<<>>) = 0
  BY ConcatEmptySeq, EmptySeq
<1>2. NewHeading(Compact(<<>>), Compact(<<>> \o t)) <=> \E h \in Headings(<<>> \o t) : h > Len(<<>>)
  BY <1>1, NewIff
<1>3. NewHeading(<<>>, c) <=> \E h \in Headings(t) : h > 0
  BY <1>1, <1>2, CompactEmpty
<1>4. Headings(t) \subseteq 1..Len(t)
  <2>1. "u" \in Symbol
    BY DEF Symbol
  <2> QED BY <2>1, HeadingsAppend
<1>5. (\E h \in Headings(t) : h > 0) <=> Headings(t) # {}
  BY <1>4
<1>6. c \in Seq(Symbol)
  BY CompactPut DEF IsCompact
<1> HIDE DEF c
<1>7. NewHeading(<<>>, c) <=> Headed(c, Events(c))
  <2>1. \A i \in 1..Len(c) : i + 2 > 0
    OBVIOUS
  <2> QED BY <1>1, <1>6, <2>1, LenProperties DEF NewHeading, Headed, Events
<1> QED BY <1>3, <1>4, <1>5, <1>7 DEF c

-----------------------------------------------------------------------------
(* The end of a text                                                       *)

\* A blank after a text adds no event to it and ends no other count.
LEMMA AmountBlank ==
    ASSUME NEW c \in Seq(Symbol), NEW i \in 1..Len(c), CountAt(c, i)
    PROVE  Amount(Append(c, "w"), i) = Amount(c, i)
<1> DEFINE d == Append(c, "w")
           n == Len(c)
           f == DigitsFrom(c, i)
           e == DigitsTo(c, i)
<1>0. "w" \in Symbol /\ "w" \notin Digit
  BY DEF Symbol, Digit
<1>1. /\ d \in Seq(Symbol) /\ n \in Nat /\ Len(d) = n + 1 /\ d[n + 1] = "w"
      /\ \A k \in 1..n : d[k] = c[k]
  BY <1>0, AppendProperties, LenProperties
<1>2. /\ f \in {i + 1, i + 2} /\ (f = i + 2 => c[i + 1] = "w")
      /\ e \in Nat /\ f <= e /\ e <= n
      /\ \A k \in f..e : c[k] \in Digit
      /\ e # n => c[e + 1] \notin Digit
  BY DigitsToIs
<1>3. i \in 1..n + 1 /\ i < n /\ i + 1 \in 1..n /\ i \in Nat
  <2> HIDE DEF f, e, n
  <2> QED BY <1>1, <1>2 DEF n
<1>4. DigitsFrom(d, i) = f
  <2>1. d[i + 1] = c[i + 1] /\ i < n + 1
    BY <1>1, <1>3
  <2> QED BY <1>1, <1>3, <2>1 DEF DigitsFrom
<1>5. CountAt(d, i)
  <2>1. f \in 1..n /\ f \in f..e /\ f <= n + 1
    BY <1>1, <1>2, <1>3
  <2>2. d[f] \in Digit /\ d[i] = c[i]
    BY <1>1, <1>2, <2>1
  <2>3. c[i] \in Summed
    BY DEF CountAt
  <2> HIDE DEF d, f, n, e
  <2> QED BY <1>1, <1>4, <2>1, <2>2, <2>3 DEF CountAt
<1>6. DigitsTo(d, i) = e
  <2>1. \A m \in Nat : /\ f <= m /\ m <= Len(d)
                       /\ \A k \in f..m : d[k] \in Digit
                       /\ m # Len(d) => d[m + 1] \notin Digit
                       => DigitsTo(d, i) = m
    BY <1>1, <1>3, <1>4, <1>5, DigitsToIs
  <2> HIDE DEF d, f, n, e
  <2>2. \A k \in f..e : k \in 1..n
    BY <1>1, <1>2, <1>3
  <2>3. d[e + 1] \notin Digit
    <3>1. CASE e = n
      BY <1>0, <1>1, <3>1
    <3>2. CASE e # n
      <4>1. e + 1 \in 1..n
        BY <1>1, <1>2, <3>2
      <4> QED BY <1>1, <1>2, <3>2, <4>1
    <3> QED BY <3>1, <3>2
  <2>4. e <= Len(d)
    BY <1>1, <1>2
  <2>5. \A k \in f..e : d[k] \in Digit
    BY <1>1, <1>2, <2>2
  <2> QED BY <1>2, <2>1, <2>3, <2>4, <2>5
<1>7. SubSeq(d, f, e) = SubSeq(c, f, e)
  <2>1. f - 1 \in Nat /\ (f - 1) + 1 = f
    BY <1>2, <1>3
  <2> HIDE DEF f, e
  <2>2. SubSeq(d, (f - 1) + 1, e) = SubSeq(c, (f - 1) + 1, e)
    BY <1>0, <1>2, <2>1, PartOfAppend
  <2> QED BY <2>1, <2>2
<1> QED BY <1>4, <1>6, <1>7 DEF Amount

\* A blank after a text leaves its events and headings.
LEMMA EventsBlank ==
    ASSUME NEW c \in Seq(Symbol)
    PROVE  LET d == Append(c, "w")
           IN /\ Events(d) = Events(c)
              /\ \A i \in Events(c) : HeadingAt(d, i) <=> HeadingAt(c, i)
<1> DEFINE d == Append(c, "w")
           n == Len(c)
<1>0. "w" \in Symbol
  BY DEF Symbol
<1>1. /\ d \in Seq(Symbol) /\ n \in Nat /\ Len(d) = n + 1 /\ d[n + 1] = "w"
      /\ \A k \in 1..n : d[k] = c[k]
  BY <1>0, AppendProperties, LenProperties
<1>2. IsPart(c, d, 0)
  <2>1. Len(c) + 0 <= Len(d) /\ \A i \in 1..n : i + 0 = i
    BY <1>1
  <2> HIDE DEF d
  <2> QED BY <1>1, <2>1 DEF IsPart
<1>3. ASSUME NEW i \in Events(c)
      PROVE  i \in Events(d) /\ (HeadingAt(d, i) <=> HeadingAt(c, i))
  <2>1. i \in 1..n /\ i + 0 = i
    BY LenProperties DEF Events
  <2>2. i + 0 \in Events(d) /\ (HeadingAt(c, i) <=> HeadingAt(d, i + 0))
    BY <1>2, <2>1, PartEvents
  <2> QED BY <2>1, <2>2
<1>4. ASSUME NEW i \in Events(d)
      PROVE  i \in Events(c)
  <2> DEFINE e == EventEnd(d, i)
  <2>1. /\ i \in 1..n + 1 /\ (HeadingAt(d, i) <=> ~CountAt(d, i))
        /\ e \in Nat /\ i < e /\ e <= n + 1 /\ d[e] # "w"
    <3>1. Len(d) = n + 1
      BY <1>1
    <3> HIDE DEF d, n
    <3>2. /\ i \in 1..Len(d) /\ (HeadingAt(d, i) <=> ~CountAt(d, i))
          /\ EventEnd(d, i) \in Nat /\ i < EventEnd(d, i) /\ EventEnd(d, i) <= Len(d)
          /\ d[EventEnd(d, i)] # "w"
      BY <1>1, <1>4, EventSpan
    <3> QED BY <3>1, <3>2
  <2>2. e <= n
    <3> HIDE DEF e, d
    <3> QED BY <1>1, <2>1
  <2>3. i \in 1..n /\ i + 1 \in 1..n /\ i < n
    <3> HIDE DEF e, n
    <3> QED BY <1>1, <2>1, <2>2
  <2>4. CASE HeadingAt(d, i)
    <3>1. i + 2 <= n
      BY <2>2, <2>4 DEF EventEnd
    <3>2. i + 2 \in 1..n
      BY <1>1, <2>3, <3>1
    <3>3. HeadingAt(c, i)
      <4>1. d[i] = "u" /\ d[i + 1] = "w" /\ d[i + 2] = "r"
        BY <2>4 DEF HeadingAt
      <4> QED BY <1>1, <2>3, <3>1, <3>2, <4>1 DEF HeadingAt
    <3> QED BY <2>3, <3>3, LenProperties DEF Events
  <2>5. CASE ~HeadingAt(d, i)
    <3>1. CountAt(d, i) /\ e = DigitsTo(d, i)
      BY <2>1, <2>5 DEF EventEnd
    <3>2. DigitsFrom(d, i) \in {i + 1, i + 2} /\ DigitsFrom(d, i) <= e
      <4>1. i \in 1..Len(d)
        BY <1>1, <2>1
      <4> HIDE DEF d, e
      <4>2. DigitsFrom(d, i) \in {i + 1, i + 2} /\ DigitsFrom(d, i) <= DigitsTo(d, i)
        BY <1>1, <3>1, <4>1, DigitsToIs
      <4> QED BY <3>1, <4>2
    <3>3. DigitsFrom(d, i) \in 1..n
      <4> HIDE DEF e, n
      <4> QED BY <1>1, <2>1, <2>2, <2>3, <3>2
    <3>4. DigitsFrom(c, i) = DigitsFrom(d, i)
      <4>1. d[i + 1] = c[i + 1] /\ i < n + 1
        BY <1>1, <2>3
      <4> QED BY <1>1, <2>3, <4>1 DEF DigitsFrom
    <3>5. d[i] \in Summed /\ d[DigitsFrom(d, i)] \in Digit
      BY <3>1 DEF CountAt
    <3>6. c[i] \in Summed /\ c[DigitsFrom(c, i)] \in Digit /\ DigitsFrom(c, i) <= n
      <4>1. d[i] = c[i] /\ d[DigitsFrom(d, i)] = c[DigitsFrom(d, i)]
        BY <1>1, <2>3, <3>3
      <4>2. DigitsFrom(d, i) <= n
        BY <1>1, <3>3
      <4> HIDE DEF d, n
      <4> QED BY <3>4, <3>5, <4>1, <4>2
    <3>7. CountAt(c, i)
      BY <3>6 DEF CountAt
    <3> QED BY <2>3, <3>7, LenProperties DEF Events
  <2> QED BY <2>4, <2>5
<1> QED BY <1>3, <1>4

\* Nor does it change what they count.
LEMMA CountsBlank ==
    ASSUME NEW k, NEW c \in Seq(Symbol)
    PROVE  CountsAfter(k, Append(c, "w"), Events(Append(c, "w"))) = CountsAfter(k, c, Events(c))
<1> DEFINE d == Append(c, "w")
           E == Events(c)
<1>0. "w" \in Symbol
  BY DEF Symbol
<1>1. /\ d \in Seq(Symbol) /\ Len(c) \in Nat /\ Len(d) = Len(c) + 1
      /\ \A i \in 1..Len(c) : d[i] = c[i]
  BY <1>0, AppendProperties, LenProperties
<1>2. Events(d) = E /\ \A i \in E : HeadingAt(d, i) <=> HeadingAt(c, i)
  BY EventsBlank
<1>3. E \subseteq 1..Len(c)
  BY LenProperties DEF Events
<1>4. ASSUME NEW i \in E
      PROVE  d[i] = c[i] /\ (c[i] \in Summed => Amount(d, i) = Amount(c, i))
  <2>1. c[i] \in Summed => CountAt(c, i)
    BY DEF Events, HeadingAt
  <2>2. i \in 1..Len(c)
    BY <1>3
  <2>3. CountAt(c, i) => Amount(d, i) = Amount(c, i)
    BY <2>2, AmountBlank
  <2> QED BY <1>1, <2>1, <2>2, <2>3
<1>5. PlacesOf(d, E) /\ PlacesOf(c, E) /\ (Headed(d, E) <=> Headed(c, E))
  <2>1. \A i \in E : i \in 1..Len(c) + 1
    BY <1>1, <1>3
  <2> HIDE DEF d, E
  <2> QED BY <1>1, <1>2, <1>3, <2>1 DEF PlacesOf, Headed
<1> HIDE DEF d, E
<1>6. ASSUME NEW x, Name(x)
      PROVE  Counted(k, d, E, x) = Counted(k, c, E, x)
  <2>1. Of(d, E, x) = Of(c, E, x)
    BY <1>2, <1>4 DEF Of
  <2>2. CASE Of(c, E, x) # {}
    <3>1. PICK m : Latest(c, E, x, m)
      BY <1>5, <2>2, LatestExists
    <3>2. Latest(d, E, x, m)
      BY <2>1, <3>1 DEF Latest
    <3>3. m \in E /\ c[m] = x
      BY <3>1 DEF Latest, Of
    <3>4. Amount(d, m) = Amount(c, m)
      BY <1>4, <1>6, <3>3 DEF Name
    <3>5. Counted(k, d, E, x) = Amount(d, m)
      BY <1>5, <1>6, <3>2, CountsLast
    <3>6. Counted(k, c, E, x) = Amount(c, m)
      BY <1>5, <1>6, <3>1, CountsLast
    <3> QED BY <3>4, <3>5, <3>6
  <2>3. CASE Of(c, E, x) = {}
    BY <1>5, <1>6, <2>1, <2>3, CountsNone
  <2> QED BY <2>2, <2>3
<1>7. CountsAfter(k, d, E) = CountsAfter(k, c, E)
  BY <1>6, CountsEqual
<1> QED BY <1>2, <1>7 DEF d, E

\* A line break after a text changes nothing of its counts, headings or whether it has one.
LEMMA CountsBreak ==
    ASSUME NEW k, NEW t \in Seq(Symbol)
    PROVE  LET c == Compact(t)
               d == Compact(Append(t, "n"))
           IN CountsAfter(k, d, Events(d)) = CountsAfter(k, c, Events(c))
<1> DEFINE c == Compact(t)
           d == Compact(Append(t, "n"))
<1>1. c \in Seq(Symbol) /\ d = Put(c, "w")
  <2>1. "n" \in Symbol /\ Sort("n") = "w"
    BY DEF Symbol, Sort, Blank
  <2> QED BY <2>1, CompactPut DEF IsCompact
<1> HIDE DEF c, d
<1>2. d = c \/ d = Append(c, "w")
  BY <1>1 DEF Put
<1>3. CountsAfter(k, d, Events(d)) = CountsAfter(k, c, Events(c))
  <2>1. CASE d = c
    BY <2>1
  <2>2. CASE d = Append(c, "w")
    BY <1>1, <2>2, CountsBlank
  <2> QED BY <1>2, <2>1, <2>2
<1> QED BY <1>3 DEF c, d

\* Two texts begin with the same n symbols.
Agree(s, t, n) ==
    /\ s \in Seq(Symbol) /\ t \in Seq(Symbol) /\ n \in Nat /\ n <= Len(s) /\ n <= Len(t)
    /\ \A k \in 1..n : s[k] = t[k]

\* Whether a heading ends or a diagnostic stands at a place depends on what is before.
LEMMA AgreeHeadings ==
    ASSUME NEW s, NEW t, NEW n, Agree(s, t, n), NEW i \in 1..n
    PROVE  i \in Headings(s) <=> i \in Headings(t)
<1>1. /\ n \in Nat /\ Len(s) \in Nat /\ Len(t) \in Nat /\ n <= Len(s) /\ n <= Len(t)
      /\ DOMAIN s = 1..Len(s) /\ DOMAIN t = 1..Len(t)
      /\ \A k \in 1..n : s[k] = t[k]
  BY LenProperties DEF Agree
<1>2. i \in DOMAIN s /\ i \in DOMAIN t /\ s[i] = t[i]
  BY <1>1
<1>3. \A j \in 1..i - 2 : j \in 1..n /\ \A k \in j + 1..i - 1 : k \in 1..n
  BY <1>1
<1> QED BY <1>1, <1>2, <1>3 DEF Headings

\* The same of a diagnostic.
LEMMA AgreeDiagnostic ==
    ASSUME NEW s, NEW t, NEW n, NEW mk, Agree(s, t, n), NEW i \in 1..n + 1
    PROVE  Diagnostic(s, i, mk) <=> Diagnostic(t, i, mk)
<1>1. n \in Nat /\ \A k \in 1..n : s[k] = t[k]
  BY DEF Agree
<1>2. \A j \in 1..i - 1 : /\ j \in 1..n
                          /\ \A k \in j..i - 1 : k \in 1..n
                          /\ \A k \in 1..j - 1 : k \in 1..n /\ \A l \in k..j - 1 : l \in 1..n
  BY <1>1
<1> QED BY <1>1, <1>2 DEF Diagnostic

\* A text and what follows it agree on the text.
LEMMA AgreeConcat ==
    ASSUME NEW X \in Seq(Symbol), NEW y \in Seq(Symbol)
    PROVE  /\ X \o y \in Seq(Symbol) /\ Len(X) \in Nat /\ Len(y) \in Nat
           /\ Len(X \o y) = Len(X) + Len(y)
           /\ Agree(X, X \o y, Len(X))
           /\ \A k \in 1..Len(X) : (X \o y)[k] = X[k]
           /\ \A k \in 1..Len(y) : (X \o y)[Len(X) + k] = y[k]
<1> DEFINE n == Len(X)
           m == Len(y)
           z == X \o y
<1>1. /\ z \in Seq(Symbol) /\ n \in Nat /\ m \in Nat /\ Len(z) = n + m
      /\ \A i \in 1..n + m : z[i] = IF i <= n THEN X[i] ELSE y[i - n]
  BY ConcatProperties, LenProperties
<1> HIDE DEF n, m, z
<1>2. \A k \in 1..n : k \in 1..n + m /\ k <= n
  BY <1>1
<1>3. \A k \in 1..m : n + k \in 1..n + m /\ ~(n + k <= n) /\ (n + k) - n = k
  BY <1>1
<1>4. \A k \in 1..n : z[k] = X[k]
  BY <1>1, <1>2
<1>5. \A k \in 1..m : z[n + k] = y[k]
  BY <1>1, <1>3
<1>6. Agree(X, z, n)
  <2>1. n <= Len(X) /\ n <= Len(z)
    BY <1>1 DEF n
  <2> QED BY <1>1, <1>4, <2>1 DEF Agree
<1> QED BY <1>1, <1>4, <1>5, <1>6 DEF n, m, z

-----------------------------------------------------------------------------
(* The beginning of a line                                                 *)

\* The first symbol of q that is no blank is at place f.
Leads(q, f) == f \in 1..Len(q) /\ q[f] \notin Blank /\ \A k \in 1..f - 1 : q[k] \in Blank

AllBlank(q) == \A k \in 1..Len(q) : q[k] \in Blank

\* A compacted text begins with y, but for a blank.
Shows(c, y) ==
    \/ 1 <= Len(c) /\ c[1] = y
    \/ 2 <= Len(c) /\ c[1] = "w" /\ c[2] = y

LeadShown(q) ==
    /\ AllBlank(q) => Compact(q) \in {<<>>, <<"w">>}
    /\ \A f : Leads(q, f) => Shows(Compact(q), q[f])

\* A sequence of one and one of two that begins with it.
LEMMA PairAppend ==
    ASSUME NEW S, NEW y \in S, NEW r \in Seq(S), Len(r) = 1, NEW t \in Seq(S), Len(t) = 2,
           t[1] = r[1], t[2] = y
    PROVE  Append(r, y) = t
<1>1. /\ Append(r, y) \in Seq(S) /\ Len(Append(r, y)) = Len(r) + 1 /\ Append(r, y)[Len(r) + 1] = y
      /\ \A i \in 1..Len(r) : Append(r, y)[i] = r[i]
  <2>1. \A u \in Seq(S) : /\ Append(u, y) \in Seq(S) /\ Len(Append(u, y)) = Len(u) + 1
                           /\ Append(u, y)[Len(u) + 1] = y
                           /\ \A i \in 1..Len(u) : Append(u, y)[i] = u[i]
    BY LenProperties, AppendProperties
  <2> QED BY <2>1
<1> DEFINE a == Append(r, y)
<1>2. a \in Seq(S) /\ Len(a) = 2 /\ a[1] = r[1] /\ a[2] = y
  BY <1>1
<1> HIDE DEF a
<1>3. \A i \in 1..2 : a[i] = t[i]
  <2>1. \A i \in 1..2 : i = 1 \/ i = 2
    OBVIOUS
  <2> QED BY <1>2, <2>1
<1>4. a = t
  BY <1>2, <1>3, SeqEqual
<1> QED BY <1>4 DEF a

\* Appending a symbol to a text and to what it begins with.
LEMMA LeadAfter ==
    ASSUME NEW q \in Seq(Symbol), LeadShown(q), NEW x \in Symbol
    PROVE  LeadShown(Append(q, x))
<1> DEFINE s == Append(q, x)
           n == Len(q)
           c == Compact(q)
           d == Compact(s)
<1>1. /\ n \in Nat /\ Len(s) = n + 1 /\ s[n + 1] = x
      /\ \A k \in 1..n : s[k] = q[k]
  BY LenProperties, AppendProperties
<1>2. IsCompact(c) /\ c \in Seq(Symbol) /\ d = Put(c, Sort(x))
  BY CompactPut DEF IsCompact
<1>3. Sort(x) \in Symbol /\ Sort(x) # "n" /\ (x \in Blank => Sort(x) = "w")
      /\ (x \notin Blank => Sort(x) = x /\ x # "w")
  BY SortFacts DEF Blank
<1>4. /\ AllBlank(q) => c = <<>> \/ c = <<"w">>
      /\ \A f : Leads(q, f) => Shows(c, q[f])
  BY DEF LeadShown
<1>5. AllBlank(s) => AllBlank(q) /\ x \in Blank
  <2>1. n + 1 \in 1..n + 1 /\ \A k \in 1..n : k \in 1..n + 1
    BY <1>1
  <2> HIDE DEF s
  <2> QED BY <1>1, <2>1 DEF AllBlank
<1>6. ASSUME NEW f, Leads(s, f)
      PROVE  (f \in 1..n /\ Leads(q, f)) \/ (f = n + 1 /\ AllBlank(q) /\ x \notin Blank)
  <2>1. f \in 1..n + 1 /\ s[f] \notin Blank /\ \A k \in 1..f - 1 : s[k] \in Blank
    BY <1>1, <1>6 DEF Leads
  <2> HIDE DEF s
  <2>2. CASE f \in 1..n
    <3>1. \A k \in 1..f - 1 : k \in 1..n
      BY <1>1, <2>2
    <3> QED BY <1>1, <2>1, <2>2, <3>1 DEF Leads
  <2>3. CASE f = n + 1
    <3>1. f - 1 = n
      BY <1>1, <2>3
    <3> QED BY <1>1, <2>1, <2>3, <3>1 DEF AllBlank
  <2>4. f \in 1..n \/ f = n + 1
    BY <1>1, <2>1
  <2> QED BY <2>2, <2>3, <2>4
<1>7. \A y : Put(<<>>, y) = <<y>> /\ Len(<<y>>) = 1 /\ <<y>>[1] = y
  <2>1. \A y : Append(<<>>, y) = <<y>>
    OBVIOUS
  <2> QED BY <2>1 DEF Put
<1>8. /\ Put(<<"w">>, "w") = <<"w">>
      /\ \A y : y # "w" => Put(<<"w">>, y) = <<"w", y>>
      /\ \A y : Len(<<"w", y>>) = 2 /\ <<"w", y>>[1] = "w" /\ <<"w", y>>[2] = y
  <2>1. \A y : Append(<<"w">>, y) = <<"w", y>>
    <3> TAKE y
    <3>1. /\ "w" \in {"w", y} /\ y \in {"w", y}
          /\ <<"w">> \in Seq({"w", y}) /\ Len(<<"w">>) = 1 /\ <<"w">>[1] = "w"
          /\ <<"w", y>> \in Seq({"w", y}) /\ Len(<<"w", y>>) = 2
          /\ <<"w", y>>[1] = "w" /\ <<"w", y>>[2] = y
      OBVIOUS
    <3> QED BY <3>1, PairAppend
  <2> QED BY <2>1 DEF Put
<1>9. d \in {<<>>, <<"w">>} \/ ~AllBlank(s)
  <2> HIDE DEF c, d, s
  <2> QED BY <1>2, <1>3, <1>4, <1>5, <1>7, <1>8
<1>10. ASSUME NEW f, Leads(s, f)
       PROVE  Shows(d, s[f])
  <2> HIDE DEF c, d, s, n
  <2>1. CASE f \in 1..n /\ Leads(q, f)
    <3>1. Shows(c, q[f]) /\ s[f] = q[f]
      BY <1>1, <1>4, <2>1
    <3>2. Len(d) \in {Len(c), Len(c) + 1} /\ \A i \in 1..Len(c) : d[i] = c[i]
      BY <1>2, <1>3, PutFacts
    <3>3. Len(c) \in Nat
      BY <1>2, LenProperties
    <3>4. 1 <= Len(c) => 1 \in 1..Len(c) /\ 1 <= Len(d)
      BY <3>2, <3>3
    <3>5. 2 <= Len(c) => 1 \in 1..Len(c) /\ 2 \in 1..Len(c) /\ 2 <= Len(d)
      BY <3>2, <3>3
    <3> QED BY <3>1, <3>2, <3>4, <3>5 DEF Shows
  <2>2. CASE f = n + 1 /\ AllBlank(q) /\ x \notin Blank
    <3>1. s[f] = x /\ Sort(x) = x /\ x # "w"
      BY <1>1, <1>3, <2>2
    <3>2. d = <<x>> \/ d = <<"w", x>>
      BY <1>2, <1>4, <1>7, <1>8, <2>2, <3>1
    <3>3. CASE d = <<x>>
      <4>1. Len(d) = 1 /\ d[1] = x
        BY <1>7, <3>3
      <4> QED BY <3>1, <4>1 DEF Shows
    <3>4. CASE d = <<"w", x>>
      <4>1. Len(d) = 2 /\ d[1] = "w" /\ d[2] = x
        BY <1>8, <3>4
      <4> QED BY <3>1, <4>1 DEF Shows
    <3> QED BY <3>2, <3>3, <3>4
  <2> QED BY <1>6, <1>10, <2>1, <2>2
<1> QED BY <1>9, <1>10 DEF LeadShown

\* A compacted text begins with its first symbol that is no blank, but for a blank.
LEMMA LeadStays ==
    ASSUME NEW q \in Seq(Symbol)
    PROVE  LeadShown(q)
<1> DEFINE G == {s \in Seq(Symbol) : LeadShown(s)}
<1>1. <<>> \in G
  <2>1. <<>> \in Seq(Symbol) /\ Len(<<>>) = 0
    BY EmptySeq
  <2>2. \A f : ~Leads(<<>>, f)
    BY <2>1 DEF Leads
  <2> QED BY <2>1, <2>2, CompactEmpty DEF LeadShown
<1>2. ASSUME NEW s \in G, NEW x \in Symbol
      PROVE  Append(s, x) \in G
  BY LeadAfter, AppendProperties
<1>3. G = Seq(Symbol)
  <2> HIDE DEF G
  <2>1. G \subseteq Seq(Symbol)
    BY DEF G
  <2> QED BY <1>1, <1>2, <2>1, AppendInduction
<1> QED BY <1>3

\* What is kept of the beginning of a line.
LEMMA StripFacts ==
    ASSUME NEW q \in Seq(Symbol)
    PROVE  /\ Strip(Compact(q)) \in Seq(Symbol)
           /\ AllBlank(q) => Strip(Compact(q)) = <<>>
           /\ \A f : Leads(q, f) => Strip(Compact(q)) # <<>> /\ Strip(Compact(q))[1] = q[f]
<1> DEFINE c == Compact(q)
<1>1. c \in Seq(Symbol) /\ Len(c) \in Nat /\ Len(<<>>) = 0
  <2>1. c \in Seq(Symbol)
    BY CompactPut DEF IsCompact
  <2> HIDE DEF c
  <2> QED BY <2>1, LenProperties, EmptySeq
<1>2. LeadShown(q)
  BY LeadStays
<1> HIDE DEF c
<1>3. c # <<>> => /\ Tail(c) \in Seq(Symbol) /\ Len(Tail(c)) = Len(c) - 1
                  /\ \A i \in 1..Len(c) - 1 : Tail(c)[i] = c[i + 1]
  BY <1>1, HeadTailProperties
<1>4. Strip(c) \in Seq(Symbol)
  BY <1>1, <1>3 DEF Strip
<1>5. AllBlank(q) => Strip(c) = <<>>
  <2>1. AllBlank(q) => c = <<>> \/ c = <<"w">>
    BY <1>2 DEF LeadShown, c
  <2>2. Strip(<<>>) = <<>> /\ Strip(<<"w">>) = <<>>
    BY DEF Strip
  <2> QED BY <2>1, <2>2
<1>6. ASSUME NEW f, Leads(q, f)
      PROVE  Strip(c) # <<>> /\ Strip(c)[1] = q[f]
  <2>1. Shows(c, q[f]) /\ q[f] \notin Blank
    BY <1>2, <1>6 DEF LeadShown, Leads, c
  <2>2. CASE 1 <= Len(c) /\ c[1] = q[f]
    <3>1. c # <<>> /\ c[1] # "w"
      BY <1>1, <2>1, <2>2 DEF Blank
    <3> QED BY <2>2, <3>1 DEF Strip
  <2>3. CASE 2 <= Len(c) /\ c[1] = "w" /\ c[2] = q[f]
    <3>1. c # <<>> /\ 1 \in 1..Len(c) - 1
      BY <1>1, <2>3
    <3>2. Strip(c) = Tail(c) /\ Tail(c)[1] = c[1 + 1] /\ Len(Tail(c)) # 0
      BY <1>1, <1>3, <2>3, <3>1 DEF Strip
    <3>3. 1 + 1 = 2
      OBVIOUS
    <3>4. Strip(c)[1] = q[f]
      BY <2>3, <3>2, <3>3
    <3>5. Strip(c) # <<>>
      BY <1>1, <3>2
    <3> QED BY <3>4, <3>5
  <2> QED BY <2>1, <2>2, <2>3 DEF Shows
<1> QED BY <1>4, <1>5, <1>6 DEF c

\* The last line of X has nothing but blanks; it begins at place j, after blanks.
LineBlank(X) == \A k \in 1..Len(X) : X[k] = "w" \/ \E l \in k..Len(X) : X[l] = "n"
LineLeads(X, j) ==
    /\ j \in 1..Len(X) /\ X[j] \notin Blank
    /\ \A k \in j..Len(X) : X[k] # "n"
    /\ \A k \in 1..j - 1 : X[k] = "w" \/ \E l \in k..j - 1 : X[l] = "n"

\* p is what the scan keeps of the last line of X.
Prefixed(p, X) ==
    /\ p \in Seq(Symbol)
    /\ \/ p = <<>> /\ LineBlank(X)
       \/ p # <<>> /\ \E j \in 1..Len(X) : LineLeads(X, j) /\ p[1] = X[j]

\* Nothing of y ends a line.
NoBreak(y) == y \in Seq(Symbol) /\ \A k \in 1..Len(y) : y[k] # "n"

\* A line has one beginning, and a diagnostic is one by what it begins with.
LEMMA PrefixTells ==
    ASSUME NEW X \in Seq(Symbol), NEW p, Prefixed(p, X), NEW mk \in Mark
    PROVE  p # <<>> /\ p[1] = mk <=> Diagnostic(X, Len(X) + 1, mk)
<1> DEFINE n == Len(X)
<1>1. n \in Nat /\ (n + 1) - 1 = n
  BY LenProperties
<1>2. Diagnostic(X, n + 1, mk) <=> \E j \in 1..n : X[j] = mk /\ LineLeads(X, j)
  BY <1>1 DEF Diagnostic, LineLeads, Blank, Mark
<1>3. CASE p = <<>> /\ LineBlank(X)
  <2>1. \A j \in 1..n : X[j] = mk => ~LineLeads(X, j)
    BY <1>3 DEF LineBlank, LineLeads, Blank, Mark
  <2> QED BY <1>2, <1>3, <2>1
<1>4. ASSUME p # <<>>, NEW j \in 1..n, LineLeads(X, j), p[1] = X[j]
      PROVE  p # <<>> /\ p[1] = mk <=> Diagnostic(X, n + 1, mk)
  <2>1. ASSUME NEW i \in 1..n, NEW k \in 1..n, LineLeads(X, i), LineLeads(X, k), i < k
        PROVE  FALSE
    <3>1. i \in 1..k - 1 /\ \A l \in i..k - 1 : l \in i..n
      BY <1>1, <2>1
    <3> HIDE DEF n
    <3>2. X[i] = "w" \/ \E l \in i..k - 1 : X[l] = "n"
      BY <2>1, <3>1 DEF LineLeads
    <3>3. X[i] \notin Blank /\ \A l \in i..n : X[l] # "n"
      BY <2>1 DEF LineLeads, n
    <3> QED BY <3>1, <3>2, <3>3 DEF Blank
  <2>2. \A i \in 1..n : LineLeads(X, i) => i = j
    <3> TAKE i \in 1..n
    <3>1. i < j \/ j < i \/ i = j
      BY <1>1
    <3> QED BY <1>4, <2>1, <3>1
  <2> QED BY <1>2, <1>4, <2>2
<1> QED BY <1>3, <1>4 DEF Prefixed

\* What the scan keeps of a line when more of it is read.
LEMMA PrefixStep ==
    ASSUME NEW X \in Seq(Symbol), NEW p, Prefixed(p, X), NEW y, NoBreak(y)
    PROVE  Prefixed(Strip(Compact(p \o y)), X \o y)
<1> DEFINE q == p \o y
           Z == X \o y
           n == Len(X)
           m == Len(y)
           r == Strip(Compact(q))
<1>1. p \in Seq(Symbol) /\ y \in Seq(Symbol)
      /\ \A k \in 1..m : y[k] # "n" /\ (y[k] \in Blank => y[k] = "w")
  BY DEF Prefixed, NoBreak, Blank
<1>2. /\ Z \in Seq(Symbol) /\ n \in Nat /\ m \in Nat /\ Len(Z) = n + m
      /\ \A k \in 1..n : Z[k] = X[k]
      /\ \A k \in 1..m : Z[n + k] = y[k]
  BY <1>1, AgreeConcat
<1>3. /\ q \in Seq(Symbol) /\ Len(p) \in Nat /\ Len(q) = Len(p) + m
      /\ \A k \in 1..Len(p) : q[k] = p[k]
      /\ \A k \in 1..m : q[Len(p) + k] = y[k]
  BY <1>1, AgreeConcat
<1>4. /\ r \in Seq(Symbol)
      /\ AllBlank(q) => r = <<>>
      /\ \A f : Leads(q, f) => r # <<>> /\ r[1] = q[f]
  BY <1>3, StripFacts
<1>5. p = <<>> => q = y
  BY <1>1, ConcatEmptySeq
<1> HIDE DEF q, Z, r
<1>6. \A k \in 1..n + m : k \in 1..n \/ (k - n \in 1..m /\ k = n + (k - n))
  BY <1>2
<1> HIDE DEF n, m
<1>7. \A k \in 1..n + m : ~(k <= n) => Z[k] # "n" /\ k - n \in 1..m /\ Z[k] = y[k - n]
  <2> TAKE k \in 1..n + m
  <2>1. ~(k <= n) => k - n \in 1..m /\ Z[n + (k - n)] = y[k - n] /\ k = n + (k - n)
    BY <1>2, <1>6
  <2> QED BY <1>1, <2>1
<1>8. ASSUME p = <<>>, LineBlank(X), AllBlank(y)
      PROVE  Prefixed(r, Z)
  <2>1. r = <<>>
    BY <1>4, <1>5, <1>8
  <2>2. LineBlank(Z)
    <3>1. \A k \in 1..n : X[k] = "w" \/ \E l \in k..n : X[l] = "n"
      BY <1>8 DEF LineBlank, n
    <3>2. ASSUME NEW k \in 1..n + m
          PROVE  Z[k] = "w" \/ \E l \in k..n + m : Z[l] = "n"
      <4>1. CASE k \in 1..n
        <5>1. \A l \in k..n : l \in k..n + m /\ l \in 1..n
          BY <1>2, <4>1
        <5> QED BY <1>2, <3>1, <4>1, <5>1
      <4>2. CASE ~(k <= n)
        <5>1. k - n \in 1..m /\ Z[k] = y[k - n]
          BY <1>7, <4>2
        <5>2. y[k - n] \in Blank
          BY <1>8, <5>1 DEF AllBlank, m
        <5> QED BY <1>1, <5>1, <5>2 DEF m
      <4> QED BY <1>2, <4>1, <4>2
    <3> QED BY <1>2, <3>2 DEF LineBlank
  <2>3. r \in Seq(Symbol)
    BY <1>4
  <2> QED BY <2>1, <2>2, <2>3 DEF Prefixed
<1>9. ASSUME p = <<>>, LineBlank(X), NEW f, Leads(y, f)
      PROVE  Prefixed(r, Z)
  <2>1. r # <<>> /\ r[1] = y[f]
    BY <1>4, <1>5, <1>9
  <2>2. f \in 1..m /\ y[f] \notin Blank /\ \A k \in 1..f - 1 : y[k] \in Blank
    BY <1>9 DEF Leads, m
  <2> DEFINE j == n + f
  <2>3. j \in 1..n + m /\ Z[j] = y[f]
    <3>1. j \in 1..n + m /\ ~(j <= n) /\ j - n = f
      BY <1>2, <2>2
    <3> HIDE DEF j
    <3> QED BY <1>7, <3>1
  <2>4. \A k \in j..n + m : k \in 1..n + m /\ ~(k <= n)
    BY <1>2, <2>2
  <2>5. \A k \in 1..j - 1 : Z[k] = "w" \/ \E l \in k..j - 1 : Z[l] = "n"
    <3> TAKE k \in 1..j - 1
    <3>1. CASE k \in 1..n
      <4>1. X[k] = "w" \/ \E l \in k..n : X[l] = "n"
        BY <1>9, <3>1 DEF LineBlank, n
      <4>2. \A l \in k..n : l \in k..j - 1 /\ l \in 1..n
        BY <1>2, <2>2, <3>1
      <4> QED BY <1>2, <3>1, <4>1, <4>2
    <3>2. CASE ~(k <= n)
      <4>1. k - n \in 1..f - 1 /\ k - n \in 1..m /\ k \in 1..n + m
        BY <1>2, <2>2, <3>2
      <4>2. Z[k] = y[k - n] /\ y[k - n] \in Blank
        BY <1>7, <2>2, <3>2, <4>1
      <4> QED BY <1>1, <4>1, <4>2 DEF m
    <3> QED BY <1>2, <2>2, <3>1, <3>2
  <2>6. LineLeads(Z, j)
    <3> HIDE DEF j
    <3> QED BY <1>2, <1>7, <2>2, <2>3, <2>4, <2>5 DEF LineLeads
  <2> QED BY <1>2, <1>4, <2>1, <2>3, <2>6 DEF Prefixed
<1>10. ASSUME p # <<>>, NEW j \in 1..n, LineLeads(X, j), p[1] = X[j]
       PROVE  Prefixed(r, Z)
  <2>1. /\ X[j] \notin Blank
        /\ \A k \in j..n : X[k] # "n"
        /\ \A k \in 1..j - 1 : X[k] = "w" \/ \E l \in k..j - 1 : X[l] = "n"
    BY <1>10 DEF LineLeads, n
  <2>2. Leads(q, 1)
    <3>1. Len(p) # 0
      BY <1>1, <1>10, EmptySeq
    <3>2. 1 \in 1..Len(p) /\ 1 \in 1..Len(p) + m /\ 1..1 - 1 = {}
      BY <1>2, <1>3, <3>1
    <3>3. q[1] = p[1] /\ 1 \in 1..Len(q)
      BY <1>3, <3>2 DEF m
    <3> QED BY <1>10, <2>1, <3>2, <3>3 DEF Leads
  <2>3. r # <<>> /\ r[1] = X[j]
    <3>1. Len(p) # 0
      BY <1>1, <1>10, EmptySeq
    <3>2. 1 \in 1..Len(p)
      BY <1>3, <3>1
    <3> QED BY <1>3, <1>4, <1>10, <2>2, <3>2
  <2>4. j \in 1..n + m /\ Z[j] = X[j]
    BY <1>2
  <2>5. \A k \in j..n + m : Z[k] # "n"
    <3> TAKE k \in j..n + m
    <3>1. k \in 1..n + m /\ (k <= n => k \in j..n /\ k \in 1..n)
      BY <1>2
    <3> QED BY <1>2, <1>7, <2>1, <3>1
  <2>6. \A k \in 1..j - 1 : k \in 1..n /\ \A l \in k..j - 1 : l \in 1..n
    BY <1>2
  <2>7. LineLeads(Z, j)
    BY <1>2, <2>1, <2>4, <2>5, <2>6 DEF LineLeads
  <2> QED BY <1>2, <1>4, <2>3, <2>4, <2>7 DEF Prefixed
<1>11. AllBlank(y) \/ \E f : Leads(y, f)
  <2> DEFINE T == {k \in 1..m : y[k] \notin Blank}
  <2>1. SUFFICES ASSUME T # {}
                 PROVE  \E f : Leads(y, f)
    BY DEF AllBlank, m
  <2>2. T \subseteq Nat
    OBVIOUS
  <2>3. PICK f \in T : \A k \in T : f <= k
    <3> HIDE DEF T
    <3> QED BY <2>1, <2>2, LeastExists
  <2>4. \A k \in 1..f - 1 : k \in 1..m /\ ~(f <= k)
    BY <1>2
  <2>5. Leads(y, f)
    BY <2>3, <2>4 DEF Leads, m
  <2> QED BY <2>5
<1>12. Prefixed(r, Z)
  <2>1. \/ p = <<>> /\ LineBlank(X)
        \/ p # <<>> /\ \E j \in 1..n : LineLeads(X, j) /\ p[1] = X[j]
    BY DEF Prefixed, n
  <2>2. CASE p = <<>> /\ LineBlank(X)
    BY <1>8, <1>9, <1>11, <2>2
  <2> QED BY <1>10, <2>1, <2>2
<1> QED BY <1>12 DEF r, Z, q

\* Where the lines of X end that are diagnostics mk after its last heading.
Errs(X, mk) ==
    {i \in 1..Len(X) : X[i] = "n" /\ Diagnostic(X, i, mk) /\ \A h \in Headings(X) : h < i}

\* The diagnostics are finitely many, and headings are places of the text.
LEMMA ErrsCount ==
    ASSUME NEW X \in Seq(Symbol), NEW mk
    PROVE  /\ Errs(X, mk) \subseteq 1..Len(X) /\ Len(X) \in Nat
           /\ IsFiniteSet(Errs(X, mk)) /\ Cardinality(Errs(X, mk)) \in Nat
           /\ Headings(X) \subseteq 1..Len(X)
<1>1. Errs(X, mk) \subseteq 1..Len(X) /\ Len(X) \in Nat
  BY LenProperties DEF Errs
<1>2. IsFiniteSet(1..Len(X))
  BY <1>1, FS_Interval
<1>3. IsFiniteSet(Errs(X, mk))
  BY <1>1, <1>2, FS_Subset
<1> QED BY <1>1, <1>3, FS_CardinalityType, HeadedIff

\* More of a line ends none; a heading in it clears what was counted.
LEMMA ErrsStep ==
    ASSUME NEW X \in Seq(Symbol), NEW y, NoBreak(y), NEW mk
    PROVE  Cardinality(Errs(X \o y, mk)) =
             IF \E h \in Headings(X \o y) : h > Len(X) THEN 0 ELSE Cardinality(Errs(X, mk))
<1> DEFINE Z == X \o y
           n == Len(X)
           m == Len(y)
<1>1. y \in Seq(Symbol) /\ \A k \in 1..m : y[k] # "n"
  BY DEF NoBreak
<1>2. /\ Z \in Seq(Symbol) /\ n \in Nat /\ m \in Nat /\ Len(Z) = n + m
      /\ Agree(X, Z, n)
      /\ \A k \in 1..n : Z[k] = X[k]
      /\ \A k \in 1..m : Z[n + k] = y[k]
  BY <1>1, AgreeConcat
<1>3. Headings(Z) \subseteq 1..n + m /\ Headings(X) \subseteq 1..n
  BY <1>2, HeadedIff
<1>4. /\ \A i : i \in Errs(Z, mk) <=> /\ i \in 1..n + m /\ Z[i] = "n" /\ Diagnostic(Z, i, mk)
                                  /\ \A h \in Headings(Z) : h < i
      /\ \A i : i \in Errs(X, mk) <=> /\ i \in 1..n /\ X[i] = "n" /\ Diagnostic(X, i, mk)
                                  /\ \A h \in Headings(X) : h < i
  BY <1>2 DEF Errs
<1> HIDE DEF Z, n, m
<1>5. \A i \in 1..n : /\ i \in Headings(X) <=> i \in Headings(Z)
                      /\ Diagnostic(X, i, mk) <=> Diagnostic(Z, i, mk)
  <2>1. \A i \in 1..n : i \in 1..n + 1
    BY <1>2
  <2> QED BY <1>2, <2>1, AgreeHeadings, AgreeDiagnostic
<1>6. ASSUME NEW i \in 1..n + m, Z[i] = "n"
      PROVE  i \in 1..n
  <2>1. SUFFICES ASSUME ~(i <= n)
                 PROVE  FALSE
    BY <1>2
  <2>2. i - n \in 1..m /\ n + (i - n) = i
    BY <1>2, <2>1
  <2>3. Z[n + (i - n)] = y[i - n]
    BY <1>2, <2>2
  <2> QED BY <1>1, <1>6, <2>2, <2>3 DEF m
<1>7. CASE \E h \in Headings(Z) : h > n
  <2>1. PICK h \in Headings(Z) : h > n
    BY <1>7
  <2>2. \A i \in 1..n : ~(h < i)
    BY <1>2, <1>3, <2>1
  <2>3. Errs(Z, mk) = {}
    BY <1>4, <1>6, <2>1, <2>2
  <2>4. Cardinality(Errs(Z, mk)) = 0
    BY <2>3, FS_EmptySet
  <2> QED BY <1>7, <2>4 DEF Z, n
<1>8. CASE ~\E h \in Headings(Z) : h > n
  <2>1. Headings(Z) = Headings(X)
    <3>1. \A h \in Headings(Z) : h \in 1..n
      BY <1>2, <1>3, <1>8
    <3> QED BY <1>3, <1>5, <3>1
  <2>2. \A i : i \in Errs(Z, mk) <=> i \in Errs(X, mk)
    <3> TAKE i
    <3>1. i \in 1..n => i \in 1..n + m /\ Z[i] = X[i]
      BY <1>2
    <3> QED BY <1>4, <1>5, <1>6, <2>1, <3>1
  <2>3. Errs(Z, mk) = Errs(X, mk)
    BY <2>2
  <2> QED BY <1>8, <2>3 DEF Z, n
<1> QED BY <1>7, <1>8

\* A line break has the same headings before it, and ends a diagnostic or none.
LEMMA ErrsBreak ==
    ASSUME NEW X \in Seq(Symbol), NEW mk
    PROVE  LET Z == Append(X, "n")
           IN /\ Headings(Z) = Headings(X)
              /\ Errs(Z, mk) = Diagnostics(X, mk)
              /\ Cardinality(Errs(Z, mk)) =
                   Cardinality(Errs(X, mk)) + IF Diagnostic(X, Len(X) + 1, mk) THEN 1 ELSE 0
<1> DEFINE Z == Append(X, "n")
           n == Len(X)
<1>0. "n" \in Symbol /\ "n" # "r"
  BY DEF Symbol
<1>1. /\ Z \in Seq(Symbol) /\ n \in Nat /\ Len(Z) = n + 1 /\ Z[n + 1] = "n"
      /\ \A k \in 1..n : Z[k] = X[k]
      /\ DOMAIN X = 1..n
  BY <1>0, AppendProperties, LenProperties
<1>2. Headings(Z) = Headings(X)
  BY <1>0, HeadingsAppend
<1>3. Headings(X) \subseteq 1..n
  BY HeadedIff
<1> HIDE DEF Z
<1>4. Agree(X, Z, n)
  <2>1. n <= Len(X) /\ n <= Len(Z)
    BY <1>1
  <2> QED BY <1>1, <2>1 DEF Agree
<1>5. \A i \in 1..n + 1 : Diagnostic(X, i, mk) <=> Diagnostic(Z, i, mk)
  BY <1>4, AgreeDiagnostic
<1>6. \A i : i \in Errs(Z, mk) <=> /\ i \in 1..n + 1 /\ Z[i] = "n" /\ Diagnostic(Z, i, mk)
                               /\ \A h \in Headings(X) : h < i
  BY <1>1, <1>2 DEF Errs
<1>7. /\ \A i : i \in Errs(X, mk) <=> /\ i \in 1..n /\ X[i] = "n" /\ Diagnostic(X, i, mk)
                                  /\ \A h \in Headings(X) : h < i
      /\ \A i : i \in Diagnostics(X, mk) <=> /\ (i \in 1..n /\ X[i] = "n") \/ i = n + 1
                                    /\ Diagnostic(X, i, mk)
                                    /\ \A h \in Headings(X) : h < i
  BY <1>1 DEF Errs, Diagnostics
<1> HIDE DEF n
<1>8. \A i : i \in 1..n + 1 <=> i \in 1..n \/ i = n + 1
  BY <1>1
<1>9. \A h \in Headings(X) : h < n + 1
  BY <1>1, <1>3
<1>10. n + 1 \notin 1..n
  BY <1>1
<1>11. \A i : i \in Errs(Z, mk) <=> i \in Diagnostics(X, mk)
  BY <1>1, <1>5, <1>6, <1>7, <1>8
<1>12. Errs(Z, mk) = Diagnostics(X, mk)
  BY <1>11
<1>13. \A i : i \in Errs(Z, mk) <=> i \in Errs(X, mk) \/ (i = n + 1 /\ Diagnostic(X, n + 1, mk))
  BY <1>1, <1>5, <1>6, <1>7, <1>8, <1>9
<1>14. IsFiniteSet(Errs(X, mk)) /\ Cardinality(Errs(X, mk)) \in Nat
  BY ErrsCount
<1>15. Cardinality(Errs(Z, mk)) = Cardinality(Errs(X, mk)) + IF Diagnostic(X, n + 1, mk) THEN 1 ELSE 0
  <2>1. CASE Diagnostic(X, n + 1, mk)
    <3>1. Errs(Z, mk) = Errs(X, mk) \cup {n + 1} /\ n + 1 \notin Errs(X, mk)
      BY <1>7, <1>10, <1>13, <2>1
    <3>2. Cardinality(Errs(X, mk) \cup {n + 1}) = Cardinality(Errs(X, mk)) + 1
      BY <1>14, <3>1, FS_AddElement
    <3> QED BY <2>1, <3>1, <3>2
  <2>2. CASE ~Diagnostic(X, n + 1, mk)
    <3>1. Errs(Z, mk) = Errs(X, mk)
      BY <1>13, <2>2
    <3> QED BY <1>14, <2>2, <3>1
  <2> QED BY <2>1, <2>2
<1> QED BY <1>2, <1>12, <1>15 DEF Z, n

\* The scan stands where reading X brings it.
Scanned(sc, X) ==
    /\ X \in Seq(Symbol) /\ IsScan(sc)
    /\ \E b : Fed(sc, X, b)
    /\ Prefixed(sc.prefix, X)
    /\ sc.found = [m \in Mark |-> Cardinality(Errs(X, m))]

\* A scan after another: its diagnostics, prefix and place.
Changes(sc, r, e, p, a, z) ==
    /\ IsScan(r)
    /\ r.counts = sc.counts /\ r.reports = sc.reports /\ r.pending = sc.pending
    /\ r.found = e /\ r.prefix = p /\ r.at = a /\ r.size = z

\* A change of the diagnostics and the prefix, of the place, or of the size.
LEMMA ScanChanges ==
    ASSUME NEW sc, IsScan(sc)
    PROVE  /\ \A e, p : Changes(sc, [sc EXCEPT !.found = e, !.prefix = p], e, p, sc.at, sc.size)
           /\ \A a : Changes(sc, [sc EXCEPT !.at = a], sc.found, sc.prefix, a, sc.size)
           /\ \A z : Changes(sc, [sc EXCEPT !.size = z], sc.found, sc.prefix, sc.at, z)
<1> DEFINE at0 == sc.at
           size0 == sc.size
           prefix0 == sc.prefix
           found0 == sc.found
           pending0 == sc.pending
           counts0 == sc.counts
           reports0 == sc.reports
<1>1. sc = [at |-> at0, size |-> size0, pending |-> pending0, counts |-> counts0,
            reports |-> reports0, prefix |-> prefix0, found |-> found0]
  BY DEF IsScan
<1> HIDE DEF at0, size0, pending0, counts0, reports0, prefix0, found0
<1>2. ASSUME NEW e, NEW p
      PROVE  Changes(sc, [sc EXCEPT !.found = e, !.prefix = p], e, p, at0, size0)
  <2> DEFINE r == [sc EXCEPT !.found = e, !.prefix = p]
  <2>1. sc \in [at : {at0}, size : {size0}, pending : {pending0}, counts : {counts0},
                reports : {reports0}, prefix : {prefix0, p}, found : {found0, e}]
    BY <1>1
  <2>2. r \in [at : {at0}, size : {size0}, pending : {pending0}, counts : {counts0},
               reports : {reports0}, prefix : {prefix0, p}, found : {found0, e}]
    BY <2>1
  <2>3. r.found = e /\ r.prefix = p
    BY <2>1
  <2> HIDE DEF r
  <2>4. /\ r.at = at0 /\ r.size = size0 /\ r.counts = counts0 /\ r.reports = reports0
        /\ r.pending = pending0
    BY <2>2
  <2>5. r = [at |-> r.at, size |-> r.size, pending |-> r.pending, counts |-> r.counts,
             reports |-> r.reports, prefix |-> r.prefix, found |-> r.found]
    BY <2>2
  <2>6. IsScan(r)
    BY <2>5 DEF IsScan
  <2>7. Changes(sc, r, e, p, at0, size0)
    BY <2>3, <2>4, <2>6 DEF Changes, counts0, reports0, pending0
  <2> QED BY <2>7 DEF r
<1>3. ASSUME NEW a
      PROVE  Changes(sc, [sc EXCEPT !.at = a], found0, prefix0, a, size0)
  <2> DEFINE r == [sc EXCEPT !.at = a]
  <2>1. sc \in [at : {at0, a}, size : {size0}, pending : {pending0}, counts : {counts0},
                reports : {reports0}, prefix : {prefix0}, found : {found0}]
    BY <1>1
  <2>2. r \in [at : {at0, a}, size : {size0}, pending : {pending0}, counts : {counts0},
               reports : {reports0}, prefix : {prefix0}, found : {found0}]
    BY <2>1
  <2>3. r.at = a
    BY <2>1
  <2> HIDE DEF r
  <2>4. /\ r.size = size0 /\ r.counts = counts0 /\ r.reports = reports0
        /\ r.pending = pending0 /\ r.prefix = prefix0 /\ r.found = found0
    BY <2>2
  <2>5. r = [at |-> r.at, size |-> r.size, pending |-> r.pending, counts |-> r.counts,
             reports |-> r.reports, prefix |-> r.prefix, found |-> r.found]
    BY <2>2
  <2>6. IsScan(r)
    BY <2>5 DEF IsScan
  <2>7. Changes(sc, r, found0, prefix0, a, size0)
    BY <2>3, <2>4, <2>6 DEF Changes, counts0, reports0, pending0
  <2> QED BY <2>7 DEF r
<1>4. ASSUME NEW z
      PROVE  Changes(sc, [sc EXCEPT !.size = z], found0, prefix0, at0, z)
  <2> DEFINE r == [sc EXCEPT !.size = z]
  <2>1. sc \in [at : {at0}, size : {size0, z}, pending : {pending0}, counts : {counts0},
                reports : {reports0}, prefix : {prefix0}, found : {found0}]
    BY <1>1
  <2>2. r \in [at : {at0}, size : {size0, z}, pending : {pending0}, counts : {counts0},
               reports : {reports0}, prefix : {prefix0}, found : {found0}]
    BY <2>1
  <2>3. r.size = z
    BY <2>1
  <2> HIDE DEF r
  <2>4. /\ r.at = at0 /\ r.counts = counts0 /\ r.reports = reports0
        /\ r.pending = pending0 /\ r.prefix = prefix0 /\ r.found = found0
    BY <2>2
  <2>5. r = [at |-> r.at, size |-> r.size, pending |-> r.pending, counts |-> r.counts,
             reports |-> r.reports, prefix |-> r.prefix, found |-> r.found]
    BY <2>2
  <2>6. IsScan(r)
    BY <2>5 DEF IsScan
  <2>7. Changes(sc, r, found0, prefix0, at0, z)
    BY <2>3, <2>4, <2>6 DEF Changes, counts0, reports0, pending0
  <2> QED BY <2>7 DEF r
<1> QED BY <1>2, <1>3, <1>4 DEF at0, size0, prefix0, found0

\* What has been fed to a scan does not depend on its diagnostics or place.
LEMMA FedChanges ==
    ASSUME NEW sc, NEW r, NEW e, NEW p, NEW a, NEW z, Changes(sc, r, e, p, a, z), NEW X, NEW b
    PROVE  Fed(sc, X, b) <=> Fed(r, X, b)
<1>1. r.counts = sc.counts /\ r.reports = sc.reports /\ r.pending = sc.pending
  BY DEF Changes
<1> QED BY <1>1 DEF Fed

\* Moving the scan leaves what it has read.
LEMMA ScannedMoves ==
    ASSUME NEW sc, NEW X, Scanned(sc, X), NEW r, NEW a, NEW z,
           Changes(sc, r, sc.found, sc.prefix, a, z)
    PROVE  Scanned(r, X)
<1>1. PICK b : Fed(sc, X, b)
  BY DEF Scanned
<1>2. Fed(r, X, b)
  BY <1>1, FedChanges
<1>3. IsScan(r) /\ r.found = sc.found /\ r.prefix = sc.prefix
  BY DEF Changes
<1> QED BY <1>2, <1>3 DEF Scanned

\* Piece y of a line, and its end.
Line(y, end) == IF end THEN Append(y, "n") ELSE y

\* fed is what sc comes to when more of a line is fed to it.
FedOn(sc, fed, X, y, end) ==
    /\ IsScan(fed)
    /\ fed.at = sc.at /\ fed.size = sc.size
    /\ \E d : Fed(fed, Line(X \o y, end), d)
    /\ fed.reports # sc.reports <=> \E h \in Headings(X \o y) : h > Len(X)

\* Feeding a piece of a line is feeding what the line comes to.
LEMMA FeedsOn ==
    ASSUME NEW sc, NEW X, Scanned(sc, X), NEW y, NoBreak(y), NEW end \in BOOLEAN
    PROVE  FedOn(sc, Feed(sc, Line(y, end), FALSE), X, y, end)
<1> DEFINE w == Line(y, end)
           Z == Line(X \o y, end)
           fed == Feed(sc, w, FALSE)
<1>1. X \in Seq(Symbol) /\ y \in Seq(Symbol) /\ "n" \in Symbol /\ IsScan(sc)
  BY DEF Scanned, NoBreak, Symbol
<1>2. /\ X \o y \in Seq(Symbol) /\ Append(y, "n") \in Seq(Symbol)
      /\ X \o Append(y, "n") = Append(X \o y, "n")
  BY <1>1, ConcatAppend
<1>3. w \in Seq(Symbol) /\ X \o w = Z
  BY <1>1, <1>2 DEF Line
<1>4. Headings(Z) = Headings(X \o y)
  <2> DEFINE u == X \o y
  <2> HIDE DEF u
  <2>1. \A i : i \in Headings(Append(u, "n")) <=> i \in Headings(u)
    BY <1>1, <1>2, HeadingsAppend DEF u
  <2>2. Headings(Append(u, "n")) = Headings(u)
    BY <2>1
  <2> QED BY <2>2 DEF Line, u
<1>5. PICK b : Fed(sc, X, b)
  BY DEF Scanned
<1> HIDE DEF w, Z
<1>6. /\ IsScan(fed) /\ fed.at = sc.at /\ fed.size = sc.size
      /\ \E d : Fed(fed, X \o w, d)
      /\ fed.reports # sc.reports <=> NewHeading(Compact(X), Compact(X \o w))
  BY <1>1, <1>3, <1>5, FeedStep
<1>7. NewHeading(Compact(X), Compact(X \o w)) <=> \E h \in Headings(X \o w) : h > Len(X)
  BY <1>1, <1>3, NewIff
<1> HIDE DEF fed
<1>8. /\ IsScan(fed) /\ fed.at = sc.at /\ fed.size = sc.size
      /\ \E d : Fed(fed, Z, d)
      /\ fed.reports # sc.reports <=> \E h \in Headings(X \o y) : h > Len(X)
  BY <1>3, <1>4, <1>6, <1>7
<1> QED BY <1>8 DEF FedOn, fed, w, Z

\* Consuming a piece of a line brings the scan to where reading that much brings it.
LEMMA ConsumeStep ==
    ASSUME NEW sc, NEW X, Scanned(sc, X), NEW y, NoBreak(y), NEW end \in BOOLEAN
    PROVE  /\ Scanned(Consume(sc, y, end), Line(X \o y, end))
           /\ Consume(sc, y, end).at = sc.at /\ Consume(sc, y, end).size = sc.size
<1> DEFINE fed == Feed(sc, Line(y, end), FALSE)
           Z == Line(X \o y, end)
           old(m) == IF fed.reports # sc.reports THEN 0 ELSE sc.found[m]
           prefix == Strip(Compact(sc.prefix \o y))
           is(m) == prefix # <<>> /\ prefix[1] = m
           e == [m \in Mark |-> IF end /\ is(m) THEN old(m) + 1 ELSE old(m)]
           p == IF end THEN <<>> ELSE prefix
           r == Consume(sc, y, end)
           new == \E h \in Headings(X \o y) : h > Len(X)
<1>1. X \in Seq(Symbol) /\ y \in Seq(Symbol) /\ X \o y \in Seq(Symbol) /\ "n" \in Symbol
      /\ Append(X \o y, "n") \in Seq(Symbol)
  <2>1. X \in Seq(Symbol) /\ y \in Seq(Symbol) /\ "n" \in Symbol
    BY DEF Scanned, NoBreak, Symbol
  <2>2. X \o y \in Seq(Symbol)
    BY <2>1, ConcatProperties
  <2> QED BY <2>1, <2>2, AppendProperties
<1>2. /\ IsScan(fed) /\ fed.at = sc.at /\ fed.size = sc.size
      /\ \E d : Fed(fed, Z, d)
      /\ fed.reports # sc.reports <=> new
  <2>1. FedOn(sc, fed, X, y, end)
    BY FeedsOn
  <2> QED BY <2>1 DEF FedOn
<1>3. sc.found = [m \in Mark |-> Cardinality(Errs(X, m))] /\ Prefixed(sc.prefix, X)
  BY DEF Scanned
<1>4. r = [fed EXCEPT !.found = e, !.prefix = p]
  BY DEF Consume, Line
<1>5. Prefixed(prefix, X \o y)
  BY <1>1, <1>3, PrefixStep
<1>6. \A m \in Mark : is(m) <=> Diagnostic(X \o y, Len(X \o y) + 1, m)
  BY <1>1, <1>5, PrefixTells
<1>7. \A m \in Mark :
        Cardinality(Errs(X \o y, m)) = IF new THEN 0 ELSE Cardinality(Errs(X, m))
  BY <1>1, ErrsStep
<1> HIDE DEF fed, prefix, is, new
<1>8. \A m \in Mark : old(m) = Cardinality(Errs(X \o y, m))
  BY <1>2, <1>3, <1>7
<1>9. e = [m \in Mark |-> Cardinality(Errs(Z, m))]
  <2>1. ASSUME NEW m \in Mark
        PROVE  (IF end /\ is(m) THEN old(m) + 1 ELSE old(m)) = Cardinality(Errs(Z, m))
    <3>1. /\ Cardinality(Errs(Append(X \o y, "n"), m)) =
               Cardinality(Errs(X \o y, m))
                 + IF Diagnostic(X \o y, Len(X \o y) + 1, m) THEN 1 ELSE 0
          /\ Cardinality(Errs(X \o y, m)) \in Nat
      BY <1>1, ErrsBreak, ErrsCount
    <3> DEFINE c == Cardinality(Errs(X \o y, m))
               dd == Cardinality(Errs(Append(X \o y, "n"), m))
    <3> HIDE DEF old
    <3>2. c \in Nat /\ old(m) = c /\ dd = c + IF is(m) THEN 1 ELSE 0
      BY <1>6, <1>8, <3>1
    <3>3. Cardinality(Errs(Z, m)) = IF end THEN dd ELSE c
      BY DEF Line
    <3> HIDE DEF c, dd, Z
    <3> QED BY <3>2, <3>3
  <2> HIDE DEF old, Z
  <2> QED BY <2>1
<1>10. Prefixed(p, Z)
  <2>1. CASE ~end
    BY <1>5, <2>1 DEF Line
  <2>2. CASE end
    <3> DEFINE T == Append(X \o y, "n")
    <3>1. Len(T) \in Nat /\ Len(T) # 0 /\ T[Len(T)] = "n"
      BY <1>1, AppendProperties, LenProperties
    <3> HIDE DEF T
    <3>2. \A k \in 1..Len(T) : Len(T) \in k..Len(T)
      BY <3>1
    <3>3. LineBlank(T)
      BY <3>1, <3>2 DEF LineBlank
    <3>4. Prefixed(<<>>, T)
      BY <3>3, EmptySeq DEF Prefixed
    <3> QED BY <2>2, <3>4 DEF T, Line
  <2> QED BY <2>1, <2>2
<1> HIDE DEF e, p, Z, r
<1>11. Changes(fed, r, e, p, fed.at, fed.size)
  BY <1>2, <1>4, ScanChanges
<1>12. \E d : Fed(r, Z, d)
  <2>1. PICK d : Fed(fed, Z, d)
    BY <1>2
  <2>2. Fed(r, Z, d)
    BY <1>11, <2>1, FedChanges
  <2> QED BY <2>2
<1>13. IsScan(r) /\ r.found = e /\ r.prefix = p /\ r.at = sc.at /\ r.size = sc.size
  BY <1>2, <1>11 DEF Changes
<1>14. Z \in Seq(Symbol)
  BY <1>1 DEF Z, Line
<1>15. Scanned(r, Z)
  BY <1>9, <1>10, <1>12, <1>13, <1>14 DEF Scanned
<1> QED BY <1>13, <1>15 DEF r, Z

\* The result depends on whether there are reports, not on how many.
LEMMA DecideSame ==
    ASSUME NEW k, NEW m \in Nat, NEW n \in Nat, m # 0 <=> n # 0, NEW e
    PROVE  Decide(k, m, e) = Decide(k, n, e)
<1>1. m > 0 <=> n > 0
  OBVIOUS
<1> QED BY <1>1 DEF Decide

\* A scan that has read a log and its end decides as the whole log does.
LEMMA EndDecides ==
    ASSUME NEW s \in Seq(Symbol), NEW sc, Scanned(sc, Append(s, "n"))
    PROVE  LET end == Feed(sc, <<>>, TRUE)
           IN Decide(end.counts, end.reports, end.found) = Whole(s)
<1> DEFINE t == Append(s, "n")
           c == Compact(t)
           end == Feed(sc, <<>>, TRUE)
           k == CountsAfter(NoScan.counts, Compact(s), Events(Compact(s)))
           n == Cardinality(Headings(s))
           f == [m \in Mark |-> Cardinality(Diagnostics(s, m))]
<1>1. /\ t \in Seq(Symbol) /\ IsScan(sc)
      /\ sc.found = [m \in Mark |-> Cardinality(Errs(t, m))]
  BY DEF Scanned
<1>2. PICK b : Fed(sc, t, b)
  BY DEF Scanned
<1>3. Headings(t) = Headings(s) /\ \A m \in Mark : Errs(t, m) = Diagnostics(s, m)
  BY ErrsBreak
<1>4. CountsAfter(NoScan.counts, c, Events(c)) = k
  BY CountsBreak
<1>5. Headed(c, Events(c)) <=> Headings(s) # {}
  BY <1>1, <1>3, HeadedIff
<1>6. n \in Nat /\ (n # 0 <=> Headings(s) # {})
  <2>1. Headings(s) \subseteq 1..Len(s) /\ Len(s) \in Nat
    BY HeadedIff, LenProperties
  <2>2. IsFiniteSet(Headings(s))
    <3>1. IsFiniteSet(1..Len(s))
      BY <2>1, FS_Interval
    <3> QED BY <2>1, <3>1, FS_Subset
  <2> QED BY <2>2, FS_CardinalityType, FS_EmptySet
<1>11. [m \in Mark |-> Cardinality(Errs(t, m))] = f
  <2> HIDE DEF t
  <2> QED BY <1>3
<1> HIDE DEF t, k, n, f
<1>7. /\ end.found = sc.found
      /\ end.counts = CountsAfter(NoScan.counts, c, Events(c))
      /\ end.reports \in Nat
      /\ end.reports # 0 <=> Headed(c, Events(c))
  BY <1>1, <1>2, FeedLast
<1> HIDE DEF end, c
<1>8. end.counts = k /\ end.found = f
      /\ end.reports \in Nat /\ (end.reports # 0 <=> n # 0)
  BY <1>1, <1>4, <1>5, <1>6, <1>7, <1>11
<1>9. Decide(k, end.reports, f) = Decide(k, n, f)
  BY <1>6, <1>8, DecideSame
<1>10. Decide(end.counts, end.reports, end.found) = Decide(k, n, f)
  BY <1>8, <1>9
<1> QED BY <1>10 DEF Whole, k, n, f, end

-----------------------------------------------------------------------------
(* The result of a log                                                     *)

\* What a log comes to if the evaluation does not fail.
Fine == {"passed", "error", "fatal"}

\* The scan stands where reading the log up to its place brings it, unless the log
\* has been written to; none of the logs before it failed the evaluation.
VerdictInv ==
    /\ rest \in Seq(Log)
    /\ \E S : read \in Seq(S)
    /\ \A k \in 1..Len(read) : read[k].total.status \in Fine
    /\ ~touched =>
         /\ report \in Seq(Symbol)
         /\ scan.at \in Nat /\ scan.size \in Nat /\ scan.at <= scan.size
         /\ scan.size \in {0, Len(report)}
         /\ scan.size # 0 => Readable
         /\ Scanned(scan, SubSeq(report, 1, scan.at))
    /\ VerdictWhole

\* A log raises or comes to a fine result; fine results come to one together, and
\* an exception prevails.
LEMMA DecideFine ==
    ASSUME NEW k, NEW n, NEW f
    PROVE  Decide(k, n, f) = Raised \/ Decide(k, n, f).status \in Fine
  BY DEF Decide, Passed, Fine

LEMMA TogetherFine ==
    ASSUME NEW a, a.status \in Fine, NEW b
    PROVE  /\ b.status \in Fine => Together(a, b).status \in Fine
           /\ Together(a, Raised) = Raised
<1>1. Raised.status = "raised" /\ Severity("raised") = 3
  BY DEF Raised, Severity
<1>2. Severity(a.status) \in {0, 1, 2}
  BY DEF Severity, Fine
<1>3. Severity(Raised.status) > Severity(a.status)
  BY <1>1, <1>2
<1>4. Together(a, Raised) = Raised
  BY <1>3 DEF Together
<1>5. ASSUME b.status \in Fine
      PROVE  Together(a, b).status \in Fine
  BY <1>5 DEF Together
<1> QED BY <1>4, <1>5

LEMMA TotalFine ==
    ASSUME VerdictInv
    PROVE  Len(read) \in Nat /\ Total(Len(read)).status \in Fine
<1>1. PICK S : read \in Seq(S)
  BY DEF VerdictInv
<1>2. Len(read) \in Nat
  BY <1>1, LenProperties
<1>3. CASE Len(read) = 0
  BY <1>3 DEF Total, Passed, Fine
<1>4. CASE Len(read) # 0
  <2>1. Len(read) \in 1..Len(read)
    BY <1>2, <1>4
  <2> QED BY <1>2, <1>4, <2>1 DEF Total, VerdictInv
<1> QED BY <1>2, <1>3, <1>4

\* Nothing has been read at first.
LEMMA NothingScanned == Scanned(NoScan, <<>>)
<1>1. <<>> \in Seq(Symbol) /\ Len(<<>>) = 0 /\ Compact(<<>>) = <<>>
  BY EmptySeq, CompactEmpty
<1>2. Events(<<>>) = {} /\ EventsTo(<<>>, 0) = {} /\ Headings(<<>>) = {}
      /\ \A m \in Mark : Errs(<<>>, m) = {}
  <2>1. DOMAIN <<>> = {} /\ 1..0 = {}
    OBVIOUS
  <2> QED BY <1>1, <2>1 DEF Events, EventsTo, Headings, Errs
<1>3. IsScan(NoScan) /\ NoScan.pending = <<>> /\ NoScan.reports = 0
      /\ NoScan.found = [m \in Mark |-> 0] /\ NoScan.prefix = <<>> /\ NoScan.counts = [x \in Summed |-> Missing]
  BY DEF NoScan, IsScan
<1>4. CountsAfter(NoScan.counts, <<>>, {}) = NoScan.counts
  <2>1. \A x \in Summed : {i \in {} : <<>>[i] = x /\ \A h \in {} : HeadingAt(<<>>, h) => h < i} = {}
    OBVIOUS
  <2> QED BY <1>3, <2>1 DEF CountsAfter
<1>5. DoneTo(<<>>, 0)
  <2>1. 0 \in Nat /\ 0 <= 0 /\ 1..0 = {}
    OBVIOUS
  <2> QED BY <1>1, <2>1 DEF DoneTo
<1>6. Fed(NoScan, <<>>, 0)
  <2>1. SubSeq(<<>>, 0 + 1, 0) = <<>>
    <3>1. 0 + 1 = 1 /\ 1 > 0
      OBVIOUS
    <3> QED BY <3>1, SubSeqEmpty
  <2>2. ~Headed(<<>>, {})
    BY DEF Headed
  <2> DEFINE c == Compact(<<>>)
  <2>3. c = <<>>
    BY <1>1
  <2> HIDE DEF c
  <2>4. DoneTo(c, 0) /\ EventsTo(c, 0) = {} /\ ~Headed(c, Events(c))
        /\ CountsAfter(NoScan.counts, c, EventsTo(c, 0)) = NoScan.counts
    BY <1>2, <1>4, <1>5, <2>2, <2>3
  <2>5. SubSeq(c, 0 + 1, Len(c)) = <<>>
    BY <1>1, <2>1, <2>3
  <2>6. NoScan.reports \in Nat /\ NoScan.reports = 0
    BY <1>3
  <2>7. NoScan.pending = SubSeq(c, 0 + 1, Len(c))
    BY <1>3, <2>5
  <2> QED BY <2>4, <2>6, <2>7 DEF Fed, c
<1>7. Prefixed(<<>>, <<>>)
  <2>1. 1..0 = {}
    OBVIOUS
  <2> QED BY <1>1, <2>1 DEF Prefixed, LineBlank
<1>8. NoScan.found = [m \in Mark |-> Cardinality(Errs(<<>>, m))]
  <2>1. \A m \in Mark : Cardinality(Errs(<<>>, m)) = 0
    BY <1>2, FS_EmptySet
  <2> QED BY <1>3, <2>1
<1> QED BY <1>1, <1>3, <1>6, <1>7, <1>8 DEF Scanned

\* A log that has not been opened yet.
LEMMA NewScan ==
    ASSUME NEW s \in Seq(Symbol)
    PROVE  /\ NoScan.at = 0 /\ NoScan.size = 0
           /\ Scanned(NoScan, SubSeq(s, 1, NoScan.at))
<1>1. NoScan.at = 0 /\ NoScan.size = 0
  BY DEF NoScan
<1>2. SubSeq(s, 1, 0) = <<>>
  BY SubSeqEmpty
<1> QED BY <1>1, <1>2, NothingScanned

\* Each action keeps the invariant of a scan.
LEMMA ResultInitInv == ResultInit => VerdictInv
<1> SUFFICES ASSUME ResultInit PROVE VerdictInv
  OBVIOUS
<1>1. PICK logs \in Declared : report = Head(logs).text /\ rest = Tail(logs)
  BY DEF ResultInit
<1>2. Head(logs) \in Log /\ rest \in Seq(Log)
  <2>1. logs \in Seq(Log) /\ logs # <<>>
    BY ScanAssumption
  <2> QED BY <1>1, <2>1, HeadTailProperties
<1>3. report \in Seq(Symbol)
  BY <1>1, <1>2 DEF Log
<1>4. read = <<>> /\ scan = NoScan /\ verdict = NoVerdict
  BY DEF ResultInit
<1>5. scan.at = 0 /\ scan.size = 0 /\ Scanned(scan, SubSeq(report, 1, scan.at))
  BY <1>3, <1>4, NewScan
<1>6. read \in Seq({}) /\ Len(read) = 0 /\ 1..0 = {} /\ DOMAIN read = {}
  BY <1>4, EmptySeq
<1>7. VerdictWhole
  BY <1>4, <1>6 DEF VerdictWhole
<1> QED BY <1>2, <1>3, <1>5, <1>6, <1>7 DEF VerdictInv

\* The first m symbols of a sequence.
LEMMA PrefixOf ==
    ASSUME NEW s \in Seq(Symbol), NEW m \in Nat, m <= Len(s)
    PROVE  /\ SubSeq(s, 1, m) \in Seq(Symbol) /\ Len(SubSeq(s, 1, m)) = m
           /\ \A i \in 1..m : SubSeq(s, 1, m)[i] = s[i]
<1>1. 0 \in Nat /\ 0 <= m /\ 0 + 1 = 1 /\ m - 0 = m /\ \A i \in 1..m : 0 + i = i
  OBVIOUS
<1>2. /\ SubSeq(s, 0 + 1, m) \in Seq(Symbol)
      /\ Len(SubSeq(s, 0 + 1, m)) = m - 0
      /\ \A i \in 1..m - 0 : SubSeq(s, 0 + 1, m)[i] = s[0 + i]
  BY <1>1, PartOf
<1> QED BY <1>1, <1>2

\* While there is no verdict, a step that leaves the logs read alone keeps the rest.
LEMMA StillWhole ==
    ASSUME VerdictInv, UNCHANGED <<rest, read>>, verdict' = NoVerdict
    PROVE  /\ rest' \in Seq(Log) /\ \E S : read' \in Seq(S)
           /\ \A k \in 1..Len(read') : read'[k].total.status \in Fine
           /\ VerdictWhole'
<1>1. rest' = rest /\ read' = read /\ NoVerdict' = NoVerdict /\ verdict' = NoVerdict
  BY DEF NoVerdict
<1>2. \A k \in DOMAIN read' : read'[k].total = Together(Total(k - 1), Whole(read[k].text))'
  BY <1>1 DEF VerdictInv, VerdictWhole, Total
<1>3. VerdictWhole'
  BY <1>1, <1>2 DEF VerdictWhole
<1> QED BY <1>1, <1>3 DEF VerdictInv

\* A step that gives the verdict and leaves the scan keeps the invariant if the
\* verdict is right.
LEMMA VerdictGiven ==
    ASSUME VerdictInv, UNCHANGED <<report, logsVars, touched, scan>>,
           verdict' = IF Readable /\ ~touched THEN Together(Total(Len(read)), Whole(report))
                      ELSE Raised,
           verdict' = Raised \/ rest = <<>>
    PROVE  VerdictInv'
<1>1. /\ report' = report /\ integrity' = integrity /\ rest' = rest /\ read' = read
      /\ touched' = touched /\ scan' = scan
  BY DEF logsVars
<1>2. Readable' = Readable /\ Raised' = Raised /\ Total(Len(read))' = Total(Len(read))
      /\ Whole(report)' = Whole(report)
  BY <1>1 DEF Readable, Raised, Total, Passed
<1>3. \A k \in DOMAIN read' : read'[k].total = Together(Total(k - 1), Whole(read[k].text))'
  BY <1>1 DEF VerdictInv, VerdictWhole, Total
<1>4. verdict' = (IF Readable /\ ~touched THEN Together(Total(Len(read)), Whole(report))
                  ELSE Raised)'
  BY <1>1, <1>2 DEF Together
<1>5. VerdictWhole'
  BY <1>1, <1>2, <1>3, <1>4 DEF VerdictWhole
<1> QED BY <1>1, <1>2, <1>5 DEF VerdictInv

LEMMA ScanRefusedInv == VerdictInv /\ ScanRefused => VerdictInv'
  BY VerdictGiven DEF ScanRefused

LEMMA ScanShortenedInv == VerdictInv /\ ScanShortened => VerdictInv'
<1> SUFFICES ASSUME VerdictInv, ScanShortened PROVE VerdictInv'
  OBVIOUS
<1>1. touched
  <2>1. SUFFICES ASSUME ~touched
                 PROVE  FALSE
    OBVIOUS
  <2>2. /\ scan.at \in Nat /\ scan.size \in {0, Len(report)}
        /\ scan.at < scan.size /\ scan.at >= Len(report)
    BY <2>1 DEF VerdictInv, ScanShortened
  <2>3. Len(report) \in Nat
    BY <2>1, LenProperties DEF VerdictInv
  <2> QED BY <2>2, <2>3
<1> QED BY <1>1, VerdictGiven DEF ScanShortened

LEMMA ScanOpenInv == VerdictInv /\ ScanOpen => VerdictInv'
<1> SUFFICES ASSUME VerdictInv, ScanOpen PROVE VerdictInv'
  OBVIOUS
<1>1. /\ report' = report /\ integrity' = integrity /\ rest' = rest /\ read' = read
      /\ touched' = touched /\ verdict' = NoVerdict /\ scan.size = 0
      /\ scan' = [scan EXCEPT !.size = Len(report)]
      /\ Readable
  BY DEF ScanOpen, logsVars
<1>2. ASSUME ~touched
      PROVE  /\ report' \in Seq(Symbol) /\ scan'.at \in Nat /\ scan'.size = Len(report')
             /\ scan'.size \in Nat /\ scan'.at <= scan'.size
             /\ Scanned(scan, SubSeq(report, 1, scan.at))'
  <2>1. /\ report \in Seq(Symbol) /\ scan.at \in Nat /\ scan.at <= scan.size
        /\ Scanned(scan, SubSeq(report, 1, scan.at)) /\ Len(report) \in Nat
    BY <1>2, LenProperties DEF VerdictInv
  <2>2. Changes(scan, scan', scan.found, scan.prefix, scan.at, Len(report))
    BY <1>1, <2>1, ScanChanges DEF Scanned
  <2>3. scan'.at = scan.at /\ scan'.size = Len(report)
    BY <2>2 DEF Changes
  <2>4. Scanned(scan', SubSeq(report, 1, scan.at))
    BY <2>1, <2>2, ScannedMoves
  <2>5. scan.at <= Len(report)
    BY <1>1, <2>1
  <2> QED BY <1>1, <2>1, <2>3, <2>4, <2>5
<1>3. Readable'
  BY <1>1 DEF Readable
<1> QED BY <1>1, <1>2, <1>3, StillWhole DEF VerdictInv

LEMMA ScanPieceInv == VerdictInv /\ ScanPiece => VerdictInv'
<1> SUFFICES ASSUME VerdictInv, ScanPiece PROVE VerdictInv'
  OBVIOUS
<1>20. /\ report' = report /\ integrity' = integrity /\ rest' = rest /\ read' = read
       /\ touched' = touched /\ verdict' = NoVerdict
  BY DEF ScanPiece, logsVars
<1>21. /\ rest' \in Seq(Log) /\ \E S : read' \in Seq(S)
       /\ \A k \in 1..Len(read') : read'[k].total.status \in Fine
       /\ VerdictWhole'
  BY <1>20, StillWhole
<1>22. SUFFICES ASSUME ~touched
                PROVE  VerdictInv'
  BY <1>20, <1>21 DEF VerdictInv
<1> DEFINE a == scan.at
           n == Len(report)
           X == SubSeq(report, 1, a)
<1>1. /\ report \in Seq(Symbol) /\ n \in Nat /\ a \in Nat /\ scan.size \in Nat
      /\ a <= scan.size /\ scan.size \in {0, n} /\ Scanned(scan, X)
      /\ scan.size # 0 => Readable
  BY <1>22, LenProperties DEF VerdictInv
<1>2. PICK k \in 1..(scan.size - a) :
        LET piece == SubSeq(report, a + 1, a + k)
            end_line == piece[k] = "n"
        IN /\ \A j \in 1..k - 1 : piece[j] # "n"
           /\ scan' = [Consume(scan, IF end_line THEN SubSeq(piece, 1, k - 1) ELSE piece, end_line)
                         EXCEPT !.at = a + k]
  BY DEF ScanPiece
<1> DEFINE piece == SubSeq(report, a + 1, a + k)
           end == piece[k] = "n"
           y == IF end THEN SubSeq(piece, 1, k - 1) ELSE piece
           r == Consume(scan, y, end)
<1>3. /\ \A j \in 1..k - 1 : piece[j] # "n"
      /\ scan' = [r EXCEPT !.at = a + k]
  BY <1>2
<1>4. a + k \in Nat /\ a <= a + k /\ a + k <= scan.size /\ a + k <= n /\ k \in Nat /\ 1 <= k
      /\ (a + k) - a = k
  BY <1>1
<1>5. piece \in Seq(Symbol) /\ Len(piece) = k
  <2> DEFINE b == a + k
  <2>1. a \in Nat /\ b \in Nat /\ a <= b /\ b <= Len(report) /\ report \in Seq(Symbol) /\ b - a = k
    BY <1>1, <1>4
  <2> HIDE DEF a, b
  <2>2. SubSeq(report, a + 1, b) \in Seq(Symbol) /\ Len(SubSeq(report, a + 1, b)) = b - a
    BY <2>1, PartOf
  <2> QED BY <2>1, <2>2 DEF b
<1>6. X \in Seq(Symbol) /\ X \o piece = SubSeq(report, 1, a + k)
  <2>1. X \in Seq(Symbol)
    BY <1>1 DEF Scanned
  <2>2. 1 \in 1..n + 1 /\ a \in 1 - 1..n /\ a + k \in a..n
    BY <1>1, <1>4
  <2> QED BY <1>1, <2>1, <2>2, ConcatAdjacentSubSeq
<1>7. end \in BOOLEAN
  OBVIOUS
<1> HIDE DEF piece
<1>8. NoBreak(y) /\ Line(X \o y, end) = X \o piece
  <2>1. ASSUME ~end
        PROVE  NoBreak(y) /\ Line(X \o y, end) = X \o piece
    <3>1. y = piece
      BY <2>1
    <3>2. \A j \in 1..k : j \in 1..k - 1 \/ j = k
      BY <1>4
    <3>3. \A j \in 1..k : piece[j] # "n"
      BY <1>3, <2>1, <3>2
    <3>4. NoBreak(y)
      BY <1>5, <3>1, <3>3 DEF NoBreak
    <3> QED BY <2>1, <3>1, <3>4 DEF Line
  <2>2. ASSUME end
        PROVE  NoBreak(y) /\ Line(X \o y, end) = X \o piece
    <3> DEFINE p == SubSeq(piece, 1, k - 1)
    <3>1. y = p
      BY <2>2
    <3>2. 0 \in Nat /\ k - 1 \in Nat /\ 0 <= k - 1 /\ k - 1 <= k /\ 0 + 1 = 1 /\ (k - 1) - 0 = k - 1
      BY <1>4
    <3>3. /\ SubSeq(piece, 0 + 1, k - 1) \in Seq(Symbol)
          /\ Len(SubSeq(piece, 0 + 1, k - 1)) = (k - 1) - 0
          /\ \A i \in 1..(k - 1) - 0 : SubSeq(piece, 0 + 1, k - 1)[i] = piece[0 + i]
      BY <1>5, <3>2, PartOf
    <3>4. \A i \in 1..k - 1 : 0 + i = i
      OBVIOUS
    <3>5. p \in Seq(Symbol) /\ Len(p) = k - 1 /\ \A i \in 1..k - 1 : p[i] = piece[i]
      BY <3>2, <3>3, <3>4
    <3> HIDE DEF p
    <3>6. NoBreak(p)
      BY <1>3, <3>5 DEF NoBreak
    <3>7. "n" \in Symbol
      BY DEF Symbol
    <3>8. Append(p, "n") = piece
      <4> DEFINE q == Append(p, "n")
      <4>1. /\ q \in Seq(Symbol) /\ Len(q) = Len(p) + 1 /\ q[Len(p) + 1] = "n"
            /\ \A i \in 1..Len(p) : q[i] = p[i]
        BY <3>5, <3>7, LenProperties, AppendProperties
      <4>2. Len(q) = k /\ q[k] = "n"
        BY <1>4, <3>5, <4>1
      <4>3. \A i \in 1..k : q[i] = piece[i]
        <5> TAKE i \in 1..k
        <5>1. i \in 1..k - 1 \/ i = k
          BY <1>4
        <5> HIDE DEF q
        <5> QED BY <2>2, <3>5, <4>1, <4>2, <5>1
      <4> HIDE DEF q
      <4>4. q = piece
        BY <1>5, <4>1, <4>2, <4>3, SeqEqual
      <4> QED BY <4>4 DEF q
    <3>9. X \o Append(p, "n") = Append(X \o p, "n")
      <4>1. \A u \in Seq(Symbol), v \in Seq(Symbol) : u \o Append(v, "n") = Append(u \o v, "n")
        BY <3>7, ConcatAppend
      <4> HIDE DEF r
      <4> QED BY <1>6, <3>5, <4>1
    <3> QED BY <2>2, <3>1, <3>6, <3>8, <3>9 DEF Line
  <2> QED BY <2>1, <2>2
<1> HIDE DEF y, end, X
<1>9. Scanned(r, Line(X \o y, end)) /\ r.at = a /\ r.size = scan.size
  BY <1>1, <1>7, <1>8, ConsumeStep
<1> HIDE DEF r, a
<1>10. Scanned(r, SubSeq(report, 1, a + k))
  BY <1>6, <1>8, <1>9
<1>11. Changes(r, scan', r.found, r.prefix, a + k, r.size)
  BY <1>3, <1>10, ScanChanges DEF Scanned
<1>12. scan'.at = a + k /\ scan'.size = scan.size
  BY <1>9, <1>11 DEF Changes
<1>13. Scanned(scan', SubSeq(report, 1, a + k))
  BY <1>10, <1>11, ScannedMoves
<1>14. Readable' = Readable
  BY <1>20 DEF Readable
<1>16. Scanned(scan, SubSeq(report, 1, scan.at))'
  BY <1>12, <1>13, <1>20
<1>17. /\ scan'.size \in Nat /\ scan'.at \in Nat /\ scan'.at <= scan'.size
       /\ scan'.size \in {0, Len(report')} /\ (scan'.size # 0 => Readable')
  BY <1>1, <1>4, <1>12, <1>14, <1>20 DEF n
<1>18. report' \in Seq(Symbol)
  BY <1>1, <1>20
<1> QED BY <1>16, <1>17, <1>18, <1>21 DEF VerdictInv

\* A log that nothing has written to comes to what it is when read at once.
LEMMA OutcomeWhole ==
    ASSUME VerdictInv, ScanDone
    PROVE  /\ ~touched => Readable /\ Outcome = Whole(report)
           /\ touched => Outcome = Raised
           /\ Outcome = Raised \/ Outcome.status \in Fine
<1> DEFINE r == Consume(scan, <<>>, TRUE)
           end == Feed(r, <<>>, TRUE)
<1>1. Outcome = IF touched THEN Raised ELSE Decide(end.counts, end.reports, end.found)
  BY DEF Outcome
<1>2. ASSUME ~touched
      PROVE  Readable /\ Decide(end.counts, end.reports, end.found) = Whole(report)
  <2>1. /\ report \in Seq(Symbol) /\ scan.at = Len(report) /\ Readable
        /\ Scanned(scan, SubSeq(report, 1, scan.at))
    BY <1>2 DEF VerdictInv, ScanDone
  <2>2. SubSeq(report, 1, scan.at) = report
    BY <2>1, SubSeqFull
  <2>3. NoBreak(<<>>) /\ report \o <<>> = report
    <3>1. <<>> \in Seq(Symbol) /\ Len(<<>>) = 0 /\ 1..0 = {}
      BY EmptySeq
    <3> QED BY <2>1, <3>1, ConcatEmptySeq DEF NoBreak
  <2>4. Scanned(scan, report)
    BY <2>1, <2>2
  <2>5. Scanned(r, Line(report \o <<>>, TRUE))
    BY <2>3, <2>4, ConsumeStep
  <2>6. Scanned(r, Append(report, "n"))
    BY <2>3, <2>5 DEF Line
  <2> HIDE DEF r
  <2> QED BY <2>1, <2>6, EndDecides
<1>3. \/ Decide(end.counts, end.reports, end.found) = Raised
      \/ Decide(end.counts, end.reports, end.found).status \in Fine
  BY DecideFine
<1> HIDE DEF end, r
<1> QED BY <1>1, <1>2, <1>3

LEMMA ScanEndsInv == VerdictInv /\ ScanEnds => VerdictInv'
<1> SUFFICES ASSUME VerdictInv, ScanEnds PROVE VerdictInv'
  OBVIOUS
<1>1. /\ ScanDone /\ (Outcome = Raised \/ rest = <<>>)
      /\ verdict' = Together(Total(Len(read)), Outcome)
      /\ UNCHANGED <<report, logsVars, touched, scan>>
  BY DEF ScanEnds
<1>2. /\ ~touched => Readable /\ Outcome = Whole(report)
      /\ touched => Outcome = Raised
  BY <1>1, OutcomeWhole
<1>3. Together(Total(Len(read)), Raised) = Raised
  BY TotalFine, TogetherFine
<1>4. verdict' = IF Readable /\ ~touched THEN Together(Total(Len(read)), Whole(report))
                 ELSE Raised
  BY <1>1, <1>2, <1>3
<1>5. verdict' = Raised \/ rest = <<>>
  BY <1>1, <1>3
<1> QED BY <1>1, <1>4, <1>5, VerdictGiven

LEMMA NextLogInv == VerdictInv /\ NextLog => VerdictInv'
<1> SUFFICES ASSUME VerdictInv, NextLog PROVE VerdictInv'
  OBVIOUS
<1> DEFINE entry == [text |-> report, total |-> Together(Total(Len(read)), Outcome)]
           n == Len(read)
<1>1. /\ ScanDone /\ Outcome # Raised /\ rest # <<>>
      /\ read' = Append(read, entry) /\ report' = Head(rest).text /\ rest' = Tail(rest)
      /\ scan' = NoScan /\ touched' = touched /\ verdict' = verdict
  BY DEF NextLog
<1>2. ~touched /\ Outcome = Whole(report) /\ Outcome.status \in Fine
  BY <1>1, OutcomeWhole
<1>3. rest' \in Seq(Log) /\ report' \in Seq(Symbol)
  <2>1. rest \in Seq(Log)
    BY DEF VerdictInv
  <2>2. Head(rest) \in Log /\ Tail(rest) \in Seq(Log)
    BY <1>1, <2>1, HeadTailProperties
  <2> QED BY <1>1, <2>2 DEF Log
<1>4. /\ scan'.at = 0 /\ scan'.size = 0
      /\ Scanned(scan', SubSeq(report', 1, scan'.at))
  BY <1>1, <1>3, NewScan
<1>5. n \in Nat /\ Total(n).status \in Fine
  BY TotalFine
<1>6. entry.text = report /\ entry.total = Together(Total(n), Whole(report))
      /\ entry.total.status \in Fine
  BY <1>2, <1>5, TogetherFine
<1> HIDE DEF entry
<1>7. PICK S : read \in Seq(S)
  BY DEF VerdictInv
<1>8. /\ read' \in Seq(S \cup {entry}) /\ Len(read') = n + 1 /\ read'[n + 1] = entry
      /\ \A k \in 1..n : read'[k] = read[k]
  <2>1. read \in Seq(S \cup {entry})
    BY <1>7, SeqMonotonic
  <2> QED BY <1>1, <2>1, AppendProperties
<1>9. DOMAIN read = 1..n /\ DOMAIN read' = 1..n + 1
  BY <1>7, <1>8, LenProperties
<1> HIDE DEF n
<1>10. \A k \in 1..n + 1 : k \in 1..n \/ k = n + 1
  BY <1>5
<1>11. \A k \in 1..Len(read') : read'[k].total.status \in Fine
  <2>1. \A k \in 1..n : read[k].total.status \in Fine
    BY DEF VerdictInv, n
  <2> QED BY <1>6, <1>8, <1>10, <2>1
<1>12. \A k \in 1..n + 1 : Total(k - 1)' = Total(k - 1)
  <2> TAKE k \in 1..n + 1
  <2>1. k - 1 = 0 \/ k - 1 \in 1..n
    BY <1>5
  <2>2. Passed' = Passed
    BY DEF Passed
  <2> QED BY <1>8, <2>1, <2>2 DEF Total
<1>13. \A k \in DOMAIN read' : read'[k].total = Together(Total(k - 1), Whole(read[k].text))'
  <2> TAKE k \in DOMAIN read'
  <2>1. k \in 1..n + 1
    BY <1>9
  <2>2. Total(k - 1)' = Total(k - 1)
    BY <1>12, <2>1
  <2>3. SUFFICES read'[k].total = Together(Total(k - 1), Whole(read'[k].text))
    BY <2>2
  <2>4. CASE k \in 1..n
    <3>1. read[k].total = Together(Total(k - 1), Whole(read[k].text))
      BY <1>9, <2>4 DEF VerdictInv, VerdictWhole
    <3> QED BY <1>8, <2>4, <3>1
  <2>5. CASE k = n + 1
    <3>1. k - 1 = n
      BY <1>5, <2>5
    <3> QED BY <1>6, <1>8, <2>5, <3>1
  <2> QED BY <1>10, <2>1, <2>4, <2>5
<1>14. verdict' = NoVerdict /\ NoVerdict' = NoVerdict
  BY <1>1 DEF ScanDone, NoVerdict
<1>15. VerdictWhole'
  BY <1>13, <1>14 DEF VerdictWhole
<1>16. \E T : read' \in Seq(T)
  BY <1>8
<1>17. scan'.at \in Nat /\ scan'.size \in Nat /\ scan'.at <= scan'.size
  BY <1>4
<1> QED BY <1>3, <1>4, <1>11, <1>15, <1>16, <1>17 DEF VerdictInv

LEMMA LogWrittenInv == VerdictInv /\ LogWritten => VerdictInv'
<1> SUFFICES ASSUME VerdictInv, LogWritten PROVE VerdictInv'
  OBVIOUS
<1>1. touched' = TRUE /\ verdict' = NoVerdict /\ UNCHANGED <<rest, read>>
  BY DEF LogWritten, logsVars
<1> QED BY <1>1, StillWhole DEF VerdictInv

LEMMA VerdictKept == VerdictInv /\ UNCHANGED resultVars => VerdictInv'
<1> SUFFICES ASSUME VerdictInv, UNCHANGED resultVars PROVE VerdictInv'
  OBVIOUS
<1>1. /\ report' = report /\ integrity' = integrity /\ rest' = rest /\ read' = read
      /\ touched' = touched /\ scan' = scan /\ verdict' = verdict
  BY DEF resultVars, logsVars
<1>2. /\ Readable' = Readable /\ Raised' = Raised /\ NoVerdict' = NoVerdict
      /\ \A k : Total(k)' = Total(k)
  BY <1>1 DEF Readable, Raised, NoVerdict, Total, Passed
<1>3. VerdictWhole'
  BY <1>1, <1>2 DEF VerdictInv, VerdictWhole
<1> QED BY <1>1, <1>2, <1>3 DEF VerdictInv

\* However each log of a task is cut into chunks, inside a heading or a number too,
\* it counts as what it comes to when read at once; the verdict is the worst of the
\* logs, and a log that may not be read or was written to meanwhile fails the
\* evaluation: for all logs, and however many symbols are kept back
\* (results.py:43-72, 84-118).
THEOREM VerdictIsWhole == ScansSpec => []VerdictWhole
<1> DEFINE Inv == ResultIdle \/ VerdictInv
<1>1. ScansInit => Inv
  BY ResultInitInv DEF ScansInit
<1>2. Inv /\ [ScansNext]_scansVars => Inv'
  <2> SUFFICES ASSUME Inv, [ScansNext]_scansVars PROVE Inv'
    OBVIOUS
  <2>1. (integrity # "none" /\ ResultNext) \/ UNCHANGED resultVars
    BY DEF ScansNext, scansVars
  <2>2. CASE integrity # "none" /\ ResultNext
    <3>1. VerdictInv
      BY <2>2 DEF ResultIdle
    <3>2. \/ ScanRefused \/ ScanOpen \/ ScanPiece \/ ScanShortened
          \/ ScanEnds \/ NextLog \/ LogWritten
      BY <2>2 DEF ResultNext
    <3>3. VerdictInv'
      BY <3>1, <3>2, ScanRefusedInv, ScanOpenInv, ScanPieceInv, ScanShortenedInv,
         ScanEndsInv, NextLogInv, LogWrittenInv
    <3> QED BY <3>3
  <2>3. CASE UNCHANGED resultVars
    <3>1. ResultIdle => ResultIdle'
      BY <2>3 DEF resultVars, logsVars, ResultIdle, NoScan, NoVerdict
    <3> QED BY <2>3, <3>1, VerdictKept
  <2> QED BY <2>1, <2>2, <2>3
<1>3. Inv => VerdictWhole
  <2>1. ResultIdle => VerdictWhole
    <3>1. DOMAIN <<>> = {}
      OBVIOUS
    <3> QED BY <3>1 DEF ResultIdle, VerdictWhole
  <2> QED BY <2>1 DEF VerdictInv
<1> QED BY <1>1, <1>2, <1>3, PTL DEF ScansSpec
=============================================================================
