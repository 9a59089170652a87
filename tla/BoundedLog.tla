----------------------------- MODULE BoundedLog -----------------------------
(***************************************************************************)
(* BoundedLogWriter of log_files.py: the writers that append to one task    *)
(* log, each with the size it cached when it opened the file, and the       *)
(* integrity receipt kept beside the log.  Several writers may have the     *)
(* file open at once: the controller and the supervisor are two processes.  *)
(*                                                                          *)
(* A line or a chunk is a number of bytes; what the bytes say is left out.  *)
(* A definition marked "Mutant:" is a plausible bug, used only to check     *)
(* that a property notices it.                                              *)
(***************************************************************************)
EXTENDS Integers

CONSTANTS
    Writer,     \* who may have the file open
    MaxBytes,   \* max_bytes, 0 for no limit
    Marker,     \* len(OUTPUT_LIMIT_MARKER)
    KeepFree,   \* keep_free_bytes is not 0
    LogFaults   \* which of AllLogFaults may happen in this instance

AllLogFaults == {"disk_low", "write_error", "receipt_error"}

ASSUME BoundedLogAssumption ==
    /\ MaxBytes \in Nat
    /\ Marker \in Nat \ {0}
    /\ MaxBytes = 0 \/ MaxBytes > Marker
    /\ KeepFree \in BOOLEAN
    /\ LogFaults \subseteq AllLogFaults

VARIABLES
    exists,   \* the log file exists
    size,     \* its length
    marked,   \* it ends with OUTPUT_LIMIT_MARKER
    receipt,  \* the integrity receipt
    disk_low, \* free space is not above keep_free_bytes
    log,      \* log[w]: the BoundedLogWriter object of w
    dropped,  \* history: bytes given to a writer were not stored
    broken,   \* history: an update of the receipt failed
    foreign   \* history: bytes appended while another writer had the file open

logVars == <<exists, size, marked, receipt, disk_low, log, dropped, broken, foreign>>

-----------------------------------------------------------------------------
(* Receipt and writer objects                                              *)

IncompleteReasons == {"file_limit", "disk_reserve", "write_error"}
Receipt == {"missing", "unreadable", "complete", "legacy_unverified"} \cup IncompleteReasons

WriterObject == [open : BOOLEAN, cached : Nat, stopped : BOOLEAN, fresh : BOOLEAN]
NoWriter == [open |-> FALSE, cached |-> 0, stopped |-> FALSE, fresh |-> FALSE]

\* What a reader of the log is told; "complete" is the only positive answer.
output_integrity ==
    CASE ~exists -> "missing"
      [] exists /\ receipt # "missing" -> receipt
      [] exists /\ receipt = "missing" /\ marked -> "file_limit"
      [] OTHER -> "legacy_unverified"

\* Overwriting the receipt may fail; it is then removed, and that may fail too.
MarkOutcomes(reason) ==
    (IF receipt = "missing" THEN {"missing"} ELSE {reason})
        \cup (IF "receipt_error" \in LogFaults THEN {"missing", receipt} ELSE {})

\* Mutant: a failing write that stores a part is not reported.
MarkNothing(reason) == receipt' = receipt /\ broken' = broken

\* _mark_incomplete(reason), where reason "none" is no call.
MarkIncomplete(reason) ==
    IF reason = "none"
    THEN UNCHANGED <<receipt, broken>>
    ELSE \E r \in MarkOutcomes(reason) :
            /\ receipt' = r
            /\ broken' = (broken \/ r # reason)

-----------------------------------------------------------------------------
(* Writing                                                                 *)

Least(a, b) == IF a <= b THEN a ELSE b
PayloadLimit == MaxBytes - Marker

Fits(x, n) == MaxBytes = 0 \/ x.cached + n <= PayloadLimit

\* Mutant: a chunk that does not fit is stored whole before the marker.
WholePayload(x, n) == n

\* What write() means to append: all of n, or what is left before the marker.
Payload(x, n) ==
    IF Fits(x, n) THEN n
    ELSE IF x.cached < PayloadLimit THEN PayloadLimit - x.cached ELSE 0

Wanted(x, n) == Payload(x, n) + (IF Fits(x, n) THEN 0 ELSE Marker)

\* The outcomes of write(n) on the object x: the bytes appended, the receipt
\* mark and whether the object goes on storing.  Free space is looked at on the
\* first write of an object and then once per MiB, whichever write that is.
WriteOutcomes(x, n) ==
    IF x.stopped THEN {[kept |-> 0, reason |-> "none"]}
    ELSE (IF KeepFree /\ disk_low THEN {[kept |-> 0, reason |-> "disk_reserve"]} ELSE {})
         \cup (IF KeepFree /\ disk_low /\ x.fresh THEN {}
               ELSE {[kept |-> Wanted(x, n),
                      reason |-> IF Fits(x, n) THEN "none" ELSE "file_limit"]}
                    \cup (IF "write_error" \in LogFaults
                          THEN {[kept |-> k, reason |-> "write_error"] : k \in 0..(Wanted(x, n) - 1)}
                          ELSE {}))

OthersOpen(w) == \E v \in Writer \ {w} : log[v].open

\* write(n) by w, followed by close() when closes holds.
Write(w, n, closes) ==
    /\ log[w].open
    /\ \E o \in WriteOutcomes(log[w], n) :
        /\ size' = size + o.kept
        /\ marked' = IF o.kept = 0 THEN marked
                     ELSE o.reason = "file_limit" /\ o.kept = Wanted(log[w], n)
        /\ MarkIncomplete(o.reason)
        /\ log' = [log EXCEPT ![w] =
                      IF closes THEN NoWriter
                      ELSE [open |-> TRUE, cached |-> @.cached + o.kept, fresh |-> FALSE,
                            stopped |-> @.stopped \/ o.reason # "none"]]
        /\ dropped' = (dropped \/ o.kept < n \/ o.reason # "none")
        /\ foreign' = foreign + (IF OthersOpen(w) THEN o.kept ELSE 0)
    /\ UNCHANGED <<exists, disk_low>>

\* The receipt after the constructor made sure that one exists.
OpenedReceipt ==
    IF receipt # "missing" THEN receipt
    ELSE IF size = 0 THEN "complete" ELSE "legacy_unverified"

\* BoundedLogWriter.__init__
Open(w) ==
    /\ ~log[w].open
    /\ LET full == MaxBytes # 0 /\ size >= MaxBytes
       IN /\ log' = [log EXCEPT ![w] =
                        [open |-> TRUE, cached |-> size, fresh |-> TRUE,
                         stopped |-> OpenedReceipt \in IncompleteReasons \/ full]]
          /\ \/ /\ ~full
                /\ receipt' = OpenedReceipt
                /\ UNCHANGED broken
             \/ /\ full
                /\ MarkIncomplete("file_limit")
    /\ exists' = TRUE
    /\ UNCHANGED <<size, marked, disk_low, dropped, foreign>>

\* Writing the first receipt fails: the constructor raises, an empty receipt stays.
OpenFails(w) ==
    /\ "receipt_error" \in LogFaults
    /\ ~log[w].open
    /\ receipt = "missing"
    /\ receipt' = "unreadable"
    /\ broken' = TRUE
    /\ exists' = TRUE
    /\ UNCHANGED <<size, marked, disk_low, log, dropped, foreign>>

\* The process that holds the writer ends without close().
Abandon(w) ==
    /\ log[w].open
    /\ log' = [log EXCEPT ![w] = NoWriter]
    /\ UNCHANGED <<exists, size, marked, receipt, disk_low, dropped, broken, foreign>>

DiskFills ==
    /\ "disk_low" \in LogFaults
    /\ ~disk_low
    /\ disk_low' = TRUE
    /\ UNCHANGED <<exists, size, marked, receipt, log, dropped, broken, foreign>>

LogInit ==
    /\ exists = FALSE
    /\ size = 0
    /\ marked = FALSE
    /\ receipt = "missing"
    /\ disk_low = FALSE
    /\ log = [w \in Writer |-> NoWriter]
    /\ dropped = FALSE
    /\ broken = FALSE
    /\ foreign = 0

LogNext ==
    \/ \E w \in Writer :
        \/ Open(w)
        \/ OpenFails(w)
        \/ Abandon(w)
        \/ \E n \in Nat \ {0}, closes \in BOOLEAN : Write(w, n, closes)
    \/ DiskFills

LogSpec == LogInit /\ [][LogNext]_logVars

-----------------------------------------------------------------------------
(* Properties                                                              *)

LogTypeOK ==
    /\ exists \in BOOLEAN
    /\ size \in Nat
    /\ marked \in BOOLEAN
    /\ receipt \in Receipt
    /\ disk_low \in BOOLEAN
    /\ log \in [Writer -> WriterObject]
    /\ dropped \in BOOLEAN
    /\ broken \in BOOLEAN
    /\ foreign \in Nat

\* The receipt is honest: while no update of the receipt itself has failed, a
\* log that output_integrity calls complete holds every byte that was handed to
\* any of its writers, whatever limit, full disk or write error was met.
HonestReceipt == output_integrity = "complete" /\ ~broken => ~dropped

\* The file exceeds its limit by no more than what writers appended while
\* another writer, whose cached size they made stale, had the file open, and by
\* one marker if the receipt that says the limit was met could not be kept.
\* With one writer at a time and a receipt the limit is strict.
OverlapBound ==
    MaxBytes # 0 => size <= MaxBytes + foreign + (IF broken THEN Marker - 1 ELSE 0)
=============================================================================
