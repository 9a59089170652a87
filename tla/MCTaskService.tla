--------------------------- MODULE MCTaskService ---------------------------
(* Instances of TaskService for TLC.                                        *)
EXTENDS TaskServiceClaims

CONSTANTS k1, k2

\* Two tasks that exclude each other.
SharedKey == <<{k1}, {k1, k2}>>

\* A holder, a task blocked by it, and two that are free to run.
FourTasks == <<{k1}, {k1}, {}, {k2}>>
=============================================================================
