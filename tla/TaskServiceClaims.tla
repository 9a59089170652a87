------------------------- MODULE TaskServiceClaims -------------------------
(***************************************************************************)
(* A sentence of the repository's documents about the task lifecycle that   *)
(* the code does not keep in every run, checked by a run that is expected   *)
(* to find a counterexample.                                                *)
(***************************************************************************)
EXTENDS TaskService

\* RQ-020: tasks that share a mutual-exclusion key never run at the same time.
\* Here: the control groups of two such tasks are never both populated.
ProcessExclusion ==
    \A t, u \in Task :
        (t # u /\ SharesKey(t, u))
        => ~(UnitOwnsProcessTree(t) /\ UnitOwnsProcessTree(u))
=============================================================================
