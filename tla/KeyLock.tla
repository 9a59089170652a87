------------------------------ MODULE KeyLock ------------------------------
(***************************************************************************)
(* What task admission promises: a task asks once, is granted all its keys  *)
(* and one slot at the same moment, keeps them until it is finished, and    *)
(* never comes back.  TaskService is shown to implement this.               *)
(***************************************************************************)
EXTENDS Integers, FiniteSets

CONSTANTS Task, mutex_keys, Slots

VARIABLE phase

Holding == {t \in Task : phase[t] = "holding"}

\* No two tasks of S share a key.
Disjoint(S) ==
    \A t, u \in S : t # u => mutex_keys[t] \cap mutex_keys[u] = {}

Init == phase = [t \in Task |-> "new"]

Request(t) ==
    /\ phase[t] = "new"
    /\ phase' = [phase EXCEPT ![t] = "waiting"]

\* Several tasks may be admitted at once, if together they are compatible.
Acquire(S) ==
    /\ \A t \in S : phase[t] = "waiting"
    /\ Disjoint(Holding \cup S)
    /\ Cardinality(Holding \cup S) <= Slots
    /\ phase' = [t \in Task |-> IF t \in S THEN "holding" ELSE phase[t]]

\* Waiting tasks may be withdrawn together; holders release one at a time.
Withdraw(S) ==
    /\ \A t \in S : phase[t] = "waiting"
    /\ phase' = [t \in Task |-> IF t \in S THEN "released" ELSE phase[t]]

Release(t) ==
    /\ phase[t] = "holding"
    /\ phase' = [phase EXCEPT ![t] = "released"]

Next ==
    \/ \E t \in Task : Request(t) \/ Release(t)
    \/ \E S \in SUBSET Task : Acquire(S) \/ Withdraw(S)

Spec == Init /\ [][Next]_phase
=============================================================================
