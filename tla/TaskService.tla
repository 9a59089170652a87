---------------------------- MODULE TaskService ----------------------------
(***************************************************************************)
(* The LocalFlow controller: the task rows of storage.py, the coroutines    *)
(* of service.py that move them (scheduler, starters, waiters, stop         *)
(* sequences, recovery, shutdown) and the systemd unit and exit file of     *)
(* executor.py / supervisor.py that they observe.                           *)
(*                                                                          *)
(* The controller is one asyncio event loop, so a stretch of code with no   *)
(* suspending await is one action and every suspending await is a point     *)
(* where the other coroutines, systemd and a crash may step in.             *)
(*                                                                          *)
(* A definition marked "Mutant:" is a plausible bug, used only to check     *)
(* that a property notices it; the specification does not refer to it.      *)
(***************************************************************************)
EXTENDS Integers, FiniteSets

CONSTANTS
    MaxTask,          \* bound: task numbers are 1..MaxTask
    Key,              \* mutual-exclusion keys
    mutex_keys,       \* mutex_keys[t]: the keys task t was submitted with
    None,             \* max_concurrency when no integer limit is configured
    max_concurrency,  \* the configured limit, or None
    ScanLimit,        \* page size of one scheduler scan
    StopActions,      \* number of gentle stop actions of a task
    Events            \* which of AllEvents may happen in this instance

\* What requests, programs and the host may do to the controller.
AllEvents == {"interrupt", "shutdown", "start_error", "probe_error",
              "kill_error", "torn_exit", "killed_by_host", "crash", "reboot"}

\* Task t is the t-th row in the order (created_at, id) of list_tasks.
Task == 1..MaxTask

ASSUME ConstantsAssumption ==
    /\ MaxTask \in Nat
    /\ mutex_keys \in [Task -> SUBSET Key]
    /\ None \notin Nat
    /\ max_concurrency \in (Nat \ {0}) \cup {None}
    /\ ScanLimit \in Nat \ {0}
    /\ StopActions \in Nat
    /\ Events \subseteq AllEvents

VARIABLES
    \* Durable: rows of the tasks table.
    state,      \* state[t]: the lifecycle state, "absent" before submission
    stage,      \* stage[t]: interrupt_stage
    ref,        \* ref[t]: executor_ref has been recorded
    blocked_by, \* blocked_by[t]: the blockers recorded for a queued task
    \* Outside the controller: systemd units and files.
    unit,       \* unit[t]: the transient unit of the task
    killed,     \* killed[t]: SIGKILL was delivered to the control group
    exit,       \* exit[t]: contents of <task>.exit
    rebooted,   \* the boot id differs from the one in host-boot.json
    \* Volatile: the controller process.
    ctl,        \* what the controller process is doing
    todo,       \* tasks its recovery or shutdown loop has yet to visit
    seen,       \* completed_code as recovery read it for the task it is at
    cursor,     \* _queue_cursor, 0 for None
    starter,    \* _starters: the _start coroutine of a task
    waiter,     \* _waiters: the _wait coroutine of a task
    seq         \* _interrupts: the _interrupt_sequence coroutine of a task

rowVars == <<state, stage, ref, blocked_by>>
unitVars == <<unit, killed, exit, rebooted>>
loopVars == <<ctl, todo, seen, cursor>>
coVars == <<starter, waiter, seq>>
vars == <<rowVars, unitVars, loopVars, coVars>>

-----------------------------------------------------------------------------
(* Types                                                                   *)

ActiveStates == {"starting", "running", "stopping"}
TERMINAL_STATES == {"succeeded", "failed", "cancelled", "lost"}
TaskState == {"absent", "queued"} \cup ActiveStates \cup TERMINAL_STATES

\* interrupt_stage: NULL, "queued", "requested", "stop:<index>:...", "sigkill".
Stage == [kind : {"none", "queued", "requested", "stop", "sigkill"}, index : Nat]
StageOf(kind) == [kind |-> kind, index |-> 0]
StopStage(i) == [kind |-> "stop", index |-> i]

\* A unit is requested by systemd-run, runs the program, writes the exit file,
\* is deactivating while its control group empties, and is then gone.
UnitState == {"none", "requested", "active", "writing", "deactivating", "gone"}
ExitCode == {"zero", "nonzero"}
ExitFile == {"missing", "torn"} \cup ExitCode

Ctl == {"down", "recovering", "up", "closing", "draining", "forcing", "killing",
        "confirming", "stopped"}
Starter == {"none", "created", "launching"}
NoWait == [pc |-> "none", outcome |-> "none"]
Waiting == [pc |-> "waiting", outcome |-> "none"]
Probing == [pc |-> "probing", outcome |-> "none"]
Finishing(s) == [pc |-> "finishing", outcome |-> s]
Waiter == {NoWait, Waiting, Probing} \cup {Finishing(s) : s \in TERMINAL_STATES}
NoSeq == [pc |-> "none", index |-> 0]
SeqAt(pc, i) == [pc |-> pc, index |-> i]
StopSeq == [pc : {"none", "actions", "killing", "confirming"}, index : Nat]

-----------------------------------------------------------------------------
(* Reading the rows and the units                                          *)

Active(t) == state[t] \in ActiveStates
Terminal(t) == state[t] \in TERMINAL_STATES
ActiveTasks == {t \in Task : Active(t)}
Queued == {t \in Task : state[t] = "queued"}

\* The processes of the task exist: systemd reports a nonterminal ActiveState.
UnitOwnsProcessTree(t) == unit[t] \in {"active", "writing", "deactivating"}

\* SystemdExecutor.is_running: without a recorded executor_ref it is False.
IsRunning(t) == ref[t] /\ UnitOwnsProcessTree(t)

\* The control group may vanish at once: SIGKILL, the OOM killer, a failing host.
MayVanish(t) == killed[t] \/ "killed_by_host" \in Events

\* is_running raises when systemctl does, which it asks only about a recorded unit.
ProbeMayFail(t) == ref[t] /\ "probe_error" \in Events

\* Mutant: the row is written whatever state it is in.
Overwrite(t, expected, new) == [state EXCEPT ![t] = new]

\* Store.transition: compare-and-set on the row's state.
Transition(t, expected, new) ==
    IF state[t] \in expected THEN [state EXCEPT ![t] = new] ELSE state

\* The terminal state _wait and recover derive from an exit code.
Outcome(t, code) ==
    IF stage[t].kind # "none" THEN "cancelled"
    ELSE IF code = "zero" THEN "succeeded" ELSE "failed"

-----------------------------------------------------------------------------
(* The controller loses its memory: every coroutine is gone                 *)

Wipe ==
    /\ ctl' = "down"
    /\ todo' = {}
    /\ seen' = "unread"
    /\ cursor' = 0
    /\ starter' = [t \in Task |-> "none"]
    /\ waiter' = [t \in Task |-> NoWait]
    /\ seq' = [t \in Task |-> NoSeq]

Init ==
    /\ state = [t \in Task |-> "absent"]
    /\ stage = [t \in Task |-> StageOf("none")]
    /\ ref = [t \in Task |-> FALSE]
    /\ blocked_by = [t \in Task |-> {}]
    /\ unit = [t \in Task |-> "none"]
    /\ killed = [t \in Task |-> FALSE]
    /\ exit = [t \in Task |-> "missing"]
    /\ rebooted = FALSE
    /\ ctl = "down"
    /\ todo = {}
    /\ seen = "unread"
    /\ cursor = 0
    /\ starter = [t \in Task |-> "none"]
    /\ waiter = [t \in Task |-> NoWait]
    /\ seq = [t \in Task |-> NoSeq]

-----------------------------------------------------------------------------
(* Requests                                                                *)

\* TaskService.submit: one queued row.  Rows are created in list_tasks order.
Submit(t) ==
    /\ ctl = "up"
    /\ state[t] = "absent"
    /\ \A u \in Task : u < t => state[u] # "absent"
    /\ state' = [state EXCEPT ![t] = "queued"]
    /\ UNCHANGED <<stage, ref, blocked_by, unitVars, loopVars, coVars>>

\* What TaskService.interrupt does to the tasks of T, of which none is stopping.
InterruptAll(T) ==
    LET waiting == {t \in T : state[t] = "queued"}
        launched == {t \in T : state[t] \in {"starting", "running"}
                                 /\ seq[t] = NoSeq}
    IN  /\ state' = [t \in Task |-> IF t \in waiting THEN "cancelled"
                                    ELSE IF t \in launched THEN "stopping"
                                    ELSE state[t]]
        /\ stage' = [t \in Task |-> IF t \in waiting THEN StageOf("queued")
                                    ELSE IF t \in launched THEN StageOf("requested")
                                    ELSE stage[t]]
        /\ seq' = [t \in Task |-> IF t \in launched THEN SeqAt("actions", 0)
                                  ELSE seq[t]]

\* A repeated request only cuts the current wait short, which the untimed stop
\* sequence may do anyway; it changes no row.
Interrupt(t) ==
    /\ "interrupt" \in Events
    /\ ctl = "up"
    /\ state[t] \in {"queued", "starting", "running"}
    /\ InterruptAll({t})
    /\ UNCHANGED <<ref, blocked_by, unitVars, loopVars, starter, waiter>>

-----------------------------------------------------------------------------
(* Scheduler                                                               *)

Slots == IF max_concurrency = None THEN Cardinality(Task) ELSE max_concurrency

Capacity == Slots - Cardinality(ActiveTasks)

FirstPage(Q) == {t \in Q : Cardinality({u \in Q : u < t}) < ScanLimit}

\* The page of queued rows one scan reads: after the cursor, or from the start
\* of the queue when nothing is left after it.
Window ==
    LET after == {t \in Queued : t > cursor}
    IN  IF after # {} THEN FirstPage(after) ELSE FirstPage(Queued)

SharesKey(t, u) == mutex_keys[t] \cap mutex_keys[u] # {}

\* Mutant: one row too many is visited.
ScannedOneMore(S) == {t \in Window : Cardinality({s \in S : s < t}) <= Capacity}

\* The rows the loop visits before it runs out of capacity, when S starts.
Scanned(S) == {t \in Window : Cardinality({s \in S : s < t}) < Capacity}

\* Mutant: keys taken earlier in the same scan are forgotten.
HoldersBeforeScan(S, t) == {u \in Task : Active(u) /\ SharesKey(t, u)}

\* Mutant: a finished task keeps its keys.
HoldersLeaking(S, t) ==
    {u \in Task \ {t} : state[u] \notin {"absent", "queued"} /\ SharesKey(t, u)}

\* Mutant: queued tasks count as holders.
HoldersQueued(S, t) ==
    {u \in Task \ {t} : (Active(u) \/ u \in Queued) /\ SharesKey(t, u)}

\* The tasks whose keys a scan that starts S finds held when it reaches t.
Holders(S, t) ==
    {u \in Task : (Active(u) \/ (u \in S /\ u < t)) /\ SharesKey(t, u)}

\* S is what the loop starts: the rows it visits that meet no held key.
Admits(S) == S = {t \in Scanned(S) : Holders(S, t) = {}}

\* The loop's effect once it has visited the rows up to and including c.
SchedulePrefix(S, c) ==
    /\ state' = [t \in Task |-> IF t \in S /\ t <= c THEN "starting" ELSE state[t]]
    /\ blocked_by' = [t \in Task |-> IF t \in Scanned(S) /\ t <= c
                                     THEN Holders(S, t) ELSE blocked_by[t]]

\* TaskService._schedule, one tick: it never suspends.
Schedule ==
    /\ ctl = "up"
    /\ Capacity > 0
    /\ \E S \in SUBSET Window :
        /\ Admits(S)
        /\ SchedulePrefix(S, MaxTask)
        /\ starter' = [t \in Task |-> IF t \in S THEN "created" ELSE starter[t]]
        /\ IF Scanned(S) = Window /\ Cardinality(Window) < ScanLimit
           THEN cursor' = 0
           ELSE cursor' \in {t \in Scanned(S) : \A u \in Scanned(S) : u <= t}
    /\ UNCHANGED <<stage, ref, unitVars, ctl, todo, seen, waiter, seq>>

\* Every row of the scan is a transaction of its own: a crash keeps a prefix.
CrashInSchedule ==
    /\ "crash" \in Events
    /\ ctl = "up"
    /\ Capacity > 0
    /\ \E S \in SUBSET Window : \E c \in S : Admits(S) /\ SchedulePrefix(S, c)
    /\ Wipe
    /\ UNCHANGED <<stage, ref, unitVars>>

-----------------------------------------------------------------------------
(* Starters: TaskService._start around SystemdExecutor.start               *)

\* The descriptor is written and systemd-run is spawned.
StartSpawn(t) ==
    /\ starter[t] = "created"
    /\ starter' = [starter EXCEPT ![t] = "launching"]
    /\ unit' = [unit EXCEPT ![t] = "requested"]
    /\ UNCHANGED <<rowVars, killed, exit, rebooted, loopVars, waiter, seq>>

\* systemd-run succeeded: the reference is recorded only if the row is still
\* starting; the waiter is created in any case.
StartReturns(t) ==
    /\ starter[t] = "launching"
    /\ unit[t] \notin {"none", "requested"}
    /\ state' = Transition(t, {"starting"}, "running")
    /\ ref' = [ref EXCEPT ![t] = @ \/ state[t] = "starting"]
    /\ starter' = [starter EXCEPT ![t] = "none"]
    /\ waiter' = [waiter EXCEPT ![t] = Waiting]
    /\ UNCHANGED <<stage, blocked_by, unitVars, loopVars, seq>>

\* Spawning or systemd-run failed: no unit will appear and no waiter is created.
StartFails(t) ==
    /\ "start_error" \in Events
    /\ \/ starter[t] = "created"
       \/ starter[t] = "launching" /\ unit[t] = "requested"
    /\ state' = Transition(t, {"starting"}, "failed")
    /\ starter' = [starter EXCEPT ![t] = "none"]
    /\ unit' = [unit EXCEPT ![t] = "gone"]
    /\ UNCHANGED <<stage, ref, blocked_by, killed, exit, rebooted, loopVars,
                   waiter, seq>>

-----------------------------------------------------------------------------
(* Waiters: TaskService._wait                                              *)

\* With a code in hand: the row is read and the outcome computed from it; the
\* result is then evaluated in a thread, so the outcome is written later.
Collect(t, code) ==
    waiter' = [waiter EXCEPT ![t] =
                 IF Terminal(t) THEN NoWait ELSE Finishing(Outcome(t, code))]

\* Mutant: the exit file alone ends the wait.
WaitReturnsOnFile(t) ==
    /\ waiter[t] = Waiting
    /\ exit[t] \in ExitCode
    /\ Collect(t, exit[t])
    /\ UNCHANGED <<rowVars, unitVars, loopVars, starter, seq>>

\* executor.wait returns once the unit is inactive; no exit file means 137.
WaitReturns(t) ==
    /\ waiter[t] = Waiting
    /\ ~UnitOwnsProcessTree(t)
    /\ exit[t] # "torn"
    /\ Collect(t, IF exit[t] = "missing" THEN "nonzero" ELSE exit[t])
    /\ UNCHANGED <<rowVars, unitVars, loopVars, starter, seq>>

\* executor.wait raises: systemctl failed, or the exit file does not parse.
WaitError(t) ==
    /\ waiter[t] = Waiting
    /\ \/ "probe_error" \in Events
       \/ ~UnitOwnsProcessTree(t) /\ exit[t] = "torn"
    /\ waiter' = [waiter EXCEPT ![t] = Probing]
    /\ UNCHANGED <<rowVars, unitVars, loopVars, starter, seq>>

\* Mutant: the waiter gives up instead of trying again.
WaitProbeOnce(t) ==
    /\ waiter[t] = Probing
    /\ waiter' = [waiter EXCEPT ![t] = NoWait]
    /\ UNCHANGED <<rowVars, unitVars, loopVars, starter, seq>>

\* After an error the waiter asks is_running, then completed_code.  A probe that
\* raises counts as running.
WaitProbe(t) ==
    /\ waiter[t] = Probing
    /\ \/ /\ ~IsRunning(t) /\ exit[t] \in ExitCode
          /\ Collect(t, exit[t])
          /\ UNCHANGED state
       \/ /\ ~IsRunning(t) /\ exit[t] = "missing"
          /\ state' = Transition(t, ActiveStates, "lost")
          /\ waiter' = [waiter EXCEPT ![t] = NoWait]
       \/ /\ IsRunning(t) \/ exit[t] = "torn" \/ ProbeMayFail(t)
          /\ waiter' = [waiter EXCEPT ![t] = Waiting]
          /\ UNCHANGED state
    /\ UNCHANGED <<stage, ref, blocked_by, unitVars, loopVars, starter, seq>>

\* The evaluation is done: the outcome computed before it is written.
WaitFinish(t) ==
    /\ waiter[t].pc = "finishing"
    /\ state' = Transition(t, ActiveStates, waiter[t].outcome)
    /\ waiter' = [waiter EXCEPT ![t] = NoWait]
    /\ UNCHANGED <<stage, ref, blocked_by, unitVars, loopVars, starter, seq>>

-----------------------------------------------------------------------------
(* Stop sequences: TaskService._interrupt_sequence                         *)

\* A gentle action is recorded, sent and waited for; whether it made the program
\* exit shows in the unit, and one that raises is skipped.
SeqAction(t) ==
    /\ seq[t].pc = "actions"
    /\ seq[t].index < StopActions
    /\ IF Terminal(t)
       THEN seq' = [seq EXCEPT ![t] = NoSeq] /\ UNCHANGED <<state, stage>>
       ELSE /\ state' = Transition(t, ActiveStates, "stopping")
            /\ stage' = [stage EXCEPT ![t] = StopStage(seq[t].index)]
            /\ seq' = [seq EXCEPT ![t] = SeqAt("actions", @.index + 1)]
    /\ UNCHANGED <<ref, blocked_by, unitVars, loopVars, starter, waiter>>

\* The actions are used up: record the forced stage before the signal is sent.
SeqEscalate(t) ==
    /\ seq[t].pc = "actions"
    /\ seq[t].index >= StopActions
    /\ IF Terminal(t)
       THEN seq' = [seq EXCEPT ![t] = NoSeq] /\ UNCHANGED <<state, stage>>
       ELSE /\ state' = Transition(t, ActiveStates, "stopping")
            /\ stage' = [stage EXCEPT ![t] = StageOf("sigkill")]
            /\ seq' = [seq EXCEPT ![t] = SeqAt("killing", 0)]
    /\ UNCHANGED <<ref, blocked_by, unitVars, loopVars, starter, waiter>>

\* SystemdExecutor.interrupt(t, "sigkill"): without a unit it has no effect.
KillSent(t) == killed' = [killed EXCEPT ![t] = @ \/ UnitOwnsProcessTree(t)]

SeqKill(t) ==
    /\ seq[t].pc = "killing"
    /\ KillSent(t)
    /\ seq' = [seq EXCEPT ![t] = SeqAt("confirming", 0)]
    /\ UNCHANGED <<rowVars, unit, exit, rebooted, loopVars, starter, waiter>>

\* systemctl kill fails or times out: the exception ends the sequence.
SeqKillError(t) ==
    /\ "kill_error" \in Events
    /\ seq[t].pc = "killing"
    /\ seq' = [seq EXCEPT ![t] = NoSeq]
    /\ UNCHANGED <<rowVars, unitVars, loopVars, starter, waiter>>

\* _confirm_forced_exit sees a parsed exit code and no running tree.
ExitConfirmed(t) == ~IsRunning(t) /\ exit[t] \in ExitCode

\* Mutant: a task that is not running is left as it is.
ConfirmEndsUnrecorded(t) == (Terminal(t) \/ ~IsRunning(t)) /\ UNCHANGED state

\* One round of _confirm_forced_exit that ends the loop.
ConfirmEnds(t) ==
    \/ Terminal(t) /\ UNCHANGED state
    \/ /\ ~Terminal(t) /\ ExitConfirmed(t)
       /\ state' = Transition(t, {"stopping"}, "cancelled")

\* One round that does not: the signal is sent again.
ConfirmRetries(t) ==
    ~Terminal(t) /\ (~ExitConfirmed(t) \/ ProbeMayFail(t))

\* Mutant: the signal is not sent again.
SeqConfirmSilent(t) ==
    /\ seq[t].pc = "confirming"
    /\ ConfirmEnds(t)
    /\ seq' = [seq EXCEPT ![t] = NoSeq]
    /\ UNCHANGED <<stage, ref, blocked_by, unitVars, loopVars, starter, waiter>>

SeqConfirm(t) ==
    /\ seq[t].pc = "confirming"
    /\ \/ ConfirmEnds(t) /\ seq' = [seq EXCEPT ![t] = NoSeq]
       \/ /\ ConfirmRetries(t)
          /\ seq' = [seq EXCEPT ![t] = SeqAt("killing", 0)]
          /\ UNCHANGED state
    /\ UNCHANGED <<stage, ref, blocked_by, unitVars, loopVars, starter, waiter>>

-----------------------------------------------------------------------------
(* Recovery: TaskService.start and recover                                 *)

\* The row a loop over todo is at: list_tasks order.
AtHead(t) == t \in todo /\ \A u \in todo : t <= u

StartController ==
    /\ ctl = "down"
    /\ ctl' = "recovering"
    /\ todo' = ActiveTasks
    /\ UNCHANGED <<rowVars, unitVars, seen, cursor, coVars>>

\* After a host reboot every unfinished row is lost.
RecoverRebooted(t) ==
    /\ ctl = "recovering" /\ AtHead(t)
    /\ rebooted
    /\ state' = Transition(t, ActiveStates, "lost")
    /\ todo' = todo \ {t}
    /\ UNCHANGED <<stage, ref, blocked_by, unitVars, ctl, seen, cursor, coVars>>

\* completed_code is read before is_running is awaited.
RecoverRead(t) ==
    /\ ctl = "recovering" /\ AtHead(t)
    /\ ~rebooted
    /\ seen = "unread"
    /\ exit[t] # "torn"
    /\ seen' = exit[t]
    /\ UNCHANGED <<rowVars, unitVars, ctl, todo, cursor, coVars>>

\* An exit file that does not parse, or a failing probe, ends the start-up.
RecoverError(t) ==
    /\ ctl = "recovering" /\ AtHead(t)
    /\ ~rebooted
    /\ \/ seen = "unread" /\ exit[t] = "torn"
       \/ seen # "unread" /\ ProbeMayFail(t)
    /\ Wipe
    /\ UNCHANGED <<rowVars, unitVars>>

\* Mutant: one action too early.
PreviousActionIndex(s) == IF s.kind = "stop" THEN s.index - 1 ELSE 0

\* _interrupted_action_index: where a restarted sequence resumes.
InterruptedActionIndex(s) == IF s.kind = "stop" THEN s.index ELSE 0

\* Mutant: no exit record counts as success.
RecoverDefaultZero(t, code) ==
    Outcome(t, IF code = "missing" THEN "zero" ELSE code)

\* Mutant: a task that was not running is queued again.
RecoverRequeue(t, code) ==
    IF code \in ExitCode THEN Outcome(t, code) ELSE "queued"

\* What recovery makes of a task that is not running, from the code it read.
RecoverOutcome(t, code) ==
    IF code \in ExitCode THEN Outcome(t, code)
    ELSE IF stage[t].kind = "sigkill" THEN "cancelled" ELSE "lost"

RecoverDecide(t) ==
    /\ ctl = "recovering" /\ AtHead(t)
    /\ seen # "unread"
    /\ \/ /\ IsRunning(t)
          /\ waiter' = [waiter EXCEPT ![t] = Waiting]
          /\ seq' = IF stage[t].kind = "none" THEN seq
                    ELSE [seq EXCEPT ![t] =
                            SeqAt("actions", InterruptedActionIndex(stage[t]))]
          /\ UNCHANGED state
       \/ /\ ~IsRunning(t)
          /\ state' = Transition(t, ActiveStates, RecoverOutcome(t, seen))
          /\ UNCHANGED <<waiter, seq>>
    /\ todo' = todo \ {t}
    /\ seen' = "unread"
    /\ UNCHANGED <<stage, ref, blocked_by, unitVars, ctl, cursor, starter>>

\* The boot id is saved and the scheduler loop created.
RecoverDone ==
    /\ ctl = "recovering"
    /\ todo = {}
    /\ ctl' = "up"
    /\ rebooted' = FALSE
    /\ UNCHANGED <<rowVars, unit, killed, exit, todo, seen, cursor, coVars>>

-----------------------------------------------------------------------------
(* Shutdown: TaskService.shutdown_all, then stop                           *)

\* The scheduler loop ends; from here no request reaches the controller.
ShutdownBegin ==
    /\ "shutdown" \in Events
    /\ ctl = "up"
    /\ ctl' = "closing"
    /\ UNCHANGED <<rowVars, unitVars, todo, seen, cursor, coVars>>

\* The dispatched starters have finished; every queued, starting and running
\* task is interrupted.
ShutdownInterrupt ==
    /\ ctl = "closing"
    /\ \A t \in Task : starter[t] = "none"
    /\ InterruptAll(Task)
    /\ ctl' = "draining"
    /\ UNCHANGED <<ref, blocked_by, unitVars, todo, seen, cursor, starter, waiter>>

ShutdownDrained ==
    /\ ctl = "draining"
    /\ ActiveTasks \cup Queued = {}
    /\ ctl' = "stopped"
    /\ UNCHANGED <<rowVars, unitVars, todo, seen, cursor, coVars>>

\* The deadline passed: the remaining sequences are cancelled.
ShutdownDeadline ==
    /\ ctl = "draining"
    /\ ActiveTasks \cup Queued # {}
    /\ ctl' = "forcing"
    /\ todo' = ActiveTasks \cup Queued
    /\ seq' = [t \in Task |-> IF t \in todo' THEN NoSeq ELSE seq[t]]
    /\ UNCHANGED <<rowVars, unitVars, seen, cursor, starter, waiter>>

ForceMark(t) ==
    /\ ctl = "forcing" /\ AtHead(t)
    /\ ctl' = "killing"
    /\ state' = Transition(t, ActiveStates, "stopping")
    /\ stage' = IF Active(t) THEN [stage EXCEPT ![t] = StageOf("sigkill")] ELSE stage
    /\ UNCHANGED <<ref, blocked_by, unitVars, todo, seen, cursor, coVars>>

\* After the last signal the loop starts over the same tasks to confirm them:
\* those it still finds nonterminal.
ForceKill(t) ==
    /\ ctl = "killing" /\ AtHead(t)
    /\ KillSent(t)
    /\ IF todo = {t}
       THEN ctl' = "confirming" /\ todo' = ActiveTasks
       ELSE ctl' = "forcing" /\ todo' = todo \ {t}
    /\ UNCHANGED <<rowVars, unit, exit, rebooted, seen, cursor, coVars>>

ForceConfirm(t) ==
    /\ ctl = "confirming" /\ AtHead(t)
    /\ \/ ConfirmEnds(t) /\ todo' = todo \ {t} /\ UNCHANGED killed
       \/ ConfirmRetries(t) /\ KillSent(t) /\ UNCHANGED <<state, todo>>
    /\ UNCHANGED <<stage, ref, blocked_by, unit, exit, rebooted, ctl, seen, cursor,
                   coVars>>

ForceConfirmed ==
    /\ ctl = "confirming"
    /\ todo = {}
    /\ ctl' = "stopped"
    /\ UNCHANGED <<rowVars, unitVars, todo, seen, cursor, coVars>>

\* A failing systemctl kill leaves shutdown_all, and with it the process.
ForceError(t) ==
    /\ "kill_error" \in Events
    /\ AtHead(t)
    /\ \/ ctl = "killing"
       \/ ctl = "confirming" /\ ConfirmRetries(t)
    /\ Wipe
    /\ UNCHANGED <<rowVars, unitVars>>

\* TaskService.stop cancels the remaining coroutines and the process exits.
ControllerExit ==
    /\ ctl = "stopped"
    /\ Wipe
    /\ UNCHANGED <<rowVars, unitVars>>

-----------------------------------------------------------------------------
(* The unit: systemd and the supervisor                                    *)

UnitStarts(t) ==
    /\ unit[t] = "requested"
    /\ unit' = [unit EXCEPT ![t] = "active"]
    /\ UNCHANGED <<rowVars, killed, exit, rebooted, loopVars, coVars>>

\* The program ends; the supervisor opens the exit file, truncating it.
ProgramExits(t) ==
    /\ unit[t] = "active"
    /\ unit' = [unit EXCEPT ![t] = "writing"]
    /\ exit' = [exit EXCEPT ![t] = IF "torn_exit" \in Events THEN "torn" ELSE @]
    /\ UNCHANGED <<rowVars, killed, rebooted, loopVars, coVars>>

\* The supervisor has written the code and returns.
ExitRecorded(t) ==
    /\ unit[t] = "writing"
    /\ unit' = [unit EXCEPT ![t] = "deactivating"]
    /\ \E code \in ExitCode : exit' = [exit EXCEPT ![t] = code]
    /\ UNCHANGED <<rowVars, killed, rebooted, loopVars, coVars>>

\* The control group is empty and the unit is collected.
UnitInactive(t) ==
    /\ unit[t] = "deactivating"
    /\ unit' = [unit EXCEPT ![t] = "gone"]
    /\ UNCHANGED <<rowVars, killed, exit, rebooted, loopVars, coVars>>

\* The whole control group is killed; a half-written exit file stays as it is.
UnitVanishes(t) ==
    /\ UnitOwnsProcessTree(t)
    /\ MayVanish(t)
    /\ unit' = [unit EXCEPT ![t] = "gone"]
    /\ UNCHANGED <<rowVars, killed, exit, rebooted, loopVars, coVars>>

-----------------------------------------------------------------------------
(* Crashes                                                                 *)

\* The controller dies; units live on, and so does a systemd-run in flight.
Crash ==
    /\ "crash" \in Events
    /\ ctl # "down"
    /\ Wipe
    /\ UNCHANGED <<rowVars, unitVars>>

\* The host goes down: every unit is gone, rows and exit files stay.
Reboot ==
    /\ "reboot" \in Events
    /\ unit' = [t \in Task |-> IF unit[t] = "none" THEN "none" ELSE "gone"]
    /\ rebooted' = TRUE
    /\ Wipe
    /\ UNCHANGED <<rowVars, killed, exit>>

-----------------------------------------------------------------------------

TaskRequest(t) == Submit(t) \/ Interrupt(t)
StarterStep(t) == StartSpawn(t) \/ StartReturns(t) \/ StartFails(t)
WaiterStep(t) == WaitReturns(t) \/ WaitError(t) \/ WaitProbe(t) \/ WaitFinish(t)
SeqStep(t) == SeqAction(t) \/ SeqEscalate(t) \/ SeqKill(t) \/ SeqKillError(t)
              \/ SeqConfirm(t)
RecoverStep(t) == RecoverRebooted(t) \/ RecoverRead(t) \/ RecoverError(t)
                  \/ RecoverDecide(t)
ForceStep(t) == ForceMark(t) \/ ForceKill(t) \/ ForceConfirm(t) \/ ForceError(t)
ShutdownStep == ShutdownBegin \/ ShutdownInterrupt \/ ShutdownDrained \/ ShutdownDeadline
                \/ ForceConfirmed \/ ControllerExit
UnitStep(t) == UnitStarts(t) \/ ProgramExits(t) \/ ExitRecorded(t) \/ UnitInactive(t)
               \/ UnitVanishes(t)

Next ==
    \/ \E t \in Task : TaskRequest(t) \/ StarterStep(t) \/ WaiterStep(t) \/ SeqStep(t)
                       \/ RecoverStep(t) \/ ForceStep(t) \/ UnitStep(t)
    \/ Schedule \/ CrashInSchedule
    \/ StartController \/ RecoverDone \/ ShutdownStep
    \/ Crash \/ Reboot

Spec == Init /\ [][Next]_vars

-----------------------------------------------------------------------------
(* Fairness                                                                *)

\* asyncio runs every ready coroutine and every timer fires; systemd finishes
\* the jobs it has accepted; a control group that got SIGKILL empties; a unit that
\* is inspected again and again is inspected successfully at last.  Requests, errors
\* and crashes are never forced, and a program may run for ever.
Fairness ==
    /\ \A t \in Task :
        /\ WF_vars(StartSpawn(t) \/ StartReturns(t))
        /\ SF_vars(WaitReturns(t)) /\ WF_vars(WaitProbe(t) \/ WaitFinish(t))
        /\ WF_vars(SeqAction(t) \/ SeqEscalate(t) \/ SeqKill(t) \/ SeqConfirm(t))
        /\ WF_vars(RecoverRebooted(t) \/ RecoverRead(t) \/ RecoverDecide(t))
        /\ WF_vars(ForceMark(t) \/ ForceKill(t) \/ ForceConfirm(t))
        /\ WF_vars(UnitStarts(t) \/ ExitRecorded(t) \/ UnitInactive(t))
        /\ WF_vars(killed[t] /\ UnitVanishes(t))
    /\ WF_vars(Schedule)
    /\ WF_vars(StartController \/ RecoverDone)
    /\ WF_vars(ShutdownInterrupt) /\ WF_vars(ShutdownDrained \/ ShutdownDeadline)
    /\ WF_vars(ForceConfirmed \/ ControllerExit)

FairSpec == Spec /\ Fairness

\* The same, for programs that end by themselves.
ProgramsEndSpec == FairSpec /\ \A t \in Task : WF_vars(ProgramExits(t))

-----------------------------------------------------------------------------
(* The abstract lock a task's row stands for                               *)

PhaseOf(s) ==
    CASE s = "absent" -> "new"
      [] s = "queued" -> "waiting"
      [] s \in ActiveStates -> "holding"
      [] s \in TERMINAL_STATES -> "released"
Phase == [t \in Task |-> PhaseOf(state[t])]

Lock == INSTANCE KeyLock WITH phase <- Phase

-----------------------------------------------------------------------------
(* Properties                                                              *)

\* Admission by the rows implements the abstract lock: keys and slot are taken in
\* one step, kept through every stop, crash and recovery, and given up once.
ImplementsKeyLock == Lock!Spec

\* Every variable keeps its type: rows hold states the schema knows, coroutines
\* are at one of their await points.
TypeOK ==
    /\ state \in [Task -> TaskState]
    /\ stage \in [Task -> Stage]
    /\ ref \in [Task -> BOOLEAN]
    /\ blocked_by \in [Task -> SUBSET Task]
    /\ unit \in [Task -> UnitState]
    /\ killed \in [Task -> BOOLEAN]
    /\ exit \in [Task -> ExitFile]
    /\ rebooted \in BOOLEAN
    /\ ctl \in Ctl
    /\ todo \subseteq Task
    /\ seen \in {"unread"} \cup ExitFile
    /\ cursor \in Nat
    /\ starter \in [Task -> Starter]
    /\ waiter \in [Task -> Waiter]
    /\ seq \in [Task -> StopSeq]

\* Two tasks that occupy their keys (starting, running or stopping rows) never
\* share one, through scans cut short by a crash, recovery, stops and shutdown.
KeyExclusion ==
    \A t, u \in Task : t # u /\ Active(t) /\ Active(u) => ~SharesKey(t, u)

\* Starting, running and stopping rows together never exceed max_concurrency.
CapacityBound == Cardinality(ActiveTasks) <= Slots

\* A task whose executor_ref was recorded becomes terminal, and gives up its keys,
\* only after its unit has left: whichever of waiter, stop sequence, shutdown or
\* recovery wrote the row, and however often the controller crashed before.
RecordedUnitGone == \A t \in Task : ref[t] /\ Terminal(t) => unit[t] = "gone"

\* The verdict agrees with the exit record: a task is succeeded only on a recorded
\* zero, and a recorded zero is never reported as a failure.
ReportedOutcome ==
    \A t \in Task : /\ state[t] = "succeeded" => exit[t] = "zero"
                    /\ state[t] = "failed" => exit[t] # "zero"

\* No coroutine that was still under way writes to a row that is terminal.
TerminalIsFinal ==
    [][\A t \in Task : Terminal(t) => state'[t] = state[t] /\ stage'[t] = stage[t]]_vars

\* systemd-run is called at most once for a task, and only while its row is
\* active: a command is never run again by recovery, nor for a cancelled row.
LaunchOnce ==
    [][\A t \in Task : unit[t] # "requested" /\ unit'[t] = "requested"
                       => unit[t] = "none" /\ Active(t)]_vars

\* While the controller is up a starting row has the starter, and a running row the
\* waiter, that will write its next state, also after a recovery.
Supervised ==
    ctl = "up" => \A t \in Task : /\ state[t] = "starting" => starter[t] # "none"
                                  /\ state[t] = "running" => waiter[t] # NoWait

\* When the controller leaves through stop(), no row is queued or active and no
\* recorded unit still owns a process.
CleanExit ==
    ctl = "stopped" => /\ ActiveTasks \cup Queued = {}
                       /\ \A t \in Task : ~IsRunning(t)

\* The blockers recorded for a queued task are other tasks that took one of its
\* keys before it, never tasks that are themselves still waiting.
BlockersHonest ==
    \A t \in Queued : \A b \in blocked_by[t] :
        b # t /\ SharesKey(t, b) /\ state[b] \notin {"absent", "queued"}

\* A requested stop ends: the program need not cooperate.
StopEnds == \A t \in Task : state[t] = "stopping" ~> Terminal(t)

\* Every queued task is started or cancelled if programs end by themselves.
QueueDrains == \A t \in Task : state[t] = "queued" ~> state[t] # "queued"

\* A requested shutdown ends.
ShutdownEnds == ctl = "closing" ~> ctl = "down"

=============================================================================
