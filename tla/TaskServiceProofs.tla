------------------------- MODULE TaskServiceProofs -------------------------
(***************************************************************************)
(* Theorems about TaskService for every number of tasks, every assignment   *)
(* of keys, every limit and page size and every set of fault events: types, *)
(* keys, verdicts, units, supervision and shutdown, and then admission (the *)
(* limit, the recorded blockers and the refinement of KeyLock).             *)
(***************************************************************************)
EXTENDS TaskService, TLAPS, FiniteSetTheorems, WellFoundedInduction

-----------------------------------------------------------------------------
(* Type correctness                                                        *)

\* A compare-and-set of a row writes a known state.
LEMMA TransitionType ==
    ASSUME TypeOK, NEW t \in Task, NEW expected, NEW new \in TaskState
    PROVE  Transition(t, expected, new) \in [Task -> TaskState]
BY DEF Transition, TypeOK

\* The verdict computed from an exit code is a terminal state.
LEMMA OutcomeType ==
    ASSUME NEW t \in Task, NEW code
    PROVE  Outcome(t, code) \in TERMINAL_STATES
BY DEF Outcome, TERMINAL_STATES

\* What a coroutine that collects a code becomes.
LEMMA CollectType ==
    ASSUME TypeOK, NEW t \in Task, NEW code, Collect(t, code)
    PROVE  waiter' \in [Task -> Waiter]
<1>1. Outcome(t, code) \in TERMINAL_STATES
  BY OutcomeType
<1>2. (IF Terminal(t) THEN NoWait ELSE Finishing(Outcome(t, code))) \in Waiter
  BY <1>1 DEF Waiter
<1> QED
  BY <1>2 DEF Collect, TypeOK

\* A controller without memory is well typed.
LEMMA WipeType ==
    ASSUME Wipe
    PROVE  /\ ctl' \in Ctl /\ todo' \subseteq Task
           /\ seen' \in {"unread"} \cup ExitFile /\ cursor' \in Nat
           /\ starter' \in [Task -> Starter] /\ waiter' \in [Task -> Waiter]
           /\ seq' \in [Task -> StopSeq]
BY DEF Wipe, Ctl, Starter, Waiter, NoSeq, StopSeq

\* A scan writes known states and tasks.
LEMMA SchedulePrefixType ==
    ASSUME TypeOK, NEW S, NEW c, SchedulePrefix(S, c)
    PROVE  state' \in [Task -> TaskState] /\ blocked_by' \in [Task -> SUBSET Task]
BY DEF SchedulePrefix, TypeOK, TaskState, ActiveStates, Holders

\* An interrupt writes known states, stages and sequences.
LEMMA InterruptAllType ==
    ASSUME TypeOK, NEW T, InterruptAll(T)
    PROVE  /\ state' \in [Task -> TaskState] /\ stage' \in [Task -> Stage]
           /\ seq' \in [Task -> StopSeq]
<1>1. /\ {"cancelled", "stopping"} \subseteq TaskState
      /\ {StageOf("queued"), StageOf("requested")} \subseteq Stage
      /\ SeqAt("actions", 0) \in StopSeq
  BY DEF TaskState, ActiveStates, TERMINAL_STATES, StageOf, Stage, SeqAt, StopSeq
<1> QED
  BY <1>1 DEF InterruptAll, TypeOK

\* Every state, stage and await point the actions below write is a known one.
LEMMA Literals ==
    /\ ActiveStates \subseteq TaskState /\ TERMINAL_STATES \subseteq TaskState
    /\ {"starting", "running", "stopping"} = ActiveStates
    /\ {"cancelled", "failed", "lost"} \subseteq TERMINAL_STATES
    /\ StageOf("sigkill") \in Stage
    /\ \A i \in Nat : /\ StopStage(i) \in Stage
                      /\ SeqAt("actions", i) \in StopSeq
    /\ {SeqAt("killing", 0), SeqAt("confirming", 0), NoSeq} \subseteq StopSeq
    /\ {NoWait, Waiting, Probing} \subseteq Waiter
BY DEF TaskState, ActiveStates, TERMINAL_STATES, StageOf, Stage, StopStage, SeqAt,
       StopSeq, NoSeq, Waiter

\* Every action preserves the types.
LEMMA TypeStep == TypeOK /\ [Next]_vars => TypeOK'
<1> SUFFICES ASSUME TypeOK, [Next]_vars PROVE TypeOK'
  OBVIOUS
<1> USE Literals
<1>1. ASSUME NEW t \in Task, TaskRequest(t) PROVE TypeOK'
  <2>1. CASE Submit(t)
    BY <2>1 DEF Submit, TypeOK, TaskState, unitVars, loopVars, coVars
  <2>2. CASE Interrupt(t)
    BY <2>2, InterruptAllType DEF Interrupt, TypeOK, unitVars, loopVars
  <2> QED
    BY <1>1, <2>1, <2>2 DEF TaskRequest
<1>2. CASE Schedule
  <2>1. PICK S \in SUBSET Window :
          /\ SchedulePrefix(S, MaxTask)
          /\ starter' = [t \in Task |-> IF t \in S THEN "created" ELSE starter[t]]
          /\ cursor' = 0 \/ cursor' \in Scanned(S)
    BY <1>2 DEF Schedule
  <2>2. cursor' \in Nat
    BY <2>1, ConstantsAssumption DEF Scanned, Window, FirstPage, Queued, Task
  <2>3. starter' \in [Task -> Starter]
    BY <2>1 DEF TypeOK, Starter
  <2> QED
    BY <1>2, <2>1, <2>2, <2>3, SchedulePrefixType DEF Schedule, TypeOK, unitVars
<1>3. CASE CrashInSchedule
  BY <1>3, WipeType, SchedulePrefixType DEF CrashInSchedule, TypeOK, unitVars
<1>4. ASSUME NEW t \in Task, StarterStep(t) PROVE TypeOK'
  <2>1. CASE StartSpawn(t)
    BY <2>1 DEF StartSpawn, TypeOK, Starter, UnitState, rowVars, loopVars
  <2>2. CASE StartReturns(t)
    BY <2>2, TransitionType DEF StartReturns, TypeOK, Starter, unitVars, loopVars
  <2>3. CASE StartFails(t)
    BY <2>3, TransitionType DEF StartFails, TypeOK, Starter, UnitState, loopVars
  <2> QED
    BY <1>4, <2>1, <2>2, <2>3 DEF StarterStep
<1>5. ASSUME NEW t \in Task, WaiterStep(t) PROVE TypeOK'
  <2>1. CASE WaitReturns(t)
    BY <2>1, CollectType DEF WaitReturns, TypeOK, rowVars, unitVars, loopVars
  <2>2. CASE WaitError(t)
    BY <2>2 DEF WaitError, TypeOK, rowVars, unitVars, loopVars
  <2>3. CASE WaitProbe(t)
    <3>1. state' \in [Task -> TaskState]
      BY <2>3, TransitionType DEF WaitProbe, TypeOK
    <3>2. waiter' \in [Task -> Waiter]
      BY <2>3, CollectType DEF WaitProbe, TypeOK
    <3> QED
      BY <2>3, <3>1, <3>2 DEF WaitProbe, TypeOK, unitVars, loopVars
  <2>4. CASE WaitFinish(t)
    <3>1. waiter[t].outcome \in TERMINAL_STATES
      BY <2>4 DEF WaitFinish, TypeOK, Waiter, NoWait, Waiting, Probing, Finishing
    <3>2. state' \in [Task -> TaskState]
      BY <2>4, <3>1, TransitionType DEF WaitFinish
    <3> QED
      BY <2>4, <3>2 DEF WaitFinish, TypeOK, unitVars, loopVars
  <2> QED
    BY <1>5, <2>1, <2>2, <2>3, <2>4 DEF WaiterStep
<1>6. ASSUME NEW t \in Task, SeqStep(t) PROVE TypeOK'
  <2>1. CASE SeqAction(t)
    <3>1. seq[t].index \in Nat
      BY DEF TypeOK, StopSeq
    <3>2. state' \in [Task -> TaskState] /\ stage' \in [Task -> Stage]
      BY <2>1, <3>1, TransitionType DEF SeqAction, TypeOK
    <3>3. seq' \in [Task -> StopSeq]
      BY <2>1, <3>1 DEF SeqAction, TypeOK
    <3> QED
      BY <2>1, <3>2, <3>3 DEF SeqAction, TypeOK, unitVars, loopVars
  <2>2. CASE SeqEscalate(t)
    <3>1. state' \in [Task -> TaskState] /\ stage' \in [Task -> Stage]
      BY <2>2, TransitionType DEF SeqEscalate, TypeOK
    <3> QED
      BY <2>2, <3>1 DEF SeqEscalate, TypeOK, unitVars, loopVars
  <2>3. CASE SeqKill(t)
    BY <2>3 DEF SeqKill, KillSent, UnitOwnsProcessTree, TypeOK, rowVars, loopVars
  <2>4. CASE SeqKillError(t)
    BY <2>4 DEF SeqKillError, TypeOK, rowVars, unitVars, loopVars
  <2>5. CASE SeqConfirm(t)
    <3>1. state' \in [Task -> TaskState]
      BY <2>5, TransitionType DEF SeqConfirm, ConfirmEnds, TypeOK
    <3> QED
      BY <2>5, <3>1 DEF SeqConfirm, TypeOK, unitVars, loopVars
  <2> QED
    BY <1>6, <2>1, <2>2, <2>3, <2>4, <2>5 DEF SeqStep
<1>7. CASE StartController
  BY <1>7 DEF StartController, ActiveTasks, Ctl, TypeOK, rowVars, unitVars, coVars
<1>8. ASSUME NEW t \in Task, RecoverStep(t) PROVE TypeOK'
  <2>1. CASE RecoverRebooted(t)
    BY <2>1, TransitionType DEF RecoverRebooted, TypeOK, unitVars, coVars
  <2>2. CASE RecoverRead(t)
    BY <2>2 DEF RecoverRead, TypeOK, rowVars, unitVars, coVars
  <2>3. CASE RecoverError(t)
    BY <2>3, WipeType DEF RecoverError, TypeOK, rowVars, unitVars
  <2>4. CASE RecoverDecide(t)
    <3>1. InterruptedActionIndex(stage[t]) \in Nat
      BY DEF InterruptedActionIndex, TypeOK, Stage
    <3>2. RecoverOutcome(t, seen) \in TaskState
      BY OutcomeType DEF RecoverOutcome
    <3>3. state' \in [Task -> TaskState]
      BY <2>4, <3>2, TransitionType DEF RecoverDecide, TypeOK
    <3>4. waiter' \in [Task -> Waiter] /\ seq' \in [Task -> StopSeq]
      BY <2>4, <3>1 DEF RecoverDecide, TypeOK
    <3> QED
      BY <2>4, <3>3, <3>4 DEF RecoverDecide, TypeOK, unitVars
  <2> QED
    BY <1>8, <2>1, <2>2, <2>3, <2>4 DEF RecoverStep
<1>9. CASE RecoverDone
  BY <1>9 DEF RecoverDone, Ctl, TypeOK, rowVars, coVars
<1>10. CASE ShutdownStep
  <2>1. CASE ShutdownBegin
    BY <2>1 DEF ShutdownBegin, Ctl, TypeOK, rowVars, unitVars, coVars
  <2>2. CASE ShutdownInterrupt
    BY <2>2, InterruptAllType DEF ShutdownInterrupt, Ctl, TypeOK, unitVars
  <2>3. CASE ShutdownDrained
    BY <2>3 DEF ShutdownDrained, Ctl, TypeOK, rowVars, unitVars, coVars
  <2>4. CASE ShutdownDeadline
    BY <2>4 DEF ShutdownDeadline, ActiveTasks, Queued, Ctl, TypeOK, rowVars, unitVars
  <2>5. CASE ForceConfirmed
    BY <2>5 DEF ForceConfirmed, Ctl, TypeOK, rowVars, unitVars, coVars
  <2>6. CASE ControllerExit
    BY <2>6, WipeType DEF ControllerExit, TypeOK, rowVars, unitVars
  <2> QED
    BY <1>10, <2>1, <2>2, <2>3, <2>4, <2>5, <2>6 DEF ShutdownStep
<1>11. ASSUME NEW t \in Task, ForceStep(t) PROVE TypeOK'
  <2>1. CASE ForceMark(t)
    <3>1. state' \in [Task -> TaskState] /\ stage' \in [Task -> Stage]
      BY <2>1, TransitionType DEF ForceMark, TypeOK
    <3> QED
      BY <2>1, <3>1 DEF ForceMark, Ctl, TypeOK, unitVars, coVars
  <2>2. CASE ForceKill(t)
    BY <2>2 DEF ForceKill, KillSent, UnitOwnsProcessTree, ActiveTasks, Ctl, TypeOK,
                rowVars, coVars
  <2>3. CASE ForceConfirm(t)
    <3>1. state' \in [Task -> TaskState]
      BY <2>3, TransitionType DEF ForceConfirm, ConfirmEnds, TypeOK
    <3>2. killed' \in [Task -> BOOLEAN]
      BY <2>3 DEF ForceConfirm, KillSent, UnitOwnsProcessTree, TypeOK
    <3>3. todo' \subseteq Task
      BY <2>3 DEF ForceConfirm, TypeOK
    <3> QED
      BY <2>3, <3>1, <3>2, <3>3 DEF ForceConfirm, TypeOK, coVars
  <2>4. CASE ForceError(t)
    BY <2>4, WipeType DEF ForceError, TypeOK, rowVars, unitVars
  <2> QED
    BY <1>11, <2>1, <2>2, <2>3, <2>4 DEF ForceStep
<1>12. ASSUME NEW t \in Task, UnitStep(t) PROVE TypeOK'
  BY <1>12 DEF UnitStep, UnitStarts, ProgramExits, ExitRecorded, UnitInactive,
               UnitVanishes, UnitState, ExitFile, ExitCode, TypeOK, rowVars, loopVars,
               coVars
<1>13. CASE Crash
  BY <1>13, WipeType DEF Crash, TypeOK, rowVars, unitVars
<1>14. CASE Reboot
  BY <1>14, WipeType DEF Reboot, UnitState, TypeOK, rowVars
<1>15. CASE UNCHANGED vars
  BY <1>15 DEF vars, rowVars, unitVars, loopVars, coVars, TypeOK
<1> QED
  BY <1>1, <1>2, <1>3, <1>4, <1>5, <1>6, <1>7, <1>8, <1>9, <1>10, <1>11, <1>12,
     <1>13, <1>14, <1>15 DEF Next

\* Rows, files and coroutines keep their types in every behaviour of the controller.
THEOREM TypeCorrect == Spec => []TypeOK
<1>1. Init => TypeOK
  <2> SUFFICES ASSUME Init PROVE TypeOK
    OBVIOUS
  <2>1. StageOf("none") \in Stage
    BY DEF StageOf, Stage
  <2> QED
    BY <2>1, Literals DEF Init, TypeOK, TaskState, UnitState, ExitFile, Ctl, Starter
<1> QED
  BY <1>1, TypeStep, PTL DEF Spec

-----------------------------------------------------------------------------
(* Keys are exclusive                                                      *)

\* No task becomes active in this step.
NoneAdmitted == \A t \in Task : state'[t] \in ActiveStates => Active(t)

\* A compare-and-set that expects active states, or writes another, admits nobody.
LEMMA TransitionAdmitsNone ==
    ASSUME TypeOK, NEW t \in Task, NEW expected, NEW new \in TaskState,
           expected \subseteq ActiveStates \/ new \notin ActiveStates,
           state' = Transition(t, expected, new)
    PROVE  NoneAdmitted
BY DEF NoneAdmitted, Active, Transition, TypeOK

\* Only the scheduler admits tasks.
LEMMA OnlySchedulerAdmits ==
    ASSUME TypeOK, Next
    PROVE  NoneAdmitted \/ Schedule \/ CrashInSchedule
<1> USE Literals
<1>1. ASSUME UNCHANGED state PROVE NoneAdmitted
  BY <1>1 DEF NoneAdmitted, Active
<1>2. ASSUME NEW T, InterruptAll(T) PROVE NoneAdmitted
  BY <1>2 DEF InterruptAll, NoneAdmitted, Active, ActiveStates, TypeOK
<1>3. ASSUME NEW t \in Task, TaskRequest(t) PROVE NoneAdmitted
  BY <1>2, <1>3 DEF TaskRequest, Submit, Interrupt, NoneAdmitted, Active, ActiveStates,
                    TypeOK
<1>4. ASSUME NEW t \in Task, StarterStep(t) PROVE NoneAdmitted
  BY <1>1, <1>4, TransitionAdmitsNone DEF StarterStep, StartSpawn, StartReturns,
                                          StartFails, rowVars
<1>5. ASSUME NEW t \in Task, WaiterStep(t) PROVE NoneAdmitted
  <2>1. CASE WaitFinish(t)
    <3>1. waiter[t].outcome \in TaskState
      BY <2>1 DEF WaitFinish, TypeOK, Waiter, NoWait, Waiting, Probing, Finishing
    <3> QED
      BY <2>1, <3>1, TransitionAdmitsNone DEF WaitFinish
  <2> QED
    BY <1>1, <1>5, <2>1, TransitionAdmitsNone DEF WaiterStep, WaitReturns, WaitError,
                                                  WaitProbe, rowVars
<1>6. ASSUME NEW t \in Task, ConfirmEnds(t) PROVE NoneAdmitted
  BY <1>1, <1>6, TransitionAdmitsNone DEF ConfirmEnds
<1>7. ASSUME NEW t \in Task, SeqStep(t) PROVE NoneAdmitted
  BY <1>1, <1>6, <1>7, TransitionAdmitsNone DEF SeqStep, SeqAction, SeqEscalate,
                                         SeqKill, SeqKillError, SeqConfirm, rowVars
<1>8. ASSUME NEW t \in Task, RecoverStep(t) PROVE NoneAdmitted
  <2>1. RecoverOutcome(t, seen) \in TaskState
    BY OutcomeType DEF RecoverOutcome
  <2> QED
    BY <1>1, <1>8, <2>1, TransitionAdmitsNone DEF RecoverStep, RecoverRebooted,
                                RecoverRead, RecoverError, RecoverDecide, rowVars
<1>9. ASSUME NEW t \in Task, ForceStep(t) PROVE NoneAdmitted
  BY <1>1, <1>6, <1>9, TransitionAdmitsNone DEF ForceStep, ForceMark, ForceKill,
                                                ForceConfirm, ForceError, rowVars
<1>10. ASSUME ShutdownStep PROVE NoneAdmitted
  BY <1>1, <1>2, <1>10 DEF ShutdownStep, ShutdownBegin, ShutdownInterrupt,
              ShutdownDrained, ShutdownDeadline, ForceConfirmed, ControllerExit, rowVars
<1>11. ASSUME NEW t \in Task, UnitStep(t) PROVE NoneAdmitted
  BY <1>1, <1>11 DEF UnitStep, UnitStarts, ProgramExits, ExitRecorded, UnitInactive,
                     UnitVanishes, rowVars
<1>12. ASSUME StartController \/ RecoverDone \/ Crash \/ Reboot PROVE NoneAdmitted
  BY <1>1, <1>12 DEF StartController, RecoverDone, Crash, Reboot, rowVars
<1> QED
  BY <1>3, <1>4, <1>5, <1>7, <1>8, <1>9, <1>10, <1>11, <1>12 DEF Next

\* A scan, complete or cut short by a crash, admits only tasks whose keys are free:
\* of two tasks that share one, the later is a blocked one.
LEMMA ScanExclusion ==
    ASSUME TypeOK, KeyExclusion, NEW S \in SUBSET Window, NEW c,
           Admits(S), SchedulePrefix(S, c)
    PROVE  KeyExclusion'
<1> SUFFICES ASSUME NEW t \in Task, NEW u \in Task, t # u, Active(t)', Active(u)'
             PROVE  ~SharesKey(t, u)
  BY DEF KeyExclusion, SharesKey
<1>1. S \subseteq Task
  BY DEF Window, FirstPage, Queued
<1>2. \A s \in S : Holders(S, s) = {}
  BY DEF Admits
<1>3. \A x \in Task : Active(x)' => Active(x) \/ x \in S
  BY DEF SchedulePrefix, Active
<1>4. CASE Active(t) /\ Active(u)
  BY <1>4 DEF KeyExclusion
<1>5. CASE t \in S /\ (Active(u) \/ (u \in S /\ u < t))
  BY <1>2, <1>5 DEF Holders
<1>6. CASE u \in S /\ (Active(t) \/ (t \in S /\ t < u))
  BY <1>2, <1>6 DEF Holders, SharesKey
<1>7. t < u \/ u < t
  BY ConstantsAssumption DEF Task
<1> QED
  BY <1>3, <1>4, <1>5, <1>6, <1>7

\* Tasks that share a mutual-exclusion key never occupy it together, for any number
\* of tasks and keys and under every fault: TaskService._schedule never admits a
\* task whose key is held, and no other coroutine admits any.
THEOREM KeysExclusive == Spec => []KeyExclusion
<1>1. Init => KeyExclusion
  BY DEF Init, KeyExclusion, Active, ActiveStates
<1>2. TypeOK /\ KeyExclusion /\ [Next]_vars => KeyExclusion'
  <2> SUFFICES ASSUME TypeOK, KeyExclusion, [Next]_vars PROVE KeyExclusion'
    OBVIOUS
  <2>1. CASE NoneAdmitted
    BY <2>1 DEF NoneAdmitted, KeyExclusion, Active, SharesKey
  <2>2. CASE Schedule
    BY <2>2, ScanExclusion DEF Schedule
  <2>3. CASE CrashInSchedule
    BY <2>3, ScanExclusion DEF CrashInSchedule
  <2>4. CASE UNCHANGED vars
    BY <2>4 DEF vars, rowVars, KeyExclusion, Active, SharesKey
  <2> QED
    BY <2>1, <2>2, <2>3, <2>4, OnlySchedulerAdmits
<1> QED
  BY <1>1, <1>2, TypeCorrect, PTL DEF Spec

-----------------------------------------------------------------------------
(* Terminal rows are final                                                 *)

\* Terminal rows are as they were.
TerminalKept == \A t \in Task : Terminal(t) => state'[t] = state[t] /\ stage'[t] = stage[t]

\* A compare-and-set that expects active states keeps terminal rows.
LEMMA TransitionKeepsTerminal ==
    ASSUME TypeOK, NEW t \in Task, NEW expected, NEW new, expected \subseteq ActiveStates,
           state' = Transition(t, expected, new),
           UNCHANGED stage
    PROVE  TerminalKept
BY DEF TerminalKept, Terminal, Transition, TERMINAL_STATES, ActiveStates, TypeOK

\* Every action keeps terminal rows.
LEMMA TerminalStep == TypeOK /\ [Next]_vars => TerminalKept
<1> SUFFICES ASSUME TypeOK, [Next]_vars PROVE TerminalKept
  OBVIOUS
<1> USE Literals
<1>1. ASSUME UNCHANGED <<state, stage>> PROVE TerminalKept
  BY <1>1 DEF TerminalKept
<1>2. ASSUME NEW T, InterruptAll(T) PROVE TerminalKept
  BY <1>2 DEF InterruptAll, TerminalKept, Terminal, TERMINAL_STATES
<1>3. ASSUME NEW t \in Task, TaskRequest(t) PROVE TerminalKept
  BY <1>2, <1>3 DEF TaskRequest, Submit, Interrupt, TerminalKept, Terminal,
                    TERMINAL_STATES, TypeOK
<1>4. ASSUME NEW S \in SUBSET Window, NEW c, SchedulePrefix(S, c), UNCHANGED stage
      PROVE  TerminalKept
  BY <1>4 DEF SchedulePrefix, Window, FirstPage, Queued, TerminalKept, Terminal,
              TERMINAL_STATES
<1>5. ASSUME NEW t \in Task, StarterStep(t) PROVE TerminalKept
  BY <1>1, <1>5, TransitionKeepsTerminal DEF StarterStep, StartSpawn, StartReturns,
                                             StartFails, rowVars
<1>6. ASSUME NEW t \in Task, WaiterStep(t) PROVE TerminalKept
  BY <1>1, <1>6, TransitionKeepsTerminal DEF WaiterStep, WaitReturns, WaitError,
                                             WaitProbe, WaitFinish, rowVars
<1>7. ASSUME NEW t \in Task, ConfirmEnds(t), UNCHANGED stage PROVE TerminalKept
  BY <1>1, <1>7, TransitionKeepsTerminal DEF ConfirmEnds
<1>8. ASSUME NEW t \in Task, SeqAction(t) \/ SeqEscalate(t) PROVE TerminalKept
  BY <1>8 DEF SeqAction, SeqEscalate, Transition, TerminalKept, Terminal, TypeOK
<1>9. ASSUME NEW t \in Task, SeqStep(t) PROVE TerminalKept
  BY <1>1, <1>7, <1>8, <1>9 DEF SeqStep, SeqKill, SeqKillError, SeqConfirm, rowVars
<1>10. ASSUME NEW t \in Task, RecoverStep(t) PROVE TerminalKept
  BY <1>1, <1>10, TransitionKeepsTerminal DEF RecoverStep, RecoverRebooted,
                                RecoverRead, RecoverError, RecoverDecide, rowVars
<1>11. ASSUME NEW t \in Task, ForceMark(t) PROVE TerminalKept
  BY <1>11 DEF ForceMark, Transition, TerminalKept, Terminal, TERMINAL_STATES, Active,
               ActiveStates, TypeOK
<1>12. ASSUME NEW t \in Task, ForceStep(t) PROVE TerminalKept
  BY <1>1, <1>7, <1>11, <1>12 DEF ForceStep, ForceKill, ForceConfirm, ForceError, rowVars
<1>13. ASSUME ShutdownStep PROVE TerminalKept
  BY <1>1, <1>2, <1>13 DEF ShutdownStep, ShutdownBegin, ShutdownInterrupt,
              ShutdownDrained, ShutdownDeadline, ForceConfirmed, ControllerExit, rowVars
<1>14. ASSUME NEW t \in Task, UnitStep(t) PROVE TerminalKept
  BY <1>1, <1>14 DEF UnitStep, UnitStarts, ProgramExits, ExitRecorded, UnitInactive,
                     UnitVanishes, rowVars
<1>15. ASSUME StartController \/ RecoverDone \/ Crash \/ Reboot \/ UNCHANGED vars
       PROVE  TerminalKept
  BY <1>1, <1>15 DEF StartController, RecoverDone, Crash, Reboot, vars, rowVars
<1>16. ASSUME Schedule \/ CrashInSchedule PROVE TerminalKept
  BY <1>4, <1>16 DEF Schedule, CrashInSchedule
<1> QED
  BY <1>3, <1>5, <1>6, <1>9, <1>10, <1>12, <1>13, <1>14, <1>15, <1>16 DEF Next

\* Whatever coroutine of the controller is still under way for it, a task that has
\* become terminal keeps its verdict and its recorded stop stage.
THEOREM TerminalRowsFinal == Spec => TerminalIsFinal
<1>1. TypeOK /\ [Next]_vars =>
        [\A t \in Task : Terminal(t) => state'[t] = state[t] /\ stage'[t] = stage[t]]_vars
  BY TerminalStep DEF TerminalKept
<1> QED
  BY <1>1, TypeCorrect, PTL DEF Spec, TerminalIsFinal

-----------------------------------------------------------------------------
(* Units, references and the coroutines that rely on them                  *)

\* A task that was never admitted has left no trace outside its row.
FreshTask(t) ==
    state[t] \in {"absent", "queued"} =>
        /\ unit[t] = "none" /\ ~ref[t]
        /\ starter[t] = "none"

\* Without a unit there is no exit file, no reference and no waiter.
NoUnit(t) ==
    unit[t] = "none" =>
        exit[t] = "missing" /\ ~ref[t] /\ waiter[t] = NoWait /\ starter[t] # "launching"

\* A requested unit has no reference, waiter or exit file yet.
RequestedUnit(t) ==
    unit[t] = "requested" => exit[t] = "missing" /\ ~ref[t] /\ waiter[t] = NoWait

\* A starter that has not spawned systemd-run yet still has an active row.
CreatedStarter(t) == starter[t] = "created" => unit[t] = "none" /\ Active(t)

\* The waiter of a task is created by its starter's last step.
StarterBeforeWaiter(t) == starter[t] # "none" => waiter[t] = NoWait /\ ~ref[t]

\* The reference is recorded by the transition that ends "starting".
RecordedStarted(t) == ref[t] => state[t] # "starting"

\* The waiter of a recorded unit collects a code only after the unit has left.
CollectedUnitGone(t) == ref[t] /\ waiter[t].pc = "finishing" => unit[t] = "gone"

\* Starters exist only while the controller accepts work or waits for them.
StartersWhileUp ==
    ctl \notin {"up", "closing"} => \A t \in Task : starter[t] = "none"

\* Between a host reboot and the end of recovery no unit is left or requested.
RebootedUnits ==
    rebooted => /\ ctl \in {"down", "recovering"}
                /\ \A t \in Task : unit[t] \in {"none", "gone"}

\* The inductive strengthening of RecordedUnitGone.
UnitInv ==
    /\ \A t \in Task : /\ FreshTask(t) /\ NoUnit(t) /\ RequestedUnit(t)
                       /\ CreatedStarter(t) /\ StarterBeforeWaiter(t)
                       /\ RecordedStarted(t) /\ CollectedUnitGone(t)
    /\ StartersWhileUp
    /\ RebootedUnits
    /\ RecordedUnitGone

\* Every action preserves UnitInv.
LEMMA UnitInvStep == TypeOK /\ UnitInv /\ [Next]_vars => UnitInv'
<1> SUFFICES ASSUME TypeOK, UnitInv, [Next]_vars PROVE UnitInv'
  OBVIOUS
<1> USE DEF UnitInv, FreshTask, NoUnit, RequestedUnit, CreatedStarter,
            StarterBeforeWaiter, RecordedStarted, CollectedUnitGone, StartersWhileUp,
            RebootedUnits, RecordedUnitGone, TypeOK, Active, Terminal, ActiveStates,
            TERMINAL_STATES, rowVars, unitVars, loopVars, coVars
<1>1. ASSUME NEW t \in Task, Submit(t) PROVE UnitInv'
  BY <1>1 DEF Submit
<1>2. ASSUME NEW T \in SUBSET Task, InterruptAll(T),
             UNCHANGED <<ref, unitVars, starter, waiter>>,
             UNCHANGED ctl \/ (ctl' = "draining" /\ ctl = "closing"
                              /\ \A t \in Task : starter[t] = "none")
      PROVE  UnitInv'
  BY <1>2 DEF InterruptAll
<1>3. ASSUME NEW t \in Task, Interrupt(t) PROVE UnitInv'
  BY <1>2, <1>3 DEF Interrupt
<1>4. CASE Schedule
  <2>1. PICK S \in SUBSET Window :
          /\ SchedulePrefix(S, MaxTask)
          /\ starter' = [t \in Task |-> IF t \in S THEN "created" ELSE starter[t]]
    BY <1>4 DEF Schedule
  <2>2. S \subseteq Queued
    BY DEF Window, FirstPage
  <2>3. \A t \in Task : t <= MaxTask
    BY ConstantsAssumption DEF Task
  <2>4. state' = [t \in Task |-> IF t \in S THEN "starting" ELSE state[t]]
    BY <2>1, <2>3 DEF SchedulePrefix
  <2> QED
    BY <1>4, <2>1, <2>2, <2>4 DEF Schedule, Queued
<1>5. CASE CrashInSchedule
  <2>1. PICK S \in SUBSET Queued :
          state' = [t \in Task |-> IF t \in S THEN "starting" ELSE state[t]]
    <3>1. PICK S \in SUBSET Window : \E c \in S :
            state' = [t \in Task |-> IF t \in S /\ t <= c THEN "starting" ELSE state[t]]
      BY <1>5 DEF CrashInSchedule, SchedulePrefix
    <3>2. PICK c \in S :
            state' = [t \in Task |-> IF t \in S /\ t <= c THEN "starting" ELSE state[t]]
      BY <3>1
    <3>3. state' = [t \in Task |-> IF t \in {s \in S : s <= c} THEN "starting" ELSE state[t]]
      BY <3>2
    <3>4. {s \in S : s <= c} \in SUBSET Queued
      BY DEF Window, FirstPage, Queued
    <3> QED
      BY <3>3, <3>4
  <2> QED
    BY <1>5, <2>1 DEF CrashInSchedule, Wipe, Queued, NoWait
<1>6. ASSUME NEW t \in Task, StarterStep(t) PROVE UnitInv'
  <2>1. CASE StartSpawn(t)
    BY <2>1 DEF StartSpawn
  <2>2. CASE StartReturns(t)
    BY <2>2 DEF StartReturns, Transition, Waiting
  <2>3. CASE StartFails(t)
    BY <2>3 DEF StartFails, Transition
  <2> QED
    BY <1>6, <2>1, <2>2, <2>3 DEF StarterStep
<1>7. ASSUME NEW t \in Task, WaiterStep(t) PROVE UnitInv'
  <2>1. CASE WaitReturns(t)
    BY <2>1 DEF WaitReturns, Collect, Finishing, NoWait, Waiting, UnitOwnsProcessTree,
                UnitState
  <2>2. CASE WaitError(t)
    BY <2>2 DEF WaitError, Probing, Waiting, NoWait
  <2>3. CASE WaitProbe(t)
    BY <2>3 DEF WaitProbe, Transition, Collect, Finishing, NoWait, Waiting, Probing,
                IsRunning, UnitOwnsProcessTree, UnitState
  <2>4. CASE WaitFinish(t)
    BY <2>4 DEF WaitFinish, Transition, NoWait, Waiter, Finishing, Waiting, Probing
  <2> QED
    BY <1>7, <2>1, <2>2, <2>3, <2>4 DEF WaiterStep
<1>8. ASSUME NEW t \in Task, ConfirmEnds(t),
             UNCHANGED <<ref, unit, exit, rebooted, ctl, starter, waiter>>
      PROVE  UnitInv'
  BY <1>8 DEF ConfirmEnds, ExitConfirmed, Transition, IsRunning, UnitOwnsProcessTree,
              UnitState, ExitCode
<1>9. ASSUME UNCHANGED <<state, ref, unit, exit, rebooted, ctl, starter, waiter>>
      PROVE  UnitInv'
  BY <1>9
<1>10. ASSUME NEW t \in Task, SeqStep(t) PROVE UnitInv'
  <2>1. CASE SeqAction(t) \/ SeqEscalate(t)
    BY <2>1 DEF SeqAction, SeqEscalate, Transition
  <2>2. CASE SeqKill(t) \/ SeqKillError(t) \/ SeqConfirm(t)
    BY <1>8, <1>9, <2>2 DEF SeqKill, SeqKillError, SeqConfirm
  <2> QED
    BY <1>10, <2>1, <2>2 DEF SeqStep
<1>11. ASSUME UNCHANGED <<state, ref, unit, exit, rebooted>>, Wipe PROVE UnitInv'
  BY <1>11 DEF Wipe, NoWait
<1>12. CASE StartController
  BY <1>12 DEF StartController
<1>13. ASSUME NEW t \in Task, RecoverStep(t) PROVE UnitInv'
  <2>1. CASE RecoverRebooted(t)
    BY <2>1 DEF RecoverRebooted, Transition, UnitState
  <2>2. CASE RecoverRead(t)
    BY <1>9, <2>2 DEF RecoverRead
  <2>3. CASE RecoverError(t)
    BY <1>11, <2>3 DEF RecoverError
  <2>4. CASE RecoverDecide(t)
    <3>1. CASE IsRunning(t)
      BY <2>4, <3>1 DEF RecoverDecide, IsRunning, UnitOwnsProcessTree, Waiting
    <3>2. CASE ~IsRunning(t)
      BY <2>4, <3>2 DEF RecoverDecide, RecoverOutcome, Outcome, Transition, IsRunning,
                        UnitOwnsProcessTree, UnitState
    <3> QED
      BY <3>1, <3>2
  <2> QED
    BY <1>13, <2>1, <2>2, <2>3, <2>4 DEF RecoverStep
<1>14. CASE RecoverDone
  BY <1>14 DEF RecoverDone
<1>15. CASE ShutdownStep
  <2>1. CASE ShutdownBegin
    BY <2>1 DEF ShutdownBegin
  <2>2. CASE ShutdownInterrupt
    BY <1>2, <2>2 DEF ShutdownInterrupt
  <2>3. CASE ShutdownDrained \/ ShutdownDeadline \/ ForceConfirmed
    BY <2>3 DEF ShutdownDrained, ShutdownDeadline, ForceConfirmed
  <2>4. CASE ControllerExit
    BY <1>11, <2>4 DEF ControllerExit
  <2> QED
    BY <1>15, <2>1, <2>2, <2>3, <2>4 DEF ShutdownStep
<1>16. ASSUME NEW t \in Task, ForceStep(t) PROVE UnitInv'
  <2>1. CASE ForceMark(t)
    BY <2>1 DEF ForceMark, Transition
  <2>2. CASE ForceKill(t)
    BY <2>2 DEF ForceKill
  <2>3. CASE ForceConfirm(t)
    BY <1>8, <1>9, <2>3 DEF ForceConfirm
  <2>4. CASE ForceError(t)
    BY <1>11, <2>4 DEF ForceError
  <2> QED
    BY <1>16, <2>1, <2>2, <2>3, <2>4 DEF ForceStep
<1>17. ASSUME NEW t \in Task, UnitStep(t) PROVE UnitInv'
  <2>1. CASE UnitStarts(t)
    BY <2>1 DEF UnitStarts
  <2>2. CASE ProgramExits(t)
    BY <2>2 DEF ProgramExits
  <2>3. CASE ExitRecorded(t)
    BY <2>3 DEF ExitRecorded
  <2>4. CASE UnitInactive(t) \/ UnitVanishes(t)
    BY <2>4 DEF UnitInactive, UnitVanishes, UnitOwnsProcessTree
  <2> QED
    BY <1>17, <2>1, <2>2, <2>3, <2>4 DEF UnitStep
<1>18. CASE Crash
  BY <1>11, <1>18 DEF Crash
<1>19. CASE Reboot
  BY <1>19 DEF Reboot, Wipe, NoWait
<1>20. CASE UNCHANGED vars
  BY <1>9, <1>20 DEF vars
<1>21. ASSUME NEW t \in Task, TaskRequest(t) PROVE UnitInv'
  BY <1>1, <1>3, <1>21 DEF TaskRequest
<1> QED
  BY <1>4, <1>5, <1>6, <1>7, <1>10, <1>12, <1>13, <1>14, <1>15, <1>16, <1>17, <1>18,
     <1>19, <1>20, <1>21 DEF Next

\* UnitInv holds in every behaviour.
LEMMA UnitInvariant == Spec => []UnitInv
<1>1. Init => UnitInv
  BY DEF Init, UnitInv, FreshTask, NoUnit, RequestedUnit, CreatedStarter,
         StarterBeforeWaiter, RecordedStarted, CollectedUnitGone, StartersWhileUp,
         RebootedUnits, RecordedUnitGone, Terminal, TERMINAL_STATES
<1> QED
  BY <1>1, UnitInvStep, TypeCorrect, PTL DEF Spec

\* A task whose executor_ref was recorded is never reported as finished, and never
\* gives up its keys, while its unit may still own a process: whatever crashes,
\* reboots, probe errors and stops happened before.
THEOREM RecordedUnitsGone == Spec => []RecordedUnitGone
BY UnitInvariant, PTL DEF UnitInv

\* systemd-run is called at most once for a task, and only for an active row.
THEOREM LaunchedOnce == Spec => LaunchOnce
<1>1. TypeOK /\ UnitInv /\ [Next]_vars =>
        [\A t \in Task : unit[t] # "requested" /\ unit'[t] = "requested"
                          => unit[t] = "none" /\ Active(t)]_vars
  <2> SUFFICES ASSUME TypeOK, UnitInv, Next, NEW u \in Task,
                      unit[u] # "requested", unit'[u] = "requested"
               PROVE  unit[u] = "none" /\ Active(u)
    OBVIOUS
  <2>1. PICK t \in Task : StartSpawn(t)
    <3> USE DEF TypeOK, rowVars, unitVars, loopVars, coVars
    <3>1. unit' # unit
      OBVIOUS
    <3>2. ASSUME NEW t \in Task, StartReturns(t) \/ StartFails(t) \/ UnitStep(t) PROVE FALSE
      BY <3>2 DEF StartReturns, StartFails, UnitStep, UnitStarts, ProgramExits,
                  ExitRecorded, UnitInactive, UnitVanishes
    <3>3. ASSUME NEW t \in Task,
                 \/ TaskRequest(t) \/ WaiterStep(t) \/ SeqStep(t)
                 \/ RecoverStep(t) \/ ForceStep(t)
          PROVE  FALSE
      BY <3>1, <3>3 DEF TaskRequest, Submit, Interrupt, WaiterStep, WaitReturns,
           WaitError, WaitProbe, WaitFinish, SeqStep, SeqAction, SeqEscalate, SeqKill,
           SeqKillError, SeqConfirm, RecoverStep, RecoverRebooted, RecoverRead,
           RecoverError, RecoverDecide, ForceStep, ForceMark, ForceKill, ForceConfirm,
           ForceError
    <3>4. ASSUME \/ Schedule \/ CrashInSchedule \/ StartController \/ RecoverDone
                 \/ ShutdownStep \/ Crash
          PROVE  FALSE
      BY <3>1, <3>4 DEF Schedule, CrashInSchedule, StartController, RecoverDone,
           ShutdownStep, ShutdownBegin, ShutdownInterrupt, ShutdownDrained,
           ShutdownDeadline, ForceConfirmed, ControllerExit, Crash
    <3>5. ASSUME Reboot PROVE FALSE
      BY <3>5 DEF Reboot
    <3> QED
      BY <3>2, <3>3, <3>4, <3>5 DEF Next, StarterStep
  <2> QED
    BY <2>1 DEF StartSpawn, UnitInv, CreatedStarter, TypeOK
<1> QED
  BY <1>1, TypeCorrect, UnitInvariant, PTL DEF Spec, LaunchOnce

-----------------------------------------------------------------------------
(* Verdicts agree with exit records                                        *)

\* Nothing will write the exit file again.
Settled(t) == exit[t] \in ExitCode \/ unit[t] = "gone"

\* The supervisor writes the code as its last act.
CodeIsLast(t) == exit[t] \in ExitCode => unit[t] \in {"deactivating", "gone"}

\* The outcome a waiter carries while the result is evaluated agrees with the record.
CarriedHonest(t) ==
    /\ waiter[t] = Finishing("succeeded") => exit[t] = "zero"
    /\ waiter[t] = Finishing("failed") => exit[t] # "zero" /\ Settled(t)

\* So does the row, for good.
RowHonest(t) ==
    /\ state[t] = "succeeded" => exit[t] = "zero"
    /\ state[t] = "failed" => exit[t] # "zero" /\ Settled(t)

\* The code recovery has read is still the recorded one when it decides.
SeenHonest ==
    /\ seen # "unread" => ctl = "recovering" /\ ~rebooted /\ todo # {}
    /\ seen \in ExitCode => \A t \in Task : AtHead(t) => exit[t] = seen

\* The inductive strengthening of ReportedOutcome.
VerdictInv ==
    /\ \A t \in Task : CodeIsLast(t) /\ CarriedHonest(t) /\ RowHonest(t)
    /\ SeenHonest

\* A controller without memory carries no outcome and has read nothing.
LEMMA WipeVerdict ==
    ASSUME TypeOK, VerdictInv, Wipe, UNCHANGED <<state, exit>>,
           \A t \in Task : unit'[t] = unit[t] \/ unit'[t] = "gone"
    PROVE  VerdictInv'
<1>1. \A t \in Task : waiter'[t] = NoWait
  BY DEF Wipe
<1>2. \A t \in Task : CarriedHonest(t)'
  BY <1>1 DEF CarriedHonest, NoWait, Finishing
<1>3. \A t \in Task : CodeIsLast(t)' /\ RowHonest(t)'
  BY DEF VerdictInv, CodeIsLast, RowHonest, Settled
<1>4. SeenHonest'
  BY DEF Wipe, SeenHonest, ExitCode
<1> QED
  BY <1>2, <1>3, <1>4 DEF VerdictInv

\* Every action preserves VerdictInv.
LEMMA VerdictStep == TypeOK /\ UnitInv /\ VerdictInv /\ [Next]_vars => VerdictInv'
<1> SUFFICES ASSUME TypeOK, UnitInv, VerdictInv, [Next]_vars PROVE VerdictInv'
  OBVIOUS
<1> USE DEF VerdictInv, CodeIsLast, CarriedHonest, RowHonest, SeenHonest, Settled,
            ExitCode, TypeOK, rowVars, unitVars, loopVars, coVars
<1>1. ASSUME \A t \in Task : state'[t] = state[t] \/ state'[t] \notin {"succeeded", "failed"},
             UNCHANGED <<unit, exit, rebooted, waiter, ctl, todo, seen>>
      PROVE  VerdictInv'
  BY <1>1 DEF AtHead
<1>2. ASSUME NEW T, InterruptAll(T)
      PROVE  \A t \in Task : state'[t] = state[t] \/ state'[t] \notin {"succeeded", "failed"}
  BY <1>2 DEF InterruptAll
<1>3. ASSUME NEW t \in Task, NEW expected, NEW new, new \notin {"succeeded", "failed"},
             state' = Transition(t, expected, new)
      PROVE  \A u \in Task : state'[u] = state[u] \/ state'[u] \notin {"succeeded", "failed"}
  BY <1>3 DEF Transition
<1>4. ASSUME NEW t \in Task, TaskRequest(t) PROVE VerdictInv'
  BY <1>1, <1>2, <1>4 DEF TaskRequest, Submit, Interrupt
<1>5. CASE Schedule
  BY <1>1, <1>5 DEF Schedule, SchedulePrefix
<1>6. CASE CrashInSchedule
  BY <1>6 DEF CrashInSchedule, SchedulePrefix, Wipe, NoWait, Finishing, AtHead
<1>7. ASSUME NEW t \in Task, StarterStep(t) PROVE VerdictInv'
  <2>1. CASE StartSpawn(t)
    BY <2>1 DEF StartSpawn, UnitInv, CreatedStarter, NoUnit, StarterBeforeWaiter, AtHead, NoWait,
                Finishing, Active, ActiveStates
  <2>2. CASE StartReturns(t)
    BY <2>2 DEF StartReturns, Transition, Waiting, Finishing, AtHead
  <2>3. CASE StartFails(t)
    <3>1. exit[t] = "missing" /\ waiter[t] = NoWait
      BY <2>3 DEF StartFails, UnitInv, CreatedStarter, NoUnit, RequestedUnit
    <3> QED
      BY <2>3, <3>1 DEF StartFails, Transition, AtHead, NoWait, Finishing
  <2> QED
    BY <1>7, <2>1, <2>2, <2>3 DEF StarterStep
<1>8. ASSUME NEW t \in Task, WaiterStep(t) PROVE VerdictInv'
  <2>1. ASSUME NEW code \in ExitCode, Collect(t, code), Settled(t),
               code = "zero" <=> exit[t] = "zero",
               UNCHANGED <<state, unit, exit, rebooted, ctl, todo, seen>>
        PROVE  VerdictInv'
    <3>1. waiter'[t] = NoWait \/ waiter'[t] = Finishing(Outcome(t, code))
      BY <2>1 DEF Collect
    <3>2. CarriedHonest(t)'
      BY <2>1, <3>1 DEF Outcome, Finishing, NoWait
    <3>3. \A u \in Task : u # t => waiter'[u] = waiter[u]
      BY <2>1 DEF Collect
    <3> QED
      BY <2>1, <3>2, <3>3 DEF AtHead
  <2>2. CASE WaitReturns(t)
    <3>1. unit[t] = "gone"
      BY <2>2 DEF WaitReturns, UnitInv, NoUnit, RequestedUnit, UnitOwnsProcessTree, UnitState,
                  Waiting, NoWait
    <3>2. (IF exit[t] = "missing" THEN "nonzero" ELSE exit[t]) \in ExitCode
      BY <2>2 DEF WaitReturns, ExitFile
    <3> QED
      BY <2>1, <2>2, <3>1, <3>2 DEF WaitReturns
  <2>3. CASE WaitError(t)
    BY <2>3 DEF WaitError, Probing, Finishing, AtHead
  <2>4. CASE WaitProbe(t)
    <3>1. CASE exit[t] \in ExitCode /\ Collect(t, exit[t]) /\ UNCHANGED state
      BY <2>1, <2>4, <3>1 DEF WaitProbe
    <3>2. CASE waiter' = [waiter EXCEPT ![t] = NoWait] /\ state' = Transition(t, ActiveStates, "lost")
      BY <2>4, <3>2 DEF WaitProbe, Transition, NoWait, Finishing, AtHead
    <3>3. CASE waiter' = [waiter EXCEPT ![t] = Waiting] /\ UNCHANGED state
      BY <2>4, <3>3 DEF WaitProbe, Waiting, Finishing, AtHead
    <3> QED
      BY <2>4, <3>1, <3>2, <3>3 DEF WaitProbe
  <2>5. CASE WaitFinish(t)
    <3>1. waiter[t] = Finishing(waiter[t].outcome)
      BY <2>5 DEF WaitFinish, Waiter, NoWait, Waiting, Probing, Finishing
    <3> QED
      BY <2>5, <3>1 DEF WaitFinish, Transition, NoWait, Finishing, AtHead
  <2> QED
    BY <1>8, <2>2, <2>3, <2>4, <2>5 DEF WaiterStep
<1>9. ASSUME NEW t \in Task, ConfirmEnds(t)
      PROVE  \A u \in Task : state'[u] = state[u] \/ state'[u] \notin {"succeeded", "failed"}
  BY <1>3, <1>9 DEF ConfirmEnds
<1>10. ASSUME NEW t \in Task, SeqStep(t) PROVE VerdictInv'
  BY <1>1, <1>3, <1>9, <1>10 DEF SeqStep, SeqAction, SeqEscalate, SeqKill, SeqKillError,
                                 SeqConfirm
<1>11. CASE StartController
  BY <1>11 DEF StartController, AtHead
<1>12. ASSUME NEW t \in Task, RecoverStep(t) PROVE VerdictInv'
  <2>1. CASE RecoverRebooted(t)
    BY <2>1 DEF RecoverRebooted, Transition
  <2>2. CASE RecoverRead(t)
    <3>1. \A u \in Task : AtHead(u) => u = t
      BY <2>2, ConstantsAssumption DEF RecoverRead, AtHead, Task
    <3> QED
      BY <2>2, <3>1 DEF RecoverRead, AtHead
  <2>3. CASE RecoverError(t)
    BY <2>3, WipeVerdict DEF RecoverError
  <2>4. CASE RecoverDecide(t)
    <3>1. CASE IsRunning(t) /\ waiter' = [waiter EXCEPT ![t] = Waiting] /\ UNCHANGED state
      BY <2>4, <3>1 DEF RecoverDecide, Waiting, Finishing
    <3>2. CASE /\ state' = Transition(t, ActiveStates, RecoverOutcome(t, seen))
               /\ UNCHANGED waiter
      <4>1. RecoverOutcome(t, seen) = "succeeded" => exit[t] = "zero"
        BY <2>4 DEF RecoverDecide, RecoverOutcome, Outcome
      <4>2. RecoverOutcome(t, seen) = "failed" => exit[t] = "nonzero"
        BY <2>4 DEF RecoverDecide, RecoverOutcome, Outcome
      <4> QED
        BY <2>4, <3>2, <4>1, <4>2 DEF RecoverDecide, Transition
    <3> QED
      BY <2>4, <3>1, <3>2 DEF RecoverDecide
  <2> QED
    BY <1>12, <2>1, <2>2, <2>3, <2>4 DEF RecoverStep
<1>13. CASE RecoverDone
  <2>1. \A t \in Task : ~AtHead(t)'
    BY <1>13 DEF RecoverDone, AtHead
  <2>2. seen = "unread"
    BY <1>13 DEF RecoverDone, AtHead
  <2> QED
    BY <1>13, <2>1, <2>2 DEF RecoverDone
<1>14. CASE ShutdownStep
  BY <1>2, <1>14, WipeVerdict
     DEF ShutdownStep, ShutdownBegin, ShutdownInterrupt, ShutdownDrained, ShutdownDeadline,
         ForceConfirmed, ControllerExit
<1>15. ASSUME NEW t \in Task, ForceStep(t) PROVE VerdictInv'
  BY <1>3, <1>9, <1>15, WipeVerdict
     DEF ForceStep, ForceMark, ForceKill, ForceConfirm, ForceError
<1>16. ASSUME NEW t \in Task, UnitStep(t) PROVE VerdictInv'
  BY <1>16 DEF UnitStep, UnitStarts, ProgramExits, ExitRecorded, UnitInactive, UnitVanishes,
               UnitOwnsProcessTree, AtHead
<1>17. CASE Crash
  BY <1>17, WipeVerdict DEF Crash
<1>18. CASE Reboot
  BY <1>18, WipeVerdict DEF Reboot, UnitInv, NoUnit
<1>19. CASE UNCHANGED vars
  BY <1>1, <1>19 DEF vars
<1> QED
  BY <1>4, <1>5, <1>6, <1>7, <1>8, <1>10, <1>11, <1>12, <1>13, <1>14, <1>15, <1>16, <1>17,
     <1>18, <1>19 DEF Next

\* A succeeded task has a recorded zero and a failed one has not: neither recovery nor
\* a waiter that carries an outcome over an await ever reports what the exit file
\* does not say.
THEOREM OutcomesReported == Spec => []ReportedOutcome
<1>1. Init => VerdictInv
  BY DEF Init, VerdictInv, CodeIsLast, CarriedHonest, RowHonest, SeenHonest, ExitCode, NoWait,
         Finishing, AtHead
<1>2. VerdictInv => ReportedOutcome
  BY DEF VerdictInv, RowHonest, ReportedOutcome
<1> QED
  BY <1>1, <1>2, VerdictStep, TypeCorrect, UnitInvariant, PTL DEF Spec

-----------------------------------------------------------------------------
(* Active rows are supervised                                              *)

\* Recovery leaves an active row it has visited to a waiter.
RecoveredSupervised ==
    ctl = "recovering" => \A t \in Task : Active(t) /\ t \notin todo =>
        state[t] # "starting" /\ waiter[t] # NoWait

\* The inductive strengthening of Supervised.
SupervisedInv == Supervised /\ RecoveredSupervised

\* Every action preserves SupervisedInv.
LEMMA SupervisedStep == TypeOK /\ UnitInv /\ SupervisedInv /\ [Next]_vars => SupervisedInv'
<1> SUFFICES ASSUME TypeOK, UnitInv, SupervisedInv, [Next]_vars PROVE SupervisedInv'
  OBVIOUS
<1> USE DEF SupervisedInv, Supervised, RecoveredSupervised, TypeOK, Active, ActiveStates,
            rowVars, unitVars, loopVars, coVars
<1>1. ASSUME ctl' \notin {"up", "recovering"} PROVE SupervisedInv'
  BY <1>1
<1>2. ASSUME \A t \in Task : \/ state'[t] = state[t]
                             \/ state'[t] \notin {"starting", "running"} /\ Active(t)
                             \/ state'[t] \in {"queued", "cancelled"}
                             \/ state'[t] \in TERMINAL_STATES,
             UNCHANGED <<starter, waiter, ctl, todo>>
      PROVE  SupervisedInv'
  BY <1>2 DEF TERMINAL_STATES
<1>3. ASSUME NEW t \in Task, TaskRequest(t) PROVE SupervisedInv'
  BY <1>2, <1>3 DEF TaskRequest, Submit, Interrupt, InterruptAll
<1>4. CASE Schedule
  <2>1. PICK S \in SUBSET Window :
          /\ SchedulePrefix(S, MaxTask)
          /\ starter' = [t \in Task |-> IF t \in S THEN "created" ELSE starter[t]]
    BY <1>4 DEF Schedule
  <2> QED
    BY <1>4, <2>1 DEF Schedule, SchedulePrefix
<1>5. ASSUME NEW t \in Task, StarterStep(t) PROVE SupervisedInv'
  <2>1. ctl # "recovering"
    BY <1>5 DEF StarterStep, StartSpawn, StartReturns, StartFails, UnitInv, StartersWhileUp
  <2>2. Waiting # NoWait
    BY DEF Waiting, NoWait
  <2> QED
    BY <1>5, <2>1, <2>2 DEF StarterStep, StartSpawn, StartReturns, StartFails, Transition
<1>6. ASSUME NEW t \in Task, WaiterStep(t) PROVE SupervisedInv'
  <2>1. Waiting # NoWait /\ Probing # NoWait /\ \A s : Finishing(s) # NoWait
    BY DEF Waiting, Probing, Finishing, NoWait
  <2>2. ASSUME NEW w \in Waiter, w # NoWait \/ Terminal(t),
               waiter' = [waiter EXCEPT ![t] = w], UNCHANGED <<state, starter, ctl, todo>>
        PROVE  SupervisedInv'
    BY <2>2 DEF Terminal, TERMINAL_STATES
  <2>3. ASSUME NEW s \in TERMINAL_STATES, state' = Transition(t, ActiveStates, s),
               waiter' = [waiter EXCEPT ![t] = NoWait], UNCHANGED <<starter, ctl, todo>>
        PROVE  SupervisedInv'
    BY <2>3 DEF Transition, TERMINAL_STATES
  <2>4. ASSUME NEW code, Collect(t, code), UNCHANGED <<state, starter, ctl, todo>>
        PROVE  SupervisedInv'
    <3>1. waiter' \in [Task -> Waiter]
      BY <2>4, CollectType
    <3>2. waiter' = [waiter EXCEPT ![t] = waiter'[t]]
      BY <2>4 DEF Collect
    <3>3. waiter'[t] # NoWait \/ Terminal(t)
      BY <2>1, <2>4 DEF Collect
    <3> QED
      BY <2>2, <2>4, <3>1, <3>2, <3>3
  <2>5. CASE WaitReturns(t)
    BY <2>4, <2>5 DEF WaitReturns
  <2>6. CASE WaitError(t)
    BY <2>1, <2>2, <2>6, Literals DEF WaitError
  <2>7. CASE WaitProbe(t)
    BY <2>1, <2>2, <2>3, <2>4, <2>7, Literals DEF WaitProbe
  <2>8. CASE WaitFinish(t)
    <3>1. waiter[t].outcome \in TERMINAL_STATES
      BY <2>8 DEF WaitFinish, Waiter, NoWait, Waiting, Probing, Finishing
    <3> QED
      BY <2>3, <2>8, <3>1 DEF WaitFinish
  <2> QED
    BY <1>6, <2>5, <2>6, <2>7, <2>8 DEF WaiterStep
<1>7. ASSUME NEW t \in Task, SeqStep(t) PROVE SupervisedInv'
  BY <1>2, <1>7 DEF SeqStep, SeqAction, SeqEscalate, SeqKill, SeqKillError, SeqConfirm,
                    ConfirmEnds, Transition, Terminal
<1>8. CASE StartController
  BY <1>8 DEF StartController, ActiveTasks
<1>9. ASSUME NEW t \in Task, RecoverStep(t) PROVE SupervisedInv'
  <2>1. CASE RecoverRebooted(t)
    BY <2>1 DEF RecoverRebooted, Transition
  <2>2. CASE RecoverRead(t)
    BY <2>2 DEF RecoverRead
  <2>3. CASE RecoverError(t)
    BY <1>1, <2>3 DEF RecoverError, Wipe
  <2>4. CASE RecoverDecide(t)
    <3>1. CASE IsRunning(t) /\ waiter' = [waiter EXCEPT ![t] = Waiting] /\ UNCHANGED state
      <4>1. state[t] # "starting" /\ Waiting # NoWait
        BY <3>1 DEF IsRunning, UnitInv, RecordedStarted, Waiting, NoWait
      <4> QED
        BY <2>4, <3>1, <4>1 DEF RecoverDecide
    <3>2. CASE /\ state' = Transition(t, ActiveStates, RecoverOutcome(t, seen))
               /\ UNCHANGED waiter
      <4>1. RecoverOutcome(t, seen) \notin ActiveStates
        BY OutcomeType DEF RecoverOutcome, TERMINAL_STATES
      <4> QED
        BY <2>4, <3>2, <4>1 DEF RecoverDecide, Transition
    <3> QED
      BY <2>4, <3>1, <3>2 DEF RecoverDecide
  <2> QED
    BY <1>9, <2>1, <2>2, <2>3, <2>4 DEF RecoverStep
<1>10. CASE RecoverDone
  BY <1>10 DEF RecoverDone
<1>11. CASE ShutdownStep
  BY <1>1, <1>11 DEF ShutdownStep, ShutdownBegin, ShutdownInterrupt, ShutdownDrained,
                     ShutdownDeadline, ForceConfirmed, ControllerExit, Wipe
<1>12. ASSUME NEW t \in Task, ForceStep(t) PROVE SupervisedInv'
  BY <1>1, <1>12 DEF ForceStep, ForceMark, ForceKill, ForceConfirm, ForceError, Wipe
<1>13. ASSUME NEW t \in Task, UnitStep(t) PROVE SupervisedInv'
  BY <1>13 DEF UnitStep, UnitStarts, ProgramExits, ExitRecorded, UnitInactive, UnitVanishes
<1>14. CASE CrashInSchedule \/ Crash \/ Reboot
  BY <1>1, <1>14 DEF CrashInSchedule, Crash, Reboot, Wipe
<1>15. CASE UNCHANGED vars
  BY <1>15 DEF vars
<1> QED
  BY <1>3, <1>4, <1>5, <1>6, <1>7, <1>8, <1>9, <1>10, <1>11, <1>12, <1>13, <1>14, <1>15
     DEF Next

\* While the controller is up, a starting row has its starter and a running row its
\* waiter: no error path of _wait and no recovery leaves a row nobody will finish.
THEOREM RowsSupervised == Spec => []Supervised
<1>1. Init => SupervisedInv
  BY DEF Init, SupervisedInv, Supervised, RecoveredSupervised
<1>2. SupervisedInv => Supervised
  BY DEF SupervisedInv
<1> QED
  BY <1>1, <1>2, SupervisedStep, TypeCorrect, UnitInvariant, PTL DEF Spec

-----------------------------------------------------------------------------
(* Shutdown leaves nothing behind                                          *)

\* Only a task that is being stopped, or is finished, has a stop stage or a sequence.
Unstopped(t) ==
    state[t] \in {"absent", "queued", "starting", "running"} =>
        stage[t].kind = "none" /\ seq[t] = NoSeq

\* From the interrupts of shutdown_all on, what is not finished is being stopped.
AllStopping ==
    ctl \in {"draining", "forcing", "killing", "confirming"} =>
        \A t \in Task : state[t] \in {"absent", "stopping"} \cup TERMINAL_STATES

\* The confirming loop still has every unfinished task ahead of it.
ConfirmAhead == ctl = "confirming" => ActiveTasks \subseteq todo

\* After it nothing is left.
NothingLeft == ctl = "stopped" => \A t \in Task : state[t] = "absent" \/ Terminal(t)

\* The inductive strengthening of CleanExit.
ShutdownInv ==
    /\ \A t \in Task : Unstopped(t)
    /\ AllStopping
    /\ ConfirmAhead
    /\ NothingLeft

\* Every action preserves ShutdownInv.
LEMMA ShutdownInvStep == TypeOK /\ UnitInv /\ ShutdownInv /\ [Next]_vars => ShutdownInv'
<1> SUFFICES ASSUME TypeOK, UnitInv, ShutdownInv, [Next]_vars PROVE ShutdownInv'
  OBVIOUS
<1> USE DEF ShutdownInv, Unstopped, AllStopping, ConfirmAhead, NothingLeft, TypeOK, Active,
            ActiveTasks, Terminal, ActiveStates, TERMINAL_STATES, rowVars, unitVars, loopVars,
            coVars
<1>1. ASSUME NEW t \in Task, NEW expected \in SUBSET ActiveStates, NEW new \in TERMINAL_STATES,
             state' = Transition(t, expected, new), UNCHANGED <<stage, seq, ctl, todo>>
      PROVE  ShutdownInv'
  BY <1>1 DEF Transition
<1>2. ASSUME UNCHANGED <<state, stage, seq, ctl, todo>> PROVE ShutdownInv'
  BY <1>2
<1>3. ASSUME NEW t \in Task, TaskRequest(t) PROVE ShutdownInv'
  <2>1. CASE Submit(t)
    BY <2>1 DEF Submit
  <2>2. CASE Interrupt(t)
    BY <2>2 DEF Interrupt, InterruptAll
  <2> QED
    BY <1>3, <2>1, <2>2 DEF TaskRequest
<1>4. CASE Schedule
  <2>1. PICK S \in SUBSET Window : SchedulePrefix(S, MaxTask)
    BY <1>4 DEF Schedule
  <2>2. S \subseteq Queued
    BY DEF Window, FirstPage
  <2> QED
    BY <1>4, <2>1, <2>2 DEF Schedule, SchedulePrefix, Queued
<1>5. ASSUME Wipe, UNCHANGED <<state, stage>> PROVE ShutdownInv'
  BY <1>5 DEF Wipe
<1>6. CASE CrashInSchedule
  <2>1. PICK S \in SUBSET Window : \E c \in S : SchedulePrefix(S, c)
    BY <1>6 DEF CrashInSchedule
  <2>2. S \subseteq Queued
    BY DEF Window, FirstPage
  <2> QED
    BY <1>6, <2>1, <2>2 DEF CrashInSchedule, SchedulePrefix, Wipe, Queued
<1>7. ASSUME NEW t \in Task, StarterStep(t) PROVE ShutdownInv'
  <2>1. ctl \in {"up", "closing"}
    BY <1>7 DEF StarterStep, StartSpawn, StartReturns, StartFails, UnitInv, StartersWhileUp
  <2> QED
    BY <1>7, <2>1 DEF StarterStep, StartSpawn, StartReturns, StartFails, Transition
<1>8. ASSUME NEW t \in Task, WaiterStep(t) PROVE ShutdownInv'
  <2>1. CASE WaitFinish(t)
    <3>1. waiter[t].outcome \in TERMINAL_STATES
      BY <2>1 DEF WaitFinish, Waiter, NoWait, Waiting, Probing, Finishing
    <3> QED
      BY <1>1, <2>1, <3>1 DEF WaitFinish
  <2>2. CASE WaitReturns(t) \/ WaitError(t) \/ WaitProbe(t)
    BY <1>1, <1>2, <2>2 DEF WaitReturns, WaitError, WaitProbe
  <2> QED
    BY <1>8, <2>1, <2>2 DEF WaiterStep
<1>9. ASSUME NEW t \in Task, SeqStep(t) PROVE ShutdownInv'
  <2>1. seq[t] # NoSeq
    BY <1>9 DEF SeqStep, SeqAction, SeqEscalate, SeqKill, SeqKillError, SeqConfirm, NoSeq
  <2>2. state[t] \in {"stopping"} \cup TERMINAL_STATES
    BY <2>1 DEF TaskState
  <2>3. CASE SeqAction(t) \/ SeqEscalate(t)
    BY <2>2, <2>3 DEF SeqAction, SeqEscalate, Transition
  <2>4. CASE SeqKill(t) \/ SeqKillError(t)
    BY <2>2, <2>4 DEF SeqKill, SeqKillError
  <2>5. CASE SeqConfirm(t)
    BY <2>2, <2>5 DEF SeqConfirm, ConfirmEnds, Transition
  <2> QED
    BY <1>9, <2>3, <2>4, <2>5 DEF SeqStep
<1>10. CASE StartController
  BY <1>10 DEF StartController
<1>11. ASSUME NEW t \in Task, RecoverStep(t) PROVE ShutdownInv'
  <2>1. ctl = "recovering"
    BY <1>11 DEF RecoverStep, RecoverRebooted, RecoverRead, RecoverError, RecoverDecide
  <2>2. CASE RecoverRebooted(t) \/ RecoverRead(t)
    BY <2>1, <2>2 DEF RecoverRebooted, RecoverRead, Transition
  <2>3. CASE RecoverError(t)
    BY <1>5, <2>3 DEF RecoverError
  <2>4. CASE RecoverDecide(t)
    <3>1. CASE IsRunning(t) /\ UNCHANGED state
      BY <2>1, <2>4, <3>1 DEF RecoverDecide
    <3>2. CASE /\ state' = Transition(t, ActiveStates, RecoverOutcome(t, seen))
               /\ UNCHANGED seq
      <4>1. RecoverOutcome(t, seen) \in TERMINAL_STATES
        BY OutcomeType DEF RecoverOutcome
      <4> QED
        BY <2>1, <2>4, <3>2, <4>1 DEF RecoverDecide, Transition
    <3> QED
      BY <2>4, <3>1, <3>2 DEF RecoverDecide
  <2> QED
    BY <1>11, <2>2, <2>3, <2>4 DEF RecoverStep
<1>12. CASE RecoverDone
  BY <1>12 DEF RecoverDone
<1>13. CASE ShutdownStep
  <2>1. CASE ShutdownBegin
    BY <2>1 DEF ShutdownBegin
  <2>2. CASE ShutdownInterrupt
    BY <2>2 DEF ShutdownInterrupt, InterruptAll, TaskState
  <2>3. CASE ShutdownDrained
    BY <2>3 DEF ShutdownDrained, Queued
  <2>4. CASE ShutdownDeadline
    BY <2>4 DEF ShutdownDeadline
  <2>5. CASE ForceConfirmed
    BY <2>5 DEF ForceConfirmed
  <2>6. CASE ControllerExit
    BY <1>5, <2>6 DEF ControllerExit
  <2> QED
    BY <1>13, <2>1, <2>2, <2>3, <2>4, <2>5, <2>6 DEF ShutdownStep
<1>14. ASSUME NEW t \in Task, ForceStep(t) PROVE ShutdownInv'
  <2>1. CASE ForceMark(t)
    BY <2>1 DEF ForceMark, Transition
  <2>2. CASE ForceKill(t)
    BY <2>2 DEF ForceKill
  <2>3. CASE ForceConfirm(t)
    BY <2>3 DEF ForceConfirm, ConfirmEnds, Transition
  <2>4. CASE ForceError(t)
    BY <1>5, <2>4 DEF ForceError
  <2> QED
    BY <1>14, <2>1, <2>2, <2>3, <2>4 DEF ForceStep
<1>15. ASSUME NEW t \in Task, UnitStep(t) PROVE ShutdownInv'
  BY <1>2, <1>15 DEF UnitStep, UnitStarts, ProgramExits, ExitRecorded, UnitInactive,
                     UnitVanishes
<1>16. CASE Crash \/ Reboot
  BY <1>5, <1>16 DEF Crash, Reboot
<1>17. CASE UNCHANGED vars
  BY <1>2, <1>17 DEF vars
<1> QED
  BY <1>3, <1>4, <1>6, <1>7, <1>8, <1>9, <1>10, <1>11, <1>12, <1>13, <1>14, <1>15, <1>16,
     <1>17 DEF Next

\* When shutdown_all has returned, no row is queued or active and no recorded unit owns
\* a process, whether the tasks ended within the deadline or were killed after it.
THEOREM ExitsClean == Spec => []CleanExit
<1>1. Init => ShutdownInv
  BY DEF Init, ShutdownInv, Unstopped, AllStopping, ConfirmAhead, NothingLeft, StageOf
<1>2. TypeOK /\ UnitInv /\ ShutdownInv => CleanExit
  BY DEF ShutdownInv, NothingLeft, CleanExit, ActiveTasks, Active, Queued, Terminal,
         ActiveStates, TERMINAL_STATES, IsRunning, UnitOwnsProcessTree, UnitInv, FreshTask,
         RecordedUnitGone
<1> QED
  BY <1>1, <1>2, ShutdownInvStep, TypeCorrect, UnitInvariant, PTL DEF Spec

-----------------------------------------------------------------------------
(* How one step moves the rows between the phases of the lock              *)

\* The rows of T move from one set of states to another; the phase of every other
\* row stays as it was.
Moved(T, from, to) ==
    \A t \in Task : IF t \in T THEN state[t] \in from /\ state'[t] \in to
                    ELSE PhaseOf(state'[t]) = PhaseOf(state[t])

\* What PhaseOf makes of each group of states.
LEMMA PhaseOfStates ==
    /\ PhaseOf("absent") = "new" /\ PhaseOf("queued") = "waiting"
    /\ \A s \in ActiveStates : PhaseOf(s) = "holding"
    /\ \A s \in TERMINAL_STATES : PhaseOf(s) = "released"
BY DEF PhaseOf, ActiveStates, TERMINAL_STATES

\* Every group of states has a phase of its own.
LEMMA PhaseGroups ==
    ASSUME NEW s \in TaskState
    PROVE  /\ PhaseOf(s) = "new" <=> s = "absent"
           /\ PhaseOf(s) = "waiting" <=> s = "queued"
           /\ PhaseOf(s) = "holding" <=> s \in ActiveStates
           /\ PhaseOf(s) = "released" <=> s \in TERMINAL_STATES
BY DEF PhaseOf, TaskState, ActiveStates, TERMINAL_STATES

\* The steps of the lock that need no admission: a request, a withdrawal of waiting
\* tasks (of none, when nothing happens to the lock) and the release of one holder.
QuietMove ==
    \/ \E t \in Task : Moved({t}, {"absent"}, {"queued"})
    \/ \E T \in SUBSET Task : Moved(T, {"queued"}, {"cancelled"})
    \/ \E t \in Task : Moved({t}, ActiveStates, TERMINAL_STATES)

\* A step that leaves all rows alone moves nothing.
LEMMA SameRowsQuiet == ASSUME UNCHANGED state PROVE QuietMove
<1>1. Moved({}, {"queued"}, {"cancelled"})
  BY DEF Moved
<1> QED
  BY <1>1 DEF QuietMove

\* A compare-and-set of an active row keeps it active or releases it.
LEMMA TransitionQuiet ==
    ASSUME TypeOK, NEW t \in Task, NEW expected \in SUBSET ActiveStates,
           NEW new \in ActiveStates \cup TERMINAL_STATES,
           state' = Transition(t, expected, new)
    PROVE  QuietMove
<1>1. CASE state[t] \notin expected
  BY <1>1, SameRowsQuiet DEF Transition
<1>2. CASE state[t] \in expected /\ new \in ActiveStates
  <2>1. Moved({}, {"queued"}, {"cancelled"})
    BY <1>2, PhaseOfStates DEF Moved, Transition, TypeOK
  <2> QED
    BY <2>1 DEF QuietMove
<1>3. CASE state[t] \in expected /\ new \in TERMINAL_STATES
  <2>1. Moved({t}, ActiveStates, TERMINAL_STATES)
    BY <1>3 DEF Moved, Transition, TypeOK
  <2> QED
    BY <2>1 DEF QuietMove
<1> QED
  BY <1>1, <1>2, <1>3

\* An interrupt withdraws the waiting tasks; the launched ones keep their phase.
LEMMA InterruptQuiet ==
    ASSUME TypeOK, NEW T \in SUBSET Task, InterruptAll(T)
    PROVE  QuietMove
<1> DEFINE waiting == {t \in T : state[t] = "queued"}
<1>1. Moved(waiting, {"queued"}, {"cancelled"})
  <2> SUFFICES ASSUME NEW t \in Task
               PROVE  IF t \in waiting THEN state[t] = "queued" /\ state'[t] = "cancelled"
                      ELSE PhaseOf(state'[t]) = PhaseOf(state[t])
    BY DEF Moved
  <2>1. CASE t \in waiting
    BY <2>1 DEF InterruptAll
  <2>2. CASE t \notin waiting
    <3>1. \/ state'[t] = state[t]
          \/ state[t] \in ActiveStates /\ state'[t] \in ActiveStates
      BY <2>2 DEF InterruptAll, ActiveStates
    <3> QED
      BY <2>2, <3>1, PhaseOfStates
  <2> QED
    BY <2>1, <2>2
<1> QED
  BY <1>1 DEF QuietMove

\* Every step but the scheduler's is a quiet one for the lock, and records no blocker.
LEMMA QuietStep ==
    ASSUME TypeOK, Next
    PROVE  \/ Schedule \/ CrashInSchedule
           \/ QuietMove /\ UNCHANGED blocked_by
<1> USE DEF rowVars
<1>1. /\ ActiveStates \subseteq ActiveStates
      /\ {"starting"} \in SUBSET ActiveStates /\ {"stopping"} \in SUBSET ActiveStates
      /\ ActiveStates \in SUBSET ActiveStates
      /\ {"running", "stopping"} \subseteq ActiveStates
      /\ {"failed", "cancelled", "lost"} \subseteq TERMINAL_STATES
  BY DEF ActiveStates, TERMINAL_STATES
<1>2. ASSUME NEW t \in Task, Submit(t) PROVE QuietMove /\ UNCHANGED blocked_by
  <2>1. Moved({t}, {"absent"}, {"queued"})
    BY <1>2 DEF Submit, Moved, TypeOK
  <2> QED
    BY <1>2, <2>1 DEF Submit, QuietMove
<1>3. ASSUME NEW t \in Task, Interrupt(t) PROVE QuietMove /\ UNCHANGED blocked_by
  <2>1. {t} \in SUBSET Task
    OBVIOUS
  <2> QED
    BY <1>3, <2>1, InterruptQuiet DEF Interrupt
<1>4. ASSUME NEW t \in Task, StarterStep(t) PROVE QuietMove /\ UNCHANGED blocked_by
  BY <1>1, <1>4, SameRowsQuiet, TransitionQuiet
     DEF StarterStep, StartSpawn, StartReturns, StartFails
<1>5. ASSUME NEW t \in Task, WaiterStep(t) PROVE QuietMove /\ UNCHANGED blocked_by
  <2>1. CASE WaitFinish(t)
    <3>1. waiter[t].outcome \in ActiveStates \cup TERMINAL_STATES
      BY <2>1 DEF WaitFinish, TypeOK, Waiter, NoWait, Waiting, Probing, Finishing
    <3> QED
      BY <1>1, <2>1, <3>1, TransitionQuiet DEF WaitFinish
  <2> QED
    BY <1>1, <1>5, <2>1, SameRowsQuiet, TransitionQuiet
       DEF WaiterStep, WaitReturns, WaitError, WaitProbe
<1>6. ASSUME NEW t \in Task, ConfirmEnds(t) PROVE QuietMove
  BY <1>1, <1>6, SameRowsQuiet, TransitionQuiet DEF ConfirmEnds
<1>7. ASSUME NEW t \in Task, SeqStep(t) PROVE QuietMove /\ UNCHANGED blocked_by
  BY <1>1, <1>6, <1>7, SameRowsQuiet, TransitionQuiet
     DEF SeqStep, SeqAction, SeqEscalate, SeqKill, SeqKillError, SeqConfirm
<1>8. ASSUME NEW t \in Task, RecoverStep(t) PROVE QuietMove /\ UNCHANGED blocked_by
  <2>1. RecoverOutcome(t, seen) \in ActiveStates \cup TERMINAL_STATES
    BY <1>1, OutcomeType DEF RecoverOutcome
  <2> QED
    BY <1>1, <1>8, <2>1, SameRowsQuiet, TransitionQuiet
       DEF RecoverStep, RecoverRebooted, RecoverRead, RecoverError, RecoverDecide
<1>9. ASSUME NEW t \in Task, ForceStep(t) PROVE QuietMove /\ UNCHANGED blocked_by
  BY <1>1, <1>6, <1>9, SameRowsQuiet, TransitionQuiet
     DEF ForceStep, ForceMark, ForceKill, ForceConfirm, ForceError
<1>10. ASSUME ShutdownStep PROVE QuietMove /\ UNCHANGED blocked_by
  <2>1. Task \in SUBSET Task
    OBVIOUS
  <2> QED
    BY <1>10, <2>1, SameRowsQuiet, InterruptQuiet
       DEF ShutdownStep, ShutdownBegin, ShutdownInterrupt, ShutdownDrained,
           ShutdownDeadline, ForceConfirmed, ControllerExit
<1>11. ASSUME NEW t \in Task, UnitStep(t) PROVE QuietMove /\ UNCHANGED blocked_by
  BY <1>11, SameRowsQuiet DEF UnitStep, UnitStarts, ProgramExits, ExitRecorded,
                              UnitInactive, UnitVanishes
<1>12. ASSUME StartController \/ RecoverDone \/ Crash \/ Reboot
       PROVE  QuietMove /\ UNCHANGED blocked_by
  BY <1>12, SameRowsQuiet DEF StartController, RecoverDone, Crash, Reboot
<1> QED
  BY <1>2, <1>3, <1>4, <1>5, <1>7, <1>8, <1>9, <1>10, <1>11, <1>12 DEF Next, TaskRequest

\* A row that has left the queue never comes back to it.
LEMMA QuietForward ==
    ASSUME TypeOK, TypeOK', QuietMove, NEW t \in Task, state[t] \notin {"absent", "queued"}
    PROVE  state'[t] \notin {"absent", "queued"}
<1>1. state[t] \in TaskState /\ state'[t] \in TaskState
  BY DEF TypeOK
<1>2. CASE PhaseOf(state'[t]) = PhaseOf(state[t])
  BY <1>1, <1>2, PhaseGroups
<1>3. CASE state'[t] \in {"cancelled"} \cup TERMINAL_STATES
  BY <1>3 DEF TERMINAL_STATES
<1> QED
  BY <1>2, <1>3 DEF QuietMove, Moved

\* A scan, complete or cut short, moves waiting rows to "starting" and no other.
LEMMA ScanMoves ==
    ASSUME TypeOK, Schedule \/ CrashInSchedule
    PROVE  \E S \in SUBSET Window, c \in Task \cup {MaxTask} :
             /\ Admits(S) /\ SchedulePrefix(S, c) /\ Capacity > 0
             /\ S \subseteq Queued
             /\ \A t \in Task : state'[t] = IF t \in S /\ t <= c THEN "starting" ELSE state[t]
<1>1. \A S \in SUBSET Window : S \subseteq Queued /\ S \subseteq Task
  BY DEF Window, FirstPage, Queued
<1>2. \A S, c : SchedulePrefix(S, c) =>
        \A t \in Task : state'[t] = IF t \in S /\ t <= c THEN "starting" ELSE state[t]
  BY DEF SchedulePrefix
<1>3. CASE Schedule
  BY <1>1, <1>2, <1>3 DEF Schedule
<1>4. CASE CrashInSchedule
  <2>1. PICK S \in SUBSET Window : \E c \in S : Admits(S) /\ SchedulePrefix(S, c)
    BY <1>4 DEF CrashInSchedule
  <2>2. PICK c \in S : Admits(S) /\ SchedulePrefix(S, c)
    BY <2>1
  <2>3. c \in Task \cup {MaxTask} /\ Capacity > 0
    BY <1>1, <1>4 DEF CrashInSchedule
  <2> QED
    BY <1>1, <1>2, <2>2, <2>3
<1> QED
  BY <1>3, <1>4

-----------------------------------------------------------------------------
(* Recorded blockers                                                       *)

\* BlockersHonest without its hypothesis: it holds of whatever blockers are recorded,
\* also of those a task keeps after it has left the queue.
BlockersInv ==
    \A t \in Task : \A b \in blocked_by[t] :
        b # t /\ SharesKey(t, b) /\ state[b] \notin {"absent", "queued"}

\* The blockers a scan records are active already or were started before the row
\* they block, by the same scan.
LEMMA ScanBlockers ==
    ASSUME TypeOK, BlockersInv, Schedule \/ CrashInSchedule
    PROVE  BlockersInv'
<1>1. PICK S \in SUBSET Window, c \in Task \cup {MaxTask} :
        /\ Admits(S) /\ SchedulePrefix(S, c)
        /\ S \subseteq Queued
        /\ \A t \in Task : state'[t] = IF t \in S /\ t <= c THEN "starting" ELSE state[t]
  BY ScanMoves
<1> SUFFICES ASSUME NEW t \in Task, NEW b \in blocked_by'[t]
             PROVE  /\ b # t /\ SharesKey(t, b)
                    /\ state'[b] \notin {"absent", "queued"}
  BY DEF BlockersInv, SharesKey
<1>2. b \in Task
  BY <1>1, SchedulePrefixType
<1>3. c \in Int /\ t \in Int /\ b \in Int
  BY <1>2, ConstantsAssumption DEF Task
<1>4. CASE ~(t \in Scanned(S) /\ t <= c)
  <2>1. b \in blocked_by[t]
    BY <1>1, <1>4 DEF SchedulePrefix
  <2> QED
    BY <1>1, <1>2, <2>1 DEF BlockersInv
<1>5. CASE t \in Scanned(S) /\ t <= c
  <2>1. b \in Holders(S, t)
    BY <1>1, <1>5 DEF SchedulePrefix
  <2>2. state[t] = "queued"
    BY <1>5 DEF Scanned, Window, FirstPage, Queued
  <2>3. t \notin S
    BY <1>1, <1>5, <2>1 DEF Admits
  <2>4. (Active(b) \/ (b \in S /\ b < t)) /\ SharesKey(t, b)
    BY <2>1 DEF Holders
  <2>5. state'[b] \in ActiveStates
    BY <1>1, <1>2, <1>3, <1>5, <2>4 DEF Active, ActiveStates
  <2> QED
    BY <1>1, <2>2, <2>3, <2>4, <2>5 DEF Active, ActiveStates
<1> QED
  BY <1>4, <1>5

\* The blockers shown for a queued task are other tasks that took one of its keys:
\* no scan records a task that is itself waiting, and no coroutine puts a task that
\* was named as a blocker back in the queue.
THEOREM BlockersAreHonest == Spec => []BlockersHonest
<1>1. Init => BlockersInv
  BY DEF Init, BlockersInv
<1>2. TypeOK /\ TypeOK' /\ BlockersInv /\ [Next]_vars => BlockersInv'
  <2> SUFFICES ASSUME TypeOK, TypeOK', BlockersInv, [Next]_vars PROVE BlockersInv'
    OBVIOUS
  <2>1. CASE QuietMove /\ UNCHANGED blocked_by
    <3>1. ASSUME NEW t \in Task, NEW b \in blocked_by[t]
          PROVE  b \in Task
      BY DEF TypeOK
    <3> QED
      BY <2>1, <3>1, QuietForward DEF BlockersInv, SharesKey
  <2>2. CASE Schedule \/ CrashInSchedule
    BY <2>2, ScanBlockers
  <2>3. CASE UNCHANGED vars
    BY <2>3 DEF vars, rowVars, BlockersInv, SharesKey
  <2> QED
    BY <2>1, <2>2, <2>3, QuietStep
<1>3. BlockersInv => BlockersHonest
  BY DEF BlockersInv, BlockersHonest, Queued
<1> QED
  BY <1>1, <1>2, <1>3, TypeCorrect, PTL DEF Spec

-----------------------------------------------------------------------------
(* The concurrency limit                                                   *)

\* The sets of tasks a scan counts are finite.
LEMMA TaskSetsFinite ==
    /\ IsFiniteSet(Task)
    /\ \A S \in SUBSET Task : IsFiniteSet(S) /\ Cardinality(S) \in Nat
    /\ Slots \in Nat
<1>1. IsFiniteSet(Task)
  BY FS_Interval, ConstantsAssumption DEF Task
<1>2. \A S \in SUBSET Task : IsFiniteSet(S)
  BY <1>1, FS_Subset
<1>3. \A S \in SUBSET Task : Cardinality(S) \in Nat
  BY <1>2, FS_CardinalityType
<1>4. Slots \in Nat
  BY <1>3, ConstantsAssumption DEF Slots
<1> QED
  BY <1>1, <1>2, <1>3, <1>4

\* A nonempty set of tasks has a last one in list_tasks order.
LEMMA LastTask ==
    ASSUME NEW S \in SUBSET Task, S # {}
    PROVE  \E m \in S : \A s \in S : s <= m
<1> DEFINE D == {MaxTask - s : s \in S}
<1>1. S \subseteq Int /\ MaxTask \in Int /\ \A s \in S : s <= MaxTask
  BY ConstantsAssumption DEF Task
<1>2. D \subseteq Nat /\ D # {}
  <2>1. \A s \in S : MaxTask - s \in Nat
    BY <1>1
  <2>2. PICK s \in S : TRUE
    OBVIOUS
  <2>3. MaxTask - s \in D
    OBVIOUS
  <2> QED
    BY <2>1, <2>3
<1> HIDE DEF D
<1>3. PICK x \in D : \A y \in D : ~(<<y, x>> \in OpToRel(<, Nat))
  BY <1>2, NatLessThanWellFounded, WFMin
<1>4. \A y \in D : ~(y < x)
  BY <1>2, <1>3 DEF OpToRel
<1>5. PICK m \in S : x = MaxTask - m
  BY DEF D
<1>6. ASSUME NEW s \in S PROVE s <= m
  <2>1. MaxTask - s \in D
    BY DEF D
  <2>2. ~(MaxTask - s < MaxTask - m)
    BY <1>4, <1>5, <2>1
  <2> QED
    BY <1>1, <2>2
<1> QED
  BY <1>6

\* What a scan starts fits into the capacity it began with: when it visited the last
\* of them it had one slot left.
LEMMA ScanFits ==
    ASSUME TypeOK, CapacityBound, NEW S \in SUBSET Window, Admits(S)
    PROVE  Cardinality(ActiveTasks \cup S) <= Slots
<1>1. S \in SUBSET Task /\ ActiveTasks \in SUBSET Task
  BY DEF Window, FirstPage, Queued, ActiveTasks
<1>2. /\ IsFiniteSet(S) /\ IsFiniteSet(ActiveTasks)
      /\ Cardinality(S) \in Nat /\ Cardinality(ActiveTasks) \in Nat /\ Slots \in Nat
  BY <1>1, TaskSetsFinite
<1>3. CASE S = {}
  <2>1. ActiveTasks \cup S = ActiveTasks
    BY <1>3
  <2> QED
    BY <2>1 DEF CapacityBound
<1>4. CASE S # {}
  <2>1. PICK m \in S : \A s \in S : s <= m
    BY <1>1, <1>4, LastTask
  <2> DEFINE B == {s \in S : s < m}
  <2>2. Cardinality(B) < Slots - Cardinality(ActiveTasks)
    BY DEF Admits, Scanned, Capacity
  <2>3. B \in SUBSET Task /\ m \notin B
    <3>1. ~(m < m)
      BY <1>1, ConstantsAssumption DEF Task
    <3> QED
      BY <1>1, <3>1
  <2>4. IsFiniteSet(B) /\ Cardinality(B) \in Nat
    BY <2>3, TaskSetsFinite
  <2>5. S = B \cup {m}
    <3>1. \A s \in S : s < m \/ s = m
      BY <1>1, <2>1, ConstantsAssumption DEF Task
    <3> QED
      BY <3>1
  <2>6. Cardinality(S) = Cardinality(B) + 1
    <3> HIDE DEF B
    <3> QED
      BY <2>3, <2>4, <2>5, FS_AddElement
  <2>7. Cardinality(S) <= Slots - Cardinality(ActiveTasks)
    <3> HIDE DEF B
    <3> QED
      BY <1>2, <2>2, <2>4, <2>6
  <2>8. ActiveTasks \cap S \in SUBSET Task
    BY <1>1
  <2>9. Cardinality(ActiveTasks \cap S) \in Nat
    BY <2>8, TaskSetsFinite
  <2>10. Cardinality(ActiveTasks \cup S)
           = Cardinality(ActiveTasks) + Cardinality(S) - Cardinality(ActiveTasks \cap S)
    BY <1>2, FS_Union
  <2> QED
    BY <1>2, <2>7, <2>9, <2>10
<1> QED
  BY <1>3, <1>4

\* A set of tasks that is part of another has no more members.
LEMMA FewerTasks ==
    ASSUME NEW S \in SUBSET Task, NEW T \in SUBSET S
    PROVE  Cardinality(T) <= Cardinality(S)
BY TaskSetsFinite, FS_Subset

\* A scan, complete or cut short by a crash, stays within the limit.
LEMMA ScanWithinLimit ==
    ASSUME TypeOK, CapacityBound, Schedule \/ CrashInSchedule
    PROVE  CapacityBound'
<1>1. PICK S \in SUBSET Window, c \in Task \cup {MaxTask} :
        /\ Admits(S)
        /\ \A t \in Task : state'[t] = IF t \in S /\ t <= c THEN "starting" ELSE state[t]
  BY ScanMoves
<1>2. ActiveTasks' \in SUBSET (ActiveTasks \cup S)
  BY <1>1 DEF ActiveTasks, Active
<1>3. ActiveTasks \cup S \in SUBSET Task
  BY DEF Window, FirstPage, Queued, ActiveTasks
<1>4. Cardinality(ActiveTasks') <= Cardinality(ActiveTasks \cup S)
  BY <1>2, <1>3, FewerTasks
<1>5. Cardinality(ActiveTasks \cup S) <= Slots
  BY <1>1, ScanFits
<1>6. Cardinality(ActiveTasks') \in Nat /\ Cardinality(ActiveTasks \cup S) \in Nat
  BY <1>2, <1>3, TaskSetsFinite
<1>7. Slots \in Nat /\ Slots' = Slots
  BY TaskSetsFinite DEF Slots
<1> QED
  BY <1>4, <1>5, <1>6, <1>7 DEF CapacityBound

\* Starting, running and stopping rows never exceed max_concurrency, whatever page the
\* scan reads, wherever a crash cuts it short and whatever recovery finds afterwards.
THEOREM LimitKept == Spec => []CapacityBound
<1>1. Init => CapacityBound
  <2> SUFFICES ASSUME Init PROVE CapacityBound
    OBVIOUS
  <2>1. ActiveTasks = {}
    BY DEF Init, ActiveTasks, Active, ActiveStates
  <2> QED
    BY <2>1, FS_EmptySet, TaskSetsFinite DEF CapacityBound
<1>2. TypeOK /\ CapacityBound /\ [Next]_vars => CapacityBound'
  <2> SUFFICES ASSUME TypeOK, CapacityBound, [Next]_vars PROVE CapacityBound'
    OBVIOUS
  <2>1. CASE NoneAdmitted
    <3>1. ActiveTasks' \in SUBSET ActiveTasks /\ ActiveTasks \in SUBSET Task
      BY <2>1 DEF NoneAdmitted, ActiveTasks, Active
    <3>2. Cardinality(ActiveTasks') <= Cardinality(ActiveTasks)
      BY <3>1, FewerTasks
    <3>3. Cardinality(ActiveTasks') \in Nat /\ Cardinality(ActiveTasks) \in Nat
      BY <3>1, TaskSetsFinite
    <3>4. Slots \in Nat /\ Slots' = Slots
      BY TaskSetsFinite DEF Slots
    <3> QED
      BY <3>2, <3>3, <3>4 DEF CapacityBound
  <2>2. CASE Schedule \/ CrashInSchedule
    BY <2>2, ScanWithinLimit
  <2>3. CASE UNCHANGED vars
    <3>1. ActiveTasks' = ActiveTasks /\ Slots' = Slots
      BY <2>3 DEF vars, rowVars, ActiveTasks, Active, Slots
    <3> QED
      BY <3>1 DEF CapacityBound
  <2> QED
    BY <2>1, <2>2, <2>3, OnlySchedulerAdmits
<1> QED
  BY <1>1, <1>2, TypeCorrect, PTL DEF Spec

-----------------------------------------------------------------------------
(* Refinement of the abstract lock                                         *)

\* The rows that hold their keys are the holders of the lock.
LEMMA HoldingIsActive == TypeOK => Lock!Holding = ActiveTasks
BY PhaseGroups DEF TypeOK, Lock!Holding, Phase, ActiveTasks, Active

\* A scan acquires the keys and slots of everything it starts at once.
LEMMA ScanAcquires ==
    ASSUME TypeOK, TypeOK', KeyExclusion', CapacityBound', Schedule \/ CrashInSchedule
    PROVE  Lock!Next
<1>1. PICK S \in SUBSET Window, c \in Task \cup {MaxTask} :
        /\ S \subseteq Queued
        /\ \A t \in Task : state'[t] = IF t \in S /\ t <= c THEN "starting" ELSE state[t]
  BY ScanMoves
<1> DEFINE T == {s \in S : s <= c}
<1>2. T \in SUBSET Task /\ \A t \in T : state[t] = "queued"
  BY <1>1 DEF Queued
<1>3. \A t \in Task : state'[t] = IF t \in T THEN "starting" ELSE state[t]
  BY <1>1
<1> HIDE DEF T
<1>4. Lock!Holding \cup T = ActiveTasks'
  BY <1>2, <1>3, HoldingIsActive DEF ActiveTasks, Active, ActiveStates
<1>5. \A t \in T : Phase[t] = "waiting"
  BY <1>2, PhaseOfStates DEF Phase
<1>6. Lock!Disjoint(Lock!Holding \cup T)
  BY <1>4 DEF Lock!Disjoint, KeyExclusion, SharesKey, ActiveTasks
<1>7. Cardinality(Lock!Holding \cup T) <= Slots
  BY <1>4 DEF CapacityBound, Slots
<1>8. Phase' = [t \in Task |-> IF t \in T THEN "holding" ELSE Phase[t]]
  BY <1>3, PhaseOfStates DEF Phase, ActiveStates
<1>9. Lock!Acquire(T)
  BY <1>5, <1>6, <1>7, <1>8 DEF Lock!Acquire, Lock!Cardinality, Cardinality
<1> QED
  BY <1>2, <1>9 DEF Lock!Next

\* Every other step requests, withdraws or releases, or leaves the lock alone.
LEMMA QuietLockStep ==
    ASSUME TypeOK, TypeOK', QuietMove
    PROVE  Lock!Next
<1>1. ASSUME NEW t \in Task, Moved({t}, {"absent"}, {"queued"}) PROVE Lock!Request(t)
  <2>1. Phase[t] = "new" /\ Phase'[t] = "waiting"
    BY <1>1, PhaseOfStates DEF Moved, Phase
  <2>2. \A u \in Task : u # t => Phase'[u] = Phase[u]
    BY <1>1 DEF Moved, Phase
  <2>3. Phase' = [Phase EXCEPT ![t] = "waiting"]
    BY <2>1, <2>2 DEF Phase
  <2> QED
    BY <2>1, <2>3 DEF Lock!Request
<1>2. ASSUME NEW T \in SUBSET Task, Moved(T, {"queued"}, {"cancelled"})
      PROVE  Lock!Withdraw(T)
  <2>1. \A t \in T : Phase[t] = "waiting" /\ Phase'[t] = "released"
    BY <1>2, PhaseOfStates DEF Moved, Phase, TERMINAL_STATES
  <2>2. \A u \in Task : u \notin T => Phase'[u] = Phase[u]
    BY <1>2 DEF Moved, Phase
  <2>3. Phase' = [u \in Task |-> IF u \in T THEN "released" ELSE Phase[u]]
    BY <2>1, <2>2 DEF Phase
  <2> QED
    BY <2>1, <2>3 DEF Lock!Withdraw
<1>3. ASSUME NEW t \in Task, Moved({t}, ActiveStates, TERMINAL_STATES)
      PROVE  Lock!Release(t)
  <2>1. Phase[t] = "holding" /\ Phase'[t] = "released"
    BY <1>3, PhaseOfStates DEF Moved, Phase
  <2>2. \A u \in Task : u # t => Phase'[u] = Phase[u]
    BY <1>3 DEF Moved, Phase
  <2>3. Phase' = [Phase EXCEPT ![t] = "released"]
    BY <2>1, <2>2 DEF Phase
  <2> QED
    BY <2>1, <2>3 DEF Lock!Release
<1> QED
  BY <1>1, <1>2, <1>3 DEF QuietMove, Lock!Next

\* The rows, read by phase, are the abstract lock: a task asks once, takes all its keys
\* and a slot in one step of the scheduler, keeps them through every stop, crash and
\* recovery, gives them up once and never comes back.
THEOREM RowsImplementKeyLock == Spec => ImplementsKeyLock
<1>1. Init => Lock!Init
  BY PhaseOfStates DEF Init, Lock!Init, Phase
<1>2. /\ TypeOK /\ TypeOK' /\ KeyExclusion' /\ CapacityBound' /\ [Next]_vars
      => [Lock!Next]_Phase
  <2> SUFFICES ASSUME TypeOK, TypeOK', KeyExclusion', CapacityBound', [Next]_vars
               PROVE  Lock!Next \/ Phase' = Phase
    OBVIOUS
  <2>1. CASE UNCHANGED vars
    BY <2>1 DEF vars, rowVars, Phase
  <2> QED
    BY <2>1, QuietStep, ScanAcquires, QuietLockStep
<1> QED
  BY <1>1, <1>2, TypeCorrect, KeysExclusive, LimitKept, PTL
     DEF Spec, ImplementsKeyLock, Lock!Spec
=============================================================================
