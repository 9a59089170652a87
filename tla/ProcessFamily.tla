--------------------------- MODULE ProcessFamily ---------------------------
(***************************************************************************)
(* A task, or the command of a stop action, without systemd: the executor   *)
(* in the controller (SubprocessExecutor), the owner process it starts      *)
(* (process_owner.py), and the processes of the command.  The owner is the  *)
(* subreaper of all of them: a process whose parent dies becomes its child. *)
(* It looks for descendants by walking /proc one process at a time, while   *)
(* they fork and die.                                                       *)
(***************************************************************************)
EXTENDS Naturals, Sequences, FiniteSets

CONSTANTS
    MaxProcess,  \* bound: processes the command ever consists of
    MaxSent      \* bound: signals the controller requests

ASSUME FamilyAssumption ==
    /\ MaxProcess \in Nat \ {0}
    /\ MaxSent \in Nat

\* Processes are numbered as they are born: the owner, the command itself, and
\* what descends from it.
Process == 1..MaxProcess
Owner == 0
Leader == 1

VARIABLES
    life,        \* "unborn", "alive", "zombie" or "gone"
    parent,      \* the parent of a process
    fate,        \* how the leader died: "ended" or "killed"
    step,        \* where the owner is
    force,       \* the owner has been told to kill
    walk,        \* the signal being delivered: processes to look at, found, signalled
    status,      \* the leader's status as reaped
    ready,       \* the ready file: "none", "error" or "pid"
    mailbox,     \* datagrams in the control socket
    sent,        \* signals requested so far
    start,       \* where SubprocessExecutor.start is
    seen,        \* the controller has noticed the owner's exit
    result,      \* what wait returned
    abandoned    \* history: start gave up on an owner without a control socket

family == <<life, parent, fate>>
owner == <<step, force, walk, status, ready>>
executor == <<start, seen, result, abandoned>>
vars == <<family, owner, mailbox, sent, executor>>

Signal == {"sigint", "sigterm", "sigkill"}
Nothing == "none"
NoWalk == [sig |-> Nothing, look |-> {}, found |-> {}]

Alive == {p \in Process : life[p] = "alive"}

\* Children as /proc and waitpid know them: zombies too.
Children(q) == {p \in Process : life[p] \in {"alive", "zombie"} /\ parent[p] = q}

-----------------------------------------------------------------------------
(* Processes                                                               *)

\* p dies as f; its children, zombies too, become the owner's.
Dies(p, f) ==
    /\ life' = [life EXCEPT ![p] = "zombie"]
    /\ parent' = [q \in Process |-> IF parent[q] = p THEN Owner ELSE parent[q]]
    /\ fate' = IF p = Leader THEN f ELSE fate

Fork(p) ==
    /\ life[p] = "alive"
    /\ \E q \in Process :
        /\ life[q] = "unborn"
        /\ p < q
        /\ life' = [life EXCEPT ![q] = "alive"]
        /\ parent' = [parent EXCEPT ![q] = p]
    /\ UNCHANGED <<fate, owner, mailbox, sent, executor>>

ProcessEnds(p) ==
    /\ life[p] = "alive"
    /\ Dies(p, "ended")
    /\ UNCHANGED <<owner, mailbox, sent, executor>>

\* A process of the command waits for its own child.
ChildReaped(q) ==
    /\ life[q] = "zombie"
    /\ parent[q] # Owner
    /\ life' = [life EXCEPT ![q] = "gone"]
    /\ UNCHANGED <<parent, fate, owner, mailbox, sent, executor>>

Processes == \E p \in Process : Fork(p) \/ ProcessEnds(p) \/ ChildReaped(p)

-----------------------------------------------------------------------------
(* The owner                                                               *)

\* The control socket is bound before the command is started.
OwnerBinds ==
    /\ step = "new"
    /\ \/ step' = "bound"
       \/ step' = "exited"                       \* it cannot become a subreaper
    /\ UNCHANGED <<family, force, walk, status, ready, mailbox, sent, executor>>

OwnerSpawns ==
    /\ step = "bound"
    /\ \/ /\ step' = "spawned"
          /\ life' = [life EXCEPT ![Leader] = "alive"]
          /\ UNCHANGED ready
       \/ /\ step' = "failed"
          /\ ready' = "error"
          /\ UNCHANGED life
    /\ UNCHANGED <<parent, fate, force, walk, status, mailbox, sent, executor>>

\* The receipt is written; if that fails the owner kills the family.
OwnerReady ==
    /\ step = "spawned"
    /\ \/ step' = "reap" /\ ready' = "pid" /\ UNCHANGED force
       \/ step' = "reap" /\ force' = TRUE /\ UNCHANGED ready
    /\ UNCHANGED <<family, walk, status, mailbox, sent, executor>>

\* Mutant: the owner is done when the leader is.
DrainedWithLeader == Children(Owner) = {} \/ life[Leader] # "alive"

\* waitpid fails with ECHILD: no child is left.
Drained == Children(Owner) = {}

ReapedStatus(z) == IF Leader \in z THEN fate ELSE status

\* All zombies are reaped; when no child is left the owner leaves.
OwnerReaps ==
    /\ step = "reap"
    /\ LET zombies == {p \in Children(Owner) : life[p] = "zombie"}
       IN IF zombies # {}
          THEN /\ life' = [p \in Process |-> IF p \in zombies THEN "gone" ELSE life[p]]
               /\ status' = ReapedStatus(zombies)
               /\ UNCHANGED step
          ELSE /\ step' = IF Drained THEN "closing" ELSE "receive"
               /\ UNCHANGED <<life, status>>
    /\ UNCHANGED <<parent, fate, force, walk, ready, mailbox, sent, executor>>

\* Mutant: the family is signalled once per request.
ForcedOnce(sig) == sig = "sigkill"

\* SIGKILL is repeated in every round from then on.
Forced(sig) == force \/ sig = "sigkill"

\* One datagram, or none for 50 milliseconds.
OwnerReceives ==
    /\ step = "receive"
    /\ LET sig == IF mailbox = <<>> THEN Nothing ELSE Head(mailbox)
       IN /\ mailbox' = IF mailbox = <<>> THEN mailbox ELSE Tail(mailbox)
          /\ force' = Forced(sig)
          /\ walk' = IF Forced(sig) THEN [sig |-> "sigkill", look |-> {Owner}, found |-> {}]
                     ELSE IF sig # Nothing THEN [sig |-> sig, look |-> {Owner}, found |-> {}]
                     ELSE NoWalk
    /\ step' = IF walk' = NoWalk THEN "reap" ELSE "walk"
    /\ UNCHANGED <<family, status, ready, sent, executor>>

\* _descendants: the children of one process are read.
OwnerLooks ==
    /\ step = "walk"
    /\ \E q \in walk.look :
        LET children == IF q = Owner \/ life[q] = "alive" THEN Children(q) ELSE {}
        IN walk' = [walk EXCEPT !.look = (@ \ {q}) \cup (children \ walk.found),
                                !.found = @ \cup children]
    /\ step' = IF walk'.look = {} THEN "signal" ELSE "walk"
    /\ UNCHANGED <<family, force, status, ready, mailbox, sent, executor>>

\* One process found is signalled.  Signals other than SIGKILL may be ignored.  A
\* signal is always permitted: NoNewPrivileges of the installed service keeps a
\* program from running under another user (deploy/localflow.service:16).  Without
\* it the owner would end with EPERM, and the process would live on
\* (process_owner.py:48).
OwnerSignals ==
    /\ step = "signal"
    /\ IF walk.found = {}
       THEN /\ step' = "reap"
            /\ walk' = NoWalk
            /\ UNCHANGED family
       ELSE \E p \in walk.found :
            /\ walk' = [walk EXCEPT !.found = @ \ {p}]
            /\ UNCHANGED step
            /\ \/ life[p] = "alive" /\ Dies(p, "killed")
               \/ (life[p] # "alive" \/ walk.sig # "sigkill") /\ UNCHANGED family
    /\ UNCHANGED <<force, status, ready, mailbox, sent, executor>>

\* The control socket is closed and the process ends.
OwnerExits ==
    /\ step \in {"closing", "failed"}
    /\ step' = "exited"
    /\ mailbox' = <<>>
    /\ UNCHANGED <<family, force, walk, status, ready, sent, executor>>

OwnerWorks ==
    \/ OwnerBinds \/ OwnerSpawns \/ OwnerReady \/ OwnerReaps \/ OwnerReceives
    \/ OwnerLooks \/ OwnerSignals \/ OwnerExits

-----------------------------------------------------------------------------
(* The executor in the controller                                          *)

\* asyncio notices the exit of the owner some time later.
ExitSeen ==
    /\ step = "exited"
    /\ ~seen
    /\ seen' = TRUE
    /\ UNCHANGED <<family, owner, mailbox, sent, start, result, abandoned>>

HasControl == step \notin {"idle", "new", "exited"}

\* The datagram of SubprocessExecutor.interrupt.
Deliver(sig) == mailbox' = Append(mailbox, sig)

\* create_subprocess_exec starts the owner or fails.
StartExec ==
    /\ start = "idle"
    /\ \/ start' = "polling" /\ step' = "new"
       \/ start' = "raised" /\ UNCHANGED step    \* no directory, no such program
    /\ UNCHANGED <<family, force, walk, status, ready, mailbox, sent, seen, result, abandoned>>

\* The poll for the receipt.
StartPoll ==
    /\ start = "polling"
    /\ \/ ready = "pid" /\ start' = "started"
       \/ ready = "error" /\ start' = "collecting"
       \/ ready = "none" /\ seen /\ start' = "aborting"
    /\ UNCHANGED <<family, owner, mailbox, sent, seen, result, abandoned>>

\* Fifteen seconds without a receipt, or the start is cancelled.
StartTimeout ==
    /\ start = "polling"
    /\ start' = "aborting"
    /\ UNCHANGED <<family, owner, mailbox, sent, seen, result, abandoned>>

AbortSignal == Deliver("sigkill")

\* abort_start: SIGKILL to the family, then wait for it.  A datagram to an owner
\* that has just left raises, and so does an owner that shows no control socket
\* for five seconds.
StartAborts ==
    /\ start = "aborting"
    /\ \/ seen /\ start' = "collecting" /\ UNCHANGED <<mailbox, abandoned>>
       \/ HasControl /\ AbortSignal /\ start' = "collecting" /\ UNCHANGED abandoned
       \/ step = "exited" /\ ~seen /\ start' = "raised" /\ UNCHANGED <<mailbox, abandoned>>
       \/ step = "new" /\ start' = "raised" /\ abandoned' = TRUE /\ UNCHANGED mailbox
    /\ UNCHANGED <<family, owner, sent, seen, result>>

\* wait in a start that fails, then the exception.
StartRaises ==
    /\ start = "collecting"
    /\ seen
    /\ start' = "raised"
    /\ UNCHANGED <<family, owner, mailbox, sent, seen, result, abandoned>>

\* wait of a started command.
WaitReturns ==
    /\ start = "started"
    /\ seen
    /\ result = Nothing
    /\ result' = IF status = Nothing THEN "127" ELSE status
    /\ UNCHANGED <<family, owner, mailbox, sent, start, seen, abandoned>>

\* A stop action or the escalation asks for a signal.
Interrupt(sig) ==
    /\ start = "started"
    /\ result = Nothing
    /\ ~seen
    /\ HasControl
    /\ sent < MaxSent
    /\ sent' = sent + 1
    /\ Deliver(sig)
    /\ UNCHANGED <<family, owner, executor>>

\* Ctrl+C typed into the terminal; other input changes nothing here.
TerminalInput == Interrupt("sigint")

\* The command of a stop action has a time limit of its own.
StopCommand == Interrupt("sigkill")

Executor == ExitSeen \/ StartExec \/ StartPoll \/ StartAborts \/ StartRaises \/ WaitReturns

Init ==
    /\ life = [p \in Process |-> "unborn"]
    /\ parent = [p \in Process |-> Owner]
    /\ fate = Nothing
    /\ step = "idle"
    /\ force = FALSE
    /\ walk = NoWalk
    /\ status = Nothing
    /\ ready = "none"
    /\ mailbox = <<>>
    /\ sent = 0
    /\ start = "idle"
    /\ seen = FALSE
    /\ result = Nothing
    /\ abandoned = FALSE

Next ==
    \/ Processes
    \/ OwnerWorks
    \/ Executor
    \/ StartTimeout
    \/ \E sig \in Signal : Interrupt(sig)
    \/ TerminalInput
    \/ StopCommand

\* The owner and the event loop run; nothing is assumed of the command.
Fairness == WF_vars(OwnerWorks) /\ WF_vars(Executor)

Spec == Init /\ [][Next]_vars /\ Fairness

-----------------------------------------------------------------------------
(* Properties                                                              *)

\* Who refers to whom, and a living process descends from a started command.
TypeOK ==
    /\ life \in [Process -> {"unborn", "alive", "zombie", "gone"}]
    /\ parent \in [Process -> Process \cup {Owner}]
    /\ \A p \in Alive : parent[p] = Owner \/ life[parent[p]] = "alive"
    /\ step \in {"idle", "new", "bound", "spawned", "failed", "reap", "receive", "walk",
                 "signal", "closing", "exited"}
    /\ walk.sig \in Signal \cup {Nothing} /\ walk.found \subseteq Process
    /\ mailbox \in Seq(Signal)
    /\ sent \in 0..MaxSent
    /\ start \in {"idle", "polling", "aborting", "collecting", "started", "raised"}
    /\ result \in {Nothing, "127", "ended", "killed"}

\* When wait has returned, or start has raised, no process of the command is
\* left and none will come: not a child that outlived its parents, not one
\* forked while the family was being killed.  An owner that start has given up
\* on is excepted.
FamilyGone ==
    (start = "raised" \/ result # Nothing) /\ ~abandoned =>
        step \in {"idle", "exited"} /\ Alive = {}

\* The status a task ends with is that of its leader, whoever dies last.
LeadersStatus == result # Nothing => result = fate

\* Once SIGKILL is requested the wait ends, however the processes fork.
ForceEnds ==
    start = "started" /\ (\E i \in DOMAIN mailbox : mailbox[i] = "sigkill") ~> result # Nothing

\* start always returns or raises.
StartEnds == <>(start \in {"started", "raised"})

\* What wait returns is true: the whole family has gone, and the status is the
\* leader's.
WaitHonest == FamilyGone /\ LeadersStatus

\* Starting ends, and so does a task that is to be killed, whatever its processes
\* do.
FamilyEnds == StartEnds /\ ForceEnds
=============================================================================
