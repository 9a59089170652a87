------------------------------ MODULE TaskLog -------------------------------
(***************************************************************************)
(* The writers of one task log: the supervisor, which drains the program's  *)
(* pseudo terminal into it, and the service and the executor of the         *)
(* controller process, which append lifecycle lines to the same file.  The  *)
(* supervisor's loop also types what the controller sends to its control    *)
(* socket into the terminal, which blocks while the terminal's input is     *)
(* full.  (A terminal that edits lines drops what does not fit, and never   *)
(* blocks; a program may well turn that off.)                               *)
(***************************************************************************)
EXTENDS BoundedLog, Sequences

CONSTANTS
    PtyCapacity,  \* bytes the pseudo terminal holds before the program blocks
    InputCapacity,\* bytes of input it holds before the supervisor blocks
    ReadSize,     \* the supervisor's read size (65536)
    MaxOutput,    \* bound: bytes the program writes
    MaxLines,     \* bound: lifecycle lines of the service
    MaxSent,      \* bound: control messages
    MaxMessage    \* bytes of input in a control message (65535)

ASSUME TaskLogAssumption ==
    /\ Writer = {"service", "executor", "supervisor"}
    /\ {PtyCapacity, InputCapacity, ReadSize} \subseteq Nat \ {0}
    /\ {MaxOutput, MaxLines, MaxSent, MaxMessage} \subseteq Nat

VARIABLES
    lines,    \* lifecycle lines the service has written
    start,    \* progress of SystemdExecutor.start
    sup,      \* progress of supervise
    child,    \* the program: "none", "running" or "exited"
    written,  \* bytes the program has written
    pty,      \* bytes of output in the pseudo terminal
    input,    \* bytes of input in it
    control,  \* messages in the control socket, by their bytes of input
    sent,     \* control messages sent so far
    ready,    \* what select reported and the loop has not served yet
    typing    \* bytes that os.write has still to put into the terminal

loopVars == <<input, control, sent, ready, typing>>
programVars == <<lines, start, sup, child, written, pty, loopVars>>
vars == <<logVars, programVars>>

-----------------------------------------------------------------------------
(* The controller's lines                                                  *)

\* The controller is one event loop: while the service has its transient writer
\* open the executor's coroutine does not run.
ServiceIdle == ~log["service"].open

\* _log_lifecycle, append_lifecycle: open, write one line, close.  The open may
\* fail with an error that is only logged.
ServiceOpens ==
    /\ start # "opened"
    /\ lines < MaxLines
    /\ lines' = lines + 1
    /\ Open("service") \/ OpenFails("service")
    /\ UNCHANGED <<start, sup, child, written, pty, loopVars>>

ServiceWrites ==
    /\ Write("service", 1, TRUE)
    /\ UNCHANGED programVars

\* SystemdExecutor.start: its writer stays open across systemd-run.
ExecutorOpens ==
    /\ ServiceIdle
    /\ start = "created"
    /\ \/ Open("executor") /\ start' = "opened"
       \/ OpenFails("executor") /\ start' = "failed"
    /\ UNCHANGED <<lines, sup, child, written, pty, loopVars>>

ExecutorStarting ==
    /\ ServiceIdle
    /\ start = "opened"
    /\ Write("executor", 1, FALSE)
    /\ start' = "launching"
    /\ UNCHANGED <<lines, sup, child, written, pty, loopVars>>

\* systemd starts the unit: the supervisor forks the program on a new terminal.
SystemdRuns ==
    /\ start = "launching"
    /\ sup = "none"
    /\ sup' = "forked"
    /\ child' = "running"
    /\ UNCHANGED <<lines, start, written, pty, loopVars, logVars>>

ExecutorAccepted ==
    /\ ServiceIdle
    /\ start = "launching"
    /\ sup # "none"
    /\ Write("executor", 1, TRUE)
    /\ start' = "accepted"
    /\ UNCHANGED <<lines, sup, child, written, pty, loopVars>>

ExecutorStartFailed ==
    /\ ServiceIdle
    /\ start = "launching"
    /\ sup = "none"
    /\ Write("executor", 1, TRUE)
    /\ start' = "failed"
    /\ UNCHANGED <<lines, sup, child, written, pty, loopVars>>

-----------------------------------------------------------------------------
(* The program and its supervisor                                          *)

ProgramWrites ==
    /\ child = "running"
    /\ pty < PtyCapacity
    /\ written < MaxOutput
    /\ written' = written + 1
    /\ pty' = pty + 1
    /\ UNCHANGED <<lines, start, sup, child, loopVars, logVars>>

ProgramExits ==
    /\ child = "running"
    /\ child' = "exited"
    /\ UNCHANGED <<lines, start, sup, written, pty, loopVars, logVars>>

ProgramReads ==
    /\ child = "running"
    /\ input > 0
    /\ input' = input - 1
    /\ UNCHANGED <<lines, start, sup, child, written, pty, control, sent, ready, typing, logVars>>

\* SystemdExecutor.write and resize: a datagram to the socket, while there is one.
ControllerSends ==
    /\ sup \notin {"none", "done", "failed"}
    /\ sent < MaxSent
    /\ sent' = sent + 1
    /\ \E n \in 0..MaxMessage : control' = Append(control, n)
    /\ UNCHANGED <<lines, start, sup, child, written, pty, input, ready, typing, logVars>>

\* The supervisor opens its writer only after the program is running; a failing
\* open ends the supervisor, and with it the unit.
SupervisorOpens ==
    /\ sup = "forked"
    /\ \/ Open("supervisor") /\ sup' = "opened"
       \/ OpenFails("supervisor") /\ sup' = "failed"
    /\ UNCHANGED <<lines, start, child, written, pty, loopVars>>

\* process.source, process.command and process.started, as one line.
SupervisorPreamble ==
    /\ sup = "opened"
    /\ Write("supervisor", 1, FALSE)
    /\ sup' = "select"
    /\ UNCHANGED <<lines, start, child, written, pty, loopVars>>

\* What select reports: both descriptors, if both have something.
Ready ==
    IF sup = "select"
    THEN {x \in {"output", "control"} : IF x = "output" THEN pty > 0 ELSE control # <<>>}
    ELSE ready

Serving(x) == sup \in {"select", "serving"} /\ x \in Ready

\* The round goes on with the other descriptor, if it was reported, or ends.
Served(left) ==
    /\ ready' = left
    /\ sup' = IF left = {} THEN "waitpid" ELSE "serving"

\* Mutant: output is no longer read once the log has stopped storing.
SupervisorReadsStored ==
    /\ Serving("output")
    /\ IF log["supervisor"].stopped THEN UNCHANGED <<logVars, pty>>
       ELSE LET n == Least(pty, ReadSize)
            IN Write("supervisor", n, FALSE) /\ pty' = pty - n
    /\ Served(Ready \ {"output"})
    /\ UNCHANGED <<lines, start, child, written, input, control, sent, typing>>

\* One read of the output.
SupervisorReads ==
    /\ Serving("output")
    /\ LET n == Least(pty, ReadSize)
       IN Write("supervisor", n, FALSE) /\ pty' = pty - n
    /\ Served(Ready \ {"output"})
    /\ UNCHANGED <<lines, start, child, written, input, control, sent, typing>>

\* One message from the control socket: a resize, which is one without input, or
\* input, which is then typed.
SupervisorReceives ==
    /\ Serving("control")
    /\ control' = Tail(control)
    /\ typing' = Head(control)
    /\ IF Head(control) = 0 THEN Served(Ready \ {"control"})
       ELSE ready' = Ready \ {"control"} /\ sup' = "typing"
    /\ UNCHANGED <<lines, start, child, written, pty, input, sent, logVars>>

\* os.write on the terminal puts in what fits and waits for the program to read.
Blocked == sup = "typing" /\ input = InputCapacity

SupervisorTypes ==
    /\ sup = "typing"
    /\ ~Blocked
    /\ input' = input + 1
    /\ typing' = typing - 1
    /\ IF typing = 1 THEN Served(ready) ELSE UNCHANGED <<ready, sup>>
    /\ UNCHANGED <<lines, start, child, written, pty, control, sent, logVars>>

\* No process has the terminal open any more: os.write raises, the writer is
\* closed and the supervisor ends without the exit record.
TypingFails ==
    /\ sup = "typing"
    /\ child = "exited"
    /\ Abandon("supervisor")
    /\ sup' = "failed"
    /\ UNCHANGED <<lines, start, child, written, pty, loopVars>>

SelectTimesOut ==
    /\ sup = "select"
    /\ Ready = {}
    /\ sup' = "waitpid"
    /\ UNCHANGED <<lines, start, child, written, pty, loopVars, logVars>>

WaitpidAlive ==
    /\ sup = "waitpid"
    /\ child = "running"
    /\ sup' = "select"
    /\ UNCHANGED <<lines, start, child, written, pty, loopVars, logVars>>

\* process.exited, the exit file, and the end of the supervisor.
WaitpidExited ==
    /\ sup = "waitpid"
    /\ child = "exited"
    /\ Write("supervisor", 1, TRUE)
    /\ sup' = "done"
    /\ UNCHANGED <<lines, start, child, written, pty, loopVars>>

\* SIGKILL of the control group.
SupervisorKilled ==
    /\ sup \in {"opened", "select", "serving", "typing", "waitpid"}
    /\ Abandon("supervisor")
    /\ sup' = "failed"
    /\ child' = "exited"
    /\ UNCHANGED <<lines, start, written, pty, loopVars>>

-----------------------------------------------------------------------------

Init ==
    /\ LogInit
    /\ lines = 0
    /\ start = "created"
    /\ sup = "none"
    /\ child = "none"
    /\ written = 0
    /\ pty = 0
    /\ input = 0
    /\ control = <<>>
    /\ sent = 0
    /\ ready = {}
    /\ typing = 0

Controller ==
    \/ ServiceOpens
    \/ ServiceWrites
    \/ ExecutorOpens
    \/ ExecutorStarting
    \/ ExecutorAccepted
    \/ ExecutorStartFailed
    \/ ControllerSends

Supervisor ==
    \/ SupervisorOpens
    \/ SupervisorPreamble
    \/ SupervisorReads
    \/ SupervisorReceives
    \/ SupervisorTypes
    \/ SelectTimesOut
    \/ WaitpidAlive
    \/ WaitpidExited

Disk == DiskFills /\ UNCHANGED programVars

Next ==
    \/ Controller
    \/ SystemdRuns
    \/ ProgramWrites
    \/ ProgramReads
    \/ ProgramExits
    \/ Supervisor
    \/ TypingFails
    \/ SupervisorKilled
    \/ Disk

Spec == Init /\ [][Next]_vars

\* The supervisor is a loop whose select waits a quarter of a second at most, and
\* which waits for nothing else while it is not blocked; nothing is assumed of
\* the program, not even that it reads its input, of the host or the controller.
FairSpec == Spec /\ WF_vars(Supervisor)

-----------------------------------------------------------------------------
(* Properties                                                              *)

\* The states of the coroutines, of the supervisor and of the terminal.
TypeOK ==
    /\ LogTypeOK
    /\ lines \in 0..MaxLines
    /\ start \in {"created", "opened", "launching", "accepted", "failed"}
    /\ sup \in {"none", "forked", "opened", "select", "serving", "typing", "waitpid", "done",
               "failed"}
    /\ child \in {"none", "running", "exited"}
    /\ written \in 0..MaxOutput
    /\ pty \in 0..PtyCapacity
    /\ input \in 0..InputCapacity
    /\ control \in Seq(0..MaxMessage)
    /\ sent \in 0..MaxSent
    /\ ready \subseteq {"output", "control"}
    /\ typing \in 0..MaxMessage

\* Output keeps draining: whether or not the log still stores, and whatever is sent
\* to the supervisor meanwhile, a program whose terminal is full can write again,
\* unless its supervisor has ended, or is blocked for good by input that the program
\* does not read (supervisor.py:71-97).
OutputKeepsDraining ==
    []<>~Blocked => (pty = PtyCapacity ~> (pty < PtyCapacity \/ sup \in {"done", "failed"}))
=============================================================================
