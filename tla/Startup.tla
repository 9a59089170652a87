------------------------------ MODULE Startup ------------------------------
(***************************************************************************)
(* How a controller comes up (cli.py, paths.py, settings.py): it validates  *)
(* and locks its data directory, sets aside state of another format, fills  *)
(* in missing files of the workspace, and publishes its process id.  Data   *)
(* directories belong to one controller at a time; the workspace is shared. *)
(* A controller may die after any file operation and be started again.      *)
(***************************************************************************)
EXTENDS Naturals, Sequences

CONSTANTS
    Controller,    \* controller processes
    Directory,     \* data directories
    MaxEvents,     \* bound: deaths, stops, edits, key rotations, other programs
    Nothing

ASSUME StartupAssumption ==
    /\ MaxEvents \in Nat
    /\ Nothing \notin Controller \cup Directory

\* What the marker says of a directory: none, unreadable, older, ours, newer.
Format == {"none", "bad", "old", "ours", "newer"}

\* Directories with dynamic state, in the order they are set aside.
Dynamic == <<"runtime", "logs">>
DynamicSet == {"runtime", "logs"}

\* Files of the workspace: the settings and a plugin that comes with the
\* program, and what is in them.  "shipped" is an unmodified older version.
Provided == <<"config", "plugin">>
ProvidedSet == {"config", "plugin"}
Text == {"absent", "shipped", "current", "user"}

VARIABLES
    data,        \* data[c]: the data directory c was started with
    pc,          \* where each controller is
    todo,        \* files or directories it still has to see to
    plan,        \* what it is about to do with the first of them
    lock,        \* lock[d]: the controller that holds the instance lock
    marker,      \* marker[d]: the format in the state marker
    dynamic,     \* dynamic[d][n]: whose state the directory n holds
    saved,       \* saved[d]: state in recovery/
    file,        \* file[f]: the text of a workspace file
    former,      \* the settings file of an earlier version is there
    pid,         \* pid[d]: the process id file
    events,      \* history: deaths, stops, edits, rotations, other programs
    raced        \* history: a user wrote a file that a controller was about to replace

startup == <<data, pc, todo, plan, lock, marker, dynamic, saved, file, former, pid, raced>>

Happens == events < MaxEvents /\ events' = events + 1

Goes(c, where) == pc' = [pc EXCEPT ![c] = where]

Leave(c) ==
    /\ Goes(c, "off")
    /\ data' = [data EXCEPT ![c] = Nothing]
    /\ lock' = [d \in Directory |-> IF lock[d] = c THEN Nothing ELSE lock[d]]
    /\ todo' = [todo EXCEPT ![c] = <<>>]
    /\ plan' = [plan EXCEPT ![c] = Nothing]

-----------------------------------------------------------------------------
(* The data directory                                                      *)

\* validate_state_root: a newer format is refused before anything is created.
Validate(c) ==
    /\ pc[c] = "off"
    /\ \E d \in Directory :
        /\ marker[d] # "newer"
        /\ data' = [data EXCEPT ![c] = d]
    /\ Goes(c, "lock")
    /\ UNCHANGED <<todo, plan, lock, marker, dynamic, saved, file, former, pid, raced>>

\* Mutant: the lock is taken whoever holds it.
LockFreeAlways(d) == TRUE

LockFree(d) == lock[d] = Nothing

Refuses(d) == marker[d] = "newer"

\* InstanceLock, and initialize_state_root reads the marker again, now under the
\* lock.
TakeLock(c) ==
    /\ pc[c] = "lock"
    /\ LET d == data[c]
       IN IF ~LockFree(d) \/ Refuses(d) THEN Leave(c)
          ELSE /\ lock' = [lock EXCEPT ![d] = c]
               /\ IF marker[d] \in {"ours", "none"}
                  THEN Goes(c, "mark") /\ UNCHANGED todo
                  ELSE Goes(c, "setaside") /\ todo' = [todo EXCEPT ![c] = Dynamic]
               /\ UNCHANGED <<data, plan>>
    /\ UNCHANGED <<marker, dynamic, saved, file, former, pid, raced>>

\* Mutant: what is set aside replaces what was set aside under the same name.
KeptLatest(d, n) == {e \in saved[d] : e[1] # n} \cup {<<n, dynamic[d][n]>>}

\* recovery/ after directory n was moved there; a missing one is passed over.
Kept(d, n) ==
    saved[d] \cup (IF dynamic[d][n] = "none" THEN {} ELSE {<<n, dynamic[d][n]>>})

\* Mutant: the marker goes with the first directory.
MarkerGoesFirst(c) == TRUE

MarkerGoes(c) == todo[c] = <<>>

\* _quarantine_dynamic_state: one directory after the other moves to a new
\* directory under recovery/ (the process id file is in runtime/), the marker goes
\* last.
SetAside(c) ==
    /\ pc[c] = "setaside"
    /\ LET d == data[c]
       IN /\ marker' = [marker EXCEPT ![d] = IF MarkerGoes(c) THEN "none" ELSE @]
          /\ IF todo[c] = <<>>
             THEN Goes(c, "mark") /\ UNCHANGED <<todo, dynamic, saved, pid>>
             ELSE LET n == Head(todo[c])
                  IN /\ saved' = [saved EXCEPT ![d] = Kept(d, n)]
                     /\ dynamic' = [dynamic EXCEPT ![d][n] = "none"]
                     /\ pid' = [pid EXCEPT ![d] = IF n = "runtime" THEN Nothing ELSE @]
                     /\ todo' = [todo EXCEPT ![c] = Tail(@)]
                     /\ UNCHANGED pc
    /\ UNCHANGED <<data, plan, lock, file, former, raced>>

\* Directories are created, then the marker is written.
WriteMarker(c) ==
    /\ pc[c] = "mark"
    /\ dynamic' = [dynamic EXCEPT ![data[c]] =
                     [n \in DynamicSet |-> IF @[n] = "none" THEN "ours" ELSE @[n]]]
    /\ \/ marker' = [marker EXCEPT ![data[c]] = "ours"]
          /\ Goes(c, "files")
          /\ todo' = [todo EXCEPT ![c] = Provided]
       \/ UNCHANGED <<marker, pc, todo>> /\ dynamic' # dynamic     \* only the directories yet
    /\ UNCHANGED <<data, plan, lock, saved, file, former, pid, raced>>

-----------------------------------------------------------------------------
(* The workspace                                                           *)

\* What a look at file f leads to: an earlier settings file is moved in place, a
\* missing file is created, an unmodified older one replaced.
PlanFor(f) ==
    IF f = "config" /\ former /\ file[f] = "absent" THEN "move"
    ELSE IF file[f] = "absent" THEN "create"
    ELSE IF f = "plugin" /\ file[f] = "shipped" THEN "replace" ELSE "keep"

LookAtFile(c) ==
    /\ pc[c] \in {"files", "again"}
    /\ todo[c] # <<>>
    /\ plan[c] = Nothing
    /\ IF PlanFor(Head(todo[c])) = "keep"
       THEN todo' = [todo EXCEPT ![c] = Tail(@)] /\ UNCHANGED plan
       ELSE plan' = [plan EXCEPT ![c] = PlanFor(Head(todo[c]))] /\ UNCHANGED todo
    /\ UNCHANGED <<data, pc, lock, marker, dynamic, saved, file, former, pid, raced>>

\* A new file is linked in place, which fails if there is one by now.
Created(f) == IF file[f] = "absent" THEN "current" ELSE file[f]

WriteFile(c) ==
    /\ pc[c] \in {"files", "again"}
    /\ todo[c] # <<>>
    /\ plan[c] # Nothing
    /\ LET f == Head(todo[c])
       IN /\ file' = [file EXCEPT ![f] =
                        IF plan[c] = "move" THEN (IF former THEN "user" ELSE Created(f))
                        ELSE IF plan[c] = "create" THEN Created(f)
                        ELSE "current"]
          /\ former' = IF plan[c] = "move" THEN FALSE ELSE former
    /\ todo' = [todo EXCEPT ![c] = Tail(@)]
    /\ plan' = [plan EXCEPT ![c] = Nothing]
    /\ UNCHANGED <<data, pc, lock, marker, dynamic, saved, pid, raced>>

\* _serve loads the settings and create_app goes over the workspace once more; a
\* setting that is not valid ends the start.
FilesDone(c) ==
    /\ pc[c] = "files"
    /\ todo[c] = <<>>
    /\ \/ Goes(c, "again") /\ todo' = [todo EXCEPT ![c] = Provided] /\ UNCHANGED <<data, plan, lock>>
       \/ file["config"] = "user" /\ Leave(c)
    /\ UNCHANGED <<marker, dynamic, saved, file, former, pid, raced>>

\* The server listens and publishes its process id.
Publish(c) ==
    /\ pc[c] = "listen"
    /\ pid' = [pid EXCEPT ![data[c]] = c]
    /\ Goes(c, "up")
    /\ UNCHANGED <<data, todo, plan, lock, marker, dynamic, saved, file, former, raced>>

\* The server ends: the process id file goes if it is ours, then the lock.
Stop(c) ==
    /\ pc[c] = "up"
    /\ pid' = [pid EXCEPT ![data[c]] = IF @ = c THEN Nothing ELSE @]
    /\ Leave(c)
    /\ UNCHANGED <<marker, dynamic, saved, file, former, raced>>

\* A controller dies; the kernel releases its lock.
Dies(c) ==
    /\ pc[c] # "off"
    /\ Leave(c)
    /\ UNCHANGED <<marker, dynamic, saved, file, former, pid, raced>>

-----------------------------------------------------------------------------
(* Others                                                                  *)

\* A user writes or removes a workspace file.
UserWrites(f, t) ==
    /\ file[f] # t
    /\ file' = [file EXCEPT ![f] = t]
    /\ raced' = raced \cup
         (IF \E c \in Controller : todo[c] # <<>> /\ Head(todo[c]) = f
                                   /\ plan[c] \in {"replace", "move"} THEN {f} ELSE {})
    /\ UNCHANGED <<data, pc, todo, plan, lock, marker, dynamic, saved, former, pid>>

\* A newer version of the program uses the directory for a while.
NewerProgram(d) ==
    /\ lock[d] = Nothing
    /\ marker[d] # "newer"
    /\ marker' = [marker EXCEPT ![d] = "newer"]
    /\ dynamic' = [dynamic EXCEPT ![d] = [n \in DynamicSet |-> "newer"]]
    /\ pid' = [pid EXCEPT ![d] = Nothing]
    /\ UNCHANGED <<data, pc, todo, plan, lock, saved, file, former, raced>>

\* The marker of a directory nobody uses becomes unreadable.
Damage(d) ==
    /\ lock[d] = Nothing
    /\ marker[d] \in {"old", "ours"}
    /\ marker' = [marker EXCEPT ![d] = "bad"]
    /\ UNCHANGED <<data, pc, todo, plan, lock, dynamic, saved, file, former, pid, raced>>

StartupInit ==
    /\ data = [c \in Controller |-> Nothing]
    /\ pc = [c \in Controller |-> "off"]
    /\ todo = [c \in Controller |-> <<>>]
    /\ plan = [c \in Controller |-> Nothing]
    /\ lock = [d \in Directory |-> Nothing]
    /\ \E d \in Directory :    \* the directory of an earlier version
        /\ marker = [e \in Directory |-> IF e = d THEN "old" ELSE "none"]
        /\ dynamic = [e \in Directory |-> [n \in DynamicSet |-> marker[e]]]
    /\ saved = [d \in Directory |-> {}]
    /\ file \in [ProvidedSet -> {"absent", "shipped"}]
    /\ file["config"] = "absent"
    /\ former \in BOOLEAN
    /\ pid = [d \in Directory |-> Nothing]
    /\ events = 0
    /\ raced = {}

Starts(c) ==
    \/ Validate(c) \/ TakeLock(c) \/ SetAside(c) \/ WriteMarker(c)
    \/ LookAtFile(c) \/ WriteFile(c) \/ FilesDone(c) \/ Publish(c)

-----------------------------------------------------------------------------
(* Properties                                                              *)

StartupTypeOK ==
    /\ data \in [Controller -> Directory \cup {Nothing}]
    /\ lock \in [Directory -> Controller \cup {Nothing}]
    /\ marker \in [Directory -> Format]
    /\ file \in [ProvidedSet -> Text]
    /\ pid \in [Directory -> Controller \cup {Nothing}]
    /\ events \in 0..MaxEvents

\* The controllers past the lock.
Owners(d) == {c \in Controller : pc[c] \notin {"off", "lock"} /\ data[c] = d}

\* Where a controller uses the state of its directory.
Serving == {"files", "again", "written", "listen", "up"}

\* A data directory has one owner, and the process id it publishes is the id of
\* the controller that serves it.
OneOwner ==
    \A d \in Directory :
        /\ \A b, c \in Owners(d) : b = c
        /\ \A c \in Owners(d) : lock[d] = c /\ (pc[c] = "up" => pid[d] = c)

\* A controller never serves state of another format, whenever an earlier start
\* died while setting it aside, and state of a newer format it never changes.
OwnFormatOnly ==
    \A d \in Directory :
        /\ \A c \in Owners(d) : pc[c] \in Serving =>
             marker[d] = "ours" /\ \A n \in DynamicSet : dynamic[d][n] = "ours"
        /\ marker[d] = "newer" => \A n \in DynamicSet : dynamic[d][n] = "newer"

\* State that a start moves away is in recovery/ then, and stays there, however
\* often starts are interrupted.
StateKept ==
    [][\A d \in Directory :
        /\ saved[d] \subseteq saved'[d]
        /\ \A n \in DynamicSet : dynamic[d][n] # "none" /\ dynamic'[d][n] = "none" =>
             <<n, dynamic[d][n]>> \in saved'[d]]_startup

\* What a user has written in the workspace no start replaces, unless it was
\* written while a controller was replacing an unmodified file.
UserFilesKept ==
    [][\A f \in ProvidedSet :
        file[f] = "user" /\ file'[f] # "user" => events' # events \/ f \in raced]_<<startup, events>>

\* A start, finished or not, loses neither state nor what a user has written.
StartLosesNothing == StateKept /\ UserFilesKept
=============================================================================
