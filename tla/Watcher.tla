------------------------------ MODULE Watcher ------------------------------
(***************************************************************************)
(* The configuration half of a pass of the directory watcher (watcher.py):  *)
(* read the versions of all files, announce each one that differs from what *)
(* the last pass saw, remember what was read.  The pass does not await, but *)
(* files may be edited on disk all the while.  Nothing catches an exception *)
(* of a pass: it ends run(), and no pass follows until the controller is    *)
(* started again.                                                           *)
(***************************************************************************)
EXTENDS ConfigFiles

VARIABLES
    known,   \* _config_versions: the versions of the last pass
    scan,    \* the pass in progress: versions read, files still to announce
    dead     \* run() has ended with an exception

NoScan == [now |-> Nothing, todo |-> {}]

\* _scan_config_versions: a file that cannot be decoded is passed over.
Versions(d) == [p \in Path |-> IF d[p] = Garbled THEN Nothing ELSE d[p]]

\* One pass begins with the versions of all files.
WatchScan ==
    /\ ~dead
    /\ scan = NoScan
    /\ Versions(disk) # known
    /\ scan' = [now |-> Versions(disk), todo |-> {p \in Path : Versions(disk)[p] # known[p]}]
    /\ UNCHANGED <<known, dead>>

\* One event per file that differs.  The version is the scanned one, while the
\* dependents are looked up, and the file is read and validated, only now.
Event(p) == [path |-> p, version |-> scan.now[p], affected |-> AffectedBy(disk, p)]

WatchAnnounce(p) ==
    /\ p \in scan.todo
    /\ Traceable(disk, p)
    /\ scan' = [scan EXCEPT !.todo = @ \ {p}]
    /\ UNCHANGED <<known, dead>>

WatchDone ==
    /\ scan # NoScan
    /\ scan.todo = {}
    /\ known' = scan.now
    /\ scan' = NoScan
    /\ UNCHANGED dead

\* The pass ends where it is, and with it run().
RunEnds ==
    /\ scan' = NoScan
    /\ dead' = TRUE
    /\ UNCHANGED known

\* The dependents are looked up outside the try statement.
WatchRaises(p) ==
    /\ p \in scan.todo
    /\ ~Traceable(disk, p)
    /\ RunEnds

\* An event cannot be written, or the directories can no longer be watched.
WatchFails == ~dead /\ RunEnds

WatcherInit == known = Versions(disk) /\ scan = NoScan /\ dead = FALSE
=============================================================================
