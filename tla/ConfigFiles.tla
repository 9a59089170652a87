---------------------------- MODULE ConfigFiles ----------------------------
(***************************************************************************)
(* The configuration files under config/ and the requests that change them: *)
(* config_repository.py and workspace_repository.py behind their routes.    *)
(*                                                                          *)
(* A route does not await, so requests run one after the other; but people  *)
(* and programs edit the directory at any time, also between the check a    *)
(* request makes and the rename that ends it.  A request is therefore a     *)
(* check and one file operation or two.  A version is the hash of a text    *)
(* and is identified with it.  A definition marked "Mutant:" is a plausible *)
(* bug, used only to check that a property notices it.                      *)
(***************************************************************************)
EXTENDS Naturals, FiniteSets

CONSTANTS
    MaxSpent,    \* bound: edits on disk, requests, restarts and acts of users together
    Edited,      \* the texts that edits, API clients and the user write
    Nothing      \* no text, no file, no version

\* A path is a directory and a name.
Path == {<<"top", "a">>, <<"top", "b">>, <<"sub", "a">>}

\* Two documents, a syntax error, and two that include a file named "a": one in
\* the same directory, one in the other.
Text == {"one", "two", "bad", "here", "other"}

\* What a file holds whose bytes are not UTF-8; no request writes it.
Garbled == "garbled"

ASSUME FilesAssumption ==
    /\ MaxSpent \in Nat
    /\ Edited \subseteq Text
    /\ Nothing \notin Text

VARIABLES
    disk,     \* disk[p]: the text of the file at p
    job,      \* the request in progress
    spent,    \* history: edits, requests, restarts and acts of users
    raced     \* history: paths edited on disk during the request in progress

files == <<disk, job, spent, raced>>

Spend == spent < MaxSpent /\ spent' = spent + 1

Exists(d, p) == d[p] # Nothing

-----------------------------------------------------------------------------
(* Includes                                                                *)

OtherDir(dir) == IF dir = "top" THEN "sub" ELSE "top"

IncludeOf(p, t) ==
    IF t = "here" THEN {<<p[1], "a">>}
    ELSE IF t = "other" THEN {<<OtherDir(p[1]), "a">>} ELSE {}

Included(d, p) == IncludeOf(p, d[p])

\* Every include target, direct or not, whether it exists or not: three files,
\* so chains have at most three links.
Dependencies(d, p) ==
    LET step(S) == S \cup UNION {Included(d, q) : q \in S}
    IN step(step(Included(d, p)))

\* The configurations whose result can change with the file at p.
AffectedBy(d, p) == {p} \cup {q \in Path : Exists(d, q) /\ p \in Dependencies(d, q)}

\* To find them, every other file is read, with all it includes: dependencies
\* forgives a file that cannot be opened but not one that cannot be decoded.
Traceable(d, p) ==
    \A q \in Path \ {p} : Exists(d, q) => \A r \in {q} \cup Dependencies(d, q) : d[r] # Garbled

\* parse succeeds: the includes exist and neither they nor the file have errors.
Parses(d, p) ==
    /\ \A q \in {p} \cup Dependencies(d, p) : Exists(d, q) /\ d[q] \notin {"bad", Garbled}
    /\ p \notin Dependencies(d, p)

\* What the document at p is made of.
Resolved(d, p) == [q \in {p} \cup Dependencies(d, p) |-> d[q]]

\* Mutant: the text is moved as it is.
MovedUnchanged(t, p, q) == t

\* move rewrites relative includes when the directory changes.
Moved(t, p, q) ==
    IF p[1] = q[1] THEN t
    ELSE IF t = "here" THEN "other" ELSE IF t = "other" THEN "here" ELSE t

-----------------------------------------------------------------------------
(* Requests                                                                *)

NoJob == [op |-> "none"]
Job(op, who, p, q, t, sees) ==
    [op |-> op, who |-> who, path |-> p, target |-> q, text |-> t, sees |-> sees]

\* "sees" is the version the sender named: what it believes to be there.

\* Mutant: a request without a version passes.
VersionLoose(p, expected) == expected \in {disk[p], Nothing, "*"}

\* The If-Match check: "*" or no version is for a file that does not exist.
VersionMatches(p, expected) ==
    IF Exists(disk, p) THEN expected = disk[p] ELSE expected \in {Nothing, "*"}

Begin(j) == job' = j /\ raced' = {}

\* PUT and POST of a file, by config_write, workspace_write and config_create.
WriteCheck(who, p, t, expected) ==
    /\ VersionMatches(p, expected)
    /\ Begin(Job("write", who, p, p, t, IF expected = "*" THEN Nothing ELSE expected))

\* DELETE /config/files: the version is required.
DeleteCheck(who, p, expected) ==
    /\ Exists(disk, p)
    /\ expected = disk[p]
    /\ Begin(Job("delete", who, p, p, Nothing, expected))

\* POST /config/files/{path}/move.
MoveCheck(who, p, q, expected) ==
    /\ p # q
    /\ Exists(disk, p)
    /\ expected = disk[p]
    /\ ~Exists(disk, q)
    /\ Begin(Job("move", who, p, q, Moved(disk[p], p, q), expected))

\* POST /workspace/moves, POST /workspace/copies and DELETE /workspace/entries:
\* no version, no look at the includes.
EntryCheck(op, who, p, q) ==
    /\ Exists(disk, p)
    /\ op \in {"rename", "copy"} => ~Exists(disk, q)
    /\ Begin(Job(op, who, p, q, Nothing, disk[p]))

\* os.replace of the temporary file.
Replace ==
    /\ job.op = "write"
    /\ disk' = [disk EXCEPT ![job.path] = job.text]
    /\ job' = NoJob

Unlink ==
    /\ job.op \in {"delete", "trash", "unlink"}
    /\ disk' = [disk EXCEPT ![job.path] = Nothing]
    /\ job' = NoJob

\* The new name is written before the old one is removed.
Place ==
    /\ job.op = "move"
    /\ disk' = [disk EXCEPT ![job.target] = job.text]
    /\ job' = [job EXCEPT !.op = "unlink"]

\* rename and copy take what is there when they run, and put it over whatever
\* has come to the target meanwhile.
Rename ==
    /\ job.op = "rename"
    /\ disk' = IF Exists(disk, job.path)
               THEN [disk EXCEPT ![job.target] = disk[job.path], ![job.path] = Nothing]
               ELSE disk
    /\ job' = NoJob

CopyFile ==
    /\ job.op = "copy"
    /\ disk' = IF Exists(disk, job.path) THEN [disk EXCEPT ![job.target] = disk[job.path]]
               ELSE disk
    /\ job' = NoJob

FileOperation ==
    /\ Replace \/ Unlink \/ Place \/ Rename \/ CopyFile
    /\ UNCHANGED <<spent, raced>>

\* An API client, with any version it may have read.
Call ==
    /\ job = NoJob
    /\ Spend
    /\ \E p \in Path :
        \/ \E t \in Edited, v \in Text \cup {Nothing, "*"} : WriteCheck("api", p, t, v)
        \/ \E v \in Text :
            \/ DeleteCheck("api", p, v)
            \/ \E q \in Path : MoveCheck("api", p, q, v)
        \/ \E q \in Path \ {p}, op \in {"rename", "copy"} : EntryCheck(op, "api", p, q)
        \/ EntryCheck("trash", "api", p, p)
    /\ UNCHANGED disk

-----------------------------------------------------------------------------
(* Edits on disk                                                           *)

Edit(p, t) ==
    /\ Spend
    /\ disk[p] # t
    /\ disk' = [disk EXCEPT ![p] = t]
    /\ raced' = IF job = NoJob THEN raced ELSE raced \cup {p}
    /\ UNCHANGED job

FilesInit ==
    /\ disk = [p \in Path |-> IF p = <<"top", "a">> THEN "one"
                              ELSE IF p = <<"top", "b">> THEN "here" ELSE Nothing]
    /\ job = NoJob
    /\ spent = 0
    /\ raced = {}

-----------------------------------------------------------------------------
(* Properties                                                              *)

FilesTypeOK ==
    /\ disk \in [Path -> Text \cup {Nothing}]
    /\ job # NoJob => job.path \in Path /\ job.target \in Path
    /\ spent \in 0..MaxSpent
    /\ raced \subseteq Path

\* A request that names a version replaces or removes only the text of that
\* version, and a new file covers none, unless the path was edited on disk
\* between the request's check and its file operation.
NoBlindOverwrite ==
    [][\A p \in Path :
        /\ job.op \in {"write", "delete"}
        /\ disk'[p] # disk[p]
        /\ job' # job
        /\ p \notin raced
        => p = job.path /\ disk[p] = job.sees]_files

\* While a configuration is moved, at every moment and whenever the controller
\* dies, its text is at the old place or at the new one, and it includes the
\* same files in both, unless somebody edited either on disk meanwhile.
MoveKeepsFile ==
    job.op \in {"move", "unlink"} /\ raced \cap {job.path, job.target} = {} =>
        /\ disk[job.path] = job.sees \/ disk[job.target] = job.text
        /\ IncludeOf(job.path, job.sees) = IncludeOf(job.target, job.text)
=============================================================================
