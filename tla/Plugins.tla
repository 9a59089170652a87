------------------------------ MODULE Plugins ------------------------------
(***************************************************************************)
(* The plugin registry (plugins.py), the watcher that reloads it, and the   *)
(* tasks its plugins expand and judge.  A load reads every plugin file for  *)
(* its digest and again to execute it; neither it nor a pass of the watcher *)
(* awaits, so no request sees half of one, but files may be edited on disk  *)
(* at any moment.  A digest is identified with the code it belongs to.      *)
(***************************************************************************)
EXTENDS Watcher

CONSTANTS
    Written      \* the contents that edits of plugin files produce

\* The files of plugins/.
PluginFile == {"p", "q"}

\* The file that is loaded next: they are loaded in the order of their names.
First(todo) == IF "p" \in todo THEN "p" ELSE "q"

\* Two versions that register the plugin named after the file, one that raises,
\* one that is refused after its first plugin (for an alias or a second plugin),
\* one that registers the other's name.
Code == {"v1", "v2", "broken", "half", "clash"}

ASSUME WrittenAssumption == Written \subseteq Code

OtherFile(f) == IF f = "p" THEN "q" ELSE "p"
Registers(f, c) == IF c \in {"v1", "v2", "half"} THEN {f}
                   ELSE IF c = "clash" THEN {OtherFile(f)} ELSE {}
Raises(c) == c \in {"broken", "half"}

VARIABLES
    source,      \* source[f]: the plugin file on disk
    bytecode,    \* what __pycache__ holds for a file with this time and size
    registry,    \* PluginRegistry.plugins: the plugin of each name
    errors,      \* PluginRegistry.diagnostics: the files reported as faulty
    load,        \* the load in progress
    versions,    \* _plugin_versions: the contents of the last pass
    phase,       \* create_app: "load", then "scan", then "up"
    task,        \* a task expanded by a plugin
    announced,   \* history: the version in the last event about each path
    mentioned,   \* history: what each configuration consisted of when an event last named it
    excused      \* history: "undone", "missed", "torn", "quick": see the edits

plugins == <<source, bytecode, registry, errors, load, versions, phase>>
histories == <<announced, mentioned, excused>>
watcher == <<known, scan, dead>>
vars == <<files, watcher, plugins, task, histories>>

NotLoaded == [digest |-> Nothing, code |-> Nothing]
NoLoad == [todo |-> {}, digest |-> Nothing, found |-> Nothing, faulty |-> {}]
NoTask == [state |-> "none"]

\* The event loop is free for requests.
Free == phase = "up" /\ scan = NoScan /\ load = NoLoad

-----------------------------------------------------------------------------
(* Loading                                                                 *)

Names == PluginFile
Empty == [n \in Names |-> NotLoaded]

LoadBegin == load' = [todo |-> {f \in PluginFile : source[f] # Nothing},
                      digest |-> Nothing, found |-> Empty, faulty |-> {}]

\* path.read_bytes() for the digest; the file may be gone by now.
LoadDigest ==
    /\ load # NoLoad
    /\ load.todo # {}
    /\ load.digest = Nothing
    /\ LET f == First(load.todo)
       IN load' = IF source[f] # Nothing THEN [load EXCEPT !.digest = source[f]]
                  ELSE [load EXCEPT !.todo = @ \ {f}, !.faulty = @ \cup {f}]
    /\ UNCHANGED <<source, bytecode, registry, errors, versions, phase>>

\* What exec_module runs: bytecode that fits the file, or the file as it is now.
Executed(f) == IF bytecode[f] # Nothing THEN bytecode[f] ELSE source[f]

\* The plugins of file f with code c join those found so far; a name that is
\* taken or an exception makes the file faulty but takes nothing back.
AfterFile(f, c) ==
    LET fresh == {n \in Registers(f, c) : load.found[n] = NotLoaded}
        fails == Raises(c) \/ fresh # Registers(f, c)
    IN [todo |-> load.todo \ {f},
        digest |-> Nothing,
        found |-> [n \in Names |-> IF n \in fresh THEN [digest |-> load.digest, code |-> c]
                                   ELSE load.found[n]],
        faulty |-> IF fails THEN load.faulty \cup {f} ELSE load.faulty]

LoadExec ==
    /\ load.digest # Nothing
    /\ LET f == First(load.todo)
           c == Executed(f)
       IN /\ load' = IF source[f] = Nothing
                     THEN [load EXCEPT !.todo = @ \ {f}, !.digest = Nothing, !.faulty = @ \cup {f}]
                     ELSE AfterFile(f, c)
          /\ bytecode' = [bytecode EXCEPT ![f] = IF source[f] = Nothing THEN Nothing ELSE c]
    /\ UNCHANGED <<source, registry, errors, versions, phase>>

\* A load that finds nothing leaves the registry as it was.
Published(found) == IF found # Empty THEN found ELSE registry

\* Mutant: the watcher remembers what is on disk after the load.
VersionsAfterLoad == source

\* The watcher remembers the versions it read before the load.
VersionsBeforeLoad == versions

\* Who started the load goes on: create_app to the first scan, the watcher to its
\* next pass.
LoadEnd ==
    /\ load # NoLoad
    /\ load.todo = {}
    /\ registry' = Published(load.found)
    /\ errors' = load.faulty
    /\ load' = NoLoad
    /\ versions' = VersionsBeforeLoad
    /\ phase' = IF phase = "load" THEN "scan" ELSE phase
    /\ UNCHANGED <<source, bytecode>>

Loads == (LoadDigest \/ LoadExec \/ LoadEnd) /\ UNCHANGED <<files, watcher, task, histories>>

-----------------------------------------------------------------------------
(* The watcher                                                             *)

\* The digest of every plugin file.
VersionScan == source

\* DirectoryWatcher.__init__, the last step of create_app.
FirstScan ==
    /\ phase = "scan"
    /\ phase' = "up"
    /\ known' = Versions(disk)
    /\ dead' = FALSE
    /\ versions' = VersionScan
    /\ announced' = Versions(disk)
    /\ mentioned' = [p \in Path |-> Resolved(Versions(disk), p)]
    /\ UNCHANGED <<files, scan, source, bytecode, registry, errors, load, task, excused>>

\* The configuration half of a pass.
WatchConfig ==
    /\ phase = "up"
    /\ load = NoLoad
    /\ \/ /\ WatchScan \/ WatchDone \/ \E p \in scan.todo : WatchRaises(p)
          /\ UNCHANGED <<announced, mentioned>>
       \/ \E p \in scan.todo :
            /\ WatchAnnounce(p)
            /\ announced' = [announced EXCEPT ![p] = Event(p).version]
            /\ mentioned' = [q \in Path |-> IF q \in Event(p).affected THEN Resolved(Versions(disk), q)
                                            ELSE mentioned[q]]
    /\ UNCHANGED <<files, plugins, task, excused>>

\* The event of a pass cannot be written, or awatch gives up.
WatchBreaks ==
    /\ phase = "up"
    /\ load = NoLoad
    /\ Spend
    /\ WatchFails
    /\ UNCHANGED <<disk, job, raced, plugins, task, histories>>

\* The plugin half: read all versions and, if any differs, load.
WatchPlugins ==
    /\ Free
    /\ ~dead
    /\ VersionScan # versions
    /\ versions' = VersionScan
    /\ LoadBegin
    /\ UNCHANGED <<files, watcher, source, bytecode, registry, errors, phase, task, histories>>

-----------------------------------------------------------------------------
(* Tasks                                                                   *)

\* The plugin a document names, with its includes.
PluginOf(d, p) ==
    IF "one" \in {d[q] : q \in {p} \cup Dependencies(d, p)} THEN "p" ELSE "q"

\* diagnose_config: the plugin is loaded.
Runnable(n) == registry[n] # NotLoaded

\* expand: the snapshot names the plugin's digest, the task is made by its code.
Expand(n) ==
    /\ Runnable(n)
    /\ task' = [state |-> "active", name |-> n, digest |-> registry[n].digest,
                code |-> registry[n].code, result |-> Nothing]

\* A run of a stored configuration, and of one sent along or of a template.
ConfigRun(p) == Parses(disk, p) /\ Expand(PluginOf(disk, p))
InlineRun(n) == Expand(n)

Run ==
    /\ Free
    /\ task = NoTask
    /\ \/ \E p \in Path : ConfigRun(p)
       \/ \E n \in Names : InlineRun(n)
    /\ UNCHANGED <<files, watcher, plugins, histories>>

\* Mutant: any plugin of that name judges the task.
VerdictByName(t) ==
    IF registry[t.name] = NotLoaded THEN "error" ELSE registry[t.name].code

\* evaluate_result: the plugin must be loaded, with the digest of the snapshot.
Verdict(t) ==
    IF registry[t.name] = NotLoaded \/ registry[t.name].digest # t.digest THEN "error"
    ELSE registry[t.name].code

\* The program of the task ends by itself and the result is recorded.
Evaluate ==
    /\ Free
    /\ task.state = "active"
    /\ task' = [task EXCEPT !.state = "ended", !.result = Verdict(task)]
    /\ UNCHANGED <<files, watcher, plugins, histories>>

-----------------------------------------------------------------------------
(* Edits and restarts                                                      *)

\* A load reads no configuration and the configuration half of a pass no plugin,
\* so an edit of either during the other is the same as one right after it.

\* "undone": a file got back a text the watcher takes for already announced.
EditConfig ==
    load = NoLoad /\ \E p \in Path, t \in Edited \cup {Nothing, Garbled} :
        /\ Edit(p, t)
        /\ LET v == IF t = Garbled THEN Nothing ELSE t
           IN excused' = IF \/ v = known[p]
                            \/ scan # NoScan /\ v = scan.now[p]
                         THEN excused \cup {"undone"} ELSE excused
        /\ UNCHANGED <<watcher, plugins, task, announced, mentioned>>

\* "missed": removed, or edited after the first load has passed the file, before
\* the first scan, or put back after an edit during a load to what the watcher has
\* read; "torn": edited during a load; "quick": edited within a second and
\* to the same size, so that the bytecode of the former text still fits.
EditPlugin ==
    scan = NoScan /\ \E f \in PluginFile, c \in Written \cup {Nothing}, quick \in BOOLEAN :
        /\ Spend
        /\ source[f] # c
        /\ source' = [source EXCEPT ![f] = c]
        /\ quick => bytecode[f] # Nothing /\ c # Nothing
        /\ bytecode' = IF quick THEN bytecode ELSE [bytecode EXCEPT ![f] = Nothing]
        /\ excused' = excused
            \cup (IF \/ /\ load # NoLoad \/ "torn" \in excused
                        /\ c = versions[f]
                     \/ /\ phase # "up"
                        /\ c = Nothing \/ f \notin load.todo
                  THEN {"missed"} ELSE {})
            \cup (IF load # NoLoad THEN {"torn"} ELSE {})
            \cup (IF quick THEN {"quick"} ELSE {})
        /\ UNCHANGED <<disk, job, raced, watcher, registry, errors, load, versions, phase,
                       task, announced, mentioned>>

\* The controller dies and create_app runs again; tasks go on.
Restart ==
    /\ Spend
    /\ phase' = "load"
    /\ scan' = NoScan
    /\ registry' = Empty
    /\ errors' = {}
    /\ LoadBegin
    /\ UNCHANGED <<disk, job, raced, known, dead, source, bytecode, versions, task, histories>>

Init ==
    /\ FilesInit
    /\ WatcherInit
    /\ source = [f \in PluginFile |-> "v1"]
    /\ bytecode = [f \in PluginFile |-> Nothing]
    /\ registry = Empty
    /\ errors = {}
    /\ load = [todo |-> PluginFile, digest |-> Nothing, found |-> Empty, faulty |-> {}]
    /\ versions = source
    /\ phase = "load"
    /\ task = NoTask
    /\ announced = disk
    /\ mentioned = [p \in Path |-> Resolved(disk, p)]
    /\ excused = {}

Next ==
    \/ Loads
    \/ FirstScan
    \/ WatchConfig
    \/ WatchBreaks
    \/ WatchPlugins
    \/ Run
    \/ Evaluate
    \/ EditConfig
    \/ EditPlugin
    \/ Restart

\* The event loop runs; the watcher makes a pass every second.
Fairness ==
    /\ WF_vars(Loads)
    /\ WF_vars(FirstScan)
    /\ WF_vars(WatchConfig)
    /\ WF_vars(WatchPlugins)

Spec == Init /\ [][Next]_vars /\ Fairness

-----------------------------------------------------------------------------
(* Properties                                                              *)

\* The files, the registry and the task; a task always has a plugin.
TypeOK ==
    /\ disk \in [Path -> Text \cup {Nothing, Garbled}]
    /\ known \in [Path -> Text \cup {Nothing}]
    /\ dead \in BOOLEAN
    /\ source \in [PluginFile -> Code \cup {Nothing}]
    /\ registry \in [Names -> [digest : Code, code : Code] \cup {NotLoaded}]
    /\ errors \subseteq PluginFile
    /\ phase \in {"load", "scan", "up"}
    /\ task # NoTask => task.name \in Names /\ task.digest \in Code
    /\ announced \in [Path -> Text \cup {Nothing}]

\* In the end the last event about every path carries its version, and every
\* configuration whose resolved document changed, through any chain of
\* includes, has been named by an event since: the watcher misses nothing that
\* is edited between or during its passes.  A file that is not UTF-8 counts as
\* removed.  A file that got back a text the watcher takes for announced is
\* excepted, and so is everything after an exception has ended run(): the
\* controller neither notices nor starts it again.
ReportsSettle ==
    <>[](\/ dead
         \/ "undone" \in excused
         \/ /\ announced = Versions(disk)
            /\ \A p \in Path : mentioned[p] = Resolved(Versions(disk), p))

\* The plugins and the faults that the files on disk amount to, in their order.
Wanted ==
    [n \in Names |-> IF n \in Registers("p", source["p"]) THEN source["p"]
                     ELSE IF n \in Registers("q", source["q"]) THEN source["q"] ELSE Nothing]
Faulty ==
    {f \in PluginFile : Raises(source[f])}
    \cup (IF Registers("p", source["p"]) \cap Registers("q", source["q"]) # {} THEN {"q"} ELSE {})

\* In the end the registry holds what the files on disk amount to, unless those
\* hold no plugin at all, and exactly the faulty files are reported: an edit
\* during a pass or a load is not lost, and a faulty file costs no other file
\* its plugins.  An edit between the first load and the first scan, one made
\* during a load and undone before the next pass, and one the bytecode cache does
\* not notice, are excepted, and everything after run() has ended.
RegistrySettles ==
    <>[](\/ dead
         \/ excused \cap {"missed", "quick"} # {}
         \/ /\ errors = Faulty
            /\ \/ Wanted = [n \in Names |-> registry[n].code]
               \/ Wanted = [n \in Names |-> Nothing])

\* A task's result is the verdict of the code that expanded it, or an error,
\* across reloads and restarts.  A load torn by an edit, and stale bytecode, are
\* excepted.
ResultsByOwnCode ==
    task.state = "ended" /\ excused \cap {"torn", "quick"} = {} => task.result \in {task.code, "error"}

\* The watcher catches up with the directory: what is on disk has been announced
\* and loaded in the end, whenever it was edited, as long as run() has not ended;
\* and a restart of the controller brings a watcher that does.
WatcherSettles == ReportsSettle /\ RegistrySettles
=============================================================================
