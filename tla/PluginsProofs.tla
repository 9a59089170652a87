---------------------------- MODULE PluginsProofs ----------------------------
(***************************************************************************)
(* For any number of edits, restarts, loads and passes of the watcher: a    *)
(* task is judged by the code that expanded it, or not at all.  The digest  *)
(* that evaluate_result compares stands for the code only because a load    *)
(* that no edit falls into reads the same file twice, and because bytecode  *)
(* that still fits a file was compiled from it.                             *)
(***************************************************************************)
EXTENDS Plugins, TLAPS

Content == Code \cup {Nothing}
Plugin == [digest : Content, code : Content]
Loading == [todo : SUBSET PluginFile, digest : Content, found : [Names -> Plugin],
            faulty : SUBSET PluginFile]
Expanded == [state : {"active", "ended"}, name : Names, digest : Content, code : Content,
             result : Content \cup {"error"}]

Typed ==
    /\ source \in [PluginFile -> Content]
    /\ bytecode \in [PluginFile -> Content]
    /\ registry \in [Names -> Plugin]
    /\ load = NoLoad \/ load \in Loading
    /\ task = NoTask \/ task \in Expanded

\* No edit fell into a load, and none was too quick for the bytecode cache.
Untorn == "torn" \notin excused /\ "quick" \notin excused

\* Bytecode that fits a file was compiled from it.
CacheFits == \A f \in PluginFile : bytecode[f] = Nothing \/ bytecode[f] = source[f]

\* Between the two reads of a file its digest is that of the file.
DigestCurrent ==
    load.digest # Nothing => load.todo # {} /\ load.digest = source[First(load.todo)]

\* A digest stands for the code it was recorded with.
Faithful(p) == p.digest = p.code
LoadFaithful == load # NoLoad => \A n \in Names : Faithful(load.found[n])
RegistryFaithful == \A n \in Names : Faithful(registry[n])
TaskFaithful == task # NoTask => Faithful(task)

ResultFaithful == task.state = "ended" => task.result \in {task.code, "error"}

PluginsInv ==
    /\ Typed
    /\ Untorn => /\ CacheFits
                 /\ DigestCurrent
                 /\ LoadFaithful
                 /\ RegistryFaithful
                 /\ TaskFaithful
                 /\ ResultFaithful

-----------------------------------------------------------------------------
(* The steps                                                               *)

\* The file that is loaded next is one of those to load.
LEMMA FirstInTodo ==
    ASSUME NEW todo \in SUBSET PluginFile, todo # {}
    PROVE  First(todo) \in todo
BY DEF First, PluginFile

LEMMA PluginsInitial == Init => PluginsInv
<1> SUFFICES ASSUME Init PROVE PluginsInv
  OBVIOUS
<1>1. Typed
  BY DEF Init, Typed, Content, Code, Empty, NotLoaded, Plugin, Loading, Names
<1>2. CacheFits /\ DigestCurrent /\ LoadFaithful /\ RegistryFaithful
  BY DEF Init, CacheFits, DigestCurrent, LoadFaithful, RegistryFaithful, Faithful, Empty,
         NotLoaded
<1>3. TaskFaithful /\ ResultFaithful
  BY DEF Init, TaskFaithful, ResultFaithful, NoTask
<1> QED
  BY <1>1, <1>2, <1>3 DEF PluginsInv

\* The first read of a file.
LEMMA DigestStep ==
    ASSUME PluginsInv, LoadDigest, UNCHANGED <<task, excused>>
    PROVE  PluginsInv'
<1> DEFINE f == First(load.todo)
<1>1. load # NoLoad /\ load \in Loading /\ load.todo # {} /\ load.digest = Nothing
  BY DEF LoadDigest, PluginsInv, Typed
<1>2. f \in load.todo /\ f \in PluginFile
  BY <1>1, FirstInTodo DEF Loading
<1>3. UNCHANGED <<source, bytecode, registry, task, excused>>
  BY DEF LoadDigest
<1>4. source[f] \in Content
  BY <1>2 DEF PluginsInv, Typed
<1>5. CASE source[f] # Nothing
  <2>1. load' = [load EXCEPT !.digest = source[f]]
    BY <1>5 DEF LoadDigest
  <2>2. load' \in Loading /\ load'.todo = load.todo /\ load'.digest = source[f]
        /\ load'.found = load.found
    BY <1>1, <1>4, <2>1 DEF Loading
  <2> QED
    BY <1>1, <1>3, <2>2
       DEF PluginsInv, Typed, Untorn, CacheFits, DigestCurrent, LoadFaithful,
           RegistryFaithful, TaskFaithful, ResultFaithful
<1>6. CASE source[f] = Nothing
  <2>1. load' = [load EXCEPT !.todo = @ \ {f}, !.faulty = @ \cup {f}]
    BY <1>6 DEF LoadDigest
  <2>2. load' \in Loading /\ load'.digest = Nothing /\ load'.found = load.found
    BY <1>1, <1>2, <2>1 DEF Loading
  <2> QED
    BY <1>1, <1>3, <2>2
       DEF PluginsInv, Typed, Untorn, CacheFits, DigestCurrent, LoadFaithful,
           RegistryFaithful, TaskFaithful, ResultFaithful
<1> QED
  BY <1>5, <1>6

\* The second read: what is executed is what the digest was taken from.
LEMMA ExecStep ==
    ASSUME PluginsInv, LoadExec, UNCHANGED <<task, excused>>
    PROVE  PluginsInv'
<1> DEFINE f == First(load.todo)
           c == Executed(f)
<1>1. load # NoLoad /\ load \in Loading /\ load.digest # Nothing
  BY DEF LoadExec, PluginsInv, Typed, NoLoad
<1>2. f \in PluginFile
  BY DEF First, PluginFile
<1>3. UNCHANGED <<source, registry, task, excused>>
  BY DEF LoadExec
<1>4. c \in Content /\ source[f] \in Content
  BY <1>2 DEF PluginsInv, Typed, Executed
<1>5. Untorn => c = source[f] /\ load.digest = source[f]
  BY <1>1, <1>2 DEF PluginsInv, CacheFits, DigestCurrent, Executed
<1>6. CASE source[f] = Nothing
  <2>1. load' = [load EXCEPT !.todo = @ \ {f}, !.digest = Nothing, !.faulty = @ \cup {f}]
        /\ bytecode' = [bytecode EXCEPT ![f] = Nothing]
    BY <1>6 DEF LoadExec
  <2>2. load' \in Loading /\ load'.digest = Nothing /\ load'.found = load.found
    BY <1>1, <1>2, <2>1 DEF Loading, Content
  <2>3. bytecode' \in [PluginFile -> Content] /\ (Untorn => CacheFits')
    BY <1>2, <1>3, <2>1 DEF PluginsInv, Typed, CacheFits, Content
  <2> QED
    BY <1>1, <1>3, <2>2, <2>3
       DEF PluginsInv, Typed, Untorn, DigestCurrent, LoadFaithful,
           RegistryFaithful, TaskFaithful, ResultFaithful
<1>7. CASE source[f] # Nothing
  <2>1. load' = AfterFile(f, c) /\ bytecode' = [bytecode EXCEPT ![f] = c]
    BY <1>7 DEF LoadExec
  <2>2. bytecode' \in [PluginFile -> Content] /\ (Untorn => CacheFits')
    BY <1>2, <1>3, <1>4, <1>5, <2>1 DEF PluginsInv, Typed, CacheFits
  <2>3. [digest |-> load.digest, code |-> c] \in Plugin
    BY <1>1, <1>4 DEF Plugin, Loading
  <2>4. load' \in Loading /\ load'.digest = Nothing
    BY <1>1, <1>2, <2>1, <2>3 DEF AfterFile, Loading, Content
  <2>5. \A n \in Names : load'.found[n] \in {load.found[n], [digest |-> load.digest, code |-> c]}
    BY <2>1 DEF AfterFile
  <2>6. Untorn => LoadFaithful'
    BY <1>1, <1>5, <2>5 DEF PluginsInv, LoadFaithful, Faithful
  <2> QED
    BY <1>3, <2>2, <2>4, <2>6
       DEF PluginsInv, Typed, Untorn, DigestCurrent, RegistryFaithful, TaskFaithful,
           ResultFaithful
<1> QED
  BY <1>6, <1>7

\* A load ends and its plugins are the registry, or the registry stays.
LEMMA EndStep ==
    ASSUME PluginsInv, LoadEnd, UNCHANGED <<task, excused>>
    PROVE  PluginsInv'
<1>1. load # NoLoad /\ load \in Loading /\ load' = NoLoad
  BY DEF LoadEnd, PluginsInv, Typed
<1>2. registry' \in {load.found, registry}
  BY DEF LoadEnd, Published
<1>3. registry' \in [Names -> Plugin] /\ (Untorn => RegistryFaithful')
  BY <1>1, <1>2 DEF PluginsInv, Typed, Loading, LoadFaithful, RegistryFaithful
<1>4. UNCHANGED <<source, bytecode, task, excused>>
  BY DEF LoadEnd
<1> QED
  BY <1>1, <1>3, <1>4
     DEF PluginsInv, Typed, Untorn, CacheFits, DigestCurrent, LoadFaithful, TaskFaithful,
         ResultFaithful, NoLoad

\* A load begins.
LEMMA BeginsLoad ==
    ASSUME PluginsInv, LoadBegin
    PROVE  load' \in Loading /\ load'.digest = Nothing
           /\ \A n \in Names : Faithful(load'.found[n])
BY DEF PluginsInv, Typed, LoadBegin, Loading, Content, Plugin, Empty, NotLoaded, Names, Faithful

\* The watcher begins a load.
LEMMA WatchStep ==
    ASSUME PluginsInv, WatchPlugins
    PROVE  PluginsInv'
<1>1. LoadBegin /\ UNCHANGED <<source, bytecode, registry, task, excused>>
  BY DEF WatchPlugins, histories
<1> QED
  BY <1>1, BeginsLoad
     DEF PluginsInv, Typed, Untorn, CacheFits, DigestCurrent, LoadFaithful, RegistryFaithful,
         TaskFaithful, ResultFaithful

\* create_app begins a load with an empty registry.
LEMMA RestartStep ==
    ASSUME PluginsInv, Restart
    PROVE  PluginsInv'
<1>1. LoadBegin /\ UNCHANGED <<source, bytecode, task, excused>> /\ registry' = Empty
  BY DEF Restart, histories
<1>2. registry' \in [Names -> Plugin] /\ RegistryFaithful'
  BY <1>1 DEF Empty, NotLoaded, Plugin, Content, RegistryFaithful, Faithful
<1> QED
  BY <1>1, <1>2, BeginsLoad
     DEF PluginsInv, Typed, Untorn, CacheFits, DigestCurrent, LoadFaithful, TaskFaithful,
         ResultFaithful

\* A task is expanded by a plugin of the registry.
LEMMA RunStep ==
    ASSUME PluginsInv, Run
    PROVE  PluginsInv'
<1>1. PICK n \in Names : Expand(n)
  BY DEF Run, ConfigRun, InlineRun, PluginOf, Names, PluginFile
<1>2. registry[n] \in Plugin /\ (Untorn => Faithful(registry[n]))
  BY DEF PluginsInv, Typed, RegistryFaithful
<1>3. task' \in Expanded /\ task'.state = "active" /\ (Untorn => Faithful(task'))
  BY <1>1, <1>2 DEF Expand, Expanded, Plugin, Content, Faithful
<1>4. UNCHANGED <<source, bytecode, registry, load, excused>>
  BY DEF Run, plugins, histories
<1> QED
  BY <1>3, <1>4
     DEF PluginsInv, Typed, Untorn, CacheFits, DigestCurrent, LoadFaithful, RegistryFaithful,
         TaskFaithful, ResultFaithful

\* A task is judged: the digests agree, and so does the code.
LEMMA EvaluateStep ==
    ASSUME PluginsInv, Evaluate
    PROVE  PluginsInv'
<1>1. task \in Expanded /\ task # NoTask
  BY DEF PluginsInv, Typed, Evaluate, NoTask
<1>2. registry[task.name] \in Plugin /\ (Untorn => Faithful(registry[task.name]))
  BY <1>1 DEF PluginsInv, Typed, RegistryFaithful, Expanded
<1>3. Verdict(task) \in Content \cup {"error"}
      /\ (Untorn => Verdict(task) \in {task.code, "error"})
  BY <1>1, <1>2 DEF PluginsInv, TaskFaithful, Verdict, Plugin, Faithful
<1>4. task' = [task EXCEPT !.state = "ended", !.result = Verdict(task)]
  BY DEF Evaluate
<1>5. /\ task' \in Expanded
      /\ task'.result = Verdict(task) /\ task'.code = task.code /\ task'.digest = task.digest
  BY <1>1, <1>3, <1>4 DEF Expanded
<1>6. UNCHANGED <<source, bytecode, registry, load, excused>>
  BY DEF Evaluate, plugins, histories
<1> QED
  BY <1>1, <1>3, <1>5, <1>6
     DEF PluginsInv, Typed, Untorn, CacheFits, DigestCurrent, LoadFaithful, RegistryFaithful,
         TaskFaithful, ResultFaithful, Faithful

\* An edit of a plugin file that is neither quick nor inside a load.
LEMMA EditPluginStep ==
    ASSUME PluginsInv, EditPlugin
    PROVE  PluginsInv'
<1>1. PICK f \in PluginFile, c \in Written \cup {Nothing}, quick \in BOOLEAN :
        /\ source' = [source EXCEPT ![f] = c]
        /\ bytecode' = IF quick THEN bytecode ELSE [bytecode EXCEPT ![f] = Nothing]
        /\ excused \subseteq excused'
        /\ load # NoLoad => "torn" \in excused'
        /\ quick => "quick" \in excused'
        /\ UNCHANGED <<registry, load, task>>
  BY DEF EditPlugin
<1>2. c \in Content
  BY <1>1, WrittenAssumption DEF Content
<1>3. Typed'
  BY <1>1, <1>2 DEF PluginsInv, Typed, Content
<1>4. ASSUME Untorn' PROVE Untorn /\ load = NoLoad /\ ~quick
  BY <1>1, <1>4 DEF Untorn
<1>5. ASSUME Untorn' PROVE CacheFits' /\ DigestCurrent'
  BY <1>1, <1>4, <1>5 DEF PluginsInv, Typed, CacheFits, DigestCurrent, NoLoad
<1>6. ASSUME Untorn' PROVE LoadFaithful' /\ RegistryFaithful' /\ TaskFaithful' /\ ResultFaithful'
  BY <1>1, <1>4, <1>6
     DEF PluginsInv, LoadFaithful, RegistryFaithful, TaskFaithful, ResultFaithful
<1> QED
  BY <1>3, <1>5, <1>6 DEF PluginsInv

LEMMA PluginsStep == PluginsInv /\ [Next]_vars => PluginsInv'
<1> SUFFICES ASSUME PluginsInv, [Next]_vars PROVE PluginsInv'
  OBVIOUS
<1>1. CASE Loads
  BY <1>1, DigestStep, ExecStep, EndStep DEF Loads, histories
<1>2. ASSUME UNCHANGED <<source, bytecode, registry, load, task>>, excused \subseteq excused'
      PROVE  PluginsInv'
  BY <1>2
     DEF PluginsInv, Typed, Untorn, CacheFits, DigestCurrent, LoadFaithful, RegistryFaithful,
         TaskFaithful, ResultFaithful
<1>3. CASE FirstScan \/ WatchConfig \/ WatchBreaks
  BY <1>2, <1>3 DEF FirstScan, WatchConfig, WatchBreaks, plugins, histories
<1>4. CASE EditConfig
  <2>1. UNCHANGED <<plugins, task>> /\ excused \subseteq excused'
    BY <1>4 DEF EditConfig
  <2> QED
    BY <1>2, <2>1 DEF plugins
<1>5. CASE UNCHANGED vars
  BY <1>2, <1>5 DEF vars, plugins, histories
<1> QED
  BY <1>1, <1>3, <1>4, <1>5, WatchStep, RunStep, EvaluateStep, EditPluginStep, RestartStep
     DEF Next

\* Digests stand for code in the load, the registry and the task, whatever is edited
\* between loads and however often the controller restarts.
THEOREM PluginsInvariant == Spec => []PluginsInv
BY PluginsInitial, PluginsStep, PTL DEF Spec

\* A task's result is the verdict of the code that expanded it, or an error, unless
\* an edit tore a load or slipped past the bytecode cache (plugins.py: load, expand,
\* evaluate_result).
THEOREM JudgedByOwnCode == Spec => []ResultsByOwnCode
<1>1. PluginsInv => ResultsByOwnCode
  BY DEF PluginsInv, Untorn, ResultFaithful, ResultsByOwnCode
<1> QED
  BY <1>1, PluginsInvariant, PTL
=============================================================================
