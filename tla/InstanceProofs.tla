--------------------------- MODULE InstanceProofs ---------------------------
(***************************************************************************)
(* Proofs about Instance, for any number of controllers and directories,    *)
(* any number of events and any life of a nonce.                            *)
(***************************************************************************)
EXTENDS Instance, TLAPS

-----------------------------------------------------------------------------
(* One owner per data directory                                            *)

Place == {"off", "lock", "setaside", "mark", "files", "again", "written", "listen", "up"}

\* The shape of what the lock is about.
LockShape ==
    /\ pc \in [Controller -> Place]
    /\ data \in [Controller -> Directory \cup {Nothing}]
    /\ lock \in [Directory -> Controller \cup {Nothing}]
    /\ pid \in [Directory -> Controller \cup {Nothing}]

\* A controller past the lock holds the lock of its directory, and its process id
\* is published once it is up.
LockHeld ==
    \A c \in Controller :
        /\ pc[c] # "off" => data[c] \in Directory
        /\ pc[c] \notin {"off", "lock"} => lock[data[c]] = c
        /\ pc[c] = "up" => pid[data[c]] = c

LockInv == LockShape /\ LockHeld

LEMMA LockInit == Init => LockInv
BY DEF Init, StartupInit, LockInv, LockShape, LockHeld, Place

\* A controller that leaves gives up its own lock and no other.
LEMMA LeaveLock ==
    ASSUME LockInv, NEW c \in Controller, Leave(c),
           pid' = pid \/ (pc[c] = "up" /\ pid' = [pid EXCEPT ![data[c]] = IF @ = c THEN Nothing ELSE @])
    PROVE  LockInv'
<1>1. LockShape'
  BY DEF LockInv, LockShape, Leave, Goes, Place
<1>2. LockHeld'
  <2> SUFFICES ASSUME NEW b \in Controller
               PROVE  /\ pc'[b] # "off" => data'[b] \in Directory
                      /\ pc'[b] \notin {"off", "lock"} => lock'[data'[b]] = b
                      /\ pc'[b] = "up" => pid'[data'[b]] = b
    BY DEF LockHeld
  <2>1. CASE b = c
    BY <2>1 DEF LockInv, LockShape, Leave, Goes
  <2>2. CASE b # c
    <3>1. pc'[b] = pc[b] /\ data'[b] = data[b]
      BY <2>2 DEF LockInv, LockShape, Leave, Goes
    <3>2. pc[b] \notin {"off", "lock"} => lock'[data[b]] = b
      BY <2>2 DEF LockInv, LockShape, LockHeld, Leave
    <3>3. pc[b] = "up" => pid'[data[b]] = b
      BY <2>2 DEF LockInv, LockShape, LockHeld
    <3> QED BY <3>1, <3>2, <3>3 DEF LockInv, LockHeld
  <2> QED BY <2>1, <2>2
<1> QED BY <1>1, <1>2 DEF LockInv

LEMMA StartsLock ==
    ASSUME LockInv, NEW c \in Controller, Starts(c)
    PROVE  LockInv'
<1> USE DEF LockInv, LockShape, LockHeld, Goes, Place
<1>1. CASE Validate(c)
  BY <1>1 DEF Validate
<1>2. CASE TakeLock(c)
  <2>1. CASE ~LockFree(data[c]) \/ Refuses(data[c])
    <3>1. Leave(c) /\ pid' = pid
      BY <1>2, <2>1 DEF TakeLock
    <3> QED BY <3>1, LeaveLock
  <2>2. CASE ~(~LockFree(data[c]) \/ Refuses(data[c]))
    <3>1. /\ data[c] \in Directory /\ pc[c] = "lock" /\ lock[data[c]] = Nothing
          /\ lock' = [lock EXCEPT ![data[c]] = c]
          /\ pc' = [pc EXCEPT ![c] = "mark"] \/ pc' = [pc EXCEPT ![c] = "setaside"]
          /\ data' = data /\ pid' = pid
      BY <1>2, <2>2 DEF TakeLock, LockFree
    <3>2. \A b \in Controller : pc[b] \notin {"off", "lock"} => data[b] # data[c]
      BY <3>1, StartupAssumption
    <3> QED BY <3>1, <3>2
  <2> QED BY <2>1, <2>2
<1>3. CASE SetAside(c)
  <2>1. /\ pc[c] = "setaside" /\ data' = data /\ lock' = lock
        /\ pc' = pc \/ pc' = [pc EXCEPT ![c] = "mark"]
        /\ pid' = pid \/ \E v \in Controller \cup {Nothing} : pid' = [pid EXCEPT ![data[c]] = v]
    BY <1>3 DEF SetAside
  <2>2. \A b \in Controller : pc[b] = "up" => data[b] # data[c]
    BY <2>1
  <2> QED BY <2>1, <2>2
<1>4. CASE WriteMarker(c)
  <2>1. /\ pc[c] = "mark" /\ data' = data /\ lock' = lock /\ pid' = pid
        /\ pc' = pc \/ pc' = [pc EXCEPT ![c] = "files"]
    BY <1>4 DEF WriteMarker
  <2> QED BY <2>1
<1>5. CASE LookAtFile(c)
  BY <1>5 DEF LookAtFile
<1>6. CASE WriteFile(c)
  BY <1>6 DEF WriteFile
<1>7. CASE FilesDone(c)
  <2>1. CASE Leave(c)
    BY <1>7, <2>1, LeaveLock DEF FilesDone
  <2>2. CASE ~Leave(c)
    <3>1. /\ pc[c] = "files" /\ pc' = [pc EXCEPT ![c] = "again"]
          /\ data' = data /\ lock' = lock /\ pid' = pid
      BY <1>7, <2>2 DEF FilesDone
    <3> QED BY <3>1
  <2> QED BY <2>1, <2>2
<1>8. CASE Publish(c)
  <2>1. /\ pc[c] = "listen" /\ pc' = [pc EXCEPT ![c] = "up"]
        /\ data' = data /\ lock' = lock /\ pid' = [pid EXCEPT ![data[c]] = c]
    BY <1>8 DEF Publish
  <2>2. \A b \in Controller : b # c /\ pc[b] = "up" => data[b] # data[c]
    BY <2>1
  <2> QED BY <2>1, <2>2
<1> QED BY <1>1, <1>2, <1>3, <1>4, <1>5, <1>6, <1>7, <1>8 DEF Starts

LEMMA LockNext == LockInv /\ [Next]_vars => LockInv'
<1> SUFFICES ASSUME LockInv, [Next]_vars PROVE LockInv'
  OBVIOUS
<1>1. ASSUME UNCHANGED startup PROVE LockInv'
  BY <1>1 DEF startup, LockInv, LockShape, LockHeld
<1>2. ASSUME NEW c \in Controller, Ends(c) PROVE LockInv'
  <2>1. Leave(c)
    BY <1>2 DEF Ends, Stop, Dies
  <2>2. pid' = pid \/ (pc[c] = "up" /\ pid' = [pid EXCEPT ![data[c]] = IF @ = c THEN Nothing ELSE @])
    BY <1>2 DEF Ends, Stop, Dies
  <2> QED BY <2>1, <2>2, LeaveLock
<1>3. ASSUME NEW c \in Controller, RotateApiKey(c) PROVE LockInv'
  BY <1>3, <1>1 DEF RotateApiKey
<1>4. ASSUME NEW f, NEW t, UserWrites(f, t) PROVE LockInv'
  BY <1>4 DEF UserWrites, LockInv, LockShape, LockHeld
<1>5. ASSUME NEW d \in Directory, NewerProgram(d) PROVE LockInv'
  <2>1. /\ lock[d] = Nothing /\ pid' = [pid EXCEPT ![d] = Nothing]
        /\ pc' = pc /\ data' = data /\ lock' = lock
    BY <1>5 DEF NewerProgram
  <2>2. \A b \in Controller : pc[b] = "up" => data[b] # d
    BY <2>1, StartupAssumption DEF LockInv, LockHeld
  <2> QED BY <2>1, <2>2 DEF LockInv, LockShape, LockHeld
<1>6. ASSUME NEW d \in Directory, Damage(d) PROVE LockInv'
  BY <1>6 DEF Damage, LockInv, LockShape, LockHeld
<1>7. ASSUME NEW c \in Controller, CreateKey(c) PROVE LockInv'
  <2>1. /\ pc[c] = "again" /\ data' = data /\ lock' = lock /\ pid' = pid
        /\ pc' = [pc EXCEPT ![c] = "written"] \/ pc' = [pc EXCEPT ![c] = "listen"]
    BY <1>7 DEF CreateKey, Goes
  <2> QED BY <2>1 DEF LockInv, LockShape, LockHeld, Place
<1>8. ASSUME NEW c \in Controller, WriteKey(c) PROVE LockInv'
  <2>1. /\ pc[c] = "written" /\ data' = data /\ lock' = lock /\ pid' = pid
        /\ pc' = [pc EXCEPT ![c] = "listen"]
    BY <1>8 DEF WriteKey, Goes
  <2> QED BY <2>1 DEF LockInv, LockShape, LockHeld, Place
<1>9. ASSUME NEW c \in Controller, IssueNonce(c) PROVE LockInv'
  BY <1>9, <1>1 DEF IssueNonce
<1>10. ASSUME NEW i \in Arrival, IsSignedBegin(i) \/ IsSignedEnd(i) PROVE LockInv'
  BY <1>10, <1>1 DEF IsSignedBegin, IsSignedEnd
<1>11. ASSUME ReadKey \/ Tick PROVE LockInv'
  BY <1>11, <1>1 DEF ReadKey, Tick
<1>12. CASE UNCHANGED vars
  BY <1>12, <1>1 DEF vars
<1> QED BY <1>2, <1>3, <1>4, <1>5, <1>6, <1>7, <1>8, <1>9, <1>10, <1>11, <1>12, StartsLock
        DEF Next, Disturbance

\* A data directory has one owner and names it in its process id file, whatever
\* controllers start, die, stop or are refused (cli.py:261-266, paths.py:131-173).
THEOREM DirectoryOwned == Spec => []OneOwner
<1>1. LockInv => OneOwner
  BY DEF LockInv, LockHeld, LockShape, OneOwner, Owners
<1> QED BY LockInit, LockNext, <1>1, PTL DEF Spec

-----------------------------------------------------------------------------
(* What a start still has to do                                            *)

\* The work lists of a start: what is left of Dynamic, and of Provided.
ToSetAside == {<<"runtime", "logs">>, <<"logs">>, <<>>}
ToProvide == {<<"config", "plugin">>, <<"plugin">>, <<>>}
Worklist == ToSetAside \cup ToProvide
Plan == {"move", "create", "replace"}

\* Taking the first entry off a work list.
LEMMA Worklists ==
    /\ Dynamic = <<"runtime", "logs">> /\ Provided = <<"config", "plugin">>
    /\ Head(<<"runtime", "logs">>) = "runtime" /\ Tail(<<"runtime", "logs">>) = <<"logs">>
    /\ Head(<<"logs">>) = "logs" /\ Tail(<<"logs">>) = <<>>
    /\ Head(<<"config", "plugin">>) = "config" /\ Tail(<<"config", "plugin">>) = <<"plugin">>
    /\ Head(<<"plugin">>) = "plugin" /\ Tail(<<"plugin">>) = <<>>
    /\ <<"runtime", "logs">> # <<>> /\ <<"logs">> # <<>> /\ <<"logs">> # <<"runtime", "logs">>
    /\ <<"config", "plugin">> # <<>> /\ <<"plugin">> # <<>> /\ <<"plugin">> # <<"config", "plugin">>
BY DEF Dynamic, Provided

\* What is left after one entry of a list is what is left of the same list.
LEMMA WorkTails ==
    /\ \A w \in ToSetAside : w # <<>> => Tail(w) \in ToSetAside /\ Head(w) \in DynamicSet
    /\ \A w \in ToProvide : w # <<>> => Tail(w) \in ToProvide /\ Head(w) \in ProvidedSet
    /\ Dynamic \in ToSetAside /\ Provided \in ToProvide
    /\ <<>> \in ToSetAside /\ <<>> \in ToProvide
BY Worklists DEF ToSetAside, ToProvide, DynamicSet, ProvidedSet

WorkShape ==
    /\ todo \in [Controller -> Worklist]
    /\ plan \in [Controller -> Plan \cup {Nothing}]
    /\ file \in [ProvidedSet -> Text]

\* The lists belong to their places; a plan is about the first file of the list, and
\* one to replace the plugin was made when no user had written it, unless one did
\* since.
Planned(c) ==
    /\ pc[c] = "setaside" => todo[c] \in ToSetAside
    /\ pc[c] \in {"files", "again"} => todo[c] \in ToProvide
    /\ plan[c] # Nothing => pc[c] \in {"files", "again"} /\ todo[c] # <<>>
    /\ plan[c] # Nothing /\ plan[c] = "replace" =>
          todo[c] = <<"plugin">> /\ (file["plugin"] = "user" => "plugin" \in raced)
    /\ plan[c] # Nothing /\ plan[c] = "move" => todo[c] = <<"config", "plugin">>

WorkInv == WorkShape /\ \A c \in Controller : Planned(c)

LEMMA WorkInit == Init => WorkInv
BY DEF Init, StartupInit, WorkInv, WorkShape, Planned, Worklist, ToSetAside, Text

\* Only what is planned for the plugin depends on the files.
LEMMA WorkFrame ==
    ASSUME WorkInv, WorkShape', NEW c \in Controller, Planned(c)',
           \A b \in Controller \ {c} : pc'[b] = pc[b] /\ todo'[b] = todo[b] /\ plan'[b] = plan[b],
           file'["plugin"] = "user" => file["plugin"] = "user", raced \subseteq raced'
    PROVE  WorkInv'
BY DEF WorkInv, Planned

LEMMA LeaveWork ==
    ASSUME LockInv, WorkInv, NEW c \in Controller, Leave(c), UNCHANGED <<file, raced>>
    PROVE  WorkInv'
<1>1. WorkShape'
  BY DEF Leave, WorkInv, WorkShape, Worklist, ToSetAside
<1>2. pc'[c] = "off" /\ todo'[c] = <<>> /\ plan'[c] = Nothing
  BY DEF Leave, Goes, LockInv, LockShape, WorkInv, WorkShape
<1>3. \A b \in Controller \ {c} : pc'[b] = pc[b] /\ todo'[b] = todo[b] /\ plan'[b] = plan[b]
  BY DEF Leave, Goes, LockInv, LockShape, WorkInv, WorkShape
<1>4. Planned(c)'
  BY <1>2 DEF Planned
<1> QED BY <1>1, <1>3, <1>4, WorkFrame

\* Steps that move one controller and leave its list or start a new one.
LEMMA WorkMoved ==
    ASSUME LockInv, WorkInv, NEW c \in Controller, NEW where \in Place, Goes(c, where),
           UNCHANGED <<plan, file, raced>>, plan[c] = Nothing,
           \/ UNCHANGED todo /\ where \notin {"setaside", "files", "again"}
           \/ todo' = [todo EXCEPT ![c] = Dynamic] /\ where = "setaside"
           \/ todo' = [todo EXCEPT ![c] = Provided] /\ where \in {"files", "again"}
    PROVE  WorkInv'
<1>1. WorkShape'
  BY WorkTails DEF WorkInv, WorkShape, Worklist
<1>2. pc'[c] = where /\ plan'[c] = Nothing
  BY DEF Goes, LockInv, LockShape
<1>3. \A b \in Controller \ {c} : pc'[b] = pc[b] /\ todo'[b] = todo[b] /\ plan'[b] = plan[b]
  BY DEF Goes, LockInv, LockShape, WorkInv, WorkShape
<1>4. Planned(c)'
  BY <1>2, WorkTails DEF Planned, WorkInv, WorkShape
<1> QED BY <1>1, <1>3, <1>4, WorkFrame

LEMMA StartsWork ==
    ASSUME LockInv, WorkInv, NEW c \in Controller, Starts(c)
    PROVE  WorkInv'
<1>0. /\ \A where : pc[c] = where /\ where \notin {"files", "again"} => plan[c] = Nothing
      /\ todo[c] = <<>> => plan[c] = Nothing
  BY DEF WorkInv, Planned
<1>1. CASE Validate(c)
  BY <1>0, <1>1, WorkMoved DEF Validate, Place
<1>2. CASE TakeLock(c)
  <2>1. CASE ~LockFree(data[c]) \/ Refuses(data[c])
    BY <1>2, <2>1, LeaveWork DEF TakeLock
  <2>2. CASE ~(~LockFree(data[c]) \/ Refuses(data[c]))
    BY <1>0, <1>2, <2>2, WorkMoved DEF TakeLock, Place
  <2> QED BY <2>1, <2>2
<1>3. CASE SetAside(c)
  <2>1. CASE todo[c] = <<>>
    BY <1>0, <1>3, <2>1, WorkMoved DEF SetAside, Place
  <2>2. CASE todo[c] # <<>>
    <3>1. /\ pc[c] = "setaside" /\ todo' = [todo EXCEPT ![c] = Tail(@)]
          /\ UNCHANGED <<pc, plan, file, raced>>
      BY <1>3, <2>2 DEF SetAside
    <3>2. todo'[c] = Tail(todo[c]) /\ Tail(todo[c]) \in ToSetAside /\ plan[c] = Nothing
      BY <1>0, <2>2, <3>1, WorkTails DEF WorkInv, WorkShape, Planned
    <3>3. WorkShape'
      BY <3>1, <3>2 DEF WorkInv, WorkShape, Worklist
    <3>4. Planned(c)'
      BY <3>1, <3>2 DEF Planned
    <3> QED BY <3>1, <3>3, <3>4, WorkFrame DEF WorkInv, WorkShape
  <2> QED BY <2>1, <2>2
<1>4. CASE WriteMarker(c)
  <2>1. CASE UNCHANGED pc
    BY <1>4, <2>1 DEF WriteMarker, Goes, WorkInv, WorkShape, Planned, LockInv, LockShape
  <2>2. CASE Goes(c, "files") /\ todo' = [todo EXCEPT ![c] = Provided]
    BY <1>0, <1>4, <2>2, WorkMoved DEF WriteMarker, Place
  <2> QED BY <1>4, <2>1, <2>2 DEF WriteMarker
<1>5. CASE LookAtFile(c)
  <2>1. CASE PlanFor(Head(todo[c])) = "keep"
    <3>1. /\ pc[c] \in {"files", "again"} /\ todo[c] # <<>> /\ plan[c] = Nothing
          /\ todo' = [todo EXCEPT ![c] = Tail(@)]
          /\ UNCHANGED <<pc, plan, file, raced>>
      BY <1>5, <2>1 DEF LookAtFile
    <3>2. todo'[c] = Tail(todo[c]) /\ Tail(todo[c]) \in ToProvide
      BY <3>1, WorkTails DEF WorkInv, WorkShape, Planned
    <3>3. WorkShape'
      BY <3>1, <3>2 DEF WorkInv, WorkShape, Worklist
    <3>4. Planned(c)'
      BY <3>1, <3>2 DEF Planned
    <3> QED BY <3>1, <3>3, <3>4, WorkFrame DEF WorkInv, WorkShape
  <2>2. CASE PlanFor(Head(todo[c])) # "keep"
    <3>1. /\ pc[c] \in {"files", "again"} /\ todo[c] # <<>>
          /\ plan' = [plan EXCEPT ![c] = PlanFor(Head(todo[c]))]
          /\ UNCHANGED <<pc, todo, file, raced>>
      BY <1>5, <2>2 DEF LookAtFile
    <3>2. todo[c] \in {<<"config", "plugin">>, <<"plugin">>}
      BY <3>1 DEF WorkInv, Planned, ToProvide
    <3>3. /\ PlanFor(Head(todo[c])) \in Plan
          /\ PlanFor(Head(todo[c])) = "replace" =>
               Head(todo[c]) = "plugin" /\ file["plugin"] = "shipped"
          /\ PlanFor(Head(todo[c])) = "move" => Head(todo[c]) = "config"
      BY <2>2 DEF PlanFor, Plan
    <3>4. WorkShape'
      BY <3>1, <3>3 DEF WorkInv, WorkShape
    <3>5. Planned(c)'
      BY <3>1, <3>2, <3>3, Worklists DEF WorkInv, WorkShape, Planned
    <3> QED BY <3>1, <3>4, <3>5, WorkFrame DEF WorkInv, WorkShape
  <2> QED BY <2>1, <2>2
<1>6. CASE WriteFile(c)
  <2>1. /\ pc[c] \in {"files", "again"} /\ todo[c] # <<>> /\ plan[c] # Nothing
        /\ todo' = [todo EXCEPT ![c] = Tail(@)] /\ plan' = [plan EXCEPT ![c] = Nothing]
        /\ file' = [file EXCEPT ![Head(todo[c])] =
                      IF plan[c] = "move" THEN (IF former THEN "user" ELSE Created(Head(todo[c])))
                      ELSE IF plan[c] = "create" THEN Created(Head(todo[c])) ELSE "current"]
        /\ UNCHANGED <<pc, raced>>
    BY <1>6 DEF WriteFile
  <2>2. todo'[c] = Tail(todo[c]) /\ Tail(todo[c]) \in ToProvide /\ Head(todo[c]) \in ProvidedSet
    BY <2>1, WorkTails DEF WorkInv, WorkShape, Planned
  <2>4. WorkShape'
    BY <2>1, <2>2 DEF WorkInv, WorkShape, Worklist, Created, Text
  <2>5. plan[c] = "move" => Head(todo[c]) = "config"
    BY <2>1, Worklists DEF WorkInv, Planned
  <2>6. file'["plugin"] = "user" => file["plugin"] = "user"
    BY <2>1, <2>2, <2>5 DEF WorkInv, WorkShape, Created, ProvidedSet
  <2>7. Planned(c)'
    BY <2>1, <2>2 DEF Planned, WorkInv, WorkShape
  <2> QED BY <2>1, <2>4, <2>6, <2>7, WorkFrame DEF WorkInv, WorkShape
<1>7. CASE FilesDone(c)
  <2>1. CASE Leave(c)
    BY <1>7, <2>1, LeaveWork DEF FilesDone
  <2>2. CASE ~Leave(c)
    BY <1>0, <1>7, <2>2, WorkMoved DEF FilesDone, Place
  <2> QED BY <2>1, <2>2
<1>8. CASE Publish(c)
  BY <1>0, <1>8, WorkMoved DEF Publish, Place
<1> QED BY <1>1, <1>2, <1>3, <1>4, <1>5, <1>6, <1>7, <1>8 DEF Starts

LEMMA WorkNext == LockInv /\ WorkInv /\ [Next]_vars => WorkInv'
<1> SUFFICES ASSUME LockInv, WorkInv, [Next]_vars PROVE WorkInv'
  OBVIOUS
<1>1. ASSUME UNCHANGED <<pc, todo, plan, file, raced>> PROVE WorkInv'
  BY <1>1 DEF WorkInv, WorkShape, Planned
<1>2. ASSUME NEW c \in Controller, Ends(c) PROVE WorkInv'
  BY <1>2, LeaveWork DEF Ends, Stop, Dies
<1>3. ASSUME NEW f \in ProvidedSet, NEW t \in Text, UserWrites(f, t) PROVE WorkInv'
  <2>1. /\ UNCHANGED <<pc, todo, plan>> /\ raced \subseteq raced'
        /\ file' = [file EXCEPT ![f] = t]
    BY <1>3 DEF UserWrites
  <2>2. WorkShape'
    BY <2>1 DEF WorkInv, WorkShape
  <2>3. ASSUME NEW c \in Controller, plan[c] # Nothing, plan[c] = "replace"
        PROVE  file'["plugin"] = "user" => "plugin" \in raced'
    <3>1. todo[c] # <<>> /\ Head(todo[c]) = "plugin"
      BY <2>3, Worklists DEF WorkInv, Planned
    <3>2. f = "plugin" => "plugin" \in raced'
      BY <1>3, <2>3, <3>1 DEF UserWrites
    <3>3. f # "plugin" => file'["plugin"] = file["plugin"]
      BY <2>1 DEF WorkInv, WorkShape, ProvidedSet
    <3> QED BY <2>1, <2>3, <3>2, <3>3 DEF WorkInv, Planned
  <2>4. \A c \in Controller : Planned(c)'
    BY <2>1, <2>3 DEF WorkInv, Planned
  <2> QED BY <2>2, <2>4 DEF WorkInv
<1>4. ASSUME NEW c \in Controller, CreateKey(c) \/ WriteKey(c) PROVE WorkInv'
  <2>1. plan[c] = Nothing
    BY <1>4 DEF CreateKey, WriteKey, WorkInv, Planned
  <2> QED BY <1>4, <2>1, WorkMoved DEF CreateKey, WriteKey, Place
<1>5. ASSUME NEW c \in Controller, RotateApiKey(c) \/ IssueNonce(c) PROVE WorkInv'
  BY <1>1, <1>5 DEF RotateApiKey, IssueNonce, startup
<1>6. ASSUME NEW i \in Arrival, IsSignedBegin(i) \/ IsSignedEnd(i) PROVE WorkInv'
  BY <1>1, <1>6 DEF IsSignedBegin, IsSignedEnd, startup
<1>7. ASSUME ReadKey \/ Tick \/ UNCHANGED vars PROVE WorkInv'
  BY <1>1, <1>7 DEF ReadKey, Tick, vars, startup
<1>8. ASSUME NEW d \in Directory, NewerProgram(d) \/ Damage(d) PROVE WorkInv'
  BY <1>1, <1>8 DEF NewerProgram, Damage
<1>9. {"config", "plugin"} \subseteq ProvidedSet /\ {"absent", "user"} \subseteq Text
  BY DEF ProvidedSet, Text
<1> QED BY <1>2, <1>3, <1>4, <1>5, <1>6, <1>7, <1>8, <1>9, StartsWork DEF Next, Disturbance

-----------------------------------------------------------------------------
(* A controller serves its own format only                                 *)

State == {"none", "old", "ours", "newer"}

\* The shape of the state of the directories.
FormatShape ==
    /\ marker \in [Directory -> Format]
    /\ dynamic \in [Directory -> [DynamicSet -> State]]

\* What a marker says of the state beside it; a start that died while setting state
\* aside has left the marker of the format it was setting aside.
MarkerTells ==
    \A d \in Directory :
        /\ marker[d] = "none" => \A n \in DynamicSet : dynamic[d][n] \in {"none", "ours"}
        /\ marker[d] \in {"ours", "newer"} => \A n \in DynamicSet : dynamic[d][n] = marker[d]

\* How far setting aside has come: what is not to be moved any more is gone.
SetAsideFar ==
    \A c \in Controller : pc[c] = "setaside" =>
        /\ marker[data[c]] \in {"old", "bad"}
        /\ \/ todo[c] = <<"runtime", "logs">>
           \/ todo[c] = <<"logs">> /\ dynamic[data[c]]["runtime"] = "none"
           \/ todo[c] = <<>> /\ \A n \in DynamicSet : dynamic[data[c]][n] = "none"

\* The marker is written over no other format, and is there from then on.
MarkerOurs ==
    \A c \in Controller :
        /\ pc[c] = "mark" => marker[data[c]] \in {"none", "ours"}
        /\ pc[c] \in Serving => marker[data[c]] = "ours"

FormatInv == FormatShape /\ MarkerTells /\ SetAsideFar /\ MarkerOurs

LEMMA FormatInit == Init => FormatInv
<1> SUFFICES ASSUME Init PROVE FormatInv
  OBVIOUS
<1>1. PICK d \in Directory :
        /\ marker = [e \in Directory |-> IF e = d THEN "old" ELSE "none"]
        /\ dynamic = [e \in Directory |-> [n \in DynamicSet |-> marker[e]]]
  BY DEF Init, StartupInit
<1>2. pc = [c \in Controller |-> "off"]
  BY DEF Init, StartupInit
<1> QED
  BY <1>1, <1>2 DEF FormatInv, FormatShape, MarkerTells, SetAsideFar, MarkerOurs, Format, State,
                    Serving

\* Two controllers past the lock are in different directories.
LEMMA OwnersApart ==
    ASSUME LockInv, NEW b \in Controller, NEW c \in Controller, b # c,
           pc[b] \notin {"off", "lock"}, pc[c] \notin {"off", "lock"}
    PROVE  data[b] # data[c]
BY DEF LockInv, LockHeld

\* A step that leaves the directories alone only has to place its controller.
LEMMA FormatPlaced ==
    ASSUME LockInv, FormatInv, NEW c \in Controller, UNCHANGED <<marker, dynamic>>,
           \A b \in Controller : b # c => pc'[b] = pc[b] /\ data'[b] = data[b] /\ todo'[b] = todo[b],
           pc'[c] # "setaside",
           pc'[c] = "mark" => marker[data'[c]] \in {"none", "ours"},
           pc'[c] \in Serving => marker[data'[c]] = "ours"
    PROVE  FormatInv'
<1>1. FormatShape' /\ MarkerTells'
  BY DEF FormatInv, FormatShape, MarkerTells
<1>2. SetAsideFar'
  BY DEF FormatInv, SetAsideFar
<1>3. MarkerOurs'
  BY DEF FormatInv, MarkerOurs
<1> QED BY <1>1, <1>2, <1>3 DEF FormatInv

\* Setting state aside: one directory after the other, then the marker.
LEMMA FormatSetAside ==
    ASSUME LockInv, WorkInv, FormatInv, NEW c \in Controller, SetAside(c)
    PROVE  FormatInv'
<1> DEFINE d == data[c]
<1>1. /\ pc[c] = "setaside" /\ d \in Directory /\ UNCHANGED data
      /\ pc \in [Controller -> Place]
  BY DEF SetAside, LockInv, LockHeld, LockShape
<1>2. CASE todo[c] = <<>>
  <2>1. /\ pc' = [pc EXCEPT ![c] = "mark"] /\ UNCHANGED <<todo, dynamic>>
        /\ marker' = [marker EXCEPT ![d] = "none"]
    BY <1>2 DEF SetAside, MarkerGoes, Goes
  <2>2. \A n \in DynamicSet : dynamic[d][n] = "none"
    BY <1>1, <1>2 DEF FormatInv, SetAsideFar
  <2>3. FormatShape'
    BY <2>1 DEF FormatInv, FormatShape, Format
  <2>4. \A b \in Controller : b # c /\ pc[b] \notin {"off", "lock"} =>
          marker'[data[b]] = marker[data[b]]
    BY <1>1, <2>1, OwnersApart DEF FormatInv, FormatShape, LockInv, LockHeld
  <2>5. MarkerTells'
    BY <1>1, <2>1, <2>2 DEF FormatInv, FormatShape, MarkerTells
  <2>6. SetAsideFar'
    BY <1>1, <2>1, <2>4 DEF FormatInv, FormatShape, SetAsideFar
  <2>7. marker'[d] = "none" /\ pc'[c] = "mark" /\ \A b \in Controller : b # c => pc'[b] = pc[b]
    BY <1>1, <2>1 DEF FormatInv, FormatShape
  <2>8. MarkerOurs'
    BY <1>1, <2>4, <2>7 DEF FormatInv, MarkerOurs, Serving
  <2> QED BY <2>3, <2>5, <2>6, <2>8 DEF FormatInv
<1>3. CASE todo[c] # <<>>
  <2>1. PICK n \in DynamicSet : n = Head(todo[c])
    BY <1>1, <1>3, WorkTails DEF WorkInv, Planned
  <2>2. /\ UNCHANGED pc /\ marker' = [marker EXCEPT ![d] = @]
        /\ dynamic' = [dynamic EXCEPT ![d][n] = "none"]
        /\ todo' = [todo EXCEPT ![c] = Tail(@)]
    BY <1>3, <2>1 DEF SetAside, MarkerGoes
  <2>3. marker' = marker
    BY <2>2 DEF FormatInv, FormatShape
  <2>4. FormatShape'
    BY <1>1, <2>2, <2>3 DEF FormatInv, FormatShape, State
  <2>5. /\ dynamic'[d][n] = "none"
        /\ \A m \in DynamicSet : m # n => dynamic'[d][m] = dynamic[d][m]
        /\ \A e \in Directory : e # d => dynamic'[e] = dynamic[e]
    BY <1>1, <2>2 DEF FormatInv, FormatShape
  <2>6. \A b \in Controller : b # c /\ pc[b] \notin {"off", "lock"} =>
          dynamic'[data[b]] = dynamic[data[b]]
    BY <1>1, <2>5, OwnersApart DEF LockInv, LockHeld
  <2>7. MarkerTells'
    BY <1>1, <2>3, <2>5 DEF FormatInv, MarkerTells, SetAsideFar
  <2>8. \/ todo'[c] = <<"logs">> /\ dynamic'[d]["runtime"] = "none"
        \/ todo'[c] = <<>> /\ \A m \in DynamicSet : dynamic'[d][m] = "none"
    <3>1. CASE todo[c] = <<"runtime", "logs">>
      <4>1. n = "runtime" /\ Tail(todo[c]) = <<"logs">>
        BY <2>1, <3>1, Worklists
      <4>2. todo'[c] = Tail(todo[c])
        BY <2>2 DEF WorkInv, WorkShape
      <4> QED BY <2>5, <4>1, <4>2
    <3>2. CASE todo[c] = <<"logs">> /\ dynamic[d]["runtime"] = "none"
      <4>1. n = "logs" /\ Tail(todo[c]) = <<>>
        BY <2>1, <3>2, Worklists
      <4>2. todo'[c] = Tail(todo[c])
        BY <2>2 DEF WorkInv, WorkShape
      <4> QED BY <2>5, <3>2, <4>1, <4>2 DEF DynamicSet
    <3> QED BY <1>1, <1>3, <3>1, <3>2 DEF FormatInv, SetAsideFar
  <2>9. SetAsideFar'
    BY <1>1, <2>2, <2>3, <2>6, <2>8 DEF FormatInv, SetAsideFar
  <2>10. MarkerOurs'
    BY <1>1, <2>2, <2>3 DEF FormatInv, MarkerOurs
  <2> QED BY <2>4, <2>7, <2>9, <2>10 DEF FormatInv
<1> QED BY <1>2, <1>3

\* The missing directories are created; with them, or after them, the marker.
LEMMA FormatWriteMarker ==
    ASSUME LockInv, WorkInv, FormatInv, NEW c \in Controller, WriteMarker(c)
    PROVE  FormatInv'
<1> DEFINE d == data[c]
<1>1. /\ pc[c] = "mark" /\ d \in Directory /\ UNCHANGED data
      /\ pc \in [Controller -> Place] /\ todo \in [Controller -> Worklist]
      /\ marker[d] \in {"none", "ours"}
  BY DEF WriteMarker, LockInv, LockHeld, LockShape, WorkInv, WorkShape, FormatInv, MarkerOurs
<1>2. /\ dynamic' = [dynamic EXCEPT ![d] =
                       [n \in DynamicSet |-> IF @[n] = "none" THEN "ours" ELSE @[n]]]
      /\ \/ /\ marker' = [marker EXCEPT ![d] = "ours"] /\ pc' = [pc EXCEPT ![c] = "files"]
            /\ todo' = [todo EXCEPT ![c] = Provided]
         \/ UNCHANGED <<marker, pc, todo>>
  BY DEF WriteMarker, Goes
<1>3. \A n \in DynamicSet : dynamic'[d][n] = "ours"
  BY <1>1, <1>2 DEF FormatInv, FormatShape, MarkerTells
<1>4. FormatShape'
  BY <1>1, <1>2 DEF FormatInv, FormatShape, State, Format
<1>5. \A e \in Directory : e # d => marker'[e] = marker[e] /\ dynamic'[e] = dynamic[e]
  BY <1>1, <1>2 DEF FormatInv, FormatShape
<1>6. marker'[d] \in {"none", "ours"} /\ (pc'[c] = "files" => marker'[d] = "ours")
  BY <1>1, <1>2 DEF FormatInv, FormatShape
<1>7. MarkerTells'
  BY <1>3, <1>5, <1>6 DEF FormatInv, MarkerTells
<1>8. \A b \in Controller : b # c =>
        /\ pc'[b] = pc[b] /\ todo'[b] = todo[b]
        /\ pc[b] \notin {"off", "lock"} =>
             marker'[data[b]] = marker[data[b]] /\ dynamic'[data[b]] = dynamic[data[b]]
  BY <1>1, <1>2, <1>5, OwnersApart DEF LockInv, LockHeld
<1>9. pc'[c] \in {"mark", "files"}
  BY <1>1, <1>2
<1>10. SetAsideFar'
  BY <1>1, <1>8, <1>9 DEF FormatInv, SetAsideFar
<1>11. MarkerOurs'
  BY <1>1, <1>6, <1>8, <1>9 DEF FormatInv, MarkerOurs, Serving
<1> QED BY <1>4, <1>7, <1>10, <1>11 DEF FormatInv

\* Under the lock the marker is read again, and decides what is to be done.
LEMMA FormatTakeLock ==
    ASSUME LockInv, WorkInv, FormatInv, NEW c \in Controller, TakeLock(c)
    PROVE  FormatInv'
<1>1. /\ UNCHANGED <<marker, dynamic>> /\ data[c] \in Directory
      /\ pc \in [Controller -> Place] /\ todo \in [Controller -> Worklist]
      /\ data \in [Controller -> Directory \cup {Nothing}]
  BY DEF TakeLock, LockInv, LockHeld, LockShape, WorkInv, WorkShape
<1>2. CASE ~LockFree(data[c]) \/ Refuses(data[c])
  <2>1. Leave(c)
    BY <1>2 DEF TakeLock
  <2> QED BY <1>1, <2>1, FormatPlaced DEF Leave, Goes, Serving
<1>3. CASE LockFree(data[c]) /\ ~Refuses(data[c]) /\ marker[data[c]] \in {"ours", "none"}
  <2>1. pc' = [pc EXCEPT ![c] = "mark"] /\ UNCHANGED <<todo, data>>
    BY <1>3 DEF TakeLock, Goes
  <2> QED BY <1>1, <1>3, <2>1, FormatPlaced DEF Serving
<1>4. CASE LockFree(data[c]) /\ ~Refuses(data[c]) /\ marker[data[c]] \notin {"ours", "none"}
  <2>1. /\ pc' = [pc EXCEPT ![c] = "setaside"] /\ todo' = [todo EXCEPT ![c] = Dynamic]
        /\ UNCHANGED data
    BY <1>4 DEF TakeLock, Goes
  <2>2. marker[data[c]] \in {"old", "bad"}
    BY <1>1, <1>4 DEF Refuses, FormatInv, FormatShape, Format
  <2>3. SetAsideFar'
    BY <1>1, <2>1, <2>2, Worklists DEF FormatInv, SetAsideFar
  <2>4. FormatShape' /\ MarkerTells' /\ MarkerOurs'
    BY <1>1, <2>1 DEF FormatInv, FormatShape, MarkerTells, MarkerOurs, Serving
  <2> QED BY <2>3, <2>4 DEF FormatInv
<1> QED BY <1>2, <1>3, <1>4

LEMMA StartsFormat ==
    ASSUME LockInv, WorkInv, FormatInv, NEW c \in Controller, Starts(c)
    PROVE  FormatInv'
<1>0. /\ pc \in [Controller -> Place] /\ todo \in [Controller -> Worklist]
      /\ data \in [Controller -> Directory \cup {Nothing}]
      /\ pc[c] \in Serving => marker[data[c]] = "ours"
  BY DEF LockInv, LockShape, WorkInv, WorkShape, FormatInv, MarkerOurs
<1>1. CASE Validate(c)
  <2>1. /\ UNCHANGED <<marker, dynamic, todo>> /\ pc' = [pc EXCEPT ![c] = "lock"]
        /\ \A b \in Controller : b # c => data'[b] = data[b]
    BY <1>0, <1>1 DEF Validate, Goes
  <2> QED BY <1>0, <2>1, FormatPlaced DEF Serving
<1>2. CASE LookAtFile(c) \/ WriteFile(c)
  <2>1. /\ UNCHANGED <<marker, dynamic, pc, data>> /\ pc[c] \in {"files", "again"}
        /\ \A b \in Controller : b # c => todo'[b] = todo[b]
    BY <1>0, <1>2 DEF LookAtFile, WriteFile
  <2> QED BY <1>0, <2>1, FormatPlaced DEF Serving
<1>3. CASE FilesDone(c)
  <2>1. CASE Leave(c)
    BY <1>0, <1>3, <2>1, FormatPlaced DEF FilesDone, Leave, Goes, Serving
  <2>2. CASE ~Leave(c)
    <3>1. /\ pc[c] = "files" /\ pc' = [pc EXCEPT ![c] = "again"]
          /\ todo' = [todo EXCEPT ![c] = Provided] /\ UNCHANGED <<data, marker, dynamic>>
      BY <1>3, <2>2 DEF FilesDone, Goes
    <3> QED BY <1>0, <3>1, FormatPlaced DEF Serving
  <2> QED BY <2>1, <2>2
<1>4. CASE Publish(c)
  BY <1>0, <1>4, FormatPlaced DEF Publish, Goes, Serving
<1> QED BY <1>1, <1>2, <1>3, <1>4, FormatTakeLock, FormatSetAside, FormatWriteMarker DEF Starts

\* A directory nobody has locked may change without any controller noticing.
LEMMA FormatUnowned ==
    ASSUME LockInv, FormatInv, NEW d \in Directory, lock[d] = Nothing,
           UNCHANGED <<pc, data, todo>>, FormatShape',
           \A e \in Directory : e # d => marker'[e] = marker[e] /\ dynamic'[e] = dynamic[e],
           \/ marker'[d] = "bad"
           \/ marker'[d] = "newer" /\ \A n \in DynamicSet : dynamic'[d][n] = "newer"
    PROVE  FormatInv'
<1>1. \A c \in Controller : pc[c] \notin {"off", "lock"} => data[c] \in Directory \ {d}
  BY StartupAssumption DEF LockInv, LockHeld
<1>2. MarkerTells'
  BY DEF FormatInv, MarkerTells
<1>3. SetAsideFar' /\ MarkerOurs'
  BY <1>1 DEF FormatInv, SetAsideFar, MarkerOurs, Serving
<1> QED BY <1>2, <1>3 DEF FormatInv

LEMMA FormatNext == LockInv /\ WorkInv /\ FormatInv /\ [Next]_vars => FormatInv'
<1> SUFFICES ASSUME LockInv, WorkInv, FormatInv, [Next]_vars PROVE FormatInv'
  OBVIOUS
<1>0. /\ pc \in [Controller -> Place] /\ todo \in [Controller -> Worklist]
      /\ data \in [Controller -> Directory \cup {Nothing}]
      /\ FormatShape
  BY DEF LockInv, LockShape, WorkInv, WorkShape, FormatInv
<1>1. ASSUME UNCHANGED <<pc, data, todo, marker, dynamic>> PROVE FormatInv'
  BY <1>1 DEF FormatInv, FormatShape, MarkerTells, SetAsideFar, MarkerOurs
<1>2. ASSUME NEW c \in Controller, Ends(c) PROVE FormatInv'
  <2>1. Leave(c) /\ UNCHANGED <<marker, dynamic>>
    BY <1>2 DEF Ends, Stop, Dies
  <2> QED BY <1>0, <2>1, FormatPlaced DEF Leave, Goes, Serving
<1>3. ASSUME NEW d \in Directory, NewerProgram(d) PROVE FormatInv'
  <2>1. FormatShape'
    BY <1>0, <1>3 DEF NewerProgram, FormatShape, Format, State
  <2> QED BY <1>0, <1>3, <2>1, FormatUnowned DEF NewerProgram, FormatShape
<1>4. ASSUME NEW d \in Directory, Damage(d) PROVE FormatInv'
  <2>1. FormatShape'
    BY <1>0, <1>4 DEF Damage, FormatShape, Format
  <2> QED BY <1>0, <1>4, <2>1, FormatUnowned DEF Damage, FormatShape
<1>5. ASSUME NEW f, NEW t, UserWrites(f, t) PROVE FormatInv'
  BY <1>1, <1>5 DEF UserWrites
<1>6. ASSUME NEW c \in Controller, CreateKey(c) \/ WriteKey(c) PROVE FormatInv'
  <2>1. /\ pc[c] \in {"again", "written"} /\ UNCHANGED <<marker, dynamic, data, todo>>
        /\ pc' = [pc EXCEPT ![c] = "written"] \/ pc' = [pc EXCEPT ![c] = "listen"]
    BY <1>6 DEF CreateKey, WriteKey, Goes
  <2>2. marker[data[c]] = "ours"
    BY <2>1 DEF FormatInv, MarkerOurs, Serving
  <2> QED BY <1>0, <2>1, <2>2, FormatPlaced DEF Serving
<1>7. ASSUME NEW c \in Controller, RotateApiKey(c) \/ IssueNonce(c) PROVE FormatInv'
  BY <1>1, <1>7 DEF RotateApiKey, IssueNonce, startup
<1>8. ASSUME NEW i \in Arrival, IsSignedBegin(i) \/ IsSignedEnd(i) PROVE FormatInv'
  BY <1>1, <1>8 DEF IsSignedBegin, IsSignedEnd, startup
<1>9. ASSUME ReadKey \/ Tick \/ UNCHANGED vars PROVE FormatInv'
  BY <1>1, <1>9 DEF ReadKey, Tick, vars, startup
<1> QED BY <1>2, <1>3, <1>4, <1>5, <1>6, <1>7, <1>8, <1>9, StartsFormat DEF Next, Disturbance

\* LockInv, WorkInv and FormatInv hold in every behaviour.
LEMMA StartInvariants == Spec => [](LockInv /\ WorkInv /\ FormatInv)
BY LockInit, LockNext, WorkInit, WorkNext, FormatInit, FormatNext, PTL DEF Spec

\* A controller that serves has a directory of its own format, whenever earlier starts
\* died while they set other state aside, and no start touches state of a newer format
\* (paths.py: the marker is removed last, written last and read again under the lock).
THEOREM FormatServed == Spec => []OwnFormatOnly
<1>1. LockInv /\ FormatInv => OwnFormatOnly
  BY DEF FormatInv, FormatShape, MarkerTells, MarkerOurs, OwnFormatOnly, Owners
<1> QED BY StartInvariants, <1>1, PTL

-----------------------------------------------------------------------------
(* A start loses nothing                                                   *)

\* What StateKept says of one step.
SavedGrows ==
    \A d \in Directory :
        /\ saved[d] \subseteq saved'[d]
        /\ \A n \in DynamicSet : dynamic[d][n] # "none" /\ dynamic'[d][n] = "none" =>
             <<n, dynamic[d][n]>> \in saved'[d]

\* recovery/ is a function of the directory.
SavedShape == saved \in [Directory -> SUBSET (DynamicSet \X State)]

\* The one step that empties a directory puts its state into recovery/.
LEMMA SetAsideSaves ==
    ASSUME LockInv, WorkInv, FormatInv, SavedShape, NEW c \in Controller, SetAside(c)
    PROVE  SavedGrows /\ SavedShape'
<1>1. data[c] \in Directory /\ pc[c] = "setaside"
  BY DEF SetAside, LockInv, LockHeld
<1>2. CASE todo[c] = <<>>
  BY <1>2 DEF SetAside, SavedGrows, SavedShape
<1>3. CASE todo[c] # <<>>
  <2>1. PICK n \in DynamicSet : n = Head(todo[c])
    BY <1>1, <1>3, WorkTails DEF WorkInv, Planned
  <2>2. /\ saved' = [saved EXCEPT ![data[c]] = Kept(data[c], n)]
        /\ dynamic' = [dynamic EXCEPT ![data[c]][n] = "none"]
    BY <1>3, <2>1 DEF SetAside
  <2>3. /\ Kept(data[c], n) \in SUBSET (DynamicSet \X State)
        /\ saved[data[c]] \subseteq Kept(data[c], n)
        /\ dynamic[data[c]][n] # "none" => <<n, dynamic[data[c]][n]>> \in Kept(data[c], n)
    BY <1>1 DEF Kept, SavedShape, FormatInv, FormatShape
  <2>4. SavedShape'
    BY <1>1, <2>2, <2>3 DEF SavedShape
  <2>5. /\ saved'[data[c]] = Kept(data[c], n)
        /\ \A d \in Directory : d # data[c] => saved'[d] = saved[d] /\ dynamic'[d] = dynamic[d]
        /\ \A m \in DynamicSet : m # n => dynamic'[data[c]][m] = dynamic[data[c]][m]
    BY <1>1, <2>2 DEF SavedShape, FormatInv, FormatShape
  <2>6. SavedGrows
    BY <1>1, <2>3, <2>5 DEF SavedGrows
  <2> QED BY <2>4, <2>6
<1> QED BY <1>2, <1>3

\* Every step keeps what is in recovery/ and empties no directory without saving it.
LEMMA SavedNext ==
    LockInv /\ WorkInv /\ FormatInv /\ SavedShape /\ [Next]_vars => SavedGrows /\ SavedShape'
<1> SUFFICES ASSUME LockInv, WorkInv, FormatInv, SavedShape, [Next]_vars
             PROVE  SavedGrows /\ SavedShape'
  OBVIOUS
<1>1. ASSUME UNCHANGED <<saved, dynamic>> PROVE SavedGrows /\ SavedShape'
  BY <1>1 DEF SavedGrows, SavedShape
<1>2. ASSUME NEW c \in Controller, WriteMarker(c) PROVE SavedGrows /\ SavedShape'
  <2>1. \A d \in Directory : \A n \in DynamicSet :
          dynamic'[d][n] = dynamic[d][n] \/ dynamic'[d][n] = "ours"
    BY <1>2 DEF WriteMarker, FormatInv, FormatShape, LockInv, LockHeld
  <2> QED BY <1>2, <2>1 DEF WriteMarker, SavedGrows, SavedShape
<1>3. ASSUME NEW c \in Controller, Starts(c) PROVE SavedGrows /\ SavedShape'
  BY <1>1, <1>2, <1>3, SetAsideSaves
     DEF Starts, Validate, TakeLock, LookAtFile, WriteFile, FilesDone, Publish
<1>4. ASSUME NEW d \in Directory, NewerProgram(d) PROVE SavedGrows /\ SavedShape'
  <2>1. \A e \in Directory : \A n \in DynamicSet :
          dynamic'[e][n] = dynamic[e][n] \/ dynamic'[e][n] = "newer"
    BY <1>4 DEF NewerProgram, FormatInv, FormatShape
  <2> QED BY <1>4, <2>1 DEF NewerProgram, SavedGrows, SavedShape
<1>5. ASSUME NEW c \in Controller, \/ Ends(c) \/ RotateApiKey(c) \/ CreateKey(c) \/ WriteKey(c)
                                   \/ IssueNonce(c)
      PROVE  SavedGrows /\ SavedShape'
  BY <1>1, <1>5 DEF Ends, Stop, Dies, RotateApiKey, CreateKey, WriteKey, IssueNonce, startup
<1>6. ASSUME NEW i \in Arrival, IsSignedBegin(i) \/ IsSignedEnd(i)
      PROVE  SavedGrows /\ SavedShape'
  BY <1>1, <1>6 DEF IsSignedBegin, IsSignedEnd, startup
<1>7. ASSUME ReadKey \/ Tick \/ UNCHANGED vars PROVE SavedGrows /\ SavedShape'
  BY <1>1, <1>7 DEF ReadKey, Tick, vars, startup
<1>8. ASSUME NEW f, NEW t, UserWrites(f, t) PROVE SavedGrows /\ SavedShape'
  BY <1>1, <1>8 DEF UserWrites
<1>9. ASSUME NEW d \in Directory, Damage(d) PROVE SavedGrows /\ SavedShape'
  BY <1>1, <1>9 DEF Damage
<1> QED BY <1>3, <1>4, <1>5, <1>6, <1>7, <1>8, <1>9 DEF Next, Disturbance

\* What UserFilesKept says of one step.
UserTextKept ==
    \A f \in ProvidedSet :
        file[f] = "user" /\ file'[f] # "user" => events' # events \/ f \in raced

\* Only an event of the outside world, or a plan that a user overtook, replaces what a
\* user has written: files are created exclusively and an old one is only moved.
LEMMA UserTextNext == LockInv /\ WorkInv /\ events \in Nat /\ [Next]_vars => UserTextKept
<1> SUFFICES ASSUME LockInv, WorkInv, events \in Nat, [Next]_vars PROVE UserTextKept
  OBVIOUS
<1>1. ASSUME UNCHANGED file PROVE UserTextKept
  BY <1>1 DEF UserTextKept
<1>2. CASE Happens
  BY <1>2 DEF Happens, UserTextKept
<1>3. ASSUME NEW c \in Controller, WriteFile(c) PROVE UserTextKept
  <2>1. /\ pc[c] \in {"files", "again"} /\ todo[c] # <<>> /\ plan[c] # Nothing
        /\ file' = [file EXCEPT ![Head(todo[c])] =
                      IF plan[c] = "move" THEN (IF former THEN "user" ELSE Created(Head(todo[c])))
                      ELSE IF plan[c] = "create" THEN Created(Head(todo[c])) ELSE "current"]
    BY <1>3 DEF WriteFile
  <2>2. Head(todo[c]) \in ProvidedSet
    BY <2>1, WorkTails DEF WorkInv, Planned
  <2>3. plan[c] \in {"move", "create", "replace"}
    BY <2>1 DEF WorkInv, WorkShape, Plan
  <2>5. CASE plan[c] = "replace"
    <3>1. Head(todo[c]) = "plugin" /\ (file["plugin"] = "user" => "plugin" \in raced)
      BY <2>1, <2>5, Worklists DEF WorkInv, Planned
    <3> QED BY <2>1, <3>1 DEF UserTextKept, WorkInv, WorkShape
  <2>6. CASE plan[c] \in {"move", "create"}
    <3>1. file[Head(todo[c])] = "user" => Created(Head(todo[c])) = "user"
      BY DEF Created
    <3> QED BY <2>1, <2>2, <2>6, <3>1 DEF UserTextKept, WorkInv, WorkShape
  <2> QED BY <2>3, <2>5, <2>6
<1>4. ASSUME NEW c \in Controller, Starts(c) PROVE UserTextKept
  BY <1>1, <1>3, <1>4
     DEF Starts, Validate, TakeLock, SetAside, WriteMarker, LookAtFile, FilesDone, Publish
<1>5. ASSUME NEW c \in Controller, CreateKey(c) \/ WriteKey(c) \/ IssueNonce(c)
      PROVE  UserTextKept
  BY <1>1, <1>5 DEF CreateKey, WriteKey, IssueNonce, startup
<1>6. ASSUME NEW i \in Arrival, IsSignedBegin(i) \/ IsSignedEnd(i) PROVE UserTextKept
  BY <1>1, <1>6 DEF IsSignedBegin, IsSignedEnd, startup
<1>7. ASSUME ReadKey \/ Tick \/ UNCHANGED vars PROVE UserTextKept
  BY <1>1, <1>7 DEF ReadKey, Tick, vars, startup
<1> QED BY <1>2, <1>4, <1>5, <1>6, <1>7 DEF Next

\* However often starts are cut short, state that is moved away is in recovery/ and
\* stays there, and what a user has written in the workspace is not replaced.
THEOREM StartsLoseNothing == Spec => StartLosesNothing
<1>1. Init => SavedShape /\ events \in Nat
  BY DEF Init, StartupInit, SavedShape
<1>2. events \in Nat /\ [Next]_vars => (events \in Nat)'
  <2> SUFFICES ASSUME events \in Nat, [Next]_vars PROVE events' \in Nat
    OBVIOUS
  <2>1. events' = events \/ events' = events + 1
    BY DEF Next, Happens, vars
  <2> QED BY <2>1
<1>3. Spec => [](SavedShape /\ events \in Nat)
  BY <1>1, <1>2, SavedNext, StartInvariants, PTL DEF Spec
<1>4. Spec => StateKept
  <2>1. LockInv /\ WorkInv /\ FormatInv /\ SavedShape /\ [Next]_vars =>
          [\A d \in Directory :
            /\ saved[d] \subseteq saved'[d]
            /\ \A n \in DynamicSet : dynamic[d][n] # "none" /\ dynamic'[d][n] = "none" =>
                 <<n, dynamic[d][n]>> \in saved'[d]]_startup
    BY SavedNext DEF SavedGrows
  <2> QED BY <1>3, <2>1, StartInvariants, PTL DEF Spec, StateKept
<1>5. Spec => UserFilesKept
  <2>1. LockInv /\ WorkInv /\ events \in Nat /\ [Next]_vars =>
          [\A f \in ProvidedSet :
            file[f] = "user" /\ file'[f] # "user" => events' # events \/ f \in raced]_<<startup, events>>
    BY UserTextNext DEF UserTextKept
  <2> QED BY <1>3, <2>1, StartInvariants, PTL DEF Spec, UserFilesKept
<1> QED BY <1>4, <1>5 DEF StartLosesNothing

-----------------------------------------------------------------------------
(* Signed requests                                                         *)

EarlierKey == [gen : Nat, key : Nat, until : Nat]
Fate == {"none", "body", "accepted", "refused", "lost"}

AccessShape ==
    /\ key \in Nat /\ made \in Nat /\ now \in Nat
    /\ gen \in [Controller -> Nat]
    /\ previous \in [Controller -> SUBSET EarlierKey]
    /\ challenge \in Challenge \cup {Nothing}
    /\ arrival \in [Arrival -> Fate]

\* Nothing arrives before there is a nonce.
NoneBefore == challenge = Nothing => \A i \in Arrival : arrival[i] = "none"

\* An earlier key has the number of a generation that is over.
Numbered == \A c \in Controller : \A e \in previous[c] : e.gen < gen[c]

\* The keys the nonce may be used with are keys of the file since it was issued.
KeysSince ==
    challenge # Nothing =>
        /\ key \in since
        /\ \A e \in previous[challenge.at] : e.gen = challenge.gen => e.key \in since

\* The nonce is open until one arrival takes it, and no other gets as far.
TakenOnce ==
    /\ challenge # Nothing /\ challenge.open =>
          \A i \in Arrival : arrival[i] \in {"none", "refused"}
    /\ \A i, j \in Arrival :
          arrival[i] \in {"body", "accepted"} /\ arrival[j] \in {"body", "accepted"} => i = j

AccessInv == AccessShape /\ NoneBefore /\ Numbered /\ KeysSince /\ TakenOnce /\ KeyCurrent

LEMMA AccessInit == Init => AccessInv
BY DEF Init, AccessInv, AccessShape, NoneBefore, Numbered, KeysSince, TakenOnce, KeyCurrent,
       Missing, Empty, Fate

\* A change of the key file only adds to what it has held.
LEMMA KeyChanges ==
    ASSUME AccessInv, NEW c \in Controller, NEW k \in Nat, KeyBecomes(c, k)
    PROVE  /\ key' \in Nat
           /\ challenge # Nothing => key' \in since' /\ since \subseteq since'
           /\ challenge = Nothing => since' = since
BY DEF KeyBecomes

\* What the steps that leave the nonce and its arrivals alone have to show.
LEMMA Apart ==
    ASSUME AccessInv, UNCHANGED <<challenge, held, arrival>>,
           AccessShape', Numbered', KeysSince',
           challenge # Nothing => since \subseteq since'
    PROVE  AccessInv'
BY DEF AccessInv, NoneBefore, TakenOnce, KeyCurrent

LEMMA AccessCreate ==
    ASSUME AccessInv, NEW c \in Controller, CreateKey(c)
    PROVE  AccessInv'
<1>1. /\ key' \in Nat
      /\ challenge # Nothing => key' \in since' /\ since \subseteq since'
  <2>1. CASE key = Missing
    BY <2>1, KeyChanges DEF CreateKey, Empty
  <2>2. CASE key # Missing
    BY <2>2 DEF CreateKey, AccessInv, AccessShape, KeysSince
  <2> QED BY <2>1, <2>2
<1>2. /\ gen' = [gen EXCEPT ![c] = 1] /\ previous' = [previous EXCEPT ![c] = {}]
      /\ UNCHANGED <<made, now, challenge, held, arrival>>
  BY DEF CreateKey
<1>3. AccessShape'
  BY <1>1, <1>2 DEF AccessInv, AccessShape
<1>4. Numbered'
  BY <1>2 DEF AccessInv, AccessShape, Numbered
<1>5. KeysSince'
  BY <1>1, <1>2 DEF AccessInv, AccessShape, KeysSince, Challenge
<1> QED BY <1>1, <1>2, <1>3, <1>4, <1>5, Apart

LEMMA AccessWrite ==
    ASSUME AccessInv, NEW c \in Controller, WriteKey(c)
    PROVE  AccessInv'
<1>1. /\ key' \in Nat /\ made' \in Nat
      /\ challenge # Nothing => key' \in since' /\ since \subseteq since'
  <2>1. CASE key = Empty
    <3>1. made + 1 \in Nat /\ KeyBecomes(c, made + 1) /\ made' = made + 1
      BY <2>1 DEF WriteKey, AccessInv, AccessShape
    <3> QED BY <3>1, KeyChanges
  <2>2. CASE key # Empty
    BY <2>2 DEF WriteKey, AccessInv, AccessShape, KeysSince
  <2> QED BY <2>1, <2>2
<1>2. UNCHANGED <<gen, previous, now, challenge, held, arrival>>
  BY DEF WriteKey
<1>3. AccessShape'
  BY <1>1, <1>2 DEF AccessInv, AccessShape
<1>4. Numbered'
  BY <1>2 DEF AccessInv, Numbered
<1>5. KeysSince'
  BY <1>1, <1>2 DEF AccessInv, KeysSince
<1> QED BY <1>1, <1>2, <1>3, <1>4, <1>5, Apart

\* A rotation numbers the present key, which the file has held since the nonce.
LEMMA AccessRotate ==
    ASSUME AccessInv, NEW c \in Controller, RotateApiKey(c)
    PROVE  AccessInv'
<1>1. /\ made + 1 \in Nat /\ KeyBecomes(c, made + 1) /\ made' = made + 1
      /\ gen' = [gen EXCEPT ![c] = @ + 1]
      /\ UNCHANGED <<now, challenge, held, arrival>>
  BY DEF RotateApiKey, AccessInv, AccessShape
<1>2. /\ key' \in Nat
      /\ challenge # Nothing => key' \in since' /\ since \subseteq since'
  BY <1>1, KeyChanges
<1>3. previous' = [previous EXCEPT ![c] =
          {e \in previous[c] : e.until > now} \cup {[gen |-> gen[c], key |-> key, until |-> now + Life]}]
  BY DEF RotateApiKey, Earlier
<1>4. [gen |-> gen[c], key |-> key, until |-> now + Life] \in EarlierKey
  BY InstanceAssumption DEF AccessInv, AccessShape, EarlierKey
<1>5. previous' \in [Controller -> SUBSET EarlierKey]
  BY <1>3, <1>4 DEF AccessInv, AccessShape
<1>6. AccessShape'
  <2>1. gen' \in [Controller -> Nat]
    <3>1. gen \in [Controller -> Nat] /\ gen[c] + 1 \in Nat
      BY DEF AccessInv, AccessShape
    <3> QED BY <1>1, <3>1
  <2> QED BY <1>1, <1>2, <1>5, <2>1 DEF AccessInv, AccessShape
<1>7. ASSUME NEW b \in Controller, NEW e \in previous'[b]
      PROVE  e \in previous[b] \/ (b = c /\ e.gen = gen[c] /\ e.key = key)
  BY <1>3, <1>7 DEF AccessInv, AccessShape
<1>8. Numbered'
  <2> SUFFICES ASSUME NEW b \in Controller, NEW e \in previous'[b]
               PROVE  e.gen < gen'[b]
    BY DEF Numbered
  <2>1. e \in EarlierKey /\ gen[b] \in Nat
    BY <1>5 DEF AccessInv, AccessShape
  <2>2. gen'[b] = IF b = c THEN gen[b] + 1 ELSE gen[b]
    BY <1>1 DEF AccessInv, AccessShape
  <2>3. e.gen < gen[b] \/ (b = c /\ e.gen = gen[c])
    BY <1>7 DEF AccessInv, Numbered
  <2> QED BY <2>1, <2>2, <2>3 DEF EarlierKey
<1>9. KeysSince'
  <2> SUFFICES ASSUME challenge # Nothing, NEW e \in previous'[challenge.at],
                      e.gen = challenge.gen
               PROVE  e.key \in since'
    BY <1>1, <1>2 DEF KeysSince
  <2>1. challenge.at \in Controller
    BY DEF AccessInv, AccessShape, Challenge
  <2>2. e \in previous[challenge.at] \/ e.key = key
    BY <2>1, <1>7
  <2>3. e.key \in since
    BY <2>2 DEF AccessInv, KeysSince
  <2> QED BY <2>3, <1>2
<1> QED BY <1>1, <1>2, <1>6, <1>8, <1>9, Apart

\* No earlier key has the number of the generation a nonce is issued in.
LEMMA AccessIssue ==
    ASSUME AccessInv, NEW c \in Controller, IssueNonce(c)
    PROVE  AccessInv'
<1>1. /\ challenge = Nothing
      /\ challenge' = [at |-> c, gen |-> gen[c], until |-> now + Life, key |-> key, open |-> TRUE]
      /\ since' = {key} /\ UNCHANGED <<key, made, gen, previous, now, held, arrival>>
  BY DEF IssueNonce
<1>2. challenge' \in Challenge
  BY <1>1, InstanceAssumption DEF AccessInv, AccessShape, Challenge
<1>3. AccessShape'
  BY <1>1, <1>2 DEF AccessInv, AccessShape
<1>4. \A i \in Arrival : arrival'[i] = "none"
  BY <1>1 DEF AccessInv, NoneBefore
<1>5. KeysSince'
  <2>1. \A e \in previous[c] : e.gen # gen[c]
    BY DEF AccessInv, AccessShape, Numbered, EarlierKey
  <2> QED BY <1>1, <2>1 DEF KeysSince
<1>6. Numbered'
  BY <1>1 DEF AccessInv, Numbered
<1>7. NoneBefore' /\ TakenOnce' /\ KeyCurrent'
  BY <1>4 DEF NoneBefore, TakenOnce, KeyCurrent
<1> QED BY <1>3, <1>5, <1>6, <1>7 DEF AccessInv

\* The nonce is closed: it stays a nonce of the same controller and generation.
LEMMA Closed ==
    ASSUME challenge \in Challenge
    PROVE  /\ [challenge EXCEPT !.open = FALSE] \in Challenge
           /\ [challenge EXCEPT !.open = FALSE] # Nothing
           /\ [challenge EXCEPT !.open = FALSE].at = challenge.at
           /\ [challenge EXCEPT !.open = FALSE].gen = challenge.gen
           /\ [challenge EXCEPT !.open = FALSE].open = FALSE
<1>1. [challenge EXCEPT !.open = FALSE] \in Challenge
  BY DEF Challenge
<1> QED BY <1>1, InstanceAssumption DEF Challenge

LEMMA AccessBegin ==
    ASSUME AccessInv, NEW i \in Arrival, IsSignedBegin(i)
    PROVE  AccessInv'
<1>1. /\ challenge \in Challenge /\ arrival[i] = "none"
      /\ challenge' = [challenge EXCEPT !.open = FALSE]
      /\ UNCHANGED <<key, made, gen, previous, now, held, since>>
      /\ arrival' = [arrival EXCEPT ![i] =
                       IF challenge.open /\ challenge.until >= now THEN "body" ELSE "refused"]
  BY DEF IsSignedBegin, Taken, AccessInv, AccessShape
<1>2. /\ challenge # Nothing /\ challenge' \in Challenge /\ challenge' # Nothing
      /\ challenge'.at = challenge.at /\ challenge'.gen = challenge.gen /\ challenge'.open = FALSE
  BY <1>1, Closed DEF IsSignedBegin
<1>3. AccessShape'
  BY <1>1, <1>2 DEF AccessInv, AccessShape, Fate
<1>4. NoneBefore' /\ Numbered' /\ KeysSince'
  BY <1>1, <1>2 DEF AccessInv, NoneBefore, Numbered, KeysSince
<1>5. \A j \in Arrival \ {i} : arrival'[j] = arrival[j]
  BY <1>1 DEF AccessInv, AccessShape
<1>6. arrival'[i] = "refused" \/ (arrival'[i] = "body" /\ challenge.open)
  BY <1>1 DEF AccessInv, AccessShape
<1>7. TakenOnce'
  <2>1. CASE arrival'[i] = "refused"
    BY <1>2, <1>5, <2>1 DEF AccessInv, TakenOnce
  <2>2. CASE arrival'[i] = "body" /\ challenge.open
    <3>1. \A j \in Arrival \ {i} : arrival'[j] \in {"none", "refused"}
      BY <1>2, <1>5, <2>2 DEF AccessInv, TakenOnce
    <3> QED BY <1>2, <3>1 DEF TakenOnce
  <2> QED BY <1>6, <2>1, <2>2
<1>8. KeyCurrent'
  BY <1>1, <1>5, <1>6 DEF AccessInv, KeyCurrent
<1> QED BY <1>3, <1>4, <1>7, <1>8 DEF AccessInv

LEMMA AccessEnd ==
    ASSUME AccessInv, NEW i \in Arrival, IsSignedEnd(i)
    PROVE  AccessInv'
<1>1. /\ arrival[i] = "body"
      /\ UNCHANGED <<key, made, gen, previous, now, challenge, held, since>>
      /\ arrival' = [arrival EXCEPT ![i] =
                       IF held \in Acceptable(challenge.at, challenge.gen)
                       THEN "accepted" ELSE "refused"]
  BY DEF IsSignedEnd
<1>2. challenge # Nothing
  BY <1>1 DEF AccessInv, NoneBefore
<1>3. Acceptable(challenge.at, challenge.gen) \subseteq since
  BY <1>2 DEF Acceptable, AccessInv, KeysSince
<1>4. \A j \in Arrival \ {i} : arrival'[j] = arrival[j]
  BY <1>1 DEF AccessInv, AccessShape
<1>5. arrival'[i] = "refused" \/ (arrival'[i] = "accepted" /\ held \in since)
  BY <1>1, <1>3 DEF AccessInv, AccessShape
<1>6. AccessShape' /\ NoneBefore' /\ Numbered' /\ KeysSince'
  BY <1>1, <1>2 DEF AccessInv, AccessShape, NoneBefore, Numbered, KeysSince, Fate
<1>7. TakenOnce'
  BY <1>1, <1>2, <1>4, <1>5 DEF AccessInv, TakenOnce
<1>8. KeyCurrent'
  BY <1>1, <1>4, <1>5 DEF AccessInv, KeyCurrent
<1> QED BY <1>6, <1>7, <1>8 DEF AccessInv

LEMMA AccessEnds ==
    ASSUME AccessInv, NEW c \in Controller, Ends(c)
    PROVE  AccessInv'
<1>1. UNCHANGED <<key, made, gen, previous, now, held, since>>
  BY DEF Ends
<1>2. CASE challenge # Nothing /\ challenge.at = c
  <2>1. /\ challenge \in Challenge /\ challenge' = [challenge EXCEPT !.open = FALSE]
        /\ arrival' = [i \in Arrival |-> IF arrival[i] = "body" THEN "lost" ELSE arrival[i]]
    BY <1>2 DEF Ends, AccessInv, AccessShape
  <2>2. /\ challenge' \in Challenge /\ challenge' # Nothing
        /\ challenge'.at = challenge.at /\ challenge'.gen = challenge.gen /\ challenge'.open = FALSE
    BY <2>1, Closed
  <2>3. AccessShape'
    BY <1>1, <2>1, <2>2 DEF AccessInv, AccessShape, Fate
  <2>4. NoneBefore' /\ Numbered' /\ KeysSince'
    BY <1>1, <1>2, <2>2 DEF AccessInv, NoneBefore, Numbered, KeysSince
  <2>5. TakenOnce' /\ KeyCurrent'
    BY <1>1, <2>1, <2>2 DEF AccessInv, TakenOnce, KeyCurrent
  <2> QED BY <2>3, <2>4, <2>5 DEF AccessInv
<1>3. CASE ~(challenge # Nothing /\ challenge.at = c)
  BY <1>1, <1>3 DEF Ends, AccessInv, AccessShape, NoneBefore, Numbered, KeysSince, TakenOnce,
     KeyCurrent
<1> QED BY <1>2, <1>3

LEMMA AccessNext == AccessInv /\ [Next]_vars => AccessInv'
<1> SUFFICES ASSUME AccessInv, [Next]_vars PROVE AccessInv'
  OBVIOUS
<1>1. ASSUME UNCHANGED access PROVE AccessInv'
  BY <1>1 DEF access, AccessInv, AccessShape, NoneBefore, Numbered, KeysSince, TakenOnce, KeyCurrent
<1>2. ASSUME ReadKey PROVE AccessInv'
  BY <1>2 DEF ReadKey, AccessInv, AccessShape, NoneBefore, Numbered, KeysSince, TakenOnce, KeyCurrent
<1>3. ASSUME Tick PROVE AccessInv'
  BY <1>3 DEF Tick, AccessInv, AccessShape, NoneBefore, Numbered, KeysSince, TakenOnce, KeyCurrent
<1> QED BY <1>1, <1>2, <1>3, AccessCreate, AccessWrite, AccessRotate, AccessIssue, AccessBegin,
           AccessEnd, AccessEnds
        DEF Next, Disturbance, vars

\* A signed request is accepted at most once, however its arrivals interleave, and
\* with a key the file has held since its nonce was issued: also when another
\* controller rotated the shared key, and when the issuing one was restarted and
\* counts its generations from one again (auth.py:36-43, 132-190).
THEOREM SignedRequests == Spec => []SignedOnce
<1>1. AccessInv => SignedOnce
  BY DEF AccessInv, TakenOnce, NonceOnce, SignedOnce
<1> QED BY AccessInit, AccessNext, <1>1, PTL DEF Spec
-----------------------------------------------------------------------------
(* A request in time is accepted                                           *)

\* Until the controller that issued the nonce ends, or another one changes the key
\* file, it is up, it counts its generations upwards, and it knows the key of the
\* nonce: as the present one, or as an earlier one for as long as the nonce lives.
NonceKept ==
    challenge # Nothing /\ ~disturbed =>
        LET c == challenge.at
        IN /\ pc[c] = "up"
           /\ challenge.gen <= gen[c]
           /\ challenge.until <= now + Life
           /\ now < challenge.until =>
                IF challenge.gen = gen[c] THEN key = challenge.key
                ELSE \E e \in previous[c] : /\ e.gen = challenge.gen /\ e.key = challenge.key
                                            /\ e.until >= challenge.until

\* A nonce that is no longer open was taken by an arrival or went with its controller.
ClosedBy ==
    challenge # Nothing /\ ~challenge.open => disturbed \/ \E i \in Arrival : arrival[i] # "none"

TimelyInv == NonceKept /\ ClosedBy /\ disturbed \in BOOLEAN

LEMMA TimelyInit == Init => TimelyInv
BY DEF Init, TimelyInv, NonceKept, ClosedBy

\* A change of the key file by another controller is a disturbance.
LEMMA TimelyOther ==
    ASSUME AccessInv, TimelyInv, NEW c \in Controller, NEW k, KeyBecomes(c, k),
           challenge # Nothing => c # challenge.at \/ disturbed,
           UNCHANGED <<challenge, arrival>>
    PROVE  TimelyInv'
BY DEF TimelyInv, NonceKept, ClosedBy, KeyBecomes

\* A rotation by the controller of the nonce files the key under its generation.
LEMMA TimelyRotate ==
    ASSUME LockInv, AccessInv, TimelyInv, NEW c \in Controller, RotateApiKey(c)
    PROVE  TimelyInv'
<1>1. CASE challenge = Nothing \/ challenge.at # c \/ disturbed
  BY <1>1, TimelyOther DEF RotateApiKey, TimelyInv, NonceKept, ClosedBy, KeyBecomes
<1>2. CASE challenge # Nothing /\ challenge.at = c /\ ~disturbed
  <2>1. /\ challenge \in Challenge /\ key \in Nat /\ now \in Nat /\ gen[c] \in Nat
        /\ gen'[c] = gen[c] + 1 /\ Life \in Nat
        /\ UNCHANGED <<challenge, now, arrival, pc>>
    BY <1>2, InstanceAssumption DEF RotateApiKey, AccessInv, AccessShape, startup
  <2>2. challenge.gen \in Nat /\ challenge.until \in Nat
    BY <2>1 DEF Challenge
  <2>3. previous'[c] = {e \in previous[c] : e.until > now}
                         \cup {[gen |-> gen[c], key |-> key, until |-> now + Life]}
    BY DEF RotateApiKey, Earlier, AccessInv, AccessShape
  <2>4. pc[c] = "up" /\ challenge.gen <= gen[c] /\ challenge.until <= now + Life
    BY <1>2 DEF TimelyInv, NonceKept
  <2>5. ASSUME now < challenge.until
        PROVE  \E e \in previous'[c] : /\ e.gen = challenge.gen /\ e.key = challenge.key
                                       /\ e.until >= challenge.until
    <3>1. CASE challenge.gen = gen[c]
      <4> DEFINE e == [gen |-> gen[c], key |-> key, until |-> now + Life]
      <4>1. e \in previous'[c]
        BY <2>3
      <4>2. key = challenge.key
        BY <1>2, <2>5, <3>1 DEF TimelyInv, NonceKept
      <4>3. e.gen = challenge.gen /\ e.key = challenge.key /\ e.until >= challenge.until
        BY <2>1, <2>2, <2>4, <3>1, <4>2
      <4> QED BY <4>1, <4>3
    <3>2. CASE challenge.gen # gen[c]
      <4>1. PICK e \in previous[c] : /\ e.gen = challenge.gen /\ e.key = challenge.key
                                     /\ e.until >= challenge.until
        BY <1>2, <2>5, <3>2 DEF TimelyInv, NonceKept
      <4>2. e \in EarlierKey
        BY DEF AccessInv, AccessShape
      <4>3. e.until > now
        BY <2>1, <2>2, <2>5, <4>1, <4>2 DEF EarlierKey
      <4>4. e \in previous'[c]
        BY <2>3, <4>3
      <4> QED BY <4>1, <4>4
    <3> QED BY <3>1, <3>2
  <2>6. challenge.gen <= gen'[c] /\ challenge.gen # gen'[c]
    BY <2>1, <2>2, <2>4
  <2>7. NonceKept'
    BY <1>2, <2>1, <2>4, <2>5, <2>6 DEF NonceKept
  <2>8. ClosedBy' /\ disturbed' \in BOOLEAN
    BY <1>2, <2>1 DEF RotateApiKey, KeyBecomes, TimelyInv, ClosedBy
  <2> QED BY <2>7, <2>8 DEF TimelyInv
<1> QED BY <1>1, <1>2

LEMMA TimelyIssue ==
    ASSUME LockInv, AccessInv, TimelyInv, NEW c \in Controller, IssueNonce(c)
    PROVE  TimelyInv'
<1>1. /\ challenge' = [at |-> c, gen |-> gen[c], until |-> now + Life, key |-> key, open |-> TRUE]
      /\ pc[c] = "up" /\ UNCHANGED <<key, gen, previous, now, arrival, disturbed, pc>>
      /\ gen[c] \in Nat /\ now \in Nat /\ Life \in Nat
  BY InstanceAssumption DEF IssueNonce, AccessInv, AccessShape, startup
<1> QED BY <1>1 DEF TimelyInv, NonceKept, ClosedBy

LEMMA TimelyNext == LockInv /\ AccessInv /\ TimelyInv /\ [Next]_vars => TimelyInv'
<1> SUFFICES ASSUME LockInv, AccessInv, TimelyInv, [Next]_vars PROVE TimelyInv'
  OBVIOUS
<1>0. pc \in [Controller -> Place] /\ (challenge # Nothing => challenge \in Challenge)
  BY DEF LockInv, LockShape, AccessInv, AccessShape
<1>1. ASSUME UNCHANGED access,
             challenge # Nothing /\ ~disturbed => pc'[challenge.at] = pc[challenge.at]
      PROVE  TimelyInv'
  BY <1>1 DEF access, TimelyInv, NonceKept, ClosedBy
<1>2. ASSUME UNCHANGED access, NEW c \in Controller, Starts(c) PROVE TimelyInv'
  <2>1. pc[c] # "up" /\ \A b \in Controller : b # c => pc'[b] = pc[b]
    BY <1>0, <1>2 DEF Starts, Validate, TakeLock, SetAside, WriteMarker, LookAtFile, WriteFile,
                      FilesDone, Publish, Goes, Leave
  <2> QED BY <1>0, <1>1, <1>2, <2>1 DEF TimelyInv, NonceKept, Challenge
<1>3. ASSUME NEW c \in Controller, CreateKey(c) \/ WriteKey(c) PROVE TimelyInv'
  <2>1. /\ pc[c] # "up" /\ (\A b \in Controller : b # c => pc'[b] = pc[b])
        /\ UNCHANGED <<now, challenge, held, arrival>>
        /\ \A b \in Controller : b # c => gen'[b] = gen[b] /\ previous'[b] = previous[b]
    BY <1>0, <1>3 DEF CreateKey, WriteKey, Goes, AccessInv, AccessShape
  <2>2. challenge # Nothing => c # challenge.at \/ disturbed
    BY <2>1 DEF TimelyInv, NonceKept
  <2>3. CASE UNCHANGED <<key, disturbed>>
    BY <1>0, <2>1, <2>2, <2>3 DEF TimelyInv, NonceKept, ClosedBy, Challenge
  <2>4. CASE \E k : KeyBecomes(c, k)
    BY <2>1, <2>2, <2>4, TimelyOther
  <2> QED BY <1>3, <2>3, <2>4 DEF CreateKey, WriteKey
<1>4. ASSUME NEW i \in Arrival, IsSignedBegin(i) PROVE TimelyInv'
  <2>1. /\ challenge \in Challenge /\ challenge' = [challenge EXCEPT !.open = FALSE]
        /\ challenge # Nothing /\ arrival'[i] # "none"
        /\ UNCHANGED <<key, gen, previous, now, disturbed, pc>>
    BY <1>0, <1>4 DEF IsSignedBegin, Taken, AccessInv, AccessShape, startup
  <2>2. /\ challenge'.at = challenge.at /\ challenge'.gen = challenge.gen
        /\ challenge'.until = challenge.until /\ challenge'.key = challenge.key
    BY <2>1 DEF Challenge
  <2> QED BY <2>1, <2>2 DEF TimelyInv, NonceKept, ClosedBy
<1>5. ASSUME NEW i \in Arrival, IsSignedEnd(i) PROVE TimelyInv'
  <2>1. /\ UNCHANGED <<challenge, key, gen, previous, now, disturbed, pc>>
        /\ \A j \in Arrival : arrival[j] # "none" => arrival'[j] # "none"
    BY <1>5 DEF IsSignedEnd, AccessInv, AccessShape, startup
  <2> QED BY <2>1 DEF TimelyInv, NonceKept, ClosedBy
<1>6. ASSUME NEW c \in Controller, Ends(c) PROVE TimelyInv'
  <2>1. CASE challenge # Nothing /\ challenge.at = c
    BY <1>6, <2>1 DEF Ends, TimelyInv, NonceKept, ClosedBy
  <2>2. CASE ~(challenge # Nothing /\ challenge.at = c)
    <3>1. \A b \in Controller : b # c => pc'[b] = pc[b]
      BY <1>0, <1>6 DEF Ends, Stop, Dies, Leave, Goes
    <3>2. UNCHANGED <<key, gen, previous, now, challenge, arrival, disturbed>>
      BY <1>6, <2>2 DEF Ends
    <3> QED BY <1>0, <2>2, <3>1, <3>2 DEF TimelyInv, NonceKept, ClosedBy, Challenge
  <2> QED BY <2>1, <2>2
<1>7. CASE ReadKey
  BY <1>7 DEF ReadKey, startup, TimelyInv, NonceKept, ClosedBy
<1>8. CASE Tick
  <2>1. /\ now' = now + 1 /\ now \in Nat /\ Life \in Nat /\ challenge \in Challenge
        /\ UNCHANGED <<key, gen, previous, challenge, arrival, disturbed, pc>>
    BY <1>0, <1>8, InstanceAssumption DEF Tick, startup, AccessInv, AccessShape
  <2>2. challenge.until \in Nat
    BY <2>1 DEF Challenge
  <2> QED BY <2>1, <2>2 DEF TimelyInv, NonceKept, ClosedBy
<1>9. ASSUME UNCHANGED access, UNCHANGED pc PROVE TimelyInv'
  BY <1>1, <1>9
<1>10. ASSUME NEW d \in Directory, UNCHANGED access, NewerProgram(d) \/ Damage(d)
       PROVE  TimelyInv'
  BY <1>9, <1>10 DEF NewerProgram, Damage
<1>11. ASSUME NEW f, NEW t, UNCHANGED access, UserWrites(f, t) PROVE TimelyInv'
  BY <1>9, <1>11 DEF UserWrites
<1>12. CASE UNCHANGED vars
  BY <1>9, <1>12 DEF vars, startup
<1> QED BY <1>2, <1>3, <1>4, <1>5, <1>6, <1>7, <1>8, <1>10, <1>11, <1>12, TimelyRotate,
           TimelyIssue
        DEF Next, Disturbance

\* What InTimeAccepted says of one step.
RefusedForAReason ==
    \A i \in Arrival : arrival[i] # "refused" /\ arrival'[i] = "refused" =>
        \/ held # challenge.key
        \/ now >= challenge.until
        \/ disturbed
        \/ \E j \in Arrival \ {i} : arrival[j] # "none"

LEMMA RefusalStep == AccessInv /\ TimelyInv /\ [Next]_vars => RefusedForAReason
<1> SUFFICES ASSUME AccessInv, TimelyInv, [Next]_vars, NEW i \in Arrival,
                    arrival[i] # "refused", arrival'[i] = "refused"
             PROVE  \/ held # challenge.key
                    \/ now >= challenge.until
                    \/ disturbed
                    \/ \E j \in Arrival \ {i} : arrival[j] # "none"
  BY DEF RefusedForAReason
<1>0. now \in Nat /\ (challenge # Nothing => challenge \in Challenge)
  BY DEF AccessInv, AccessShape
<1>1. IsSignedBegin(i) \/ IsSignedEnd(i)
  <2>1. arrival' # arrival
    OBVIOUS
  <2>2. ASSUME NEW j \in Arrival, IsSignedBegin(j) \/ IsSignedEnd(j) PROVE j = i
    BY <2>2 DEF IsSignedBegin, IsSignedEnd, AccessInv, AccessShape
  <2>3. ASSUME NEW c \in Controller, Ends(c) PROVE FALSE
    BY <2>1, <2>3 DEF Ends
  <2>4. ASSUME NEW c \in Controller, \/ RotateApiKey(c) \/ CreateKey(c) \/ WriteKey(c)
                                     \/ IssueNonce(c)
        PROVE  FALSE
    BY <2>1, <2>4 DEF RotateApiKey, CreateKey, WriteKey, IssueNonce
  <2>5. ~UNCHANGED access /\ ~ReadKey /\ ~Tick /\ ~UNCHANGED vars
    BY <2>1 DEF access, ReadKey, Tick, vars
  <2> QED BY <2>2, <2>3, <2>4, <2>5 DEF Next, Disturbance
<1>2. CASE IsSignedBegin(i)
  <2>1. challenge # Nothing /\ arrival[i] = "none" /\ ~(challenge.open /\ challenge.until >= now)
    BY <1>2 DEF IsSignedBegin, AccessInv, AccessShape
  <2>2. CASE ~challenge.open
    BY <2>1, <2>2 DEF TimelyInv, ClosedBy
  <2>3. CASE ~(challenge.until >= now)
    BY <1>0, <2>1, <2>3 DEF Challenge
  <2> QED BY <2>1, <2>2, <2>3
<1>3. CASE IsSignedEnd(i)
  <2>1. challenge # Nothing /\ held \notin Acceptable(challenge.at, challenge.gen)
    BY <1>3 DEF IsSignedEnd, AccessInv, AccessShape, NoneBefore
  <2>2. SUFFICES ASSUME held = challenge.key, ~(now >= challenge.until), ~disturbed
                 PROVE  FALSE
    OBVIOUS
  <2>3. now < challenge.until /\ challenge.until \in Nat /\ challenge.at \in Controller
    BY <1>0, <2>1, <2>2 DEF Challenge
  <2>4. CASE challenge.gen = gen[challenge.at]
    BY <2>1, <2>2, <2>3, <2>4 DEF TimelyInv, NonceKept, Acceptable
  <2>5. CASE challenge.gen # gen[challenge.at]
    <3>1. PICK e \in previous[challenge.at] :
            e.gen = challenge.gen /\ e.key = challenge.key /\ e.until >= challenge.until
      BY <2>1, <2>2, <2>3, <2>5 DEF TimelyInv, NonceKept
    <3>2. e \in EarlierKey
      BY <2>3 DEF AccessInv, AccessShape
    <3>3. e.until > now
      BY <1>0, <2>3, <3>1, <3>2 DEF EarlierKey
    <3> QED BY <2>1, <2>2, <2>5, <3>1, <3>3 DEF Acceptable
  <2> QED BY <2>4, <2>5
<1> QED BY <1>1, <1>2, <1>3

\* A request signed with the key of its nonce is accepted while the nonce lives,
\* however many tasks end and rotate the key meanwhile, unless its controller ended or
\* another one changed the key file (auth.py keeps earlier keys for as long as nonces).
THEOREM AcceptedInTime == Spec => InTimeAccepted
<1>1. AccessInv /\ TimelyInv /\ [Next]_vars =>
        [\A i \in Arrival : arrival[i] # "refused" /\ arrival'[i] = "refused" =>
          \/ held # challenge.key
          \/ now >= challenge.until
          \/ disturbed
          \/ \E j \in Arrival \ {i} : arrival[j] # "none"]_vars
  BY RefusalStep DEF RefusedForAReason
<1> QED BY <1>1, StartInvariants, AccessInit, AccessNext, TimelyInit, TimelyNext, PTL
        DEF Spec, InTimeAccepted
=============================================================================
