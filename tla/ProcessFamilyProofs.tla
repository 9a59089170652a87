------------------------ MODULE ProcessFamilyProofs ------------------------
(***************************************************************************)
(* That wait is honest (WaitHonest), for any number of processes.  The owner *)
(* leaves when waitpid finds no child, which says nothing of grandchildren;  *)
(* what makes it enough is the shape of the family: a living process always  *)
(* has a living parent, or the owner, and a parent is older than its child.  *)
(* The oldest living process is then a child of the owner.                   *)
(***************************************************************************)
EXTENDS ProcessFamily, WellFoundedInduction, TLAPS

-----------------------------------------------------------------------------
(* The inductive invariant                                                 *)

Walk == [sig : Signal \cup {Nothing}, look : SUBSET (Process \cup {Owner}), found : SUBSET Process]

\* The types, without the shape of the family.
Types ==
    /\ life \in [Process -> {"unborn", "alive", "zombie", "gone"}]
    /\ parent \in [Process -> Process \cup {Owner}]
    /\ fate \in {Nothing, "ended", "killed"}
    /\ status \in {Nothing, "ended", "killed"}
    /\ step \in {"idle", "new", "bound", "spawned", "failed", "reap", "receive", "walk",
                 "signal", "closing", "exited"}
    /\ walk \in Walk
    /\ mailbox \in Seq(Signal)
    /\ sent \in 0..MaxSent
    /\ start \in {"idle", "polling", "aborting", "collecting", "started", "raised"}
    /\ ready \in {"none", "error", "pid"}
    /\ result \in {Nothing, "127", "ended", "killed"}

\* A parent is older than its child.
Elders == \A p \in Process : parent[p] < p

\* A living process has a living parent, or the owner.
Rooted == \A p \in Alive : parent[p] = Owner \/ life[parent[p]] = "alive"

\* Before the owner spawns the command there is no process; once it is leaving
\* none is alive.
Unspawned ==
    /\ step \in {"idle", "new", "bound", "failed"} => \A p \in Process : life[p] = "unborn"
    /\ step \in {"closing", "exited"} => Alive = {}

\* The leader: born when spawned, its fate is known when it has died, and its
\* status is reaped with it.
LeaderKnown ==
    /\ step \in {"spawned", "reap", "receive", "walk", "signal", "closing"} =>
          life[Leader] # "unborn"
    /\ life[Leader] \in {"unborn", "alive"} <=> fate = Nothing
    /\ status = IF life[Leader] = "gone" THEN fate ELSE Nothing

\* A receipt means that the leader was spawned, and is reaped once the owner
\* leaves.
ReceiptHonest ==
    ready = "pid" =>
        /\ step \in {"reap", "receive", "walk", "signal", "closing", "exited"}
        /\ step \in {"closing", "exited"} => life[Leader] = "gone"

\* What the controller knows of the owner.
ControllerKnows ==
    /\ start = "idle" => step = "idle"
    /\ seen => step = "exited"
    /\ start = "started" => ready = "pid"
    /\ start = "raised" /\ ~abandoned => step \in {"idle", "exited"}
    /\ result # Nothing => start = "started" /\ seen /\ result = fate

FamilyInv ==
    /\ Types
    /\ Elders
    /\ Rooted
    /\ Unspawned
    /\ LeaderKnown
    /\ ReceiptHonest
    /\ ControllerKnows

-----------------------------------------------------------------------------
(* The oldest living process                                               *)

LEMMA Numbers == Process \subseteq Nat /\ Leader \in Process /\ Owner = 0 /\ Leader = 1
                 /\ Owner \notin Process
BY FamilyAssumption DEF Process, Leader, Owner

\* waitpid finds no child of the owner: no process of the command is alive,
\* however deep the family was.
LEMMA DrainedIsAll ==
    ASSUME Types, Elders, Rooted, Drained
    PROVE  Alive = {}
<1> SUFFICES ASSUME Alive # {} PROVE FALSE
  OBVIOUS
<1>1. Alive \subseteq Nat
  BY Numbers DEF Alive
<1>2. PICK p \in Alive : \A q \in Alive : ~(<<q, p>> \in OpToRel(<, Nat))
  BY <1>1, NatLessThanWellFounded, WFMin
<1>3. \A q \in Alive : ~(q < p)
  BY <1>1, <1>2 DEF OpToRel
<1>4. p \in Process /\ life[p] = "alive" /\ parent[p] < p
  BY DEF Alive, Elders
<1>5. parent[p] # Owner
  BY <1>4 DEF Drained, Children
<1>6. parent[p] \in Alive
  BY <1>4, <1>5 DEF Types, Rooted, Alive
<1> QED
  BY <1>3, <1>4, <1>6

-----------------------------------------------------------------------------
(* Steps                                                                   *)

LEMMA FamilyInitial == Init => FamilyInv
<1> SUFFICES ASSUME Init PROVE FamilyInv
  OBVIOUS
<1>1. Types
  BY FamilyAssumption, Numbers DEF Init, Types, Walk, NoWalk, Nothing, Process, Owner
<1>2. Elders
  BY Numbers DEF Init, Elders, Process
<1>3. Rooted /\ Unspawned
  BY DEF Init, Rooted, Unspawned, Alive
<1>4. LeaderKnown /\ ReceiptHonest /\ ControllerKnows
  BY Numbers DEF Init, LeaderKnown, ReceiptHonest, ControllerKnows, Nothing
<1> QED
  BY <1>1, <1>2, <1>3, <1>4 DEF FamilyInv

\* A living process dies: whoever it leaves behind becomes the owner's, so the
\* living stay rooted and parents stay older.
LEMMA DeathKeepsShape ==
    ASSUME Types, Elders, Rooted, NEW p \in Alive, NEW f \in {"ended", "killed"}, Dies(p, f)
    PROVE  /\ life' \in [Process -> {"unborn", "alive", "zombie", "gone"}]
           /\ parent' \in [Process -> Process \cup {Owner}]
           /\ fate' \in {Nothing, "ended", "killed"}
           /\ Elders' /\ Rooted' /\ Alive' \subseteq Alive
<1>1. p \in Process /\ life[p] = "alive"
  BY DEF Alive
<1>2. /\ life' \in [Process -> {"unborn", "alive", "zombie", "gone"}]
      /\ parent' \in [Process -> Process \cup {Owner}]
      /\ fate' \in {Nothing, "ended", "killed"}
  BY <1>1 DEF Types, Dies
<1>3. Elders'
  BY Numbers DEF Types, Dies, Elders
<1>4. \A q \in Process : life'[q] = IF q = p THEN "zombie" ELSE life[q]
  BY <1>1 DEF Types, Dies
<1>5. Alive' \subseteq Alive
  BY <1>4 DEF Alive
<1>6. Rooted'
  <2> SUFFICES ASSUME NEW q \in Alive' PROVE parent'[q] = Owner \/ life'[parent'[q]] = "alive"
    BY DEF Rooted
  <2>1. q \in Alive /\ q \in Process
    BY <1>5 DEF Alive
  <2>2. CASE parent[q] = p
    BY <2>1, <2>2 DEF Dies
  <2>3. CASE parent[q] # p
    BY <2>1, <2>3, <1>4 DEF Dies, Rooted, Types
  <2> QED
    BY <2>2, <2>3
<1> QED
  BY <1>2, <1>3, <1>5, <1>6

\* Processes fork, end and reap their children.
LEMMA ProcessesStep == FamilyInv /\ Processes => FamilyInv'
<1> SUFFICES ASSUME FamilyInv, NEW p \in Process, Fork(p) \/ ProcessEnds(p) \/ ChildReaped(p)
             PROVE  FamilyInv'
  BY DEF Processes
<1> USE DEF FamilyInv
<1>1. CASE Fork(p)
  <2>1. PICK q \in Process : /\ life[q] = "unborn"
                             /\ p < q
                             /\ life' = [life EXCEPT ![q] = "alive"]
                             /\ parent' = [parent EXCEPT ![q] = p]
    BY <1>1 DEF Fork
  <2>2. life[p] = "alive" /\ UNCHANGED <<fate, owner, mailbox, sent, executor>>
    BY <1>1 DEF Fork
  <2>3. q # Leader /\ p \in Alive
    BY <2>1, <2>2, Numbers DEF Alive
  <2>4. Types'
    BY <2>1, <2>2 DEF Types, owner, executor
  <2>5. Elders'
    BY <2>1 DEF Types, Elders
  <2>6. Rooted'
    BY <2>1, <2>2, Numbers DEF Types, Rooted, Alive
  <2>7. Unspawned'
    BY <2>1, <2>2, <2>3 DEF Types, Unspawned, owner
  <2>8. LeaderKnown' /\ ReceiptHonest' /\ ControllerKnows'
    BY <2>1, <2>2, <2>3, Numbers
    DEF Types, LeaderKnown, ReceiptHonest, ControllerKnows, owner, executor
  <2> QED
    BY <2>4, <2>5, <2>6, <2>7, <2>8
<1>2. CASE ProcessEnds(p)
  <2>1. p \in Alive /\ Dies(p, "ended") /\ UNCHANGED <<owner, mailbox, sent, executor>>
    BY <1>2 DEF ProcessEnds, Alive
  <2>2. /\ life' \in [Process -> {"unborn", "alive", "zombie", "gone"}]
        /\ parent' \in [Process -> Process \cup {Owner}]
        /\ fate' \in {Nothing, "ended", "killed"}
        /\ Elders' /\ Rooted' /\ Alive' \subseteq Alive
    BY <2>1, DeathKeepsShape
  <2>3. Types'
    BY <2>1, <2>2 DEF Types, owner, executor
  <2>4. Unspawned'
    BY <2>1, <2>2 DEF Types, Unspawned, owner, Alive
  <2>5. LeaderKnown' /\ ReceiptHonest' /\ ControllerKnows'
    BY <2>1, Numbers
    DEF Types, Dies, Unspawned, LeaderKnown, ReceiptHonest, ControllerKnows, owner, executor, Alive, Nothing
  <2> QED
    BY <2>2, <2>3, <2>4, <2>5
<1>3. CASE ChildReaped(p)
  <2>1. /\ life[p] = "zombie" /\ parent[p] # Owner
        /\ life' = [life EXCEPT ![p] = "gone"]
        /\ UNCHANGED <<parent, fate, owner, mailbox, sent, executor>>
    BY <1>3 DEF ChildReaped
  <2>2. p # Leader
    BY <2>1, Numbers DEF Elders, Types
  <2>3. Types' /\ Elders'
    BY <2>1 DEF Types, Elders, owner, executor
  <2>4. Rooted' /\ Unspawned'
    BY <2>1 DEF Types, Rooted, Unspawned, Alive, owner
  <2>5. LeaderKnown' /\ ReceiptHonest' /\ ControllerKnows'
    BY <2>1, <2>2, Numbers
    DEF Types, LeaderKnown, ReceiptHonest, ControllerKnows, owner, executor
  <2> QED
    BY <2>3, <2>4, <2>5
<1> QED
  BY <1>1, <1>2, <1>3

\* What the controller does leaves the family and the owner alone, except that
\* it starts the owner.
LEMMA ExecutorStep ==
    ASSUME FamilyInv,
           \/ Executor \/ StartTimeout \/ TerminalInput \/ StopCommand
           \/ \E sig \in Signal : Interrupt(sig)
    PROVE  FamilyInv'
<1> USE DEF FamilyInv
<1>1. CASE ExitSeen
  BY <1>1, Numbers
  DEF ExitSeen, Types, Elders, Rooted, Unspawned, LeaderKnown, ReceiptHonest, ControllerKnows,
      Alive, family, owner, Nothing
<1>2. CASE StartExec
  BY <1>2, Numbers
  DEF StartExec, Types, Elders, Rooted, Unspawned, LeaderKnown, ReceiptHonest, ControllerKnows,
      Alive, family, Nothing
<1>3. CASE StartPoll \/ StartTimeout \/ StartRaises
  BY <1>3, Numbers
  DEF StartPoll, StartTimeout, StartRaises, Types, Elders, Rooted, Unspawned, LeaderKnown,
      ReceiptHonest, ControllerKnows, Alive, family, owner, Nothing
<1>4. CASE StartAborts
  <2>1. mailbox' \in Seq(Signal)
    BY <1>4 DEF StartAborts, AbortSignal, Deliver, Types, Signal
  <2> QED
    BY <1>4, <2>1, Numbers
    DEF StartAborts, Types, Elders, Rooted, Unspawned, LeaderKnown,
        ReceiptHonest, ControllerKnows, Alive, family, owner, Nothing
<1>5. CASE WaitReturns
  BY <1>5, Numbers
  DEF WaitReturns, Types, Elders, Rooted, Unspawned, LeaderKnown, ReceiptHonest,
      ControllerKnows, Alive, family, owner, Nothing
<1>6. ASSUME NEW sig \in Signal, Interrupt(sig) PROVE FamilyInv'
  <2>1. mailbox' \in Seq(Signal) /\ sent' \in 0..MaxSent
    BY <1>6, FamilyAssumption DEF Interrupt, Deliver, Types
  <2> QED
    BY <1>6, <2>1, Numbers
    DEF Interrupt, Types, Elders, Rooted, Unspawned, LeaderKnown, ReceiptHonest,
        ControllerKnows, Alive, family, owner, executor, Nothing
<1> QED
  BY <1>1, <1>2, <1>3, <1>4, <1>5, <1>6 DEF Executor, TerminalInput, StopCommand, Signal

\* The owner reaps every zombie child; without one it leaves when it has no
\* child at all.
LEMMA OwnerReapsStep == FamilyInv /\ OwnerReaps => FamilyInv'
<1> SUFFICES ASSUME FamilyInv, OwnerReaps PROVE FamilyInv'
  OBVIOUS
<1> USE DEF FamilyInv
<1> DEFINE zombies == {p \in Children(Owner) : life[p] = "zombie"}
<1>1. step = "reap" /\ UNCHANGED <<parent, fate, force, walk, ready, mailbox, sent, executor>>
  BY DEF OwnerReaps
<1>2. CASE zombies # {}
  <2>1. /\ life' = [p \in Process |-> IF p \in zombies THEN "gone" ELSE life[p]]
        /\ status' = ReapedStatus(zombies)
        /\ UNCHANGED step
    BY <1>2 DEF OwnerReaps
  <2>2. \A p \in Process : life'[p] = life[p] \/ (life[p] = "zombie" /\ life'[p] = "gone")
    BY <2>1
  <2>3. Types' /\ Elders'
    BY <1>1, <2>1 DEF Types, Elders, ReapedStatus, executor
  <2>4. Rooted' /\ Unspawned'
    BY <1>1, <2>1, <2>2 DEF Types, Rooted, Unspawned, Alive
  <2>5. Leader \in zombies <=> life[Leader] = "zombie"
    BY Numbers DEF Children, Types, Elders
  <2>6. life'[Leader] = IF life[Leader] = "zombie" THEN "gone" ELSE life[Leader]
    BY <2>1, <2>5, Numbers
  <2>7. status' = IF life[Leader] = "zombie" THEN fate ELSE status
    BY <2>1, <2>5 DEF ReapedStatus
  <2> HIDE DEF zombies
  <2>8. LeaderKnown' /\ ReceiptHonest' /\ ControllerKnows'
    BY <1>1, <2>1, <2>6, <2>7, Numbers
    DEF Types, LeaderKnown, ReceiptHonest, ControllerKnows, executor, Nothing
  <2> QED
    BY <2>3, <2>4, <2>8
<1>3. CASE zombies = {}
  <2>1. step' = (IF Drained THEN "closing" ELSE "receive") /\ UNCHANGED <<life, status>>
    BY <1>3 DEF OwnerReaps
  <2>2. Types' /\ Elders' /\ Rooted'
    BY <1>1, <2>1 DEF Types, Elders, Rooted, Alive, executor
  <2>3. Unspawned'
    BY <1>1, <2>1, DrainedIsAll DEF Unspawned, Alive
  <2>4. Drained => life[Leader] = "gone"
    BY <1>1, Numbers DEF Drained, Children, LeaderKnown, Types, Elders
  <2>5. LeaderKnown' /\ ReceiptHonest' /\ ControllerKnows'
    BY <1>1, <2>1, <2>4, Numbers
    DEF Types, LeaderKnown, ReceiptHonest, ControllerKnows, executor, Nothing
  <2> QED
    BY <2>2, <2>3, <2>5
<1> QED
  BY <1>2, <1>3

\* The owner signals one process it has found, alive or not by now.
LEMMA OwnerSignalsStep == FamilyInv /\ OwnerSignals => FamilyInv'
<1> SUFFICES ASSUME FamilyInv, OwnerSignals PROVE FamilyInv'
  OBVIOUS
<1> USE DEF FamilyInv
<1>1. step = "signal" /\ UNCHANGED <<force, status, ready, mailbox, sent, executor>>
  BY DEF OwnerSignals
<1>2. CASE UNCHANGED family
  <2>1. walk' \in Walk /\ step' \in {"signal", "reap"}
    BY <1>1 DEF OwnerSignals, Types, Walk, NoWalk, Nothing
  <2> QED
    BY <1>1, <1>2, <2>1, Numbers
    DEF Types, Elders, Rooted, Unspawned, LeaderKnown, ReceiptHonest, ControllerKnows, Alive,
        family, executor
<1>3. CASE ~UNCHANGED family
  <2>1. PICK p \in walk.found : /\ walk' = [walk EXCEPT !.found = @ \ {p}]
                                /\ UNCHANGED step
                                /\ life[p] = "alive" /\ Dies(p, "killed")
    BY <1>3 DEF OwnerSignals
  <2>2. walk' \in Walk /\ p \in Alive /\ p \in Process
    BY <2>1 DEF Types, Walk, Alive
  <2>3. /\ life' \in [Process -> {"unborn", "alive", "zombie", "gone"}]
        /\ parent' \in [Process -> Process \cup {Owner}]
        /\ fate' \in {Nothing, "ended", "killed"}
        /\ Elders' /\ Rooted' /\ Alive' \subseteq Alive
    BY <2>1, <2>2, DeathKeepsShape
  <2>4. Types' /\ Unspawned'
    BY <1>1, <2>1, <2>2, <2>3 DEF Types, Unspawned, executor
  <2>5. LeaderKnown' /\ ReceiptHonest' /\ ControllerKnows'
    BY <1>1, <2>1, <2>2, Numbers
    DEF Types, Dies, LeaderKnown, ReceiptHonest, ControllerKnows, executor, Nothing
  <2> QED
    BY <2>3, <2>4, <2>5
<1> QED
  BY <1>2, <1>3

LEMMA OwnerStep == FamilyInv /\ OwnerWorks => FamilyInv'
<1> SUFFICES ASSUME FamilyInv, OwnerWorks PROVE FamilyInv'
  OBVIOUS
<1> USE DEF FamilyInv
<1>1. CASE OwnerBinds
  BY <1>1, Numbers
  DEF OwnerBinds, Types, Elders, Rooted, Unspawned, LeaderKnown, ReceiptHonest, ControllerKnows,
      Alive, family, executor, Nothing
<1>2. CASE OwnerSpawns
  <2>1. CASE step' = "failed"
    BY <1>2, <2>1, Numbers
    DEF OwnerSpawns, Types, Elders, Rooted, Unspawned, LeaderKnown, ReceiptHonest,
        ControllerKnows, Alive, executor, Nothing
  <2>2. CASE step' = "spawned"
    <3>1. /\ step = "bound" /\ life' = [life EXCEPT ![Leader] = "alive"]
          /\ UNCHANGED <<ready, parent, fate, force, walk, status, mailbox, sent, executor>>
      BY <1>2, <2>2 DEF OwnerSpawns
    <3>2. parent[Leader] = Owner /\ life[Leader] = "unborn"
      <4>1. parent[Leader] < 1 /\ parent[Leader] \in Nat
        BY Numbers DEF Elders, Types
      <4>2. parent[Leader] = Owner
        BY <4>1 DEF Owner
      <4>3. life[Leader] = "unborn"
        BY <3>1, Numbers DEF Unspawned
      <4> QED
        BY <4>2, <4>3
    <3>3. Types' /\ Elders' /\ Rooted' /\ Unspawned'
      BY <2>2, <3>1, <3>2, Numbers DEF Types, Elders, Rooted, Unspawned, Alive, executor
    <3>4. LeaderKnown' /\ ReceiptHonest' /\ ControllerKnows'
      BY <2>2, <3>1, <3>2, Numbers
      DEF Types, LeaderKnown, ReceiptHonest, ControllerKnows, executor
    <3> QED
      BY <3>3, <3>4
  <2> QED
    BY <1>2, <2>1, <2>2 DEF OwnerSpawns
<1>3. CASE OwnerReady
  BY <1>3, Numbers
  DEF OwnerReady, Types, Elders, Rooted, Unspawned, LeaderKnown, ReceiptHonest,
      ControllerKnows, Alive, family, executor, Nothing
<1>4. CASE OwnerReceives
  <2>1. mailbox' \in Seq(Signal) /\ walk' \in Walk /\ step' \in {"reap", "walk"}
    <3> DEFINE sig == IF mailbox = <<>> THEN Nothing ELSE Head(mailbox)
    <3>1. sig \in Signal \cup {Nothing}
      BY DEF Types
    <3>2. mailbox' \in Seq(Signal)
      BY <1>4 DEF OwnerReceives, Types
    <3>3. walk' = IF Forced(sig) THEN [sig |-> "sigkill", look |-> {Owner}, found |-> {}]
                  ELSE IF sig # Nothing THEN [sig |-> sig, look |-> {Owner}, found |-> {}]
                  ELSE NoWalk
      BY <1>4 DEF OwnerReceives
    <3> HIDE DEF sig
    <3>4. walk' \in Walk
      BY <3>1, <3>3 DEF Walk, NoWalk, Signal
    <3> QED
      BY <1>4, <3>2, <3>4 DEF OwnerReceives
  <2> QED
    BY <1>4, <2>1, Numbers
    DEF OwnerReceives, Types, Elders, Rooted, Unspawned, LeaderKnown, ReceiptHonest,
        ControllerKnows, Alive, family, executor
<1>5. CASE OwnerLooks
  <2>1. walk' \in Walk /\ step' \in {"signal", "walk"}
    <3>1. PICK q \in walk.look, children \in SUBSET Process :
            walk' = [walk EXCEPT !.look = (@ \ {q}) \cup (children \ walk.found),
                                 !.found = @ \cup children]
      BY <1>5 DEF OwnerLooks, Children
    <3>2. walk' \in Walk
      BY <3>1 DEF Types, Walk
    <3> QED
      BY <1>5, <3>2 DEF OwnerLooks
  <2> QED
    BY <1>5, <2>1, Numbers
    DEF OwnerLooks, Types, Elders, Rooted, Unspawned, LeaderKnown, ReceiptHonest,
        ControllerKnows, Alive, family, executor
<1>6. CASE OwnerExits
  BY <1>6, Numbers
  DEF OwnerExits, Types, Elders, Rooted, Unspawned, LeaderKnown, ReceiptHonest,
      ControllerKnows, Alive, family, executor, Nothing
<1> QED
  BY <1>1, <1>2, <1>3, <1>4, <1>5, <1>6, OwnerReapsStep, OwnerSignalsStep DEF OwnerWorks

LEMMA FamilyStep == FamilyInv /\ [Next]_vars => FamilyInv'
<1> SUFFICES ASSUME FamilyInv, [Next]_vars PROVE FamilyInv'
  OBVIOUS
<1>1. CASE UNCHANGED vars
  BY <1>1
  DEF FamilyInv, Types, Elders, Rooted, Unspawned, LeaderKnown, ReceiptHonest, ControllerKnows,
      Alive, vars, family, owner, executor
<1> QED
  BY <1>1, ProcessesStep, OwnerStep, ExecutorStep DEF Next

-----------------------------------------------------------------------------
(* Theorems                                                                *)

\* The types of the model hold, and the living are rooted in the owner: what a
\* process leaves behind is adopted at once (process_owner.py: the subreaper).
THEOREM FamilyTyped == Spec => []TypeOK
<1>1. FamilyInv => TypeOK
  BY DEF FamilyInv, Types, Rooted, TypeOK, Walk
<1> QED
  BY <1>1, FamilyInitial, FamilyStep, PTL DEF Spec

\* For any number of processes, however they fork and die while the owner walks
\* /proc: when wait has returned or start has raised the whole family is gone,
\* and the status is that of the leader (SubprocessExecutor, process_owner.py).
THEOREM WaitIsHonest == Spec => []WaitHonest
<1>1. FamilyInv => WaitHonest
  <2> SUFFICES ASSUME FamilyInv PROVE FamilyGone /\ LeadersStatus
    BY DEF WaitHonest
  <2>1. LeadersStatus
    BY DEF FamilyInv, ControllerKnows, LeadersStatus
  <2>2. ASSUME start = "raised" \/ result # Nothing, ~abandoned
        PROVE  step \in {"idle", "exited"} /\ Alive = {}
    <3>1. step \in {"idle", "exited"}
      BY <2>2 DEF FamilyInv, ControllerKnows
    <3>2. Alive = {}
      BY <3>1 DEF FamilyInv, Unspawned, Alive
    <3> QED
      BY <3>1, <3>2
  <2> QED
    BY <2>1, <2>2 DEF FamilyGone
<1> QED
  BY <1>1, FamilyInitial, FamilyStep, PTL DEF Spec
=============================================================================
