----------------------------- MODULE TasksProofs -----------------------------
(* Proofs about the life of processes of Tasks, for any number of processes *)
(* and of children.                                                         *)
EXTENDS Tasks, FiniteSetTheorems, WellFoundedInduction, TLAPS

-----------------------------------------------------------------------------
(* The inductive invariant: the family tree, and what holds in the middle   *)
(* of the system calls.                                                     *)

\* A process that is being made or destroyed is in its parent's hands: it is not
\* running yet, or dead and in no slot.
MakingAt(p) ==
    pc[p] = "fill" => arg[p] \in Pids /\ type[arg[p]] = "new"
DestroyingAt(p) ==
    pc[p] = "destroy" =>
        arg[p] \in Pids /\ type[arg[p]] = "zombie" /\ parent[arg[p]] = p /\ Slots(p, arg[p]) = {}
InHand == \A p \in Pids : MakingAt(p) /\ DestroyingAt(p)

\* One process is made at a time, and what is not running is nowhere.
OneMaker == \A p \in Pids : pc[p] \in {"alloc", "fill"} => creat_task = p
NotStarted == \A p \in Pids : type[p] \in {"none", "new"} => pc[p] = "none"

\* There is a number left for everybody who is about to make a process.
Creating == {q \in Pids : pc[q] \in {"creat", "alloc"}}
Unused == {n \in Pids : type[n] = "none"}
NumbersLeft == Cardinality(Creating) <= Cardinality(Unused)

TaskInv ==
    /\ FamilyTree /\ InHand /\ OneMaker /\ NotStarted /\ NumbersLeft
    /\ type[Kernel] = "runnable"

-----------------------------------------------------------------------------
(* Numbers and sets.                                                        *)

\* A set of naturals that is not empty has a least element.
LEMMA MinFacts ==
    ASSUME NEW S \in SUBSET Nat, S # {}
    PROVE  Min(S) \in S
<1>1. PICK x \in S : \A y \in S : ~ (<<y, x>> \in OpToRel(<, Nat))
  BY NatLessThanWellFounded, WFMin, Zenon
<1>2. \A y \in S : x <= y
  <2> TAKE y \in S
  <2>1. ~ (y < x)
    BY <1>1 DEF OpToRel
  <2> QED BY <2>1
<1> QED BY <1>2 DEF Min

LEMMA Constants ==
    /\ Pids \subseteq Nat /\ ChildSlots \subseteq Nat
    /\ Kernel \in Pids /\ None \notin Pids
BY TasksAssumption DEF Pids, ChildSlots, Kernel

LEMMA PidSets == \A S \in SUBSET Pids : IsFiniteSet(S) /\ Cardinality(S) \in Nat
<1>1. MaxPid \in Int /\ 1 \in Int
  BY TasksAssumption
<1>2. IsFiniteSet(Pids)
  BY <1>1, FS_Interval DEF Pids
<1> QED BY <1>2, FS_Subset, FS_CardinalityType

\* Somebody who is about to make a process finds a number for it.
LEMMA NextPid ==
    ASSUME TaskInv, NEW p \in Pids, pc[p] = "alloc"
    PROVE  get_next_pid \in Unused
<1>1. Creating \in SUBSET Pids /\ Unused \in SUBSET Pids /\ p \in Creating
  BY DEF Creating, Unused
<1>2. Cardinality(Creating) # 0
  BY <1>1, PidSets, FS_EmptySet
<1>3. Cardinality(Unused) # 0
  BY <1>1, <1>2, PidSets DEF TaskInv, NumbersLeft
<1>4. Unused # {}
  BY <1>3, FS_EmptySet
<1> QED BY <1>1, <1>4, MinFacts, Constants DEF get_next_pid, Unused

-----------------------------------------------------------------------------
(* Every step preserves the invariant.                                      *)

LEMMA InitInv == Init => TaskInv
<1> SUFFICES ASSUME Init PROVE TaskInv
  OBVIOUS
<1> USE Constants DEF Init
<1>1. TypeOK
  BY DEF TypeOK, PCs
<1>2. NeverChildMissing /\ SlotsHold /\ InHand /\ OneMaker /\ NotStarted /\ Listed
  BY DEF NeverChildMissing, ChildHasExited, SlotsHold, InHand, MakingAt, DestroyingAt, OneMaker, NotStarted, Listed
<1>3. NobodyForgotten
  BY DEF NobodyForgotten, Exists
<1>4. NumbersLeft
  <2>1. Creating = {} /\ Unused \in SUBSET Pids
    BY DEF Creating, Unused
  <2>2. Cardinality(Creating) = 0
    BY <2>1, FS_EmptySet
  <2> QED BY <2>1, <2>2, PidSets DEF NumbersLeft
<1> QED BY <1>1, <1>2, <1>3, <1>4 DEF TaskInv, FamilyTree

\* p moves from one place of a system call to another; the processes stay as they
\* are.
LEMMA MoveStep ==
    ASSUME TaskInv, NEW p \in Pids, NEW x \in PCs,
           type[p] = "runnable", pc[p] \notin {"fill", "destroy"}, x \notin {"fill", "destroy"},
           pc' = [pc EXCEPT ![p] = x],
           UNCHANGED <<env, type, parent, children, procs, arg>>,
           wait_cond' \in [Pids -> {"null", "free", "locked"}],
           creat_task' \in Pids \cup {None}, cpu' \in Pids \cup {None},
           halted' \in {"no", "panic", "null"},
           x = "woken" => nomem \/ Zombies(p) # {},
           \A q \in Pids : pc'[q] \in {"alloc", "fill"} => creat_task' = q,
           x \in {"creat", "alloc"} => pc[p] = "creat" \/ PidLeft
    PROVE  TaskInv'
<1> USE DEF TaskInv, FamilyTree
<1>1. TypeOK'
  BY DEF TypeOK, env
<1>2. /\ \A q \in Pids : q # p => pc'[q] = pc[q]
      /\ pc'[p] = x
      /\ \A q, c : Slots(q, c)' = Slots(q, c)
      /\ \A q \in Pids : Zombies(q)' = Zombies(q)
  BY DEF TypeOK, Slots, Zombies
<1>3. NeverChildMissing'
  BY <1>2 DEF NeverChildMissing, ChildHasExited, env
<1>4. Listed' /\ SlotsHold'
  BY DEF Listed, SlotsHold, Exists
<1>5. NobodyForgotten'
  BY <1>2 DEF NobodyForgotten, Kept, Exists
<1>6. InHand'
  BY <1>2 DEF InHand, MakingAt, DestroyingAt
<1>7. OneMaker' /\ NotStarted'
  BY <1>2 DEF OneMaker, NotStarted
<1>8. NumbersLeft'
  <2>1. Unused' = Unused /\ Creating \in SUBSET Pids /\ Creating' \in SUBSET Pids /\ Unused \in SUBSET Pids
    BY DEF Unused, Creating
  <2>2. CASE Creating' \subseteq Creating
    <3>1. Cardinality(Creating') <= Cardinality(Creating)
      BY <2>1, <2>2, PidSets, FS_Subset
    <3> QED BY <2>1, <3>1, PidSets DEF NumbersLeft
  <2>3. CASE ~ (Creating' \subseteq Creating)
    <3>1. PidLeft /\ Creating' = Creating \cup {p} /\ p \notin Creating
      BY <1>2, <2>3 DEF Creating
    <3>2. Cardinality(Creating') = Cardinality(Creating) + 1
      BY <2>1, <3>1, PidSets, FS_AddElement
    <3>3. Cardinality(Creating) < Cardinality(Unused)
      BY <3>1 DEF PidLeft, Creating, Unused
    <3> QED BY <2>1, <3>2, <3>3, PidSets DEF NumbersLeft
  <2> QED BY <2>2, <2>3
<1> QED BY <1>1, <1>3, <1>4, <1>5, <1>6, <1>7, <1>8

\* What every step of p relies on.
LEMMA StepFacts ==
    ASSUME TaskInv, NEW p \in Pids, type[p] = "runnable"
    PROVE  /\ TypeOK /\ creat_task \in Pids \cup {None} /\ cpu \in Pids \cup {None}
           /\ halted \in {"no", "panic", "null"}
           /\ wait_cond \in [Pids -> {"null", "free", "locked"}] /\ pc \in [Pids -> PCs]
           /\ pc[p] \notin {"alloc", "fill"} =>
                \A q \in Pids : \A x \in PCs \ {"alloc", "fill"} :
                    [pc EXCEPT ![p] = x][q] \in {"alloc", "fill"} => creat_task = q
BY DEF TaskInv, FamilyTree, TypeOK, OneMaker

\* The call of fork or add_task, until the lock is taken.
LEMMA CreateStep ==
    ASSUME TaskInv, NEW p \in Pids, Create(p) \/ CreateSpin(p) \/ CreateLock(p)
    PROVE  TaskInv'
<1> USE DEF Running, Goto, Leave, ToAlloc
<1>0. type[p] = "runnable"
  BY DEF Create, CreateSpin, CreateLock
<1>1. CASE Create(p)
  <2>1. "creat" \in PCs \ {"alloc", "fill"} /\ pc[p] \notin {"alloc", "fill"}
    BY <1>1 DEF Create, PCs
  <2>2. \A q \in Pids : pc'[q] \in {"alloc", "fill"} => creat_task' = q
    BY <1>0, <1>1, <2>1, StepFacts DEF Create
  <2> QED BY <1>0, <1>1, <2>1, <2>2, StepFacts, MoveStep, Constants DEF Create
<1>2. CASE CreateSpin(p)
  <2>1. "creat" \in PCs \ {"alloc", "fill"} /\ pc[p] \notin {"alloc", "fill"}
    BY <1>2 DEF CreateSpin, PCs
  <2>2. pc' = [pc EXCEPT ![p] = "creat"]
    BY <1>0, <1>2, StepFacts DEF CreateSpin
  <2>3. \A q \in Pids : pc'[q] \in {"alloc", "fill"} => creat_task' = q
    BY <1>0, <1>2, <2>1, <2>2, StepFacts DEF CreateSpin
  <2> QED BY <1>0, <1>2, <2>1, <2>2, <2>3, StepFacts, MoveStep, Constants DEF CreateSpin
<1>3. CASE CreateLock(p)
  <2>1. "alloc" \in PCs
    BY DEF PCs
  <2>2. \A q \in Pids : pc[q] \notin {"alloc", "fill"}
    BY <1>3, Constants DEF CreateLock, TaskInv, OneMaker
  <2>3. \A q \in Pids : pc'[q] \in {"alloc", "fill"} => creat_task' = q
    BY <1>0, <1>3, <2>2, StepFacts DEF CreateLock
  <2>4. cpu' \in Pids \cup {None}
    BY <1>3 DEF CreateLock
  <2> QED BY <1>0, <1>3, <2>1, <2>3, <2>4, StepFacts, MoveStep, Constants DEF CreateLock
<1> QED BY <1>1, <1>2, <1>3

\* The ways out of fork and add_task before there is a child.
LEMMA CreateFailsStep ==
    ASSUME TaskInv, NEW p \in Pids, NoProcess(p) \/ TooManyChildren(p)
    PROVE  TaskInv'
<1> USE DEF Running, Goto, Leave
<1>0. type[p] = "runnable" /\ pc[p] = "alloc"
  BY DEF NoProcess, TooManyChildren
<1>1. \A q \in Pids : pc[q] \in {"alloc", "fill"} => q = p
  BY <1>0 DEF TaskInv, OneMaker
<1>2. "user" \in PCs /\ "panic" \in PCs
  BY DEF PCs
<1>3. CASE NoProcess(p)
  <2>1. \A q \in Pids : pc'[q] \in {"alloc", "fill"} => creat_task' = q
    BY <1>0, <1>1, <1>3, StepFacts DEF NoProcess
  <2> QED BY <1>0, <1>2, <1>3, <2>1, StepFacts, MoveStep DEF NoProcess
<1>4. CASE TooManyChildren(p)
  <2>1. \A q \in Pids : pc'[q] \in {"alloc", "fill"} => creat_task' = q
    BY <1>0, <1>1, <1>4, StepFacts DEF TooManyChildren
  <2> QED BY <1>0, <1>2, <1>4, <2>1, StepFacts, MoveStep DEF TooManyChildren
<1> QED BY <1>3, <1>4

\* wait, up to the destruction of a child; execve; the kernel sees that init is dead.
LEMMA WaitStep ==
    ASSUME TaskInv, NEW p \in Pids,
           \/ Exec(p) \/ Wait(p) \/ WaitCond(p) \/ WaitCondFails(p) \/ WaitBlock(p)
           \/ WaitNoMemory(p) \/ WaitSpin(p) \/ InitExited(p)
    PROVE  TaskInv'
<1> USE DEF Running, Goto, Leave, ToAlloc
<1>0. type[p] = "runnable" /\ pc[p] \in PCs
  BY StepFacts DEF Exec, Wait, WaitCond, WaitCondFails, WaitBlock, WaitNoMemory, WaitSpin, InitExited, TaskInv, FamilyTree, TypeOK
<1>1. pc[p] \notin {"alloc", "fill", "destroy", "creat"}
  BY DEF Exec, Wait, WaitCond, WaitCondFails, WaitBlock, WaitNoMemory, WaitSpin, InitExited
<1>2. PICK x \in PCs : /\ pc' = [pc EXCEPT ![p] = x]
                       /\ x \notin {"alloc", "fill", "destroy", "creat"}
                       /\ x = "woken" => nomem \/ Zombies(p) # {}
  <2>1. CASE Exec(p) \/ WaitSpin(p)
    <3>1. pc' = [pc EXCEPT ![p] = pc[p]] /\ pc[p] # "woken"
      BY <1>0, <2>1, StepFacts DEF Exec, WaitSpin
    <3> QED BY <1>0, <1>1, <3>1
  <2>2. CASE Wait(p)
    BY <2>2 DEF Wait, PCs
  <2>3. CASE WaitCond(p) \/ WaitCondFails(p) \/ WaitBlock(p) \/ WaitNoMemory(p) \/ InitExited(p)
    BY <2>3 DEF WaitCond, WaitCondFails, WaitBlock, WaitNoMemory, InitExited, PCs
  <2> QED BY <2>1, <2>2, <2>3
<1>3. /\ UNCHANGED <<env, type, parent, children, procs, arg, creat_task>>
      /\ wait_cond' \in [Pids -> {"null", "free", "locked"}]
      /\ halted' \in {"no", "panic", "null"}
  BY <1>0, StepFacts DEF Exec, Wait, WaitCond, WaitCondFails, WaitBlock, WaitNoMemory, WaitSpin, InitExited
<1>4. cpu' \in Pids \cup {None}
  BY <1>0, StepFacts DEF Exec, Wait, WaitCond, WaitCondFails, WaitBlock, WaitNoMemory, WaitSpin, InitExited
<1>5. \A q \in Pids : pc'[q] \in {"alloc", "fill"} => creat_task' = q
  BY <1>0, <1>1, <1>2, <1>3, StepFacts
<1> QED BY <1>0, <1>1, <1>2, <1>3, <1>4, <1>5, StepFacts, MoveStep

\* A new process gets a free slot of its parent's and the next number.
LEMMA AddChildStep ==
    ASSUME TaskInv, NEW p \in Pids, AddChild(p)
    PROVE  TaskInv'
<1> PICK c, k : c = get_next_pid /\ k = Min(Slots(p, None))
  OBVIOUS
<1>1. /\ TypeOK /\ type[p] = "runnable" /\ pc[p] = "alloc"
      /\ type' = [type EXCEPT ![c] = "new"] /\ parent' = [parent EXCEPT ![c] = p]
      /\ children' = [children EXCEPT ![p][k] = c]
      /\ arg' = [arg EXCEPT ![p] = c] /\ pc' = [pc EXCEPT ![p] = "fill"]
      /\ UNCHANGED <<env, procs, wait_cond, creat_task, halted>>
  BY DEF AddChild, Running, proc_create, Goto, TaskInv, FamilyTree
<1>2. cpu' \in Pids \cup {None}
  BY <1>1 DEF AddChild, ToAlloc
<1>3. c \in Pids /\ type[c] = "none" /\ c \in Unused
  BY <1>1, NextPid DEF Unused
<1>4. k \in ChildSlots /\ children[p][k] = None
  <2>1. Slots(p, None) \in SUBSET Nat /\ Slots(p, None) # {}
    BY Constants DEF Slots, AddChild
  <2>2. k \in Slots(p, None)
    BY <2>1, MinFacts
  <2> QED BY <2>2 DEF Slots
<1>5. c # p /\ c # Kernel /\ pc[c] = "none" /\ None \notin Pids
  BY <1>1, <1>3, Constants DEF TaskInv, NotStarted
<1>6. /\ \A q \in Pids : \A i \in ChildSlots :
            children'[q][i] = IF q = p /\ i = k THEN c ELSE children[q][i]
      /\ \A q \in Pids : type'[q] = IF q = c THEN "new" ELSE type[q]
      /\ \A q \in Pids : parent'[q] = IF q = c THEN p ELSE parent[q]
      /\ \A q \in Pids : arg'[q] = IF q = p THEN c ELSE arg[q]
      /\ \A q \in Pids : pc'[q] = IF q = p THEN "fill" ELSE pc[q]
  BY <1>1, <1>3, <1>4 DEF TypeOK
<1>7. TypeOK'
  <2>1. children' \in [Pids -> [ChildSlots -> Pids \cup {None}]]
    BY <1>1, <1>3, <1>4 DEF TypeOK
  <2>2. type' \in [Pids -> {"none", "new", "runnable", "zombie", "freed"}]
    BY <1>1, <1>3 DEF TypeOK
  <2>3. pc' \in [Pids -> PCs]
    BY <1>1 DEF TypeOK, PCs
  <2> QED BY <1>1, <1>2, <1>3, <2>1, <2>2, <2>3 DEF TypeOK, env
<1>8. \A q \in Pids : \A i \in ChildSlots : children[q][i] # c
  BY <1>3, <1>5 DEF TaskInv, FamilyTree, SlotsHold, Exists
<1>9. SlotsHold'
  <2> SUFFICES ASSUME NEW q \in Pids, NEW d \in Pids, NEW i \in ChildSlots, children'[q][i] = d
               PROVE  /\ parent'[d] = q /\ Exists(d)'
                      /\ \A j \in ChildSlots : children'[q][j] = d => i = j
    BY DEF SlotsHold
  <2>1. CASE q = p /\ i = k
    BY <2>1, <1>3, <1>6, <1>8 DEF Exists
  <2>2. CASE ~ (q = p /\ i = k)
    <3>1. children[q][i] = d /\ d # c
      BY <2>2, <1>6, <1>8
    <3>2. parent[d] = q /\ Exists(d) /\ \A j \in ChildSlots : children[q][j] = d => i = j
      BY <3>1 DEF TaskInv, FamilyTree, SlotsHold
    <3> QED BY <3>1, <3>2, <1>6 DEF Exists
  <2> QED BY <2>1, <2>2
<1>10. NobodyForgotten'
  <2> SUFFICES ASSUME NEW d \in Pids \ {Kernel}, Exists(d)' PROVE Kept(d)'
    BY DEF NobodyForgotten
  <2>1. CASE d = c
    <3>1. k \in Slots(p, c)'
      BY <1>4, <1>6 DEF Slots
    <3> QED BY <2>1, <3>1, <1>3, <1>6 DEF Kept
  <2>2. CASE d # c
    <3>1. Kept(d) /\ parent'[d] = parent[d] /\ type'[d] = type[d] /\ parent[d] \in Pids
      BY <2>2, <1>6 DEF TaskInv, FamilyTree, NobodyForgotten, Exists, Kept
    <3>2. CASE Slots(parent[d], d) # {}
      <4>1. PICK i \in ChildSlots : children[parent[d]][i] = d
        BY <3>2 DEF Slots
      <4>2. children'[parent[d]][i] = d
        BY <4>1, <3>1, <1>4, <1>5, <1>6
      <4> QED BY <3>1, <4>2 DEF Kept, Slots
    <3>3. CASE arg[parent[d]] = d /\ pc[parent[d]] = "destroy" /\ type[d] = "zombie"
      BY <3>1, <3>3, <1>1, <1>6 DEF Kept
    <3> QED BY <3>1, <3>2, <3>3 DEF Kept
  <2> QED BY <2>1, <2>2
<1>11. NeverChildMissing'
  <2> SUFFICES ASSUME ~nomem', NEW q \in Pids, pc'[q] = "woken" PROVE Zombies(q)' # {}
    BY DEF NeverChildMissing, ChildHasExited
  <2>1. q # p /\ Zombies(q) # {}
    BY <1>1, <1>6 DEF env, TaskInv, FamilyTree, NeverChildMissing, ChildHasExited
  <2>2. PICK i \in ChildSlots : children[q][i] # None /\ type[children[q][i]] = "zombie"
    BY <2>1 DEF Zombies
  <2>3. children'[q][i] = children[q][i] /\ children[q][i] \in Pids \ {c}
    BY <2>1, <2>2, <1>1, <1>6, <1>8 DEF TypeOK
  <2> QED BY <2>2, <2>3, <1>6 DEF Zombies
<1>12. Listed'
  BY <1>1, <1>3, <1>6 DEF TaskInv, FamilyTree, Listed
<1>13. InHand'
  <2> SUFFICES ASSUME NEW q \in Pids PROVE MakingAt(q)' /\ DestroyingAt(q)'
    BY DEF InHand
  <2>1. CASE q = p
    BY <2>1, <1>3, <1>6 DEF MakingAt, DestroyingAt
  <2>2. CASE q # p
    <3>1. MakingAt(q)'
      BY <2>2, <1>1, <1>6 DEF MakingAt, TaskInv, OneMaker
    <3>2. ASSUME pc'[q] = "destroy" PROVE DestroyingAt(q)'
      <4>1. pc[q] = "destroy" /\ DestroyingAt(q)
        BY <2>2, <3>2, <1>6 DEF TaskInv, InHand
      <4>2. arg[q] \in Pids \ {c} /\ parent[arg[q]] = q /\ type[arg[q]] = "zombie" /\ Slots(q, arg[q]) = {}
        BY <4>1, <1>3 DEF DestroyingAt
      <4>3. Slots(q, arg[q])' = {}
        BY <2>2, <4>2, <1>6 DEF Slots
      <4> QED BY <2>2, <4>2, <4>3, <1>6 DEF DestroyingAt
    <3> QED BY <3>1, <3>2 DEF DestroyingAt
  <2> QED BY <2>1, <2>2
<1>14. OneMaker' /\ NotStarted' /\ type'[Kernel] = "runnable"
  BY <1>1, <1>5, <1>6, Constants DEF TaskInv, OneMaker, NotStarted
<1>15. NumbersLeft'
  <2>1. /\ Creating \in SUBSET Pids /\ Unused \in SUBSET Pids /\ p \in Creating
        /\ Creating' = Creating \ {p} /\ Unused' = Unused \ {c}
    BY <1>1, <1>3, <1>6 DEF Creating, Unused
  <2>2. Cardinality(Creating') = Cardinality(Creating) - 1
    BY <2>1, PidSets, FS_RemoveElement
  <2>3. Cardinality(Unused') = Cardinality(Unused) - 1
    BY <2>1, <1>3, PidSets, FS_RemoveElement
  <2> QED BY <2>1, <2>2, <2>3, PidSets DEF TaskInv, NumbersLeft
<1> QED BY <1>7, <1>9, <1>10, <1>11, <1>12, <1>13, <1>14, <1>15 DEF TaskInv, FamilyTree

\* The child is complete and starts to run.
LEMMA CreateDoneStep ==
    ASSUME TaskInv, NEW p \in Pids, CreateDone(p)
    PROVE  TaskInv'
<1> PICK c : c = arg[p]
  OBVIOUS
<1>1. /\ TypeOK /\ type[p] = "runnable" /\ pc[p] = "fill" /\ creat_task = p
      /\ type' = [type EXCEPT ![c] = "runnable"] /\ procs' = procs \cup {c}
      /\ pc' = [pc EXCEPT ![p] = "user", ![c] = "user"]
      /\ arg' = [arg EXCEPT ![p] = None] /\ creat_task' = None /\ cpu' = None
      /\ UNCHANGED <<env, parent, children, wait_cond, halted>>
  BY DEF CreateDone, Running, Leave, mtask_insert_proc, TaskInv, FamilyTree, OneMaker
<1>2. c \in Pids /\ type[c] = "new" /\ pc[c] = "none" /\ c # p /\ None \notin Pids
  BY <1>1, Constants DEF TaskInv, InHand, MakingAt, NotStarted
<1>3. /\ \A q \in Pids : type'[q] = IF q = c THEN "runnable" ELSE type[q]
      /\ \A q \in Pids : arg'[q] = IF q = p THEN None ELSE arg[q]
      /\ \A q \in Pids : pc'[q] = IF q = p \/ q = c THEN "user" ELSE pc[q]
  BY <1>1, <1>2 DEF TypeOK
<1>4. \A q \in Pids : pc'[q] \notin {"alloc", "fill"}
  <2>1. \A q \in Pids : pc[q] \in {"alloc", "fill"} => q = p
    BY <1>1 DEF TaskInv, OneMaker
  <2> QED BY <1>3, <2>1
<1>5. TypeOK'
  BY <1>1, <1>2 DEF TypeOK, PCs, env
<1>6. NeverChildMissing'
  <2> SUFFICES ASSUME ~nomem', NEW q \in Pids, pc'[q] = "woken" PROVE Zombies(q)' # {}
    BY DEF NeverChildMissing, ChildHasExited
  <2>a. ~nomem
    BY <1>1 DEF env
  <2>b. pc[q] = "woken"
    BY <1>3
  <2>1. PICK i \in ChildSlots : children[q][i] # None /\ type[children[q][i]] = "zombie"
    BY <2>a, <2>b DEF TaskInv, FamilyTree, NeverChildMissing, ChildHasExited, Zombies
  <2>2. children[q][i] \in Pids
    BY <2>1, <1>1 DEF TypeOK
  <2> QED BY <2>1, <2>2, <1>1, <1>2, <1>3 DEF Zombies
<1>7. Listed' /\ SlotsHold'
  BY <1>1, <1>2, <1>3 DEF TaskInv, FamilyTree, Listed, SlotsHold, Exists
<1>8. NobodyForgotten'
  <2> SUFFICES ASSUME NEW d \in Pids \ {Kernel}, Exists(d)' PROVE Kept(d)'
    BY DEF NobodyForgotten
  <2>1. Kept(d)
    BY <1>2, <1>3 DEF TaskInv, FamilyTree, NobodyForgotten, Exists
  <2> QED BY <2>1, <1>1, <1>2, <1>3 DEF Kept, Slots
<1>9. InHand'
  <2> SUFFICES ASSUME NEW q \in Pids PROVE MakingAt(q)' /\ DestroyingAt(q)'
    BY DEF InHand
  <2>1. MakingAt(q)'
    BY <1>4 DEF MakingAt
  <2>2. DestroyingAt(q)
    BY DEF TaskInv, InHand
  <2>3. DestroyingAt(q)'
    BY <2>2, <1>1, <1>2, <1>3 DEF DestroyingAt, Slots
  <2> QED BY <2>1, <2>3
<1>10. OneMaker' /\ NotStarted' /\ type'[Kernel] = "runnable"
  <2>1. OneMaker'
    BY <1>4 DEF OneMaker
  <2>2. NotStarted'
    <3> SUFFICES ASSUME NEW q \in Pids, type'[q] \in {"none", "new"} PROVE pc'[q] = "none"
      BY DEF NotStarted
    <3>1. q # c /\ q # p /\ pc[q] = "none"
      BY <1>1, <1>3 DEF TaskInv, NotStarted
    <3> QED BY <1>3, <3>1
  <2>3. type'[Kernel] = "runnable"
    BY <1>2, <1>3, Constants DEF TaskInv
  <2> QED BY <2>1, <2>2, <2>3
<1>11. NumbersLeft'
  <2>1. ASSUME NEW q \in Pids
        PROVE  pc'[q] \in {"creat", "alloc"} <=> pc[q] \in {"creat", "alloc"}
    <3>1. pc[p] = "fill" /\ pc[c] = "none"
      BY <1>1, <1>2
    <3>2. CASE q = p \/ q = c
      BY <1>3, <3>1, <3>2
    <3>3. CASE q # p /\ q # c
      BY <1>3, <3>3
    <3> QED BY <3>2, <3>3
  <2>2. Creating' = Creating
    BY <2>1 DEF Creating
  <2>3. Unused' = Unused
    BY <1>2, <1>3 DEF Unused
  <2> QED BY <2>2, <2>3 DEF TaskInv, NumbersLeft
<1> QED BY <1>5, <1>6, <1>7, <1>8, <1>9, <1>10, <1>11 DEF TaskInv, FamilyTree

\* The child stays in its slot, unfinished.
LEMMA FillFailsStep ==
    ASSUME TaskInv, NEW p \in Pids, FillFails(p)
    PROVE  TaskInv'
<1>1. /\ TypeOK /\ type[p] = "runnable" /\ pc[p] = "fill" /\ creat_task = p
      /\ arg' = [arg EXCEPT ![p] = None] /\ cpu' = None /\ halted' \in {halted, "null"}
      /\ UNCHANGED <<env, type, parent, children, procs, wait_cond, creat_task>>
  BY DEF FillFails, Running, Leave, TaskInv, FamilyTree, OneMaker
<1>a. PICK x \in {"user", "panic"} : pc' = [pc EXCEPT ![p] = x]
  BY DEF FillFails, Goto
<1>2. /\ \A q \in Pids : arg'[q] = IF q = p THEN None ELSE arg[q]
      /\ \A q \in Pids : pc'[q] = IF q = p THEN x ELSE pc[q]
  BY <1>1, <1>a DEF TypeOK
<1>3. TypeOK'
  BY <1>1, <1>a DEF TypeOK, PCs, env
<1>4. NeverChildMissing' /\ Listed' /\ SlotsHold'
  BY <1>1, <1>2 DEF env, TaskInv, FamilyTree, NeverChildMissing, ChildHasExited, Zombies, Listed, SlotsHold, Exists
<1>5. NobodyForgotten'
  <2> SUFFICES ASSUME NEW d \in Pids \ {Kernel}, Exists(d)' PROVE Kept(d)'
    BY DEF NobodyForgotten
  <2>1. Kept(d)
    BY <1>1 DEF TaskInv, FamilyTree, NobodyForgotten, Exists
  <2> QED BY <2>1, <1>1, <1>2 DEF Kept, Slots
<1>6. InHand'
  BY <1>1, <1>2 DEF TaskInv, InHand, MakingAt, DestroyingAt, Slots
<1>7. OneMaker' /\ NotStarted' /\ type'[Kernel] = "runnable"
  BY <1>1, <1>2 DEF TaskInv, OneMaker, NotStarted
<1>8. NumbersLeft'
  <2>1. Creating' = Creating /\ Unused' = Unused
    BY <1>1, <1>2 DEF Creating, Unused
  <2> QED BY <2>1 DEF TaskInv, NumbersLeft
<1> QED BY <1>3, <1>4, <1>5, <1>6, <1>7, <1>8 DEF TaskInv, FamilyTree

\* A parent that is woken takes a dead child out of its slot.
LEMMA ReapStep ==
    ASSUME TaskInv, NEW p \in Pids, Reap(p), Zombies(p) # {}
    PROVE  TaskInv'
<1> PICK k, c : k = Min(Zombies(p)) /\ c = children[p][k]
  OBVIOUS
<1>1. TypeOK /\ type[p] = "runnable" /\ pc[p] = "woken" /\ Zombies(p) # {}
  BY DEF Reap, Running, TaskInv, FamilyTree
<1>2. /\ arg' = [arg EXCEPT ![p] = c] /\ children' = [children EXCEPT ![p][k] = None]
      /\ pc' = [pc EXCEPT ![p] = "destroy"] /\ cpu' = None
      /\ UNCHANGED <<env, type, parent, procs, wait_cond, creat_task, halted>>
  BY <1>1 DEF Reap, Goto, Leave
<1>3. k \in ChildSlots /\ c \in Pids /\ type[c] = "zombie"
  <2>1. Zombies(p) \in SUBSET Nat
    BY Constants DEF Zombies
  <2>2. k \in Zombies(p)
    BY <1>1, <2>1, MinFacts
  <2> QED BY <1>1, <2>2 DEF Zombies, TypeOK
<1>4. None \notin Pids
  BY Constants
<1>5. parent[c] = p /\ \A j \in ChildSlots : children[p][j] = c => j = k
  BY <1>3 DEF TaskInv, FamilyTree, SlotsHold
<1>6. /\ \A q \in Pids : \A i \in ChildSlots :
            children'[q][i] = IF q = p /\ i = k THEN None ELSE children[q][i]
      /\ \A q \in Pids : arg'[q] = IF q = p THEN c ELSE arg[q]
      /\ \A q \in Pids : pc'[q] = IF q = p THEN "destroy" ELSE pc[q]
  BY <1>1, <1>2, <1>3 DEF TypeOK
<1>7. TypeOK'
  BY <1>1, <1>2, <1>3 DEF TypeOK, PCs, env
<1>8. NeverChildMissing'
  BY <1>2, <1>6 DEF env, TaskInv, FamilyTree, NeverChildMissing, ChildHasExited, Zombies
<1>9. Listed' /\ SlotsHold'
  BY <1>2, <1>4, <1>6 DEF TaskInv, FamilyTree, Listed, SlotsHold, Exists
<1>10. NobodyForgotten'
  <2> SUFFICES ASSUME NEW d \in Pids \ {Kernel}, Exists(d)' PROVE Kept(d)'
    BY DEF NobodyForgotten
  <2>1. CASE d = c
    BY <2>1, <1>2, <1>3, <1>5, <1>6 DEF Kept
  <2>2. CASE d # c
    <3>1. Kept(d)
      BY <1>2 DEF TaskInv, FamilyTree, NobodyForgotten, Exists
    <3>2. CASE Slots(parent[d], d) # {}
      <4>1. PICK i \in ChildSlots : children[parent[d]][i] = d
        BY <3>2 DEF Slots
      <4>2. children'[parent[d]][i] = d
        BY <2>2, <3>1, <4>1, <1>6 DEF Kept
      <4> QED BY <3>1, <4>2, <1>2 DEF Kept, Slots
    <3>3. CASE arg[parent[d]] = d /\ pc[parent[d]] = "destroy" /\ type[d] = "zombie"
      BY <3>1, <3>3, <1>1, <1>2, <1>6 DEF Kept
    <3> QED BY <3>1, <3>2, <3>3 DEF Kept
  <2> QED BY <2>1, <2>2
<1>11. InHand'
  <2> SUFFICES ASSUME NEW q \in Pids PROVE MakingAt(q)' /\ DestroyingAt(q)'
    BY DEF InHand
  <2>1. MakingAt(q) /\ DestroyingAt(q)
    BY DEF TaskInv, InHand
  <2>2. CASE q = p
    <3>1. Slots(p, c)' = {}
      BY <1>3, <1>4, <1>5, <1>6 DEF Slots
    <3> QED BY <2>2, <3>1, <1>2, <1>3, <1>5, <1>6 DEF MakingAt, DestroyingAt
  <2>3. CASE q # p
    BY <2>1, <2>3, <1>2, <1>6 DEF MakingAt, DestroyingAt, Slots
  <2> QED BY <2>2, <2>3
<1>12. OneMaker' /\ NotStarted' /\ type'[Kernel] = "runnable"
  BY <1>1, <1>2, <1>6 DEF TaskInv, OneMaker, NotStarted
<1>13. NumbersLeft'
  <2>1. Creating' = Creating /\ Unused' = Unused
    BY <1>1, <1>2, <1>6 DEF Creating, Unused
  <2> QED BY <2>1 DEF TaskInv, NumbersLeft
<1> QED BY <1>7, <1>8, <1>9, <1>10, <1>11, <1>12, <1>13 DEF TaskInv, FamilyTree

\* A parent that went on without memory may find none: the panic.
LEMMA ChildMissingStep ==
    ASSUME TaskInv, NEW p \in Pids, Reap(p), Zombies(p) = {}
    PROVE  TaskInv'
<1>1. /\ type[p] = "runnable" /\ pc[p] = "woken" /\ "panic" \in PCs
      /\ pc' = [pc EXCEPT ![p] = "panic"] /\ halted' = "panic" /\ cpu' = None
      /\ UNCHANGED <<env, type, parent, children, procs, wait_cond, arg, creat_task>>
  BY DEF Reap, Running, Goto, Leave, PCs
<1>2. \A q \in Pids : pc'[q] \in {"alloc", "fill"} => creat_task' = q
  BY <1>1, StepFacts
<1> QED BY <1>1, <1>2, StepFacts, MoveStep

\* The child it took is freed.
LEMMA ProcDestroyStep ==
    ASSUME TaskInv, NEW p \in Pids, ProcDestroy(p)
    PROVE  TaskInv'
<1> PICK c : c = arg[p]
  OBVIOUS
<1>1. /\ TypeOK /\ type[p] = "runnable" /\ pc[p] = "destroy"
      /\ procs' = procs \ {c} /\ type' = [type EXCEPT ![c] = "freed"]
      /\ arg' = [arg EXCEPT ![p] = None] /\ pc' = [pc EXCEPT ![p] = "user"] /\ cpu' = None
      /\ UNCHANGED <<env, parent, children, wait_cond, creat_task, halted>>
  BY DEF ProcDestroy, Running, Goto, Leave, mtask_remove_proc, TaskInv, FamilyTree
<1>2. /\ c \in Pids /\ type[c] = "zombie" /\ parent[c] = p /\ c # p /\ None \notin Pids
      /\ \A i \in ChildSlots : children[p][i] # c
  BY <1>1, Constants DEF TaskInv, InHand, DestroyingAt, Slots
<1>3. /\ \A q \in Pids : type'[q] = IF q = c THEN "freed" ELSE type[q]
      /\ \A q \in Pids : arg'[q] = IF q = p THEN None ELSE arg[q]
      /\ \A q \in Pids : pc'[q] = IF q = p THEN "user" ELSE pc[q]
  BY <1>1, <1>2 DEF TypeOK
<1>4. \A q \in Pids : \A i \in ChildSlots : children[q][i] # c
  BY <1>2 DEF TaskInv, FamilyTree, SlotsHold
<1>5. TypeOK'
  BY <1>1, <1>2 DEF TypeOK, PCs, env
<1>6. NeverChildMissing'
  <2> SUFFICES ASSUME ~nomem', NEW q \in Pids, pc'[q] = "woken" PROVE Zombies(q)' # {}
    BY DEF NeverChildMissing, ChildHasExited
  <2>1. PICK i \in ChildSlots : children[q][i] # None /\ type[children[q][i]] = "zombie"
    BY <1>3, <1>1 DEF env, TaskInv, FamilyTree, NeverChildMissing, ChildHasExited, Zombies
  <2>2. children[q][i] \in Pids \ {c}
    BY <2>1, <1>1, <1>4 DEF TypeOK
  <2> QED BY <2>1, <2>2, <1>1, <1>3 DEF Zombies
<1>7. Listed' /\ SlotsHold'
  BY <1>1, <1>2, <1>3, <1>4 DEF TaskInv, FamilyTree, Listed, SlotsHold, Exists
<1>8. NobodyForgotten'
  <2> SUFFICES ASSUME NEW d \in Pids \ {Kernel}, Exists(d)' PROVE Kept(d)'
    BY DEF NobodyForgotten
  <2>1. Kept(d) /\ d # c
    BY <1>2, <1>3 DEF TaskInv, FamilyTree, NobodyForgotten, Exists
  <2> QED BY <2>1, <1>1, <1>2, <1>3 DEF Kept, Slots
<1>9. InHand'
  <2> SUFFICES ASSUME NEW q \in Pids PROVE MakingAt(q)' /\ DestroyingAt(q)'
    BY DEF InHand
  <2>1. MakingAt(q) /\ DestroyingAt(q)
    BY DEF TaskInv, InHand
  <2> QED BY <2>1, <1>1, <1>2, <1>3 DEF MakingAt, DestroyingAt, Slots
<1>10. OneMaker' /\ NotStarted' /\ type'[Kernel] = "runnable"
  BY <1>1, <1>2, <1>3, Constants DEF TaskInv, OneMaker, NotStarted
<1>11. NumbersLeft'
  <2>1. Creating' = Creating /\ Unused' = Unused
    BY <1>1, <1>2, <1>3 DEF Creating, Unused
  <2> QED BY <2>1 DEF TaskInv, NumbersLeft
<1> QED BY <1>5, <1>6, <1>7, <1>8, <1>9, <1>10, <1>11 DEF TaskInv, FamilyTree

\* A process dies: its parent still has it in a slot, so that a parent that is
\* woken finds it there.
LEMMA DiesStep ==
    ASSUME TaskInv, NEW p \in Pids, Dies(p),
           pc' \in [Pids -> PCs], pc'[p] = "dead",
           \A q \in Pids \ {p} :
              \/ pc'[q] = pc[q]
              \/ q = parent[p] /\ pc[q] = "asleep" /\ pc'[q] = "woken"
              \/ q = parent[p] /\ pc[q] = "item" /\ pc'[q] = "item_stale",
           wait_cond' \in [Pids -> {"null", "free", "locked"}],
           halted' \in {"no", "panic", "null"}
    PROVE  TaskInv'
<1>1. /\ TypeOK /\ type[p] = "runnable" /\ pc[p] = "user" /\ p # Kernel
      /\ type' = [type EXCEPT ![p] = "zombie"] /\ cpu' = None
      /\ UNCHANGED <<env, parent, children, procs, arg, creat_task>>
  BY DEF Dies, Running, Leave, TaskInv, FamilyTree
<1>2. \A q \in Pids : type'[q] = IF q = p THEN "zombie" ELSE type[q]
  BY <1>1 DEF TypeOK
<1>3. parent[p] \in Pids /\ \E i \in ChildSlots : children[parent[p]][i] = p
  BY <1>1 DEF TaskInv, FamilyTree, NobodyForgotten, Exists, Kept, Slots
<1>4. TypeOK'
  BY <1>1 DEF TypeOK, env
<1>5. NeverChildMissing'
  <2> SUFFICES ASSUME ~nomem', NEW q \in Pids, pc'[q] = "woken" PROVE Zombies(q)' # {}
    BY DEF NeverChildMissing, ChildHasExited
  <2>1. CASE q = parent[p]
    <3>1. PICK i \in ChildSlots : children[q][i] = p
      BY <2>1, <1>3
    <3>2. i \in Zombies(q)'
      BY <3>1, <1>1, <1>2, Constants DEF Zombies
    <3> QED BY <3>2
  <2>2. CASE q # parent[p]
    <3>1. PICK i \in ChildSlots : children[q][i] # None /\ type[children[q][i]] = "zombie"
      BY <2>2, <1>1 DEF env, TaskInv, FamilyTree, NeverChildMissing, ChildHasExited, Zombies
    <3>2. children[q][i] \in Pids
      BY <3>1, <1>1 DEF TypeOK
    <3> QED BY <3>1, <3>2, <1>1, <1>2 DEF Zombies
  <2> QED BY <2>1, <2>2
<1>6. Listed' /\ SlotsHold'
  BY <1>1, <1>2 DEF TaskInv, FamilyTree, Listed, SlotsHold, Exists
<1>7. NobodyForgotten'
  <2> SUFFICES ASSUME NEW d \in Pids \ {Kernel}, Exists(d)' PROVE Kept(d)'
    BY DEF NobodyForgotten
  <2>1. Kept(d)
    BY <1>1, <1>2 DEF TaskInv, FamilyTree, NobodyForgotten, Exists
  <2> QED BY <2>1, <1>1, <1>2 DEF Kept, Slots
<1>8. InHand'
  <2> SUFFICES ASSUME NEW q \in Pids PROVE MakingAt(q)' /\ DestroyingAt(q)'
    BY DEF InHand
  <2>1. MakingAt(q) /\ DestroyingAt(q)
    BY DEF TaskInv, InHand
  <2> QED BY <2>1, <1>1, <1>2 DEF MakingAt, DestroyingAt, Slots
<1>9. OneMaker' /\ NotStarted' /\ type'[Kernel] = "runnable"
  BY <1>1, <1>2, Constants DEF TaskInv, OneMaker, NotStarted
<1>10. NumbersLeft'
  <2>1. Creating' = Creating
    BY <1>1 DEF Creating
  <2>2. Unused' = Unused
    BY <1>1, <1>2 DEF Unused
  <2> QED BY <2>1, <2>2 DEF TaskInv, NumbersLeft
<1> QED BY <1>4, <1>5, <1>6, <1>7, <1>8, <1>9, <1>10 DEF TaskInv, FamilyTree

LEMMA ExitStep ==
    ASSUME TaskInv, NEW p \in Pids, Exit(p)
    PROVE  TaskInv'
<1>1. /\ Dies(p) /\ p # Kernel /\ type[p] = "runnable"
      /\ pc \in [Pids -> PCs] /\ "dead" \in PCs /\ "woken" \in PCs /\ "item_stale" \in PCs
      /\ wait_cond \in [Pids -> {"null", "free", "locked"}]
      /\ halted \in {"no", "panic", "null"}
      /\ parent[p] \in Pids
  BY DEF Exit, ExitQuietly, ExitOrphan, ExitSignals, ExitStuck, Dies, Running, PCs,
         TaskInv, FamilyTree, TypeOK, NobodyForgotten, Exists, Kept
<1>2. CASE ExitQuietly(p) \/ ExitOrphan(p)
  <2>1. pc' = [pc EXCEPT ![p] = "dead"] /\ wait_cond' = wait_cond /\ halted' \in {"no", "panic", "null"}
    BY <1>1, <1>2 DEF ExitQuietly, ExitOrphan, Goto
  <2> QED BY <1>1, <2>1, DiesStep
<1>3. ASSUME NEW freed \in BOOLEAN, NEW s \in {"null", "free", "locked"},
             pc' = [pc EXCEPT ![parent[p]] = Signalled(p, freed), ![p] = "dead"],
             wait_cond' = [wait_cond EXCEPT ![parent[p]] = s], halted' = halted
      PROVE  TaskInv'
  <2>1. Signalled(p, freed) \in PCs
    BY <1>1 DEF Signalled
  <2>2. pc' \in [Pids -> PCs] /\ pc'[p] = "dead"
    BY <1>1, <1>3, <2>1
  <2>3. wait_cond' \in [Pids -> {"null", "free", "locked"}]
    BY <1>1, <1>3
  <2>4. ASSUME NEW q \in Pids \ {p}
        PROVE  \/ pc'[q] = pc[q]
               \/ q = parent[p] /\ pc[q] = "asleep" /\ pc'[q] = "woken"
               \/ q = parent[p] /\ pc[q] = "item" /\ pc'[q] = "item_stale"
    BY <1>1, <1>3 DEF Signalled
  <2> QED BY <1>1, <1>3, <2>2, <2>3, <2>4, DiesStep
<1>4. CASE ExitSignals(p)
  BY <1>3, <1>4 DEF ExitSignals
<1>5. CASE ExitStuck(p)
  <2>1. PICK s \in {"null", "free", "locked"} : wait_cond' = [wait_cond EXCEPT ![parent[p]] = s]
    BY <1>5 DEF ExitStuck
  <2> QED BY <1>3, <1>5, <2>1 DEF ExitStuck
<1> QED BY <1>2, <1>4, <1>5 DEF Exit

LEMMA NextInv == TaskInv /\ [Next]_vars => TaskInv'
<1> SUFFICES ASSUME TaskInv, [Next]_vars PROVE TaskInv'
  OBVIOUS
<1>1. ASSUME NEW p \in Pids, Proceed(p) PROVE TaskInv'
  BY <1>1, CreateStep, CreateFailsStep, AddChildStep, CreateDoneStep, FillFailsStep, WaitStep,
     ReapStep, ChildMissingStep, ProcDestroyStep DEF Proceed
<1>2. ASSUME NEW p \in Pids, Call(p) PROVE TaskInv'
  BY <1>2, CreateStep, WaitStep, ExitStep DEF Call
<1>3. CASE UNCHANGED vars
  BY <1>3 DEF vars, env, TaskInv, FamilyTree, TypeOK, NeverChildMissing, ChildHasExited, Zombies, Listed,
     SlotsHold, Exists, NobodyForgotten, Kept, Slots, InHand, MakingAt, DestroyingAt, OneMaker,
     NotStarted, NumbersLeft, Creating, Unused
<1> QED BY <1>1, <1>2, <1>3 DEF Next

\* The children arrays, the parent numbers and the list of processes agree, for any
\* number of processes and of children, in every order of forks, execs, waits and
\* exits, with allocations that block and fail.  While memory lasts a parent that is
\* woken finds a dead child: the panic "wait(): Child missing" of wait.c cannot
\* happen.
THEOREM FamilyCorrect == Spec => []FamilyTree
<1>1. TaskInv => FamilyTree
  BY DEF TaskInv
<1> QED BY InitInv, NextInv, <1>1, PTL DEF Spec

\* Two processes are never both between lock(&creat_task) and the end of add_task
\* or fork.
OneAtATime ==
    \A p, q \in Pids : pc[p] \in {"alloc", "fill"} /\ pc[q] \in {"alloc", "fill"} => p = q

\* creat_task (mtask.c, fork.c) keeps the making of processes to one at a time, also
\* when an allocation blocks in the middle of it or fork fails without releasing it.
THEOREM CreationExclusive == Spec => []OneAtATime
<1>1. TaskInv => OneAtATime
  BY DEF TaskInv, OneMaker, OneAtATime
<1> QED BY InitInv, NextInv, <1>1, PTL DEF Spec
=============================================================================
