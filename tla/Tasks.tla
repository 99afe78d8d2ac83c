------------------------------- MODULE Tasks -------------------------------
(***************************************************************************)
(* The life of processes: add_task, fork, execve, exit and wait            *)
(* (kernel/src/proc/mtask.c, fork.c, exec.c, wait.c, proc.c), for          *)
(* processes of one thread.                                                *)
(*                                                                         *)
(* System calls run with interrupts disabled: `cpu` is the process that is *)
(* inside one and cannot be preempted.  It gives the CPU up where it calls *)
(* run_sched: to block, to wait for creat_task or a condition's lock, and  *)
(* in any kmalloc or kfree that finds alloc_lock taken, which can only be  *)
(* by a preempted kernel thread or by a process in the second half of      *)
(* wait() (busy).  A step goes from one such point to the next.            *)
(***************************************************************************)
EXTENDS Naturals, FiniteSetsExt

CONSTANTS
    MaxPid,         \* bound: processes ever created
    MaxChildren,    \* MAX_CHILDREN
    Busy,           \* the values of busy: may an allocation find alloc_lock taken?
    NoMemory,       \* the values of nomem: may add_task, fork or wait run out of memory?
    None

\* The kernel process, which creates init and reaps nobody, has PID 1; init is 2.
Kernel == 1
Pids == 1..MaxPid
ChildSlots == 1..MaxChildren

ASSUME TasksAssumption ==
    /\ MaxPid \in Nat /\ MaxPid >= Kernel
    /\ MaxChildren \in Nat \ {0}
    /\ Busy \subseteq BOOLEAN /\ NoMemory \subseteq BOOLEAN
    /\ None \notin Nat

VARIABLES
    busy,       \* can allocations find alloc_lock taken in this behaviour?
    nomem,      \* can they fail?
    type,       \* kproc_t.type: "none" (no process), "new" (allocated, no flag
                \* set), "runnable", "zombie", "freed"
    parent,     \* kproc_t.parent
    children,   \* kproc_t.children
    procs,      \* the list of processes
    wait_cond,  \* kproc_t.wait_cond: "null", "free" or "locked"
    pc,         \* where each process is
    arg,        \* the process it is creating or destroying
    creat_task, \* who holds the lock
    cpu,        \* the process that cannot be preempted
    halted      \* "no", or what stopped the kernel: a "panic" or a "null" pointer

env == <<busy, nomem>>
vars == <<env, type, parent, children, procs, wait_cond, pc, arg, creat_task, cpu, halted>>

\* Where a process can be: in user mode; add_task and fork: waiting for
\* creat_task, allocating the process, filling it; wait: allocating wait_cond,
\* allocating the list item (while somebody freed the cond), in the cond's list,
\* in no list, woken, destroying the child; after exit.
PCs == {"none", "user", "creat", "alloc", "fill", "newcond", "item", "item_stale",
        "asleep", "lost", "woken", "destroy", "dead", "panic"}
InWait == {"newcond", "item", "item_stale", "asleep", "lost", "woken"}

Init ==
    /\ busy \in Busy /\ nomem \in NoMemory
    /\ type = [p \in Pids |-> IF p = Kernel THEN "runnable" ELSE "none"]
    /\ parent = [p \in Pids |-> None]
    /\ children = [p \in Pids |-> [i \in ChildSlots |-> None]]
    /\ procs = {Kernel}
    /\ wait_cond = [p \in Pids |-> "null"]
    /\ pc = [p \in Pids |-> IF p = Kernel THEN "user" ELSE "none"]
    /\ arg = [p \in Pids |-> None]
    /\ creat_task = None
    /\ cpu = None
    /\ halted = "no"

-----------------------------------------------------------------------------
\* p runs and stands at one of the labels.
Running(p, labels) ==
    /\ halted = "no" /\ cpu \in {p, None}
    /\ type[p] = "runnable" /\ pc[p] \in labels

Goto(p, label) == pc' = [pc EXCEPT ![p] = label]

\* p goes on to an allocation, where it may lose the CPU.  The kernel process is
\* preemptible anyway.
ToAlloc(p) == cpu' \in IF p = Kernel THEN {None} ELSE IF busy THEN {p, None} ELSE {p}

\* p leaves the kernel or calls run_sched().
Leave == cpu' = None

\* The list of processes.
mtask_insert_proc(p) == procs \cup {p}
mtask_remove_proc(p) == procs \ {p}

Slots(p, c) == {i \in ChildSlots : children[p][i] = c}
Zombies(p) == {i \in ChildSlots : children[p][i] # None /\ type[children[p][i]] = "zombie"}

-----------------------------------------------------------------------------
(* add_task (the kernel process, for init) and fork (everybody else).       *)

\* The bound on processes: one is left for p.
PidLeft ==
    Cardinality({q \in Pids : pc[q] \in {"creat", "alloc"}})
        < Cardinality({n \in Pids : type[n] = "none"})

\* The call; lock(&creat_task) comes next.
Create(p) ==
    /\ Running(p, {"user"}) /\ PidLeft
    /\ p = Kernel => Slots(p, None) = ChildSlots
    /\ Goto(p, "creat")
    /\ cpu' = IF p = Kernel THEN None ELSE p
    /\ UNCHANGED <<env, type, parent, children, procs, wait_cond, arg, creat_task, halted>>

CreateSpin(p) ==
    /\ Running(p, {"creat"}) /\ creat_task # None
    /\ Leave
    /\ UNCHANGED <<env, type, parent, children, procs, wait_cond, pc, arg, creat_task, halted>>

CreateLock(p) ==
    /\ Running(p, {"creat"}) /\ creat_task = None
    /\ creat_task' = p
    /\ Goto(p, "alloc")
    /\ ToAlloc(p)
    /\ UNCHANGED <<env, type, parent, children, procs, wait_cond, arg, halted>>

\* No memory for the process: add_task fails and _spawn_init panics; fork panics
\* by an assertion.
NoProcess(p) ==
    /\ Running(p, {"alloc"}) /\ nomem
    /\ Goto(p, "panic") /\ halted' = "panic"
    /\ Leave
    /\ UNCHANGED <<env, type, parent, children, procs, wait_cond, arg, creat_task>>

\* A process is cleared and numbered; the numbers are given out in order.
get_next_pid == Min({n \in Pids : type[n] = "none"})
proc_create(c) == type' = [type EXCEPT ![c] = "new"]

\* Mutant: the child's slot is taken without looking whether it is free.
AddChildFirst(p) ==
    LET c == get_next_pid IN
    /\ Running(p, {"alloc"})
    /\ proc_create(c)
    /\ parent' = [parent EXCEPT ![c] = p]
    /\ children' = [children EXCEPT ![p][1] = c]
    /\ arg' = [arg EXCEPT ![p] = c]
    /\ Goto(p, "fill") /\ ToAlloc(p)
    /\ UNCHANGED <<env, procs, wait_cond, creat_task, halted>>

\* proc_add_child finds a free slot of the parent's.
AddChild(p) ==
    LET c == get_next_pid IN
    /\ Running(p, {"alloc"})
    /\ Slots(p, None) # {}
    /\ proc_create(c)
    /\ parent' = [parent EXCEPT ![c] = p]
    /\ children' = [children EXCEPT ![p][Min(Slots(p, None))] = c]
    /\ arg' = [arg EXCEPT ![p] = c]
    /\ Goto(p, "fill") /\ ToAlloc(p)
    /\ UNCHANGED <<env, procs, wait_cond, creat_task, halted>>

\* Mutant: creat_task is not released.
TooManyLocked(p) ==
    /\ Running(p, {"alloc"}) /\ Slots(p, None) = {}
    /\ Goto(p, "user") /\ Leave
    /\ UNCHANGED <<env, type, parent, children, procs, wait_cond, arg, creat_task, halted>>

\* proc_add_child finds none: creat_task is released and the call fails.
TooManyChildren(p) ==
    /\ Running(p, {"alloc"}) /\ Slots(p, None) = {}
    /\ creat_task' = None
    /\ Goto(p, "user") /\ Leave
    /\ UNCHANGED <<env, type, parent, children, procs, wait_cond, arg, halted>>

\* The process is complete: listed, enqueued (see Sched) and running.
CreateDone(p) ==
    /\ Running(p, {"fill"})
    /\ type' = [type EXCEPT ![arg[p]] = "runnable"]
    /\ procs' = mtask_insert_proc(arg[p])
    /\ pc' = [pc EXCEPT ![p] = "user", ![arg[p]] = "user"]
    /\ arg' = [arg EXCEPT ![p] = None]
    /\ creat_task' = None /\ Leave
    /\ UNCHANGED <<env, parent, children, wait_cond, halted>>

\* A stack or a copy fails in fork_clone_process: fork returns with creat_task
\* locked and the child in its slot.  In add_task the null pointer that
\* thread_create returns is followed.
FillFails(p) ==
    /\ Running(p, {"fill"}) /\ nomem
    /\ arg' = [arg EXCEPT ![p] = None]
    /\ \/ p # Kernel /\ Goto(p, "user") /\ UNCHANGED halted
       \/ p = Kernel /\ Goto(p, "panic") /\ halted' = "null"
    /\ Leave
    /\ UNCHANGED <<env, type, parent, children, procs, wait_cond, creat_task>>

\* _exec_replace_process_image keeps pid, type, parent and children; the rest
\* of the process, wait_cond included, is cleared.
Exec(p) ==
    /\ Running(p, {"user"}) /\ p # Kernel
    /\ wait_cond' = [wait_cond EXCEPT ![p] = "null"]
    /\ Leave
    /\ UNCHANGED <<env, type, parent, children, procs, pc, arg, creat_task, halted>>

-----------------------------------------------------------------------------
(* wait                                                                      *)

\* No child: return.  A dead child: destroy it.  Otherwise wait.
Wait(p) ==
    /\ Running(p, {"user"}) /\ p # Kernel
    /\ Slots(p, None) # ChildSlots
    /\ \/ Zombies(p) # {} /\ Goto(p, "woken") /\ cpu' = p
       \/ Zombies(p) = {} /\ wait_cond[p] = "null" /\ Goto(p, "newcond") /\ ToAlloc(p)
       \/ Zombies(p) = {} /\ wait_cond[p] # "null" /\ Goto(p, "item") /\ ToAlloc(p)
    /\ UNCHANGED <<env, type, parent, children, procs, wait_cond, arg, creat_task, halted>>

WaitCond(p) ==
    /\ Running(p, {"newcond"})
    /\ wait_cond' = [wait_cond EXCEPT ![p] = "free"]
    /\ Goto(p, "item") /\ ToAlloc(p)
    /\ UNCHANGED <<env, type, parent, children, procs, arg, creat_task, halted>>

\* cond_init clears the condition where a null pointer leads.
WaitCondFails(p) ==
    /\ Running(p, {"newcond"}) /\ nomem
    /\ Goto(p, "panic") /\ halted' = "null"
    /\ Leave
    /\ UNCHANGED <<env, type, parent, children, procs, wait_cond, arg, creat_task>>

\* cond_wait: join the list and block; on a freed cond, the list is nobody's.
WaitBlock(p) ==
    /\ Running(p, {"item", "item_stale"})
    /\ pc[p] = "item" => wait_cond[p] = "free"
    /\ Goto(p, IF pc[p] = "item" THEN "asleep" ELSE "lost")
    /\ Leave
    /\ UNCHANGED <<env, type, parent, children, procs, wait_cond, arg, creat_task, halted>>

\* cond_wait returns -ENOMEM at once, and wait() goes on as if it had been woken.
WaitNoMemory(p) ==
    /\ Running(p, {"item", "item_stale"}) /\ nomem
    /\ Goto(p, "woken") /\ cpu' = p
    /\ UNCHANGED <<env, type, parent, children, procs, wait_cond, arg, creat_task, halted>>

\* cond_wait: lock(&cond->lock) finds it taken.
WaitSpin(p) ==
    /\ Running(p, {"item"}) /\ wait_cond[p] = "locked"
    /\ Leave
    /\ UNCHANGED <<env, type, parent, children, procs, wait_cond, pc, arg, creat_task, halted>>

\* The first dead child leaves its slot; from here on interrupts are enabled.
Reap(p) ==
    /\ Running(p, {"woken"})
    /\ IF Zombies(p) = {}
       THEN Goto(p, "panic") /\ halted' = "panic" /\ UNCHANGED <<children, arg>>
       ELSE LET i == Min(Zombies(p)) IN
            /\ arg' = [arg EXCEPT ![p] = children[p][i]]
            /\ children' = [children EXCEPT ![p][i] = None]
            /\ Goto(p, "destroy")
            /\ UNCHANGED halted
    /\ Leave
    /\ UNCHANGED <<env, type, parent, procs, wait_cond, creat_task>>

\* proc_destroy: mtask_remove_proc, then the process and its thread are freed.
ProcDestroy(p) ==
    /\ Running(p, {"destroy"})
    /\ procs' = mtask_remove_proc(arg[p])
    /\ type' = [type EXCEPT ![arg[p]] = "freed"]
    /\ arg' = [arg EXCEPT ![p] = None]
    /\ Goto(p, "user") /\ Leave
    /\ UNCHANGED <<env, parent, children, wait_cond, creat_task, halted>>

-----------------------------------------------------------------------------
(* exit                                                                      *)

\* _spawn_init sees that init is dead.
InitExited(p) ==
    /\ Running(p, {"user"}) /\ p = Kernel
    /\ Zombies(p) # {}
    /\ Goto(p, "panic") /\ halted' = "panic"
    /\ UNCHANGED <<env, type, parent, children, procs, wait_cond, arg, creat_task, cpu>>

\* The process is a zombie and not runnable from its first statement on: where
\* it waits, it never comes back.
Dies(p) ==
    /\ Running(p, {"user"}) /\ p # Kernel
    /\ type' = [type EXCEPT ![p] = "zombie"]
    /\ Leave
    /\ UNCHANGED <<env, parent, children, procs, arg, creat_task>>

\* The parent exists but has no wait_cond, or its lock is taken (for ever).
ExitQuietly(p) ==
    /\ Dies(p)
    /\ parent[p] \in procs /\ wait_cond[parent[p]] # "free"
    /\ Goto(p, "dead")
    /\ UNCHANGED <<wait_cond, halted>>

\* proc_by_pid finds no parent: the null pointer is followed.
ExitOrphan(p) ==
    /\ Dies(p)
    /\ parent[p] \notin procs
    /\ Goto(p, "dead") /\ halted' = "null"
    /\ UNCHANGED wait_cond

\* Where a signal leaves the parent: woken if it is in the list; with a stale
\* pointer, once the cond is freed, if it is not in the list yet.
Signalled(p, freed) ==
    LET at == pc[parent[p]] IN
    IF at = "asleep" THEN "woken" ELSE IF at = "item" /\ freed THEN "item_stale" ELSE at

\* Mutant: the parent is not signalled.
ExitSilently(p) ==
    /\ Dies(p)
    /\ parent[p] \in procs /\ wait_cond[parent[p]] = "free"
    /\ Goto(p, "dead")
    /\ UNCHANGED <<wait_cond, halted>>

\* cond_signal, kfree(wait_cond), wait_cond = NULL.
ExitSignals(p) ==
    /\ Dies(p)
    /\ parent[p] \in procs /\ wait_cond[parent[p]] = "free"
    /\ pc' = [pc EXCEPT ![parent[p]] = Signalled(p, TRUE), ![p] = "dead"]
    /\ wait_cond' = [wait_cond EXCEPT ![parent[p]] = "null"]
    /\ UNCHANGED halted

\* The same, never to return from kfree: of the list item, inside cond_signal,
\* which holds the cond's lock, or of the cond itself.
ExitStuck(p) ==
    /\ busy
    /\ Dies(p)
    /\ parent[p] \in procs /\ wait_cond[parent[p]] = "free"
    /\ pc' = [pc EXCEPT ![parent[p]] = Signalled(p, FALSE), ![p] = "dead"]
    /\ wait_cond' \in {[wait_cond EXCEPT ![parent[p]] = s] :
            s \in IF pc[parent[p]] = "asleep" THEN {"free", "locked"} ELSE {"free"}}
    /\ UNCHANGED halted

Exit(p) == ExitQuietly(p) \/ ExitOrphan(p) \/ ExitSignals(p) \/ ExitStuck(p)

-----------------------------------------------------------------------------
\* What a process in the kernel does next.
Proceed(p) ==
    \/ CreateSpin(p) \/ CreateLock(p) \/ NoProcess(p) \/ AddChild(p)
    \/ TooManyChildren(p) \/ CreateDone(p) \/ FillFails(p)
    \/ WaitCond(p) \/ WaitCondFails(p) \/ WaitBlock(p) \/ WaitNoMemory(p) \/ WaitSpin(p)
    \/ Reap(p) \/ ProcDestroy(p)

\* What it may choose to do in user mode.
Call(p) == Create(p) \/ Exec(p) \/ Wait(p) \/ Exit(p) \/ InitExited(p)

Next == \E p \in Pids : Proceed(p) \/ Call(p)

Spec == Init /\ [][Next]_vars

\* A runnable process gets the CPU again and again (Sched, RunnableRuns), and
\* then goes on with its system call.
FairSpec == Spec /\ \A p \in Pids : SF_vars(Proceed(p))
-----------------------------------------------------------------------------
(* Type invariant.                                                           *)
TypeOK ==
    /\ busy \in Busy /\ nomem \in NoMemory
    /\ type \in [Pids -> {"none", "new", "runnable", "zombie", "freed"}]
    /\ parent \in [Pids -> Pids \cup {None}]
    /\ children \in [Pids -> [ChildSlots -> Pids \cup {None}]]
    /\ procs \subseteq Pids
    /\ wait_cond \in [Pids -> {"null", "free", "locked"}]
    /\ pc \in [Pids -> PCs]
    /\ arg \in [Pids -> Pids \cup {None}]
    /\ creat_task \in Pids \cup {None}
    /\ cpu \in Pids \cup {None}
    /\ halted \in {"no", "panic", "null"}

(* A process that goes on after cond_wait has a dead child ("When process is *)
(* re-entered here, a child has exited", wait.c).                            *)
ChildHasExited == \A p \in Pids : pc[p] = "woken" => Zombies(p) # {}

(* The same while memory lasts: the panic "wait(): Child missing" is         *)
(* unreachable, however many children exit before the parent runs.           *)
NeverChildMissing == ~nomem => ChildHasExited

(* The list of processes, which proc_by_pid walks, holds those that exist.   *)
Listed == \A p \in Pids : p \in procs <=> type[p] \in {"runnable", "zombie"}

(* A slot of the children array holds a process that exists and is this      *)
(* process's child, and no child is in two slots.                            *)
Exists(c) == type[c] \in {"new", "runnable", "zombie"}
SlotsHold ==
    \A p, c \in Pids : \A i \in ChildSlots : children[p][i] = c =>
        /\ parent[c] = p /\ Exists(c)
        /\ \A j \in ChildSlots : children[p][j] = c => i = j

(* A process that exists is in a slot of its parent's array, or being        *)
(* destroyed by the parent.  The array may be that of a parent that has been *)
(* freed; then nobody will reap the child.                                   *)
Kept(c) ==
    /\ parent[c] \in Pids
    /\ \/ Slots(parent[c], c) # {}
       \/ arg[parent[c]] = c /\ pc[parent[c]] = "destroy" /\ type[c] = "zombie"
NobodyForgotten == \A c \in Pids \ {Kernel} : Exists(c) => Kept(c)

(* The children arrays, the parent numbers and the list of processes agree,  *)
(* whatever exits, is reaped or fails half-way; and while memory lasts a     *)
(* parent that is woken finds the child it was woken for.                    *)
FamilyTree == TypeOK /\ NeverChildMissing /\ Listed /\ SlotsHold /\ NobodyForgotten

(* wait() returns once a child has exited, unless the kernel crashes.        *)
WaitReturns ==
    \A p \in Pids \ {Kernel} :
        (pc[p] \in InWait /\ Zombies(p) # {}) ~> (pc[p] = "user" \/ halted # "no")

(* The same where the allocator's lock is never found taken: neither the     *)
(* order of wait() and the exits of several children, nor an execve between  *)
(* two waits, loses a wakeup.                                                *)
WaitReturnsUncontended ==
    \A p \in Pids \ {Kernel} :
        (~busy /\ pc[p] \in InWait /\ Zombies(p) # {}) ~> (pc[p] = "user" \/ halted # "no")

(* fork() and add_task() return: creat_task is always released again.        *)
ForkReturns ==
    \A p \in Pids : pc[p] = "creat" ~> (pc[p] # "creat" \/ halted # "no")

(* The same while memory does not run out: the exit through "too many        *)
(* children" gives creat_task back too.                                      *)
ForkReturnsWithMemory ==
    \A p \in Pids : (~nomem /\ pc[p] = "creat") ~> (pc[p] # "creat" \/ halted # "no")

(* No null pointer is followed when a process exits.                         *)
NeverNull == halted # "null"
=============================================================================
