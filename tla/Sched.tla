------------------------------- MODULE Sched -------------------------------
(***************************************************************************)
(* The single-CPU scheduler: kernel/src/proc/sched.c with the spin locks   *)
(* of kernel/inc/proc/atomic/lock.h and kernel/src/proc/atomic/lock.c, the *)
(* timer interrupt that drives it (time_update; sched_processes;           *)
(* do_task_switch) and do_task_switch itself.                              *)
(*                                                                         *)
(* Only the current thread executes.  It is preempted where interrupts are *)
(* enabled: everywhere in a kernel thread, only outside system calls in a  *)
(* user thread -- except that wait() enables interrupts before it destroys *)
(* the child, so removal from the scheduler is preemptible for all.  A     *)
(* spinning thread calls run_sched(), which on x86 switches threads        *)
(* without sched_processes.  do_task_switch enables interrupts before it   *)
(* jumps into the thread it resumes; the thread's own flag comes back with *)
(* the iret a few instructions later.  In between a timer interrupt can be *)
(* taken by any thread, even on top of an unfinished one.                  *)
(*                                                                         *)
(* An append to _thread_queue is one step per store, because the timer     *)
(* interrupt pops the queue exactly while somebody holds its lock.  `queue`*)
(* is what completed appends and pops leave.  The code goes on when an     *)
(* interrupt pops between two stores of an append, when a thread is freed  *)
(* while it is listed, or when a walk stands on an item that is removed,   *)
(* with links that lead to null or into the other list.  The model records *)
(* which of them happened (harm) and stops: from there on nothing is said. *)
(*                                                                         *)
(* The other operations on _cpu_threads[0] are one step: the interrupt     *)
(* appends under its lock, and a removal is seen by the walks, which       *)
(* follow `next`, at its first store.                                      *)
(***************************************************************************)
EXTENDS Naturals, Sequences, SequencesExt, FiniteSetsExt

CONSTANTS
    Threads,        \* every kthread_t that may ever exist
    Idle,           \* the idle thread of CPU 0
    Main,           \* the first kernel thread, enqueued by init_multitasking
    Kernel,         \* threads that run in the kernel with interrupts enabled
    Creators,       \* threads that create others (add_task, thread_spawn, fork)
    Blockers,       \* threads that wait on condition variables
    Reapers,        \* threads that destroy exited threads (through wait())
    NoThread,       \* NULL
    TickNs,         \* what a timer interrupt adds to kerneltime
    LockTimeout,    \* the `ms` argument of the lock_for calls
    WaitCap         \* bound of the waiting times recorded

ASSUME SchedAssumption ==
    /\ Idle \in Threads /\ Main \in Threads /\ Idle # Main
    /\ Kernel \subseteq Threads /\ Idle \in Kernel /\ Reapers \subseteq Threads
    /\ Blockers \subseteq Threads \ {Idle} /\ Creators \subseteq Threads \ {Idle}
    /\ NoThread \notin Threads
    /\ TickNs \in Nat /\ LockTimeout \in Nat /\ WaitCap \in Nat
    /\ LockTimeout <= WaitCap

VARIABLES
    queue,      \* _thread_queue: created threads that have no CPU yet
    qlock,      \* _thread_queue.lock
    cpu,        \* _cpu_threads[0]
    cpulock,    \* _cpu_threads[0].lock
    curr,       \* _curr_thread[0]
    pc,         \* where each thread is in the scheduler's code
    arg,        \* the thread it is enqueueing or destroying
    waited,     \* kerneltime since a thread entered lock_for
    cond,       \* is thread->cond set?
    dead,       \* has the thread's process exited?
    isr,        \* the timer interrupts stacked on a thread that wait for the
                \* CPU list's lock: the item each popped and still holds
    fresh,      \* was the current thread just resumed by do_task_switch?
    harm        \* what was done to the links: "none"; "torn", another step on
                \* the queue in the middle of an append; "freed", a listed
                \* thread freed; "strayed", an item removed under a walk

vars == <<queue, qlock, cpu, cpulock, curr, pc, arg, waited, cond, dead, isr, fresh, harm>>

\* pc: "none" not created; "new" created, not enqueued; "run" outside the
\* scheduler; enq, append, the stores of the append (with how many are left;
\* "first" has found an empty list and has three), enq_unlock in
\* sched_enqueue_thread; find, rem, unlink, rem_unlock in sched_remove_thread;
\* "gone" freed.
Storing == {"first", "store4", "store3", "store2", "store1"}
Enqueueing == {"enq", "append"} \cup Storing
Removing == {"find", "rem", "unlink", "rem_unlock"}
PCs == {"none", "new", "run", "enq_unlock", "gone"} \cup Enqueueing \cup Removing

CanRun(t) == ~dead[t] /\ ~cond[t]

\* How many steps along the circular list s lead from a to b; a itself is last.
Ahead(s, a, b) ==
    LET At(t) == CHOOSE i \in DOMAIN s : s[i] = t
    IN (At(b) + Len(s) - At(a) - 1) % Len(s)

\* Is the timer interrupt taken while t runs?
IntrOn(t) ==
    /\ harm = "none"
    /\ fresh \/ (isr[t] = <<>> /\ (t \in Kernel \/ pc[t] \in {"run"} \cup Removing))

\* Is somebody between two accesses of an append to the queue?  One that has
\* stored nothing yet and found the list empty, as it still is, does not count.
HalfAppended ==
    \E t \in Threads : pc[t] \in Storing /\ ~(pc[t] = "first" /\ queue = <<>>)

\* After sched_idle_init and the add_task of init_multitasking.
Init ==
    /\ queue = <<Main>> /\ qlock = FALSE
    /\ cpu = <<Idle>> /\ cpulock = FALSE
    /\ curr = Idle
    /\ pc = [t \in Threads |-> IF t \in {Idle, Main} THEN "run" ELSE "none"]
    /\ arg = [t \in Threads |-> NoThread]
    /\ waited = [t \in Threads |-> 0]
    /\ cond = [t \in Threads |-> FALSE]
    /\ dead = [t \in Threads |-> FALSE]
    /\ isr = [t \in Threads |-> <<>>]
    /\ fresh = FALSE
    /\ harm = "none"

-----------------------------------------------------------------------------
(* do_task_switch: the context saved is the step the thread stands at.       *)

\* Mutant: the round starts at the head of the list instead of the current
\* thread.
SwitchFromHead(from) ==
    LET ready == {t \in ToSet(cpu') : CanRun(t)'} IN
    \E t \in ready :
        /\ \A u \in ready : Ahead(cpu', Last(cpu'), t) <= Ahead(cpu', Last(cpu'), u)
        /\ curr' = t /\ fresh' = TRUE

\* sched_next_process: the first thread after `from` that can run, `from`
\* itself last.  When there is none the code panics ("All tasks are blocked").
Switch(from) ==
    LET ready == {t \in ToSet(cpu') : CanRun(t)'} IN
    \E t \in ready :
        /\ \A u \in ready : Ahead(cpu', from, t) <= Ahead(cpu', from, u)
        /\ curr' = t /\ fresh' = TRUE

\* run_sched() while t spins or waits.
Yield(t) ==
    /\ UNCHANGED <<queue, qlock, cpu, cpulock, pc, arg, waited, isr, harm>>
    /\ Switch(t)

\* The links are not what the code goes by any more: the model stops.
Harm(what) ==
    /\ harm' = what
    /\ UNCHANGED <<queue, qlock, cpu, cpulock, curr, pc, arg, waited, cond, dead, isr, fresh>>

Running(t, label) == harm = "none" /\ curr = t /\ isr[t] = <<>> /\ pc[t] = label
Goto(t, label) == pc' = [pc EXCEPT ![t] = label]

-----------------------------------------------------------------------------
(* The timer interrupt.                                                      *)

Elapse == waited' = [t \in Threads |->
            IF pc[t] \in {"enq", "rem"}
            THEN IF waited[t] + TickNs < WaitCap THEN waited[t] + TickNs ELSE WaitCap
            ELSE waited[t]]

\* sched_processes, lock_try returning nonzero.  lock_try is 0 when the
\* exchange found the lock TAKEN, so this is the case in which the lock was
\* free: the interrupt takes it and returns without touching the queue.
TickTakesLock ==
    /\ IntrOn(curr) /\ ~qlock
    /\ qlock' = TRUE
    /\ Elapse
    /\ UNCHANGED <<queue, cpu, cpulock, pc, arg, cond, dead, isr, harm>>
    /\ Switch(curr)

\* Mutant: the lock is never released after the queue was emptied, and a
\* taken lock makes the interrupt return.
TickDrainsOnce ==
    /\ IntrOn(curr)
    /\ IF qlock THEN UNCHANGED <<queue, cpu>>
       ELSE cpu' = cpu \o Reverse(queue) /\ queue' = <<>>
    /\ qlock' = TRUE
    /\ Elapse
    /\ UNCHANGED <<cpulock, pc, arg, cond, dead, isr, harm>>
    /\ Switch(curr)

\* sched_processes, lock_try returning 0: the lock was taken, by an earlier
\* interrupt or by a thread inside sched_enqueue_thread.  The queue is popped
\* from its end, each thread is appended to the CPU's list (_schedule_thread,
\* _cpu_add_thread; with one CPU there is no choice), and the lock released.
TickDrains ==
    /\ IntrOn(curr) /\ qlock /\ ~HalfAppended
    /\ queue = <<>> \/ ~cpulock
    /\ cpu' = cpu \o Reverse(queue)
    /\ queue' = <<>>
    /\ qlock' = FALSE
    /\ Elapse
    /\ UNCHANGED <<cpulock, pc, arg, cond, dead, isr, harm>>
    /\ Switch(curr)

\* The same, when the CPU list's lock is taken by a thread that was preempted
\* in sched_remove_thread: llist_append spins inside the interrupt.
TickSpins ==
    /\ IntrOn(curr) /\ qlock /\ ~HalfAppended
    /\ queue # <<>> /\ cpulock
    /\ isr' = [isr EXCEPT ![curr] = Append(@, Last(queue))]
    /\ queue' = Front(queue)
    /\ Elapse
    /\ UNCHANGED <<qlock, cpu, cpulock, pc, arg, cond, dead, harm>>
    /\ Switch(curr)

\* The same in the middle of an append.  Before the third store the new thread
\* is lost, or a null pointer is popped; after it the thread is moved to the
\* CPU's list, where the last store puts null into its `next`.
TickTears ==
    /\ IntrOn(curr) /\ qlock /\ HalfAppended
    /\ Harm("torn")

\* Back in such an interrupt: the lock is still taken, run_sched() again ...
IsrSpin ==
    /\ harm = "none" /\ isr[curr] # <<>> /\ cpulock
    /\ UNCHANGED <<cond, dead>> /\ Yield(curr)

\* ... or it is free now, and the interrupt goes on with the rest of the queue.
IsrResume ==
    /\ harm = "none" /\ isr[curr] # <<>> /\ ~cpulock /\ ~HalfAppended
    /\ cpu' = Append(cpu, Last(isr[curr])) \o Reverse(queue)
    /\ queue' = <<>>
    /\ qlock' = FALSE
    /\ isr' = [isr EXCEPT ![curr] = Front(@)]
    /\ UNCHANGED <<cpulock, pc, arg, waited, cond, dead, harm>>
    /\ Switch(curr)

IsrTears ==
    /\ harm = "none" /\ isr[curr] # <<>> /\ ~cpulock /\ HalfAppended
    /\ Harm("torn")

Tick == TickTakesLock \/ TickDrains \/ TickSpins \/ TickTears

-----------------------------------------------------------------------------
(* sched_enqueue_thread, from add_task, thread_spawn and fork.               *)

Create(t, n) ==
    /\ Running(t, "run") /\ t \in Creators
    /\ pc[n] = "none"
    /\ pc' = [pc EXCEPT ![t] = "enq", ![n] = "new"]
    /\ arg' = [arg EXCEPT ![t] = n]
    /\ waited' = [waited EXCEPT ![t] = 0]
    /\ UNCHANGED <<queue, qlock, cpu, cpulock, curr, cond, dead, isr, harm>>
    /\ fresh' = FALSE

\* lock_for(&_thread_queue.lock, 2000): the exchange succeeds ...
EnqAcquire(t) ==
    /\ Running(t, "enq") /\ ~qlock
    /\ qlock' = TRUE
    /\ Goto(t, "append")
    /\ UNCHANGED <<queue, cpu, cpulock, curr, arg, waited, cond, dead, isr, harm>>
    /\ fresh' = FALSE

\* ... or fails after the deadline: sched_enqueue_thread returns -ETIMEDOUT,
\* which none of its callers looks at ...
EnqTimeout(t) ==
    /\ Running(t, "enq") /\ qlock
    /\ waited[t] >= LockTimeout
    /\ Goto(t, "run")
    /\ arg' = [arg EXCEPT ![t] = NoThread]
    /\ UNCHANGED <<queue, qlock, cpu, cpulock, curr, waited, cond, dead, isr, harm>>
    /\ fresh' = FALSE

\* ... or fails before it: run_sched().
EnqSpin(t) ==
    /\ Running(t, "enq") /\ qlock
    /\ waited[t] < LockTimeout
    /\ UNCHANGED <<cond, dead>> /\ Yield(t)

\* llist_append_unlocked reads list->list ...
EnqRead(t) ==
    /\ Running(t, "append")
    /\ \A u \in Threads : pc[u] \notin Storing
    /\ Goto(t, IF queue = <<>> THEN "first" ELSE "store4")
    /\ UNCHANGED <<queue, qlock, cpu, cpulock, curr, arg, waited, cond, dead, isr, harm>>
    /\ fresh' = FALSE

\* ... which another append, that has lost the lock as well, may be changing ...
EnqTears(t) ==
    /\ Running(t, "append")
    /\ \E u \in Threads : pc[u] \in Storing
    /\ Harm("torn")

\* ... and stores: into the last item's next, item->prev, the first item's prev
\* and item->next, or into list->list, item->next and item->prev.
Stored == [first |-> "store2", store4 |-> "store3", store3 |-> "store2", store2 |-> "store1"]
EnqStore(t) ==
    /\ \E label \in DOMAIN Stored : Running(t, label) /\ Goto(t, Stored[label])
    /\ UNCHANGED <<queue, qlock, cpu, cpulock, curr, arg, waited, cond, dead, isr, harm>>
    /\ fresh' = FALSE

\* Mutant: the thread is put on the CPU's list as well as in the queue.
EnqAppendTwice(t) ==
    /\ Running(t, "store1")
    /\ queue' = Append(queue, arg[t])
    /\ cpu' = Append(cpu, arg[t])
    /\ pc' = [pc EXCEPT ![t] = "enq_unlock", ![arg[t]] = "run"]
    /\ UNCHANGED <<qlock, cpulock, curr, arg, waited, cond, dead, isr, harm>>
    /\ fresh' = FALSE

\* The last store completes it.
EnqAppend(t) ==
    /\ Running(t, "store1")
    /\ queue' = Append(queue, arg[t])
    /\ pc' = [pc EXCEPT ![t] = "enq_unlock", ![arg[t]] = "run"]
    /\ UNCHANGED <<qlock, cpu, cpulock, curr, arg, waited, cond, dead, isr, harm>>
    /\ fresh' = FALSE

EnqUnlock(t) ==
    /\ Running(t, "enq_unlock")
    /\ qlock' = FALSE
    /\ Goto(t, "run")
    /\ arg' = [arg EXCEPT ![t] = NoThread]
    /\ UNCHANGED <<queue, cpu, cpulock, curr, waited, cond, dead, isr, harm>>
    /\ fresh' = FALSE

-----------------------------------------------------------------------------
(* sched_remove_thread, from thread_destroy, for a thread that has exited.   *)

Claimed == {arg[t] : t \in Threads}

\* llist_get_position without the lock: the walk from the first thread begins ...
RemFind(t, u) ==
    /\ Running(t, "run") /\ t \in Reapers
    /\ dead[u] /\ pc[u] # "gone" /\ u \notin Claimed
    /\ u \in ToSet(cpu)
    /\ Goto(t, "find")
    /\ arg' = [arg EXCEPT ![t] = u]
    /\ UNCHANGED <<queue, qlock, cpu, cpulock, curr, waited, cond, dead, isr, harm>>
    /\ fresh' = FALSE

\* ... and ends at u: go for the lock.
RemFound(t) ==
    /\ Running(t, "find")
    /\ Goto(t, "rem")
    /\ waited' = [waited EXCEPT ![t] = 0]
    /\ UNCHANGED <<queue, qlock, cpu, cpulock, curr, arg, cond, dead, isr, harm>>
    /\ fresh' = FALSE

RemAcquire(t) ==
    /\ Running(t, "rem") /\ ~cpulock
    /\ cpulock' = TRUE
    /\ Goto(t, "unlink")
    /\ UNCHANGED <<queue, qlock, cpu, curr, arg, waited, cond, dead, isr, harm>>
    /\ fresh' = FALSE

\* -ETIMEDOUT: thread_destroy frees the thread all the same, and the CPU's list
\* leads into memory that the next allocation hands out.
RemTimeout(t) ==
    /\ Running(t, "rem") /\ cpulock
    /\ waited[t] >= LockTimeout
    /\ Harm("freed")

RemSpin(t) ==
    /\ Running(t, "rem") /\ cpulock
    /\ waited[t] < LockTimeout
    /\ UNCHANGED <<cond, dead>> /\ Yield(t)

\* Mutant: the item at the 0-based position is taken for a 1-based one.
RemUnlinkBefore(t) ==
    /\ Running(t, "unlink")
    /\ \E i \in DOMAIN cpu :
          cpu[i] = arg[t] /\ cpu' = RemoveAt(cpu, IF i = 1 THEN 1 ELSE i - 1)
    /\ Goto(t, "rem_unlock")
    /\ UNCHANGED <<queue, qlock, cpulock, curr, arg, waited, cond, dead, isr, harm>>
    /\ fresh' = FALSE

RemUnlink(t) ==
    /\ Running(t, "unlink")
    /\ \E i \in DOMAIN cpu : cpu[i] = arg[t] /\ cpu' = RemoveAt(cpu, i)
    /\ Goto(t, "rem_unlock")
    /\ UNCHANGED <<queue, qlock, cpulock, curr, arg, waited, cond, dead, isr, harm>>
    /\ fresh' = FALSE

\* Another walk may stand on the item whose links are cleared.
Walked == \E v \in Threads : pc[v] = "find"
RemStrays(t) ==
    /\ Running(t, "unlink") /\ Walked
    /\ Harm("strayed")

RemUnlock(t) ==
    /\ Running(t, "rem_unlock")
    /\ cpulock' = FALSE
    /\ pc' = [pc EXCEPT ![t] = "run", ![arg[t]] = "gone"]
    /\ arg' = [arg EXCEPT ![t] = NoThread]
    /\ UNCHANGED <<queue, qlock, cpu, curr, waited, cond, dead, isr, harm>>
    /\ fresh' = FALSE

-----------------------------------------------------------------------------
(* What the rest of the kernel does to the scheduler's state.                *)

\* The end of cond_wait: thread->cond is set, then run_sched().
Block(t) ==
    /\ Running(t, "run") /\ t \in Blockers
    /\ cond' = [cond EXCEPT ![t] = TRUE]
    /\ UNCHANGED dead
    /\ Yield(t)

\* cond_signal, in a thread or in a timer event.
Signal(u) ==
    /\ IntrOn(curr) /\ cond[u]
    /\ cond' = [cond EXCEPT ![u] = FALSE]
    /\ UNCHANGED <<queue, qlock, cpu, cpulock, curr, pc, arg, waited, dead, isr, fresh, harm>>

\* exit(): the process is no longer runnable and calls run_sched() for ever.
Exit(t) ==
    /\ Running(t, "run") /\ t \notin {Idle, Main}
    /\ dead' = [dead EXCEPT ![t] = TRUE]
    /\ UNCHANGED cond
    /\ Yield(t)

\* execve: sched_replace_thread puts a new thread in the place of the calling
\* one, which is freed; then run_sched().  llist_remove spins while the list
\* is locked.
Exec(t, n) ==
    /\ Running(t, "run") /\ t \notin Kernel
    /\ pc[n] = "none" /\ ~cpulock
    /\ \E i \in DOMAIN cpu : cpu[i] = t /\ cpu' = Append(RemoveAt(cpu, i), n)
    /\ pc' = [pc EXCEPT ![t] = "gone", ![n] = "run"]
    /\ UNCHANGED <<queue, qlock, cpulock, arg, waited, cond, dead, isr, harm>>
    /\ Switch(n)

\* The same, under a walk that stands on the calling thread's item.
ExecStrays(t, n) ==
    /\ Running(t, "run") /\ t \notin Kernel
    /\ pc[n] = "none" /\ ~cpulock /\ Walked
    /\ Harm("strayed")

\* Once the links are harmed nothing more is said.
Harmed == harm # "none" /\ UNCHANGED vars

-----------------------------------------------------------------------------
Enqueue(t) ==
    \/ EnqAcquire(t) \/ EnqTimeout(t) \/ EnqSpin(t)
    \/ EnqRead(t) \/ EnqTears(t) \/ EnqStore(t) \/ EnqAppend(t) \/ EnqUnlock(t)
Removal(t) ==
    \/ RemFound(t) \/ RemAcquire(t) \/ RemTimeout(t) \/ RemSpin(t)
    \/ RemUnlink(t) \/ RemStrays(t) \/ RemUnlock(t)

\* What the current thread does of its own accord.
Call ==
    \E t \in Threads :
        \/ Block(t) \/ Signal(t) \/ Exit(t)
        \/ \E u \in Threads : Create(t, u) \/ RemFind(t, u) \/ Exec(t, u) \/ ExecStrays(t, u)

\* What it cannot put off once it is inside the scheduler.
Proceed == IsrSpin \/ IsrResume \/ IsrTears \/ (\E t \in Threads : Enqueue(t) \/ Removal(t))

Next == Tick \/ Call \/ Proceed \/ Harmed

Spec == Init /\ [][Next]_vars

\* A thread inside the scheduler keeps executing, and a timer interrupt that is
\* pending is taken when interrupts are enabled again (the PIC latches it), so
\* it suffices that they are enabled again and again.
FairSpec == Spec /\ WF_vars(Proceed) /\ SF_vars(Tick)
-----------------------------------------------------------------------------
(* Type invariant.                                                           *)
TypeOK ==
    /\ queue \in Seq(Threads) /\ qlock \in BOOLEAN
    /\ cpu \in Seq(Threads) /\ cpulock \in BOOLEAN
    /\ curr \in Threads
    /\ pc \in [Threads -> PCs]
    /\ arg \in [Threads -> Threads \cup {NoThread}]
    /\ waited \in [Threads -> 0..WaitCap]
    /\ cond \in [Threads -> BOOLEAN] /\ dead \in [Threads -> BOOLEAN]
    /\ isr \in [Threads -> Seq(Threads)]
    /\ fresh \in BOOLEAN
    /\ harm \in {"none", "torn", "freed", "strayed"}

NoRepeat(s) == \A i, j \in DOMAIN s : s[i] = s[j] => i = j

\* A thread is in no list and in no interrupt's hands.
Nowhere(u) ==
    /\ u \notin ToSet(queue) \cup ToSet(cpu)
    /\ \A t \in Threads : u \notin ToSet(isr[t])

Placed ==
    /\ NoRepeat(queue) /\ NoRepeat(cpu)
    /\ ToSet(queue) \cap ToSet(cpu) = {}
    /\ \A t \in Threads :
          /\ NoRepeat(isr[t])
          /\ ToSet(isr[t]) \cap ToSet(queue) = {}
          /\ ToSet(isr[t]) \cap ToSet(cpu) = {}
          /\ \A u \in Threads : u # t => ToSet(isr[t]) \cap ToSet(isr[u]) = {}
FreedNowhere == \A u \in Threads : pc[u] = "gone" => Nowhere(u)

(* As long as the links are whole, a thread is in at most one place, and     *)
(* there once: the queue, the CPU's list, or the hands of one unfinished     *)
(* interrupt; and a thread that was freed is in none of them.                *)
OnePlace == harm = "none" => Placed /\ FreedNowhere

(* As long as the links are whole, the panic "All tasks are blocked!" of     *)
(* sched_next_process is unreachable and its walk along the list ends: the   *)
(* current thread is on the CPU's list and so is a thread that can run,      *)
(* whatever blocks, exits or is destroyed.                                   *)
NeverAllBlocked ==
    harm = "none" =>
        /\ curr \in ToSet(cpu)
        /\ \E t \in ToSet(cpu) : CanRun(t)

\* A thread that is somewhere has been enqueued, or replaced another one.
ListedIsCreated ==
    /\ \A t \in ToSet(queue) \cup ToSet(cpu) : pc[t] \notin {"none", "new"}
    /\ \A t \in Threads : \A n \in ToSet(isr[t]) : pc[n] \notin {"none", "new"}

\* A thread being enqueued is nowhere yet and has one creator.
OneCreator ==
    \A t \in Threads : pc[t] \in Enqueueing =>
        /\ arg[t] \in Threads /\ pc[arg[t]] = "new"
        /\ \A u \in Threads : pc[u] \in Enqueueing /\ arg[u] = arg[t] => u = t

\* A thread being removed has exited; once it is unlinked it is nowhere.
RemovedIsDead ==
    \A t \in Threads : pc[t] \in Removing =>
        /\ t \in Reapers
        /\ arg[t] \in Threads /\ dead[arg[t]] /\ pc[arg[t]] \notin {"none", "new"}
        /\ pc[t] = "rem_unlock" => Nowhere(arg[t])

\* The lock of the CPU's list is held by a thread that is removing another.
CpuLockHeld == cpulock => \E t \in Threads : pc[t] \in {"unlink", "rem_unlock"}

\* An append by a thread with interrupts disabled is not interrupted.
MaskedAppends ==
    \A t \in Threads \ Kernel :
        /\ pc[t] \in Storing => curr = t /\ ~fresh /\ isr[t] = <<>>
        /\ pc[t] \in Enqueueing => t \in Creators

\* The idle thread stays on the CPU's list and can always run; so can the
\* current thread.
AlwaysReady ==
    /\ Idle \in ToSet(cpu) /\ CanRun(Idle)
    /\ curr \in ToSet(cpu) /\ CanRun(curr)

Consistent ==
    /\ Placed /\ FreedNowhere /\ ListedIsCreated /\ OneCreator
    /\ RemovedIsDead /\ CpuLockHeld /\ MaskedAppends /\ AlwaysReady

(* The inductive invariant behind OnePlace and NeverAllBlocked: what is      *)
(* listed was created, what is being created is nowhere, what is being       *)
(* removed has exited, a thread with interrupts disabled is alone while it   *)
(* appends, and the idle thread can run.                                     *)
SchedInv == TypeOK /\ (harm = "none" => Consistent)

(* A thread in the queue gets a CPU, although sched_processes takes the      *)
(* queue's lock on every other interrupt only to give it up on the next; or  *)
(* an interrupt pops the queue in the middle of an append, and it may not.   *)
QueuedIsScheduled ==
    \A t \in Threads : t \in ToSet(queue) ~> (t \in ToSet(cpu) \/ harm # "none")

(* Round robin starves nobody: a thread on the CPU's list that can run does, *)
(* or stops being able to, or the links are harmed.                          *)
RunnableRuns ==
    \A t \in Threads :
        (t \in ToSet(cpu) /\ CanRun(t)) ~> (curr = t \/ ~CanRun(t) \/ harm # "none")

(* sched_processes goes on only with the queue's lock in its hands (lock_try *)
(* returns "0 on success"), so it never finds an append half done.           *)
AppendsWhole == harm # "torn"

(* A thread is freed only when it is in no list of the scheduler.            *)
NoDanglingThread == harm # "freed"

(* A thread whose creator went on is known to the scheduler: add_task and    *)
(* thread_spawn report success only for a thread that will run.              *)
CreatedIsEnqueued ==
    \A n \in Threads : pc[n] = "new" => \E t \in Threads : arg[t] = n

(* The timer interrupt never waits for a lock.                               *)
IsrNeverWaits == \A t \in Threads : isr[t] = <<>>
=============================================================================
