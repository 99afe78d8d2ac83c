------------------------------- MODULE Delay -------------------------------
(***************************************************************************)
(* Sleeping: delay (kernel/src/time/delay.c), the time blocks and          *)
(* time_update (kernel/src/time/time.c), cond_wait and cond_signal         *)
(* (kernel/src/proc/cond.c) and the allocator's lock that all of them take *)
(* (kernel/src/mm/alloc.c), in kernel threads on one CPU.                  *)
(*                                                                         *)
(* delay() disables interrupts and nobody enables them again: the thread   *)
(* is `masked` from its first delay() on and is switched only where it     *)
(* yields.  The timer interrupt runs the expired events itself, so         *)
(* cond_signal and its kfree() run on top of whatever was interrupted.     *)
(*                                                                         *)
(* Memory never runs out here: delay() panics without its cond_t.          *)
(***************************************************************************)
EXTENDS Naturals, Sequences, SequencesExt, FiniteSetsExt

CONSTANTS
    Ring,           \* _cpu_threads[0]: the threads in list order, idle first
    Sleepers,       \* threads that loop on delay(): the main task, kinput, ...
    Reapers,        \* threads in wait(), which enables interrupts and then
                    \* frees the child's memory
    Modes,          \* which sleepers have been through a delay() before, and
                    \* whether the reapers run
    MaxBlocks,      \* MAX_TIME_BLOCKS
    Delays,         \* the lengths slept, in ns
    TickNs,         \* what a timer interrupt adds to kerneltime
    MaxNested,      \* bound: interrupts caught on top of one another in a thread
    Nobody

Threads == ToSet(Ring)
Slots == 1..MaxBlocks

ASSUME DelayAssumption ==
    /\ Ring \in Seq(Threads) /\ Ring # <<>> /\ IsInjective(Ring)
    /\ Sleepers \subseteq Threads \ {Ring[1]}
    /\ Reapers \subseteq Threads \ ({Ring[1]} \cup Sleepers)
    /\ Modes # {} /\ Modes \subseteq [masked : SUBSET Sleepers, reaping : BOOLEAN]
    /\ MaxBlocks \in Nat /\ MaxNested \in Nat /\ TickNs \in Nat \ {0} /\ Delays \subseteq Nat
    /\ Nobody \notin Threads

VARIABLES
    mode,       \* the member of Modes this behaviour starts in
    curr,       \* the running thread
    fresh,      \* was it just resumed, with interrupts enabled, by do_task_switch?
    pc,         \* where each thread is in delay() or kfree()
    masked,     \* did the thread disable interrupts?
    alloc,      \* alloc_lock
    blocks,     \* _time_blocks: whose cond to signal, and end - kerneltime
    waiting,    \* threads with an item in their cond's list
    blocked,    \* threads whose thread->cond is set
    isr         \* timer interrupts stacked on a thread that wait for alloc_lock:
                \* the index of the time block each stands at

vars == <<mode, curr, fresh, pc, masked, alloc, blocks, waiting, blocked, isr>>

\* delay(): kmalloc(cond), add_time_block, kmalloc(item), append and block,
\* kfree(cond).  A reaper only goes through "free".
Held == [cond |-> "cond_held", item |-> "item_held", asleep |-> "free_held",
         free |-> "free_held"]
After == [cond_held |-> "arm", item_held |-> "append", free_held |-> "run"]
PCs == {"run", "arm", "append", "panic"} \cup DOMAIN Held \cup DOMAIN After

FreeBlock == [owner |-> Nobody, left |-> 0]
Expired(b, i) == b[i].owner # Nobody /\ b[i].left = 0

Init ==
    /\ mode \in Modes
    /\ curr = Ring[1] /\ fresh = FALSE
    /\ pc = [t \in Threads |-> "run"]
    /\ masked = [t \in Threads |-> t \in mode.masked]
    /\ alloc = FALSE
    /\ blocks = [i \in Slots |-> FreeBlock]
    /\ waiting = {} /\ blocked = {}
    /\ isr = [t \in Threads |-> <<>>]

\* do_task_switch: the first thread behind `from` on the list that can run.
Switch(from) ==
    LET At(t) == CHOOSE i \in DOMAIN Ring : Ring[i] = t
        Ahead(t) == (At(t) + Len(Ring) - At(from) - 1) % Len(Ring)
        ready == Threads \ blocked'
    IN /\ \E t \in ready : curr' = t /\ \A u \in ready : Ahead(t) <= Ahead(u)
       /\ fresh' = TRUE

\* Is the timer interrupt taken while t runs?
IntrOn(t) == fresh \/ (isr[t] = <<>> /\ ~masked[t])

-----------------------------------------------------------------------------
(* The timer interrupt.                                                      *)

\* Mutant: the time block is not given back.
EventsKept(b, from) ==
    LET fired == {i \in from..MaxBlocks : Expired(b, i)}
        caught == {i \in fired : alloc /\ b[i].owner \in waiting}
        last == IF caught = {} THEN MaxBlocks ELSE Min(caught)
        woken == {b[i].owner : i \in {j \in fired : j <= last}}
    IN /\ blocks' = b
       /\ waiting' = waiting \ woken
       /\ blocked' = blocked \ (woken \cap waiting)
       /\ isr' = [isr EXCEPT ![curr] = IF caught = {} THEN @ ELSE Append(@, last)]

\* The loop of time_update over the blocks b, from index `from` on: an expired
\* block is given back and its event run (_do_time_block_timeup, _time_over).
\* cond_signal wakes a thread that is in the cond's list and then frees the list
\* item, which waits if the allocator's lock is taken.
Events(b, from) ==
    LET fired == {i \in from..MaxBlocks : Expired(b, i)}
        caught == {i \in fired : alloc /\ b[i].owner \in waiting}
        last == IF caught = {} THEN MaxBlocks ELSE Min(caught)
        woken == {b[i].owner : i \in {j \in fired : j <= last}}
    IN /\ blocks' = [i \in Slots |-> IF i \in fired /\ i <= last THEN FreeBlock ELSE b[i]]
       /\ waiting' = waiting \ woken
       /\ blocked' = blocked \ (woken \cap waiting)
       /\ isr' = [isr EXCEPT ![curr] = IF caught = {} THEN @ ELSE Append(@, last)]

Elapsed == [i \in Slots |->
    [blocks[i] EXCEPT !.left = IF @ > TickNs THEN @ - TickNs ELSE 0]]

Tick ==
    /\ IntrOn(curr) /\ Len(isr[curr]) < MaxNested
    /\ Events(Elapsed, 1)
    /\ UNCHANGED <<mode, pc, masked, alloc>>
    /\ Switch(curr)

\* A caught interrupt is resumed: the lock is still taken ...
IsrSpin ==
    /\ isr[curr] # <<>> /\ alloc
    /\ UNCHANGED <<mode, pc, masked, alloc, blocks, waiting, blocked, isr>>
    /\ Switch(curr)

\* ... or free: the item is freed and the loop goes on.
IsrResume ==
    LET next == Last(isr[curr]) + 1
        fired == {i \in next..MaxBlocks : Expired(blocks, i)}
        woken == {blocks[i].owner : i \in fired}
    IN /\ isr[curr] # <<>> /\ ~alloc
       /\ blocks' = [i \in Slots |-> IF i \in fired THEN FreeBlock ELSE blocks[i]]
       /\ waiting' = waiting \ woken
       /\ blocked' = blocked \ (woken \cap waiting)
       /\ isr' = [isr EXCEPT ![curr] = Front(@)]
       /\ UNCHANGED <<mode, pc, masked, alloc>>
       /\ Switch(curr)

-----------------------------------------------------------------------------
(* The threads.                                                              *)

Running(t, labels) == curr = t /\ isr[t] = <<>> /\ pc[t] \in labels
Goto(t, label) == pc' = [pc EXCEPT ![t] = label]

CallDelay(t) ==
    /\ t \in Sleepers /\ Running(t, {"run"})
    /\ Goto(t, "cond") /\ fresh' = FALSE
    /\ UNCHANGED <<mode, curr, masked, alloc, blocks, waiting, blocked, isr>>

CallFree(t) ==
    /\ mode.reaping /\ t \in Reapers /\ Running(t, {"run"})
    /\ Goto(t, "free") /\ fresh' = FALSE
    /\ UNCHANGED <<mode, curr, masked, alloc, blocks, waiting, blocked, isr>>

\* kmalloc and kfree: lock(&alloc_lock) finds the lock free ...
Acquire(t) ==
    /\ Running(t, DOMAIN Held) /\ ~alloc
    /\ alloc' = TRUE
    /\ Goto(t, Held[pc[t]]) /\ fresh' = FALSE
    /\ UNCHANGED <<mode, curr, masked, blocks, waiting, blocked, isr>>

\* ... or taken: run_sched().
Spin(t) ==
    /\ Running(t, DOMAIN Held) /\ alloc
    /\ UNCHANGED <<mode, pc, masked, alloc, blocks, waiting, blocked, isr>>
    /\ Switch(t)

Release(t) ==
    /\ Running(t, DOMAIN After)
    /\ alloc' = FALSE
    /\ Goto(t, After[pc[t]]) /\ fresh' = FALSE
    /\ UNCHANGED <<mode, curr, masked, blocks, waiting, blocked, isr>>

\* Mutant: interrupts are disabled, but no time block is set up.
ArmNothing(t) ==
    /\ Running(t, {"arm"})
    /\ masked' = [masked EXCEPT ![t] = TRUE]
    /\ Goto(t, "item") /\ fresh' = FALSE
    /\ UNCHANGED <<mode, curr, alloc, blocks, waiting, blocked, isr>>

\* disable_interrupts(); add_time_block() in the first free block.
Arm(t) ==
    LET free == {i \in Slots : blocks[i].owner = Nobody} IN
    /\ Running(t, {"arm"})
    /\ masked' = [masked EXCEPT ![t] = TRUE]
    /\ IF free = {} THEN Goto(t, "panic") /\ UNCHANGED blocks
       ELSE /\ \E d \in Delays :
                 blocks' = [blocks EXCEPT ![Min(free)] = [owner |-> t, left |-> d]]
            /\ Goto(t, "item")
    /\ fresh' = FALSE
    /\ UNCHANGED <<mode, curr, alloc, waiting, blocked, isr>>

\* Mutant: the thread blocks without having joined the cond's list.
SleepUnlisted(t) ==
    /\ Running(t, {"append"})
    /\ blocked' = blocked \cup {t}
    /\ Goto(t, "asleep")
    /\ UNCHANGED <<mode, masked, alloc, blocks, waiting, isr>>
    /\ Switch(t)

\* The rest of cond_wait: join the list, set thread->cond, run_sched().
Sleep(t) ==
    /\ Running(t, {"append"})
    /\ waiting' = waiting \cup {t}
    /\ blocked' = blocked \cup {t}
    /\ Goto(t, "asleep")
    /\ UNCHANGED <<mode, masked, alloc, blocks, isr>>
    /\ Switch(t)

Step(t) ==
    \/ CallDelay(t) \/ CallFree(t)
    \/ Acquire(t) \/ Spin(t) \/ Release(t) \/ Arm(t) \/ Sleep(t)
    \/ curr = t /\ (IsrSpin \/ IsrResume)

Next == Tick \/ \E t \in Threads : Step(t)

Spec == Init /\ [][Next]_vars

\* A pending timer interrupt is taken once interrupts are enabled often enough;
\* interrupts are 10 ms apart, so a thread that is resumed again and again is
\* not caught each time in the few instructions before its iret.
FairSpec == Spec /\ SF_vars(Tick) /\ \A t \in Threads : SF_vars(Step(t))
-----------------------------------------------------------------------------
(* Type invariant.                                                           *)
TypeOK ==
    /\ mode \in Modes
    /\ curr \in Threads /\ fresh \in BOOLEAN
    /\ pc \in [Threads -> PCs]
    /\ \A t \in Threads \ Sleepers : pc[t] \in {"run", "free", "free_held"}
    /\ masked \in [Threads -> BOOLEAN]
    /\ alloc \in BOOLEAN
    /\ blocks \in [Slots -> [owner : Threads \cup {Nobody}, left : Nat]]
    /\ waiting \subseteq Sleepers /\ blocked \subseteq Sleepers
    /\ isr \in [Threads -> Seq(Slots)]

Holds(t) == pc[t] \in DOMAIN After

(* A thread that sleeps in delay() has a time block that will wake it: no    *)
(* wakeup is lost between add_time_block and the end of cond_wait.           *)
SleeperHasEvent ==
    \A t \in blocked : t \in waiting /\ \E i \in Slots : blocks[i].owner = t

(* The allocator's lock has one holder, and is free when it has none.        *)
AllocExclusive ==
    /\ alloc <=> \E t \in Threads : Holds(t)
    /\ \A t, u \in Threads : Holds(t) /\ Holds(u) => t = u

(* A time block belongs to one thread that is between add_time_block and its *)
(* wakeup, and no thread has two: who runs in delay() after its wait, or has *)
(* not armed its block yet, has none.                                        *)
BlocksOwned ==
    /\ curr \notin blocked
    /\ \A i, j \in Slots : blocks[i].owner = blocks[j].owner /\ blocks[i].owner # Nobody
                            => i = j
    /\ \A i \in Slots : LET t == blocks[i].owner IN t # Nobody =>
         \/ pc[t] \in {"item", "item_held", "append"}
         \/ pc[t] = "asleep" /\ t \in blocked \cap waiting

(* With as many time blocks as sleepers, add_time_block finds a free one:    *)
(* a block is given back before its sleeper can sleep again, even though it  *)
(* is the interrupt, and not the sleeper, that gives it back.                *)
NeverOutOfBlocks ==
    Cardinality(Sleepers) <= MaxBlocks => \A t \in Threads : pc[t] # "panic"

(* Every thread that uses the allocator runs with interrupts disabled: all   *)
(* sleepers have been through delay() before, and nobody is in wait().       *)
Quiet == mode.masked = Sleepers /\ ~mode.reaping

(* delay() waits until the time has run out, and then returns, if every      *)
(* thread that uses the allocator has interrupts disabled.                   *)
DelayReturns == \A t \in Sleepers : (Quiet /\ pc[t] = "asleep") ~> pc[t] = "run"

(* kfree() frees and returns: a thread that has the allocator's lock in      *)
(* proc_destroy gives it up again, whatever interrupts it.                   *)
FreeReturns == \A t \in Reapers : pc[t] = "free_held" ~> pc[t] = "run"

(* What holds from add_time_block to the end of cond_wait while every        *)
(* allocating thread runs with interrupts disabled: the thread keeps the     *)
(* CPU, because the allocator's lock is never contended and no interrupt     *)
(* gets in between.                                                          *)
Undisturbed ==
    /\ \A t \in Threads : isr[t] = <<>>
    /\ \A t \in Threads : Holds(t) => curr = t /\ ~fresh
    /\ \A t \in Sleepers : masked[t]
    /\ \A t \in Sleepers : pc[t] \in {"item", "item_held", "append"} =>
           curr = t /\ ~fresh /\ \E i \in Slots : blocks[i].owner = t
    /\ \A t \in Threads \ Sleepers : pc[t] = "run"
    /\ SleeperHasEvent

(* The allocator's lock is exclusive, whoever interrupts whom, a thread has  *)
(* a time block only while it waits for it, and no wakeup of delay() is lost *)
(* while every allocating thread runs with interrupts disabled.              *)
SleepInv ==
    /\ TypeOK
    /\ AllocExclusive
    /\ BlocksOwned
    /\ Quiet => Undisturbed
=============================================================================
