------------------------------- MODULE LList -------------------------------
(***************************************************************************)
(* The kernel's circular doubly linked list, kernel/src/data/llist.c, at   *)
(* the granularity at which another thread can observe it: the stores that *)
(* change `list->list` or an item's `next` are steps of their own, because *)
(* kernel threads are preempted between them and every iterator in the     *)
(* kernel (proc_by_pid, thread_by_tid, kinput_task, find_file, ...) walks  *)
(* a list without taking its lock.  Stores to `prev` are joined to the     *)
(* neighbouring step: only the lock holder reads `prev`.                   *)
(*                                                                         *)
(* Lists have two kinds of client, fixed for the life of a list by `kind`: *)
(*   "registry"  appended to and removed from  (procs, a CPU's threads,    *)
(*               loaded_modules, devfs files)                              *)
(*   "stack"     appended to and popped        (_thread_queue, cond->list) *)
(***************************************************************************)
EXTENDS Naturals, Sequences, FiniteSets, SequencesExt

CONSTANTS
    Items,          \* the llist_item_t's that exist
    Writers,        \* threads that append, remove or pop
    Readers,        \* threads that iterate
    NULL,           \* the null pointer
    RemoveHead,     \* when a registry's client removes the first item:
                    \*   "never"  procs and a CPU's threads, which start with
                    \*            the idle entry
                    \*   "lone"   proc->threads of a single-threaded process,
                    \*            which one thread at a time works on
                    \*   "any"    proc->threads, loaded_modules, devfs files
    Modes           \* values of `preemptible` to start from

ASSUME LListAssumption ==
    /\ IsFiniteSet(Items) /\ NULL \notin Items
    /\ Writers \cap Readers = {}
    /\ RemoveHead \in {"never", "lone", "any"}
    /\ Modes \subseteq BOOLEAN

VARIABLES
    kind,       \* how the clients use this list
    preemptible,\* are the threads kernel threads, switched by the timer between
                \* any two steps, or in system calls, with interrupts disabled?
    list,       \* list->list: the first item or NULL
    next,       \* item->next
    prev,       \* item->prev
    locked,     \* list->lock
    pc,         \* what each thread is doing
    arg,        \* the item a writer works on
    iter,       \* a reader's llist_iterator_t
    visited,    \* the items llist_iterate has handed to a reader so far
    contents    \* history: the sequence the completed operations amount to

vars == <<kind, preemptible, list, next, prev, locked, pc, arg, iter, visited, contents>>

Threads == Writers \cup Readers
Pointer == Items \cup {NULL}
WriterPC == {"idle", "append", "remove", "pop", "close", "self", "clear",
             "unlock", "fault"}
Held == [append |-> "append_held", remove |-> "remove_held", pop |-> "pop_held"]
Linking == {"append_held", "remove_held", "pop_held", "close", "self", "clear",
            "unlock"}

-----------------------------------------------------------------------------
(* Reading a list.  Walk[n] is list->list followed by n next pointers.      *)

Walk[n \in 0..Cardinality(Items)] ==
    IF n = 0 THEN list
    ELSE IF Walk[n - 1] = NULL THEN NULL ELSE next[Walk[n - 1]]

\* Following next from the first item comes back to it.
Closed == list # NULL /\ \E n \in 1..Cardinality(Items) : Walk[n] = list

\* llist_count: the number of steps until the first item is reached again.
llist_count ==
    IF list = NULL THEN 0
    ELSE CHOOSE n \in 1..Cardinality(Items) :
            /\ Walk[n] = list
            /\ \A m \in 1..(n - 1) : Walk[m] # list

\* llist_get: the item at index idx, NULL beyond the end.
llist_get(idx) == IF list = NULL \/ idx >= llist_count THEN NULL ELSE Walk[idx]

\* llist_get_position: index of an item, -EINVAL (here llist_count) if it is
\* not in the list.  The code dereferences list->list, so it needs one.
llist_get_position(item) ==
    LET found == {n \in 0..(llist_count - 1) : Walk[n] = item}
    IN IF found = {} THEN llist_count ELSE CHOOSE n \in found : TRUE

-----------------------------------------------------------------------------
Init ==
    /\ kind \in {"registry", "stack"}
    /\ preemptible \in Modes
    /\ list = NULL
    /\ next = [i \in Items |-> NULL]
    /\ prev = [i \in Items |-> NULL]
    /\ locked = FALSE
    /\ pc = [t \in Threads |-> "idle"]
    /\ arg = [w \in Writers |-> NULL]
    /\ iter = [r \in Readers |-> [first |-> NULL, curr |-> NULL]]
    /\ visited = [r \in Readers |-> <<>>]
    /\ contents = <<>>

Goto(t, label) == pc' = [pc EXCEPT ![t] = label]

\* A thread enters the list code: in a system call, only when no other thread
\* is inside.
Enter(t) ==
    /\ pc[t] = "idle"
    /\ preemptible \/ \A u \in Threads : pc[u] = "idle"

\* Items some writer has already claimed: an item is added or removed by the
\* one thread that owns it.
Claimed == {arg[w] : w \in Writers}

\* A thread calls llist_append with an item that is in no list.
CallAppend(w) ==
    /\ Enter(w)
    /\ \E i \in Items \ (ToSet(contents) \cup Claimed) :
          arg' = [arg EXCEPT ![w] = i]
    /\ Goto(w, "append")
    /\ UNCHANGED <<kind, preemptible, list, next, prev, locked, iter, visited, contents>>

\* A thread calls llist_remove with a member of a registry.
CallRemove(w) ==
    /\ kind = "registry"
    /\ Enter(w)
    /\ \E i \in ToSet(contents) \ Claimed :
          /\ \/ i # Head(contents)
             \/ RemoveHead = "any"
             \/ RemoveHead = "lone" /\ Len(contents) = 1 /\ ~preemptible
          /\ arg' = [arg EXCEPT ![w] = i]
    /\ Goto(w, "remove")
    /\ UNCHANGED <<kind, preemptible, list, next, prev, locked, iter, visited, contents>>

\* A thread starts popping a stack (cond_signal, sched_processes).
CallPop(w) ==
    /\ kind = "stack"
    /\ Enter(w)
    /\ Goto(w, "pop")
    /\ UNCHANGED <<kind, preemptible, list, next, prev, locked, arg, iter, visited, contents>>

\* Mutant: the lock is taken without looking at what the exchange returned.
LockUnchecked(w) ==
    /\ \E op \in {"append", "remove", "pop"} :
          pc[w] = op /\ Goto(w, Held[op])
    /\ locked' = TRUE
    /\ UNCHANGED <<kind, preemptible, list, next, prev, arg, iter, visited, contents>>

\* lock(&list->lock): the exchange that finds the lock free.
Lock(w) ==
    /\ ~locked
    /\ \E op \in {"append", "remove", "pop"} :
          pc[w] = op /\ Goto(w, Held[op])
    /\ locked' = TRUE
    /\ UNCHANGED <<kind, preemptible, list, next, prev, arg, iter, visited, contents>>

\* llist_append_unlocked, list->list set: the last item and the first are
\* linked to the new one; its own next is stored by AppendClose.
AppendLink(w) ==
    /\ pc[w] = "append_held" /\ list # NULL
    /\ IF prev[list] = NULL
       THEN Goto(w, "fault") /\ UNCHANGED <<next, prev>>
       ELSE /\ next' = [next EXCEPT ![prev[list]] = arg[w]]
            /\ prev' = [prev EXCEPT ![arg[w]] = prev[list], ![list] = arg[w]]
            /\ Goto(w, "close")
    /\ UNCHANGED <<kind, preemptible, list, locked, arg, iter, visited, contents>>

\* Mutant: append does not store the new item's next.
AppendCloseOpen(w) ==
    /\ pc[w] = "close"
    /\ contents' = Append(contents, arg[w])
    /\ Goto(w, "unlock")
    /\ UNCHANGED <<kind, preemptible, list, next, prev, locked, arg, iter, visited>>

AppendClose(w) ==
    /\ pc[w] = "close"
    /\ next' = [next EXCEPT ![arg[w]] = list]
    /\ contents' = Append(contents, arg[w])
    /\ Goto(w, "unlock")
    /\ UNCHANGED <<kind, preemptible, list, prev, locked, arg, iter, visited>>

\* llist_append_unlocked, empty list: list->list is stored before the item
\* points to itself.
AppendFirst(w) ==
    /\ pc[w] = "append_held" /\ list = NULL
    /\ list' = arg[w]
    /\ Goto(w, "self")
    /\ UNCHANGED <<kind, preemptible, next, prev, locked, arg, iter, visited, contents>>

AppendSelf(w) ==
    /\ pc[w] = "self"
    /\ next' = [next EXCEPT ![arg[w]] = arg[w]]
    /\ prev' = [prev EXCEPT ![arg[w]] = arg[w]]
    /\ contents' = Append(contents, arg[w])
    /\ Goto(w, "unlock")
    /\ UNCHANGED <<kind, preemptible, list, locked, arg, iter, visited>>

\* llist_remove_unlocked up to the two resets.  list->list moves only when the
\* test for a lone item succeeds.
RemoveUnlink(w) ==
    LET i == arg[w] IN
    /\ pc[w] = "remove_held"
    /\ IF list = NULL
       THEN Goto(w, "unlock") /\ UNCHANGED <<list, next, prev>>
       ELSE IF list = i /\ next[i] = prev[i]
       THEN list' = NULL /\ Goto(w, "clear") /\ UNCHANGED <<next, prev>>
       ELSE IF NULL \in {next[i], prev[i]}
       THEN Goto(w, "fault") /\ UNCHANGED <<list, next, prev>>
       ELSE /\ next' = [next EXCEPT ![prev[i]] = next[i]]
            /\ prev' = [prev EXCEPT ![next[i]] = prev[i]]
            /\ Goto(w, "clear")
            /\ UNCHANGED list
    /\ UNCHANGED <<kind, preemptible, locked, arg, iter, visited, contents>>

\* What the list amounts to without one of its items.
Without(i) == RemoveAt(contents, CHOOSE k \in DOMAIN contents : contents[k] = i)

RemoveClear(w) ==
    /\ pc[w] = "clear"
    /\ next' = [next EXCEPT ![arg[w]] = NULL]
    /\ prev' = [prev EXCEPT ![arg[w]] = NULL]
    /\ contents' = Without(arg[w])
    /\ Goto(w, "unlock")
    /\ UNCHANGED <<kind, preemptible, list, locked, arg, iter, visited>>

\* Mutant: pop forgets to make the new last item point to the first.
PopLastOpen(w) ==
    /\ pc[w] = "pop_held"
    /\ IF list = NULL THEN UNCHANGED <<list, prev, contents>>
       ELSE LET item == prev[list] IN
            /\ IF list = item
               THEN list' = NULL /\ UNCHANGED prev
               ELSE prev' = [prev EXCEPT ![list] = prev[item]] /\ UNCHANGED list
            /\ contents' = Front(contents)
    /\ Goto(w, "unlock")
    /\ UNCHANGED <<kind, preemptible, next, locked, arg, iter, visited>>

\* llist_pop_unlocked: takes the last item, and leaves that item's own
\* pointers as they were.
PopLast(w) ==
    /\ pc[w] = "pop_held"
    /\ IF list = NULL THEN UNCHANGED <<list, next, prev, contents>>
       ELSE LET item == prev[list] IN
            /\ IF list = item
               THEN list' = NULL /\ UNCHANGED <<next, prev>>
               ELSE /\ prev' = [prev EXCEPT ![list] = prev[item]]
                    /\ next' = [next EXCEPT ![prev[item]] = list]
                    /\ UNCHANGED list
            /\ contents' = Front(contents)
    /\ Goto(w, "unlock")
    /\ UNCHANGED <<kind, preemptible, locked, arg, iter, visited>>

Unlock(w) ==
    /\ pc[w] = "unlock"
    /\ locked' = FALSE
    /\ arg' = [arg EXCEPT ![w] = NULL]
    /\ Goto(w, "idle")
    /\ UNCHANGED <<kind, preemptible, list, next, prev, iter, visited, contents>>

\* llist_iterator_init, without the lock.
IteratorInit(r) ==
    /\ Enter(r)
    /\ iter' = [iter EXCEPT ![r] = [first |-> list, curr |-> NULL]]
    /\ visited' = [visited EXCEPT ![r] = <<>>]
    /\ Goto(r, "iterate")
    /\ UNCHANGED <<kind, preemptible, list, next, prev, locked, arg, contents>>

\* The item the next call of llist_iterate looks at.
Upcoming(r) == IF iter[r].curr = NULL THEN iter[r].first ELSE next[iter[r].curr]

\* llist_iterate returns 0: there is no list, or it is back at the first item.
IterateEnd(r) ==
    /\ pc[r] = "iterate"
    /\ \/ iter[r].first = NULL
       \/ iter[r].curr # NULL /\ Upcoming(r) = iter[r].first
    /\ Goto(r, "done")
    /\ UNCHANGED <<kind, preemptible, list, next, prev, locked, arg, iter, visited, contents>>

\* Mutant: the iterator starts behind the first item.
IterateItemSkip(r) ==
    LET curr == IF iter[r].curr = NULL /\ iter[r].first # NULL
                THEN next[iter[r].first] ELSE Upcoming(r) IN
    /\ pc[r] = "iterate"
    /\ iter[r].first # NULL
    /\ iter[r].curr = NULL \/ curr # iter[r].first
    /\ IF curr = NULL
       THEN Goto(r, "panic") /\ UNCHANGED <<iter, visited>>
       ELSE /\ iter' = [iter EXCEPT ![r].curr = curr]
            /\ visited' = [visited EXCEPT ![r] = Append(@, curr)]
            /\ UNCHANGED pc
    /\ UNCHANGED <<kind, preemptible, list, next, prev, locked, arg, contents>>

\* llist_iterate hands out an item, or panics on a null pointer.  A reader
\* that loops is cut off after a full round of all items (the bound of
\* `visited`).
IterateItem(r) ==
    LET curr == Upcoming(r) IN
    /\ pc[r] = "iterate"
    /\ iter[r].first # NULL
    /\ iter[r].curr = NULL \/ curr # iter[r].first
    /\ Len(visited[r]) <= Cardinality(Items)
    /\ IF curr = NULL
       THEN Goto(r, "panic") /\ UNCHANGED <<iter, visited>>
       ELSE /\ iter' = [iter EXCEPT ![r].curr = curr]
            /\ visited' = [visited EXCEPT ![r] = Append(@, curr)]
            /\ UNCHANGED pc
    /\ UNCHANGED <<kind, preemptible, list, next, prev, locked, arg, contents>>

\* The reader leaves its loop.
IterateReturn(r) ==
    /\ pc[r] = "done"
    /\ Goto(r, "idle")
    /\ iter' = [iter EXCEPT ![r] = [first |-> NULL, curr |-> NULL]]
    /\ visited' = [visited EXCEPT ![r] = <<>>]
    /\ UNCHANGED <<kind, preemptible, list, next, prev, locked, arg, contents>>

WriterNext(w) ==
    \/ CallAppend(w) \/ CallRemove(w) \/ CallPop(w)
    \/ Lock(w) \/ Unlock(w)
    \/ AppendLink(w) \/ AppendClose(w) \/ AppendFirst(w) \/ AppendSelf(w)
    \/ RemoveUnlink(w) \/ RemoveClear(w) \/ PopLast(w)

ReaderNext(r) ==
    IteratorInit(r) \/ IterateItem(r) \/ IterateEnd(r) \/ IterateReturn(r)

Next == (\E w \in Writers : WriterNext(w)) \/ (\E r \in Readers : ReaderNext(r))

Spec == Init /\ [][Next]_vars
-----------------------------------------------------------------------------
(* Type invariant; an item is never in the list twice.                      *)
TypeOK ==
    /\ kind \in {"registry", "stack"} /\ preemptible \in BOOLEAN
    /\ list \in Pointer
    /\ next \in [Items -> Pointer]
    /\ prev \in [Items -> Pointer]
    /\ locked \in BOOLEAN
    /\ pc \in [Threads -> WriterPC \cup Linking \cup {"iterate", "done", "panic"}]
    /\ arg \in [Writers -> Pointer]
    /\ iter \in [Readers -> [first : Pointer, curr : Pointer]]
    /\ visited \in [Readers -> Seq(Items)]
    /\ contents \in Seq(Items)
    /\ IsInjective(contents)

(* Whenever the lock is free, walking the pointers from list->list visits   *)
(* exactly the items the completed appends, removes and pops leave, in      *)
(* order, and each prev undoes a next: llist_remove really takes its item   *)
(* out and nothing else.                                                    *)
ListIsContents ==
    ~locked =>
        IF contents = <<>> THEN list = NULL
        ELSE /\ Closed
             /\ llist_count = Len(contents)
             /\ \A k \in 1..Len(contents) :
                   /\ llist_get(k - 1) = contents[k]
                   /\ llist_get_position(contents[k]) = k - 1
                   /\ prev[next[contents[k]]] = contents[k]

(* The lock is held by at most one thread at a time, and whoever is in the  *)
(* middle of changing pointers holds it.                                    *)
OneLinker ==
    /\ \A w, u \in Writers : {pc[w], pc[u]} \subseteq Linking => w = u
    /\ (\E w \in Writers : pc[w] \in Linking) => locked

(* A writer's item is its own, and is in the list or not as its operation   *)
(* expects.                                                                 *)
Ownership ==
    /\ \A w, u \in Writers : arg[w] = arg[u] /\ arg[w] # NULL => w = u
    /\ \A w \in Writers :
         /\ pc[w] \in {"idle", "pop", "pop_held"} => arg[w] = NULL
         /\ pc[w] \in {"pop", "pop_held"} => kind = "stack"
         /\ pc[w] \in {"append", "append_held", "close", "self"} =>
               arg[w] \in Items \ ToSet(contents)
         /\ pc[w] \in {"remove", "remove_held", "clear"} =>
               /\ kind = "registry" /\ arg[w] \in ToSet(contents)
               /\ \/ RemoveHead = "any"
                  \/ arg[w] # Head(contents)
                  \/ ~preemptible /\ Len(contents) = 1

(* In system calls one thread at a time is in the list code.                *)
Alone ==
    ~preemptible => \A t, u \in Threads : pc[t] # "idle" /\ pc[u] # "idle" => t = u

(* list->list and the next and prev pointers make a ring of the sequence s. *)
After(k, s) == IF k = Len(s) THEN 1 ELSE k + 1
IsRing(s) ==
    /\ list = IF s = <<>> THEN NULL ELSE Head(s)
    /\ \A k \in 1..Len(s) :
          next[s[k]] = s[After(k, s)] /\ prev[s[After(k, s)]] = s[k]

(* The first item of the list stays first: nobody removes it while there    *)
(* are others, or the list is a stack.                                      *)
HeadStays == kind = "stack" \/ RemoveHead # "any"

(* Append has linked its item behind the last one, and has yet to store the *)
(* item's own next.                                                         *)
ClosePending(i) ==
    /\ contents # <<>> /\ list = Head(contents)
    /\ \A k \in 1..(Len(contents) - 1) :
          next[contents[k]] = contents[k + 1] /\ prev[contents[k + 1]] = contents[k]
    /\ next[contents[Len(contents)]] = i /\ prev[i] = contents[Len(contents)]
    /\ prev[list] = i

(* The pointers at each step of an operation: they make a ring of what the  *)
(* completed operations leave, except where append has yet to close it.     *)
LinkedAt(w) ==
    /\ pc[w] = "close" => ClosePending(arg[w])
    /\ pc[w] = "self" => contents = <<>> /\ list = arg[w]
    /\ pc[w] = "clear" => IsRing(Without(arg[w]))
    /\ pc[w] # "fault"
Linked ==
    /\ (\A w \in Writers : pc[w] \notin {"close", "self", "clear"}) => IsRing(contents)
    /\ \A w \in Writers : LinkedAt(w)

(* A reader that nobody disturbs has been handed the list up to its         *)
(* iterator's position.                                                     *)
IteratingAt(r) ==
    /\ pc[r] # "panic"
    /\ pc[r] \in {"iterate", "done"} =>
         /\ iter[r].first = list
         /\ visited[r] = SubSeq(contents, 1, Len(visited[r]))
         /\ Len(visited[r]) <= Len(contents)
         /\ iter[r].curr = IF visited[r] = <<>> THEN NULL ELSE Last(visited[r])
    /\ pc[r] = "done" => Len(visited[r]) = Len(contents)
Iterating == \A r \in Readers : IteratingAt(r)

(* The lock is exclusive, the items have owners, and while the head stays   *)
(* the pointers are linked, and in system calls iterators keep up with them.*)
ListInv ==
    /\ TypeOK
    /\ OneLinker
    /\ Ownership
    /\ Alone
    /\ HeadStays => Linked
    /\ HeadStays /\ ~preemptible => Iterating

(* An iteration inside a system call, which nobody disturbs, hands out      *)
(* every item of the list exactly once, in order.                           *)
IterationIsContents ==
    ~preemptible => \A r \in Readers : pc[r] = "done" => visited[r] = contents

(* The kpanic of llist_iterate ("iter->curr = NULL") and a null pointer in  *)
(* the linking code are never reached.                                      *)
NoNullLink == \A t \in Threads : pc[t] \notin {"panic", "fault"}

(* The same where it holds: in system calls, and for the threads that take  *)
(* the list's lock.                                                         *)
LockedNeverFaults ==
    \A t \in Threads : t \in Writers \/ ~preemptible => pc[t] \notin {"panic", "fault"}
=============================================================================
