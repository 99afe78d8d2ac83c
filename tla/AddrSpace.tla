----------------------------- MODULE AddrSpace -----------------------------
(***************************************************************************)
(* The memory of processes: page tables (kernel/src/mm/mmu.c, kernel/arch/ *)
(* x86/src/mm/mmu.c, paging.c), memory maps (mm.c, mmap.c) and what fork,  *)
(* execve and exit do with them (kernel/src/proc/fork.c, exec.c,           *)
(* elf_exec.c, proc.c, kernel/arch/x86/src/proc/tasking.c, stack.c).       *)
(*                                                                         *)
(* The unit is the page.  Frames 1..MaxFrames are the heap; every table    *)
(* maps the virtual page f to the frame f, for the kernel.  Frame 1 stands *)
(* for the kernel's own small blocks, the others are handed out in order:  *)
(* nothing gives the memory of a process back.  Above the frames are the   *)
(* pages of a program: its code, its stack and a free one.  (Code is one   *)
(* segment of at most a page; a stack has two pages.)                      *)
(*                                                                         *)
(* A handler runs in the table of the process that called it.  Another     *)
(* process has another table and other frames, so that a handler is one    *)
(* step.  What happens after the kernel has followed a bad pointer, or a   *)
(* program got hold of what is not its own (fault), is not followed        *)
(* further.                                                                *)
(***************************************************************************)
EXTENDS Naturals, Sequences

CONSTANTS
    MaxProcs,       \* bound: process structures at a time
    None,           \* no value
    MaxFrames,      \* bound: frames of the heap
    MaxStores,      \* bound: stores by programs
    Requests,       \* the <<address, writable>> that mmap is called with; 0: not MAP_FIXED
    WholeSegments,  \* do the segments of program files begin and end with a page?
    StoresArguments \* do programs write to their page of arguments?

Procs == 1 .. MaxProcs
InitProc == 1                   \* the process that becomes the first program
Frames == 1 .. MaxFrames
KernelHeap == 1
Code == MaxFrames + 1
Cell == MaxFrames + 2           \* bottom of the stack: argument block of the system call
Top == MaxFrames + 3            \* top of the stack
Fixed == MaxFrames + 4          \* a page that nothing uses
StackPages == {Cell, Top}
Pages == 1 .. Fixed
Program == 2
Values == {0, 1, Program}

ASSUME FrameBound == MaxFrames \in Nat /\ MaxFrames >= 3
ASSUME ProcsBound == MaxProcs \in Nat \ {0}
ASSUME CallsBound == MaxStores \in Nat /\ Requests \subseteq ({0} \union Pages) \X BOOLEAN
ASSUME NoneIsNoValue == None \notin Values

VARIABLES
    status,     \* of each process: "none", "kernel" before the first execve, "live", "zombie"
    tables,     \* kproc_t.mmu_table: of each process, what it maps at each page
    maps,       \* kproc_t.mmap: the entries [virt, phys], in order
    ended,      \* is the next pointer of the last entry NULL?
    arguments,  \* page of arguments made by execve
    mem,        \* what is in each frame
    mixed,      \* frames of programs whose page holds bytes of other blocks of the heap, too
    next,       \* the next frame the heap hands out
    stores,     \* stores so far
    fault       \* what has gone wrong, or "no"

vars == <<status, tables, maps, ended, arguments, mem, mixed, next, stores, fault>>

\* Nothing is followed from here on.
Stops(why) ==
    /\ fault' = why
    /\ UNCHANGED <<status, tables, maps, ended, arguments, mem, mixed, next, stores>>

-----------------------------------------------------------------------------
(* Page tables                                                             *)

\* A page table entry; frame 0 stands for one that is not present.
Entry(frame, write, user) == [frame |-> frame, write |-> write, user |-> user]
Absent == Entry(0, FALSE, FALSE)

\* init_alloc: the heap is mapped as it is, for the kernel.
KernelTable == [v \in Pages |-> IF v \in Frames THEN Entry(v, TRUE, FALSE) ELSE Absent]
NoTable == [v \in Pages |-> Absent]

\* mmu_map_table, of one page after another.
mmu_map_table(table, virt, phys, n, write, user) ==
    [v \in Pages |-> IF v \in virt .. virt + n - 1
                     THEN Entry(phys + (v - virt), write, user) ELSE table[v]]
mmu_unmap_table(table, virt, n) ==
    [v \in Pages |-> IF v \in virt .. virt + n - 1 THEN Absent ELSE table[v]]

\* mmu_map_get_table: is the page mapped, and may the kernel use it so?
Readable(table, v) == table[v].frame # 0
Writable(table, v) == table[v].frame # 0 /\ table[v].write

\* mmu_map, in the current table: a frame at its own address, open to the program.
mmu_map(table, f, write) == mmu_map_table(table, f, f, 1, write, TRUE)

\* Mutant: the kernel's part is left out.
CloneUser(table) == [v \in Pages |-> IF table[v].user THEN table[v] ELSE Absent]
\* mmu_clone_table: the same entries, in page tables of its own.
mmu_clone_table(table) == table

\* mmu_map_save and mmu_map_restore: an entry of the current table is put back, or
\* removed if there was none.
mmu_map_restore(table, v, saved) ==
    IF saved.frame = 0 THEN mmu_unmap_table(table, v, 1)
    ELSE mmu_map_table(table, v, saved.frame, 1, saved.write, saved.user)

\* What a handler works on: the tables, the frames, and whether it failed.
Machine(tabs, memory) == [tabs |-> tabs, mem |-> memory, failed |-> FALSE]

\* One round of mmu_copy_data in the table of cur: page v of src to page v of dst.  Both
\* frames are mapped where they are while the copy is made.
CopyPage(m, cur, dst, src, v) ==
    LET from == m.tabs[src][v].frame
        to == m.tabs[dst][v].frame
        here == m.tabs[cur]
        open == mmu_map(mmu_map(here, from, FALSE), to, TRUE)
        closed == mmu_map_restore(mmu_map_restore(open, from, here[from]), to, here[to])
    IN  IF m.failed \/ ~Readable(m.tabs[src], v) \/ ~Writable(m.tabs[dst], v)
        THEN [m EXCEPT !.failed = TRUE]
        ELSE IF from = to THEN m                                    \* "Data is shared"
        ELSE [m EXCEPT !.mem[open[to].frame] = m.mem[open[from].frame], !.tabs[cur] = closed]

\* Mutant: the value goes to the page of the current table.
WriteHere(m, cur, dst, v, x) == [m EXCEPT !.mem[m.tabs[cur][v].frame] = x]
\* mmu_write_data, of a value to page v of dst.
mmu_write_data(m, cur, dst, v, x) ==
    LET to == m.tabs[dst][v].frame
        here == m.tabs[cur]
        open == mmu_map(here, to, TRUE)
    IN  IF ~Writable(m.tabs[dst], v) THEN [m EXCEPT !.failed = TRUE]
        ELSE [m EXCEPT !.mem[open[to].frame] = x, !.tabs[cur] = mmu_map_restore(open, to, here[to])]
\* The kernel writes to a new frame where it finds it: at the address of the frame.
KernelWrite(m, cur, f, x) ==
    IF ~Writable(m.tabs[cur], f) THEN [m EXCEPT !.failed = TRUE]
    ELSE [m EXCEPT !.mem[m.tabs[cur][f].frame] = x]

\* syscall_service: the result goes to the argument block of the caller.
Return(m, p, x) == [m EXCEPT !.mem[m.tabs[p][Cell].frame] = x]

-----------------------------------------------------------------------------
(* fork                                                                    *)

\* proc_create_stack: new frames for the stack of p, from frame f on.
proc_create_stack(m, p, f, user) ==
    [m EXCEPT !.tabs[p] = mmu_map_table(@, Cell, f, 2, TRUE, user)]

\* proc_copy_stack.
proc_copy_stack(m, c, p) == CopyPage(CopyPage(m, p, c, p, Cell), p, c, p, Top)

\* proc_copy_data: of each entry of the parent's memory map a copy, in a block of its own that
\* is a page longer, so that it can be aligned.  "next" is set only in the entries that
\* another one follows.
CopiedMap(p, f) == [n \in DOMAIN maps[p] |-> [virt |-> maps[p][n].virt, phys |-> f + n - 1]]
CopyEntry(m, c, p, e) ==
    CopyPage([m EXCEPT !.tabs[c] = mmu_map_table(@, e.virt, e.phys, 1, TRUE, TRUE)],
             p, c, p, e.virt)
proc_copy_data(m, c, p, f) ==
    LET copied[n \in 0 .. Len(maps[p])] ==
            IF n = 0 THEN m ELSE CopyEntry(copied[n - 1], c, p, CopiedMap(p, f)[n])
    IN  copied[Len(maps[p])]

\* The block is not aligned.  Pages that mmap made are copied to pages inside of it; but a
\* segment that does not end with a page shares its last page, and one that does not begin
\* with a page its first, with the neighbours of its block.  The segment is the first entry.
MixedBy(f) == IF WholeSegments THEN {} ELSE {f}

\* The child finds 0 as the result.
arch_postfork_setup(m, c, p) == mmu_write_data(m, p, c, Cell, 0)

\* fork_clone_process, and the result of both.
Forked(p, c) ==
    LET cloned == Machine([tables EXCEPT ![c] = mmu_clone_table(tables[p])], mem)
        stack == proc_copy_stack(proc_create_stack(cloned, c, next, TRUE), c, p)
        copied == proc_copy_data(stack, c, p, next + 2)
    IN  Return(arch_postfork_setup(copied, c, p), p, 1)

Apply(m) ==
    /\ tables' = m.tabs /\ mem' = m.mem
    /\ fault' = IF m.failed THEN "page" ELSE "no"

\* A walk along the memory map of p that does not end: past the last entry is whatever
\* the block held before.
Lost(p) == ~ended[p] /\ Stops("list")

Runs(p) == status[p] = "live" /\ fault = "no"

fork(p) ==
    /\ Runs(p)
    /\ \/ Lost(p)
       \/ \E c \in Procs :
             /\ ended[p] /\ status[c] = "none"
             /\ \A q \in 1 .. c - 1 : status[q] # "none"
             /\ next + Len(maps[p]) + 1 <= MaxFrames
             /\ Apply(Forked(p, c))
             /\ maps' = [maps EXCEPT ![c] = CopiedMap(p, next + 2)]
             /\ \E e \in BOOLEAN : ended' = [ended EXCEPT ![c] = e]
             /\ arguments' = [arguments EXCEPT ![c] = arguments[p]]
             /\ mixed' = mixed \union MixedBy(next + 2)
             /\ next' = next + Len(maps[p]) + 2
             /\ status' = [status EXCEPT ![c] = "live"]
             /\ UNCHANGED stores

-----------------------------------------------------------------------------
(* execve                                                                  *)

\* elf_read_phdr: the segment of the file in frame f, mapped at its address.
elf_read_phdr(m, p, f) == KernelWrite(m, p, f, Program)
\* elf_exec_common: the segments; the symbols go to blocks of the kernel's.  The programs are
\* linked statically, so that no dynamic section is read (in the old table).
elf_exec_common(m, p, f) == elf_read_phdr(m, p, f)

\* Mutant: the new table is made from one that a program uses.
LoadedOver(f) == mmu_map_table(tables[InitProc], Code, f, 1, TRUE, TRUE)
LoadedTable(f) == mmu_map_table(mmu_clone_table(KernelTable), Code, f, 1, TRUE, TRUE)

\* _store_arguments: a copy in a block of the heap, which becomes visible in the old table.
StoreArguments(m, p) == [m EXCEPT !.tabs[p] = mmu_map(@, KernelHeap, TRUE)]

\* _exec_copy_arguments: a page of arguments in the new table, in no memory map.
CopyArguments(m, p, table, f) ==
    [KernelWrite(m, p, f, 1) EXCEPT !.tabs[p] = mmu_map(table, f, TRUE)]

\* The arguments are pushed, in the new table.
arch_setup_user_stack(m, p) == [m EXCEPT !.mem[m.tabs[p][Top].frame] = 1]

\* _exec_replace_process_image: the table of the program, with a new stack, takes the place
\* of the old one.
Executed(p) ==
    LET loaded == elf_exec_common(Machine(tables, mem), p, next)
        arged == CopyArguments(StoreArguments(loaded, p), p, LoadedTable(next), next + 3)
    IN  arch_setup_user_stack(proc_create_stack(arged, p, next + 1, TRUE), p)

\* exec_elf refuses the file: for its header, or, when the segment is loaded, for its entry
\* point.  The new table and the frame are lost, and the program goes on with an error.
ExecFails(p) ==
    /\ Runs(p)
    /\ \/ Apply(Return(Machine(tables, mem), p, 1)) /\ UNCHANGED next
       \/ /\ next <= MaxFrames
          /\ Apply(Return(elf_exec_common(Machine(tables, mem), p, next), p, 1))
          /\ next' = next + 1
    /\ UNCHANGED <<status, maps, ended, arguments, mixed, stores>>

execve(p) ==
    /\ status[p] \in {"kernel", "live"} /\ fault = "no"
    /\ next + 3 <= MaxFrames
    /\ Apply(Executed(p))
    /\ maps' = [maps EXCEPT ![p] = << [virt |-> Code, phys |-> next] >>]
    /\ ended' = [ended EXCEPT ![p] = TRUE]
    /\ arguments' = [arguments EXCEPT ![p] = next + 3]
    /\ next' = next + 4
    /\ status' = [status EXCEPT ![p] = "live"]
    /\ UNCHANGED <<mixed, stores>>

-----------------------------------------------------------------------------
(* mmap, munmap, exit and what programs do                                 *)

mm_proc_mmap_add(map, phys, virt) == Append(map, [virt |-> virt, phys |-> phys])

\* What the kernel uses in the table of p, wherever it is: its own blocks and the frames it
\* will hand out; and what it built for the program, the stack and the arguments.
Relied(p) == {KernelHeap, arguments[p]} \union StackPages \union (next + 1 .. MaxFrames)

\* mmap: a frame of the heap, at its own address or at the one that was asked for, whatever
\* is there.  A program that asks for an address that the kernel relies on gets it.
mmap(p, addr, write) ==
    LET virt == IF addr = 0 THEN next ELSE addr IN
    /\ Runs(p)
    /\ \/ Lost(p)
       \/ virt \in Relied(p) /\ Stops("taken")
       \/ /\ ended[p] /\ next <= MaxFrames /\ virt \notin Relied(p)
          /\ Apply(Return(Machine([tables EXCEPT ![p] = mmu_map_table(@, virt, next, 1, write, TRUE)], mem), p, 1))
          /\ maps' = [maps EXCEPT ![p] = mm_proc_mmap_add(@, next, virt)]
          /\ next' = next + 1
          /\ UNCHANGED <<status, ended, arguments, mixed, stores>>

\* There is no memory for mmap, for a stack or for execve, which do not look: what they were
\* given is the address 0.  mmap maps the first page of the memory, open to the program, and
\* at the null pointer unless the program said where; execve writes there.
NoMemory(p) == status[p] \in {"kernel", "live"} /\ fault = "no" /\ Stops("null")

\* munmap does nothing.
munmap(p) ==
    /\ Runs(p)
    /\ Apply(Return(Machine(tables, mem), p, 0))
    /\ UNCHANGED <<status, maps, ended, arguments, mixed, next, stores>>

\* The pages a program may use.
UserPages(p) == {v \in Pages : tables[p][v].user}

\* A program changes what is in a page that it may write.
Store(p, v, x) ==
    /\ Runs(p) /\ stores < MaxStores
    /\ tables[p][v].write /\ mem[tables[p][v].frame] # x
    /\ v = arguments[p] => StoresArguments
    /\ mem' = [mem EXCEPT ![tables[p][v].frame] = x]
    /\ stores' = stores + 1
    /\ UNCHANGED <<status, tables, maps, ended, arguments, mixed, next, fault>>

\* A program changes what is beside its segment, in the same page: a block of the kernel's, or
\* the segment of another program.
StoreBeside(p, v) == Runs(p) /\ tables[p][v].write /\ tables[p][v].frame \in mixed /\ Stops("heap")

\* exit; the kernel stops when the first program does.
exit(p) ==
    /\ Runs(p) /\ p # InitProc
    /\ status' = [status EXCEPT ![p] = "zombie"]
    /\ UNCHANGED <<tables, maps, ended, arguments, mem, mixed, next, stores, fault>>

\* _handle_page_fault: the kernel knows the process, so that it asks for its end; no page is
\* mapped by a fault.
_handle_page_fault(p) == {v \in Pages : ~tables[p][v].user \/ ~tables[p][v].write} # {}

\* handle_exception, of a program that uses a page that it may not: it exits.
handle_exception(p) == _handle_page_fault(p) /\ exit(p)

\* proc_destroy, when the parent waits for it: the table and the memory map go, not the memory.
proc_destroy(p) ==
    /\ status[p] = "zombie" /\ fault = "no"
    /\ status' = [status EXCEPT ![p] = "none"]
    /\ tables' = [tables EXCEPT ![p] = NoTable]
    /\ maps' = [maps EXCEPT ![p] = <<>>]
    /\ ended' = [ended EXCEPT ![p] = TRUE]
    /\ arguments' = [arguments EXCEPT ![p] = 0]
    /\ UNCHANGED <<mem, mixed, next, stores, fault>>

\* add_task made the process that becomes the first program: a copy of the kernel's table,
\* with a stack for the kernel.
Init ==
    /\ status = [p \in Procs |-> IF p = InitProc THEN "kernel" ELSE "none"]
    /\ tables = [p \in Procs |-> IF p = InitProc
                    THEN mmu_map_table(mmu_clone_table(KernelTable), Cell, 2, 2, TRUE, FALSE)
                    ELSE NoTable]
    /\ maps = [p \in Procs |-> <<>>]
    /\ ended = [p \in Procs |-> TRUE]
    /\ arguments = [p \in Procs |-> 0]
    /\ mem = [f \in Frames |-> 0] /\ mixed = {}
    /\ next = 4 /\ stores = 0 /\ fault = "no"

Next ==
    \E p \in Procs :
        \/ fork(p) \/ execve(p) \/ ExecFails(p) \/ munmap(p) \/ exit(p) \/ handle_exception(p) \/ proc_destroy(p)
        \/ NoMemory(p)
        \/ \E r \in Requests : mmap(p, r[1], r[2])
        \/ \E v \in UserPages(p), x \in {0, 1} : Store(p, v, x)
        \/ \E v \in UserPages(p) : StoreBeside(p, v)

Spec == Init /\ [][Next]_vars

-----------------------------------------------------------------------------
(* Properties                                                              *)

MapEntry == [virt : Pages, phys : Frames]

TypeOK ==
    /\ status \in [Procs -> {"none", "kernel", "live", "zombie"}]
    /\ \A p \in Procs : \A v \in Pages :
          tables[p][v] \in [frame : 0 .. MaxFrames, write : BOOLEAN, user : BOOLEAN]
    /\ \A p \in Procs : \A n \in DOMAIN maps[p] : maps[p][n] \in MapEntry
    /\ ended \in [Procs -> BOOLEAN]
    /\ arguments \in [Procs -> 0 .. MaxFrames]
    /\ mem \in [Frames -> Values] /\ mixed \subseteq Frames
    /\ next \in 4 .. MaxFrames + 1
    /\ stores \in 0 .. MaxStores
    /\ fault \in {"no", "list", "page", "taken", "null", "heap"}

Used(p) == status[p] # "none"
Live == {p \in Procs : status[p] = "live"}

\* No copy ever meets a page that is not mapped.  And until a program takes an address of
\* the kernel's with MAP_FIXED, or memory is exhausted, the kernel finds the frames it will
\* hand out, and its own blocks, at their addresses in whatever table it runs, and the
\* programs have no page there: execve fills a new frame, and kmalloc's blocks are used,
\* without mapping them first.
KernelReachable ==
    /\ TypeOK
    /\ fault # "page"
    /\ fault = "no" => \A p \in Procs : Used(p) =>
          \A f \in {KernelHeap} \union (next .. MaxFrames) : tables[p][f] = Entry(f, TRUE, FALSE)

FramesOf(p, pages) == {tables[p][v].frame : v \in pages}

\* Two processes share no frame but the one of the arguments, which fork leaves to both.
FramesPrivate ==
    \A p, q \in Live : p # q =>
        FramesOf(p, UserPages(p) \ {arguments[p]}) \intersect FramesOf(q, UserPages(q)) = {}

\* A program has pages for its code, its stack, its arguments and what it mapped, at the frames
\* its memory map says, and no others: no page that fork opened for a copy stays open, nothing
\* of the program before execve is left, and no frame is another program's.  The one page
\* through which it may reach bytes of others is that of a segment that fork has copied.
UserPagesOwned == fault = "no" =>
    /\ FramesPrivate
    /\ \A p \in Live :
        /\ \A v \in UserPages(p) : tables[p][v].frame \in mixed => v = Code
        /\ UserPages(p) = {arguments[p]} \union StackPages \union {maps[p][n].virt : n \in DOMAIN maps[p]}
        /\ \A n \in DOMAIN maps[p] :
              (\A k \in n + 1 .. Len(maps[p]) : maps[p][k].virt # maps[p][n].virt)
                  => tables[p][maps[p][n].virt].frame = maps[p][n].phys

\* What kproc.h says of the last entry of a memory map.
MapEnds == \A p \in Live : ended[p]

\* A null pointer is caught, as paging_init means it to be; no program gets at an address of
\* the kernel's; none gets at the heap beside its segment.
NullCaught == fault # "null"
KernelKept == fault # "taken"
HeapKept == fault # "heap"

\* fork, execve and mmap keep the promise of a memory per process, as long as the programs
\* keep to their segments and take no address of the kernel's, and memory lasts.
Private == INSTANCE Memory WITH
    live <- Live,
    space <- [p \in Procs |-> [v \in Pages |->
                 IF p \in Live /\ tables[p][v].user THEN mem[tables[p][v].frame] ELSE None]]
MemoryKept == Private!Spec
=============================================================================
