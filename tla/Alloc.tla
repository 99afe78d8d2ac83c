------------------------------- MODULE Alloc -------------------------------
(***************************************************************************)
(* The memory allocators of the kernel, kernel/src/mm/alloc.c, and of user *)
(* programs, user/lib/src/stdlib/alloc.c: tables of entries that describe  *)
(* free and used memory, a best-fit search, splitting, merging when a      *)
(* block is freed, and the allocation of further tables.  The kernel's     *)
(* operations run under alloc_lock (see Delay for the lock) and a program  *)
(* has one thread, so each operation is one step.                          *)
(*                                                                         *)
(* The two share their algorithm; user tells them apart where they differ. *)
(* The tables are one sequence of slots, TableLen per table, in the order  *)
(* of the code's two loops.  A kernel panic, or the page fault of a        *)
(* program, empties it.                                                    *)
(***************************************************************************)
EXTENDS Naturals, Sequences, SequencesExt, FiniteSetsExt

CONSTANTS
    Base, Size,     \* the memory given to init_alloc
    Requests,       \* the <<size, alignment>> pairs kamalloc is called with
    UserSizes,      \* the sizes malloc and realloc of a program are called with
    UserSize,       \* the memory of a program's allocator, also from Base on
    MinAlign,       \* MIN_ALIGN of the user library
    TableLen,       \* ALLOC_BLOCK
    EntryBytes,     \* sizeof(struct alcent)
    MaxTables,      \* bound: number of tables (ALLOC_BLOCKS)
    Garbage         \* entries that uninitialised memory may look like: the
                    \* memory of a new table is not cleared

ASSUME AllocAssumption ==
    /\ {Base, Size, UserSize} \subseteq Nat /\ TableLen \in Nat \ {0} /\ EntryBytes \in Nat \ {0}
    /\ Requests \subseteq (Nat \ {0}) \X (Nat \ {0})
    /\ UserSizes \subseteq Nat \ {0} /\ MaxTables \in Nat /\ MinAlign \in Nat \ {0}

Entry == [valid : BOOLEAN, used : BOOLEAN, addr : Nat, size : Nat]
NoEntry == [valid |-> FALSE, used |-> FALSE, addr |-> 0, size |-> 0]

VARIABLES
    allocs,     \* the entries of all tables
    tables,     \* the memory of the tables made by _alloc_new_block
    held,       \* blocks handed out and not freed: [addr, size]
    user        \* is it a program's allocator?

vars == <<allocs, tables, held, user>>

H == INSTANCE Heap WITH Requests <- Requests \cup (UserSizes \X {MinAlign}),
                         Size <- Max({Size, UserSize})
Bytes(b) == H!Bytes(b)

MemorySize == IF user THEN UserSize ELSE Size
ValidIn(tab) == {k \in DOMAIN tab : tab[k].valid}
Panicked == allocs = <<>>

-----------------------------------------------------------------------------
(* The helpers of alloc.c.  Slot 0 stands for the index 0xFFFFFFFF.          *)

Unused(addr, size) == [valid |-> TRUE, used |-> FALSE, addr |-> addr, size |-> size]
Used(addr, size) == [valid |-> TRUE, used |-> TRUE, addr |-> addr, size |-> size]

\* add_alloc: the first invalid slot, or a panic.
add_alloc(tab, e) ==
    LET empty == DOMAIN tab \ ValidIn(tab)
    IN IF empty = {} THEN <<>> ELSE [tab EXCEPT ![Min(empty)] = e]

\* _add_alloc of the user library: without such a slot the entry is forgotten.
_add_alloc(tab, e) ==
    LET empty == DOMAIN tab \ ValidIn(tab)
    IN IF empty = {} THEN tab ELSE [tab EXCEPT ![Min(empty)] = e]

AddEntry(tab, e) == IF user THEN _add_alloc(tab, e) ELSE add_alloc(tab, e)

\* How far addr is from the next multiple of align.
Offset(addr, align) == (align - (addr % align)) % align

\* _find_hole: the smallest unused block that holds sz bytes at the alignment,
\* the first of several.
find_hole(tab, sz, align) ==
    LET fits == {k \in ValidIn(tab) :
                    ~tab[k].used /\ tab[k].size >= sz + Offset(tab[k].addr, align)}
        best == {k \in fits : \A l \in fits : tab[k].size <= tab[l].size}
    IN IF fits = {} THEN 0 ELSE Min(best)

\* _empty_slots, of the table that slot k is in.
empty_slots(tab, k) ==
    LET first == ((k - 1) \div TableLen) * TableLen
    IN Cardinality(((first + 1)..(first + TableLen)) \ ValidIn(tab))

\* The entries without the sz bytes at slot k, which the caller enters as used
\* (the second component).
Split(tab, k, sz, align) ==
    LET hole == tab[k]
        off == Offset(hole.addr, align)
        rest == hole.size - (sz + off)
    IN IF hole.size = sz THEN [tab EXCEPT ![k].used = TRUE]
       ELSE IF off = 0
       THEN AddEntry([tab EXCEPT ![k] = Unused(@.addr + sz, @.size - sz)],
                      Used(hole.addr, sz))
       ELSE LET tail == IF rest > 0
                        THEN AddEntry(tab, Unused(hole.addr + sz + off, rest))
                        ELSE tab
            IN IF tail = <<>> THEN <<>>
               ELSE AddEntry([tail EXCEPT ![k].size = off], Used(hole.addr + off, sz))

\* Mutant: merges with a used neighbour, too.
rm_alloc_used(tab, k) ==
    LET addr == tab[k].addr
        size == tab[k].size
        next == {n \in ValidIn(tab) :
                    tab[n].addr + size = addr \/ tab[n].addr = addr + size}
    IN IF next = {} THEN [tab EXCEPT ![k].used = FALSE]
       ELSE [tab EXCEPT ![Min(next)].size = @ + size,
                        ![Min(next)].addr = IF @ > addr THEN addr ELSE @,
                        ![k] = NoEntry]

\* rm_alloc: the block is merged with the first unused one that starts where it
\* ends, or that starts its own size before it, whatever that one's size is.  The code
\* clears only `valid`; nothing reads the rest of an invalid entry.
rm_alloc(tab, k) ==
    LET addr == tab[k].addr
        size == tab[k].size
        next == {n \in ValidIn(tab) :
                    /\ tab[n].addr + size = addr \/ tab[n].addr = addr + size
                    /\ ~tab[n].used}
    IN IF next = {} THEN [tab EXCEPT ![k].used = FALSE]
       ELSE [tab EXCEPT ![Min(next)].size = @ + size,
                        ![Min(next)].addr = IF @ > addr THEN addr ELSE @,
                        ![k] = NoEntry]

\* _alloc_new_block: a new table in the first part of the best hole, or a panic.  The user
\* library looks for an aligned hole, but takes the first part, too; without one it goes on
\* as before.
TableBytes == TableLen * EntryBytes
NoTable(tab) == [mem |-> {}, entries |-> tab, slots |-> 0]
TableAt(tab, k) ==
    [mem |-> {[addr |-> tab[k].addr, size |-> TableBytes]},
     entries |-> Split(tab, k, TableBytes, 1), slots |-> TableLen]
NewTable(tab) ==
    LET k == find_hole(tab, TableBytes, 1) IN
    IF k = 0 THEN NoTable(<<>>) ELSE TableAt(tab, k)
NewUserTable(tab) ==
    LET k == find_hole(tab, TableBytes, MinAlign) IN
    IF k = 0 THEN NoTable(tab) ELSE TableAt(tab, k)

\* What the new table's slots may hold before anything is written to them.
FreshSlots(n) == [1..n -> {NoEntry} \cup Garbage]

-----------------------------------------------------------------------------
Init ==
    /\ user \in BOOLEAN
    /\ allocs = AddEntry([k \in 1..TableLen |-> NoEntry], Unused(Base, MemorySize))
    /\ tables = {} /\ held = {}

\* Mutant: the address of the hole is returned, not that of the aligned block.
TakenAtHole(tab, sz, align) ==
    LET k == find_hole(tab, sz, align) IN
    IF k = 0
    THEN [entries |-> tab, block |-> {}]
    ELSE [entries |-> Split(tab, k, sz, align), block |-> {[addr |-> tab[k].addr, size |-> sz]}]

\* The end of kamalloc, on the entries tab: NULL, or a block.
TakenFrom(tab, sz, align) ==
    LET k == find_hole(tab, sz, align) IN
    IF k = 0
    THEN [entries |-> tab, block |-> {}]
    ELSE LET after == Split(tab, k, sz, align)
             b == [addr |-> tab[k].addr + Offset(tab[k].addr, align), size |-> sz]
         IN  [entries |-> after, block |-> IF after = <<>> THEN {} ELSE {b}]

Take(tab, sz, align) ==
    LET t == TakenFrom(tab, sz, align)
    IN allocs' = t.entries /\ held' = held \cup t.block

\* Must a new table be made before a block is taken?
NeedsTable(sz, align) ==
    LET k == find_hole(allocs, sz, align) IN k # 0 /\ empty_slots(allocs, k) = 4

\* kamalloc when the hole's table does not have exactly four empty slots ...
kamalloc(sz, align) ==
    /\ ~user /\ ~Panicked
    /\ ~NeedsTable(sz, align)
    /\ Take(allocs, sz, align)
    /\ UNCHANGED <<tables, user>>

\* ... and when it has: a new table comes first.
kamalloc_new_table(sz, align) ==
    LET t == NewTable(allocs) IN
    /\ ~user /\ ~Panicked
    /\ NeedsTable(sz, align) /\ Cardinality(tables) + 1 < MaxTables
    /\ IF t.entries = <<>>
       THEN allocs' = <<>> /\ UNCHANGED <<tables, held>>
       ELSE \E slots \in FreshSlots(t.slots) :
               /\ Take(t.entries \o slots, sz, align)
               /\ tables' = tables \cup t.mem
    /\ UNCHANGED user

\* The valid entries with the block's address; the first is the one freed.
EntriesAt(tab, b) == {n \in ValidIn(tab) : tab[n].addr = b.addr}

\* kfree of an address without an entry panics.
kfree(b) ==
    LET at == EntriesAt(allocs, b) IN
    /\ ~user /\ ~Panicked
    /\ allocs' = IF at = {} THEN <<>> ELSE rm_alloc(allocs, Min(at))
    /\ held' = held \ {b}
    /\ UNCHANGED <<tables, user>>

-----------------------------------------------------------------------------
(* The user library.  Its helpers are the kernel's but for _add_alloc and  *)
(* the new table.                                                          *)

_find_hole(tab, sz) == find_hole(tab, sz, MinAlign)
_empty_slots(tab, k) == empty_slots(tab, k)
_rm_alloc(tab, k) == rm_alloc(tab, k)
_find_addr(tab, b) == EntriesAt(tab, b)
_free(tab, b) == LET at == _find_addr(tab, b) IN IF at = {} THEN tab ELSE _rm_alloc(tab, Min(at))

\* _alloc: what malloc(sz) makes of the entries, with the table it may add first.
_alloc(sz) ==
    LET k == _find_hole(allocs, sz)
        t == IF k # 0 /\ _empty_slots(allocs, k) = 4 THEN NewUserTable(allocs) ELSE NoTable(allocs)
    IN  {[TakenFrom(t.entries \o slots, sz, MinAlign) EXCEPT !.entries = <<@, t.mem>>] :
            slots \in FreshSlots(t.slots)}

\* The bound on tables.
RoomForTables == Cardinality(tables) + 1 < MaxTables

malloc(sz) ==
    /\ user /\ ~Panicked
    /\ \E a \in _alloc(sz) :
          /\ a.entries[2] # {} => RoomForTables
          /\ allocs' = a.entries[1] /\ tables' = tables \cup a.entries[2]
          /\ held' = held \cup a.block
    /\ UNCHANGED user

free(b) ==
    /\ user /\ ~Panicked
    /\ allocs' = _free(allocs, b)
    /\ held' = held \ {b}
    /\ UNCHANGED <<tables, user>>

\* realloc(b, sz): a new block, a copy of the old one's contents, and the old one is freed.
\* Without a new block the copy goes to address 0: the program is killed.  A size of 0 is a
\* free, no old block a malloc, and a block without an entry changes nothing.
realloc(b, sz) ==
    /\ user /\ ~Panicked
    /\ _find_addr(allocs, b) # {}
    /\ \E a \in _alloc(sz) :
          /\ a.entries[2] # {} => RoomForTables
          /\ tables' = tables \cup a.entries[2]
          /\ IF a.block = {}
             THEN allocs' = <<>> /\ UNCHANGED held
             ELSE /\ allocs' = _free(a.entries[1], b)
                  /\ held' = (held \ {b}) \cup a.block
    /\ UNCHANGED user

Next ==
    \/ \E r \in Requests : kamalloc(r[1], r[2]) \/ kamalloc_new_table(r[1], r[2])
    \/ \E b \in held : kfree(b) \/ free(b)
    \/ \E sz \in UserSizes : malloc(sz) \/ \E b \in held : realloc(b, sz)

Spec == Init /\ [][Next]_vars
-----------------------------------------------------------------------------
(* Type invariant.                                                           *)
TypeOK ==
    /\ allocs \in Seq(Entry)
    /\ tables \subseteq [addr : Nat, size : {TableBytes}]
    /\ held \subseteq [addr : Nat, size : Nat]

(* No two users get the same memory: blocks in use share no byte with each   *)
(* other or with a table of the allocator.                                   *)
Disjoint ==
    \A a, b \in held \cup tables : a # b => Bytes(a) \cap Bytes(b) = {}

\* The valid entries cover the memory, each byte once.
Tiled ==
    /\ \A k, l \in ValidIn(allocs) :
          k # l => Bytes(allocs[k]) \cap Bytes(allocs[l]) = {}
    /\ UNION {Bytes(allocs[k]) : k \in ValidIn(allocs)} = Base..(Base + MemorySize - 1)

\* The used entries are those of the blocks in use and of the tables.
UsedIsHeld ==
    {[addr |-> allocs[k].addr, size |-> allocs[k].size] :
        k \in {n \in ValidIn(allocs) : allocs[n].used}} = held \cup tables

(* The entries account for every byte of the memory exactly once, and every  *)
(* block in use has the used entry its kfree will look for: nothing is lost  *)
(* or owned twice over any sequence of splits, merges and new tables.        *)
EntriesTile == TypeOK /\ (~Panicked => Tiled /\ UsedIsHeld)

(* kamalloc makes a new table in time: it panics ("Could not add allocation   *)
(* structure to list, it's full!") only when no memory is left for a table.  *)
TableGrowsInTime ==
    [][allocs' = <<>> => find_hole(allocs, TableBytes, 1) = 0]_vars

(* The allocator implements its promise.                                     *)
ImplementsHeap == H!Spec
=============================================================================
