-------------------------------- MODULE Boot --------------------------------
(***************************************************************************)
(* What the boot loader hands over on x86, and what the kernel makes of it *)
(* before anything else runs: the tags of multiboot 2                      *)
(* (arch/x86/src/boot/multiboot.c), the memory given to the allocator      *)
(* (mm_init of arch/x86/src/init/init.c and paging_init of                 *)
(* arch/x86/src/mm/paging.c), and the tables of ACPI (arch/x86/src/acpi).  *)
(*                                                                         *)
(* Addresses are numbers below AddrSpace and wrap around there.  A tag is  *)
(* found in memory by its address; the fields of a tag are a record.       *)
(***************************************************************************)
EXTENDS Integers, Sequences, SequencesExt, FiniteSetsExt

CONSTANTS
    AddrSpace,      \* 2^32
    PageSize,       \* PAGE_SZ
    UpperBase       \* 0x100000, where "upper memory" begins

NoTag == [type |-> "none"]
Fault == [type |-> "fault"]      \* memory was read that is not mapped
UINTPTR_MAX == AddrSpace - 1

-----------------------------------------------------------------------------
(* Multiboot.  The information is its size, the address of its first tag, and *)
(* the tags by address: [type, size, and the fields of the type].            *)

\* Mutant: a size that is a multiple of 8 is rounded up, too.
RoundedAlways(size) == size - (size % 8) + 8

\* The size of a tag, rounded up to the next multiple of 8.
Rounded(size) == IF size % 8 # 0 THEN size - (size % 8) + 8 ELSE size

\* What is at an address: a tag, or the inside of one.
TagAt(head, at) == IF at \in DOMAIN head.at THEN head.at[at] ELSE [type |-> "data", size |-> 8]

\* multiboot_find_tag: the tag number idx of its type.
multiboot_find_tag(head, type, idx) ==
    LET walk[at \in Nat, n \in Nat] ==
            IF at >= head.tags + head.size THEN NoTag
            ELSE LET tag == TagAt(head, at) IN
                 IF tag.type = type /\ n = idx THEN tag
                 ELSE IF tag.type = "end" THEN NoTag
                 ELSE walk[at + Rounded(tag.size), IF tag.type = type THEN n + 1 ELSE n]
    IN  walk[head.tags, 0]

\* The modules, one after the other until one is not found.
Modules(head) ==
    LET from[idx \in Nat] ==
            LET mod == multiboot_find_tag(head, "module", idx)
            IN  IF mod = NoTag THEN <<>> ELSE <<mod>> \o from[idx + 1]
    IN  from[0]

multiboot_locate_modules(head) ==
    LET mods == Range(Modules(head))
    IN  [start |-> Min({UINTPTR_MAX} \union {m.start : m \in mods}),
         end |-> Max({0} \union {m.end : m \in mods})]

multiboot_get_upper_memory(head) ==
    LET mem == multiboot_find_tag(head, "meminfo", 0) IN IF mem = NoTag THEN 0 ELSE mem.upper

\* multiboot_check_modules and _handle_module: the archives that are mounted.
multiboot_check_modules(head, ramdisk) == SelectSeq(Modules(head), LAMBDA m : m.name = ramdisk)

multiboot_check_commandline(head) == multiboot_find_tag(head, "cmdline", 0)

-----------------------------------------------------------------------------
(* The memory given to the allocator: [base, size], or a panic.              *)

Panic == [base |-> 0, size |-> 0]

\* Mutant: the heap begins with the last page of the modules.
paging_init_down(som, eom) ==
    LET base == som - (som % PageSize) IN [base |-> base, size |-> (eom - base) % AddrSpace]

paging_init(som, eom) ==
    LET base == IF som % PageSize # 0 THEN (som + PageSize) - ((som + PageSize) % PageSize) ELSE som
    IN  [base |-> base, size |-> (eom - base) % AddrSpace]

mm_init(head) ==
    LET mods == multiboot_locate_modules(head)
        upper == multiboot_get_upper_memory(head)
        above == IF mods.end > UpperBase THEN mods.end - UpperBase ELSE 0
    IN  IF upper = 0 THEN Panic ELSE paging_init(mods.end, (upper - above) % AddrSpace)

-----------------------------------------------------------------------------
(* ACPI.  A table is [signature, sum]; the sum of its bytes is 0 when it is  *)
(* intact.  The root pointer is [sum, sum2, revision, tables].               *)

_locate_rsdp(head) ==
    LET new == multiboot_find_tag(head, "acpi_new", 0)
    IN  IF new # NoTag THEN new ELSE multiboot_find_tag(head, "acpi_old", 0)

_sdt_checksum(sdt) == sdt.sum = 0
_rsdp_checksum(rsdp) == rsdp.sum = 0 /\ (rsdp.revision = 0 \/ rsdp.sum2 = 0)

\* acpi_init finds the root pointer and keeps it, whether or not its checksum is right; with
\* a right one it maps the page of the tables and lists the intact ones.
acpi_init(head) ==
    LET rsdp == _locate_rsdp(head)
    IN  [rsdp |-> rsdp,
         listed |-> IF rsdp = NoTag THEN <<>>
                    ELSE IF _rsdp_checksum(rsdp) THEN SelectSeq(rsdp.tables, _sdt_checksum) ELSE <<>>]

acpi_find_sdt(rsdp, signature) ==
    IF rsdp = NoTag THEN NoTag
    ELSE IF ~_rsdp_checksum(rsdp) THEN Fault
    ELSE LET found == SelectSeq(rsdp.tables, LAMBDA t : _sdt_checksum(t) /\ t.signature = signature)
         IN  IF found = <<>> THEN NoTag ELSE Head(found)

\* apic_init, on a processor that has such a controller: what the entries of the table
\* "APIC" leave.  An override of the address of the local controllers is entered as the
\* address of the I/O controller.
apic_init(rsdp) ==
    LET madt == acpi_find_sdt(rsdp, "APIC")
        Enter(data, ent) ==
            CASE ent.type = "lapic" /\ ent.usable -> [data EXCEPT !.lapic_count = @ + 1]
              [] ent.type \in {"ioapic", "addrover"} -> [data EXCEPT !.ioapic = ent.addr]
              [] OTHER -> data
    IN  IF madt = Fault THEN Fault
        ELSE IF madt = NoTag THEN [lapic_count |-> 0, ioapic |-> 0]
        ELSE FoldLeft(Enter, [lapic_count |-> 0, ioapic |-> 0], madt.entries)

-----------------------------------------------------------------------------
(* What the boot loader means: a list of tags, the last one the end, each on *)
(* the next multiple of 8.                                                   *)

End == [type |-> "end", size |-> 8]

Layout(tags) ==
    LET all == Append(tags, End)
        start[k \in 1..Len(all)] ==
            IF k = 1 THEN 8 ELSE start[k - 1] + 8 * ((all[k - 1].size + 7) \div 8)
    IN  [tags |-> 8, size |-> start[Len(all)] + 8,
         at |-> [a \in {start[k] : k \in DOMAIN all} |-> all[CHOOSE k \in DOMAIN all : start[k] = a]]]

OfType(tags, type) == SelectSeq(tags, LAMBDA t : t.type = type)
Bytes(base, size) == {a % AddrSpace : a \in base..(base + size - 1)}
=============================================================================
