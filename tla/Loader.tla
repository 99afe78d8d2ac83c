------------------------------- MODULE Loader -------------------------------
(***************************************************************************)
(* Kernel modules: reading, placing, relocating and starting them          *)
(* (kernel/src/mod/module.c, symbols.c, preload.c, kernel/src/proc/elf/    *)
(* elf.c).  The kernel task loads the modules of a list; without an init   *)
(* program the terminal is started before, and loads what it is told to.   *)
(*                                                                         *)
(* Addresses are counted in units of the largest alignment a section may   *)
(* have, so that PageSz of them are a page and Stride the space from one   *)
(* module to the next.  Modules are placed at Base and above, the symbols  *)
(* the kernel exports are below.                                           *)
(***************************************************************************)
EXTENDS Naturals, Sequences, SequencesExt, FiniteSetsExt

CONSTANTS
    Base,           \* the first value of _current_base
    PageSz, Stride, \* the size of a page; what _current_base is advanced by
    MaxAlign,       \* sections with a larger alignment are refused
    KernelSymbols,  \* the address of each exported symbol
    Files,          \* the files, by name
    Preloads,       \* lists of names that may be in the list of modules to load
    KtermFiles,     \* the names given to "mod load"
    MaxLoads        \* bound: modules placed

ASSUME LoaderAssumption ==
    /\ {Base, PageSz, Stride, MaxAlign, MaxLoads} \subseteq Nat \ {0}
    /\ Base % PageSz = 0 /\ Stride % PageSz = 0
    /\ \A names \in Preloads : names \in Seq(ToSet(names))

VARIABLES
    current_base,   \* _current_base
    mapped,         \* the kernel's pages from Base on: <<load, kind, page>>, or <<>>
    loaded,         \* loaded_modules
    started,        \* every module whose function was called, in order
    todo,           \* what is left of the list
    task,           \* what each of the two loaders is doing
    patient         \* does the user of the terminal wait for the end of the list?

vars == <<current_base, mapped, loaded, started, todo, task, patient>>

Loaders == {"preload", "kterm"}
NoTask == [pc |-> "idle", file |-> "", load |-> 0, base |-> 0, refs |-> <<>>]

-----------------------------------------------------------------------------
(* Modules                                                                 *)

\* A file: is it an ELF object; has it a module header; its sections [type, size, align]; its
\* symbols [name, section, value], section 0 for one defined elsewhere; its relocations
\* [section, symbol]; its identifier and the identifiers it requires.
Sections(f) == DOMAIN Files[f].sections
elf_check_header(f) == Files[f].elf
elf_find_section(f) == Files[f].header
module_read(f) == elf_check_header(f) /\ elf_find_section(f)
Type(f, s) == Files[f].sections[s].type
Aligned(x, align) == align * ((x + align - 1) \div align)   \* FORCE_ALIGN

\* Where the sections of one type end up, one after the other: the offset of each, and of
\* the end.  The base starts a page, of which an alignment is a part (an alignment of 0
\* counts as 1): aligning the base leaves it where it is.
Added(f, type, before, s) ==
    LET sect == Files[f].sections[s]
        at == Aligned(before.size, sect.align)
    IN  IF sect.type # type THEN before
        ELSE [size |-> at + sect.size, off |-> [before.off EXCEPT ![s] = at]]
Layout(f, type) ==
    LET upto[n \in 0 .. Len(Files[f].sections)] ==
            IF n = 0 THEN [size |-> 0, off |-> [s \in Sections(f) |-> 0]]
            ELSE Added(f, type, upto[n - 1], n)
    IN  upto[Len(Files[f].sections)]

\* Data without contents goes one page after the start of the program.
NobitsBase(base) == PageSz * ((base + PageSz) \div PageSz)

\* Where section s of a module placed at base is; 0 if it is not placed.
SectionAddr(f, base, s) ==
    CASE Type(f, s) = "prog" -> base + Layout(f, "prog").off[s]
      [] Type(f, s) = "nobits" -> NobitsBase(base) + Layout(f, "nobits").off[s]
      [] OTHER -> 0

\* _alloc_map: pages of a new block at the addresses of the program, and of another one at
\* those of the data, whatever is there.
PagesOf(at, size) == (at \div PageSz) .. (at \div PageSz) + (size + PageSz - 1) \div PageSz - 1
Placed(f, base, n) ==
    LET nobits == NobitsBase(base)
    IN  [p \in DOMAIN mapped |->
            IF p \in PagesOf(nobits, Layout(f, "nobits").size)
            THEN <<n, "nobits", p - nobits \div PageSz>>
            ELSE IF p \in PagesOf(base, Layout(f, "prog").size)
            THEN <<n, "prog", p - base \div PageSz>>
            ELSE mapped[p]]

\* _translate_symbol: a symbol of the table gets the address of its section; without one it
\* keeps its value.
SymbolAddr(f, base, y) ==
    IF SectionAddr(f, base, y.section) = 0 THEN y.value ELSE SectionAddr(f, base, y.section)

\* Mutant: the symbols are offered as offsets from the base of the module.
TableOfFile(f, base) ==
    { [name |-> Files[f].symbols[n].name, addr |-> SymbolAddr(f, 0, Files[f].symbols[n])] :
          n \in {k \in DOMAIN Files[f].symbols : Files[f].symbols[k].section # 0} }
\* elf_load_symbols and the translation: the symbols a module defines.
SymbolTable(f, base) ==
    { [name |-> Files[f].symbols[n].name, addr |-> SymbolAddr(f, base, Files[f].symbols[n])] :
          n \in {k \in DOMAIN Files[f].symbols : Files[f].symbols[k].section # 0} }

\* module_symbol_find_kernel, module_symbol_find_module: the addresses at which the kernel,
\* and one module, have a symbol.
FindKernel(name) == {KernelSymbols[y] : y \in DOMAIN KernelSymbols \intersect {name}}
FindModule(name, module) == {y.addr : y \in {z \in module.symbols : z.name = name}}

\* _find_undefined_symbol: the kernel first, then the modules in the order of the list;
\* 0 if there is none.
FindUndefined(name) ==
    LET having == {n \in DOMAIN loaded : FindModule(name, loaded[n]) # {}} IN
    IF FindKernel(name) # {} THEN CHOOSE a \in FindKernel(name) : TRUE
    ELSE IF having = {} THEN 0
    ELSE CHOOSE a \in FindModule(name, loaded[Min(having)]) : TRUE

\* _find_symbol; 0 if it is not found.  For a symbol of the file it takes the address of the
\* first symbol of the same section, and adds the value.
FindSymbol(f, base, n) ==
    LET y == Files[f].symbols[n]
        first == Min({k \in DOMAIN Files[f].symbols : Files[f].symbols[k].section = y.section})
    IN  IF y.section = 0 THEN FindUndefined(y.name)
        ELSE SymbolAddr(f, base, Files[f].symbols[first]) + y.value

\* _module_apply_relocs: what each relocation is given.  It fails at one without a symbol,
\* or in a section that is not placed.
Relocated(f, base) ==
    [n \in DOMAIN Files[f].rels |-> FindSymbol(f, base, Files[f].rels[n].symbol)]
RelocsFail(f, base) ==
    \E n \in DOMAIN Files[f].rels :
        \/ FindSymbol(f, base, Files[f].rels[n].symbol) = 0
        \/ SectionAddr(f, base, Files[f].rels[n].section) = 0

\* _check_requirements, against the list.
_check_requirements(f) ==
    Files[f].requires \subseteq {loaded[n].ident : n \in DOMAIN loaded}

-----------------------------------------------------------------------------
(* module_install                                                          *)

At(l, pc) == task[l].pc = pc
Go(l, pc) == task' = [task EXCEPT ![l].pc = pc]

\* A module that cannot be installed ends the list; the terminal goes on.
Refuse(l) ==
    task' = [task EXCEPT ![l] = [NoTask EXCEPT !.pc = IF l = "preload" THEN "stopped" ELSE "idle"]]

\* module_install, up to elf_load_symbols; the base is read when _module_place is called.
Read(l, f) ==
    /\ At(l, "idle")
    /\ IF module_read(f)
       THEN task' = [task EXCEPT ![l] = [NoTask EXCEPT !.pc = "place", !.file = f, !.base = current_base]]
       ELSE Refuse(l)
    /\ UNCHANGED <<current_base, mapped, loaded, started, patient>>

\* modules_preload: the next name of the list.
ReadNext ==
    /\ todo # <<>>
    /\ Read("preload", Head(todo))
    /\ todo' = Tail(todo)

\* kterm_mod: "mod load".
ReadGiven(f) ==
    /\ patient => (todo = <<>> /\ At("preload", "idle")) \/ At("preload", "stopped")
    /\ Read("kterm", f)
    /\ UNCHANGED todo

\* _module_place, up to the contents of the sections.
Place(l) ==
    LET f == task[l].file
        n == 1 + Max({0} \union {task[k].load : k \in Loaders} \union {mapped[p][1] : p \in {q \in DOMAIN mapped : mapped[q] # <<>>}})
    IN
    /\ At(l, "place")
    /\ IF \E s \in Sections(f) : Files[f].sections[s].align > MaxAlign
       THEN Refuse(l) /\ UNCHANGED mapped
       ELSE /\ n <= MaxLoads
            /\ mapped' = Placed(f, task[l].base, n)
            /\ task' = [task EXCEPT ![l].pc = "relocate", ![l].load = n]
    /\ UNCHANGED <<current_base, loaded, started, todo, patient>>

\* _module_apply_relocs.  What was placed stays when it fails.
Relocate(l) ==
    LET f == task[l].file IN
    /\ At(l, "relocate")
    /\ IF RelocsFail(f, task[l].base) THEN Refuse(l)
       ELSE task' = [task EXCEPT ![l].pc = "bump", ![l].refs = Relocated(f, task[l].base)]
    /\ UNCHANGED <<current_base, mapped, loaded, started, todo, patient>>

\* Mutant: every module has the same base.
BumpNot(l) == At(l, "bump") /\ Go(l, "check") /\ UNCHANGED <<current_base, mapped, loaded, started, todo, patient>>
Bump(l) ==
    /\ At(l, "bump")
    /\ current_base' = current_base + Stride
    /\ Go(l, "check")
    /\ UNCHANGED <<mapped, loaded, started, todo, patient>>

\* Mutant: the requirements are not looked at.
CheckNot(l) == At(l, "check") /\ Go(l, "start") /\ UNCHANGED <<current_base, mapped, loaded, started, todo, patient>>
Check(l) ==
    /\ At(l, "check")
    /\ IF _check_requirements(task[l].file) THEN Go(l, "start") ELSE Refuse(l)
    /\ UNCHANGED <<current_base, mapped, loaded, started, todo, patient>>

\* The module's function is called; what it returns makes no difference.
Start(l) ==
    /\ At(l, "start")
    /\ started' = Append(started, task[l])
    /\ Go(l, "append")
    /\ UNCHANGED <<current_base, mapped, loaded, todo, patient>>

Enlist(l) ==
    LET f == task[l].file IN
    /\ At(l, "append")
    /\ loaded' = Append(loaded, [ident |-> Files[f].ident, symbols |-> SymbolTable(f, task[l].base)])
    /\ task' = [task EXCEPT ![l] = NoTask]
    /\ UNCHANGED <<current_base, mapped, started, todo, patient>>

Init ==
    /\ current_base = Base
    /\ mapped = [p \in (Base \div PageSz) .. ((Base + MaxLoads * Stride) \div PageSz) |-> <<>>]
    /\ loaded = <<>> /\ started = <<>>
    /\ todo \in Preloads
    /\ patient \in BOOLEAN
    /\ task = [l \in Loaders |-> NoTask]

Next ==
    \/ ReadNext
    \/ \E f \in KtermFiles : ReadGiven(f)
    \/ \E l \in Loaders : Place(l) \/ Relocate(l) \/ Bump(l) \/ Check(l) \/ Start(l) \/ Enlist(l)

Spec == Init /\ [][Next]_vars

-----------------------------------------------------------------------------
(* Properties                                                              *)

TypeOK ==
    /\ current_base \in {Base + k * Stride : k \in 0 .. MaxLoads}
    /\ \A p \in DOMAIN mapped :
          mapped[p] = <<>> \/ (mapped[p][1] \in 1 .. MaxLoads /\ mapped[p][2] \in {"prog", "nobits"})
    /\ \A l \in Loaders : task[l].load \in 0 .. MaxLoads
    /\ Len(loaded) <= Len(started)

\* The addresses a section occupies, and the page of its block where an address is.
Extent(f, base, s) ==
    SectionAddr(f, base, s) .. SectionAddr(f, base, s) + Files[f].sections[s].size - 1
BlockPage(f, base, s, a) ==
    a \div PageSz - (IF Type(f, s) = "prog" THEN base ELSE NobitsBase(base)) \div PageSz

\* Every section of a module that was started is where its relocations say.
SectionsWhole ==
    \A n \in DOMAIN started :
        LET m == started[n] IN
        \A s \in Sections(m.file) : Type(m.file, s) \in {"prog", "nobits"} =>
            \A a \in Extent(m.file, m.base, s) :
                mapped[a \div PageSz] = <<m.load, Type(m.file, s), BlockPage(m.file, m.base, s, a)>>

\* It stays there for good, neither covered by its own data nor by a module placed later,
\* when one module is loaded after the other.
SectionsStay == TypeOK /\ (patient => SectionsWhole)

\* Where symbol n of a module is.
DefinedAt(m, n) ==
    SectionAddr(m.file, m.base, Files[m.file].symbols[n].section) + Files[m.file].symbols[n].value

\* A reference of a started module leads to the symbol it names: in the module itself, in
\* the kernel, or in a module that was started before it.
ReferencesLead ==
    \A n \in DOMAIN started :
        LET m == started[n] IN
        \A r \in DOMAIN m.refs :
            LET k == Files[m.file].rels[r].symbol
                name == Files[m.file].symbols[k].name
            IN  \/ Files[m.file].symbols[k].section # 0 /\ m.refs[r] = DefinedAt(m, k)
                \/ Files[m.file].symbols[k].section = 0 /\
                   \/ name \in DOMAIN KernelSymbols /\ m.refs[r] = KernelSymbols[name]
                   \/ \E d \in 1 .. n - 1 : \E i \in DOMAIN Files[started[d].file].symbols :
                         /\ Files[started[d].file].symbols[i].name = name
                         /\ Files[started[d].file].symbols[i].section # 0
                         /\ m.refs[r] = DefinedAt(started[d], i)

\* "List of drivers that must be loaded prior to this one": when a module is started, those
\* it requires have been.
RequiredFirst ==
    \A n \in DOMAIN started : \A id \in Files[started[n].file].requires :
        \E d \in 1 .. n - 1 : Files[started[d].file].ident = id
=============================================================================
