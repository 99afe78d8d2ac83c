------------------------------ MODULE MCLoader ------------------------------
(* An instance of Loader: a module that others use, two that use it, one that   *)
(* asks for too large an alignment, an object that is no module and a file that *)
(* is no object; pages of 4 units and 4 pages to a module.                      *)
EXTENDS Loader
Sect(type, size, align) == [type |-> type, size |-> size, align |-> align]
Sym(name, section, value) == [name |-> name, section |-> section, value |-> value]
Rel(section, symbol) == [section |-> section, symbol |-> symbol]
Module(ident, sections, symbols, rels, requires) ==
    [elf |-> TRUE, header |-> TRUE, ident |-> ident, sections |-> sections, symbols |-> symbols,
     rels |-> rels, requires |-> requires]
\* devfs: three functions and some data, one of them a reference to itself.
Devfs == Module("fs.devfs",
    << Sect("prog", 1, 1), Sect("other", 2, 1), Sect("prog", 1, 2), Sect("nobits", 1, 2), Sect("nobits", 1, 1) >>,
    << Sym("mod_func", 1, 0), Sym("devfs_add_file", 3, 0), Sym("table", 5, 0), Sym("kmalloc", 0, 0), Sym("local", 1, 1) >>,
    << Rel(1, 4), Rel(3, 3), Rel(3, 5) >>, {})
Devnull == Module("fs.devnull",
    << Sect("prog", 2, 1), Sect("prog", 1, 1) >>,
    << Sym("mod_func", 1, 0), Sym("null", 2, 0), Sym("devfs_add_file", 0, 0), Sym("kmalloc", 0, 0) >>,
    << Rel(1, 3), Rel(2, 4), Rel(2, 2) >>, {"fs.devfs"})
\* Large: more than a page of program, no other data; it needs a module only by name.
Large == Module("test.large",
    << Sect("prog", 3, 1), Sect("prog", 3, 2) >>, << Sym("mod_func", 2, 0) >>, << Rel(1, 1) >>, {"fs.devnull"})
\* Big: more than a page of program, and data.
Big == Module("test.big",
    << Sect("prog", 3, 1), Sect("prog", 3, 2), Sect("nobits", 2, 1) >>, << Sym("mod_func", 2, 0) >>, << Rel(1, 1) >>, {})
Odd == Module("test.odd", << Sect("prog", 1, 4) >>, << Sym("mod_func", 1, 0) >>, <<>>, {})
Text == [Odd EXCEPT !.elf = FALSE]
Plain == [Odd EXCEPT !.header = FALSE]
\* Inner: offers a function in the middle of a section; Outer uses it.
Inner == Module("test.inner", << Sect("prog", 2, 1) >>, << Sym("mod_func", 1, 0), Sym("inner", 1, 1) >>, <<>>, {})
Outer == Module("test.outer", << Sect("prog", 1, 1) >>, << Sym("inner", 0, 0) >>, << Rel(1, 1) >>, {"test.inner"})
MCFiles == [f \in {"devfs", "devnull", "large", "big", "odd", "text", "plain", "inner", "outer"} |->
    CASE f = "devfs" -> Devfs [] f = "devnull" -> Devnull [] f = "large" -> Large [] f = "big" -> Big
      [] f = "odd" -> Odd [] f = "text" -> Text [] f = "plain" -> Plain [] f = "inner" -> Inner [] f = "outer" -> Outer]
MCKernelSymbols == [y \in {"kmalloc"} |-> 1]
MCPreloads == { << "devfs", "devnull" >>, << "devnull", "devfs" >>, << "devfs", "text" >>, << "odd" >>, << "devfs", "plain" >> }
MCKterm == {"devnull", "large", "devfs"}
NoPreloads == { <<>> }
MCKtermInner == {"inner", "outer"}
MCKtermBig == {"big"}
=============================================================================
