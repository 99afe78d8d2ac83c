----------------------------- MODULE Algorithms -----------------------------
(***************************************************************************)
(* The sequential algorithms of the system, called one at a time with the  *)
(* inputs of small sets.  Each property compares what a call returned with *)
(* what the call means, defined without reference to the loops of the code *)
(* at the end of the algorithm's module.                                   *)
(***************************************************************************)
EXTENDS Integers, Sequences, SequencesExt, FiniteSetsExt, TLC

CONSTANTS
    Null,               \* Paths
    Archives, PathSet,  \* archives to mount, and the paths looked up in them
    OptionRoom,         \* Cmdline
    Lines, Behind,      \* boot command lines, and what may lie behind them in memory
    LevelLists,         \* the items of debug_level, each <<source, level>>
    KeySeqs,            \* what is typed in a line of kterm
    Bits,               \* Format
    Specs, Numbers,     \* conversion specifications, and their arguments
    FarM2, FarM4,       \* Lzop
    Texts, Stored,      \* compressed texts, and uncompressed blocks
    ContainerFlags,     \* the flags of lzop files
    MaxParams,          \* Shell
    ShellLines, Environ, EnvNames, Executable,
    AddrSpace, PageSize, UpperBase,     \* Boot
    TagLists,           \* what the boot loader may hand over
    Memories            \* contents of memory for the string functions

Path == INSTANCE Paths
Cmd == INSTANCE Cmdline
Fmt == INSTANCE Format
Lz == INSTANCE Lzop
Sh == INSTANCE Shell
B == INSTANCE Boot
Str == INSTANCE Strings

ASSUME AlgorithmsAssumption ==
    /\ {FarM2, FarM4, UpperBase} \subseteq Nat /\ {OptionRoom, MaxParams, AddrSpace, PageSize} \subseteq Nat \ {0}
    /\ DOMAIN Bits = -2..2 /\ \A s \in -2..2 : Bits[s] \in Nat \ {0} /\ Bits[s] <= Bits[2]

VARIABLES
    call,       \* the function called, and its arguments
    result      \* what it returned

vars == <<call, result>>

Idle == [fn |-> "none"]
Init == call = Idle /\ result = <<>>

\* A call of an algorithm, from rest.
Ready == call = Idle
Call(c, r) == call' = c /\ result' = r

\* Its caller goes on.
Return == call # Idle /\ call' = Idle /\ result' = <<>>

-----------------------------------------------------------------------------
\* A look-up in a mounted archive, from the root or a directory of it.
FindFile ==
    /\ Ready
    /\ \E archive \in Archives :
           LET tree == Path!initrd_mount(Path!fs_init, archive) IN
           \E path \in PathSet, start \in {f \in DOMAIN tree : tree[f].kind = "dir"} :
               Call([fn |-> "fs_find_file", archive |-> archive, tree |-> tree, start |-> start, path |-> path],
                    Path!fs_find_file(tree, start, path))

CmdlineInit ==
    /\ Ready
    /\ \E line \in Lines, behind \in Behind :
           Call([fn |-> "cmdline_init", line |-> line], Cmd!cmdline_init(Cmd!LineAndBehind(line, behind)))

\* The command line is "debug_level=" and the items; DEBUGSRC_MAX is 2.
LevelText(items) ==
    FoldLeft(LAMBDA s, it : s \o (IF s = <<>> THEN <<>> ELSE <<",">>) \o <<it[1], ":", it[2]>>, <<>>, items)
HandleCommon ==
    /\ Ready
    /\ \E items \in LevelLists, kterm \in BOOLEAN, init \in {<<"x">>, <<"x", "y", "z">>} :
           LET options == <<<<"debug_level", "=">> \o LevelText(items), <<"init", "=">> \o init>>
                               \o (IF kterm THEN <<<<"kterm">>>> ELSE <<>>)
           IN Call([fn |-> "cmdline_handle_common", items |-> items, kterm |-> kterm, init |-> init],
                   Cmd!cmdline_handle_common(options, [init |-> <<"sh">>, cpio |-> <<>>], [s \in 0..1 |-> 9]))

KtermLine ==
    /\ Ready
    /\ \E keys \in KeySeqs :
           Call([fn |-> "kterm", keys |-> keys],
                Cmd!Dispatch({<<"a">>}, FoldLeft(Cmd!Type, Cmd!EmptyLine, keys).input))

\* The specification between two plain characters.
Printf ==
    /\ Ready
    /\ \E user \in BOOLEAN, spec \in Specs, n \in Numbers :
           LET str == [k \in 1..n |-> "x"]
           IN Call([fn |-> "print", user |-> user, spec |-> spec, arg |-> n, str |-> str],
                   LET format == <<"<", "%">> \o spec.chars \o <<">">>
                       arg == [num |-> n, str |-> str]
                   IN  IF user THEN Fmt!UserPrint(format, arg) ELSE Fmt!print(FALSE, format, arg))

Decompress ==
    /\ Ready
    /\ \E text \in Texts, stored \in Stored, flags \in ContainerFlags, version \in {2367, 2368} :
           Call([fn |-> "lzop_decompress", text |-> text, stored |-> stored, flags |-> flags],
                Lz!lzop_decompress(Lz!Container(version, flags, text, stored)))

\* The same block, with less room than it needs, and without its last bytes.
DecompressShort ==
    /\ Ready
    /\ \E text \in Texts, cut \in 0..2 :
           LET room == Len(Lz!Expand(text)) - 1
               block == Lz!Encode(text)
           IN Call([fn |-> "_lzo1x_decompress_block", room |-> room],
                   Lz!_lzo1x_decompress_block(SubSeq(block, 1, Len(block) - cut), room))

ShellCommand ==
    /\ Ready
    /\ \E line \in ShellLines :
           Call([fn |-> "_handle_command", line |-> line], Sh!_handle_command(Environ, Executable, line))

Setenv ==
    /\ Ready
    /\ \E name \in EnvNames, overwrite \in BOOLEAN :
           Call([fn |-> "setenv", name |-> name, overwrite |-> overwrite],
                Sh!setenv(Environ, name, <<"v">>, overwrite))

FindTag ==
    /\ Ready
    /\ \E tags \in TagLists, type \in {"module", "meminfo"}, idx \in 0..2 :
           Call([fn |-> "multiboot_find_tag", tags |-> tags, type |-> type, idx |-> idx],
                B!multiboot_find_tag(B!Layout(tags), type, idx))

CheckModules ==
    /\ Ready
    /\ \E tags \in TagLists :
           Call([fn |-> "multiboot_check_modules", tags |-> tags],
                B!multiboot_check_modules(B!Layout(tags), "initrd"))

MmInit ==
    /\ Ready
    /\ \E tags \in TagLists : Call([fn |-> "mm_init", tags |-> tags], B!mm_init(B!Layout(tags)))

ApicInit ==
    /\ Ready
    /\ \E tags \in TagLists :
           LET rsdp == B!acpi_init(B!Layout(tags)).rsdp
           IN Call([fn |-> "apic_init", tags |-> tags], B!apic_init(rsdp))

Memmove ==
    /\ Ready
    /\ \E m \in Memories : \E dst, src \in DOMAIN m : \E n \in 1..(Len(m) + 1 - Max({dst, src})) :
           Call([fn |-> "memmove", m |-> m, dst |-> dst, src |-> src, n |-> n], Str!memmove(m, dst, src, n))

Strcmp ==
    /\ Ready
    /\ \E m \in Memories, user \in BOOLEAN : \E a, b \in DOMAIN m :
           Call([fn |-> "strcmp", user |-> user, m |-> m, a |-> a, b |-> b],
                IF user THEN Str!user_strcmp(m, a, b) ELSE Str!strcmp(m, a, b))

Strncmp ==
    /\ Ready
    /\ \E m \in Memories, user \in BOOLEAN : \E a, b \in DOMAIN m, n \in 0..2 :
           Call([fn |-> "strncmp", user |-> user, m |-> m, a |-> a, b |-> b, n |-> n],
                IF user THEN Str!user_strncmp(m, a, b, n) ELSE Str!strncmp(m, a, b, n))

Strchr ==
    /\ Ready
    /\ \E m \in Memories, user \in BOOLEAN : \E s \in DOMAIN m, c \in {0, 1, 2} \union Range(m) :
           Call([fn |-> "strchr", user |-> user, m |-> m, s |-> s, c |-> c],
                IF user THEN Str!user_strchr(m, s, c) ELSE Str!strchr(m, s, c))

Memcmp ==
    /\ Ready
    /\ \E m \in Memories : \E a, b \in DOMAIN m : \E n \in 1..(Len(m) + 1 - Max({a, b})) :
           Call([fn |-> "memcmp", m |-> m, a |-> a, b |-> b, n |-> n], Str!memcmp(m, a, b, n))

Strncpy ==
    /\ Ready
    /\ \E m \in Memories, user \in BOOLEAN : \E dst, src \in DOMAIN m : \E n \in 1..3 :
           /\ dst + n <= src
           /\ Call([fn |-> "strncpy", user |-> user, m |-> m, dst |-> dst, src |-> src, n |-> n],
                   IF user THEN Str!user_strncpy(m, dst, src, n) ELSE Str!strncpy(m, dst, src, n))

Next ==
    \/ FindFile \/ CmdlineInit \/ HandleCommon \/ KtermLine \/ Printf \/ Decompress
    \/ DecompressShort \/ ShellCommand \/ Setenv \/ FindTag \/ CheckModules \/ MmInit
    \/ ApicInit \/ Memmove \/ Strcmp \/ Strncmp \/ Strchr \/ Memcmp \/ Strncpy \/ Return

Spec == Init /\ [][Next]_vars

-----------------------------------------------------------------------------
(* A plain path leads where its components lead, one after the other, from  *)
(* the root or from any directory (fs_find_file).  Only ".." of the root,    *)
(* at the end of a path, leads nowhere.  And what an archive lists after     *)
(* its directory is found where the archive says (initrd_mount).             *)
PathsResolve ==
    call.fn = "fs_find_file" /\ Path!Plain(call.path) =>
        LET meant == Path!Resolve(call.tree, call.start, call.path)
            listed == {k \in DOMAIN call.archive : call.archive[k].path = call.path}
        IN  /\ \/ result = meant
               \/ result = Null /\ meant = Path!Root /\ Last(call.path) = "."
            /\ call.start = Path!Root /\ Path!InOrder(call.archive) =>
                  \A k \in listed : result = Path!Root + k

(* The options of a boot command line that neither begins nor ends with a    *)
(* space are its words, whatever lies behind it in memory (cmdline_init; for *)
(* a line that begins with one see InitialWhitespaceSkipped, and at the end  *)
(* of one that ends with a space the code reads on behind it).  Debug levels *)
(* take effect in order, the last one for a source counts, "kterm" wins over *)
(* "init", and an option that does not fit stops the system                  *)
(* (cmdline_handle_common).  The debug shell runs the first                  *)
(* word of the line as it was edited: what was erased leaves blanks, which   *)
(* are empty arguments and nothing else (kterm_task).                        *)
CmdlineMeans ==
    /\ call.fn = "cmdline_init" =>
          \/ call.line # <<>> /\ " " \in {Head(call.line), Last(call.line)}
          \/ result = Cmd!Words(call.line)
    /\ call.fn = "cmdline_handle_common" =>
          IF Len(call.init) >= OptionRoom THEN result = Cmd!Panicked
          ELSE /\ \A s \in 0..1 :
                     LET for == {k \in DOMAIN call.items : call.items[k][1] \in {"*", "2", ToString(s)}}
                     IN  ToString(result.levels[s]) = IF for = {} THEN "9" ELSE call.items[Max(for)][2]
               /\ result.init = IF call.kterm THEN <<>> ELSE call.init
    /\ call.fn = "kterm" =>
          LET line == Cmd!Edited(call.keys)
              words == Cmd!Words(line)
          IN  /\ SelectSeq(result.argv, LAMBDA a : a # <<>>) = words
              /\ (line # <<>> /\ line[1] # " ") =>
                    (result.cmd = <<"a">>) = (words[1] = <<"a">>)

(* What a comment of cmdline_init says, "Skip any initial whitespace": the   *)
(* options of a line that begins with spaces are its words, too.  They are   *)
(* counted from the first word on, but copied from the beginning of the      *)
(* line: the first option is empty, and the last word is lost.               *)
InitialWhitespaceSkipped ==
    call.fn = "cmdline_init" /\ call.line # <<>> =>
        Last(call.line) = " " \/ result = Cmd!Words(call.line)

(* A printed number is the argument, reduced to its size, and the text       *)
(* around the conversion is not touched; print returns the number of         *)
(* characters it placed.  Not so, and left out: %lu, %lx and %lo of a        *)
(* negative long, which the kernel extends to a long long, a precision of a  *)
(* string, which the count ignores, and in the user library sizes other than *)
(* int, %p and padding.                                                      *)
FormatMeans ==
    call.fn = "print" =>
        LET spec == call.spec
            text == result.out
            signed == spec.conv = "d"
            covered == IF call.user THEN spec.size = 0 /\ spec.width = 0 /\ spec.conv # "p"
                       ELSE signed \/ spec.size # 1 \/ call.arg % 2^Bits[1] < 2^(Bits[1] - 1)
            number == SubSeq(text, 2, Len(text) - 1)
        IN  covered \/ spec.conv = "s" =>
              /\ text[1] = "<" /\ Last(text) = ">"
              /\ IF spec.conv = "s" THEN number = call.str
                 ELSE Fmt!ReadBack(number, Fmt!Base(spec.conv)) = Fmt!Value(call.arg, Bits[spec.size], signed)
              /\ (spec.conv # "s" => Len(number) >= spec.width) /\ result.nchars = Len(text)

(* A file that lzop wrote with a checksum of the uncompressed data, and no   *)
(* other, becomes the data it was made of, copies that overlap themselves    *)
(* included, and the memory taken for it in the first pass is what the       *)
(* second pass writes (lzop_decompress; with both checksums or none the      *)
(* first pass is led astray).  A block never becomes longer than its room,   *)
(* also when its end is missing, but then the code may go on reading behind  *)
(* it (_lzo1x_decompress_block).                                             *)
LzopRestores ==
    /\ call.fn = "lzop_decompress" /\ Lz!OneChecksum(call.flags) =>
          LET data == Lz!Expand(call.text) \o call.stored
          IN  result = [ret |-> 0, output |-> data, output_len |-> Len(data)]
    /\ call.fn = "_lzo1x_decompress_block" =>
          result.result \in {"error", "beyond"} /\ Len(result.out) <= call.room

(* The arguments of a command are those the quotes and backslashes of the    *)
(* line mean, however they are nested, as long as there are no more than     *)
(* MAX_PARAMS (_args_split, _args_replace; for more see ManyParamsRefused).  *)
(* A variable is replaced by its value when nothing special follows it and   *)
(* the value is not shorter than its mention; lines with other variables are *)
(* left out.  Only a line with a variable stores a NUL beside an argument,   *)
(* which is taken to fall on memory that nothing uses.  After setenv,        *)
(* getenv finds the value under its name and what it found before under      *)
(* every other, unless a variable's name begins with the name of another,    *)
(* which getenv takes for it.                                                *)
ShellMeans ==
    /\ call.fn = "_handle_command" =>
          LET line == call.line
              dollars == {j \in DOMAIN line : line[j] = "$"}
              at == Min(dollars)
              Means(str) == LET args == Sh!MeantArgs(str) IN Len(args) > MaxParams \/ result.args = args
          IN  /\ dollars = {} => Means(line) /\ ~result.beside
              /\ /\ Cardinality(dollars) = 1 /\ Sh!Context(line)[at] = [open |-> "none", escaped |-> FALSE]
                 /\ Sh!CharAt(line, at + 1) = "A"
                 /\ Sh!CharAt(line, at + 2) \in {"/", " ", "NUL"}
                 => Means(SubSeq(line, 1, at - 1) \o Sh!getenv(Environ, <<"A">>) \o SubSeq(line, at + 2, Len(line)))
    /\ call.fn = "setenv" /\ (\A e \in Range(Environ) : ~IsStrictPrefix(e.name, call.name)) =>
        \A name \in {call.name} \union {e.name : e \in Range(Environ)} :
            LET old == Sh!getenv(Environ, name) IN
            Sh!getenv(result, name) =
                IF name = call.name /\ (call.overwrite \/ old = Sh!NoString) THEN <<"v">> ELSE old

(* A line with too many parameters is refused, as the message "ERROR: Too    *)
(* many parameters!" and the path that returns NULL say (_args_split): the   *)
(* shell goes on.                                                            *)
ManyParamsRefused == call.fn = "_handle_command" => result.file # Sh!Died

(* The tag number idx of a type is that of the boot loader's list, wherever  *)
(* the sizes of the others put it (multiboot_find_tag), and every archive is *)
(* mounted, in that order (multiboot_check_modules); the processors are      *)
(* those of the first intact table "APIC" that the first root pointer lists, *)
(* a new one before an old one, when that pointer is intact (acpi_find_sdt,  *)
(* apic_init; with a damaged one tables are read that were never mapped).    *)
BootTablesFound ==
    /\ call.fn = "multiboot_find_tag" =>
          LET of == B!OfType(call.tags, call.type)
          IN  result = IF call.idx < Len(of) THEN of[call.idx + 1] ELSE B!NoTag
    /\ call.fn = "multiboot_check_modules" =>
          result = SelectSeq(call.tags, LAMBDA t : t.type = "module" /\ t.name = "initrd")
    /\ call.fn = "apic_init" =>
          LET roots == B!OfType(call.tags, "acpi_new") \o B!OfType(call.tags, "acpi_old")
              tables == IF roots = <<>> THEN <<>>
                        ELSE SelectSeq(Head(roots).tables, LAMBDA t : t.sum = 0 /\ t.signature = "APIC")
              Usable(t) == {k \in DOMAIN t.entries : t.entries[k].type = "lapic" /\ t.entries[k].usable}
          IN  \/ roots # <<>> /\ Head(roots).sum # 0
              \/ result.lapic_count = IF tables = <<>> THEN 0 ELSE Cardinality(Usable(Head(tables)))

(* The heap shares no byte with a boot module and lies in memory, when there *)
(* is a module and the modules end in the lower half of memory: their size   *)
(* is subtracted twice (mm_init, paging_init).                               *)
HeapClear ==
    call.fn = "mm_init" =>
        LET mods == Range(B!OfType(call.tags, "module"))
            mem == B!OfType(call.tags, "meminfo")
            end == Max({0} \union {m.end : m \in mods})
            upper == Head(mem).upper
        IN  mem # <<>> /\ mods # {} /\ 2 * (end + PageSize) <= upper + UpperBase =>
              /\ \A m \in mods : B!Bytes(result.base, result.size)
                                    \cap m.start..(m.end - 1) = {}
              /\ result.base + result.size <= UpperBase + upper


(* What string.h of the user library says of the n characters that strncpy   *)
(* writes, "including null terminator": a string shorter than n is copied    *)
(* with its NUL.  A string of n - 1 characters is not.                       *)
StrncpyTerminates ==
    call.fn = "strncpy" =>
        LET len == Len(Str!StringAt(call.m, call.src))
        IN  len < call.n => result[call.dst + len] = 0
=============================================================================
