------------------------------ MODULE Cmdline ------------------------------
(***************************************************************************)
(* Lines that the kernel takes apart: the boot command line                *)
(* (kernel/src/kern/cmdline.c, with strtoul of std/stdlib.c), and the      *)
(* commands of the debug shell (kernel/src/proc/ktask/kterm.c).            *)
(*                                                                         *)
(* A string is a sequence of characters without the final NUL; position    *)
(* Len + 1 is the NUL.  A run of letters may stand as one character.       *)
(***************************************************************************)
EXTENDS Integers, Sequences, SequencesExt, FiniteSetsExt

CONSTANT OptionRoom     \* the size of a string of boot_options

Space == " "
Equals == "="
Missing == <<"NULL">>       \* the null pointer, where a string is expected
Panicked == <<"PANIC">>     \* kpanic, which ends the system

\* The first position from i on, up to the NUL, that holds one of cs.
Find(s, i, cs) == Min({j \in i..Len(s) : s[j] \in cs} \union {Len(s) + 1})
SkipSpaces(s, i) == Min({j \in i..Len(s) : s[j] # Space} \union {Len(s) + 1})

-----------------------------------------------------------------------------
(* cmdline_init reads memory: the line with its NUL, and what lies behind it, *)
(* up to a NUL there.                                                        *)

NUL == "NUL"
LineAndBehind(line, behind) == Append(line, NUL) \o Append(behind, NUL)

\* Mutant: every space counts, also one that follows another.
CountEach(mem) ==
    LET end == Find(mem, 1, {NUL})
    IN  1 + Cardinality({j \in SkipSpaces(mem, 1)..end : mem[j] = Space})

\* The options counted, without those spaces that the line begins with.  After spaces one
\* more character is stepped over, unseen: the NUL, if the line ends with spaces.
Count(mem) ==
    LET from[i \in 1..Len(mem)] ==
            IF mem[i] = NUL THEN 0
            ELSE IF mem[i] = Space THEN 1 + from[SkipSpaces(mem, i) + 1]
            ELSE from[i + 1]
    IN  1 + from[SkipSpaces(mem, 1)]

\* The options copied: from the very beginning of the line on.
cmdline_init(mem) ==
    LET copied[i \in 0..Count(mem)] ==
            IF i = 0 THEN [vars |-> <<>>, at |-> 1]
            ELSE LET c == copied[i - 1]
                     end == Find(mem, c.at, {Space, NUL})
                 IN  [vars |-> Append(c.vars, SubSeq(mem, c.at, end - 1)),
                      at |-> SkipSpaces(mem, end + 1)]
    IN  IF mem[SkipSpaces(mem, 1)] = NUL THEN <<>> ELSE copied[Count(mem)].vars

NameOf(v) == SubSeq(v, 1, Find(v, 1, {Equals}) - 1)

\* _find_var: the first option with that name.
_find_var(vars, var) ==
    LET named == {i \in DOMAIN vars : NameOf(vars[i]) = var}
    IN  IF named = {} THEN Missing ELSE vars[Min(named)]

cmdline_getstr(vars, var) ==
    LET v == _find_var(vars, var)
        eq == Find(v, 1, {Equals})
    IN  IF v = Missing \/ eq > Len(v) THEN Missing ELSE SubSeq(v, eq + 1, Len(v))

cmdline_getbool(vars, var) ==
    LET v == cmdline_getstr(vars, var)
    IN  \/ v = Missing /\ _find_var(vars, var) # Missing
        \/ v \in {<<"true">>, <<"TRUE">>}

-----------------------------------------------------------------------------
(* cmdline_handle_common: the debug levels.                                  *)

Decimals == <<"0", "1", "2", "3", "4", "5", "6", "7", "8", "9">>
IsDecimal(c) == c \in Range(Decimals)

\* strtoul in base 10: the number at i, and where it ends.
strtoul(s, i) ==
    LET end == Min({j \in i..Len(s) : ~IsDecimal(s[j])} \union {Len(s) + 1})
        value == FoldLeft(LAMBDA v, c : 10 * v + (CHOOSE d \in 0..9 : Decimals[d + 1] = c),
                          0, SubSeq(s, i, end - 1))
    IN  [val |-> value, end |-> end]

CharAt(s, i) == IF i > Len(s) THEN NUL ELSE s[i]

\* kdebug_set_errlvl, for one source or ("*") for all.
SetLevel(levels, src, lvl) ==
    [s \in DOMAIN levels |-> IF src \in {s, Cardinality(DOMAIN levels)} THEN lvl ELSE levels[s]]

\* debug_level=<source>:<level>,...  The number of the sources, DEBUGSRC_MAX, is "*".
DebugLevels(levels, value) ==
    LET max == Cardinality(DOMAIN levels)
        step[i \in Nat, lv \in [DOMAIN levels -> Nat]] ==
            IF i > Len(value) THEN lv
            ELSE LET src == IF value[i] = "*" THEN [val |-> max, end |-> i + 1] ELSE strtoul(value, i)
                     lvl == strtoul(value, src.end + 1)
                     set == SetLevel(lv, src.val, lvl.val)
                 IN  IF CharAt(value, src.end) # ":" THEN lv
                     ELSE IF CharAt(value, lvl.end) # "," THEN set
                     ELSE step[lvl.end + 1, set]
    IN  IF value = Missing THEN levels ELSE step[1, levels]

\* _handle_option: a value that does not fit is a panic.
_handle_option(vars, var, option) ==
    LET v == cmdline_getstr(vars, var)
    IN  IF v = Missing THEN option ELSE IF Len(v) + 1 > OptionRoom THEN Panicked ELSE v

\* The boot options and the debug levels after cmdline_handle_common, from the defaults.
cmdline_handle_common(vars, options, levels) ==
    LET init == _handle_option(vars, <<"init">>, options.init)
        cpio == _handle_option(vars, <<"cpio">>, options.cpio)
    IN  IF Panicked \in {init, cpio} THEN Panicked
        ELSE [init |-> IF cmdline_getbool(vars, <<"kterm">>) THEN <<>> ELSE init,
              cpio |-> cpio,
              levels |-> DebugLevels(levels, cmdline_getstr(vars, <<"debug_level">>))]

-----------------------------------------------------------------------------
(* kterm: the line as it is typed, key after key, and taken apart.  Only keys *)
(* that fit the line are modelled: a backspace in an empty line and the      *)
(* 513th character would be written beside it.                               *)

\* input and iloc.
EmptyLine == [input |-> <<>>, iloc |-> 0]

Type(l, key) ==
    IF key = "BS"
    THEN [input |-> [l.input EXCEPT ![l.iloc] = Space], iloc |-> l.iloc - 1]
    ELSE [input |-> SubSeq(l.input, 1, l.iloc) \o <<key>>
                        \o SubSeq(l.input, l.iloc + 2, Len(l.input)),
          iloc |-> l.iloc + 1]

\* argv: the line is cut at every single blank.
Args(input) ==
    LET ends == SelectSeq([j \in 1..Len(input) + 1 |-> j],
                          LAMBDA j : j = Len(input) + 1 \/ input[j] \in {Space, "TAB"})
    IN  [n \in DOMAIN ends |-> SubSeq(input, IF n = 1 THEN 1 ELSE ends[n - 1] + 1, ends[n] - 1)]

\* The command run: the first entry whose string (and hash) is argv[0].
Dispatch(commands, input) ==
    LET argv == Args(input) IN
    IF argv[1] \in commands THEN [cmd |-> argv[1], argv |-> argv] ELSE [cmd |-> Missing, argv |-> argv]

-----------------------------------------------------------------------------
(* What a line means.                                                        *)

\* Its words, in order.
Words(line) ==
    LET starts == {j \in DOMAIN line : line[j] # Space /\ (j = 1 \/ line[j - 1] = Space)}
    IN  [n \in 1..Cardinality(starts) |->
            LET j == CHOOSE j \in starts : Cardinality({k \in starts : k < j}) = n - 1
            IN  SubSeq(line, j, Find(line, j, {Space}) - 1)]

\* The text that a sequence of keys leaves, when a backspace takes the last character away.
Edited(keys) == FoldLeft(LAMBDA t, k : IF k = "BS" THEN Front(t) ELSE Append(t, k), <<>>, keys)
=============================================================================
